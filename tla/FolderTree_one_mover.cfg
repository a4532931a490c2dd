\* One device moves folders while others delete, create and share.
SPECIFICATION FairSpec
CONSTANTS
  r1 = r1
  r2 = r2
  fa = fa
  fb = fb
  fc = fc
  e1 = e1
  Folders = {fa, fb, fc}
  Entries = {e1}
  Requests = {r1, r2}
  Movers = {r1}
  Ops = {"move", "delete"}
  MaxCalls = 3
INVARIANTS
  NoOrphans
  Acyclic
PROPERTIES
  RequestsActAtOnce
  EveryRequestAnswered
CHECK_DEADLOCK FALSE
