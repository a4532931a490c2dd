\* Two devices move folders at once.
SPECIFICATION Spec
CONSTANTS
  r1 = r1
  r2 = r2
  fa = fa
  fb = fb
  fc = fc
  e1 = e1
  Folders = {fa, fb, fc}
  Entries = {e1}
  Requests = {r1, r2}
  Movers = {r1, r2}
  Ops = {"move"}
  MaxCalls = 2
INVARIANTS
  Acyclic
CHECK_DEADLOCK FALSE
