SPECIFICATION Spec
CONSTANTS
  r1 = r1
  r2 = r2
  alice = alice
  bob = bob
  carol = carol
  f1 = f1
  Users = {alice, bob}
  Owner = alice
  Requests = {r1, r2}
  Folders = {f1}
  Grants = {"read", "write"}
  Ops = {"edit"}
  MaxVersions = 2
  MaxCalls = 2
  Starts = {"shared"}
  Faults = FALSE
INVARIANTS
  HistoryComplete
CHECK_DEADLOCK FALSE
