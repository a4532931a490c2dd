\* One request at a time: everything a user relies on holds.
SPECIFICATION Spec
CONSTANTS
  r1 = r1
  r2 = r2
  alice = alice
  bob = bob
  carol = carol
  f1 = f1
  Users = {alice, bob}
  Owner = alice
  Requests = {r1}
  Folders = {f1}
  Grants = {"read", "write"}
  Ops = {"create", "edit", "move", "rewrap", "trash", "untrash", "share", "revoke", "restoreVersion"}
  MaxVersions = 2
  MaxCalls = 5
  Starts = {"absent", "rekeyed"}
  Faults = FALSE
INVARIANTS
  HistoryComplete
  KeysMatchPermissions
  OwnerReads
CHECK_DEADLOCK FALSE
