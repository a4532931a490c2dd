SPECIFICATION FairSpec
CONSTANTS
  r1 = r1
  r2 = r2
  alice = alice
  bob = bob
  carol = carol
  f1 = f1
  Users = {alice, bob}
  Owner = alice
  Requests = {r1, r2}
  Folders = {f1}
  Grants = {"read"}
  Ops = {"create", "edit", "move", "rewrap", "trash", "untrash", "purge", "share", "revoke", "restoreVersion", "read", "readVersion"}
  MaxVersions = 1
  MaxCalls = 3
  Starts = {"absent", "edited"}
  Faults = TRUE
INVARIANTS
  VersionsBounded
  StoredKeysOpen
  AnswersOpen
  PurgedIsEmpty
PROPERTIES
  EveryRequestAnswered
CHECK_DEADLOCK FALSE
