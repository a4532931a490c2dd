\* Two commands in flight at a time; two logins that hold a code.
SPECIFICATION Spec
CONSTANTS
  e1 = e1
  e2 = e2
  r1 = r1
  r2 = r2
  NoEntry = NoEntry
  Missed = Missed
  Entries = {e1, e2}
  TypedTotp = {}
  Coded = {e1, e2}
  Menus = {"share"}
  Vaults = {1}
  Runners = {r1, r2}
INVARIANTS
  NothingLeftBehindTheLock
  SecretsAreOfTheDetail
  CopyIsWiped
  KeysAreWatched
SYMMETRY Symmetric
CHECK_DEADLOCK FALSE
