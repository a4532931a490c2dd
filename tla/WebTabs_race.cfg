\* Two tabs share the token store; answers take up to one time unit.
SPECIFICATION Spec
CONSTANTS
  b1 = b1
  b2 = b2
  s1 = s1
  s2 = s2
  t1 = t1
  t2 = t2
  t3 = t3
  t4 = t4
  t5 = t5
  Tabs = {b1, b2}
  Slots = {s1, s2}
  Tokens = {t1, t2, t3}
  Grace = 1
  Settle = 1
  MaxDelay = 1
  AccessTTL = 1
  TTL = 3
  MaxTime = 4
SYMMETRY Symmetry
INVARIANTS
  RetiredForGood
  GraceHolds
PROPERTIES
  SignedOutForCause
  LogoutRevokes
CHECK_DEADLOCK FALSE
