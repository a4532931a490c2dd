\* Three accounts, one invitation, two requests in flight, five in all.
SPECIFICATION Spec
CONSTANTS
  a = a
  b = b
  c = c
  i1 = i1
  s1 = s1
  s2 = s2
  Emails = {a, b, c}
  Invites = {i1}
  Slots = {s1, s2}
  MaxCalls = 5
INVARIANTS
  OneAccountPerInvitation
  OneBootstrap
  PendingHasNoTokens
  CodeIsAsked
  SoleAdminStays
SYMMETRY Symmetric
CHECK_DEADLOCK FALSE
