SPECIFICATION Spec
CONSTANTS
  Clients = {c1, c2}
  Burst = 1
  TTL = 2
  MaxStall = 1
  MaxTime = 3
  Requests = {r1, r2}
  Links = {l1}
  Limits = {2}
  Validities = {2}
  Secrets = {TRUE}
  MaxFaults = 1
SYMMETRY Symmetry
INVARIANT ViewsAreBounded
INVARIANT ClosedStaysClosed
PROPERTY LimiterForgetsNothing
CHECK_DEADLOCK FALSE
