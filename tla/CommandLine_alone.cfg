SPECIFICATION Spec
CONSTANTS
  Procs = {p1}
  Entries = {e1, e2, s1}
  ReadOnly = {s1}
  MaxTries = 2
  AskedDays <- AnyInterval
  MaxKeys = 2
  MaxTokens = 3
  MaxDay = 4
  MaxFaults = 2
SYMMETRY Symmetry
INVARIANT EntriesStayReadable
INVARIANT EveryGuessIsCounted
INVARIANT SessionIsKept
CHECK_DEADLOCK FALSE
