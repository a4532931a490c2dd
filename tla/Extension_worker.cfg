SPECIFICATION FairSpec
CONSTANTS
  MaxTries = 2
  MaxTokens = 3
  MaxKills = 1
INVARIANT OnlyUnlockOpens
INVARIANT GuessesAreBounded
INVARIANT TokenIsKept
PROPERTY IdleVaultLocks
CHECK_DEADLOCK FALSE
