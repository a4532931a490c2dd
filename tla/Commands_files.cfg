SPECIFICATION CommandsSpec
CONSTANTS
    e1 = e1
    e2 = e2
    e3 = e3
    Ids = {e1, e2, e3}
    Vaults <- MCVaults
    Fill <- MCFill
    Foreign <- MCForeign
    MaxCommands = 2
    MaxRival = 1
    MaxFailures = 1
INVARIANTS NothingLeftOutSilently ComesHome ImportTwiceAddsNothing OptionsFitTheSecret
PROPERTY MergeKeepsTheRest
CHECK_DEADLOCK FALSE
