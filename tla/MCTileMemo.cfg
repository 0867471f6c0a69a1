CONSTANTS
    Keys <- SevenKeys
    Null = 0
    Hash <- Colliding
    Memos <- TwoMemos
    Cap = 4
    Tilings <- AllTilings
    NoTiling = 0
    Search <- Found
    Legal <- Passing
    Calls <- ProgramCalls
SPECIFICATION FairSpec
INVARIANTS SkippedWereChecked SlotLeft
PROPERTIES ImplementsTiledCalls EveryCallEnds
CHECK_DEADLOCK FALSE
