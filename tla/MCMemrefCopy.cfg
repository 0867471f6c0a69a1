CONSTANTS
    Copies <- SmallCopies
    MaxRank = 8
    Word = 8
    ShortRun = 64
SPECIFICATION FairSpec
INVARIANTS TypeOK CopiesTheElements WordsAreAligned
PROPERTIES CopyEnds
CHECK_DEADLOCK FALSE
