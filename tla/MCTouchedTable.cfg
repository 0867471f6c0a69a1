CONSTANTS
    Keys <- SevenBuffers
    Null = 0
    Hash <- Colliding
    InitialCap = 4
SPECIFICATION FairSpec
INVARIANTS TypeOK RoomToStop CountIsEntries
PROPERTIES ImplementsSeenOutputs EveryQuestionAnswered
CHECK_DEADLOCK FALSE
