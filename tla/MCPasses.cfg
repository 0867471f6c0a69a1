SPECIFICATION Spec
CONSTANTS
    MostRewrites = 8
    MinSaved = 2
    LeastRunBytes = 4
    MostRegions = 4
    Largest = 4096
    OverSmallest = 1024
    WideBits = 10
    LoopBits = 20
    MaxElements = 8
    MostShift = 12
    LeastShift = 6
    MaxConsumers = 3
    MaxOps = 4
INVARIANT BuffersAnswerAsGiven
INVARIANT OffloadAnswersAsGiven
INVARIANT ScalarsAnswerAsMeant
INVARIANT LoopsAnswerAsGiven
INVARIANT EveryCallVerifies
INVARIANT EveryPassConverges
PROPERTY HostAccessesWerePlaced
CHECK_DEADLOCK FALSE
