CONSTANTS
    Functions <- SomeFunctions
    MaxCalls = 2
    MaxTrips = 2
SPECIFICATION Spec
INVARIANTS SlotsApart OnlyEscapingLeft DataSurvives FreedAsAllocated CallerOwnsResult
CHECK_DEADLOCK FALSE
