CONSTANTS
    Layers <- SmallLayers
    DIM = 2
    SpadRows = 64
    AccRows = 16
    MaxEvals = 16
SPECIFICATION FairSpec
INVARIANTS TypeOK ResultFits TilesHaveExtent NoBetterNeighbour
PROPERTIES NothingLeftToGrow SearchEnds
CHECK_DEADLOCK FALSE
