CONSTANTS
    Layers <- LargePool
    DIM = 16
    SpadRows = 8192
    AccRows = 512
    MaxEvals = 512
SPECIFICATION Spec
INVARIANT LegalTiling
CHECK_DEADLOCK FALSE
