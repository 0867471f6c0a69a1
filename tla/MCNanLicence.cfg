SPECIFICATION Spec
CONSTANTS
    Largest = 4096
    OverSmallest = 1024
    WideBits = 10
INVARIANT LicenceIsARefinement
CHECK_DEADLOCK FALSE
