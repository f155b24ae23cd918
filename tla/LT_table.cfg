CONSTANTS
    FileSize = 7
    HB_FLOCK_RESIZE = 1
    ReallocMoves = TRUE
SPECIFICATION Spec
INVARIANTS Sorted Capacity
PROPERTY IsByteLocks
CHECK_DEADLOCK FALSE
