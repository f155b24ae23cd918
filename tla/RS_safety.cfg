CONSTANTS
    main = main
    t1 = t1
    t2 = t2
    none = none
    Threads <- ThreeThreads
    Main = main
    NoThread = none
    Inspectors = {main, t1, t2}
    Cases = {"error", "idleFence", "inspectorEnds", "startFails", "cancel", "fenceCancel", "waitAll", "spurious"}
    MaxFailures = 1
SPECIFICATION Spec
INVARIANTS Exclusive CountKept
PROPERTY GateSpec
SYMMETRY Symmetry
CHECK_DEADLOCK FALSE
