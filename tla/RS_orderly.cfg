CONSTANTS
    main = main
    t1 = t1
    t2 = t2
    none = none
    Threads <- ThreeThreads
    Main = main
    NoThread = none
    Inspectors = {t1}
    Cases = {"error", "cancel", "idleCancel", "waitAll"}
    MaxFailures = 0
SPECIFICATION FairSpec
INVARIANT FenceHasOwner
PROPERTIES FenceHolds FenceOpens InspectorGetsIn WaitAllReturns
