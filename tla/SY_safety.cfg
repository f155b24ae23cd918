CONSTANTS
    t1 = t1
    t2 = t2
    t3 = t3
    none = none
    Threads <- ThreeThreads
    NoThread = none
    Classes = {1, 2}
    Uses <- OneClassEach
    Inherited = {}
    MaxDepth = 3
SPECIFICATION Spec
INVARIANTS SyncExclusive ListBalanced
