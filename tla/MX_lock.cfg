CONSTANTS
    t1 = t1
    t2 = t2
    t3 = t3
    none = none
    Threads <- ThreeThreads
    NoThread = none
    Lockers = {t1, t2, t3}
    Subscribers = {t1, t2, t3}
    Cases = {"timedLock", "timedSubscribe", "lockedSubscribe", "dieHolding", "lockCancel", "subCancel", "spurious"}
    Modulus = 4
    MaxNotes = 3
SPECIFICATION Spec
INVARIANT Conserved
PROPERTY LockSpec
CHECK_DEADLOCK FALSE
