CONSTANTS
    t1 = t1
    t2 = t2
    t3 = t3
    none = none
    Threads <- ThreeThreads
    NoThread = none
    Lockers = {t1, t2}
    Subscribers = {t2, t3}
    Cases = {"timedLock", "subscribeNow", "notifyAll", "lockedSubscribe", "lockCancel", "spurious"}
    Modulus = 3
    MaxNotes = 2
SPECIFICATION FairSpec
INVARIANTS WaitingCounts LockerAwake SubscriberAwake
PROPERTIES LockTaken EventTaken
CHECK_DEADLOCK FALSE
