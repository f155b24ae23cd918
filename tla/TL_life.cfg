CONSTANTS
    h1 = h1
    h2 = h2
    h3 = h3
    LastThread = 3
    Callers = {0, 2}
    NoThread <- NotAThread
    Handles <- TwoHandles
    NoHandle = noHandle
    HB_THREAD_MAX_UNIQUE_ID = 9
    Cases = {"startFails", "reuse", "joinCancel", "getThreadId"}
SPECIFICATION FairSpec
INVARIANTS ReadyCounted HandlesChained JoinTrue
PROPERTY Reaped
VIEW Told
CHECK_DEADLOCK FALSE
