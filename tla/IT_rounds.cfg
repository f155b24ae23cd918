CONSTANTS
    t1 = t1
    t2 = t2
    t3 = t3
    t4 = t4
    none = none
    Tasks <- FourTasks
    NoTask = none
    MaxTasks = 3
SPECIFICATION IdleFairSpec
INVARIANT OnceARound
PROPERTY RoundsRepeat
