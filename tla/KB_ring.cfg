CONSTANTS
    a = a
    move = move
    altC = altC
    none = none
    Plain <- OneKey
    K_MOUSEMOVE = move
    K_ALT_C = altC
    NoKey = none
    Default = 3
    TypeAheads <- AheadSizes
    MaxText = 3
SPECIFICATION Spec
VIEW Live
INVARIANT TextLeft
PROPERTY QueueSpec
CHECK_DEADLOCK FALSE
