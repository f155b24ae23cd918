CONSTANTS
    o1 = o1
    o2 = o2
    a1 = a1
    Blocks <- ThreeBlocks
    Objects = {o1, o2}
    Cases = {"lock"}
    LongMax = 9
    MaxHolders = 2
SPECIFICATION FairSpec
PROPERTIES FinalizedFirst CollectsAll CollectEnds
INVARIANTS NoDangling HoldersCounted SameFlag
CHECK_DEADLOCK FALSE
