------------------------- MODULE MCGarbageCollector -------------------------
EXTENDS GarbageCollector, TLC

CONSTANTS o1, o2, a1

TwoBlocks   == {o1, a1}
ThreeBlocks == {o1, o2, a1}
=============================================================================
