--------------------------- MODULE MCMutexObject ---------------------------
EXTENDS MutexObject, TLC

CONSTANTS t1, t2, t3, none

TwoThreads   == {t1, t2}
ThreeThreads == {t1, t2, t3}

Symmetry == Permutations(ThreeThreads)
=============================================================================
