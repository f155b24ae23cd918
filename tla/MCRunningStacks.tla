-------------------------- MODULE MCRunningStacks --------------------------
EXTENDS RunningStacks, TLC

CONSTANTS main, t1, t2, none

TwoThreads   == {main, t1}
ThreeThreads == {main, t1, t2}

Symmetry == Permutations({t1, t2})
=============================================================================
