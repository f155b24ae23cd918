--------------------------- MODULE MCRecordLocks ---------------------------
EXTENDS RecordLocks, TLC
CONSTANTS s1, s2
TwoStations == {s1, s2}
Symmetry == Permutations(TwoStations)
=============================================================================
