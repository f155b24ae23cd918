--------------------------- MODULE MCSyncMethods ---------------------------
EXTENDS SyncMethods, TLC

CONSTANTS t1, t2, t3, none

TwoThreads   == {t1, t2}
ThreeThreads == {t1, t2, t3}

\* Each thread keeps to one class.
OneClassEach == [t \in ThreeThreads |-> IF t = t3 THEN {2} ELSE {1}]

\* Both threads send to both classes.
BothClasses == [t \in TwoThreads |-> {1, 2}]

\* Both send to class 1.
FirstClass == [t \in TwoThreads |-> {1}]
=============================================================================
