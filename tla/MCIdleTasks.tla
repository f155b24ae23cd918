---------------------------- MODULE MCIdleTasks -----------------------------
EXTENDS IdleTasks
CONSTANTS t1, t2, t3, t4, none
FourTasks == {t1, t2, t3, t4}
=============================================================================
