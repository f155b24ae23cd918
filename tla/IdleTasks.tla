----------------------------- MODULE IdleTasks ------------------------------
(***************************************************************************)
(* The idle state (idle.c): each call of hb_idleState() collects garbage   *)
(* or runs the next task of a list, until a round is over; the round       *)
(* begins again at its end (SET IDLEREPEAT) or by hb_idleReset().  A task  *)
(* is PRG code: while it runs, it and other threads add and delete tasks.  *)
(* The names of the specification begin with Idle, so that a module can    *)
(* extend this one beside that of the calls that wait.                     *)
(***************************************************************************)
EXTENDS Integers, Sequences, FiniteSets

CONSTANTS
    Tasks,     \* the code blocks
    NoTask,
    MaxTasks   \* bound: the longest list

ASSUME TasksAssumption == NoTask \notin Tasks /\ IsFiniteSet(Tasks) /\ MaxTasks \in Nat

VARIABLES
    s_pIdleTasks,           \* the list; s_uiIdleMaxTask is its length
    s_uiIdleTask,           \* how many tasks of the round are behind
    s_bIamIdle,
    hb_vm_bCollectGarbage,
    idleRepeat,             \* _SET_IDLEREPEAT
    running,                \* the task that hb_itemDo() evaluates
    ran                     \* history: the tasks of the list that ran in the round

list == <<s_pIdleTasks, s_uiIdleTask>>
idleVars == <<list, s_bIamIdle, hb_vm_bCollectGarbage, idleRepeat, running, ran>>

IdleInit ==
    /\ s_pIdleTasks = <<>> /\ s_uiIdleTask = 0
    /\ s_bIamIdle = FALSE /\ hb_vm_bCollectGarbage = TRUE /\ idleRepeat \in BOOLEAN
    /\ running = NoTask /\ ran = {}

Listed == {s_pIdleTasks[i] : i \in DOMAIN s_pIdleTasks}

-----------------------------------------------------------------------------
(* hb_idleState, which does nothing when it is called from a task.         *)

Collect == /\ ~s_bIamIdle /\ hb_vm_bCollectGarbage
           /\ hb_vm_bCollectGarbage' = FALSE
           /\ UNCHANGED <<list, s_bIamIdle, idleRepeat, running, ran>>

BeginTask == /\ ~s_bIamIdle /\ ~hb_vm_bCollectGarbage
             /\ s_uiIdleTask < Len(s_pIdleTasks)
             /\ s_bIamIdle' = TRUE
             /\ running' = s_pIdleTasks[s_uiIdleTask + 1]
             /\ ran' = ran \cup {running'}
             /\ UNCHANGED <<list, hb_vm_bCollectGarbage, idleRepeat>>

EndTask == /\ running # NoTask
           /\ running' = NoTask
           /\ s_uiIdleTask' = s_uiIdleTask + 1
           /\ s_bIamIdle' = FALSE
           /\ UNCHANGED <<s_pIdleTasks, hb_vm_bCollectGarbage, idleRepeat, ran>>

\* A new round.
Again == /\ s_uiIdleTask' = 0 /\ ran' = {}
         /\ hb_vm_bCollectGarbage' = TRUE
         /\ UNCHANGED <<s_pIdleTasks, s_bIamIdle, idleRepeat, running>>

\* Mutant: the end of the round is not seen.
RepeatPast == /\ ~s_bIamIdle /\ ~hb_vm_bCollectGarbage
              /\ s_pIdleTasks # <<>> /\ idleRepeat
              /\ s_uiIdleTask > Len(s_pIdleTasks)
              /\ Again

Repeat == /\ ~s_bIamIdle /\ ~hb_vm_bCollectGarbage
          /\ s_pIdleTasks # <<>> /\ idleRepeat
          /\ s_uiIdleTask = Len(s_pIdleTasks)
          /\ Again

IdleState == Collect \/ BeginTask \/ Repeat

-----------------------------------------------------------------------------
(* The calls of the program, its threads and its tasks.                    *)

\* hb_idleReset.
IdleReset == s_uiIdleTask = Len(s_pIdleTasks) /\ Again

\* Mutant: the new task is the first one.
AddFirst(task) == /\ task \notin Listed /\ Len(s_pIdleTasks) < MaxTasks
                  /\ s_pIdleTasks' = <<task>> \o s_pIdleTasks
                  /\ UNCHANGED <<s_uiIdleTask, s_bIamIdle, hb_vm_bCollectGarbage,
                                 idleRepeat, running, ran>>

\* hb_idleAddFunc of a block that is not in the list.
Add(task) == /\ task \notin Listed /\ Len(s_pIdleTasks) < MaxTasks
             /\ s_pIdleTasks' = Append(s_pIdleTasks, task)
             /\ UNCHANGED <<s_uiIdleTask, s_bIamIdle, hb_vm_bCollectGarbage,
                            idleRepeat, running, ran>>

\* Where the index will be when the task that runs is done.
Behind == IF running = NoTask THEN s_uiIdleTask ELSE s_uiIdleTask + 1

Without(seq, i) == SubSeq(seq, 1, i - 1) \o SubSeq(seq, i + 1, Len(seq))

\* hb_idleDelFunc: the index stays where it is.
Del(i) == /\ s_pIdleTasks' = Without(s_pIdleTasks, i)
          /\ ran' = ran \ {s_pIdleTasks[i]}
          /\ UNCHANGED <<s_uiIdleTask, s_bIamIdle, hb_vm_bCollectGarbage, idleRepeat, running>>

SetIdleRepeat(on) == /\ idleRepeat' = on
                     /\ UNCHANGED <<list, s_bIamIdle, hb_vm_bCollectGarbage, running, ran>>

-----------------------------------------------------------------------------
IdleNext ==
    \/ IdleState \/ EndTask \/ IdleReset
    \/ \E task \in Tasks : Add(task)
    \/ \E i \in DOMAIN s_pIdleTasks : Del(i)
    \/ \E on \in BOOLEAN : SetIdleRepeat(on)

IdleSpec == IdleInit /\ [][IdleNext]_idleVars

\* The program waits in INKEY() or HB_IDLESLEEP(), and a task returns.
IdleFairSpec == IdleSpec /\ WF_idleVars(IdleState) /\ WF_idleVars(EndTask)

-----------------------------------------------------------------------------
IdleTypeOK ==
    /\ s_pIdleTasks \in Seq(Tasks) /\ s_uiIdleTask \in Nat
    /\ s_bIamIdle \in BOOLEAN /\ hb_vm_bCollectGarbage \in BOOLEAN
    /\ idleRepeat \in BOOLEAN /\ running \in Tasks \cup {NoTask} /\ ran \subseteq Tasks

\* The index is not behind the end of the list.  Both tests for the end of a round
\* ask for equality (idle.c:150, 163), so that no round begins where it is.
IndexInRange == Behind <= Len(s_pIdleTasks)

\* A task that ran is behind the index, so that it does not run again before the
\* others had their turn, whatever is added and deleted meanwhile.
OnceARound == \A i \in DOMAIN s_pIdleTasks : s_pIdleTasks[i] \in ran => i <= Behind

\* As long as rounds repeat and no deletion leaves the index behind the end of the
\* list, each task that stays in the list is run again and again, and so is the
\* garbage collector at the beginning of the rounds (idle.c:147-156).
RoundsRepeat ==
    /\ \A task \in Tasks :
          <>[](task \in Listed /\ idleRepeat /\ IndexInRange) => []<>(running = task)
    /\ <>[](s_pIdleTasks # <<>> /\ idleRepeat /\ IndexInRange)
         => []<>hb_vm_bCollectGarbage /\ []<>~hb_vm_bCollectGarbage

\* What doc/en/idle.txt:19-20 says without a condition, that in idle states the
\* collector is called and so are the program's actions.  TLC refutes it: a task
\* that deletes itself at the end of a round leaves the index behind the end.
RoundsGoOn == \A task \in Tasks : <>[](task \in Listed /\ idleRepeat) => []<>(running = task)
=============================================================================
