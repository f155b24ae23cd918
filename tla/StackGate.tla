----------------------------- MODULE StackGate -----------------------------
(***************************************************************************)
(* What the stack locking scheme promises: either any number of threads    *)
(* use their own stacks, or one inspector uses every stack and nobody else *)
(* runs.  doc/xhbt_internals.txt calls such a thread an "idle inspector".  *)
(* It says nothing of how the threads wait.                                *)
(***************************************************************************)
CONSTANT Threads

VARIABLES
    users,       \* threads that use their own stack
    inspectors   \* threads that use every stack

Init == /\ inspectors = {}
        /\ users \subseteq Threads

\* HB_STACK_LOCK returns, or a thread is started.
Enter(t) == /\ inspectors = {}
            /\ users' = users \cup {t}
            /\ UNCHANGED inspectors

\* HB_STACK_UNLOCK, a wait for the others, the end of a thread.
Leave(t) == /\ t \in users
            /\ users' = users \ {t}
            /\ UNCHANGED inspectors

\* hb_threadWaitForIdle returns.
Inspect(t) == /\ inspectors = {}
              /\ users \subseteq {t}
              /\ users' = {}
              /\ inspectors' = {t}

\* hb_threadIdleEnd: the inspector is an ordinary user again, or gone.
EndInspect(t) == /\ t \in inspectors
                 /\ inspectors' = inspectors \ {t}
                 /\ users' \in {users, users \cup {t}}

Next == \E t \in Threads :
            Enter(t) \/ Leave(t) \/ Inspect(t) \/ EndInspect(t)

Spec == Init /\ [][Next]_<<users, inspectors>>
=============================================================================
