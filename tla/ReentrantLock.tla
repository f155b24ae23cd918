--------------------------- MODULE ReentrantLock ---------------------------
(***************************************************************************)
(* What the xHarbour manual promises of MutexLock and MutexUnlock          *)
(* (doc/thread.txt): one thread at a time has the lock, it may take it     *)
(* again any number of times and gives it back as often, and the lock of a *)
(* thread that ended is freed.                                             *)
(***************************************************************************)
EXTENDS Naturals

CONSTANT Threads

VARIABLES
    hold,   \* how many times each thread has the lock
    alive   \* the threads that may call MutexLock and MutexUnlock

vars == <<hold, alive>>

Init == /\ hold = [t \in Threads |-> 0]
        /\ alive \in SUBSET Threads

\* t takes the lock, or takes it again.
Take(t) == /\ t \in alive
           /\ \A u \in Threads \ {t} : hold[u] = 0
           /\ hold' = [hold EXCEPT ![t] = @ + 1]
           /\ UNCHANGED alive

\* t gives it back once.
Release(t) == /\ t \in alive
              /\ hold[t] > 0
              /\ hold' = [hold EXCEPT ![t] = @ - 1]
              /\ UNCHANGED alive

\* A thread ends; what it still holds is freed later.
End(t) == /\ t \in alive
          /\ alive' = alive \ {t}
          /\ UNCHANGED hold

Free(t) == /\ t \notin alive
           /\ hold[t] > 0
           /\ hold' = [hold EXCEPT ![t] = 0]
           /\ UNCHANGED alive

\* Another thread starts in the place of one that ended and holds nothing.
Begin(t) == /\ t \notin alive
            /\ hold[t] = 0
            /\ alive' = alive \cup {t}
            /\ UNCHANGED hold

Next == \E t \in Threads :
            Take(t) \/ Release(t) \/ End(t) \/ Free(t) \/ Begin(t)

Spec == Init /\ [][Next]_vars
=============================================================================
