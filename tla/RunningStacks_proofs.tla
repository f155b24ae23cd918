------------------------ MODULE RunningStacks_proofs ------------------------
(***************************************************************************)
(* For any number of threads and any set of hard cases that is             *)
(* Disciplined: inspections are exclusive, the count of running stacks is  *)
(* exact, and the scheme implements StackGate.                             *)
(***************************************************************************)
EXTENDS RunningStacks, FiniteSetTheorems, TLAPS

Types == /\ content \in Int /\ aux \in {0, 1}
         /\ owner \in Threads \cup {NoThread} /\ depth \in Nat
         /\ waiting \subseteq Threads
         /\ bIdleFence \in {"up", "down"} /\ asked \in {"up", "down"}
         /\ pc \in [Threads -> Places]
         /\ bInUse \in [Threads -> BOOLEAN]
         /\ uiIdleInspect \in [Threads -> {0, 1}]
         /\ saved \in [Threads -> {"none", "up", "down"}]
         /\ canceled \subseteq Threads /\ dying \subseteq Threads
         /\ failed \in 0..MaxFailures

\* A thread in a critical section cut in two holds the Mutex.
FencedHolds == \A t \in Threads :
                   pc[t] = "fenced" => owner = t /\ depth > 0

\* What a thread does, by its place.
PlaceInv == \A t \in Threads :
    /\ pc[t] \in {"none", "fenced", "lockWait", "idleWait", "allWait"}
       => ~bInUse[t] /\ uiIdleInspect[t] = 0
    /\ pc[t] \in {"forced", "idleEnd"} => bInUse[t]
    /\ pc[t] \in {"forced", "idleWait"} => t \in Inspectors
    /\ pc[t] = "forced" => saved[t] # "none"
    /\ pc[t] = "restore" => saved[t] # "none"

\* What holds while a thread inspects.
InspectInv == \A t \in Threads :
    uiIdleInspect[t] = 1 => /\ aux = 1
                            /\ t \in Inspectors
                            /\ ~bInUse[t]
                            /\ Counted = {t}

IInv == Types /\ FencedHolds /\ PlaceInv /\ InspectInv /\ CountKept

-----------------------------------------------------------------------------
(* The cardinality of Counted.                                             *)

\* The count of a finite set of threads, when one comes or goes.
LEMMA Counting ==
    ASSUME NEW S \in SUBSET Threads
    PROVE  /\ Cardinality(S) \in Nat
           /\ Cardinality(S) = 0 => S = {}
           /\ \A t \in S : Cardinality(S \ {t}) = Cardinality(S) - 1
           /\ \A t \in Threads \ S :
                  Cardinality(S \cup {t}) = Cardinality(S) + 1
           /\ \A t \in S : Cardinality(S) = 1 => S = {t}
<1>1. IsFiniteSet(S)
  BY FiniteThreads, FS_Subset
<1>2. Cardinality(S) \in Nat
  BY <1>1, FS_CardinalityType
<1>3. Cardinality(S) = 0 => S = {}
  BY <1>1, FS_EmptySet
<1>4. \A t \in S : Cardinality(S \ {t}) = Cardinality(S) - 1
  BY <1>1, FS_RemoveElement
<1>5. \A t \in Threads \ S : Cardinality(S \cup {t}) = Cardinality(S) + 1
  BY <1>1, FS_AddElement
<1>6. ASSUME NEW t \in S, Cardinality(S) = 1
      PROVE  S = {t}
  <2>1. IsFiniteSet(S \ {t}) /\ Cardinality(S \ {t}) = 0
    BY <1>1, <1>4, <1>6, FS_RemoveElement
  <2>2. S \ {t} = {}
    BY <2>1, FS_EmptySet
  <2> QED
    BY <2>2
<1> QED
  BY <1>2, <1>3, <1>4, <1>5, <1>6

-----------------------------------------------------------------------------
(* The inductive invariant.                                                *)

\* Initially only the main thread runs.
LEMMA InitInv == Init => IInv
<1> SUFFICES ASSUME Init PROVE IInv
  OBVIOUS
<1>1. Types
  BY MainAssumption, BoundAssumption DEF Init, Types, Places
<1>2. \A t \in Threads : bInUse[t] <=> t = Main
  BY DEF Init
<1>3. Counted = {Main}
  BY <1>2, MainAssumption DEF Init, Counted
<1>5. FencedHolds /\ PlaceInv /\ InspectInv
  BY <1>2 DEF Init, FencedHolds, PlaceInv, InspectInv
<1>4. CountKept
  BY <1>3, FS_Singleton DEF Init, CountKept
<1> QED
  BY <1>1, <1>4, <1>5 DEF IInv

\* What Counting says of Counted.
LEMMA CountedIsSet == Counted \in SUBSET Threads
  BY DEF Counted

\* HB_STACK_UNLOCK.
LEMMA StackUnlockInv ==
    ASSUME IInv, NEW t \in Threads, StackUnlock(t)
    PROVE  IInv'
<1> USE DEF IInv, Types
<1>1. t \in Counted /\ Counted' = Counted \ {t}
  BY DEF StackUnlock, Running, Counted
<1>2. Types'
  BY DEF StackUnlock, Signal, lock, fence
<1>3. FencedHolds' /\ PlaceInv'
  BY DEF FencedHolds, PlaceInv, StackUnlock, Running, lock
<1>4. InspectInv'
  BY <1>1 DEF InspectInv, StackUnlock, Running
<1>5. CountKept'
  BY <1>1, Counting, CountedIsSet DEF CountKept, StackUnlock
<1> QED
  BY <1>2, <1>3, <1>4, <1>5

\* HB_STACK_LOCK, up to the wait.
LEMMA TestFenceInv ==
    ASSUME IInv, NEW t \in Threads, TestFence(t)
    PROVE  IInv'
<1> USE DEF IInv, Types
<1>1. t \notin Counted
  BY DEF TestFence, Released, PlaceInv, Counted
<1>2. CASE aux = 0
  <2>1. Counted' = Counted \cup {t}
    BY <1>2 DEF TestFence, Counted
  <2>2. Types'
    <3>1. bInUse' \in [Threads -> BOOLEAN] /\ pc' \in [Threads -> Places]
      BY <1>2 DEF TestFence, Goto, Places
    <3> QED
      BY <1>2, <3>1 DEF TestFence, lock, fence
  <2>3. FencedHolds' /\ PlaceInv'
    BY <1>2 DEF FencedHolds, PlaceInv, TestFence, Goto, lock
  <2>4. InspectInv'
    BY <1>2 DEF InspectInv, TestFence
  <2>5. CountKept'
    BY <1>1, <1>2, <2>1, Counting, CountedIsSet DEF CountKept, TestFence
  <2> QED
    BY <2>2, <2>3, <2>4, <2>5
<1>3. CASE aux = 1
  <2>1. Counted' = Counted
    BY <1>3 DEF TestFence, Counted
  <2>2. Types'
    BY <1>3 DEF TestFence, Goto, Places, lock, fence
  <2>3. FencedHolds'
    BY <1>3, MainAssumption DEF FencedHolds, TestFence, MutexFree, Goto
  <2>4. PlaceInv'
    BY <1>1, <1>3 DEF PlaceInv, TestFence, Goto, Counted
  <2>5. InspectInv' /\ CountKept'
    BY <1>3, <2>1 DEF InspectInv, CountKept, TestFence
  <2> QED
    BY <2>2, <2>3, <2>4, <2>5
<1> QED
  BY <1>2, <1>3

\* HB_STACK_LOCK, the wait.
LEMMA FenceWaitInv ==
    ASSUME IInv, NEW t \in Threads, FenceWait(t)
    PROVE  IInv'
<1> USE DEF IInv, Types
<1>1. Counted' = Counted
  BY DEF FenceWait, Counted
<1>2. Types'
  BY DEF FencedHolds, FenceWait, Goto, Places, gate
<1>3. FencedHolds' /\ PlaceInv'
  BY DEF FencedHolds, PlaceInv, FenceWait, Goto
<1>4. InspectInv' /\ CountKept'
  BY <1>1 DEF InspectInv, CountKept, FenceWait, gate
<1> QED
  BY <1>2, <1>3, <1>4

\* The error handler forces the fence option.
LEMMA ForceFenceInv ==
    ASSUME Disciplined, IInv, NEW t \in Threads, ForceFence(t)
    PROVE  IInv'
<1> USE DEF IInv, Types
<1>1. uiIdleInspect[t] = 0 /\ bInUse[t] /\ t \in Inspectors
  BY DEF ForceFence, MayInspect, Running, Disciplined
<1>2. Counted' = Counted
  BY DEF ForceFence, Counted
<1>3. Types'
  BY DEF ForceFence, Goto, Places, lock
<1>4. FencedHolds' /\ PlaceInv'
  BY <1>1 DEF FencedHolds, PlaceInv, ForceFence, Goto, lock
<1>5. InspectInv' /\ CountKept'
  BY <1>2 DEF InspectInv, CountKept, ForceFence
<1> QED
  BY <1>3, <1>4, <1>5

\* The error handler restores it.
LEMMA RestoreFenceInv ==
    ASSUME IInv, NEW t \in Threads, RestoreFence(t)
    PROVE  IInv'
<1> USE DEF IInv, Types
<1>1. Counted' = Counted
  BY DEF RestoreFence, Counted
<1>2. Types'
  BY DEF PlaceInv, RestoreFence, Goto, Places, lock
<1>3. FencedHolds' /\ PlaceInv'
  BY DEF FencedHolds, PlaceInv, RestoreFence, Goto, lock
<1>4. InspectInv' /\ CountKept'
  BY <1>1 DEF InspectInv, CountKept, RestoreFence
<1> QED
  BY <1>2, <1>3, <1>4

\* hb_threadWaitForIdle, up to the first wait.
LEMMA WaitForIdleInv ==
    ASSUME Disciplined, IInv, NEW t \in Threads, WaitForIdle(t)
    PROVE  IInv'
<1> USE DEF IInv, Types
<1>1. /\ uiIdleInspect[t] = 0 /\ bInUse[t] /\ t \in Inspectors
      /\ t \in Counted
  BY DEF WaitForIdle, MayInspect, Running, Disciplined, PlaceInv, InspectInv,
         Counted
<1>2. CASE content = 1
  <2>1. Cardinality(Counted) \in Nat /\ Cardinality(Counted) # 0
    BY <1>1, Counting, CountedIsSet, FS_EmptySet, FiniteThreads, FS_Subset
  <2>2. Counted = {t}
    BY <1>1, <1>2, <2>1, Counting, CountedIsSet DEF CountKept
  <2>3. /\ uiIdleInspect' = [uiIdleInspect EXCEPT ![t] = 1]
        /\ bInUse' = [bInUse EXCEPT ![t] = FALSE]
    BY <1>1, <1>2 DEF WaitForIdle, BecomeInspector
  <2>4. Counted' = {t}
    BY <2>2, <2>3 DEF Counted
  <2>5. Types'
    BY <1>2, <2>3 DEF WaitForIdle, BecomeInspector, Goto, Places, lock, fence
  <2>6. FencedHolds' /\ PlaceInv'
    BY <1>2, <2>3 DEF FencedHolds, PlaceInv, WaitForIdle, BecomeInspector,
                      Goto, lock
  <2>7. \A u \in Threads : u # t => uiIdleInspect'[u] = 0
    BY <2>2, <2>3 DEF Counted
  <2>8. InspectInv'
    BY <1>1, <1>2, <2>3, <2>4, <2>7
    DEF InspectInv, WaitForIdle, BecomeInspector
  <2>9. CountKept'
    BY <1>2, <2>2, <2>4 DEF CountKept, WaitForIdle
  <2> QED
    BY <2>5, <2>6, <2>8, <2>9
<1>3. CASE content # 1
  <2>1. Counted' = Counted \ {t}
    BY <1>1, <1>3 DEF WaitForIdle, Counted
  <2>2. Types'
    BY <1>3 DEF WaitForIdle, Goto, Places, lock, fence
  <2>3. FencedHolds' /\ PlaceInv'
    BY <1>1, <1>3 DEF FencedHolds, PlaceInv, WaitForIdle, Goto, lock
  <2>4. InspectInv'
    BY <1>1, <1>3, <2>1 DEF InspectInv, WaitForIdle
  <2>5. CountKept'
    BY <1>1, <1>3, <2>1, Counting, CountedIsSet DEF CountKept, WaitForIdle
  <2> QED
    BY <2>2, <2>3, <2>4, <2>5
<1> QED
  BY <1>2, <1>3

\* hb_threadWaitForIdle, back from a wait.
LEMMA IdleWakeInv ==
    ASSUME IInv, NEW t \in Threads, IdleWake(t)
    PROVE  IInv'
<1> USE DEF IInv, Types
<1>1. /\ uiIdleInspect[t] = 0 /\ ~bInUse[t] /\ t \in Inspectors
      /\ t \notin Counted
  BY DEF IdleWake, PlaceInv, Counted
<1>2. CASE content = 0
  <2>1. Counted = {}
    BY <1>2, Counting, CountedIsSet DEF CountKept
  <2>2. uiIdleInspect' = [uiIdleInspect EXCEPT ![t] = 1]
    BY <1>1, <1>2 DEF IdleWake, BecomeInspector
  <2>3. Counted' = Counted \cup {t} /\ Counted' = {t}
    BY <1>2, <2>1, <2>2 DEF Counted, IdleWake
  <2>4. Types'
    BY <1>2, <2>2 DEF IdleWake, BecomeInspector, Goto, Places, lock, fence
  <2>5. FencedHolds' /\ PlaceInv'
    BY <1>2, <2>2 DEF FencedHolds, PlaceInv, IdleWake, BecomeInspector, Goto,
                      lock
  <2>6. \A u \in Threads : u # t => uiIdleInspect'[u] = 0
    BY <2>1, <2>2 DEF Counted
  <2>7. InspectInv'
    BY <1>1, <1>2, <2>2, <2>3, <2>6
    DEF InspectInv, IdleWake, BecomeInspector
  <2>8. CountKept'
    BY <1>1, <1>2, <2>3, Counting, CountedIsSet DEF CountKept, IdleWake
  <2> QED
    BY <2>4, <2>5, <2>7, <2>8
<1>3. CASE content # 0
  <2>1. Counted' = Counted
    BY <1>3 DEF IdleWake, Counted
  <2>2. Types' /\ FencedHolds' /\ PlaceInv'
    BY <1>3 DEF IdleWake, lock, fence, FencedHolds, PlaceInv
  <2>3. InspectInv' /\ CountKept'
    BY <1>3, <2>1 DEF InspectInv, CountKept, IdleWake
  <2> QED
    BY <2>2, <2>3
<1> QED
  BY <1>2, <1>3

\* hb_threadIdleEnd, the assignments.
LEMMA IdleEndInv ==
    ASSUME IInv, NEW t \in Threads, IdleEnd(t)
    PROVE  IInv'
<1> USE DEF IInv, Types
<1>1. uiIdleInspect[t] = 1 /\ Counted = {t}
  BY DEF IdleEnd, InspectInv
<1>2. /\ uiIdleInspect' = [uiIdleInspect EXCEPT ![t] = 0]
      /\ bInUse' = [bInUse EXCEPT ![t] = TRUE]
  BY <1>1 DEF IdleEnd
<1>3. Counted' = {t}
  BY <1>1, <1>2 DEF Counted
<1>4. Types'
  <2>1. bInUse' \in [Threads -> BOOLEAN] /\ pc' \in [Threads -> Places]
    BY <1>2 DEF IdleEnd, Goto, Places
  <2> QED
    BY <1>2, <2>1 DEF IdleEnd, lock, fence
<1>5. FencedHolds' /\ PlaceInv'
  BY <1>2 DEF FencedHolds, PlaceInv, IdleEnd, Goto, Running, lock
<1>6. InspectInv'
  BY <1>1, <1>2 DEF InspectInv, Counted
<1>7. CountKept'
  BY <1>1, <1>3 DEF CountKept, IdleEnd
<1> QED
  BY <1>4, <1>5, <1>6, <1>7

\* The steps that change neither the stacks in use nor the fence: the signal
\* of hb_threadIdleEnd, THREADIDLEFENCE, a cancellation on its way, the entry
\* of hb_threadTerminator and a wait that returns with no signal.
LEMMA QuietInv ==
    ASSUME IInv, NEW t \in Threads,
           \/ IdleSignal(t) \/ ThreadIdleFence(t)
           \/ \E targets \in SUBSET Threads : Cancel(t, targets)
           \/ TestCancel(t) \/ Exit(t) \/ SpuriousWake(t)
    PROVE  IInv'
<1> USE DEF IInv, Types
<1>1. /\ UNCHANGED <<content, aux, owner, depth, bInUse, uiIdleInspect>>
      /\ UNCHANGED <<saved, failed>>
  BY DEF IdleSignal, ThreadIdleFence, Cancel, TestCancel, Exit, SpuriousWake,
         lock, gate
<1>2. \/ pc' = pc
      \/ /\ pc[t] = "idleEnd"
         /\ pc' = [pc EXCEPT ![t] = "exec"]
  BY DEF IdleSignal, ThreadIdleFence, Cancel, TestCancel, Exit, SpuriousWake,
         Goto
<1>3. /\ bIdleFence' \in {"up", "down"} /\ asked' \in {"up", "down"}
      /\ waiting' \subseteq Threads
      /\ canceled' \subseteq Threads /\ dying' \subseteq Threads
  BY DEF IdleSignal, ThreadIdleFence, Cancel, TestCancel, Exit, SpuriousWake,
         Signal, gate
<1>4. Types'
  BY <1>1, <1>2, <1>3 DEF Places
<1>5. FencedHolds' /\ PlaceInv'
  BY <1>1, <1>2 DEF FencedHolds, PlaceInv
<1>6. Counted' = Counted
  BY <1>1 DEF Counted
<1>7. InspectInv' /\ CountKept'
  BY <1>1, <1>6 DEF InspectInv, CountKept
<1> QED
  BY <1>4, <1>5, <1>7

\* StartThread.
LEMMA StartThreadInv ==
    ASSUME Disciplined, IInv, NEW t \in Threads, NEW child \in Threads,
           StartThread(t, child)
    PROVE  IInv'
<1> USE DEF IInv, Types
<1>1. uiIdleInspect[t] = 0 /\ bInUse[t] /\ t \in Counted
  BY DEF StartThread, Running, Disciplined, Counted
<1>2. \A u \in Threads : uiIdleInspect[u] = 0
  BY <1>1 DEF InspectInv
<1>3. ~bInUse[child] /\ child \notin Counted
  BY <1>2 DEF StartThread, Alive, PlaceInv, Counted
<1>4. bInUse' = [bInUse EXCEPT ![child] = TRUE]
  BY DEF StartThread
<1>5. Counted' = Counted \cup {child}
  BY <1>4 DEF StartThread, Counted
<1>6. Types'
  <2>1. bInUse' \in [Threads -> BOOLEAN] /\ pc' \in [Threads -> Places]
    BY <1>4 DEF StartThread, Goto, Places
  <2> QED
    BY <2>1 DEF StartThread, lock, fence
<1>7. FencedHolds' /\ PlaceInv'
  BY <1>4 DEF FencedHolds, PlaceInv, StartThread, Goto, lock
<1>8. InspectInv'
  BY <1>2 DEF InspectInv, StartThread
<1>9. CountKept'
  BY <1>3, <1>5, Counting, CountedIsSet DEF CountKept, StartThread
<1> QED
  BY <1>6, <1>7, <1>8, <1>9

\* StartThread when pthread_create fails.
LEMMA StartThreadFailsInv ==
    ASSUME IInv, NEW t \in Threads, StartThreadFails(t)
    PROVE  IInv'
<1> USE DEF IInv, Types
<1>1. Counted' = Counted
  BY DEF StartThreadFails, Counted
<1>2. Types'
  BY BoundAssumption DEF StartThreadFails, lock, fence
<1>3. FencedHolds' /\ PlaceInv' /\ InspectInv'
  BY <1>1 DEF StartThreadFails, FencedHolds, PlaceInv, InspectInv, lock
<1>4. CountKept'
  BY <1>1, Counting, CountedIsSet DEF StartThreadFails, CountKept
<1> QED
  BY <1>2, <1>3, <1>4

\* A cancellation in HB_STACK_LOCK.
LEMMA CancelInFenceInv ==
    ASSUME IInv, NEW t \in Threads, CancelInFence(t)
    PROVE  IInv'
<1> USE DEF IInv, Types
<1>1. Counted' = Counted
  BY DEF CancelInFence, Counted
<1>2. Types'
  BY DEF CancelInFence, Goto, Places, gate
<1>3. FencedHolds'
  BY MainAssumption DEF FencedHolds, CancelInFence, Goto, MutexFree
<1>4. PlaceInv'
  BY DEF PlaceInv, CancelInFence, Goto
<1>5. InspectInv' /\ CountKept'
  BY <1>1 DEF InspectInv, CountKept, CancelInFence, gate
<1> QED
  BY <1>2, <1>3, <1>4, <1>5

\* A cancellation in hb_threadWaitForIdle lowers the fence: there must be no
\* inspector.
LEMMA CancelInIdleInv ==
    ASSUME Disciplined, IInv, NEW t \in Threads, CancelInIdle(t)
    PROVE  IInv'
<1> USE DEF IInv, Types
<1>1. uiIdleInspect[t] = 0 /\ t \in Inspectors
  BY DEF CancelInIdle, PlaceInv
<1>2. \A u \in Threads : uiIdleInspect[u] = 0
  BY <1>1 DEF InspectInv, Disciplined, CancelInIdle
<1>3. Counted' = Counted
  BY DEF CancelInIdle, Counted
<1>4. Types'
  BY DEF CancelInIdle, Goto, Places, Signal, lock, fence
<1>5. FencedHolds' /\ PlaceInv'
  BY DEF FencedHolds, PlaceInv, CancelInIdle, Goto, lock
<1>6. InspectInv' /\ CountKept'
  BY <1>2, <1>3 DEF InspectInv, CountKept, CancelInIdle
<1> QED
  BY <1>4, <1>5, <1>6

\* The end of hb_threadTerminator.
LEMMA TerminateInv ==
    ASSUME IInv, NEW t \in Threads, Terminate(t)
    PROVE  IInv'
<1> USE DEF IInv, Types
<1>1. /\ bInUse' = [bInUse EXCEPT ![t] = FALSE]
      /\ uiIdleInspect' = [uiIdleInspect EXCEPT ![t] = 0]
      /\ saved' = [saved EXCEPT ![t] = "none"]
      /\ pc' = [pc EXCEPT ![t] = "none"]
  BY DEF Terminate, Goto
<1>2. t \in Counted /\ Counted' = Counted \ {t}
  BY <1>1 DEF Terminate, Counted
<1>3. Types'
  BY <1>1 DEF Terminate, Signal, Places, lock, fence
<1>4. FencedHolds' /\ PlaceInv'
  BY <1>1 DEF FencedHolds, PlaceInv, Terminate, lock
<1>5. InspectInv'
  <2> SUFFICES ASSUME NEW u \in Threads, uiIdleInspect'[u] = 1
               PROVE  /\ aux' = 1 /\ u \in Inspectors
                      /\ ~bInUse'[u] /\ Counted' = {u}
    BY DEF InspectInv
  <2>1. u # t /\ uiIdleInspect[u] = 1
    BY <1>1
  <2>2. Counted = {u}
    BY <2>1 DEF InspectInv
  <2> QED
    BY <1>2, <2>1, <2>2
<1>6. CountKept'
  BY <1>2, Counting, CountedIsSet DEF CountKept, Terminate
<1> QED
  BY <1>3, <1>4, <1>5, <1>6

\* hb_threadWaitAll, up to the first wait.
LEMMA WaitAllInv ==
    ASSUME IInv, WaitAll
    PROVE  IInv'
<1> USE DEF IInv, Types
<1>1. CASE content - 1 > 0 \/ OthersAlive
  <2>1. Main \in Counted /\ Counted' = Counted \ {Main}
    BY <1>1, MainAssumption DEF WaitAll, Running, Counted
  <2>2. Types'
    <3>1. bInUse' \in [Threads -> BOOLEAN] /\ pc' \in [Threads -> Places]
      BY <1>1 DEF WaitAll, Goto, Places
    <3>2. waiting' \subseteq Threads
      BY <1>1, MainAssumption DEF WaitAll
    <3> QED
      BY <1>1, <3>1, <3>2 DEF WaitAll, lock, fence
  <2>3. FencedHolds' /\ PlaceInv'
    BY <1>1 DEF FencedHolds, PlaceInv, WaitAll, Goto, lock
  <2>4. InspectInv'
    BY <1>1, <2>1, MainAssumption DEF InspectInv, WaitAll, Running
  <2>5. CountKept'
    BY <1>1, <2>1, Counting, CountedIsSet DEF CountKept, WaitAll
  <2> QED
    BY <2>2, <2>3, <2>4, <2>5
<1>2. CASE ~(content - 1 > 0 \/ OthersAlive)
  <2>1. Counted' = Counted
    BY <1>2 DEF WaitAll, Counted
  <2>2. Types' /\ FencedHolds' /\ PlaceInv' /\ InspectInv' /\ CountKept'
    BY <1>2, <2>1 DEF WaitAll, Signal, lock, fence, FencedHolds, PlaceInv,
                      InspectInv, CountKept
  <2> QED
    BY <2>2
<1> QED
  BY <1>1, <1>2

\* hb_threadWaitAll, back from a wait.
LEMMA AllWakeInv ==
    ASSUME IInv, AllWake
    PROVE  IInv'
<1> USE DEF IInv, Types
<1>1. CASE content > 0 \/ OthersAlive
  <2>1. Counted' = Counted
    BY <1>1 DEF AllWake, Counted
  <2>2. Types' /\ FencedHolds' /\ PlaceInv' /\ InspectInv' /\ CountKept'
    BY <1>1, <2>1, MainAssumption
    DEF AllWake, lock, fence, FencedHolds, PlaceInv, InspectInv, CountKept
  <2> QED
    BY <2>2
<1>2. CASE ~(content > 0 \/ OthersAlive)
  <2>1. Counted = {}
    BY <1>2, Counting, CountedIsSet DEF CountKept
  <2>2. bInUse' = [bInUse EXCEPT ![Main] = TRUE]
    BY <1>2 DEF AllWake
  <2>3. Counted' = Counted \cup {Main}
    BY <1>2, <2>2, MainAssumption DEF AllWake, Counted
  <2>4. Types'
    <3>1. bInUse' \in [Threads -> BOOLEAN] /\ pc' \in [Threads -> Places]
      BY <1>2, <2>2 DEF AllWake, Goto, Places
    <3> QED
      BY <1>2, <3>1 DEF AllWake, lock, fence
  <2>5. FencedHolds' /\ PlaceInv'
    BY <1>2, <2>2 DEF FencedHolds, PlaceInv, AllWake, Goto, lock
  <2>6. InspectInv'
    BY <1>2, <2>1 DEF InspectInv, AllWake, Counted
  <2>7. CountKept'
    <3>1. /\ Cardinality(Counted') = Cardinality(Counted) + 1
          /\ Cardinality(Counted) \in Nat
      BY <2>1, <2>3, MainAssumption, Counting, CountedIsSet
    <3>2. content' = content + 1 /\ failed' = failed
      BY <1>2 DEF AllWake
    <3> QED
      BY <3>1, <3>2 DEF CountKept
  <2> QED
    BY <2>4, <2>5, <2>6, <2>7
<1> QED
  BY <1>1, <1>2

\* Every step keeps the invariant.
LEMMA NextInv ==
    ASSUME Disciplined, IInv, [Next]_vars
    PROVE  IInv'
<1>1. CASE \E t \in Threads : Step(t)
  <2>1. PICK t \in Threads : Step(t)
    BY <1>1
  <2> QED
    BY <2>1, StackUnlockInv, TestFenceInv, FenceWaitInv, ForceFenceInv,
       RestoreFenceInv, WaitForIdleInv, IdleWakeInv, IdleEndInv, QuietInv,
       StartThreadInv, StartThreadFailsInv, CancelInFenceInv, CancelInIdleInv,
       TerminateInv
    DEF Step
<1>2. CASE WaitAll
  BY <1>2, WaitAllInv
<1>3. CASE AllWake
  BY <1>3, AllWakeInv
<1>4. CASE UNCHANGED vars
  BY <1>4 DEF vars, IInv, Types, FencedHolds, PlaceInv, InspectInv, CountKept,
              Counted
<1> QED
  BY <1>1, <1>2, <1>3, <1>4 DEF Next

\* The invariant holds in every reachable state.
THEOREM Invariance == ASSUME Disciplined PROVE Spec => []IInv
<1>1. Init => IInv
  BY InitInv
<1>2. IInv /\ [Next]_vars => IInv'
  BY NextInv
<1> QED
  BY <1>1, <1>2, PTL DEF Spec

-----------------------------------------------------------------------------
(* What follows from it.                                                   *)

\* Every variable keeps its type, the count of running stacks included.
THEOREM TypeCorrect == ASSUME Disciplined PROVE Spec => []TypeOK
<1>1. IInv => TypeOK
  BY Counting, CountedIsSet, BoundAssumption
  DEF IInv, Types, CountKept, TypeOK
<1> QED
  BY <1>1, Invariance, PTL

\* An idle inspector runs alone, for any number of threads.
THEOREM Exclusion == ASSUME Disciplined PROVE Spec => []Exclusive
<1>1. IInv => Exclusive
  BY DEF IInv, Types, InspectInv, Exclusive
<1> QED
  BY <1>1, Invariance, PTL

\* The count of running stacks is right but for the failed StartThreads.
THEOREM CountIsKept == ASSUME Disciplined PROVE Spec => []CountKept
<1>1. IInv => CountKept
  BY DEF IInv
<1> QED
  BY <1>1, Invariance, PTL

-----------------------------------------------------------------------------
(* The Mutex.                                                              *)

\* The Mutex is held by the thread between the test of the fence and the
\* wait, once.
OwnerInv == /\ owner = NoThread => depth = 0
            /\ owner # NoThread => pc[owner] = "fenced" /\ depth = 1

\* No thread ends with hb_runningStacks.Mutex held, as long as no thread is
\* cancelled in HB_STACK_LOCK.
THEOREM MutexReleased ==
    ASSUME Disciplined, "fenceCancel" \notin Cases
    PROVE  Spec => []NoOrphanMutex
<1>1. Init => OwnerInv
  BY DEF Init, OwnerInv
<1>2. ASSUME IInv, OwnerInv, [Next]_vars
      PROVE  OwnerInv'
  <2> USE DEF IInv, Types
  <2>1. CASE \E t \in Threads : TestFence(t)
    BY <1>2, <2>1, MainAssumption
    DEF OwnerInv, TestFence, MutexFree, Released, Goto, lock
  <2>2. CASE \E t \in Threads : FenceWait(t)
    BY <1>2, <2>2, MainAssumption DEF OwnerInv, FencedHolds, FenceWait, Goto
  <2>3. CASE \E t \in Threads : CancelInFence(t)
    BY <2>3 DEF CancelInFence
  <2>4. CASE /\ \/ \E t \in Threads : Step(t)
                \/ WaitAll \/ AllWake
             /\ ~ \E t \in Threads :
                      TestFence(t) \/ FenceWait(t) \/ CancelInFence(t)
    <3>1. UNCHANGED <<owner, depth>>
      BY <2>4
      DEF Step, StackUnlock, ForceFence, RestoreFence, WaitForIdle, IdleWake,
          IdleEnd, IdleSignal, ThreadIdleFence, StartThread,
          StartThreadFails, Cancel, TestCancel, CancelInIdle, Exit,
          Terminate, SpuriousWake, WaitAll, AllWake, lock
    <3>2. \A t \in Threads : pc[t] = "fenced" => pc'[t] = "fenced"
      BY <1>2, <2>4
      DEF Step, StackUnlock, ForceFence, RestoreFence, WaitForIdle, IdleWake,
          IdleEnd, IdleSignal, ThreadIdleFence, StartThread,
          StartThreadFails, Cancel, TestCancel, CancelInIdle, Exit,
          Terminate, SpuriousWake, WaitAll, AllWake, BecomeInspector,
          Running, Alive, Goto
    <3> QED
      BY <1>2, <3>1, <3>2 DEF OwnerInv
  <2>5. CASE UNCHANGED vars
    BY <1>2, <2>5 DEF vars, OwnerInv
  <2> QED
    BY <1>2, <2>1, <2>2, <2>3, <2>4, <2>5 DEF Next
<1>3. OwnerInv => NoOrphanMutex
  BY DEF OwnerInv, NoOrphanMutex, Alive
<1> QED
  BY <1>1, <1>2, <1>3, Invariance, PTL DEF Spec

-----------------------------------------------------------------------------
(* The refinement.                                                         *)

GateUsers      == {t \in Threads : bInUse[t]}
GateInspectors == {t \in Threads : uiIdleInspect[t] > 0}

\* A step of the scheme is a step of StackGate, or none.
LEMMA GateStep ==
    ASSUME Disciplined, IInv, IInv', [Next]_vars
    PROVE  [Gate!Next]_<<GateUsers, GateInspectors>>
<1> USE DEF IInv, Types, GateUsers, GateInspectors
<1>1. ASSUME NEW t \in Threads, StackUnlock(t)
      PROVE  Gate!Leave(t)
  BY <1>1 DEF StackUnlock, Running, Gate!Leave
<1>2. ASSUME NEW t \in Threads, TestFence(t), aux = 0
      PROVE  Gate!Enter(t)
  BY <1>2 DEF TestFence, InspectInv, Gate!Enter
<1>3. ASSUME NEW t \in Threads, NEW child \in Threads,
             StartThread(t, child)
      PROVE  Gate!Enter(child)
  <2>1. uiIdleInspect[t] = 0 /\ t \in Counted
    BY <1>3 DEF StartThread, Running, Disciplined, Counted
  <2> QED
    BY <1>3, <2>1 DEF StartThread, InspectInv, Gate!Enter
<1>4. ASSUME NEW t \in Threads, WaitForIdle(t)
      PROVE  Gate!Leave(t) \/ Gate!Inspect(t)
  <2>1. uiIdleInspect[t] = 0 /\ bInUse[t] /\ t \in Counted
    BY <1>4 DEF WaitForIdle, MayInspect, Running, Disciplined, PlaceInv,
                InspectInv, Counted
  <2>2. CASE content = 1
    <3>1. Cardinality(Counted) \in Nat /\ Cardinality(Counted) # 0
      BY <2>1, Counting, CountedIsSet, FS_EmptySet, FiniteThreads, FS_Subset
    <3>2. Counted = {t}
      BY <2>1, <2>2, <3>1, Counting, CountedIsSet DEF CountKept
    <3>3. /\ uiIdleInspect' = [uiIdleInspect EXCEPT ![t] = 1]
          /\ bInUse' = [bInUse EXCEPT ![t] = FALSE]
      BY <1>4, <2>1, <2>2 DEF WaitForIdle, BecomeInspector
    <3>4. \A u \in Threads : u # t => ~bInUse[u] /\ uiIdleInspect[u] = 0
      BY <3>2 DEF Counted
    <3> QED
      BY <2>1, <3>3, <3>4 DEF Gate!Inspect
  <2>3. CASE content # 1
    BY <1>4, <2>1, <2>3 DEF WaitForIdle, Gate!Leave
  <2> QED
    BY <2>2, <2>3
<1>5. ASSUME NEW t \in Threads, IdleWake(t), content = 0
      PROVE  Gate!Inspect(t)
  <2>0. Counted = {}
    BY <1>5, Counting, CountedIsSet DEF CountKept
  <2>1. \A u \in Threads : ~bInUse[u] /\ uiIdleInspect[u] = 0
    BY <2>0 DEF Counted
  <2>2. /\ uiIdleInspect' = [uiIdleInspect EXCEPT ![t] = 1]
        /\ bInUse' = bInUse
    BY <1>5, <2>1 DEF IdleWake, BecomeInspector
  <2> QED
    BY <2>1, <2>2 DEF Gate!Inspect
<1>6. ASSUME NEW t \in Threads, IdleEnd(t)
      PROVE  Gate!EndInspect(t)
  <2>0. uiIdleInspect[t] = 1
    BY <1>6 DEF IdleEnd
  <2>1. /\ uiIdleInspect' = [uiIdleInspect EXCEPT ![t] = 0]
        /\ bInUse' = [bInUse EXCEPT ![t] = TRUE]
    BY <1>6, <2>0 DEF IdleEnd
  <2> QED
    BY <2>0, <2>1 DEF Gate!EndInspect
<1>7. ASSUME NEW t \in Threads, Terminate(t)
      PROVE  Gate!Leave(t) \/ Gate!EndInspect(t)
  <2>1. /\ bInUse' = [bInUse EXCEPT ![t] = FALSE]
        /\ uiIdleInspect' = [uiIdleInspect EXCEPT ![t] = 0]
        /\ bInUse[t] \/ uiIdleInspect[t] = 1
    BY <1>7 DEF Terminate
  <2>2. CASE uiIdleInspect[t] = 1
    <3>1. ~bInUse[t]
      BY <2>2 DEF InspectInv
    <3> QED
      BY <2>1, <2>2, <3>1 DEF Gate!EndInspect
  <2>3. CASE uiIdleInspect[t] = 0
    BY <2>1, <2>3 DEF Gate!Leave
  <2> QED
    BY <2>2, <2>3
<1>8. ASSUME WaitAll
      PROVE  Gate!Leave(Main) \/ UNCHANGED <<GateUsers, GateInspectors>>
  BY <1>8, MainAssumption DEF WaitAll, Running, Gate!Leave
<1>9. ASSUME AllWake
      PROVE  Gate!Enter(Main) \/ UNCHANGED <<GateUsers, GateInspectors>>
  <2>1. CASE content > 0 \/ OthersAlive
    BY <1>9, <2>1 DEF AllWake
  <2>2. CASE ~(content > 0 \/ OthersAlive)
    <3>0. Counted = {}
      BY <2>2, Counting, CountedIsSet DEF CountKept
    <3>1. \A u \in Threads : uiIdleInspect[u] = 0
      BY <3>0 DEF Counted
    <3> QED
      BY <1>9, <2>2, <3>1, MainAssumption DEF AllWake, Gate!Enter
  <2> QED
    BY <2>1, <2>2
<1>10. CASE UNCHANGED <<bInUse, uiIdleInspect>>
  BY <1>10
<1>11. CASE \E t \in Threads : Step(t)
  <2>1. PICK t \in Threads : Step(t)
    BY <1>11
  <2>2. \/ UNCHANGED <<bInUse, uiIdleInspect>>
        \/ StackUnlock(t) \/ (TestFence(t) /\ aux = 0)
        \/ WaitForIdle(t) \/ (IdleWake(t) /\ content = 0) \/ IdleEnd(t)
        \/ \E child \in Threads : StartThread(t, child)
        \/ Terminate(t)
    BY <2>1
    DEF Step, TestFence, FenceWait, ForceFence, RestoreFence, IdleWake,
        IdleSignal, ThreadIdleFence, StartThreadFails, Cancel, TestCancel,
        CancelInFence, CancelInIdle, Exit, SpuriousWake
  <2> QED
    BY <2>2, <1>1, <1>2, <1>3, <1>4, <1>5, <1>6, <1>7, <1>10 DEF Gate!Next
<1>12. CASE UNCHANGED vars
  BY <1>12 DEF vars
<1> QED
  BY <1>8, <1>9, <1>11, <1>12, MainAssumption DEF Next, Gate!Next

\* The stack locking scheme implements StackGate.
THEOREM Refinement == ASSUME Disciplined PROVE Spec => GateSpec
<1>1. Init => Gate!Init
  BY DEF Init, Gate!Init
<1>2. IInv /\ IInv' /\ [Next]_vars => [Gate!Next]_<<GateUsers, GateInspectors>>
  BY GateStep
<1> QED
  BY <1>1, <1>2, Invariance, PTL
  DEF Spec, GateSpec, Gate!Spec, GateUsers, GateInspectors

-----------------------------------------------------------------------------
(* The fence.                                                              *)

\* What a raised fence rests on, with no discipline assumed: a thread about
\* to end neither inspects nor waits to inspect.
FenceTypes == /\ aux \in {0, 1}
              /\ pc \in [Threads -> Places]
              /\ uiIdleInspect \in [Threads -> Nat]
              /\ dying \subseteq Threads

DyingInv == \A t \in dying : /\ pc[t] \in {"exec", "fenced", "lockWait"}
                             /\ uiIdleInspect[t] = 0

QuietPlaces == \A t \in Threads :
                   \/ pc[t] \in {"none", "fenced", "lockWait"}
                   \/ pc[t] \in {"forced", "idleWait"}
                   => uiIdleInspect[t] = 0

OwnedInv == FenceTypes /\ DyingInv /\ QuietPlaces /\ FenceHasOwner

\* A step that moves no thread away from its inspection keeps the owner.
LEMMA OwnerStays ==
    ASSUME FenceHasOwner, aux' \in {0, aux},
           uiIdleInspect' = uiIdleInspect,
           \A u \in Threads : pc[u] = "idleWait" => pc'[u] = "idleWait"
    PROVE  FenceHasOwner'
  BY DEF FenceHasOwner

\* A raised fence has someone who will lower it, as long as an inspector ends
\* its inspection and does not inspect twice.
THEOREM FenceIsOwned ==
    ASSUME {"inspectorEnds", "nestedInspect"} \cap Cases = {}
    PROVE  Spec => []FenceHasOwner
<1>1. Init => OwnedInv
  BY MainAssumption
  DEF Init, OwnedInv, FenceTypes, DyingInv, QuietPlaces, FenceHasOwner, Places
<1>2. ASSUME OwnedInv, [Next]_vars
      PROVE  OwnedInv'
  <2> USE <1>2 DEF OwnedInv
  <2>1. ASSUME NEW t \in Threads,
               StackUnlock(t) \/ ThreadIdleFence(t) \/ StartThreadFails(t)
               \/ (\E targets \in SUBSET Threads : Cancel(t, targets))
               \/ SpuriousWake(t)
        PROVE  OwnedInv'
    BY <2>1 DEF FenceTypes, DyingInv, QuietPlaces, FenceHasOwner, StackUnlock,
                ThreadIdleFence, StartThreadFails, Cancel, SpuriousWake,
                gate, fence
  <2>2. ASSUME NEW t \in Threads, TestFence(t)
        PROVE  OwnedInv'
    <3>1. FenceTypes'
      BY <2>2 DEF FenceTypes, Places, TestFence, Goto, Released
    <3>2. DyingInv'
      BY <2>2 DEF FenceTypes, DyingInv, TestFence, Goto, Released
    <3>3. QuietPlaces'
      BY <2>2 DEF FenceTypes, QuietPlaces, TestFence, Goto, Released
    <3>4. FenceHasOwner'
      <4>1. aux' = aux /\ uiIdleInspect' = uiIdleInspect
        BY <2>2 DEF TestFence, Goto, Released
      <4>2. \A u \in Threads : pc[u] = "idleWait" => pc'[u] = "idleWait"
        BY <2>2 DEF FenceTypes, TestFence, Goto, Released
      <4> QED
        BY <4>1, <4>2, OwnerStays
    <3> QED
      BY <3>1, <3>2, <3>3, <3>4
  <2>3. ASSUME NEW t \in Threads, FenceWait(t)
        PROVE  OwnedInv'
    <3>1. FenceTypes'
      BY <2>3 DEF FenceTypes, Places, FenceWait, Goto, gate
    <3>2. DyingInv'
      BY <2>3 DEF FenceTypes, DyingInv, FenceWait, Goto, gate
    <3>3. QuietPlaces'
      BY <2>3 DEF FenceTypes, QuietPlaces, FenceWait, Goto, gate
    <3>4. FenceHasOwner'
      BY <2>3, <3>1
      DEF FenceTypes, DyingInv, FenceHasOwner, FenceWait, Goto, gate
    <3> QED
      BY <3>1, <3>2, <3>3, <3>4
  <2>4. ASSUME NEW t \in Threads, ForceFence(t) \/ RestoreFence(t)
        PROVE  OwnedInv'
    <3>1. FenceTypes'
      BY <2>4
      DEF FenceTypes, Places, ForceFence, RestoreFence, Goto, Running,
          MayInspect
    <3>2. DyingInv'
      BY <2>4
      DEF FenceTypes, DyingInv, ForceFence, RestoreFence, Goto, Running,
          MayInspect
    <3>3. QuietPlaces'
      BY <2>4
      DEF FenceTypes, QuietPlaces, ForceFence, RestoreFence, Goto, Running,
          MayInspect
    <3>4. FenceHasOwner'
      <4>1. aux' = aux /\ uiIdleInspect' = uiIdleInspect
        BY <2>4 DEF ForceFence, RestoreFence, Goto, Running, MayInspect
      <4>2. \A u \in Threads : pc[u] = "idleWait" => pc'[u] = "idleWait"
        BY <2>4
        DEF FenceTypes, ForceFence, RestoreFence, Goto, Running, MayInspect
      <4> QED
        BY <4>1, <4>2, OwnerStays
    <3> QED
      BY <3>1, <3>2, <3>3, <3>4
  <2>5. ASSUME NEW t \in Threads, WaitForIdle(t) \/ IdleWake(t)
        PROVE  OwnedInv'
    <3> USE <2>5 DEF FenceTypes, WaitForIdle, IdleWake, Goto
    <3>1. t \notin dying /\ dying' = dying /\ uiIdleInspect[t] = 0
      BY DEF Running, DyingInv, QuietPlaces, MayInspect
    <3>2. CASE BecomeInspector(t)
      <4>1. FenceTypes'
        BY <3>2 DEF BecomeInspector, Places
      <4>2. DyingInv' /\ QuietPlaces'
        BY <3>1, <3>2 DEF BecomeInspector, DyingInv, QuietPlaces
      <4>3. uiIdleInspect'[t] > 0
        BY <3>2 DEF BecomeInspector
      <4> QED
        BY <4>1, <4>2, <4>3 DEF FenceHasOwner
    <3>3. CASE ~BecomeInspector(t)
      <4>1. UNCHANGED uiIdleInspect
        BY <3>3
      <4>2. pc' = [pc EXCEPT ![t] = "idleWait"]
        BY <3>3
      <4>3. aux' \in {0, 1}
        BY <3>3
      <4>4. FenceTypes'
        BY <4>1, <4>2, <4>3 DEF Places
      <4>5. DyingInv' /\ QuietPlaces'
        BY <3>1, <4>1, <4>2 DEF DyingInv, QuietPlaces
      <4>6. pc'[t] = "idleWait"
        BY <4>2
      <4> QED
        BY <4>4, <4>5, <4>6 DEF FenceHasOwner
    <3> QED
      BY <3>2, <3>3
  <2>6. ASSUME NEW t \in Threads, IdleEnd(t) \/ IdleSignal(t)
        PROVE  OwnedInv'
    <3>1. FenceTypes'
      BY <2>6 DEF FenceTypes, Places, IdleEnd, IdleSignal, Goto, gate, Running
    <3>2. DyingInv'
      BY <2>6
      DEF FenceTypes, DyingInv, IdleEnd, IdleSignal, Goto, gate, Running
    <3>3. QuietPlaces'
      BY <2>6
      DEF FenceTypes, QuietPlaces, IdleEnd, IdleSignal, Goto, gate, Running
    <3>4. FenceHasOwner'
      BY <2>6, <3>1
      DEF FenceTypes, DyingInv, FenceHasOwner, IdleEnd, IdleSignal, Goto, gate,
          Running
    <3> QED
      BY <3>1, <3>2, <3>3, <3>4
  <2>7. ASSUME NEW t \in Threads, NEW child \in Threads,
               StartThread(t, child)
        PROVE  OwnedInv'
    <3>1. FenceTypes'
      BY <2>7 DEF FenceTypes, Places, StartThread, Goto, Alive, Running
    <3>2. DyingInv'
      BY <2>7 DEF FenceTypes, DyingInv, StartThread, Goto, Alive, Running
    <3>3. QuietPlaces'
      BY <2>7 DEF FenceTypes, QuietPlaces, StartThread, Goto, Alive, Running
    <3>4. FenceHasOwner'
      <4>1. aux' = aux /\ uiIdleInspect' = uiIdleInspect
        BY <2>7 DEF StartThread, Goto, Alive, Running
      <4>2. \A u \in Threads : pc[u] = "idleWait" => pc'[u] = "idleWait"
        BY <2>7 DEF FenceTypes, StartThread, Goto, Alive, Running
      <4> QED
        BY <4>1, <4>2, OwnerStays
    <3> QED
      BY <3>1, <3>2, <3>3, <3>4
  <2>8. ASSUME NEW t \in Threads,
               TestCancel(t) \/ Exit(t) \/ CancelInFence(t) \/ CancelInIdle(t)
        PROVE  OwnedInv'
    <3>1. FenceTypes'
      BY <2>8
      DEF FenceTypes, Places, TestCancel, Exit, CancelInFence, CancelInIdle,
          Goto, Running, gate
    <3>2. DyingInv'
      BY <2>8
      DEF FenceTypes, DyingInv, QuietPlaces, TestCancel, Exit, CancelInFence,
          CancelInIdle, Goto, Running, gate
    <3>3. QuietPlaces'
      BY <2>8
      DEF FenceTypes, QuietPlaces, TestCancel, Exit, CancelInFence,
          CancelInIdle, Goto, Running, gate
    <3>4. CASE CancelInIdle(t)
      BY <3>1, <3>2, <3>3, <3>4 DEF CancelInIdle, FenceHasOwner
    <3>5. CASE TestCancel(t) \/ Exit(t) \/ CancelInFence(t)
      <4>1. aux' = aux /\ uiIdleInspect' = uiIdleInspect
        BY <3>5 DEF TestCancel, Exit, CancelInFence, CancelInIdle, Goto,
              Running, gate
      <4>2. \A u \in Threads : pc[u] = "idleWait" => pc'[u] = "idleWait"
        BY <3>5
        DEF FenceTypes, TestCancel, Exit, CancelInFence, CancelInIdle, Goto,
            Running, gate
      <4> QED
        BY <3>1, <3>2, <3>3, <4>1, <4>2, OwnerStays
    <3> QED
      BY <2>8, <3>4, <3>5
  <2>9. ASSUME NEW t \in Threads, Terminate(t)
        PROVE  OwnedInv'
    <3>1. FenceTypes'
      BY <2>9 DEF FenceTypes, Places, Terminate, Goto
    <3>2. DyingInv'
      BY <2>9 DEF FenceTypes, DyingInv, Terminate, Goto
    <3>3. QuietPlaces'
      BY <2>9 DEF FenceTypes, QuietPlaces, Terminate, Goto
    <3>4. FenceHasOwner'
      BY <2>9, <3>1 DEF FenceTypes, DyingInv, FenceHasOwner, Terminate, Goto
    <3> QED
      BY <3>1, <3>2, <3>3, <3>4
  <2>10. ASSUME WaitAll \/ AllWake
         PROVE  OwnedInv'
    <3>1. FenceTypes'
      BY <2>10, MainAssumption
      DEF FenceTypes, Places, WaitAll, AllWake, Goto, Running
    <3>2. DyingInv'
      BY <2>10, MainAssumption
      DEF FenceTypes, DyingInv, WaitAll, AllWake, Goto, Running
    <3>3. QuietPlaces'
      BY <2>10, MainAssumption
      DEF FenceTypes, QuietPlaces, WaitAll, AllWake, Goto, Running
    <3>4. FenceHasOwner'
      <4>1. aux' = aux /\ uiIdleInspect' = uiIdleInspect
        BY <2>10 DEF WaitAll, AllWake, Goto, Running
      <4>2. \A u \in Threads : pc[u] = "idleWait" => pc'[u] = "idleWait"
        BY <2>10, MainAssumption
        DEF FenceTypes, WaitAll, AllWake, Goto, Running
      <4> QED
        BY <4>1, <4>2, OwnerStays
    <3> QED
      BY <3>1, <3>2, <3>3, <3>4
  <2>11. CASE UNCHANGED vars
    BY <2>11 DEF vars, FenceTypes, DyingInv, QuietPlaces, FenceHasOwner
  <2> QED
    BY <2>1, <2>2, <2>3, <2>4, <2>5, <2>6, <2>7, <2>8, <2>9, <2>10, <2>11
    DEF Next, Step
<1>3. OwnedInv => FenceHasOwner
  BY DEF OwnedInv
<1> QED
  BY <1>1, <1>2, <1>3, PTL DEF Spec

\* While only one thread ever inspects and nobody lowers the option, a thread
\* that waits to inspect has raised the fence.
WaitTypes == /\ pc \in [Threads -> Places]
             /\ bInUse \in [Threads -> BOOLEAN]
             /\ uiIdleInspect \in [Threads -> Nat]
             /\ saved \in [Threads -> {"none", "up"}]
             /\ bIdleFence = "up"

InspectorPlaces == \A t \in Threads :
    \/ pc[t] \in {"forced", "idleWait", "restore"}
    \/ uiIdleInspect[t] > 0
    => t \in Inspectors

RestoreSaved == \A t \in Threads :
    pc[t] \in {"forced", "restore"} => saved[t] = "up"

Raised == \A t \in Threads : pc[t] = "idleWait" => aux = 1

WaitInv == WaitTypes /\ InspectorPlaces /\ RestoreSaved /\ Raised

\* A step that leaves the fence and the waits alone keeps it raised.
LEMMA RaisedStays ==
    ASSUME Raised, aux' = aux,
           \A u \in Threads : pc'[u] = "idleWait" => pc[u] = "idleWait"
    PROVE  Raised'
  BY DEF Raised

\* One step, if there is one inspector.
LEMMA WaitStep ==
    ASSUME "idleFence" \notin Cases, \A t, u \in Inspectors : t = u,
           WaitInv, [Next]_vars
    PROVE  WaitInv'
<1> USE DEF WaitInv
<1>1. ASSUME NEW t \in Threads,
             StackUnlock(t) \/ StartThreadFails(t)
             \/ (\E targets \in SUBSET Threads : Cancel(t, targets))
             \/ SpuriousWake(t) \/ TestCancel(t) \/ Exit(t)
      PROVE  WaitInv'
  BY <1>1 DEF WaitTypes, InspectorPlaces, RestoreSaved, Raised, StackUnlock,
              StartThreadFails, Cancel, SpuriousWake, TestCancel, Exit, gate,
              fence
<1>2. ASSUME NEW t \in Threads, TestFence(t) \/ FenceWait(t)
      PROVE  WaitInv'
  <2> USE <1>2 DEF WaitTypes, TestFence, FenceWait, Goto, gate, fence
  <2>1. WaitTypes'
    BY DEF Places
  <2>2. InspectorPlaces' /\ RestoreSaved'
    BY DEF InspectorPlaces, RestoreSaved
  <2>3. \A u \in Threads : pc'[u] = "idleWait" => pc[u] = "idleWait"
    OBVIOUS
  <2> QED
    BY <2>1, <2>2, <2>3, RaisedStays
<1>3. ASSUME NEW t \in Threads, ForceFence(t) \/ RestoreFence(t)
      PROVE  WaitInv'
  <2> USE <1>3 DEF WaitTypes, ForceFence, RestoreFence, Goto, Running
  <2>1. WaitTypes'
    BY DEF Places, RestoreSaved
  <2>2. InspectorPlaces' /\ RestoreSaved'
    BY DEF InspectorPlaces, RestoreSaved, MayInspect
  <2>3. \A u \in Threads : pc'[u] = "idleWait" => pc[u] = "idleWait"
    OBVIOUS
  <2> QED
    BY <2>1, <2>2, <2>3, RaisedStays
<1>4. ASSUME NEW t \in Threads, WaitForIdle(t) \/ IdleWake(t)
      PROVE  WaitInv'
  <2> USE <1>4 DEF WaitTypes, WaitForIdle, IdleWake, Goto
  <2>1. t \in Inspectors
    BY DEF InspectorPlaces, MayInspect
  <2>2. UNCHANGED <<bIdleFence, saved>>
    BY DEF fence
  <2>3. CASE BecomeInspector(t)
    <3>1. WaitTypes'
      <4>1. pc' \in [Threads -> Places]
        BY <2>3 DEF BecomeInspector, Places
      <4>2. bInUse' \in [Threads -> BOOLEAN]
        OBVIOUS
      <4>3. uiIdleInspect' \in [Threads -> Nat]
        BY <2>3 DEF BecomeInspector
      <4> QED
        BY <2>2, <4>1, <4>2, <4>3
    <3>2. InspectorPlaces' /\ RestoreSaved' /\ Raised'
      BY <2>1, <2>2, <2>3
      DEF BecomeInspector, InspectorPlaces, RestoreSaved, Raised
    <3> QED
      BY <3>1, <3>2
  <2>4. CASE ~BecomeInspector(t)
    <3>1. UNCHANGED uiIdleInspect
      BY <2>4
    <3>2. pc' \in {pc, [pc EXCEPT ![t] = "idleWait"]}
      BY <2>4
    <3>3. aux' = 1 \/ (aux' = aux /\ pc' = pc)
      BY <2>4
    <3>4. WaitTypes'
      BY <2>2, <3>1, <3>2 DEF Places
    <3>5. InspectorPlaces' /\ RestoreSaved'
      BY <2>1, <2>2, <3>1, <3>2 DEF InspectorPlaces, RestoreSaved
    <3>6. Raised'
      BY <3>3 DEF Raised
    <3> QED
      BY <3>4, <3>5, <3>6
  <2> QED
    BY <2>3, <2>4
<1>5. ASSUME NEW t \in Threads, IdleEnd(t) \/ CancelInIdle(t)
      PROVE  WaitInv'
  <2> USE <1>5 DEF WaitTypes, IdleEnd, CancelInIdle, Goto, fence
  <2>1. t \in Inspectors
    BY DEF InspectorPlaces
  <2>2. WaitTypes'
    <3>1. pc' \in [Threads -> Places]
      BY DEF Places
    <3>2. bInUse' \in [Threads -> BOOLEAN]
      OBVIOUS
    <3>3. uiIdleInspect' \in [Threads -> Nat]
      OBVIOUS
    <3>4. saved' \in [Threads -> {"none", "up"}]
      OBVIOUS
    <3> QED
      BY <3>1, <3>2, <3>3, <3>4
  <2>3. InspectorPlaces' /\ RestoreSaved'
    BY DEF InspectorPlaces, RestoreSaved
  <2>4. \A u \in Threads : pc'[u] # "idleWait"
    BY <2>1 DEF InspectorPlaces
  <2> QED
    BY <2>2, <2>3, <2>4 DEF Raised
<1>6. ASSUME NEW t \in Threads, IdleSignal(t) \/ CancelInFence(t)
      PROVE  WaitInv'
  <2> USE <1>6 DEF WaitTypes, IdleSignal, CancelInFence, Goto, gate
  <2>1. WaitTypes'
    BY DEF Places
  <2>2. InspectorPlaces' /\ RestoreSaved'
    BY DEF InspectorPlaces, RestoreSaved
  <2>3. \A u \in Threads : pc'[u] = "idleWait" => pc[u] = "idleWait"
    OBVIOUS
  <2> QED
    BY <2>1, <2>2, <2>3, RaisedStays
<1>7. ASSUME NEW t \in Threads, NEW child \in Threads,
             StartThread(t, child) \/ Terminate(t)
      PROVE  WaitInv'
  <2> USE <1>7 DEF WaitTypes, StartThread, Terminate, Goto, fence
  <2>1. WaitTypes'
    <3>1. pc' \in [Threads -> Places]
      BY DEF Places
    <3>2. bInUse' \in [Threads -> BOOLEAN]
      OBVIOUS
    <3>3. uiIdleInspect' \in [Threads -> Nat]
      OBVIOUS
    <3>4. saved' \in [Threads -> {"none", "up"}]
      OBVIOUS
    <3> QED
      BY <3>1, <3>2, <3>3, <3>4
  <2>2. InspectorPlaces' /\ RestoreSaved'
    BY DEF InspectorPlaces, RestoreSaved
  <2>3. \A u \in Threads : pc'[u] = "idleWait" => pc[u] = "idleWait"
    OBVIOUS
  <2> QED
    BY <2>1, <2>2, <2>3, RaisedStays
<1>8. ASSUME WaitAll \/ AllWake
      PROVE  WaitInv'
  <2> USE <1>8, MainAssumption DEF WaitTypes, WaitAll, AllWake, Goto, fence
  <2>1. WaitTypes'
    BY DEF Places
  <2>2. InspectorPlaces' /\ RestoreSaved'
    BY DEF InspectorPlaces, RestoreSaved
  <2>3. \A u \in Threads : pc'[u] = "idleWait" => pc[u] = "idleWait"
    OBVIOUS
  <2> QED
    BY <2>1, <2>2, <2>3, RaisedStays
<1>9. CASE UNCHANGED vars
  BY <1>9 DEF vars, WaitTypes, InspectorPlaces, RestoreSaved, Raised
<1> QED
  BY <1>1, <1>2, <1>3, <1>4, <1>5, <1>6, <1>7, <1>8, <1>9
  DEF Next, Step, ThreadIdleFence

\* What FenceHolds says of one step.
HoldsStep ==
    \A t, u \in Threads :
        /\ pc[t] = "idleWait" /\ pc'[t] = "idleWait" /\ bIdleFence = "up"
        /\ Alive(u) /\ u \notin Counted
        => u \notin Counted'

\* While the inspector waits, a thread that released its stack stays out.
LEMMA HoldsOneStep ==
    ASSUME \A t, u \in Inspectors : t = u, WaitInv, [Next]_vars
    PROVE  HoldsStep
<1> SUFFICES ASSUME NEW t \in Threads, NEW u \in Threads,
                    pc[t] = "idleWait", pc'[t] = "idleWait",
                    Alive(u), u \notin Counted, u \in Counted'
             PROVE  FALSE
  BY DEF HoldsStep
<1> USE DEF WaitInv, WaitTypes
<1>1. aux = 1 /\ t \in Inspectors
  BY DEF Raised, InspectorPlaces
<1>2. /\ ~bInUse[u] /\ uiIdleInspect[u] = 0
      /\ bInUse'[u] \/ uiIdleInspect'[u] > 0
  BY DEF Counted
<1>3. ASSUME NEW s \in Threads, TestFence(s)
      PROVE  FALSE
  BY <1>1, <1>2, <1>3 DEF TestFence, Goto
<1>4. ASSUME NEW s \in Threads, WaitForIdle(s) \/ IdleWake(s)
      PROVE  FALSE
  <2>1. s = t
    BY <1>1, <1>4 DEF WaitForIdle, IdleWake, InspectorPlaces, MayInspect
  <2>2. ~BecomeInspector(s)
    BY <2>1 DEF BecomeInspector, Goto
  <2>3. UNCHANGED uiIdleInspect
    BY <1>4, <2>2 DEF WaitForIdle, IdleWake
  <2>4. bInUse' \in {bInUse, [bInUse EXCEPT ![s] = FALSE]}
    BY <1>4 DEF WaitForIdle, IdleWake
  <2> QED
    BY <1>2, <2>3, <2>4
<1>5. ASSUME NEW s \in Threads, IdleEnd(s)
      PROVE  FALSE
  <2>1. s = t
    BY <1>1, <1>5 DEF IdleEnd, InspectorPlaces
  <2> QED
    BY <1>5, <2>1 DEF IdleEnd, Running
<1>6. ASSUME NEW s \in Threads, NEW child \in Threads, StartThread(s, child)
      PROVE  FALSE
  BY <1>2, <1>6 DEF StartThread, Alive
<1>7. ASSUME AllWake
      PROVE  FALSE
  <2>1. t # Main /\ OthersAlive
    BY <1>7 DEF AllWake, OthersAlive, Alive
  <2> QED
    BY <1>2, <1>7, <2>1 DEF AllWake
<1>8. ASSUME WaitAll
      PROVE  FALSE
  BY <1>2, <1>8, MainAssumption DEF WaitAll
<1>9. ASSUME NEW s \in Threads,
             \/ StackUnlock(s) \/ FenceWait(s) \/ ForceFence(s)
             \/ RestoreFence(s) \/ IdleSignal(s) \/ ThreadIdleFence(s)
             \/ StartThreadFails(s)
             \/ \E targets \in SUBSET Threads : Cancel(s, targets)
             \/ TestCancel(s) \/ CancelInFence(s) \/ CancelInIdle(s)
             \/ Exit(s) \/ Terminate(s) \/ SpuriousWake(s)
      PROVE  FALSE
  BY <1>2, <1>9
  DEF StackUnlock, FenceWait, ForceFence, RestoreFence, IdleSignal,
      ThreadIdleFence, StartThreadFails, Cancel, TestCancel, CancelInFence,
      CancelInIdle, Exit, Terminate, SpuriousWake
<1>10. CASE UNCHANGED vars
  BY <1>2, <1>10 DEF vars
<1> QED
  BY <1>3, <1>4, <1>5, <1>6, <1>7, <1>8, <1>9, <1>10 DEF Next, Step

\* Once the only inspector waits behind the fence, a thread that released its
\* stack does not get it back before the inspector had its turn.
THEOREM FenceIsKept ==
    ASSUME "idleFence" \notin Cases, \A t, u \in Inspectors : t = u
    PROVE  Spec => FenceHolds
<1>1. Init => WaitInv
  BY DEF Init, WaitInv, WaitTypes, InspectorPlaces, RestoreSaved, Raised,
         Places
<1>2. WaitInv /\ [Next]_vars => WaitInv'
  BY WaitStep
<1>3. WaitInv /\ [Next]_vars => [HoldsStep]_vars
  BY HoldsOneStep
<1> QED
  BY <1>1, <1>2, <1>3, PTL DEF Spec, FenceHolds, HoldsStep

=============================================================================
