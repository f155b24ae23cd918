--------------------------- MODULE RunningStacks ---------------------------
(***************************************************************************)
(* The gate every xHarbour thread passes before it touches its VM stack:   *)
(* hb_runningStacks (a mutex, a condition, the number of stacks in use and *)
(* the idle fence "aux"), HB_STACK_LOCK / HB_STACK_UNLOCK, the idle        *)
(* inspectors (hb_threadWaitForIdle / hb_threadIdleEnd), the main thread's *)
(* hb_threadWaitAll, and the start, cancellation and end of threads as far *)
(* as they touch the gate.                                                 *)
(*                                                                         *)
(* A critical section of the Mutex is one step, for nobody else reads or   *)
(* writes what it guards in between; hb_threadIdleEnd, which does not take *)
(* the Mutex, interleaves with the two critical sections it can disturb:   *)
(* between the test of the fence and the wait on the condition.            *)
(***************************************************************************)
EXTENDS Integers, FiniteSets

CONSTANTS
    Threads,      \* the slots of the threads, that are reused
    Main,         \* the thread that runs hb_vmQuit; it is never cancelled
    NoThread,     \* owner of a free Mutex
    Inspectors,   \* the threads that may become idle inspectors
    Cases,        \* the hard cases the program is allowed to meet
    MaxFailures   \* bound of TLC: pthread_create fails that many times

AllCases == {"error",            \* the error handler inspects
             "idleFence",        \* THREADIDLEFENCE changes hb_bIdleFence
             "nestedInspect",    \* an inspector becomes one again
             "inspectorStarts",  \* an inspector starts a thread
             "inspectorEnds",    \* an inspector ends without IdleEnd
             "startFails",       \* pthread_create fails
             "cancel",           \* KILLTHREAD, KILLALLTHREADS, hb_vmQuit
             "fenceCancel",      \* a cancellation lands in HB_STACK_LOCK
             "idleCancel",       \* ... in hb_threadWaitForIdle
             "waitAll",          \* WAITFORTHREADS, hb_vmQuit
             "spurious"}         \* a wait returns with no signal

ASSUME MainAssumption  == Main \in Threads /\ NoThread \notin Threads
ASSUME FiniteThreads   == IsFiniteSet(Threads)
ASSUME CasesAssumption == Inspectors \subseteq Threads /\ Cases \subseteq AllCases
ASSUME BoundAssumption == MaxFailures \in Nat

VARIABLES
    content,        \* hb_runningStacks.content.asLong
    aux,            \* hb_runningStacks.aux, the fence: 0 or 1
    owner,          \* holder of the recursive hb_runningStacks.Mutex
    depth,          \* and how many times it holds it
    waiting,        \* threads asleep on hb_runningStacks.Cond
    bIdleFence,     \* hb_bIdleFence: "up" or "down"
    asked,          \* auxiliary: what THREADIDLEFENCE last set it to
    pc,             \* where a thread is
    bInUse,         \* HB_VM_STACK.bInUse of each thread
    uiIdleInspect,  \* HB_VM_STACK.uiIdleInspect of each thread
    saved,          \* old_bIdleFence of a thread in the error handler
    canceled,       \* threads with a pending pthread_cancel
    dying,          \* threads inside hb_threadTerminator
    failed          \* StartThreads whose pthread_create failed

gate == <<content, aux, bIdleFence, asked>>
fence == <<bIdleFence, asked>>
lock == <<owner, depth>>
vars == <<content, aux, owner, depth, waiting, bIdleFence, asked, pc,
          bInUse, uiIdleInspect, saved, canceled, dying, failed>>

Places == {"none",       \* no thread: its stack is not linked
           "exec",       \* outside of the functions below
           "fenced",     \* in HB_STACK_LOCK, found the fence, has the Mutex
           "lockWait",   \* in HB_STACK_LOCK, on the condition
           "forced",     \* in the error handler, about to inspect
           "idleWait",   \* in hb_threadWaitForIdle, on the condition
           "restore",    \* in the error handler, inspecting
           "idleEnd",    \* in hb_threadIdleEnd, about to signal
           "allWait"}    \* in hb_threadWaitAll, on the condition

-----------------------------------------------------------------------------
(* The Mutex and the condition.                                            *)

MutexFree(t) == owner \in {NoThread, t}

Alive(t) == pc[t] # "none"

\* t uses its stack: it holds it, or it inspects.
Running(t) == /\ pc[t] = "exec"
              /\ t \notin dying
              /\ bInUse[t] \/ uiIdleInspect[t] > 0

\* t is in a call that gave the stack back: a sleep, a read, a Subscribe.
Released(t) == /\ pc[t] = "exec"
               /\ ~bInUse[t]
               /\ uiIdleInspect[t] = 0

Signal == waiting' = {}

Goto(t, place) == pc' = [pc EXCEPT ![t] = place]

-----------------------------------------------------------------------------
Init == /\ content = 1
        /\ aux = 0
        /\ owner = NoThread /\ depth = 0
        /\ waiting = {}
        /\ bIdleFence = "up" /\ asked = "up"
        /\ pc = [t \in Threads |-> IF t = Main THEN "exec" ELSE "none"]
        /\ bInUse = [t \in Threads |-> t = Main]
        /\ uiIdleInspect = [t \in Threads |-> 0]
        /\ saved = [t \in Threads |-> "none"]
        /\ canceled = {} /\ dying = {}
        /\ failed = 0

-----------------------------------------------------------------------------
(* HB_STACK_LOCK and HB_STACK_UNLOCK.                                      *)

\* Mutant: nobody is told.
StackUnlockSilent(t) ==
    /\ Running(t) /\ uiIdleInspect[t] = 0
    /\ MutexFree(t)
    /\ content' = content - 1
    /\ bInUse' = [bInUse EXCEPT ![t] = FALSE]
    /\ UNCHANGED <<aux, lock, waiting, fence, pc, uiIdleInspect, saved,
                   canceled, dying, failed>>

StackUnlock(t) ==
    /\ Running(t) /\ uiIdleInspect[t] = 0
    /\ MutexFree(t)
    /\ content' = content - 1
    /\ bInUse' = [bInUse EXCEPT ![t] = FALSE]
    /\ Signal
    /\ UNCHANGED <<aux, lock, fence, pc, uiIdleInspect, saved,
                   canceled, dying, failed>>

\* Mutant: the fence is not looked at.
TestFenceBlind(t) ==
    /\ \/ Released(t)
       \/ pc[t] = "lockWait" /\ t \notin waiting
    /\ MutexFree(t)
    /\ content' = content + 1
    /\ bInUse' = [bInUse EXCEPT ![t] = TRUE]
    /\ Goto(t, "exec")
    /\ UNCHANGED <<aux, lock, waiting, fence, uiIdleInspect, saved, canceled,
                   dying, failed>>

\* The test of the fence, by a caller or by a sleeper that was woken: it
\* takes the stack, or goes on to the wait with the Mutex held.
TestFence(t) ==
    /\ \/ Released(t)
       \/ pc[t] = "lockWait" /\ t \notin waiting
    /\ MutexFree(t)
    /\ IF aux = 0
       THEN /\ content' = content + 1
            /\ bInUse' = [bInUse EXCEPT ![t] = TRUE]
            /\ Goto(t, "exec")
            /\ UNCHANGED lock
       ELSE /\ owner' = t /\ depth' = depth + 1
            /\ Goto(t, "fenced")
            /\ UNCHANGED <<content, bInUse>>
    /\ UNCHANGED <<aux, waiting, fence, uiIdleInspect, saved, canceled,
                   dying, failed>>

\* pthread_cond_wait gives back one level of the recursive mutex.
FenceWait(t) ==
    /\ pc[t] = "fenced"
    /\ depth' = depth - 1
    /\ owner' = IF depth = 1 THEN NoThread ELSE t
    /\ waiting' = waiting \cup {t}
    /\ Goto(t, "lockWait")
    /\ UNCHANGED <<gate, bInUse, uiIdleInspect, saved, canceled, dying,
                   failed>>

-----------------------------------------------------------------------------
(* Idle inspectors.                                                        *)

MayInspect(t) == /\ t \in Inspectors
                 /\ \/ uiIdleInspect[t] = 0
                    \/ uiIdleInspect[t] = 1 /\ "nestedInspect" \in Cases

\* The error handler forces the fence option without the Mutex ...
ForceFence(t) ==
    /\ "error" \in Cases
    /\ Running(t) /\ MayInspect(t)
    /\ saved' = [saved EXCEPT ![t] = bIdleFence]
    /\ bIdleFence' = "up"
    /\ Goto(t, "forced")
    /\ UNCHANGED <<content, aux, asked, lock, waiting, bInUse, uiIdleInspect,
                   canceled, dying, failed>>

\* ... and puts the old value back once it inspects.
RestoreFence(t) ==
    /\ pc[t] = "restore"
    /\ bIdleFence' = saved[t]
    /\ saved' = [saved EXCEPT ![t] = "none"]
    /\ Goto(t, "exec")
    /\ UNCHANGED <<content, aux, asked, lock, waiting, bInUse, uiIdleInspect,
                   canceled, dying, failed>>

\* Mutant: the fence is left as it was.
BecomeInspectorOpen(t) ==
    /\ UNCHANGED aux
    /\ uiIdleInspect' = [uiIdleInspect EXCEPT ![t] = @ + 1]
    /\ Goto(t, IF saved[t] = "none" THEN "exec" ELSE "restore")

\* The road is clear: t owns the gate.
BecomeInspector(t) ==
    /\ aux' = 1
    /\ uiIdleInspect' = [uiIdleInspect EXCEPT ![t] = @ + 1]
    /\ Goto(t, IF saved[t] = "none" THEN "exec" ELSE "restore")

\* Mutant: the fence is raised only after the wait.
WaitForIdleLate(t) ==
    /\ \/ Running(t) /\ MayInspect(t)
       \/ pc[t] = "forced"
    /\ MutexFree(t)
    /\ bInUse' = [bInUse EXCEPT ![t] = FALSE]
    /\ IF content = 1
       THEN BecomeInspector(t) /\ UNCHANGED <<content, waiting>>
       ELSE /\ content' = content - 1
            /\ waiting' = waiting \cup {t}
            /\ Goto(t, "idleWait")
            /\ UNCHANGED <<aux, uiIdleInspect>>
    /\ UNCHANGED <<lock, fence, saved, canceled, dying, failed>>

\* hb_threadWaitForIdle, up to the first wait.
WaitForIdle(t) ==
    /\ \/ Running(t) /\ MayInspect(t)
       \/ pc[t] = "forced"
    /\ MutexFree(t)
    /\ bInUse' = [bInUse EXCEPT ![t] = FALSE]
    /\ IF content = 1
       THEN BecomeInspector(t) /\ UNCHANGED <<content, waiting>>
       ELSE /\ aux' = IF bIdleFence = "up" THEN 1 ELSE aux
            /\ content' = content - 1
            /\ waiting' = waiting \cup {t}
            /\ Goto(t, "idleWait")
            /\ UNCHANGED uiIdleInspect
    /\ UNCHANGED <<lock, fence, saved, canceled, dying, failed>>

\* Mutants: the count is not raised again; "if" for "while".
IdleWakeUncounted(t) ==
    /\ pc[t] = "idleWait" /\ t \notin waiting
    /\ MutexFree(t)
    /\ content = 0
    /\ BecomeInspector(t)
    /\ UNCHANGED <<content, lock, waiting, fence, bInUse, saved, canceled,
                   dying, failed>>

IdleWakeOnce(t) ==
    /\ pc[t] = "idleWait" /\ t \notin waiting
    /\ MutexFree(t)
    /\ BecomeInspector(t)
    /\ content' = content + 1
    /\ UNCHANGED <<lock, waiting, fence, bInUse, saved, canceled, dying,
                   failed>>

\* hb_threadWaitForIdle, back from a wait.
IdleWake(t) ==
    /\ pc[t] = "idleWait" /\ t \notin waiting
    /\ MutexFree(t)
    /\ IF content = 0
       THEN /\ BecomeInspector(t)
            /\ content' = content + 1
            /\ UNCHANGED waiting
       ELSE /\ waiting' = waiting \cup {t}
            /\ UNCHANGED <<content, aux, uiIdleInspect, pc>>
    /\ UNCHANGED <<lock, fence, bInUse, saved, canceled, dying, failed>>

\* hb_threadIdleEnd lowers the fence without the Mutex ...
IdleEnd(t) ==
    /\ Running(t) /\ uiIdleInspect[t] > 0
    /\ aux' = 0
    /\ uiIdleInspect' = [uiIdleInspect EXCEPT ![t] = @ - 1]
    /\ bInUse' = [bInUse EXCEPT ![t] = TRUE]
    /\ Goto(t, "idleEnd")
    /\ UNCHANGED <<content, lock, waiting, fence, saved, canceled,
                   dying, failed>>

\* ... and signals, also without it.
IdleSignal(t) ==
    /\ pc[t] = "idleEnd"
    /\ Signal
    /\ Goto(t, "exec")
    /\ UNCHANGED <<gate, lock, bInUse, uiIdleInspect, saved, canceled, dying,
                   failed>>

ThreadIdleFence(t) ==
    /\ "idleFence" \in Cases
    /\ Running(t) /\ MutexFree(t)
    /\ bIdleFence' \in {"up", "down"} /\ asked' = bIdleFence'
    /\ UNCHANGED <<content, aux, lock, waiting, pc, bInUse, uiIdleInspect,
                   saved, canceled, dying, failed>>

-----------------------------------------------------------------------------
(* Threads start and end.                                                  *)

\* The father counts the stack of the child; the child runs at once, it
\* does not take the Mutex before its first HB_STACK_UNLOCK.
StartThread(t, child) ==
    /\ Running(t)
    /\ uiIdleInspect[t] > 0 => "inspectorStarts" \in Cases
    /\ ~Alive(child) /\ owner # child
    /\ MutexFree(t)
    /\ content' = content + 1
    /\ Goto(child, "exec")
    /\ bInUse' = [bInUse EXCEPT ![child] = TRUE]
    /\ UNCHANGED <<aux, lock, waiting, fence, uiIdleInspect, saved,
                   canceled, dying, failed>>

\* pthread_create fails: the new stack is unlinked and destroyed.
StartThreadFails(t) ==
    /\ "startFails" \in Cases /\ failed < MaxFailures
    /\ Running(t) /\ uiIdleInspect[t] = 0
    /\ MutexFree(t)
    /\ content' = content + 1
    /\ failed' = failed + 1
    /\ UNCHANGED <<aux, lock, waiting, fence, pc, bInUse, uiIdleInspect,
                   saved, canceled, dying>>

\* KILLTHREAD of one thread; hb_threadKillAll, an inspector, of all of them.
Cancel(t, targets) ==
    /\ "cancel" \in Cases
    /\ Running(t)
    /\ \/ \E u \in Threads \ {Main} : Alive(u) /\ targets = {u}
       \/ /\ uiIdleInspect[t] > 0
          /\ targets = {u \in Threads \ {t, Main} : Alive(u)}
    /\ canceled' = canceled \cup targets
    /\ UNCHANGED <<gate, lock, waiting, pc, bInUse, uiIdleInspect, saved,
                   dying, failed>>

\* The thread reaches a cancellation point outside of this module, with the
\* stack released (HB_TEST_CANCEL of the period, a sleep, a read) or in use
\* (the end of hb_vmExecute), and enters hb_threadTerminator.
TestCancel(t) ==
    /\ t \in canceled \ dying
    /\ pc[t] = "exec"
    /\ uiIdleInspect[t] > 0 => "inspectorEnds" \in Cases
    /\ dying' = dying \cup {t}
    /\ UNCHANGED <<gate, lock, waiting, pc, bInUse, uiIdleInspect, saved,
                   canceled, failed>>

\* Cancelled on the condition of HB_STACK_LOCK, where no cleanup is pushed:
\* pthread_cond_wait takes the Mutex again before the thread goes.
CancelInFence(t) ==
    /\ "fenceCancel" \in Cases
    /\ pc[t] = "lockWait" /\ t \in canceled \ dying
    /\ MutexFree(t)
    /\ owner' = t /\ depth' = depth + 1
    /\ waiting' = waiting \ {t}
    /\ dying' = dying \cup {t}
    /\ Goto(t, "exec")
    /\ UNCHANGED <<gate, bInUse, uiIdleInspect, saved, canceled, failed>>

\* Mutant: hb_threadResetAux forgets the fence.
CancelInIdleFenced(t) ==
    /\ "idleCancel" \in Cases
    /\ pc[t] = "idleWait" /\ t \in canceled
    /\ MutexFree(t)
    /\ Signal
    /\ dying' = dying \cup {t}
    /\ Goto(t, "exec")
    /\ UNCHANGED <<gate, lock, bInUse, uiIdleInspect, saved, canceled,
                   failed>>

\* Cancelled on the condition of hb_threadWaitForIdle: hb_threadResetAux.
CancelInIdle(t) ==
    /\ "idleCancel" \in Cases
    /\ pc[t] = "idleWait" /\ t \in canceled
    /\ MutexFree(t)
    /\ aux' = 0
    /\ Signal
    /\ dying' = dying \cup {t}
    /\ Goto(t, "exec")
    /\ UNCHANGED <<content, lock, fence, bInUse, uiIdleInspect, saved,
                   canceled, failed>>

\* The function of the thread returns.
Exit(t) ==
    /\ t # Main
    /\ Running(t)
    /\ uiIdleInspect[t] > 0 => "inspectorEnds" \in Cases
    /\ dying' = dying \cup {t}
    /\ UNCHANGED <<gate, lock, waiting, pc, bInUse, uiIdleInspect, saved,
                   canceled, failed>>

\* Mutant: the last one tells nobody.
TerminateSilent(t) ==
    /\ t \in dying /\ pc[t] = "exec"
    /\ bInUse[t] \/ uiIdleInspect[t] > 0
    /\ MutexFree(t)
    /\ content' = content - 1
    /\ Goto(t, "none")
    /\ bInUse' = [bInUse EXCEPT ![t] = FALSE]
    /\ uiIdleInspect' = [uiIdleInspect EXCEPT ![t] = 0]
    /\ saved' = [saved EXCEPT ![t] = "none"]
    /\ canceled' = canceled \ {t} /\ dying' = dying \ {t}
    /\ UNCHANGED <<aux, lock, waiting, fence, failed>>

\* The last critical section of hb_threadTerminator, that was entered with
\* the stack locked (TestFence) or by an inspector.
Terminate(t) ==
    /\ t \in dying /\ pc[t] = "exec"
    /\ bInUse[t] \/ uiIdleInspect[t] > 0
    /\ MutexFree(t)
    /\ content' = content - 1
    /\ IF content' < 1 THEN Signal ELSE UNCHANGED waiting
    /\ Goto(t, "none")
    /\ bInUse' = [bInUse EXCEPT ![t] = FALSE]
    /\ uiIdleInspect' = [uiIdleInspect EXCEPT ![t] = 0]
    /\ saved' = [saved EXCEPT ![t] = "none"]
    /\ canceled' = canceled \ {t} /\ dying' = dying \ {t}
    /\ UNCHANGED <<aux, lock, fence, failed>>

-----------------------------------------------------------------------------
(* hb_threadWaitAll of the main thread.                                    *)

OthersAlive == \E u \in Threads \ {Main} : Alive(u)

WaitAll ==
    /\ "waitAll" \in Cases
    /\ Running(Main) /\ uiIdleInspect[Main] = 0
    /\ MutexFree(Main)
    /\ IF content - 1 > 0 \/ OthersAlive
       THEN /\ content' = content - 1
            /\ bInUse' = [bInUse EXCEPT ![Main] = FALSE]
            /\ waiting' = {Main}
            /\ Goto(Main, "allWait")
       ELSE Signal /\ UNCHANGED <<content, bInUse, pc>>
    /\ UNCHANGED <<aux, lock, fence, uiIdleInspect, saved, canceled,
                   dying, failed>>

AllWake ==
    /\ pc[Main] = "allWait" /\ Main \notin waiting
    /\ MutexFree(Main)
    /\ IF content > 0 \/ OthersAlive
       THEN waiting' = waiting \cup {Main} /\ UNCHANGED <<content, bInUse, pc>>
       ELSE /\ content' = content + 1
            /\ bInUse' = [bInUse EXCEPT ![Main] = TRUE]
            /\ Goto(Main, "exec")
            /\ UNCHANGED waiting
    /\ UNCHANGED <<aux, lock, fence, uiIdleInspect, saved, canceled,
                   dying, failed>>

\* POSIX lets a wait return with no signal.
SpuriousWake(t) ==
    /\ "spurious" \in Cases
    /\ t \in waiting
    /\ waiting' = waiting \ {t}
    /\ UNCHANGED <<gate, lock, pc, bInUse, uiIdleInspect, saved, canceled,
                   dying, failed>>

-----------------------------------------------------------------------------
Step(t) == \/ StackUnlock(t) \/ TestFence(t) \/ FenceWait(t)
           \/ ForceFence(t) \/ RestoreFence(t)
           \/ WaitForIdle(t) \/ IdleWake(t) \/ IdleEnd(t) \/ IdleSignal(t)
           \/ ThreadIdleFence(t)
           \/ \E child \in Threads : StartThread(t, child)
           \/ StartThreadFails(t)
           \/ \E targets \in SUBSET Threads : Cancel(t, targets)
           \/ TestCancel(t) \/ CancelInFence(t) \/ CancelInIdle(t)
           \/ Exit(t) \/ Terminate(t)
           \/ SpuriousWake(t)

Next == (\E t \in Threads : Step(t)) \/ WaitAll \/ AllWake

Spec == Init /\ [][Next]_vars

\* Every step a thread has begun goes on; a thread that runs gives its stack
\* back every HB_VM_UNLOCK_PERIOD pcodes (strongly fair: the collector and the
\* error handler begin and end their inspection within a pcode, so the period
\* also expires outside of one); an inspector ends; and a cancelled thread that
\* released its stack passes a cancellation point before it has it again.
Progress(t) == /\ SF_vars(StackUnlock(t))
               /\ WF_vars(TestFence(t)) /\ WF_vars(FenceWait(t))
               /\ WF_vars(RestoreFence(t))
               /\ WF_vars(pc[t] = "forced" /\ WaitForIdle(t))
               /\ WF_vars(IdleWake(t))
               /\ WF_vars(IdleEnd(t)) /\ WF_vars(IdleSignal(t))
               /\ SF_vars(TestCancel(t)) /\ WF_vars(Terminate(t))

FairSpec == Spec /\ WF_vars(AllWake) /\ \A t \in Threads : Progress(t)

-----------------------------------------------------------------------------
(* Properties.                                                             *)

\* The variables have their types; the count never falls below zero.
TypeOK == /\ content \in Nat /\ aux \in {0, 1}
          /\ owner \in Threads \cup {NoThread} /\ depth \in Nat
          /\ waiting \subseteq Threads
          /\ bIdleFence \in {"up", "down"} /\ asked \in {"up", "down"}
          /\ pc \in [Threads -> Places]
          /\ bInUse \in [Threads -> BOOLEAN]
          /\ uiIdleInspect \in [Threads -> Nat]
          /\ saved \in [Threads -> {"none", "up", "down"}]
          /\ canceled \subseteq Threads /\ dying \subseteq Threads
          /\ failed \in 0..MaxFailures

\* The threads that use a stack, their own or all of them.
Counted == {t \in Threads : bInUse[t] \/ uiIdleInspect[t] > 0}

\* What the scheme relies on, and the program does not enforce: an inspector
\* inspects once and starts no thread, and no thread is cancelled while it
\* waits to inspect unless it is the only one that ever does.
Disciplined == /\ {"nestedInspect", "inspectorStarts"} \cap Cases = {}
               /\ "idleCancel" \in Cases => \A t, u \in Inspectors : t = u

\* An idle inspector (the garbage collector, the error handler,
\* hb_threadKillAll) runs only while no other thread uses a stack.
Exclusive == \A t \in Threads : uiIdleInspect[t] > 0 => Counted = {t}

\* content.asLong is the number of stacks in use, and one more for each
\* StartThread whose pthread_create failed.
CountKept == content = Cardinality(Counted) + failed

\* A raised fence has someone who will lower it: an inspector, or a thread
\* that waits to be one.
FenceHasOwner == aux = 1 => \E t \in Threads : \/ uiIdleInspect[t] > 0
                                              \/ pc[t] = "idleWait"

\* No thread ends with hb_runningStacks.Mutex held.
NoOrphanMutex == owner # NoThread => Alive(owner)

\* Once an inspector waits behind the fence, a thread that released its
\* stack does not get it back before the inspector had its turn.
FenceHolds ==
    [][\A t, u \in Threads :
           /\ pc[t] = "idleWait" /\ pc'[t] = "idleWait" /\ bIdleFence = "up"
           /\ Alive(u) /\ u \notin Counted
           => u \notin Counted']_vars

\* From some point on, threads stop coming and going.
Settled == \E alive \in SUBSET Threads : <>[]({u \in Threads : Alive(u)} = alive)

\* An inspector that waits gets its turn, unless the threads that run go on
\* for ever starting others and ending before they ever give the stack back.
InspectorGetsIn ==
    Settled => \A t \in Threads :
                   pc[t] = "idleWait" ~> uiIdleInspect[t] > 0 \/ t \in dying

\* If the inspections stop, and threads stop coming and going, no thread
\* stays at the fence: the signal hb_threadIdleEnd may lose is made up for by
\* the next HB_STACK_UNLOCK of any thread.
FenceOpens ==
    Settled /\ <>[](aux = 0)
    => \A t \in Threads : []<>(pc[t] \notin {"fenced", "lockWait"})

\* WAITFORTHREADS returns when each of the other threads ends or was
\* cancelled for good.
WaitAllReturns ==
    <>[](\A u \in Threads \ {Main} : Alive(u) => u \in canceled)
    => (pc[Main] = "allWait" ~> pc[Main] = "exec")

\* The scheme keeps the promise of StackGate.
Gate == INSTANCE StackGate WITH
            users <- {t \in Threads : bInUse[t]},
            inspectors <- {t \in Threads : uiIdleInspect[t] > 0}

GateSpec == Gate!Spec

-----------------------------------------------------------------------------
(* What the documents promise and the code does not keep: TLC refutes each *)
(* of these, with the constants that README.md names.                      *)

\* content.asLong is the number of stacks in use: an inspector that waits
\* for zero waits for threads that exist.
CountExact == content = Cardinality(Counted)

\* No thread sleeps at a fence that is down and whose end was signalled.
NoLostWakeup == \A t \in waiting :
                    pc[t] = "lockWait" => \/ aux = 1
                                          \/ \E u \in Threads : pc[u] = "idleEnd"

\* With no error handler at work, the option is what THREADIDLEFENCE set.
FenceOption == (\A t \in Threads : saved[t] = "none") => bIdleFence = asked
=============================================================================
