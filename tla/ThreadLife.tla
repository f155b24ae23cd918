----------------------------- MODULE ThreadLife ------------------------------
(***************************************************************************)
(* Threads and the objects that name them (thread.c, POSIX build): a       *)
(* thread, its stack in the list hb_ht_stack, the thread objects of the    *)
(* language (HB_THREAD_ID), that outlive it, and the record both share     *)
(* (HB_THREAD_READY), that the last of them frees.                         *)
(*                                                                         *)
(* Threads are named in the order of their start, and each lives once.     *)
(* What guards a stack while it is used is the subject of RunningStacks.   *)
(***************************************************************************)
EXTENDS Integers, FiniteSets

CONSTANTS
    LastThread,    \* bound: the threads are 0, the main one, .. LastThread
    NoThread,
    Callers,       \* the threads that start threads and use thread objects
    Handles,       \* the places for thread objects
    NoHandle,
    HB_THREAD_MAX_UNIQUE_ID,
    Cases          \* "startFails", "reuse" of system ids, "joinCancel",
                   \* "getThreadId"

Threads == 0 .. LastThread
Main == 0

ASSUME ThreadsAssumption == /\ LastThread \in Nat /\ NoThread \notin Threads
                            /\ Callers \subseteq Threads
ASSUME HandlesAssumption == NoHandle \notin Handles /\ IsFiniteSet(Handles)
ASSUME IdAssumption == HB_THREAD_MAX_UNIQUE_ID \in Nat /\ HB_THREAD_MAX_UNIQUE_ID > 1
ASSUME CasesAssumption ==
    Cases \subseteq {"startFails", "reuse", "joinCancel", "getThreadId"}

VARIABLES
    stage,       \* how far each thread is in its life
    th_id,       \* its system id, named by the first thread that had it
    cancelled,   \* pthread_cancel was called for it while it ran
    detached,    \* pthread_detach was called for it, and it is known
    joiner,      \* who waits for it in pthread_join
    ready,       \* its HB_THREAD_READY; freed when ulCounter is zero
    pThreadID,   \* the objects its stack links
    handle,      \* the thread objects
    call,        \* what each thread is in the middle of
    tooEarly,    \* history: how far threads were that still had their stacks in
                 \* hb_ht_stack when a JoinThread of them returned .T.
    abandoned,   \* history: who is known and had a joiner that was cancelled
    undefined    \* history: freed memory or a null pointer was read

system == <<th_id, cancelled, detached, joiner>>
objects == <<ready, pThreadID, handle>>
vars == <<stage, system, objects, call, tooEarly, abandoned, undefined>>

Stages == {"new",      \* not started
           "runs",
           "ending",   \* in hb_threadTerminator, not to be cancelled any more
           "closing",  \* ... with its stack locked and the thread detached
           "clearing", \* ... and hb_runningStacks.Mutex taken
           "destroying",   \* ... and its stack unlinked
           "closed",   \* its stack is destroyed
           "over",     \* it has ended and somebody has to join it
           "gone"}     \* the system has forgotten it

Ready == [bActive : BOOLEAN, ulCounter : Int]

\* A place for an object is free, holds one, or one that is being finalized.
Handle == [state : {"free", "live", "unlinked"}, of : Threads, bReady : BOOLEAN,
           pStack : Threads \cup {NoThread}]

Call == [op : {"none", "join", "stop", "kill", "getId"}, h : Handles \cup {NoHandle},
         at : {"none", "cancel", "join", "wait", "read"}]
NoCall == [op |-> "none", h |-> NoHandle, at |-> "none"]

\* hb_threadInit.  The main thread has no HB_THREAD_READY.
Init == /\ stage = [t \in Threads |-> IF t = Main THEN "runs" ELSE "new"]
        /\ th_id = [t \in Threads |-> t]
        /\ cancelled = [t \in Threads |-> FALSE] /\ detached = [t \in Threads |-> FALSE]
        /\ joiner = [t \in Threads |-> NoThread]
        /\ ready = [t \in Threads |-> [bActive |-> FALSE, ulCounter |-> 0]]
        /\ pThreadID = [t \in Threads |-> {}]
        /\ handle = [h \in Handles |-> [state |-> "free", of |-> Main, bReady |-> FALSE,
                                        pStack |-> NoThread]]
        /\ call = [t \in Threads |-> NoCall]
        /\ tooEarly = {} /\ abandoned = {} /\ undefined = FALSE

-----------------------------------------------------------------------------
Known(t) == stage[t] \notin {"new", "gone"}
\* It is "out of business" when it has given back its mutexes and taken that of
\* hb_runningStacks.  Its stack is in the list hb_ht_stack a little longer, and
\* it has one until that is destroyed.
InBusiness == {"runs", "ending", "closing"}
Linked == InBusiness \cup {"clearing"}
HasStack(t) == stage[t] \in Linked \cup {"destroying"}

\* hb_runningStacks.Mutex.
MutexFree == \A t \in Threads : stage[t] \notin {"clearing", "destroying"}

\* PRG code of the thread runs.
Idle(s) == stage[s] = "runs" /\ call[s] = NoCall /\ ~undefined

In(s, at) == stage[s] = "runs" /\ call[s].at = at /\ ~undefined

Free(h) == handle[h].state = "free"
Live(h) == handle[h].state = "live"
Of(h) == handle[h].of

\* The test with which the functions on thread objects begin.
IsActive(h) == Live(h) /\ handle[h].bReady /\ ready[Of(h)].bActive
               /\ handle[h].pStack # NoThread

-----------------------------------------------------------------------------
(* StartThread, and GetCurrentThread.                                      *)

\* th_vm_id: hb_threadUniqueId counts the starts and begins again at one; the
\* number of the main thread is never set.
VmId(t) == IF t = Main THEN 0 ELSE 1 + ((t - 1) % (HB_THREAD_MAX_UNIQUE_ID - 1))

\* The system gives the id of a thread that it has forgotten to another one.
FreeIds(t) == {t} \cup {i \in Threads :
                          /\ "reuse" \in Cases
                          /\ \E u \in Threads : stage[u] = "gone" /\ th_id[u] = i
                          /\ \A u \in Threads : Known(u) => th_id[u] # i}

IsNext(t) == \A u \in Threads : stage[u] = "new" <=> u >= t

\* The new stack and the object are two holders of the record.
StartThread(s, t, h) ==
    /\ Idle(s) /\ s \in Callers /\ IsNext(t) /\ Free(h) /\ MutexFree
    /\ stage' = [stage EXCEPT ![t] = "runs"]
    /\ \E i \in FreeIds(t) : th_id' = [th_id EXCEPT ![t] = i]
    /\ ready' = [ready EXCEPT ![t] = [bActive |-> TRUE, ulCounter |-> 2]]
    /\ pThreadID' = [pThreadID EXCEPT ![t] = {h}]
    /\ handle' = [handle EXCEPT ![h] = [state |-> "live", of |-> t, bReady |-> TRUE,
                                        pStack |-> t]]
    /\ UNCHANGED <<cancelled, detached, joiner, call, tooEarly, abandoned, undefined>>

\* pthread_create fails: hb_threadDestroyStack gives up its hold of the record.
StartThreadFails(s, t, h) ==
    /\ "startFails" \in Cases
    /\ Idle(s) /\ s \in Callers /\ IsNext(t) /\ Free(h) /\ MutexFree
    /\ stage' = [stage EXCEPT ![t] = "gone"]
    /\ ready' = [ready EXCEPT ![t] = [bActive |-> FALSE, ulCounter |-> 1]]
    /\ handle' = [handle EXCEPT ![h] = [state |-> "live", of |-> t, bReady |-> FALSE,
                                        pStack |-> NoThread]]
    /\ UNCHANGED <<system, pThreadID, call, tooEarly, abandoned, undefined>>

\* Mutant: one more object and no more holders.
GetCurrentThreadUncounted(s, h) ==
    /\ Idle(s) /\ s \in Callers \ {Main} /\ Free(h) /\ MutexFree
    /\ handle' = [handle EXCEPT ![h] = [state |-> "live", of |-> s, bReady |-> TRUE,
                                        pStack |-> s]]
    /\ pThreadID' = [pThreadID EXCEPT ![s] = @ \cup {h}]
    /\ UNCHANGED <<stage, system, ready, call, tooEarly, abandoned, undefined>>

\* Nobody else sees the object before the function returns.
GetCurrentThread(s, h) ==
    /\ Idle(s) /\ s \in Callers \ {Main} /\ Free(h) /\ MutexFree
    /\ ready' = [ready EXCEPT ![s].ulCounter = @ + 1]
    /\ handle' = [handle EXCEPT ![h] = [state |-> "live", of |-> s, bReady |-> TRUE,
                                        pStack |-> s]]
    /\ pThreadID' = [pThreadID EXCEPT ![s] = @ \cup {h}]
    /\ UNCHANGED <<stage, system, call, tooEarly, abandoned, undefined>>

-----------------------------------------------------------------------------
(* hb_threadThreadIdFinalize, for an object that nobody holds: it unlinks  *)
(* the object under the mutex and gives up its hold of the record behind.  *)

\* Mutant: an object whose thread lives stays linked.
FinalizeLinked(h) ==
    /\ Live(h) /\ MutexFree /\ ~undefined /\ \A s \in Threads : call[s].h # h
    /\ handle' = [handle EXCEPT ![h].state = "unlinked"]
    /\ UNCHANGED <<stage, system, ready, pThreadID, call, tooEarly, abandoned, undefined>>

Finalize(h) ==
    /\ Live(h) /\ MutexFree /\ ~undefined /\ \A s \in Threads : call[s].h # h
    /\ handle' = [handle EXCEPT ![h].state = "unlinked"]
    /\ pThreadID' = [t \in Threads |->
                        IF ready[Of(h)].bActive /\ handle[h].pStack = t
                        THEN pThreadID[t] \ {h} ELSE pThreadID[t]]
    /\ UNCHANGED <<stage, system, ready, call, tooEarly, abandoned, undefined>>

FinalizeEnd(h) ==
    /\ handle[h].state = "unlinked" /\ ~undefined
    /\ ready' = [ready EXCEPT ![Of(h)].ulCounter = @ - 1]
    /\ handle' = [handle EXCEPT ![h] = [state |-> "free", of |-> Main, bReady |-> FALSE,
                                        pStack |-> NoThread]]
    /\ UNCHANGED <<stage, system, pThreadID, call, tooEarly, abandoned, undefined>>

-----------------------------------------------------------------------------
(* JoinThread, StopThread, KillThread and GetThreadId.  The object is      *)
(* tested first; its system id is used later, with no lock in between.     *)

Begin(s, h, op, at) == /\ Idle(s) /\ s \in Callers /\ IsActive(h)
                       /\ call' = [call EXCEPT ![s] = [op |-> op, h |-> h, at |-> at]]
                       /\ UNCHANGED <<stage, system, objects, tooEarly, abandoned, undefined>>

JoinThread(s, h) == Begin(s, h, "join", "join")

\* JoinThread returns .T.
ReturnTrue(h) == tooEarly' = tooEarly \cup ({stage'[Of(h)]} \cap Linked)

\* The thread is half way out: pStack is read without the mutex, and JoinThread
\* returns .T. and looks no further.
JoinAtOnce(s, h) == /\ Idle(s) /\ s \in Callers /\ Live(h)
                    /\ handle[h].bReady /\ ready[Of(h)].bActive
                    /\ handle[h].pStack = NoThread
                    /\ UNCHANGED <<stage, system, objects, call, abandoned, undefined>>
                    /\ ReturnTrue(h)

StopThread(s, h) == Begin(s, h, "stop", "cancel")
KillThread(s, h) == Begin(s, h, "kill", "cancel")
GetThreadId(s, h) == "getThreadId" \in Cases /\ Begin(s, h, "getId", "read")

\* The thread that has the id of the object now.
Named(h) == {u \in Threads : Known(u) /\ th_id[u] = th_id[Of(h)]}

\* pthread_cancel.
SendCancel(s) ==
    /\ In(s, "cancel")
    /\ cancelled' = [t \in Threads |->
                        cancelled[t] \/ (t \in Named(call[s].h) /\ stage[t] = "runs")]
    /\ call' = [call EXCEPT ![s] = IF @.op = "stop" THEN [@ EXCEPT !.at = "join"] ELSE NoCall]
    /\ UNCHANGED <<stage, th_id, detached, joiner, objects, tooEarly, abandoned, undefined>>

\* pthread_join: external.  A thread is not joined by itself, by two others, by
\* one it waits for, nor when it is detached.
Joinable(s, u) == /\ u # s /\ ~detached[u] /\ joiner[u] = NoThread
                  /\ joiner[s] = u => cancelled[u]

Join(s) == /\ In(s, "join")
           /\ \E u \in Named(call[s].h) : Joinable(s, u) /\ joiner' = [joiner EXCEPT ![u] = s]
           /\ call' = [call EXCEPT ![s].at = "wait"]
           /\ UNCHANGED <<stage, th_id, cancelled, detached, objects, tooEarly,
                          abandoned, undefined>>

\* Mutant: what pthread_join returns is not looked at.
JoinRefusedTrue(s) ==
    /\ In(s, "join") /\ \A u \in Named(call[s].h) : ~Joinable(s, u)
    /\ UNCHANGED <<stage, system, objects, abandoned, undefined>>
    /\ IF call[s].op = "join" THEN ReturnTrue(call[s].h) ELSE UNCHANGED tooEarly
    /\ call' = [call EXCEPT ![s] = NoCall]

\* JoinThread returns .F.; StopThread does not look at the result.
JoinRefused(s) ==
    /\ In(s, "join") /\ \A u \in Named(call[s].h) : ~Joinable(s, u)
    /\ call' = [call EXCEPT ![s] = NoCall]
    /\ UNCHANGED <<stage, system, objects, tooEarly, abandoned, undefined>>

JoinReturns(s, u) ==
    /\ In(s, "wait") /\ joiner[u] = s /\ stage[u] = "over"
    /\ stage' = [stage EXCEPT ![u] = "gone"]
    /\ joiner' = [joiner EXCEPT ![u] = NoThread]
    /\ IF call[s].op = "join" THEN ReturnTrue(call[s].h) ELSE UNCHANGED tooEarly
    /\ call' = [call EXCEPT ![s] = NoCall]
    /\ abandoned' = abandoned \ {u}
    /\ UNCHANGED <<th_id, cancelled, detached, objects, undefined>>

\* The number is read through pStack, that was tested before: the stack may be
\* freed meanwhile, and pStack be read again or not.
ReadId(s) == /\ In(s, "read")
             /\ undefined' \in {~HasStack(Of(call[s].h)), handle[call[s].h].pStack = NoThread}
             /\ call' = [call EXCEPT ![s] = NoCall]
             /\ UNCHANGED <<stage, system, objects, tooEarly, abandoned>>

\* hb_threadKillAll, alone as an inspector: the threads in the list, but not the
\* main one and not itself.
KillAllThreads(s) ==
    /\ Idle(s) /\ s \in Callers /\ \A t \in Threads : stage[t] \notin {"closing", "clearing", "destroying"}
    /\ cancelled' = [t \in Threads |-> cancelled[t] \/ (stage[t] = "runs" /\ t \notin {Main, s})]
    /\ UNCHANGED <<stage, th_id, detached, joiner, objects, call, tooEarly, abandoned, undefined>>

-----------------------------------------------------------------------------
(* The end of a thread.                                                    *)

\* Its function returns, or it is cancelled between two calls.  The main thread
\* ends with the program.
LeaveCode(t) == /\ stage' = [stage EXCEPT ![t] = "ending"]
                /\ cancelled' = [cancelled EXCEPT ![t] = FALSE]

Exit(t) == /\ Idle(t) /\ t # Main
           /\ LeaveCode(t)
           /\ UNCHANGED <<th_id, detached, joiner, objects, call, tooEarly, abandoned, undefined>>

\* pthread_join is a cancellation point: the other one is not joined any more.
CancelInJoin(t) ==
    /\ "joinCancel" \in Cases
    /\ In(t, "wait") /\ cancelled[t]
    /\ LeaveCode(t)
    /\ joiner' = [u \in Threads |-> IF joiner[u] = t THEN NoThread ELSE joiner[u]]
    /\ abandoned' = abandoned \cup {u \in Threads : joiner[u] = t}
    /\ UNCHANGED <<th_id, detached, objects, call, tooEarly, undefined>>

\* Mutant: the thread is not detached.
DetachNot(t) == /\ stage[t] = "ending" /\ ~undefined
                /\ stage' = [stage EXCEPT ![t] = "closing"]
                /\ UNCHANGED <<system, objects, call, tooEarly, abandoned, undefined>>

\* hb_threadTerminator up to its mutexes.  pthread_detach: external; it has no
\* effect on a thread that is being joined.
Detach(t) == /\ stage[t] = "ending" /\ ~undefined
             /\ stage' = [stage EXCEPT ![t] = "closing"]
             /\ detached' = [detached EXCEPT ![t] = (joiner[t] = NoThread)]
             /\ UNCHANGED <<th_id, cancelled, joiner, objects, call, tooEarly, abandoned, undefined>>

\* ... then, with the mutex, the objects that are linked lose their stack one by
\* one; pThreadID is what the loop has before it ...
AtChain(t) == /\ stage[t] = "clearing" \/ (stage[t] = "closing" /\ MutexFree)
              /\ ~undefined

ClearObject(t, h) ==
    /\ AtChain(t) /\ h \in pThreadID[t]
    /\ stage' = [stage EXCEPT ![t] = "clearing"]
    /\ handle' = [handle EXCEPT ![h].pStack = NoThread]
    /\ pThreadID' = [pThreadID EXCEPT ![t] = @ \ {h}]
    /\ UNCHANGED <<system, ready, call, tooEarly, abandoned, undefined>>

\* ... the stack is unlinked ...
UnlinkStack(t) ==
    /\ AtChain(t) /\ pThreadID[t] = {}
    /\ stage' = [stage EXCEPT ![t] = "destroying"]
    /\ UNCHANGED <<system, objects, call, tooEarly, abandoned, undefined>>

\* ... and destroyed.  Objects that it held are finalized about then.
DestroyStack(t) ==
    /\ stage[t] = "destroying" /\ ~undefined
    /\ stage' = [stage EXCEPT ![t] = "closed"]
    /\ ready' = [ready EXCEPT ![t] = [bActive |-> FALSE, ulCounter |-> @.ulCounter - 1]]
    /\ call' = [call EXCEPT ![t] = NoCall]
    /\ UNCHANGED <<system, pThreadID, handle, tooEarly, abandoned, undefined>>

\* The system forgets who was detached.
End(t) == /\ stage[t] = "closed" /\ ~undefined
          /\ IF detached[t]
             THEN /\ stage' = [stage EXCEPT ![t] = "gone"]
                  /\ detached' = [detached EXCEPT ![t] = FALSE]
                  /\ abandoned' = abandoned \ {t}
             ELSE /\ stage' = [stage EXCEPT ![t] = "over"]
                  /\ UNCHANGED <<detached, abandoned>>
          /\ UNCHANGED <<th_id, cancelled, joiner, objects, call, tooEarly, undefined>>

-----------------------------------------------------------------------------
Step(s) == \/ \E h \in Handles : \/ \E t \in Threads : StartThread(s, t, h)
                                 \/ \E t \in Threads : StartThreadFails(s, t, h)
                                 \/ GetCurrentThread(s, h)
                                 \/ JoinThread(s, h) \/ JoinAtOnce(s, h) \/ StopThread(s, h)
                                 \/ KillThread(s, h) \/ GetThreadId(s, h)
           \/ SendCancel(s) \/ Join(s) \/ JoinRefused(s) \/ ReadId(s)
           \/ \E u \in Threads : JoinReturns(s, u)
           \/ KillAllThreads(s)
           \/ Exit(s) \/ CancelInJoin(s)
           \/ Detach(s) \/ (\E h \in Handles : ClearObject(s, h)) \/ UnlinkStack(s)
           \/ DestroyStack(s) \/ End(s)

Next == \/ \E s \in Threads : Step(s)
        \/ \E h \in Handles : Finalize(h) \/ FinalizeEnd(h)

Spec == Init /\ [][Next]_vars

\* A thread that ends goes on to its end, and pthread_join returns.
GoesOn(t) == Detach(t) \/ (\E h \in Handles : ClearObject(t, h)) \/ UnlinkStack(t)
             \/ DestroyStack(t) \/ End(t) \/ \E u \in Threads : JoinReturns(t, u)

FairSpec == Spec /\ \A t \in Threads : WF_vars(GoesOn(t))

-----------------------------------------------------------------------------
(* Properties.                                                             *)

TypeOK == /\ stage \in [Threads -> Stages]
          /\ th_id \in [Threads -> Threads]
          /\ cancelled \in [Threads -> BOOLEAN] /\ detached \in [Threads -> BOOLEAN]
          /\ joiner \in [Threads -> Threads \cup {NoThread}]
          /\ ready \in [Threads -> Ready]
          /\ pThreadID \in [Threads -> SUBSET Handles]
          /\ handle \in [Handles -> Handle]
          /\ call \in [Threads -> Call]
          /\ tooEarly \subseteq Linked /\ abandoned \subseteq Threads
          /\ undefined \in BOOLEAN

\* A thread's record is counted once for its stack and once for each object, so
\* that the last of them, and nobody before, frees it: hb_threadDestroyStack and
\* hb_threadThreadIdFinalize come in any order.
Holders(t) == {h \in Handles : handle[h].state # "free" /\ Of(h) = t}
ReadyCounted == \A t \in Threads \ {Main} :
    ready[t].ulCounter = Cardinality(Holders(t)) + IF HasStack(t) THEN 1 ELSE 0

\* An object points to a stack exactly when that stack links it, and then the
\* stack is there: no object is left with the pointer to a stack that
\* hb_threadTerminator has freed, and no stack with an object that was finalized.
HandlesChained ==
    /\ \A t \in Threads : pThreadID[t] = {h \in Handles : Live(h) /\ handle[h].pStack = t}
    /\ \A h \in Handles : Live(h) /\ handle[h].pStack # NoThread
                          => HasStack(handle[h].pStack) /\ handle[h].pStack = Of(h)

\* When JoinThread returns .T. the thread has left its code and given back its
\* mutexes, also when its system id belongs to another thread by then.  It may
\* still be at the very end of hb_threadTerminator (JoinWaits).
JoinTrue == tooEarly \cap InBusiness = {}

\* The system forgets every thread that ends: it is detached or somebody joins
\* it, in whichever order pthread_detach and pthread_join come.  Left out is whose
\* joiner was cancelled, and a program that has read freed memory.  As threads
\* start only so often, none is on its way for ever when all are done again and
\* again.
OnItsWay(t) == stage[t] \in {"ending", "closing", "clearing", "destroying", "closed", "over"}
Reaped == []<>(undefined \/ \A t \in Threads : OnItsWay(t) => t \in abandoned)

-----------------------------------------------------------------------------
(* What the manual promises and the code does not keep: TLC refutes each   *)
(* of these, with the constants that README.md names.                      *)

\* When JoinThread returns .T. the thread has finished (doc/thread.txt:330): at
\* least its stack is out of hb_ht_stack.
JoinWaits == tooEarly = {}

\* StopThread returns when the thread has ended (doc/thread.txt:93).
StopWaits == [][\A s \in Threads :
    call[s].op = "stop" /\ call'[s] = NoCall /\ stage'[s] = "runs"
    => stage'[Of(call[s].h)] = "gone"]_vars

\* KillThread and StopThread end the thread of the object (doc/thread.txt:130).
RightCancelled == [][\A s, t \in Threads :
    In(s, "cancel") /\ cancelled'[t] # cancelled[t] /\ call'[s] # call[s]
    => t = Of(call[s].h)]_vars

\* Two threads do not have one number (doc/thread.txt:236).
NumbersDiffer == \A t, u \in Threads : HasStack(t) /\ HasStack(u) /\ t # u
                                       => VmId(t) # VmId(u)

\* The resources of a thread are freed when it ends (hb_threadTerminator detaches
\* it, thread.c:997), whatever its joiner does.
AllReaped == []<>(\A t \in Threads : ~OnItsWay(t))

\* An object stays valid after the end of its thread (doc/thread.txt:63).
Defined == ~undefined
=============================================================================
