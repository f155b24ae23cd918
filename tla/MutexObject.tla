---------------------------- MODULE MutexObject ----------------------------
(***************************************************************************)
(* The mutex object of the language (HB_MUTEX_STRUCT of thread.h): a       *)
(* reentrant lock (MutexLock, MutexTryLock, MutexTimeOutLock, MutexUnlock) *)
(* and a queue of notifications (Notify, NotifyAll, Subscribe,             *)
(* SubscribeNow) that share one system mutex, "crit", and one condition.   *)
(*                                                                         *)
(* A critical section of crit is one step.  MutexLock releases it in the   *)
(* middle, by its wait; hb_mutexForceUnlock, which frees the lock of a     *)
(* thread that ends, does not take crit at all, so that the test of the    *)
(* locker and the wait that follows it are two steps.                      *)
(*                                                                         *)
(* Each blocking call gives the VM stack back before it takes crit and     *)
(* takes it again when it is done: that side is module RunningStacks.      *)
(***************************************************************************)
EXTENDS Integers, Sequences, FiniteSets

CONSTANTS
    Threads,
    NoThread,
    Lockers,       \* the threads that lock the mutex
    Subscribers,   \* the threads that subscribe it
    Cases,         \* the hard cases the program is allowed to meet
    Modulus,       \* lock_count is a USHORT: 65536 in the code
    MaxNotes       \* bound of TLC: Notify and NotifyAll, all together

AllCases == {"timedLock",        \* MutexTimeOutLock is used
             "timedSubscribe",   \* Subscribe with a time limit is used
             "subscribeNow",     \* SubscribeNow is used
             "notifyAll",        \* NotifyAll is used
             "lockedSubscribe",  \* a thread subscribes the mutex it holds
             "dieHolding",       \* a thread ends with the mutex locked
             "lockCancel",       \* a cancellation lands in MutexLock
             "subCancel",        \* ... in Subscribe
             "wrap",             \* more than 65535 nested locks
             "spurious"}         \* a wait returns with no signal

ASSUME ThreadsAssumption == NoThread \notin Threads /\ IsFiniteSet(Threads)
ASSUME RolesAssumption   == Lockers \subseteq Threads /\ Subscribers \subseteq Threads
ASSUME CasesAssumption   == Cases \subseteq AllCases
ASSUME BoundsAssumption  == Modulus \in Nat \ {0, 1} /\ MaxNotes \in Nat

VARIABLES
    locker,      \* HB_MUTEX_STRUCT.locker
    lock_count,  \* HB_MUTEX_STRUCT.lock_count
    waiting,     \* HB_MUTEX_STRUCT.waiting
    events,      \* HB_MUTEX_STRUCT.aEventObjects
    crit,        \* the holder of HB_MUTEX_STRUCT.mutex between two steps
    sleepers,    \* the threads asleep on HB_MUTEX_STRUCT.cond
    pc,          \* where a thread is
    issued,      \* auxiliary: notifications issued, that number the events
    last,        \* auxiliary: the event returned last
    due          \* auxiliary: who the last NotifyAll has still to resume

mutex == <<locker, lock_count>>
queue == <<waiting, events, issued, last, due>>
vars == <<locker, lock_count, waiting, events, crit, sleepers, pc,
          issued, last, due>>

Places == {"none",        \* no thread
           "exec",        \* outside of the calls below
           "lockTested",  \* in MutexLock, found it locked, has crit
           "lockWait",    \* in MutexLock, on the condition
           "timedWait",   \* in MutexTimeOutLock, on the condition
           "subWait",     \* in Subscribe, on the condition
           "subTimed",    \* in Subscribe with a limit, on the condition
           "broken",      \* took an event from an empty queue
           "dying"}       \* on its way to hb_threadTerminator

Subscribing == {"subWait", "subTimed"}

-----------------------------------------------------------------------------
CritFree == crit = NoThread

Goto(t, place) == pc' = [pc EXCEPT ![t] = place]

Sleep(t) == sleepers' = sleepers \cup {t}

Awake(t) == sleepers' = sleepers \ {t}

\* HB_COND_SIGNAL is pthread_cond_broadcast.
Signal == sleepers' = {}

Init == /\ locker = NoThread /\ lock_count = 0
        /\ waiting = 0 /\ events = <<>>
        /\ crit = NoThread /\ sleepers = {}
        /\ pc = [t \in Threads |-> "exec"]
        /\ issued = 0 /\ last = 0 /\ due = {}

-----------------------------------------------------------------------------
(* The lock.                                                               *)

Acquire(t) == locker' = t /\ lock_count' = 1

\* The owner only counts, without crit.
Reenter(t) == /\ locker = t
              /\ "wrap" \in Cases \/ lock_count < Modulus - 1
              /\ lock_count' = (lock_count + 1) % Modulus
              /\ UNCHANGED <<locker, crit, sleepers, pc, queue>>

\* The test of the loop of MutexLock: take the mutex, or go on to the wait.
LockTest(t) ==
    /\ CritFree
    /\ IF locker = NoThread
       THEN Acquire(t) /\ Goto(t, "exec") /\ UNCHANGED crit
       ELSE crit' = t /\ Goto(t, "lockTested") /\ UNCHANGED mutex
    /\ UNCHANGED <<sleepers, queue>>

Lock(t) == /\ pc[t] = "exec" /\ t \in Lockers
           /\ \/ Reenter(t)
              \/ locker # t /\ LockTest(t)

LockSleep(t) == /\ pc[t] = "lockTested"
                /\ crit' = NoThread
                /\ Sleep(t) /\ Goto(t, "lockWait")
                /\ UNCHANGED <<mutex, queue>>

LockWake(t) == /\ pc[t] = "lockWait" /\ t \notin sleepers
               /\ LockTest(t)

\* MutexTimeOutLock waits first and looks afterwards.
TimeOutLock(t) ==
    /\ "timedLock" \in Cases
    /\ pc[t] = "exec" /\ t \in Lockers
    /\ \/ Reenter(t)
       \/ /\ locker # t /\ CritFree
          /\ Sleep(t) /\ Goto(t, "timedWait")
          /\ UNCHANGED <<mutex, crit, queue>>

\* It was signalled, or its time is over.
TimeOutWake(t) == /\ pc[t] = "timedWait" /\ CritFree
                  /\ IF locker = NoThread THEN Acquire(t) ELSE UNCHANGED mutex
                  /\ Awake(t) /\ Goto(t, "exec")
                  /\ UNCHANGED <<crit, queue>>

TryLock(t) == /\ pc[t] = "exec" /\ t \in Lockers
              /\ \/ Reenter(t)
                 \/ /\ locker = NoThread /\ CritFree
                    /\ Acquire(t)
                    /\ UNCHANGED <<crit, sleepers, pc, queue>>

\* Mutant: nobody is told.
UnlockSilent(t) == /\ pc[t] = "exec" /\ locker = t /\ CritFree
                   /\ lock_count' = (lock_count - 1) % Modulus
                   /\ locker' = IF lock_count' = 0 THEN NoThread ELSE t
                   /\ UNCHANGED <<crit, sleepers, pc, queue>>

\* Mutant: the mutex is freed at the first call.
UnlockAtOnce(t) == /\ pc[t] = "exec" /\ locker = t /\ CritFree
                   /\ lock_count' = 0 /\ locker' = NoThread
                   /\ Signal
                   /\ UNCHANGED <<crit, pc, queue>>

\* Who does not have the mutex is ignored.
Unlock(t) == /\ pc[t] = "exec" /\ locker = t /\ CritFree
             /\ lock_count' = (lock_count - 1) % Modulus
             /\ IF lock_count' = 0
                THEN locker' = NoThread /\ Signal
                ELSE UNCHANGED <<locker, sleepers>>
             /\ UNCHANGED <<crit, pc, queue>>

-----------------------------------------------------------------------------
(* The notifications.                                                      *)

\* hb_itemReturnForward, hb_arrayDel and hb_arraySize of the first event.
Deliver(t, pending) == /\ events' = Tail(pending)
                       /\ last' = Head(pending)
                       /\ due' = due \ {t}

\* s_subscribeInternal up to its wait, if it waits.  SubscribeNow empties the
\* queue first; a call with a limit waits even if there is an event, a call
\* with limit zero never does.
Subscribe(t, now, limit) ==
    LET pending == IF now THEN <<>> ELSE events
        waits   == limit = "some" \/ (limit = "none" /\ pending = <<>>)
    IN /\ pc[t] = "exec" /\ t \in Subscribers /\ CritFree
       /\ now => "subscribeNow" \in Cases
       /\ limit = "some" => "timedSubscribe" \in Cases
       /\ locker = t => "lockedSubscribe" \in Cases
       /\ IF waits
          THEN /\ waiting' = waiting + 1
               /\ Sleep(t)
               /\ Goto(t, IF limit = "some" THEN "subTimed" ELSE "subWait")
               /\ events' = pending
               /\ UNCHANGED <<last, due>>
          ELSE /\ IF pending # <<>>
                  THEN Deliver(t, pending)
                  ELSE events' = pending /\ UNCHANGED <<last, due>>
               /\ UNCHANGED <<waiting, sleepers, pc>>
       /\ UNCHANGED <<mutex, crit, issued>>

\* Mutant: the count is lowered within the loop.
SubscribeWakeLeaves(t) ==
    /\ pc[t] = "subWait" /\ t \notin sleepers /\ CritFree
    /\ waiting' = waiting - 1
    /\ IF events = <<>>
       THEN Sleep(t) /\ UNCHANGED <<events, last, due, pc>>
       ELSE Deliver(t, events) /\ Goto(t, "exec") /\ UNCHANGED sleepers
    /\ UNCHANGED <<mutex, crit, issued>>

\* Mutant: the event that is returned stays in the queue.
SubscribeWakeKeeps(t) ==
    /\ pc[t] = "subWait" /\ t \notin sleepers /\ CritFree
    /\ IF events = <<>>
       THEN Sleep(t) /\ UNCHANGED <<waiting, events, last, due, pc>>
       ELSE /\ waiting' = waiting - 1
            /\ last' = Head(events) /\ due' = due \ {t}
            /\ Goto(t, "exec")
            /\ UNCHANGED <<events, sleepers>>
    /\ UNCHANGED <<mutex, crit, issued>>

\* The loop of a Subscribe without limit.
SubscribeWake(t) ==
    /\ pc[t] = "subWait" /\ t \notin sleepers /\ CritFree
    /\ IF events = <<>>
       THEN Sleep(t) /\ UNCHANGED <<waiting, events, last, due, pc>>
       ELSE /\ waiting' = waiting - 1
            /\ Deliver(t, events)
            /\ Goto(t, "exec")
            /\ UNCHANGED sleepers
    /\ UNCHANGED <<mutex, crit, issued>>

\* A wait with a limit that was signalled takes the first event without a
\* look at the queue.  On an empty one it forwards a null item and sizes the
\* queue to 0 - 1: what follows is undefined, and left out.
SubscribeSignalled(t) ==
    /\ pc[t] = "subTimed" /\ t \notin sleepers /\ CritFree
    /\ waiting' = waiting - 1
    /\ IF events # <<>>
       THEN Deliver(t, events) /\ Goto(t, "exec") /\ UNCHANGED crit
       ELSE crit' = t /\ Goto(t, "broken") /\ UNCHANGED <<events, last, due>>
    /\ UNCHANGED <<mutex, sleepers, issued>>

\* A wait whose time is over does not look at the queue either.
SubscribeTimesOut(t) ==
    /\ pc[t] = "subTimed" /\ t \in sleepers /\ CritFree
    /\ waiting' = waiting - 1
    /\ Awake(t) /\ Goto(t, "exec")
    /\ due' = due \ {t}
    /\ UNCHANGED <<mutex, events, crit, issued, last>>

\* Mutant: the event is added and nobody is told.
NotifySilent(t) == /\ pc[t] = "exec" /\ CritFree /\ issued < MaxNotes
                   /\ issued' = issued + 1
                   /\ events' = Append(events, issued')
                   /\ UNCHANGED <<mutex, waiting, crit, sleepers, pc, last, due>>

Notify(t) == /\ pc[t] = "exec" /\ CritFree /\ issued < MaxNotes
             /\ issued' = issued + 1
             /\ events' = Append(events, issued')
             /\ Signal
             /\ UNCHANGED <<mutex, waiting, crit, pc, last, due>>

\* One copy for each thread that is counted as waiting.
NotifyAll(t) == /\ "notifyAll" \in Cases
                /\ pc[t] = "exec" /\ CritFree /\ issued < MaxNotes
                /\ issued' = issued + 1
                /\ events' = events \o [i \in 1..waiting |-> issued']
                /\ due' = {u \in Threads : pc[u] \in Subscribing}
                /\ Signal
                /\ UNCHANGED <<mutex, waiting, crit, pc, last>>

-----------------------------------------------------------------------------
(* Threads come and go.                                                    *)

StartThread(t) == /\ pc[t] = "none" /\ crit # t
                  /\ Goto(t, "exec")
                  /\ UNCHANGED <<mutex, crit, sleepers, queue>>

\* A thread ends, or passes a cancellation point of the executor.
Exit(t) == /\ pc[t] = "exec"
           /\ locker = t => "dieHolding" \in Cases
           /\ Goto(t, "dying")
           /\ UNCHANGED <<mutex, crit, sleepers, queue>>

\* A cancellation in the wait of a lock: pthread_cond_wait takes crit, the
\* cleanup hb_rawMutexForceUnlock gives it back.
CancelInLock(t) == /\ "lockCancel" \in Cases
                   /\ pc[t] \in {"lockWait", "timedWait"} /\ CritFree
                   /\ Awake(t) /\ Goto(t, "dying")
                   /\ UNCHANGED <<mutex, crit, queue>>

\* A cancellation in the wait of Subscribe, that pushed no cleanup.
CancelInSubscribe(t) == /\ "subCancel" \in Cases
                        /\ locker = t => "dieHolding" \in Cases
                        /\ pc[t] \in Subscribing /\ CritFree
                        /\ crit' = t
                        /\ Awake(t) /\ Goto(t, "dying")
                        /\ due' = due \ {t}
                        /\ UNCHANGED <<mutex, waiting, events, issued, last>>

\* hb_threadTerminator frees the mutexes of the thread with
\* hb_mutexForceUnlock, that signals and does not take crit.
Terminate(t) == /\ pc[t] = "dying"
                /\ IF locker = t
                   THEN locker' = NoThread /\ lock_count' = 0 /\ Signal
                   ELSE UNCHANGED <<mutex, sleepers>>
                /\ Goto(t, "none")
                /\ UNCHANGED <<crit, queue>>

\* POSIX lets a wait return with no signal.
SpuriousWake(t) == /\ "spurious" \in Cases
                   /\ t \in sleepers
                   /\ Awake(t)
                   /\ UNCHANGED <<mutex, crit, pc, queue>>

-----------------------------------------------------------------------------
Limits == {"none", "zero", "some"}

Step(t) == \/ Lock(t) \/ LockSleep(t) \/ LockWake(t)
           \/ TimeOutLock(t) \/ TimeOutWake(t)
           \/ TryLock(t) \/ Unlock(t)
           \/ \E now \in BOOLEAN, limit \in Limits : Subscribe(t, now, limit)
           \/ SubscribeWake(t) \/ SubscribeSignalled(t) \/ SubscribeTimesOut(t)
           \/ Notify(t) \/ NotifyAll(t)
           \/ StartThread(t) \/ Exit(t)
           \/ CancelInLock(t) \/ CancelInSubscribe(t) \/ Terminate(t)
           \/ SpuriousWake(t)

Next == \E t \in Threads : Step(t)

Spec == Init /\ [][Next]_vars

\* A call that was begun goes on: strongly fair where it needs crit, that others
\* take and give back meanwhile.
Woken(t) == \/ LockWake(t) \/ TimeOutWake(t)
            \/ SubscribeWake(t) \/ SubscribeSignalled(t) \/ SubscribeTimesOut(t)
Progress(t) == WF_vars(LockSleep(t) \/ Terminate(t)) /\ SF_vars(Woken(t))

FairSpec == Spec /\ \A t \in Threads : Progress(t)

-----------------------------------------------------------------------------
(* Properties.                                                             *)

\* The variables have their types; lock_count is a USHORT.
TypeOK == /\ locker \in Threads \cup {NoThread}
          /\ lock_count \in 0..(Modulus - 1)
          /\ waiting \in Nat
          /\ events \in Seq(Nat)
          /\ crit \in Threads \cup {NoThread}
          /\ sleepers \subseteq Threads
          /\ pc \in [Threads -> Places]
          /\ issued \in Nat /\ last \in Nat
          /\ due \subseteq Threads

\* waiting counts the threads inside Subscribe, so that NotifyAll prepares a
\* copy for each of them and no more.
WaitingCounts == waiting = Cardinality({t \in Threads : pc[t] \in Subscribing})

\* No thread sleeps for a mutex that is free: MutexUnlock, and the end of a
\* thread that had it, resume those that wait.
LockerAwake == locker = NoThread => \A t \in sleepers : pc[t] # "lockWait"

\* No thread sleeps in Subscribe while there is a notification to return,
\* although lockers and subscribers share the condition.
SubscriberAwake == events # <<>> => \A t \in sleepers : pc[t] # "subWait"

\* No thread ends with the system mutex of the object held.
NoOrphanCrit == crit # NoThread => pc[crit] \notin {"dying", "none"}

\* A thread that ended has no mutex: a thread started with the same
\* system id does not inherit it.
DeadHoldsNothing == locker # NoThread => pc[locker] # "none"

\* Each Notify is returned by one Subscribe, in the order they were issued:
\* what was issued and not returned yet is in the queue.
Conserved == events = [i \in 1..(issued - last) |-> last + i]

\* The mutex is not free for ever while a thread waits for it in MutexLock:
\* the broadcast of MutexUnlock reaches it, or the next owner's will.
LockTaken == ~<>[](locker = NoThread /\ \E t \in Threads :
                       pc[t] \in {"lockTested", "lockWait"})

\* A notification does not stay for ever beside a thread that waits for one.
EventTaken == ~<>[](events # <<>> /\ \E t \in Threads : pc[t] = "subWait")

\* The lock keeps the promise of ReentrantLock.
ManualLock == INSTANCE ReentrantLock WITH
    hold  <- [t \in Threads |-> IF locker = t THEN lock_count ELSE 0],
    alive <- {t \in Threads : pc[t] \notin {"dying", "none"}}

LockSpec == ManualLock!Spec

-----------------------------------------------------------------------------
(* What the manual or the comments promise and the code does not keep: TLC *)
(* refutes each of these, with the constants that README.md names.         *)

\* A thread that waits for a mutex that is freed again and again gets it.
LockFair == \A t \in Threads :
                []<>(locker = NoThread)
                => (pc[t] = "lockWait" ~> pc[t] \notin {"lockTested", "lockWait"})

\* Subscribe says it was notified only if there is a notification.
NoEmptyTake == \A t \in Threads : pc[t] # "broken"

\* A Subscribe that finds a notification returns it at once.
LateSubscription ==
    [][\A t \in Threads : /\ pc[t] = "exec" /\ pc'[t] \in Subscribing
                          => events = <<>>]_vars

\* A Subscribe returns the notification that was issued last.
LastNotification == [][last' # last => last' = issued]_vars

\* A thread that subscribes the mutex it has locked gives it back.
SubscriberUnlocks == \A t \in Threads : pc[t] \in Subscribing => locker # t

\* There is a notification for each thread that NotifyAll has to resume.
AllNotified == Cardinality(due) <= Len(events)

\* A lock with a time limit does not wait for a mutex that is free.
TimedLockTakesFree ==
    [][\A t \in Threads : pc[t] = "exec" /\ pc'[t] = "timedWait"
                          => locker # NoThread]_vars
=============================================================================
