------------------------- MODULE MutexObject_proofs -------------------------
(***************************************************************************)
(* For any number of threads, any roles and any number of notifications:   *)
(* the types, no lost wakeup of a locker or of a subscriber, the count of  *)
(* the subscribers, the system mutex, the end of the threads, and the      *)
(* refinement of ReentrantLock.  Each theorem names the hard cases it has  *)
(* to exclude; the runs of these cases show why.                           *)
(***************************************************************************)
EXTENDS MutexObject, FiniteSetTheorems, SequenceTheorems, TLAPS

Types == /\ locker \in Threads \cup {NoThread}
         /\ lock_count \in 0..(Modulus - 1)
         /\ waiting \in Int
         /\ events \in Seq(Nat)
         /\ crit \in Threads \cup {NoThread}
         /\ sleepers \subseteq Threads
         /\ pc \in [Threads -> Places]
         /\ issued \in Nat /\ last \in Nat
         /\ due \subseteq Threads

\* What a thread does, by its place.
PlaceInv == \A t \in Threads :
    /\ t \in sleepers => pc[t] \in {"lockWait", "timedWait"} \cup Subscribing
    /\ pc[t] = "lockTested" => crit = t
    /\ pc[t] \in {"lockTested", "lockWait", "timedWait", "none"} => locker # t

IInv == Types /\ PlaceInv

-----------------------------------------------------------------------------
(* The inductive invariant.                                                *)

\* What the queue is built with keeps it a sequence of numbers.
LEMMA EventFacts ==
    /\ \A s \in Seq(Nat) : s # <<>> => Tail(s) \in Seq(Nat) /\ Head(s) \in Nat
    /\ \A s \in Seq(Nat), n \in Nat : Append(s, n) \in Seq(Nat)
    /\ \A s \in Seq(Nat), n \in Nat, k \in Int :
           s \o [i \in 1..k |-> n] \in Seq(Nat)
<1>1. ASSUME NEW s \in Seq(Nat), NEW n \in Nat, NEW k \in Int
      PROVE  s \o [i \in 1..k |-> n] \in Seq(Nat)
  <2>1. CASE k < 0
    <3>1. [i \in 1..k |-> n] = <<>>
      BY <2>1
    <3> QED
      BY <3>1
  <2>2. CASE k >= 0
    <3>1. [i \in 1..k |-> n] \in Seq(Nat)
      BY <2>2
    <3> QED
      BY <3>1
  <2> QED
    BY <2>1, <2>2
<1> QED
  BY <1>1

\* The mutex has just been created and nobody waits.
LEMMA InitInv == Init => IInv
  BY BoundsAssumption DEF Init, IInv, Types, PlaceInv, Places

\* The steps of the lock keep the invariant.
LEMMA LockInv ==
    ASSUME IInv, NEW t \in Threads,
           \/ Lock(t) \/ LockSleep(t) \/ LockWake(t)
           \/ TimeOutLock(t) \/ TimeOutWake(t) \/ TryLock(t) \/ Unlock(t)
    PROVE  IInv'
<1> USE ThreadsAssumption, BoundsAssumption DEF IInv, Types
<1>1. CASE Reenter(t) /\ pc[t] = "exec"
  <2>1. lock_count' \in 0..(Modulus - 1)
    BY <1>1 DEF Reenter
  <2> QED
    BY <1>1, <2>1 DEF Reenter, PlaceInv, queue
<1>2. CASE LockTest(t) /\ locker # t /\ t \notin sleepers
  <2>1. CASE locker = NoThread
    BY <1>2, <2>1
    DEF LockTest, CritFree, Acquire, Goto, PlaceInv, Places, queue
  <2>2. CASE locker # NoThread
    <3>1. Types'
      BY <1>2, <2>2 DEF LockTest, Goto, Places, queue, mutex
    <3>2. PlaceInv'
      BY <1>2, <2>2 DEF LockTest, CritFree, Goto, PlaceInv, queue, mutex
    <3> QED
      BY <3>1, <3>2
  <2> QED
    BY <2>1, <2>2
<1>3. CASE LockSleep(t)
  BY <1>3 DEF LockSleep, Sleep, Goto, PlaceInv, Places, mutex, queue
<1>4. CASE TimeOutLock(t) /\ ~Reenter(t)
  BY <1>4
  DEF TimeOutLock, CritFree, Sleep, Goto, PlaceInv, Places, mutex, queue
<1>5. CASE TimeOutWake(t)
  <2>1. CASE locker = NoThread
    BY <1>5, <2>1
    DEF TimeOutWake, CritFree, Acquire, Awake, Goto, PlaceInv, Places, queue
  <2>2. CASE locker # NoThread
    BY <1>5, <2>2
    DEF TimeOutWake, CritFree, Awake, Goto, PlaceInv, Places, mutex, queue
  <2> QED
    BY <2>1, <2>2
<1>6. CASE TryLock(t) /\ ~Reenter(t)
  BY <1>6 DEF TryLock, CritFree, Acquire, PlaceInv, queue
<1>7. CASE Unlock(t)
  <2>1. lock_count' \in 0..(Modulus - 1)
    BY <1>7 DEF Unlock
  <2> QED
    BY <1>7, <2>1 DEF Unlock, CritFree, Signal, PlaceInv, queue
<1>8. CASE Lock(t)
  <2>1. t \notin sleepers
    BY <1>8 DEF Lock, PlaceInv, Subscribing
  <2> QED
    BY <1>1, <1>2, <1>8, <2>1 DEF Lock
<1>9. CASE LockWake(t)
  BY <1>2, <1>9 DEF LockWake, PlaceInv
<1> QED
  BY <1>1, <1>3, <1>4, <1>5, <1>6, <1>7, <1>8, <1>9 DEF TimeOutLock, TryLock

\* The steps of the notifications keep it.
LEMMA QueueInv ==
    ASSUME IInv, NEW t \in Threads,
           \/ \E now \in BOOLEAN, limit \in Limits : Subscribe(t, now, limit)
           \/ SubscribeWake(t) \/ SubscribeSignalled(t) \/ SubscribeTimesOut(t)
           \/ Notify(t) \/ NotifyAll(t)
    PROVE  IInv'
<1> USE ThreadsAssumption DEF IInv, Types
<1>1. ASSUME NEW now \in BOOLEAN, NEW limit \in Limits,
             Subscribe(t, now, limit)
      PROVE  IInv'
  <2> DEFINE pending == IF now THEN <<>> ELSE events
  <2>1. pending \in Seq(Nat)
    OBVIOUS
  <2>2. CASE limit = "some" \/ (limit = "none" /\ pending = <<>>)
    <3>1. /\ waiting' = waiting + 1 /\ Sleep(t) /\ events' = pending
          /\ pc' = [pc EXCEPT ![t] = IF limit = "some" THEN "subTimed"
                                                       ELSE "subWait"]
          /\ pc[t] = "exec"
          /\ UNCHANGED <<last, due, mutex, crit, issued>>
      BY <1>1, <2>2 DEF Subscribe, Goto
    <3>2. Types'
      BY <2>1, <3>1 DEF Sleep, Places, mutex
    <3>3. PlaceInv'
      BY <3>1 DEF PlaceInv, Sleep, Subscribing, mutex
    <3> QED
      BY <3>2, <3>3
  <2>3. CASE ~(limit = "some" \/ (limit = "none" /\ pending = <<>>))
    <3>1. /\ UNCHANGED <<waiting, sleepers, pc, mutex, crit, issued>>
          /\ \/ pending # <<>> /\ Deliver(t, pending)
             \/ events' = pending /\ UNCHANGED <<last, due>>
      BY <1>1, <2>3 DEF Subscribe
    <3>2. events' \in Seq(Nat) /\ last' \in Nat /\ due' \subseteq Threads
      BY <2>1, <3>1, EventFacts DEF Deliver
    <3> QED
      BY <3>1, <3>2 DEF PlaceInv, mutex
  <2> QED
    BY <2>2, <2>3
<1>2. CASE SubscribeWake(t)
  <2>1. CASE events = <<>>
    BY <1>2, <2>1 DEF SubscribeWake, Sleep, PlaceInv, Subscribing, mutex
  <2>2. CASE events # <<>>
    <3>1. /\ Deliver(t, events) /\ pc' = [pc EXCEPT ![t] = "exec"]
          /\ waiting' = waiting - 1 /\ t \notin sleepers
          /\ UNCHANGED <<locker, lock_count, crit, sleepers, issued>>
      BY <1>2, <2>2 DEF SubscribeWake, Goto, mutex
    <3>2. events' \in Seq(Nat) /\ last' \in Nat /\ due' \subseteq Threads
      BY <2>2, <3>1, EventFacts DEF Deliver
    <3>3. Types'
      BY <3>1, <3>2 DEF Places
    <3>4. PlaceInv'
      BY <3>1 DEF PlaceInv
    <3> QED
      BY <3>3, <3>4
  <2> QED
    BY <2>1, <2>2
<1>3. CASE SubscribeSignalled(t)
  <2>1. /\ pc' = [pc EXCEPT ![t] = IF events # <<>> THEN "exec" ELSE "broken"]
        /\ waiting' = waiting - 1 /\ t \notin sleepers
        /\ crit' = IF events # <<>> THEN crit ELSE t
        /\ crit = NoThread
        /\ UNCHANGED <<locker, lock_count, sleepers, issued>>
    BY <1>3 DEF SubscribeSignalled, CritFree, Goto, mutex
  <2>2. events' \in Seq(Nat) /\ last' \in Nat /\ due' \subseteq Threads
    <3>1. CASE events = <<>>
      BY <1>3, <3>1 DEF SubscribeSignalled
    <3>2. CASE events # <<>>
      BY <1>3, <3>2, EventFacts DEF SubscribeSignalled, Deliver
    <3> QED
      BY <3>1, <3>2
  <2>3. Types'
    BY <2>1, <2>2 DEF Places
  <2>4. PlaceInv'
    BY <2>1 DEF PlaceInv
  <2> QED
    BY <2>3, <2>4
<1>4. CASE SubscribeTimesOut(t)
  BY <1>4
  DEF SubscribeTimesOut, Awake, Goto, PlaceInv, Places, mutex
<1>5. CASE Notify(t)
  BY <1>5, EventFacts DEF Notify, Signal, PlaceInv, mutex
<1>6. CASE NotifyAll(t)
  BY <1>6, EventFacts DEF NotifyAll, Signal, PlaceInv, mutex
<1> QED
  BY <1>1, <1>2, <1>3, <1>4, <1>5, <1>6

\* The start, the cancellation and the end of a thread keep it.
LEMMA ThreadInv ==
    ASSUME IInv, NEW t \in Threads,
           \/ StartThread(t) \/ Exit(t) \/ CancelInLock(t)
           \/ CancelInSubscribe(t) \/ Terminate(t) \/ SpuriousWake(t)
    PROVE  IInv'
<1> USE ThreadsAssumption, BoundsAssumption DEF IInv, Types
<1>1. CASE StartThread(t)
  BY <1>1 DEF StartThread, Goto, PlaceInv, Places, Subscribing, mutex, queue
<1>2. CASE Exit(t)
  BY <1>2 DEF Exit, Goto, PlaceInv, Places, Subscribing, mutex, queue
<1>3. CASE CancelInLock(t)
  BY <1>3 DEF CancelInLock, Awake, Goto, PlaceInv, Places, mutex, queue
<1>4. CASE CancelInSubscribe(t)
  BY <1>4
  DEF CancelInSubscribe, CritFree, Awake, Goto, PlaceInv, Places, mutex
<1>5. CASE Terminate(t)
  <2>1. CASE locker = t
    BY <1>5, <2>1 DEF Terminate, Signal, Goto, PlaceInv, Places, queue
  <2>2. CASE locker # t
    BY <1>5, <2>2
    DEF Terminate, Goto, PlaceInv, Places, Subscribing, mutex, queue
  <2> QED
    BY <2>1, <2>2
<1>6. CASE SpuriousWake(t)
  BY <1>6 DEF SpuriousWake, Awake, PlaceInv, mutex, queue
<1> QED
  BY <1>1, <1>2, <1>3, <1>4, <1>5, <1>6

\* Every step keeps the invariant.
LEMMA NextInv == IInv /\ [Next]_vars => IInv'
<1> SUFFICES ASSUME IInv, [Next]_vars PROVE IInv'
  OBVIOUS
<1>1. CASE UNCHANGED vars
  BY <1>1 DEF vars, IInv, Types, PlaceInv
<1>2. CASE Next
  BY <1>2, LockInv, QueueInv, ThreadInv DEF Next, Step
<1> QED
  BY <1>1, <1>2

\* The invariant holds in every reachable state.
THEOREM Invariance == Spec => []IInv
  BY InitInv, NextInv, PTL DEF Spec

-----------------------------------------------------------------------------
(* The subscribers are counted.                                            *)

InSubscribe == {t \in Threads : pc[t] \in Subscribing}

\* waiting is at least their number, and is that number unless one of them
\* was cancelled.
CountInv == /\ waiting >= Cardinality(InSubscribe)
            /\ "subCancel" \notin Cases => waiting = Cardinality(InSubscribe)

\* The cardinality of the subscribers, when one comes or goes.
LEMMA Counting ==
    ASSUME NEW S \in SUBSET Threads
    PROVE  /\ Cardinality(S) \in Nat
           /\ \A t \in S : Cardinality(S \ {t}) = Cardinality(S) - 1
           /\ \A t \in Threads \ S :
                  Cardinality(S \cup {t}) = Cardinality(S) + 1
<1>1. IsFiniteSet(S)
  BY ThreadsAssumption, FS_Subset
<1> QED
  BY <1>1, FS_CardinalityType, FS_RemoveElement, FS_AddElement

\* A step adds a subscriber and counts it, takes one away and counts it, or
\* does neither; only a cancelled one goes and stays counted.
LEMMA CountStep ==
    ASSUME IInv, [Next]_vars
    PROVE  \/ UNCHANGED <<InSubscribe, waiting>>
           \/ \E t \in Threads \ InSubscribe :
                 InSubscribe' = InSubscribe \cup {t} /\ waiting' = waiting + 1
           \/ \E t \in InSubscribe :
                 InSubscribe' = InSubscribe \ {t} /\ waiting' = waiting - 1
           \/ \E t \in InSubscribe :
                 /\ InSubscribe' = InSubscribe \ {t} /\ waiting' = waiting
                 /\ "subCancel" \in Cases
<1> USE DEF IInv, Types, InSubscribe, Subscribing
<1>1. CASE UNCHANGED vars
  BY <1>1 DEF vars
<1>2. ASSUME NEW t \in Threads, Step(t)
      PROVE  \/ UNCHANGED <<InSubscribe, waiting>>
             \/ /\ t \notin InSubscribe
                /\ InSubscribe' = InSubscribe \cup {t} /\ waiting' = waiting + 1
             \/ /\ t \in InSubscribe
                /\ InSubscribe' = InSubscribe \ {t} /\ waiting' = waiting - 1
             \/ /\ t \in InSubscribe
                /\ InSubscribe' = InSubscribe \ {t} /\ waiting' = waiting
                /\ "subCancel" \in Cases
  <2>1. CASE \/ Lock(t) \/ LockSleep(t) \/ LockWake(t) \/ TimeOutLock(t)
             \/ TimeOutWake(t) \/ TryLock(t) \/ Unlock(t)
    BY <2>1
    DEF Lock, Reenter, LockTest, LockSleep, LockWake, TimeOutLock,
        TimeOutWake, TryLock, Unlock, Goto, queue
  <2>2. CASE \E now \in BOOLEAN, limit \in Limits : Subscribe(t, now, limit)
    <3>1. PICK now \in BOOLEAN, limit \in Limits : Subscribe(t, now, limit)
      BY <2>2
    <3>2. \/ UNCHANGED <<pc, waiting>>
          \/ /\ pc[t] = "exec" /\ waiting' = waiting + 1
             /\ \/ pc' = [pc EXCEPT ![t] = "subTimed"]
                \/ pc' = [pc EXCEPT ![t] = "subWait"]
      BY <3>1 DEF Subscribe, Goto
    <3> QED
      BY <3>2
  <2>3. CASE SubscribeWake(t)
    BY <2>3 DEF SubscribeWake, Goto
  <2>4. CASE SubscribeSignalled(t)
    BY <2>4 DEF SubscribeSignalled, Goto
  <2>5. CASE SubscribeTimesOut(t)
    BY <2>5 DEF SubscribeTimesOut, Goto
  <2>6. CASE CancelInSubscribe(t)
    BY <2>6 DEF CancelInSubscribe, Goto
  <2>7. CASE \/ Notify(t) \/ NotifyAll(t) \/ StartThread(t) \/ Exit(t)
             \/ CancelInLock(t) \/ Terminate(t) \/ SpuriousWake(t)
    BY <2>7
    DEF Notify, NotifyAll, StartThread, Exit, CancelInLock, Terminate,
        SpuriousWake, Goto, queue
  <2> QED
    BY <1>2, <2>1, <2>2, <2>3, <2>4, <2>5, <2>6, <2>7 DEF Step
<1> QED
  BY <1>1, <1>2 DEF Next

LEMMA CountNext == IInv /\ CountInv /\ [Next]_vars => CountInv'
<1> SUFFICES ASSUME IInv, CountInv, [Next]_vars PROVE CountInv'
  OBVIOUS
<1>1. InSubscribe \in SUBSET Threads /\ waiting \in Int
  BY DEF IInv, Types, InSubscribe
<1> QED
  BY <1>1, CountStep, Counting DEF CountInv

\* It holds in every reachable state.
THEOREM Counted == Spec => []CountInv
<1>1. Init => CountInv
  BY FS_EmptySet DEF Init, CountInv, InSubscribe, Subscribing
<1> QED
  BY <1>1, CountNext, Invariance, PTL DEF Spec

\* Every variable keeps its type: waiting is never negative.
THEOREM TypeCorrect == Spec => []TypeOK
<1>1. IInv /\ CountInv => TypeOK
  <2>1. InSubscribe \in SUBSET Threads
    BY DEF InSubscribe
  <2> QED
    BY <2>1, Counting DEF IInv, Types, CountInv, TypeOK
<1> QED
  BY <1>1, Invariance, Counted, PTL

\* NotifyAll prepares one event for each subscriber, unless a subscriber was
\* cancelled.
THEOREM WaitingIsExact ==
    ASSUME "subCancel" \notin Cases PROVE Spec => []WaitingCounts
<1>1. CountInv => WaitingCounts
  BY DEF CountInv, WaitingCounts, InSubscribe
<1> QED
  BY <1>1, Counted, PTL

-----------------------------------------------------------------------------
(* No lost wakeup.                                                         *)

\* A notification wakes whoever waits for one, whatever the program does.
THEOREM NoSleepBesideEvent == Spec => []SubscriberAwake
<1>1. Init => SubscriberAwake
  BY DEF Init, SubscriberAwake
<1>2. ASSUME IInv, SubscriberAwake, [Next]_vars
      PROVE  SubscriberAwake'
  <2> USE DEF IInv, Types
  <2>1. CASE UNCHANGED vars
    BY <1>2, <2>1 DEF vars, SubscriberAwake
  <2>2. ASSUME NEW t \in Threads, Step(t)
        PROVE  SubscriberAwake'
    <3>1. CASE \/ Lock(t) \/ LockSleep(t) \/ LockWake(t) \/ TimeOutLock(t)
               \/ TimeOutWake(t) \/ TryLock(t) \/ Unlock(t)
      <4>1. CASE Reenter(t)
        BY <1>2, <4>1 DEF Reenter, SubscriberAwake, queue
      <4>2. CASE LockTest(t)
        BY <1>2, <4>2 DEF LockTest, Goto, SubscriberAwake, queue
      <4>3. CASE LockSleep(t)
        BY <1>2, <4>3 DEF LockSleep, Sleep, Goto, SubscriberAwake, queue
      <4>4. CASE TimeOutLock(t) /\ ~Reenter(t)
        BY <1>2, <4>4 DEF TimeOutLock, Sleep, Goto, SubscriberAwake, queue
      <4>5. CASE TimeOutWake(t)
        BY <1>2, <4>5 DEF TimeOutWake, Awake, Goto, SubscriberAwake, queue
      <4>6. CASE (TryLock(t) /\ ~Reenter(t)) \/ Unlock(t)
        BY <1>2, <4>6 DEF TryLock, Unlock, Signal, SubscriberAwake, queue
      <4> QED
        BY <3>1, <4>1, <4>2, <4>3, <4>4, <4>5, <4>6
        DEF Lock, LockWake, TimeOutLock, TryLock
    <3>2. CASE \E now \in BOOLEAN, limit \in Limits : Subscribe(t, now, limit)
      <4>1. PICK now \in BOOLEAN, limit \in Limits : Subscribe(t, now, limit)
        BY <3>2
      <4> DEFINE pending == IF now THEN <<>> ELSE events
      <4>2. CASE limit = "some" \/ (limit = "none" /\ pending = <<>>)
        <5>1. /\ sleepers' = sleepers \cup {t} /\ events' = pending
              /\ pc' = [pc EXCEPT ![t] = IF limit = "some" THEN "subTimed"
                                                           ELSE "subWait"]
          BY <4>1, <4>2 DEF Subscribe, Sleep, Goto
        <5> QED
          BY <1>2, <4>2, <5>1 DEF SubscriberAwake
      <4>3. CASE ~(limit = "some" \/ (limit = "none" /\ pending = <<>>))
        <5>1. /\ sleepers' = sleepers /\ pc' = pc
              /\ \/ pending # <<>> /\ events' = Tail(pending)
                 \/ pending = events' /\ pending = <<>>
          BY <4>1, <4>3 DEF Subscribe, Deliver
        <5>2. events' # <<>> => events # <<>>
          BY <5>1
        <5> QED
          BY <1>2, <5>1, <5>2 DEF SubscriberAwake
      <4> QED
        BY <4>2, <4>3
    <3>3. CASE SubscribeWake(t)
      <4>1. CASE events = <<>>
        BY <3>3, <4>1 DEF SubscribeWake, SubscriberAwake
      <4>2. CASE events # <<>>
        BY <1>2, <3>3, <4>2
        DEF SubscribeWake, Goto, SubscriberAwake
      <4> QED
        BY <4>1, <4>2
    <3>4. CASE SubscribeSignalled(t)
      <4>1. CASE events = <<>>
        BY <3>4, <4>1 DEF SubscribeSignalled, SubscriberAwake
      <4>2. CASE events # <<>>
        BY <1>2, <3>4, <4>2 DEF SubscribeSignalled, Goto, SubscriberAwake
      <4> QED
        BY <4>1, <4>2
    <3>5. CASE SubscribeTimesOut(t)
      BY <1>2, <3>5 DEF SubscribeTimesOut, Awake, Goto, SubscriberAwake
    <3>6. CASE Notify(t) \/ NotifyAll(t)
      BY <3>6 DEF Notify, NotifyAll, Signal, SubscriberAwake
    <3>7. CASE \/ StartThread(t) \/ Exit(t) \/ CancelInLock(t)
               \/ CancelInSubscribe(t) \/ Terminate(t) \/ SpuriousWake(t)
      <4>1. CASE Terminate(t)
        BY <1>2, <4>1 DEF Terminate, Signal, Goto, SubscriberAwake, queue
      <4>2. CASE \/ StartThread(t) \/ Exit(t) \/ CancelInLock(t)
                 \/ CancelInSubscribe(t) \/ SpuriousWake(t)
        BY <1>2, <4>2
        DEF StartThread, Exit, CancelInLock, CancelInSubscribe,
            SpuriousWake, Goto, Awake, SubscriberAwake, queue
      <4> QED
        BY <3>7, <4>1, <4>2
    <3> QED
      BY <2>2, <3>1, <3>2, <3>3, <3>4, <3>5, <3>6, <3>7 DEF Step
  <2> QED
    BY <1>2, <2>1, <2>2 DEF Next
<1> QED
  BY <1>1, <1>2, Invariance, PTL DEF Spec

\* Unless a thread ends with the mutex, it is free only when those that wait
\* for it were told, and nobody is about to wait: whoever found it locked has
\* crit, that MutexUnlock needs.
AwakeInv == /\ LockerAwake
            /\ \A t \in Threads : pc[t] = "lockTested" => locker # NoThread
            /\ \A t \in Threads : pc[t] = "dying" => locker # t

\* Nobody sleeps in a Lock beside a mutex that is free, as long as no thread ends
\* that holds one: whoever unlocks wakes one that waits.
THEOREM NoSleepBesideFreeMutex ==
    ASSUME "dieHolding" \notin Cases PROVE Spec => []LockerAwake
<1>1. Init => AwakeInv
  BY DEF Init, AwakeInv, LockerAwake
<1>2. ASSUME IInv, AwakeInv, [Next]_vars
      PROVE  AwakeInv'
  <2> USE ThreadsAssumption DEF IInv, Types
  <2>1. CASE UNCHANGED vars
    BY <1>2, <2>1 DEF vars, AwakeInv, LockerAwake
  <2>2. ASSUME NEW t \in Threads, Step(t)
        PROVE  AwakeInv'
    <3>1. CASE Reenter(t) /\ pc[t] = "exec"
      BY <1>2, <3>1 DEF Reenter, AwakeInv, LockerAwake
    <3>2. CASE LockTest(t)
      <4>1. CASE locker = NoThread
        BY <1>2, <3>2, <4>1
        DEF LockTest, Acquire, Goto, AwakeInv, LockerAwake
      <4>2. CASE locker # NoThread
        BY <1>2, <3>2, <4>2 DEF LockTest, Goto, AwakeInv, LockerAwake, mutex
      <4> QED
        BY <4>1, <4>2
    <3>3. CASE LockSleep(t)
      BY <1>2, <3>3 DEF LockSleep, Sleep, Goto, AwakeInv, LockerAwake, mutex
    <3>4. CASE TimeOutLock(t) /\ ~Reenter(t)
      BY <1>2, <3>4 DEF TimeOutLock, Sleep, Goto, AwakeInv, LockerAwake, mutex
    <3>5. CASE TimeOutWake(t) \/ (TryLock(t) /\ ~Reenter(t))
      BY <1>2, <3>5
      DEF TimeOutWake, TryLock, Acquire, Awake, Goto, AwakeInv, LockerAwake,
          mutex
    <3>6. CASE Unlock(t)
      BY <1>2, <3>6
      DEF Unlock, CritFree, Signal, PlaceInv, AwakeInv, LockerAwake
    <3>7. CASE \E now \in BOOLEAN, limit \in Limits : Subscribe(t, now, limit)
      <4>1. /\ pc[t] = "exec" /\ locker' = locker
            /\ \/ UNCHANGED <<sleepers, pc>>
               \/ /\ sleepers' = sleepers \cup {t}
                  /\ \/ pc' = [pc EXCEPT ![t] = "subTimed"]
                     \/ pc' = [pc EXCEPT ![t] = "subWait"]
        BY <3>7 DEF Subscribe, Sleep, Goto, mutex
      <4> QED
        BY <1>2, <4>1 DEF AwakeInv, LockerAwake
    <3>8. CASE \/ SubscribeWake(t) \/ SubscribeSignalled(t)
               \/ SubscribeTimesOut(t) \/ Notify(t) \/ NotifyAll(t)
      BY <1>2, <3>8
      DEF SubscribeWake, SubscribeSignalled, SubscribeTimesOut, Notify,
          NotifyAll, Sleep, Awake, Signal, Goto, AwakeInv, LockerAwake, mutex
    <3>9. CASE \/ StartThread(t) \/ Exit(t) \/ CancelInLock(t)
               \/ CancelInSubscribe(t) \/ Terminate(t) \/ SpuriousWake(t)
      BY <1>2, <3>9
      DEF StartThread, Exit, CancelInLock, CancelInSubscribe, Terminate,
          SpuriousWake, Goto, Awake, PlaceInv, AwakeInv, LockerAwake, mutex
    <3> QED
      BY <2>2, <3>1, <3>2, <3>3, <3>4, <3>5, <3>6, <3>7, <3>8, <3>9
      DEF Step, Lock, LockWake, TimeOutLock, TryLock
  <2> QED
    BY <1>2, <2>1, <2>2 DEF Next
<1>3. AwakeInv => LockerAwake
  BY DEF AwakeInv
<1> QED
  BY <1>1, <1>2, <1>3, Invariance, PTL DEF Spec

-----------------------------------------------------------------------------
(* The end of the threads.                                                 *)

\* A thread that ended has no mutex, wherever it was cancelled.
THEOREM EndFreesMutex == Spec => []DeadHoldsNothing
<1>1. IInv => DeadHoldsNothing
  BY DEF IInv, Types, PlaceInv, DeadHoldsNothing
<1> QED
  BY <1>1, Invariance, PTL

\* crit is held by a thread that goes on to its wait, or by one whose next
\* step is undefined.
CritInv == crit # NoThread => pc[crit] \in {"lockTested", "broken"}

\* No thread ends with the system mutex, unless it was cancelled in
\* Subscribe.
THEOREM CritReleased ==
    ASSUME "subCancel" \notin Cases PROVE Spec => []NoOrphanCrit
<1>1. Init => CritInv
  BY DEF Init, CritInv
<1>2. ASSUME IInv, CritInv, [Next]_vars
      PROVE  CritInv'
  <2> USE ThreadsAssumption DEF IInv, Types
  <2>1. CASE UNCHANGED vars
    BY <1>2, <2>1 DEF vars, CritInv
  <2>2. ASSUME NEW t \in Threads, Step(t)
        PROVE  CritInv'
    <3>1. CASE Lock(t) \/ LockWake(t)
      BY <1>2, <3>1
      DEF Lock, LockWake, Reenter, LockTest, CritFree, Goto, CritInv
    <3>2. CASE LockSleep(t)
      BY <3>2 DEF LockSleep, CritInv
    <3>3. CASE SubscribeSignalled(t)
      BY <1>2, <3>3 DEF SubscribeSignalled, CritFree, Goto, CritInv
    <3>4. CASE CancelInSubscribe(t)
      BY <3>4 DEF CancelInSubscribe
    <3>5. CASE \E now \in BOOLEAN, limit \in Limits : Subscribe(t, now, limit)
      BY <3>5 DEF Subscribe, CritFree, CritInv
    <3>6. CASE \/ TimeOutLock(t) \/ TimeOutWake(t) \/ TryLock(t) \/ Unlock(t)
               \/ SubscribeWake(t) \/ SubscribeTimesOut(t)
               \/ Notify(t) \/ NotifyAll(t)
               \/ StartThread(t) \/ Exit(t) \/ CancelInLock(t)
               \/ Terminate(t) \/ SpuriousWake(t)
      <4>1. /\ crit' = crit
            /\ pc' = pc \/ \E place \in Places : pc' = [pc EXCEPT ![t] = place]
            /\ pc[t] \notin {"lockTested", "broken"} \/ pc' = pc
        BY <3>6
        DEF TimeOutLock, Reenter, TimeOutWake, TryLock, Unlock,
            SubscribeWake, SubscribeTimesOut, Notify, NotifyAll, StartThread,
            Exit, CancelInLock, Terminate, SpuriousWake, Goto, Places
      <4> QED
        BY <1>2, <4>1 DEF CritInv
    <3> QED
      BY <2>2, <3>1, <3>2, <3>3, <3>4, <3>5, <3>6 DEF Step
  <2> QED
    BY <1>2, <2>1, <2>2 DEF Next
<1>3. CritInv => NoOrphanCrit
  BY DEF CritInv, NoOrphanCrit
<1> QED
  BY <1>1, <1>2, <1>3, Invariance, PTL DEF Spec

-----------------------------------------------------------------------------
(* The queue.                                                              *)

\* The consecutive numbers after "from", up to "to".
Numbers(from, to) == [i \in 1..(to - from) |-> from + i]

\* One more at the end, and one less at the front.
LEMMA NumbersGrow ==
    ASSUME NEW from \in Nat, NEW to \in Nat, from <= to
    PROVE  Append(Numbers(from, to), to + 1) = Numbers(from, to + 1)
<1> DEFINE n == to - from
<1>1. n \in Nat /\ (to + 1) - from = n + 1
  OBVIOUS
<1>2. Numbers(from, to) \in Seq(Nat) /\ Len(Numbers(from, to)) = n
  BY <1>1 DEF Numbers
<1>3. Numbers(from, to + 1) \in Seq(Nat) /\ Len(Numbers(from, to + 1)) = n + 1
  BY <1>1 DEF Numbers
<1>4. \A i \in 1..n + 1 :
          Append(Numbers(from, to), to + 1)[i] = Numbers(from, to + 1)[i]
  BY <1>1, <1>2 DEF Numbers
<1> QED
  BY <1>1, <1>2, <1>3, <1>4

LEMMA NumbersShrink ==
    ASSUME NEW from \in Nat, NEW to \in Nat, Numbers(from, to) # <<>>
    PROVE  /\ from < to
           /\ Head(Numbers(from, to)) = from + 1
           /\ Tail(Numbers(from, to)) = Numbers(from + 1, to)
<1>1. from < to
  <2>1. ASSUME ~(from < to) PROVE Numbers(from, to) = <<>>
    BY <2>1 DEF Numbers
  <2> QED
    BY <2>1
<1> DEFINE n == to - from
<1>2. n \in Nat /\ n > 0 /\ to - (from + 1) = n - 1
  BY <1>1
<1>3. Numbers(from, to) \in Seq(Nat) /\ Len(Numbers(from, to)) = n
  BY <1>2 DEF Numbers
<1>4. Head(Numbers(from, to)) = from + 1
  BY <1>2, <1>3 DEF Numbers
<1>5. /\ Numbers(from + 1, to) \in Seq(Nat)
      /\ Len(Numbers(from + 1, to)) = n - 1
  BY <1>2 DEF Numbers
<1>6. /\ Tail(Numbers(from, to)) \in Seq(Nat)
      /\ Len(Tail(Numbers(from, to))) = n - 1
  BY <1>2, <1>3
<1>7. \A i \in 1..n - 1 :
          Tail(Numbers(from, to))[i] = Numbers(from + 1, to)[i]
  BY <1>2, <1>3 DEF Numbers
<1>8. Tail(Numbers(from, to)) = Numbers(from + 1, to)
  BY <1>5, <1>6, <1>7, SeqEqual
<1> QED
  BY <1>1, <1>4, <1>8

QueueInvariant == Conserved /\ last <= issued

\* With Notify and Subscribe alone, each notification is returned once and in
\* order.
THEOREM EventsConserved ==
    ASSUME "subscribeNow" \notin Cases, "notifyAll" \notin Cases
    PROVE  Spec => []Conserved
<1>1. Init => QueueInvariant
  BY DEF Init, QueueInvariant, Conserved
<1>2. ASSUME IInv, QueueInvariant, [Next]_vars
      PROVE  QueueInvariant'
  <2> USE DEF IInv, Types
  <2>1. CASE UNCHANGED <<events, issued, last>>
    BY <1>2, <2>1 DEF QueueInvariant, Conserved
  <2>2. ASSUME NEW t \in Threads, Deliver(t, events), events # <<>>,
               UNCHANGED issued
        PROVE  QueueInvariant'
    <3>1. Numbers(last, issued) # <<>> /\ events = Numbers(last, issued)
      BY <1>2, <2>2 DEF QueueInvariant, Conserved, Numbers
    <3>2. last' = last + 1 /\ last < issued
          /\ events' = Numbers(last + 1, issued)
      <4>1. events' = Tail(events) /\ last' = Head(events)
        BY <2>2 DEF Deliver
      <4>2. last \in Nat /\ issued \in Nat
        BY <1>2
      <4> QED
        BY <3>1, <4>1, <4>2, NumbersShrink
    <3> QED
      BY <1>2, <2>2, <3>2 DEF QueueInvariant, Conserved, Numbers
  <2>3. ASSUME NEW t \in Threads, Notify(t)
        PROVE  QueueInvariant'
    <3>1. events = Numbers(last, issued)
      BY <1>2 DEF QueueInvariant, Conserved, Numbers
    <3>2. /\ issued' = issued + 1 /\ last' = last
          /\ events' = Numbers(last, issued + 1)
      BY <1>2, <2>3, <3>1, NumbersGrow DEF Notify, QueueInvariant
    <3> QED
      BY <1>2, <3>2 DEF QueueInvariant, Conserved, Numbers
  <2>4. ASSUME NEW t \in Threads, Step(t)
        PROVE  \/ UNCHANGED <<events, issued, last>>
               \/ Deliver(t, events) /\ events # <<>> /\ UNCHANGED issued
               \/ Notify(t)
    <3>1. CASE \E now \in BOOLEAN, limit \in Limits : Subscribe(t, now, limit)
      <4>1. PICK limit \in Limits : Subscribe(t, FALSE, limit)
        BY <3>1 DEF Subscribe
      <4>2. \/ UNCHANGED <<events, last>>
            \/ Deliver(t, events) /\ events # <<>>
        BY <4>1 DEF Subscribe
      <4> QED
        BY <4>1, <4>2 DEF Subscribe
    <3>2. CASE SubscribeWake(t) \/ SubscribeSignalled(t)
      BY <3>2 DEF SubscribeWake, SubscribeSignalled
    <3>3. CASE \/ Lock(t) \/ LockSleep(t) \/ LockWake(t) \/ TimeOutLock(t)
               \/ TimeOutWake(t) \/ TryLock(t) \/ Unlock(t)
               \/ SubscribeTimesOut(t) \/ NotifyAll(t)
               \/ StartThread(t) \/ Exit(t) \/ CancelInLock(t)
               \/ CancelInSubscribe(t) \/ Terminate(t) \/ SpuriousWake(t)
      BY <3>3
      DEF Lock, Reenter, LockTest, LockSleep, LockWake, TimeOutLock,
          TimeOutWake, TryLock, Unlock, SubscribeTimesOut, NotifyAll,
          StartThread, Exit, CancelInLock, CancelInSubscribe, Terminate,
          SpuriousWake, queue
    <3> QED
      BY <2>4, <3>1, <3>2, <3>3 DEF Step
  <2> QED
    BY <1>2, <2>1, <2>2, <2>3, <2>4 DEF Next, vars
<1>3. QueueInvariant => Conserved
  BY DEF QueueInvariant
<1> QED
  BY <1>1, <1>2, <1>3, Invariance, PTL DEF Spec

-----------------------------------------------------------------------------
(* The refinement of ReentrantLock.                                        *)

LockHold  == [t \in Threads |-> IF locker = t THEN lock_count ELSE 0]
LockAlive == {t \in Threads : pc[t] \notin {"dying", "none"}}

\* Who has the mutex has locked it at least once.
HeldInv == locker # NoThread => lock_count > 0

LEMMA HeldNext ==
    ASSUME "wrap" \notin Cases, IInv, HeldInv, [Next]_vars
    PROVE  HeldInv'
<1> USE ThreadsAssumption, BoundsAssumption DEF IInv, Types
<1>1. CASE UNCHANGED <<locker, lock_count>>
  BY <1>1 DEF HeldInv
<1>2. ASSUME NEW t \in Threads, Step(t)
      PROVE  HeldInv' \/ UNCHANGED <<locker, lock_count>>
  <2>1. CASE Reenter(t)
    BY <2>1 DEF Reenter, HeldInv
  <2>2. CASE Unlock(t)
    BY <2>2 DEF Unlock, HeldInv
  <2>3. CASE LockTest(t) \/ TimeOutWake(t) \/ (TryLock(t) /\ ~Reenter(t))
    BY <2>3 DEF LockTest, TimeOutWake, TryLock, Acquire, HeldInv, mutex
  <2>4. CASE Terminate(t)
    BY <2>4 DEF Terminate, HeldInv, mutex
  <2>5. CASE \/ LockSleep(t) \/ (TimeOutLock(t) /\ ~Reenter(t))
             \/ \E now \in BOOLEAN, limit \in Limits : Subscribe(t, now, limit)
             \/ SubscribeWake(t) \/ SubscribeSignalled(t)
             \/ SubscribeTimesOut(t) \/ Notify(t) \/ NotifyAll(t)
             \/ StartThread(t) \/ Exit(t) \/ CancelInLock(t)
             \/ CancelInSubscribe(t) \/ SpuriousWake(t)
    BY <2>5
    DEF LockSleep, TimeOutLock, Subscribe, SubscribeWake, SubscribeSignalled,
        SubscribeTimesOut, Notify, NotifyAll, StartThread, Exit,
        CancelInLock, CancelInSubscribe, SpuriousWake, mutex
  <2> QED
    BY <1>2, <2>1, <2>2, <2>3, <2>4, <2>5
    DEF Step, Lock, LockWake, TimeOutLock, TryLock
<1> QED
  BY <1>1, <1>2 DEF Next, vars

\* A step of the mutex is a step of ReentrantLock, or none.
LEMMA LockStep ==
    ASSUME "wrap" \notin Cases, IInv, HeldInv, [Next]_vars
    PROVE  [ManualLock!Next]_<<LockHold, LockAlive>>
<1> USE ThreadsAssumption, BoundsAssumption
    DEF IInv, Types, LockHold, LockAlive
<1>1. CASE UNCHANGED vars
  BY <1>1 DEF vars
<1>2. ASSUME NEW t \in Threads, Step(t)
      PROVE  \/ ManualLock!Take(t) \/ ManualLock!Release(t)
             \/ ManualLock!End(t) \/ ManualLock!Free(t)
             \/ ManualLock!Begin(t)
             \/ UNCHANGED <<LockHold, LockAlive>>
  <2>1. CASE Reenter(t) /\ pc[t] = "exec"
    <3>1. lock_count' = lock_count + 1 /\ locker' = t /\ locker = t
      BY <2>1 DEF Reenter
    <3>2. LockAlive' = LockAlive /\ t \in LockAlive
      BY <2>1 DEF Reenter
    <3> QED
      BY <3>1, <3>2 DEF ManualLock!Take
  <2>2. ASSUME Acquire(t), locker = NoThread,
               pc[t] \in {"exec", "lockWait", "timedWait"},
               pc' \in {pc, [pc EXCEPT ![t] = "exec"]}
        PROVE  ManualLock!Take(t)
    <3>1. LockAlive' = LockAlive /\ t \in LockAlive
      BY <2>2
    <3>2. locker' = t /\ lock_count' = 1 /\ \A u \in Threads : locker # u
      BY <2>2 DEF Acquire
    <3>3. LockHold' = [LockHold EXCEPT ![t] = LockHold[t] + 1]
      <4>1. LockHold = [u \in Threads |-> 0]
        BY <3>2
      <4>2. LockHold' = [u \in Threads |-> IF u = t THEN 1 ELSE 0]
        BY <3>2
      <4>3. [u \in Threads |-> IF u = t THEN 1 ELSE 0]
            = [[u \in Threads |-> 0] EXCEPT ![t] = 0 + 1]
        OBVIOUS
      <4>4. LockHold[t] = 0
        BY <3>2
      <4> QED
        BY <4>1, <4>2, <4>3, <4>4
    <3> QED
      BY <3>1, <3>2, <3>3 DEF ManualLock!Take
  <2>3. CASE LockTest(t) /\ pc[t] \in {"exec", "lockWait"}
    <3>1. CASE locker = NoThread
      BY <2>2, <2>3, <3>1 DEF LockTest, Goto
    <3>2. CASE locker # NoThread
      BY <2>3, <3>2 DEF LockTest, Goto, mutex
    <3> QED
      BY <3>1, <3>2
  <2>4. CASE TimeOutWake(t)
    <3>1. CASE locker = NoThread
      BY <2>2, <2>4, <3>1 DEF TimeOutWake, Goto
    <3>2. CASE locker # NoThread
      BY <2>4, <3>2 DEF TimeOutWake, Goto, mutex
    <3> QED
      BY <3>1, <3>2
  <2>5. CASE TryLock(t) /\ ~Reenter(t)
    BY <2>2, <2>5 DEF TryLock
  <2>6. CASE Unlock(t)
    <3>1. /\ locker = t /\ lock_count > 0 /\ lock_count' = lock_count - 1
          /\ locker' = IF lock_count' = 0 THEN NoThread ELSE t
      BY <2>6 DEF Unlock, HeldInv
    <3>2. LockAlive' = LockAlive /\ t \in LockAlive
      BY <2>6 DEF Unlock
    <3> QED
      BY <3>1, <3>2 DEF ManualLock!Release
  <2>7. CASE Exit(t) \/ CancelInLock(t) \/ CancelInSubscribe(t)
    <3>1. /\ pc' = [pc EXCEPT ![t] = "dying"] /\ t \in LockAlive
          /\ UNCHANGED <<locker, lock_count>>
      BY <2>7
      DEF Exit, CancelInLock, CancelInSubscribe, Goto, Subscribing, mutex
    <3>2. LockAlive' = LockAlive \ {t}
      BY <3>1
    <3> QED
      BY <3>1, <3>2 DEF ManualLock!End
  <2>8. CASE Terminate(t)
    <3>1. LockAlive' = LockAlive /\ t \notin LockAlive
      BY <2>8 DEF Terminate, Goto
    <3>2. CASE locker = t
      <4>1. locker' = NoThread /\ lock_count > 0
        BY <2>8, <3>2 DEF Terminate, HeldInv
      <4>2. LockHold' = [LockHold EXCEPT ![t] = 0] /\ LockHold[t] > 0
        BY <3>2, <4>1
      <4> QED
        BY <3>1, <4>2 DEF ManualLock!Free
    <3>3. CASE locker # t
      BY <2>8, <3>1, <3>3 DEF Terminate, mutex
    <3> QED
      BY <3>2, <3>3
  <2>9. CASE StartThread(t)
    <3>1. /\ pc' = [pc EXCEPT ![t] = "exec"] /\ pc[t] = "none" /\ locker # t
          /\ UNCHANGED <<locker, lock_count>>
      BY <2>9 DEF StartThread, Goto, PlaceInv, mutex
    <3>2. LockAlive' = LockAlive \cup {t} /\ t \notin LockAlive
      BY <3>1
    <3> QED
      BY <3>1, <3>2 DEF ManualLock!Begin
  <2>10. ASSUME UNCHANGED mutex,
                pc' = pc \/ \E place \in Places \ {"dying", "none"} :
                               pc' = [pc EXCEPT ![t] = place],
                pc' = pc \/ pc[t] \notin {"dying", "none"}
         PROVE  UNCHANGED <<LockHold, LockAlive>>
    BY <2>10 DEF mutex
  <2>11. CASE LockSleep(t) \/ (TimeOutLock(t) /\ ~Reenter(t))
    BY <2>10, <2>11 DEF LockSleep, TimeOutLock, Goto, Places
  <2>12. CASE \E now \in BOOLEAN, limit \in Limits : Subscribe(t, now, limit)
    <3>1. /\ UNCHANGED mutex /\ pc[t] = "exec"
          /\ \/ pc' = pc
             \/ pc' = [pc EXCEPT ![t] = "subTimed"]
             \/ pc' = [pc EXCEPT ![t] = "subWait"]
      BY <2>12 DEF Subscribe, Goto
    <3> QED
      BY <3>1, <2>10 DEF Places
  <2>13. CASE SubscribeWake(t) \/ SubscribeTimesOut(t)
    BY <2>10, <2>13 DEF SubscribeWake, SubscribeTimesOut, Goto, Places
  <2>14. CASE SubscribeSignalled(t)
    BY <2>10, <2>14 DEF SubscribeSignalled, Goto, Places
  <2>15. CASE Notify(t) \/ NotifyAll(t) \/ SpuriousWake(t)
    BY <2>10, <2>15 DEF Notify, NotifyAll, SpuriousWake
  <2> QED
    BY <1>2, <2>1, <2>3, <2>4, <2>5, <2>6, <2>7, <2>8, <2>9, <2>11, <2>12,
       <2>13, <2>14, <2>15
    DEF Step, Lock, LockWake, TimeOutLock, TryLock
<1> QED
  BY <1>1, <1>2 DEF Next, ManualLock!Next

\* The lock of the mutex object keeps what the manual promises of it, as long
\* as nobody nests 65536 locks.
THEOREM Refinement == ASSUME "wrap" \notin Cases PROVE Spec => LockSpec
<1>1. Init => HeldInv
  BY DEF Init, HeldInv
<1>2. Init => ManualLock!Init
  <2>1. ASSUME Init PROVE ManualLock!Init
    <3>1. \A t \in Threads : locker # t
      BY <2>1, ThreadsAssumption DEF Init
    <3> QED
      BY <2>1, <3>1 DEF Init, ManualLock!Init
  <2> QED
    BY <2>1
<1>3. IInv /\ HeldInv /\ [Next]_vars => HeldInv'
  BY HeldNext
<1>4. IInv /\ HeldInv /\ [Next]_vars
      => [ManualLock!Next]_<<LockHold, LockAlive>>
  BY LockStep
<1> QED
  BY <1>1, <1>2, <1>3, <1>4, Invariance, PTL
  DEF Spec, LockSpec, ManualLock!Spec, ManualLock!vars, LockHold, LockAlive
=============================================================================
