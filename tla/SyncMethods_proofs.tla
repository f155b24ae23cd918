------------------------- MODULE SyncMethods_proofs -------------------------
(***************************************************************************)
(* Proofs of SyncMethods, for the programs whose threads send to the SYNC  *)
(* methods of one class that defines them itself (Disciplined).            *)
(***************************************************************************)
EXTENDS SyncMethods, SequenceTheorems, FiniteSetTheorems, TLAPS

\* A thread has to do only with the class it sends to.
OwnClass ==
    \A t \in Threads :
        /\ \A c \in Classes \ Uses[t] : /\ ulCount[t][c] = 0
                                        /\ c \notin entries[t] /\ c \notin relock[t]
                                        /\ locker[c] # t
        /\ \A i \in 1..Len(calls[t]) : calls[t][i] \in Uses[t]

\* The entry of the class counts the methods the thread is in.
Counted ==
    \A t \in Threads : \A c \in Uses[t] :
        /\ ulCount[t][c] = Len(calls[t])
        /\ Len(calls[t]) > 0 => c \in entries[t]

\* Where a thread may be.
PlaceInv ==
    \A t \in Threads :
        /\ pc[t] # "relock" => relock[t] = {}
        /\ pc[t] = "locking" => Len(calls[t]) = 1
        /\ \A c \in relock[t] : Len(calls[t]) > 0

\* The thread is in a SYNC method and not waiting for the mutex.
Holds(t, c) == /\ Len(calls[t]) > 0
               /\ \/ pc[t] = "exec"
                  \/ pc[t] = "relock" /\ c \notin relock[t]

\* The mutex of a class is with the thread that executes its methods, once.
HoldInv ==
    /\ \A t \in Threads : \A c \in Uses[t] : locker[c] = t <=> Holds(t, c)
    /\ \A c \in Classes : lock_count[c] = IF locker[c] = NoThread THEN 0 ELSE 1

IInv == TypeOK /\ OwnClass /\ Counted /\ PlaceInv /\ HoldInv

-----------------------------------------------------------------------------
(* Facts about the operators.                                              *)

\* A send appends its class to the methods of the thread, a return removes
\* the last one.
LEMMA CallFacts ==
    ASSUME NEW s \in Seq(Classes), NEW c \in Classes
    PROVE  /\ Append(s, c) \in Seq(Classes)
           /\ Len(Append(s, c)) = Len(s) + 1
           /\ \A i \in 1..Len(s) : Append(s, c)[i] = s[i]
           /\ Append(s, c)[Len(s) + 1] = c
           /\ s # <<>> => /\ Len(s) > 0
                          /\ SubSeq(s, 1, Len(s) - 1) \in Seq(Classes)
                          /\ Len(SubSeq(s, 1, Len(s) - 1)) = Len(s) - 1
                          /\ \A i \in 1..Len(s) - 1 : SubSeq(s, 1, Len(s) - 1)[i] = s[i]
           /\ Len(s) \in Nat
<1>1. Append(s, c) \in Seq(Classes) /\ Len(Append(s, c)) = Len(s) + 1
      /\ Append(s, c)[Len(s) + 1] = c /\ Len(s) \in Nat
  OBVIOUS
<1>2. \A i \in 1..Len(s) : Append(s, c)[i] = s[i]
  OBVIOUS
<1>3. ASSUME s # <<>>
      PROVE  /\ Len(s) > 0
             /\ SubSeq(s, 1, Len(s) - 1) \in Seq(Classes)
             /\ Len(SubSeq(s, 1, Len(s) - 1)) = Len(s) - 1
             /\ \A i \in 1..Len(s) - 1 : SubSeq(s, 1, Len(s) - 1)[i] = s[i]
  <2>1. Len(s) \in Nat /\ Len(s) > 0
    BY <1>3, EmptySeq
  <2>2. \A i \in 1..Len(s) - 1 : s[i] \in Classes
    BY <2>1
  <2>3. SubSeq(s, 1, Len(s) - 1) \in Seq(Classes)
    BY <1>3
  <2>4. Len(SubSeq(s, 1, Len(s) - 1)) = Len(s) - 1
    BY <1>3
  <2>5. ASSUME NEW n \in Int, n = Len(s) - 1
        PROVE  \A i \in 1..n : SubSeq(s, 1, n)[i] = s[i]
    <3>1. \A i \in 1..n - 1 + 1 : SubSeq(s, 1, n)[i] = s[1 + i - 1]
      BY <2>2, <2>5, SubSeqProperties
    <3>2. ASSUME NEW i \in 1..n
          PROVE  SubSeq(s, 1, n)[i] = s[i]
      <4>1. i \in 1..n - 1 + 1 /\ 1 + i - 1 = i
        BY <2>5, <3>2
      <4>2. SubSeq(s, 1, n)[i] = s[1 + i - 1]
        BY <3>1, <4>1
      <4> QED BY <4>1, <4>2
    <3> QED BY <3>2
  <2> QED BY <2>1, <2>3, <2>4, <2>5
<1> QED BY <1>1, <1>2, <1>3

\* For a thread in a SYNC method the list has one entry, that of its class.
LEMMA OwnEntry ==
    ASSUME Disciplined, TypeOK, OwnClass, Counted,
           NEW t \in Threads, calls[t] # <<>>
    PROVE  /\ Len(calls[t]) \in Nat /\ Len(calls[t]) > 0
           /\ Top(t) \in Uses[t] /\ Top(t) \in Classes
           /\ Uses[t] = {Top(t)}
           /\ entries[t] = {Top(t)}
           /\ First(t) = Top(t)
           /\ ulCount[t][Top(t)] = Len(calls[t])
           /\ Listed(t) = {Top(t)}
<1>1. Len(calls[t]) \in Nat /\ Len(calls[t]) > 0
  BY EmptySeq DEF TypeOK
<1>2. Top(t) \in Uses[t]
  BY <1>1 DEF OwnClass, Top
<1>3. Uses[t] \subseteq Classes
  BY UsesAssumption
<1>4. Uses[t] = {Top(t)}
  BY <1>2 DEF Disciplined
<1>5. Top(t) \in entries[t]
  BY <1>1, <1>2 DEF Counted
<1>6. entries[t] = {Top(t)}
  BY <1>4, <1>5 DEF TypeOK, OwnClass
<1>7. First(t) = Top(t)
  <2>1. Top(t) \in Nat
    BY <1>2, <1>3, ClassesAssumption
  <2>2. \A c \in entries[t] : (\A d \in entries[t] : c <= d) <=> c = Top(t)
    BY <1>6, <2>1
  <2> QED BY <1>5, <2>2 DEF First
<1>8. ulCount[t][Top(t)] = Len(calls[t])
  BY <1>2 DEF Counted
<1> QED BY <1>1, <1>2, <1>3, <1>4, <1>6, <1>7, <1>8 DEF Listed
-----------------------------------------------------------------------------
(* The invariant is inductive.                                             *)

LEMMA InitIInv == ASSUME Init PROVE IInv
<1> USE DEF Init
<1>1. TypeOK
  BY ThreadsAssumption DEF TypeOK, Places
<1>2. OwnClass /\ Counted /\ PlaceInv
  BY ThreadsAssumption, UsesAssumption DEF OwnClass, Counted, PlaceInv
<1>3. HoldInv
  BY ThreadsAssumption, UsesAssumption DEF HoldInv, Holds
<1> QED BY <1>1, <1>2, <1>3 DEF IInv

\* What a step of a thread leaves alone, and what it does to the mutex of
\* the class c the thread uses.
Others(t, c) ==
    /\ \A u \in Threads \ {t} : /\ entries'[u] = entries[u]
                                /\ ulCount'[u] = ulCount[u]
                                /\ calls'[u] = calls[u] /\ pc'[u] = pc[u]
                                /\ relock'[u] = relock[u]
    /\ \A d \in Classes \ {c} : /\ locker'[d] = locker[d]
                                /\ lock_count'[d] = lock_count[d]
    /\ locker[c] \in {t, NoThread} \/ locker'[c] = locker[c]
    /\ locker'[c] \in {t, NoThread} \/ locker'[c] = locker[c]
    /\ lock_count'[c] = IF locker'[c] = NoThread THEN 0 ELSE 1

\* What the step has to establish for the thread itself.
OwnStep(t, c) ==
    /\ entries'[t] \subseteq {c} /\ relock'[t] \subseteq {c}
    /\ \A d \in Classes \ {c} : ulCount'[t][d] = 0
    /\ \A i \in 1..Len(calls'[t]) : calls'[t][i] = c
    /\ ulCount'[t][c] = Len(calls'[t])
    /\ Len(calls'[t]) > 0 => c \in entries'[t]
    /\ pc'[t] # "relock" => relock'[t] = {}
    /\ pc'[t] = "locking" => Len(calls'[t]) = 1
    /\ relock'[t] # {} => Len(calls'[t]) > 0
    /\ (locker'[c] = t)
           <=> (/\ Len(calls'[t]) > 0
                /\ \/ pc'[t] = "exec"
                   \/ pc'[t] = "relock" /\ c \notin relock'[t])

\* A step that establishes it preserves the invariant.
LEMMA Frame ==
    ASSUME Disciplined, IInv, TypeOK',
           NEW t \in Threads, NEW c \in Classes, Uses[t] = {c},
           Others(t, c), OwnStep(t, c)
    PROVE  IInv'
<1>1. \A u \in Threads : Uses[u] \subseteq Classes
  BY UsesAssumption
<1>2. OwnClass'
  <2> SUFFICES ASSUME NEW u \in Threads
               PROVE  /\ \A d \in Classes \ Uses[u] :
                            /\ ulCount'[u][d] = 0
                            /\ d \notin entries'[u] /\ d \notin relock'[u]
                            /\ locker'[d] # u
                      /\ \A i \in 1..Len(calls'[u]) : calls'[u][i] \in Uses[u]
    BY DEF OwnClass
  <2>1. CASE u = t
    <3>1. \A d \in Classes \ {c} : locker'[d] # t
      BY DEF Others, IInv, OwnClass
    <3> QED BY <2>1, <3>1 DEF OwnStep
  <2>2. CASE u # t
    <3>1. \A d \in Classes \ Uses[u] : locker'[d] # u
      BY <2>2, ThreadsAssumption DEF Others, IInv, OwnClass
    <3>2. /\ entries'[u] = entries[u] /\ ulCount'[u] = ulCount[u]
          /\ calls'[u] = calls[u] /\ relock'[u] = relock[u]
      BY <2>2 DEF Others
    <3> QED BY <3>1, <3>2 DEF IInv, OwnClass
  <2> QED BY <2>1, <2>2
<1>3. Counted'
  <2> SUFFICES ASSUME NEW u \in Threads, NEW d \in Uses[u]
               PROVE  /\ ulCount'[u][d] = Len(calls'[u])
                      /\ Len(calls'[u]) > 0 => d \in entries'[u]
    BY DEF Counted
  <2>1. CASE u = t
    BY <2>1 DEF OwnStep
  <2>2. CASE u # t
    BY <2>2 DEF Others, IInv, Counted
  <2> QED BY <2>1, <2>2
<1>4. PlaceInv'
  <2> SUFFICES ASSUME NEW u \in Threads
               PROVE  /\ pc'[u] # "relock" => relock'[u] = {}
                      /\ pc'[u] = "locking" => Len(calls'[u]) = 1
                      /\ \A d \in relock'[u] : Len(calls'[u]) > 0
    BY DEF PlaceInv
  <2>1. CASE u = t
    BY <2>1 DEF OwnStep
  <2>2. CASE u # t
    BY <2>2 DEF Others, IInv, PlaceInv
  <2> QED BY <2>1, <2>2
<1>5. HoldInv'
  <2>1. ASSUME NEW u \in Threads, NEW d \in Uses[u]
        PROVE  locker'[d] = u <=> Holds(u, d)'
    <3>1. CASE u = t
      BY <2>1, <3>1 DEF OwnStep, Holds
    <3>2. CASE u # t
      <4>1. Holds(u, d)' <=> Holds(u, d)
        BY <3>2 DEF Others, Holds
      <4>2. locker'[d] = u <=> locker[d] = u
        BY <1>1, <2>1, <3>2, ThreadsAssumption DEF Others
      <4> QED BY <2>1, <4>1, <4>2 DEF IInv, HoldInv
    <3> QED BY <3>1, <3>2
  <2>2. \A d \in Classes : lock_count'[d] = IF locker'[d] = NoThread THEN 0 ELSE 1
    BY DEF Others, IInv, HoldInv
  <2> QED BY <2>1, <2>2 DEF HoldInv
<1> QED BY <1>2, <1>3, <1>4, <1>5 DEF IInv
\* The first send waits for the mutex or takes it, another only counts.
LEMMA PutSyncIDStep ==
    ASSUME Disciplined, IInv, NEW t \in Threads, NEW c \in Classes, PutSyncID(t, c)
    PROVE  IInv'
<1> USE DEF IInv
<1>1. /\ pc[t] = "exec" /\ c \in Uses[t] /\ Uses[t] = {c} /\ c \notin Inherited
      /\ relock[t] = {} /\ relock' = relock
      /\ entries' = [entries EXCEPT ![t] = @ \cup {c}]
      /\ ulCount' = [ulCount EXCEPT ![t][c] = @ + 1]
      /\ calls' = [calls EXCEPT ![t] = Append(@, c)]
  BY DEF PutSyncID, Disciplined, PlaceInv
<1>2. calls[t] \in Seq(Classes)
  BY DEF TypeOK
<1>3. /\ Append(calls[t], c) \in Seq(Classes)
      /\ Len(Append(calls[t], c)) = Len(calls[t]) + 1 /\ Len(calls[t]) \in Nat
      /\ \A i \in 1..Len(calls[t]) : Append(calls[t], c)[i] = calls[t][i]
      /\ Append(calls[t], c)[Len(calls[t]) + 1] = c
  BY <1>2, CallFacts
<1>4. calls'[t] = Append(calls[t], c)
  BY <1>1 DEF TypeOK
<1>5. /\ entries' \in [Threads -> SUBSET Classes]
      /\ ulCount' \in [Threads -> [Classes -> Nat]]
      /\ calls' \in [Threads -> Seq(Classes)]
  BY <1>1, <1>3 DEF TypeOK
<1>6. /\ entries'[t] = {c}
      /\ ulCount'[t][c] = Len(calls[t]) + 1
      /\ \A d \in Classes \ {c} : ulCount'[t][d] = 0
  <2>1. entries'[t] = entries[t] \cup {c} /\ entries[t] \subseteq {c}
    BY <1>1 DEF TypeOK, OwnClass
  <2>2. ulCount'[t] = [ulCount[t] EXCEPT ![c] = @ + 1]
    BY <1>1 DEF TypeOK
  <2>3. ulCount[t] \in [Classes -> Nat] /\ ulCount[t][c] = Len(calls[t])
    BY <1>1 DEF TypeOK, Counted
  <2>4. \A d \in Classes \ {c} : ulCount[t][d] = 0
    BY <1>1 DEF OwnClass
  <2> QED BY <2>1, <2>2, <2>3, <2>4
<1>7. \A i \in 1..Len(calls'[t]) : calls'[t][i] = c
  <2>1. \A i \in 1..Len(calls[t]) : calls[t][i] = c
    BY <1>1 DEF OwnClass
  <2>2. \A i \in 1..Len(calls[t]) + 1 : i \in 1..Len(calls[t]) \/ i = Len(calls[t]) + 1
    BY <1>3
  <2> QED BY <1>3, <1>4, <2>1, <2>2
<1>8. \A u \in Threads \ {t} : /\ entries'[u] = entries[u] /\ ulCount'[u] = ulCount[u]
                               /\ calls'[u] = calls[u] /\ relock'[u] = relock[u]
  BY <1>1 DEF TypeOK
<1>9. /\ ulCount[t][c] = Len(calls[t])
      /\ locker[c] = t <=> Len(calls[t]) > 0
      /\ lock_count[c] = IF locker[c] = NoThread THEN 0 ELSE 1
  BY <1>1 DEF Counted, HoldInv, Holds
<1>10. CASE ulCount[t][c] > 0 /\ UNCHANGED <<pc, locker, lock_count>>
  <2>1. TypeOK'
    BY <1>1, <1>5, <1>10 DEF TypeOK
  <2>2. Others(t, c)
    BY <1>8, <1>9, <1>10 DEF Others
  <2>3. OwnStep(t, c)
    BY <1>1, <1>3, <1>4, <1>6, <1>7, <1>9, <1>10 DEF OwnStep
  <2> QED BY <1>1, <2>1, <2>2, <2>3, Frame
<1>11. CASE ulCount[t][c] = 0 /\ CanLock(t, c) /\ MutexLock(t, c) /\ UNCHANGED pc
  <2>1. locker[c] = NoThread /\ lock_count[c] = 0
    BY <1>1, <1>9, <1>3, <1>11 DEF CanLock
  <2>2. /\ locker' = [locker EXCEPT ![c] = t]
        /\ lock_count' = [lock_count EXCEPT ![c] = @ + 1] /\ pc' = pc
    BY <1>1, <1>11 DEF MutexLock
  <2>3. /\ TypeOK' /\ locker'[c] = t /\ lock_count'[c] = 1
        /\ \A d \in Classes \ {c} : locker'[d] = locker[d] /\ lock_count'[d] = lock_count[d]
    BY <1>1, <1>5, <2>1, <2>2 DEF TypeOK
  <2>4. Others(t, c)
    BY <1>8, <2>1, <2>2, <2>3, ThreadsAssumption DEF Others
  <2>5. OwnStep(t, c)
    BY <1>1, <1>3, <1>4, <1>6, <1>7, <2>2, <2>3 DEF OwnStep
  <2> QED BY <1>1, <2>3, <2>4, <2>5, Frame
<1>12. CASE /\ ulCount[t][c] = 0 /\ pc' = [pc EXCEPT ![t] = "locking"]
            /\ UNCHANGED <<locker, lock_count>>
  <2>1. TypeOK' /\ pc'[t] = "locking" /\ \A u \in Threads \ {t} : pc'[u] = pc[u]
    BY <1>1, <1>5, <1>12 DEF TypeOK, Places
  <2>2. Others(t, c)
    BY <1>8, <1>9, <1>12, <2>1 DEF Others
  <2>3. OwnStep(t, c)
    BY <1>1, <1>3, <1>4, <1>6, <1>7, <1>9, <1>12, <2>1 DEF OwnStep
  <2> QED BY <1>1, <2>1, <2>2, <2>3, Frame
<1>13. ulCount[t][c] \in Nat
  BY <1>3, <1>9
<1> QED BY <1>10, <1>11, <1>12, <1>13 DEF PutSyncID
\* A thread in no SYNC method has nothing to unlock or lock again.
LEMMA NothingListed ==
    ASSUME IInv, NEW t \in Threads, calls[t] = <<>>
    PROVE  Listed(t) = {} /\ relock[t] = {} /\ pc[t] # "locking"
<1>1. \A c \in Classes : ulCount[t][c] = 0
  BY DEF IInv, OwnClass, Counted
<1>2. Listed(t) = {}
  BY <1>1 DEF Listed, IInv, TypeOK
<1> QED BY <1>2 DEF IInv, PlaceInv

\* Its wait changes only its place.
LEMMA EmptyStep ==
    ASSUME IInv, NEW t \in Threads, calls[t] = <<>>,
           NEW p \in Places, p # "locking", pc' = [pc EXCEPT ![t] = p],
           UNCHANGED <<entries, ulCount, calls, relock, locker, lock_count>>
    PROVE  IInv'
<1>1. TypeOK' /\ \A u \in Threads \ {t} : pc'[u] = pc[u]
  BY DEF IInv, TypeOK
<1>2. OwnClass' /\ Counted'
  BY DEF IInv, OwnClass, Counted
<1>3. pc'[t] # "locking" /\ relock[t] = {}
  BY NothingListed DEF IInv, TypeOK
<1>4. PlaceInv'
  BY <1>1, <1>3 DEF IInv, PlaceInv
<1>5. ASSUME NEW u \in Threads, NEW c \in Uses[u]
      PROVE  Holds(u, c)' <=> Holds(u, c)
  BY <1>1 DEF Holds
<1>6. HoldInv'
  BY <1>5 DEF IInv, HoldInv
<1> QED BY <1>1, <1>2, <1>4, <1>6 DEF IInv

\* Unlocking the mutex of its class, or of none.
LEMMA UnlockFacts ==
    ASSUME IInv, NEW t \in Threads, NEW c \in Classes, NEW S, S \subseteq {c},
           locker[c] = t, MutexUnlock(t, S)
    PROVE  /\ locker' \in [Classes -> Threads \cup {NoThread}]
           /\ lock_count' \in [Classes -> Nat]
           /\ \A d \in Classes \ {c} : locker'[d] = locker[d] /\ lock_count'[d] = lock_count[d]
           /\ locker'[c] = IF c \in S THEN NoThread ELSE t
           /\ lock_count'[c] = IF c \in S THEN 0 ELSE 1
<1>1. lock_count[c] = 1
  BY ThreadsAssumption DEF IInv, HoldInv
<1>2. {d \in S : locker[d] = t} = S
  OBVIOUS
<1>3. /\ locker' = [d \in Classes |-> IF d \in S /\ lock_count[d] = 1
                                       THEN NoThread ELSE locker[d]]
      /\ lock_count' = [d \in Classes |-> IF d \in S THEN lock_count[d] - 1
                                                      ELSE lock_count[d]]
  BY <1>2 DEF MutexUnlock
<1> QED BY <1>1, <1>3 DEF IInv, TypeOK

\* Nothing is unlocked.
LEMMA UnlockNone ==
    ASSUME TypeOK, NEW t, MutexUnlock(t, {})
    PROVE  UNCHANGED <<locker, lock_count>>
BY DEF MutexUnlock, TypeOK

\* The thread gets the mutex it waits for.
LEMMA LockedStep ==
    ASSUME Disciplined, IInv, NEW t \in Threads, Locked(t)
    PROVE  IInv'
<1> DEFINE c == Top(t)
<1>1. pc[t] = "locking" /\ Len(calls[t]) = 1 /\ calls[t] # <<>>
  BY EmptySeq DEF Locked, IInv, PlaceInv
<1>2. /\ c \in Classes /\ Uses[t] = {c} /\ entries[t] = {c}
      /\ ulCount[t][c] = Len(calls[t]) /\ c \in Uses[t]
  BY <1>1, OwnEntry DEF IInv
<1> HIDE DEF c
<1>3. ~Holds(t, c) /\ locker[c] # t
  BY <1>1, <1>2 DEF Holds, IInv, HoldInv
<1>4. locker[c] = NoThread /\ lock_count[c] = 0
  BY <1>2, <1>3 DEF Locked, CanLock, Disciplined, IInv, HoldInv, c
<1>5. /\ locker' = [locker EXCEPT ![c] = t]
      /\ lock_count' = [lock_count EXCEPT ![c] = @ + 1]
      /\ pc' = [pc EXCEPT ![t] = "exec"]
      /\ UNCHANGED <<entries, ulCount, calls, relock>>
  BY DEF Locked, MutexLock, Disciplined, c
<1>6. /\ TypeOK' /\ locker'[c] = t /\ lock_count'[c] = 1 /\ pc'[t] = "exec"
      /\ \A d \in Classes \ {c} : locker'[d] = locker[d] /\ lock_count'[d] = lock_count[d]
      /\ \A u \in Threads \ {t} : pc'[u] = pc[u]
  BY <1>2, <1>4, <1>5 DEF IInv, TypeOK, Places
<1>7. Others(t, c)
  BY <1>4, <1>5, <1>6, ThreadsAssumption DEF Others
<1>8. OwnStep(t, c)
  <2>1. /\ \A d \in Classes \ {c} : ulCount[t][d] = 0
        /\ \A i \in 1..Len(calls[t]) : calls[t][i] = c
        /\ relock[t] = {}
    BY <1>1, <1>2 DEF IInv, OwnClass, PlaceInv
  <2>2. /\ entries'[t] = {c} /\ relock'[t] = {} /\ Len(calls'[t]) = 1
        /\ ulCount'[t] = ulCount[t] /\ calls'[t] = calls[t]
        /\ ulCount'[t][c] = Len(calls'[t])
    BY <1>1, <1>2, <1>5, <2>1
  <2> QED BY <1>6, <2>1, <2>2 DEF OwnStep
<1> QED BY <1>2, <1>6, <1>7, <1>8, Frame

\* The last return gives the mutex back, the others count down.
LEMMA DelSyncIDStep ==
    ASSUME Disciplined, IInv, NEW t \in Threads, DelSyncID(t)
    PROVE  IInv'
<1> DEFINE c == Top(t)
           n == Len(calls[t])
           S == {d \in {c} : n - 1 = 0}
<1>1. pc[t] = "exec" /\ calls[t] # <<>> /\ relock[t] = {}
  BY DEF DelSyncID, IInv, PlaceInv
<1>2. /\ c \in Classes /\ Uses[t] = {c} /\ entries[t] = {c} /\ First(t) = c
      /\ ulCount[t][c] = n /\ c \in Uses[t] /\ n \in Nat /\ n > 0
  BY <1>1, OwnEntry DEF IInv
<1>3. /\ ulCount' = [ulCount EXCEPT ![t][c] = n - 1]
      /\ MutexUnlock(t, S)
      /\ calls' = [calls EXCEPT ![t] = SubSeq(@, 1, n - 1)]
      /\ UNCHANGED <<entries, pc, relock>>
  BY <1>2 DEF DelSyncID
<1>4. calls[t] \in Seq(Classes)
  BY DEF IInv, TypeOK
<1>5. /\ calls'[t] = SubSeq(calls[t], 1, n - 1)
      /\ calls'[t] \in Seq(Classes) /\ Len(calls'[t]) = n - 1
      /\ \A i \in 1..n - 1 : calls'[t][i] = calls[t][i]
  <2>1. calls'[t] = SubSeq(calls[t], 1, n - 1)
    BY <1>3 DEF IInv, TypeOK
  <2> QED BY <1>1, <1>2, <1>4, <2>1, CallFacts
<1> HIDE DEF c
<1>6. locker[c] = t
  BY <1>1, <1>2 DEF IInv, HoldInv, Holds
<1>7. S \subseteq {c} /\ (c \in S <=> n = 1)
  BY <1>2
<1>8. /\ locker' \in [Classes -> Threads \cup {NoThread}]
      /\ lock_count' \in [Classes -> Nat]
      /\ \A d \in Classes \ {c} : locker'[d] = locker[d] /\ lock_count'[d] = lock_count[d]
      /\ locker'[c] = IF n = 1 THEN NoThread ELSE t
      /\ lock_count'[c] = IF n = 1 THEN 0 ELSE 1
  <2> HIDE DEF S, n
  <2> QED BY <1>2, <1>3, <1>6, <1>7, UnlockFacts
<1> HIDE DEF n, S
<1>9. n - 1 \in Nat
  BY <1>2
<1>10. /\ ulCount'[t] = [ulCount[t] EXCEPT ![c] = n - 1]
       /\ ulCount' \in [Threads -> [Classes -> Nat]]
       /\ calls' \in [Threads -> Seq(Classes)]
       /\ \A u \in Threads \ {t} : ulCount'[u] = ulCount[u] /\ calls'[u] = calls[u]
  BY <1>2, <1>3, <1>5, <1>9 DEF IInv, TypeOK
<1>11. TypeOK'
  BY <1>3, <1>8, <1>10 DEF IInv, TypeOK
<1>12. Others(t, c)
  BY <1>3, <1>6, <1>8, <1>10, ThreadsAssumption DEF Others
<1>13. OwnStep(t, c)
  <2>1. /\ ulCount'[t][c] = n - 1
        /\ \A d \in Classes \ {c} : ulCount'[t][d] = 0
    <3>1. ulCount[t] \in [Classes -> Nat] /\ \A d \in Classes \ {c} : ulCount[t][d] = 0
      BY <1>2 DEF IInv, TypeOK, OwnClass
    <3> QED BY <1>2, <1>10, <3>1
  <2>2. \A i \in 1..Len(calls'[t]) : calls'[t][i] = c
    <3>1. \A i \in 1..n : calls[t][i] = c
      BY <1>2 DEF IInv, OwnClass, n
    <3> QED BY <1>2, <1>5, <3>1
  <2>3. locker'[c] = t <=> n - 1 > 0
    BY <1>2, <1>8, ThreadsAssumption
  <2> QED BY <1>1, <1>2, <1>3, <1>5, <2>1, <2>2, <2>3 DEF OwnStep
<1> QED BY <1>2, <1>11, <1>12, <1>13, Frame
\* A step of a thread in a SYNC method that leaves the list and the methods
\* alone: what it does to the mutex of the class decides.
LEMMA SameList ==
    ASSUME Disciplined, IInv, NEW t \in Threads, calls[t] # <<>>, TypeOK',
           pc[t] # "locking", pc'[t] # "locking",
           \A u \in Threads \ {t} : pc'[u] = pc[u] /\ relock'[u] = relock[u],
           UNCHANGED <<entries, ulCount, calls>>,
           \A d \in Classes \ {Top(t)} :
               locker'[d] = locker[d] /\ lock_count'[d] = lock_count[d],
           locker[Top(t)] \in {t, NoThread} \/ locker'[Top(t)] = locker[Top(t)],
           locker'[Top(t)] \in {t, NoThread} \/ locker'[Top(t)] = locker[Top(t)],
           lock_count'[Top(t)] = IF locker'[Top(t)] = NoThread THEN 0 ELSE 1,
           relock'[t] \subseteq {Top(t)},
           pc'[t] # "relock" => relock'[t] = {},
           locker'[Top(t)] = t
               <=> \/ pc'[t] = "exec"
                   \/ pc'[t] = "relock" /\ Top(t) \notin relock'[t]
    PROVE  IInv'
<1> DEFINE c == Top(t)
<1>1. /\ c \in Classes /\ Uses[t] = {c} /\ entries[t] = {c} /\ c \in Uses[t]
      /\ ulCount[t][c] = Len(calls[t]) /\ Len(calls[t]) \in Nat /\ Len(calls[t]) > 0
  BY OwnEntry DEF IInv
<1>2. Others(t, c)
  BY DEF Others
<1>3. /\ \A d \in Classes \ {c} : ulCount[t][d] = 0
      /\ \A i \in 1..Len(calls[t]) : calls[t][i] = c
  BY <1>1 DEF IInv, OwnClass
<1>4. /\ entries'[t] = {c} /\ ulCount'[t] = ulCount[t] /\ calls'[t] = calls[t]
      /\ ulCount'[t][c] = Len(calls'[t]) /\ Len(calls'[t]) > 0
  BY <1>1
<1>5. OwnStep(t, c)
  BY <1>3, <1>4 DEF OwnStep
<1> HIDE DEF c
<1> QED BY <1>1, <1>2, <1>5, Frame

\* Subscribe unlocks the mutex of the class and waits.
LEMMA UnmutexSyncStep ==
    ASSUME Disciplined, IInv, NEW t \in Threads, UnmutexSync(t)
    PROVE  IInv'
<1>1. /\ pc[t] = "exec" /\ relock[t] = {}
      /\ pc' = [pc EXCEPT ![t] = "waiting"]
      /\ UNCHANGED <<entries, ulCount, calls, relock>>
      /\ MutexUnlock(t, Listed(t))
  BY DEF UnmutexSync, IInv, PlaceInv
<1>2. CASE calls[t] = <<>>
  <2>1. UNCHANGED <<locker, lock_count>>
    BY <1>1, <1>2, NothingListed, UnlockNone DEF IInv
  <2>2. "waiting" \in Places
    BY DEF Places
  <2> QED BY <1>1, <1>2, <2>1, <2>2, EmptyStep
<1>3. CASE calls[t] # <<>>
  <2>1. /\ Top(t) \in Classes /\ Listed(t) = {Top(t)} /\ Top(t) \in Uses[t]
        /\ Len(calls[t]) > 0
    BY <1>3, OwnEntry DEF IInv
  <2>2. locker[Top(t)] = t
    BY <1>1, <2>1 DEF IInv, HoldInv, Holds
  <2>3. MutexUnlock(t, {Top(t)})
    BY <1>1, <2>1
  <2>4. /\ locker' \in [Classes -> Threads \cup {NoThread}]
        /\ lock_count' \in [Classes -> Nat]
        /\ \A d \in Classes \ {Top(t)} :
               locker'[d] = locker[d] /\ lock_count'[d] = lock_count[d]
        /\ locker'[Top(t)] = NoThread /\ lock_count'[Top(t)] = 0
    BY <2>1, <2>2, <2>3, UnlockFacts
  <2>5. TypeOK' /\ pc'[t] = "waiting" /\ \A u \in Threads \ {t} : pc'[u] = pc[u]
    BY <1>1, <2>4 DEF IInv, TypeOK, Places
  <2> QED BY <1>1, <1>3, <2>2, <2>4, <2>5, ThreadsAssumption, SameList
<1> QED BY <1>2, <1>3

\* The wait is over: the mutex of the class is to be locked again.
LEMMA RemutexSyncStep ==
    ASSUME Disciplined, IInv, NEW t \in Threads, RemutexSync(t)
    PROVE  IInv'
<1>1. /\ pc[t] = "waiting"
      /\ pc' = [pc EXCEPT ![t] = "relock"]
      /\ relock' = [relock EXCEPT ![t] = Listed(t)]
      /\ UNCHANGED <<entries, ulCount, calls, locker, lock_count>>
  BY DEF RemutexSync
<1>2. CASE calls[t] = <<>>
  <2>1. relock' = relock
    BY <1>1, <1>2, NothingListed DEF IInv, TypeOK
  <2>2. "relock" \in Places
    BY DEF Places
  <2> QED BY <1>1, <1>2, <2>1, <2>2, EmptyStep
<1>3. CASE calls[t] # <<>>
  <2>1. /\ Top(t) \in Classes /\ Listed(t) = {Top(t)} /\ Top(t) \in Uses[t]
        /\ Len(calls[t]) > 0
    BY <1>3, OwnEntry DEF IInv
  <2>2. locker[Top(t)] # t
        /\ lock_count[Top(t)] = IF locker[Top(t)] = NoThread THEN 0 ELSE 1
    BY <1>1, <2>1 DEF IInv, HoldInv, Holds
  <2>3. /\ TypeOK' /\ pc'[t] = "relock" /\ relock'[t] = {Top(t)}
        /\ \A u \in Threads \ {t} : pc'[u] = pc[u] /\ relock'[u] = relock[u]
    BY <1>1, <2>1 DEF IInv, TypeOK, Places
  <2> QED BY <1>1, <1>3, <2>2, <2>3, SameList
<1> QED BY <1>2, <1>3

\* It is locked again, or the thread goes on.
LEMMA RelockStep ==
    ASSUME Disciplined, IInv, NEW t \in Threads, Relock(t)
    PROVE  IInv'
<1>1. ASSUME NEW c \in relock[t], pc[t] = "relock", CanLock(t, c), MutexLock(t, c),
             relock' = [relock EXCEPT ![t] = @ \ {c}],
             UNCHANGED <<entries, ulCount, calls, pc>>
      PROVE  IInv'
  <2>1. Len(calls[t]) > 0 /\ calls[t] # <<>>
    BY <1>1, EmptySeq DEF IInv, PlaceInv
  <2>2. Top(t) \in Classes /\ Top(t) \in Uses[t] /\ Uses[t] = {Top(t)}
    BY <2>1, OwnEntry DEF IInv
  <2>3. c = Top(t) /\ relock[t] = {c}
    <3>1. relock[t] \subseteq Classes
      BY DEF IInv, TypeOK
    <3>2. \A d \in relock[t] : d \in Uses[t]
      BY <3>1 DEF IInv, OwnClass
    <3>3. relock[t] \subseteq {Top(t)}
      BY <2>2, <3>2
    <3> QED BY <1>1, <3>3
  <2>4. locker[c] # t
    BY <1>1, <2>2, <2>3 DEF IInv, HoldInv, Holds
  <2>5. locker[c] = NoThread /\ lock_count[c] = 0
    BY <1>1, <2>2, <2>3, <2>4 DEF CanLock, Disciplined, IInv, HoldInv
  <2>6. /\ locker' = [locker EXCEPT ![c] = t]
        /\ lock_count' = [lock_count EXCEPT ![c] = @ + 1]
    BY <1>1 DEF MutexLock, Disciplined
  <2>7. /\ TypeOK' /\ locker'[c] = t /\ lock_count'[c] = 1
        /\ \A d \in Classes \ {c} : locker'[d] = locker[d] /\ lock_count'[d] = lock_count[d]
        /\ relock'[t] = {} /\ \A u \in Threads \ {t} : relock'[u] = relock[u]
    <3>1. c \in Classes
      BY <2>2, <2>3
    <3>2. /\ locker' \in [Classes -> Threads \cup {NoThread}]
          /\ lock_count' \in [Classes -> Nat]
          /\ locker'[c] = t /\ lock_count'[c] = 1
          /\ \A d \in Classes \ {c} : locker'[d] = locker[d] /\ lock_count'[d] = lock_count[d]
      BY <2>5, <2>6, <3>1 DEF IInv, TypeOK
    <3>3. /\ relock' \in [Threads -> SUBSET Classes]
          /\ relock'[t] = relock[t] \ {c}
          /\ \A u \in Threads \ {t} : relock'[u] = relock[u]
      BY <1>1 DEF IInv, TypeOK
    <3>4. relock'[t] = {}
      BY <2>3, <3>3
    <3> QED BY <1>1, <3>2, <3>3, <3>4 DEF IInv, TypeOK
  <2> QED BY <1>1, <2>1, <2>3, <2>5, <2>7, ThreadsAssumption, SameList
<1>2. ASSUME pc[t] = "relock", relock[t] = {}, pc' = [pc EXCEPT ![t] = "exec"],
             UNCHANGED <<entries, ulCount, calls, relock, locker, lock_count>>
      PROVE  IInv'
  <2>1. "exec" \in Places
    BY DEF Places
  <2>2. CASE calls[t] = <<>>
    BY <1>2, <2>1, <2>2, EmptyStep
  <2>3. CASE calls[t] # <<>>
    <3>1. Top(t) \in Classes /\ Top(t) \in Uses[t] /\ Len(calls[t]) > 0
      BY <2>3, OwnEntry DEF IInv
    <3>2. locker[Top(t)] = t
      BY <1>2, <3>1 DEF IInv, HoldInv, Holds
    <3>3. lock_count[Top(t)] = IF locker[Top(t)] = NoThread THEN 0 ELSE 1
      BY <3>1 DEF IInv, HoldInv
    <3>4. /\ TypeOK' /\ pc'[t] = "exec"
          /\ \A u \in Threads \ {t} : pc'[u] = pc[u]
      BY <1>2, <2>1 DEF IInv, TypeOK
    <3> QED BY <1>2, <2>3, <3>2, <3>3, <3>4, SameList
  <2> QED BY <2>2, <2>3
<1> QED BY <1>1, <1>2 DEF Relock

\* A step that changes nothing.
LEMMA Stutter == ASSUME IInv, UNCHANGED vars PROVE IInv'
BY DEF IInv, TypeOK, OwnClass, Counted, PlaceInv, HoldInv, Holds, vars

-----------------------------------------------------------------------------
(* The theorems.                                                           *)

\* The inductive invariant holds in every state.
THEOREM Invariance == ASSUME Disciplined PROVE Spec => []IInv
<1>1. Init => IInv
  BY InitIInv
<1>2. IInv /\ [Next]_vars => IInv'
  <2> SUFFICES ASSUME IInv, [Next]_vars PROVE IInv'
    OBVIOUS
  <2>1. CASE UNCHANGED vars
    BY <2>1, Stutter
  <2>2. CASE Next
    <3> PICK t \in Threads : \/ \E c \in Classes : PutSyncID(t, c)
                             \/ Locked(t) \/ DelSyncID(t)
                             \/ UnmutexSync(t) \/ RemutexSync(t) \/ Relock(t)
      BY <2>2 DEF Next
    <3> QED BY PutSyncIDStep, LockedStep, DelSyncIDStep, UnmutexSyncStep,
               RemutexSyncStep, RelockStep
  <2> QED BY <2>1, <2>2
<1> QED BY <1>1, <1>2, PTL DEF Spec

\* The variables have their types.
THEOREM TypeCorrect == ASSUME Disciplined PROVE Spec => []TypeOK
<1>1. IInv => TypeOK
  BY DEF IInv
<1> QED BY <1>1, Invariance, PTL

\* Two threads do not execute SYNC methods of a class at the same time.
THEOREM Exclusion == ASSUME Disciplined PROVE Spec => []SyncExclusive
<1>1. IInv => SyncExclusive
  <2> SUFFICES ASSUME IInv, NEW c \in Classes, NEW t \in Threads, NEW u \in Threads,
                      Executes(t, c), Executes(u, c)
               PROVE  t = u
    BY DEF SyncExclusive
  <2>1. ASSUME NEW v \in Threads, Executes(v, c)
        PROVE  locker[c] = v
    <3>1. PICK i \in 1..Len(calls[v]) : calls[v][i] = c
      BY <2>1 DEF Executes
    <3>2. c \in Uses[v]
      BY <3>1 DEF IInv, OwnClass
    <3>3. Len(calls[v]) \in Nat
      BY EmptySeq DEF IInv, TypeOK
    <3>4. Holds(v, c)
      BY <2>1, <3>1, <3>3 DEF Executes, Holds
    <3> QED BY <3>2, <3>4 DEF IInv, HoldInv
  <2>2. locker[c] = t /\ locker[c] = u
    BY <2>1
  <2> QED BY <2>2
<1> QED BY <1>1, Invariance, PTL

\* A thread in no SYNC method, and a thread that waits in Subscribe, has the
\* mutex of no class.
THEOREM MutexesReleased == ASSUME Disciplined PROVE Spec => []Released
<1>1. IInv => Released
  <2> SUFFICES ASSUME IInv, NEW t \in Threads, calls[t] = <<>> \/ pc[t] = "waiting",
                      NEW c \in Classes
               PROVE  locker[c] # t
    BY DEF Released
  <2>1. CASE c \in Uses[t]
    <3>1. ~Holds(t, c)
      BY EmptySeq DEF Holds
    <3> QED BY <2>1, <3>1 DEF IInv, HoldInv
  <2>2. CASE c \notin Uses[t]
    BY <2>2 DEF IInv, OwnClass
  <2> QED BY <2>1, <2>2
<1> QED BY <1>1, Invariance, PTL

\* The list says how many SYNC methods of each class a thread is in: a count
\* that DelSyncID cannot lower below a method that still runs.
THEOREM ListIsBalanced == ASSUME Disciplined PROVE Spec => []ListBalanced
<1>1. IInv => ListBalanced
  <2> SUFFICES ASSUME IInv, NEW t \in Threads, NEW c \in Classes
               PROVE  ulCount[t][c]
                          = Cardinality({i \in 1..Len(calls[t]) : calls[t][i] = c})
    BY DEF ListBalanced
  <2>1. Len(calls[t]) \in Nat
    BY DEF IInv, TypeOK
  <2>2. CASE c \in Uses[t]
    <3>1. \A i \in 1..Len(calls[t]) : calls[t][i] = c
      BY <2>2 DEF IInv, OwnClass, Disciplined
    <3>2. {i \in 1..Len(calls[t]) : calls[t][i] = c} = 1..Len(calls[t])
      BY <3>1
    <3>3. Cardinality(1..Len(calls[t])) = Len(calls[t])
      BY <2>1, FS_Interval
    <3> QED BY <2>2, <3>2, <3>3 DEF IInv, Counted
  <2>3. CASE c \notin Uses[t]
    <3>1. {i \in 1..Len(calls[t]) : calls[t][i] = c} = {}
      BY <2>3 DEF IInv, OwnClass
    <3>2. ulCount[t][c] = 0
      BY <2>3 DEF IInv, OwnClass
    <3> QED BY <3>1, <3>2, FS_EmptySet
  <2> QED BY <2>2, <2>3
<1> QED BY <1>1, Invariance, PTL
=============================================================================
