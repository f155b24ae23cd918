------------------------- MODULE ThreadLife_proofs --------------------------
(***************************************************************************)
(* For any number of threads and of objects that name them, and all hard   *)
(* cases: the shared record of a thread is counted, no object points to a  *)
(* stack that is gone, and JoinThread tells the truth.                     *)
(***************************************************************************)
EXTENDS ThreadLife, FiniteSetTheorems, TLAPS

\* The main thread has always started, and the others in the order of their names.
MainStarted == stage[Main] # "new"

\* An object names a thread that was started, and not the main one.
NamesStarted == \A h \in Handles :
    ~Free(h) => Of(h) # Main /\ stage[Of(h)] # "new"

\* The record says that the thread has a stack.
ActiveIsStack == \A t \in Threads \ {Main} : ready[t].bActive <=> HasStack(t)

\* HandlesChained, and more: a stack is unlinked before it is destroyed, and a
\* ready object that has no stack is that of a thread that is out of business.
Chained ==
    /\ \A t \in Threads : pThreadID[t] = {h \in Handles : Live(h) /\ handle[h].pStack = t}
    /\ \A h \in Handles : Live(h) /\ handle[h].pStack # NoThread
                          => handle[h].pStack = Of(h) /\ stage[Of(h)] \in Linked
    /\ \A h \in Handles : Live(h) /\ handle[h].bReady /\ handle[h].pStack = NoThread
                          => stage[Of(h)] \notin InBusiness

ObjectInv == NamesStarted /\ ActiveIsStack /\ Chained /\ ReadyCounted

\* No two threads that the system knows have one id.
IdsDiffer ==
    /\ \A t \in Threads : th_id[t] \in 0 .. t
    /\ \A t, u \in Threads : Known(t) /\ Known(u) /\ th_id[t] = th_id[u] => t = u

\* A call holds the object that it works with.
CallHolds == \A s \in Threads : call[s] # NoCall => call[s].h \in Handles /\ Live(call[s].h)

\* Who is joined is known, was not detached, and has the id of the object of the
\* thread that waits for it.
JoinerWaits == \A u \in Threads :
    LET s == joiner[u] IN
    s # NoThread => /\ Known(u) /\ ~detached[u]
                    /\ stage[s] = "runs" /\ call[s].at = "wait"
                    /\ th_id[u] = th_id[Of(call[s].h)]

JoinInv == IdsDiffer /\ CallHolds /\ JoinerWaits /\ JoinTrue

IInv == TypeOK /\ MainStarted /\ ObjectInv /\ JoinInv

-----------------------------------------------------------------------------
(* Helpers.                                                                *)

\* The count of a set of objects, when one comes or goes.
LEMMA Counting ==
    ASSUME NEW S \in SUBSET Handles
    PROVE  /\ Cardinality(S) \in Nat
           /\ \A h \in S : Cardinality(S \ {h}) = Cardinality(S) - 1
           /\ \A h \in Handles \ S : Cardinality(S \cup {h}) = Cardinality(S) + 1
<1>1. IsFiniteSet(S)
  BY HandlesAssumption, FS_Subset
<1> QED
  BY <1>1, FS_CardinalityType, FS_RemoveElement, FS_AddElement

\* The next thread to start is new, is not the main one, and comes after all that
\* have started.
LEMMA NextIsNew ==
    ASSUME TypeOK, MainStarted, NEW t \in Threads, IsNext(t)
    PROVE  stage[t] = "new" /\ t # Main /\ \A u \in Threads : stage[u] # "new" => u < t
<1>1. Main \in Threads /\ Threads \subseteq Int
  BY ThreadsAssumption DEF Main, Threads
<1> QED
  BY <1>1 DEF IsNext, MainStarted

-----------------------------------------------------------------------------
(* The objects and the shared records.                                     *)

\* Most actions leave the objects alone, and each stack where it is.
SameStacks == \A t \in Threads : /\ stage'[t] = "new" <=> stage[t] = "new"
                                 /\ stage'[t] \in Linked <=> stage[t] \in Linked
                                 /\ stage'[t] \in InBusiness <=> stage[t] \in InBusiness
                                 /\ HasStack(t)' <=> HasStack(t)

LEMMA ObjectsKept ==
    ASSUME TypeOK, ObjectInv, UNCHANGED objects, SameStacks
    PROVE  ObjectInv'
<1>0. /\ ready' = ready /\ pThreadID' = pThreadID /\ handle' = handle
      /\ \A h \in Handles : Of(h) \in Threads
  BY DEF objects, TypeOK, Handle, Of
<1>1. NamesStarted'
  BY <1>0 DEF ObjectInv, SameStacks, NamesStarted, Free, Of
<1>2. ActiveIsStack'
  BY <1>0 DEF ObjectInv, SameStacks, ActiveIsStack
<1>3. Chained'
  BY <1>0 DEF ObjectInv, SameStacks, Chained, Live, Of
<1>4. ReadyCounted'
  <2>1. \A t \in Threads : Holders(t)' = Holders(t)
    BY <1>0 DEF Holders, Of
  <2> QED
    BY <1>0, <2>1 DEF ObjectInv, SameStacks, ReadyCounted
<1> QED
  BY <1>1, <1>2, <1>3, <1>4 DEF ObjectInv

LEMMA StartThreadObjects ==
    ASSUME TypeOK, MainStarted, ObjectInv,
           NEW s \in Threads, NEW t \in Threads, NEW h \in Handles, StartThread(s, t, h)
    PROVE  ObjectInv'
<1> USE DEF ObjectInv, TypeOK
<1>0. stage[t] = "new" /\ t # Main /\ t # NoThread
  BY NextIsNew, ThreadsAssumption DEF StartThread
<1>1. /\ stage' = [stage EXCEPT ![t] = "runs"]
      /\ ready' = [ready EXCEPT ![t] = [bActive |-> TRUE, ulCounter |-> 2]]
      /\ pThreadID' = [pThreadID EXCEPT ![t] = {h}]
      /\ handle' = [handle EXCEPT ![h] = [state |-> "live", of |-> t, bReady |-> TRUE,
                                          pStack |-> t]]
      /\ Free(h)
  BY DEF StartThread
<1>2. NamesStarted'
  BY <1>0, <1>1 DEF NamesStarted, Free, Of
<1>3. ActiveIsStack'
  BY <1>0, <1>1 DEF ActiveIsStack, HasStack, Linked, InBusiness
<1>4. Chained'
  <2>1. \A g \in Handles : Live(g) => handle[g].pStack # t
    BY <1>0 DEF Chained, Linked, InBusiness
  <2>2. \A u \in Threads :
           pThreadID'[u] = {g \in Handles : Live(g)' /\ handle'[g].pStack = u}
    BY <1>1, <2>1 DEF Chained, Live, Free
  <2>3. \A g \in Handles : Live(g)' /\ handle'[g].pStack # NoThread
                          => handle'[g].pStack = Of(g)' /\ stage'[Of(g)'] \in Linked
    BY <1>0, <1>1 DEF Chained, Live, Of, Linked, InBusiness, Handle
  <2>4. \A g \in Handles : Live(g)' /\ handle'[g].bReady /\ handle'[g].pStack = NoThread
                          => stage'[Of(g)'] \notin InBusiness
    BY <1>0, <1>1 DEF Chained, Live, Of, Linked, InBusiness, Handle, NamesStarted, Free
  <2> QED
    BY <2>2, <2>3, <2>4 DEF Chained
<1>5. ReadyCounted'
  <2>1. Holders(t) = {} /\ Holders(t)' = {h}
    BY <1>0, <1>1 DEF Holders, NamesStarted, Of, Free
  <2>2. \A u \in Threads \ {t} : Holders(u)' = Holders(u)
    BY <1>1 DEF Holders, Of, Free
  <2>3. Cardinality({h}) = 1
    BY FS_Singleton
  <2>4. ready'[t].ulCounter = 1 + 1 /\ HasStack(t)'
    BY <1>1 DEF HasStack, Linked, InBusiness
  <2>5. \A u \in Threads \ {t} : ready'[u] = ready[u] /\ HasStack(u)' = HasStack(u)
    BY <1>1 DEF HasStack
  <2> QED
    BY <2>1, <2>2, <2>3, <2>4, <2>5 DEF ReadyCounted
<1> QED
  BY <1>2, <1>3, <1>4, <1>5

\* The thread that was to start is gone, and its object is not ready.
LEMMA StartThreadFailsObjects ==
    ASSUME TypeOK, MainStarted, ObjectInv,
           NEW s \in Threads, NEW t \in Threads, NEW h \in Handles, StartThreadFails(s, t, h)
    PROVE  ObjectInv'
<1> USE DEF ObjectInv, TypeOK
<1>0. stage[t] = "new" /\ t # Main
  BY NextIsNew DEF StartThreadFails
<1>1. /\ stage' = [stage EXCEPT ![t] = "gone"]
      /\ ready' = [ready EXCEPT ![t] = [bActive |-> FALSE, ulCounter |-> 1]]
      /\ pThreadID' = pThreadID
      /\ handle' = [handle EXCEPT ![h] = [state |-> "live", of |-> t, bReady |-> FALSE,
                                          pStack |-> NoThread]]
      /\ Free(h)
  BY DEF StartThreadFails
<1>2. NamesStarted'
  BY <1>0, <1>1 DEF NamesStarted, Free, Of
<1>3. ActiveIsStack'
  BY <1>0, <1>1 DEF ActiveIsStack, HasStack, Linked, InBusiness
<1>4. Chained'
  <2>1. \A u \in Threads :
           pThreadID'[u] = {g \in Handles : Live(g)' /\ handle'[g].pStack = u}
    BY <1>1, ThreadsAssumption DEF Chained, Live, Free
  <2>2. \A g \in Handles : Live(g)' /\ handle'[g].pStack # NoThread
                          => handle'[g].pStack = Of(g)' /\ stage'[Of(g)'] \in Linked
    BY <1>0, <1>1 DEF Chained, Live, Of, Linked, InBusiness, Handle
  <2>3. \A g \in Handles : Live(g)' /\ handle'[g].bReady /\ handle'[g].pStack = NoThread
                          => stage'[Of(g)'] \notin InBusiness
    BY <1>0, <1>1 DEF Chained, Live, Of, Linked, InBusiness, Handle
  <2> QED
    BY <2>1, <2>2, <2>3 DEF Chained
<1>5. ReadyCounted'
  <2>1. Holders(t) = {} /\ Holders(t)' = {h}
    BY <1>0, <1>1 DEF Holders, NamesStarted, Of, Free
  <2>2. \A u \in Threads \ {t} : Holders(u)' = Holders(u)
    BY <1>1 DEF Holders, Of, Free
  <2>3. Cardinality({h}) = 1
    BY FS_Singleton
  <2>4. ready'[t].ulCounter = 1 + 0 /\ ~HasStack(t)'
    BY <1>1 DEF HasStack, Linked, InBusiness
  <2>5. \A u \in Threads \ {t} : ready'[u] = ready[u] /\ HasStack(u)' = HasStack(u)
    BY <1>1 DEF HasStack
  <2> QED
    BY <2>1, <2>2, <2>3, <2>4, <2>5 DEF ReadyCounted
<1> QED
  BY <1>2, <1>3, <1>4, <1>5

\* One more object, one more holder.
LEMMA GetCurrentThreadObjects ==
    ASSUME TypeOK, ObjectInv,
           NEW s \in Threads, NEW h \in Handles, GetCurrentThread(s, h)
    PROVE  ObjectInv'
<1> USE DEF ObjectInv, TypeOK
<1>1. /\ stage' = stage
      /\ ready' = [ready EXCEPT ![s].ulCounter = @ + 1]
      /\ pThreadID' = [pThreadID EXCEPT ![s] = @ \cup {h}]
      /\ handle' = [handle EXCEPT ![h] = [state |-> "live", of |-> s, bReady |-> TRUE,
                                          pStack |-> s]]
      /\ Free(h) /\ s # Main /\ s # NoThread /\ stage[s] = "runs"
  BY ThreadsAssumption DEF GetCurrentThread, Idle
<1>2. NamesStarted'
  BY <1>1 DEF NamesStarted, Free, Of
<1>3. ActiveIsStack'
  BY <1>1 DEF ActiveIsStack, HasStack, Ready
<1>4. Chained'
  <2>1. \A u \in Threads :
           pThreadID'[u] = {g \in Handles : Live(g)' /\ handle'[g].pStack = u}
    BY <1>1 DEF Chained, Live, Free
  <2>2. \A g \in Handles : Live(g)' /\ handle'[g].pStack # NoThread
                          => handle'[g].pStack = Of(g)' /\ stage'[Of(g)'] \in Linked
    BY <1>1 DEF Chained, Live, Of, Linked, InBusiness, Handle
  <2>3. \A g \in Handles : Live(g)' /\ handle'[g].bReady /\ handle'[g].pStack = NoThread
                          => stage'[Of(g)'] \notin InBusiness
    BY <1>1 DEF Chained, Live, Of, Linked, InBusiness, Handle
  <2> QED
    BY <2>1, <2>2, <2>3 DEF Chained
<1>5. ReadyCounted'
  <2>1. Holders(s)' = Holders(s) \cup {h} /\ h \notin Holders(s)
    BY <1>1 DEF Holders, Of, Free
  <2>2. Cardinality(Holders(s)') = Cardinality(Holders(s)) + 1
        /\ Cardinality(Holders(s)) \in Nat
    BY <2>1, Counting DEF Holders
  <2>3. \A u \in Threads \ {s} : Holders(u)' = Holders(u)
    BY <1>1 DEF Holders, Of, Free
  <2>4. /\ ready'[s].ulCounter = ready[s].ulCounter + 1
        /\ \A u \in Threads \ {s} : ready'[u] = ready[u]
        /\ \A u \in Threads : HasStack(u)' = HasStack(u)
    BY <1>1 DEF HasStack, Ready
  <2> QED
    BY <1>1, <2>2, <2>3, <2>4 DEF ReadyCounted
<1> QED
  BY <1>2, <1>3, <1>4, <1>5

\* hb_threadThreadIdFinalize up to the end of the critical section: the object is
\* taken out of the chain of its stack, if that is still there.
LEMMA FinalizeObjects ==
    ASSUME TypeOK, ObjectInv, NEW h \in Handles, Finalize(h)
    PROVE  ObjectInv'
<1> USE DEF ObjectInv, TypeOK
<1>1. /\ stage' = stage /\ ready' = ready
      /\ handle' = [handle EXCEPT ![h].state = "unlinked"]
      /\ pThreadID' = [t \in Threads |-> IF ready[Of(h)].bActive /\ handle[h].pStack = t
                                         THEN pThreadID[t] \ {h} ELSE pThreadID[t]]
      /\ Live(h)
  BY DEF Finalize
<1>2. /\ \A g \in Handles : /\ Of(g)' = Of(g) /\ Of(g) \in Threads
                            /\ Free(g)' <=> Free(g)
                            /\ handle'[g].pStack = handle[g].pStack
                            /\ handle'[g].bReady = handle[g].bReady
      /\ \A g \in Handles \ {h} : Live(g)' <=> Live(g)
      /\ ~Live(h)'
  BY <1>1 DEF Of, Free, Live, Handle
<1>3. NamesStarted'
  BY <1>1, <1>2 DEF NamesStarted
<1>4. ActiveIsStack'
  BY <1>1 DEF ActiveIsStack, HasStack
<1>5. Chained'
  <2>1. \A t \in Threads : handle[h].pStack = t => ready[Of(h)].bActive
    BY <1>1, <1>2, ThreadsAssumption
       DEF Chained, ActiveIsStack, NamesStarted, HasStack, Live, Free
  <2>2. \A t \in Threads :
           pThreadID'[t] = {g \in Handles : Live(g)' /\ handle'[g].pStack = t}
    <3> SUFFICES ASSUME NEW t \in Threads
                 PROVE  pThreadID'[t] = {g \in Handles : Live(g)' /\ handle'[g].pStack = t}
      OBVIOUS
    <3>1. pThreadID[t] = {g \in Handles : Live(g) /\ handle[g].pStack = t}
      BY DEF Chained
    <3>2. pThreadID'[t] = pThreadID[t] \ {h}
      BY <1>1, <2>1, <3>1
    <3> QED
      BY <1>2, <3>1, <3>2
  <2>3. \A g \in Handles : Live(g)' => Live(g)
    BY <1>2
  <2> QED
    BY <1>1, <1>2, <2>2, <2>3 DEF Chained
<1>6. ReadyCounted'
  <2>1. \A t \in Threads : Holders(t)' = Holders(t)
    BY <1>2 DEF Holders, Free
  <2> QED
    BY <1>1, <2>1 DEF ReadyCounted, HasStack
<1> QED
  BY <1>3, <1>4, <1>5, <1>6

\* ... and behind it: one holder less.
LEMMA FinalizeEndObjects ==
    ASSUME TypeOK, ObjectInv, NEW h \in Handles, FinalizeEnd(h)
    PROVE  ObjectInv'
<1> USE DEF ObjectInv, TypeOK
<1>0. PICK t \in Threads : t = Of(h)
  BY DEF FinalizeEnd, Of, Handle
<1>1. /\ stage' = stage /\ pThreadID' = pThreadID
      /\ ready' = [ready EXCEPT ![t].ulCounter = @ - 1]
      /\ handle' = [handle EXCEPT ![h] = [state |-> "free", of |-> Main, bReady |-> FALSE,
                                          pStack |-> NoThread]]
      /\ ~Live(h) /\ ~Free(h)
  BY <1>0 DEF FinalizeEnd, Live, Free
<1>2. /\ \A g \in Handles \ {h} : handle'[g] = handle[g]
      /\ Free(h)' /\ ~Live(h)'
  BY <1>1 DEF Free, Live
<1>3. NamesStarted'
  BY <1>1, <1>2 DEF NamesStarted, Free, Of
<1>4. ActiveIsStack'
  BY <1>1 DEF ActiveIsStack, HasStack, Ready
<1>5. Chained'
  BY <1>1, <1>2 DEF Chained, Live, Of
<1>6. ReadyCounted'
  <2>1. Holders(t)' = Holders(t) \ {h} /\ h \in Holders(t)
    BY <1>0, <1>1, <1>2 DEF Holders, Of, Free
  <2>2. Cardinality(Holders(t)') = Cardinality(Holders(t)) - 1
        /\ Cardinality(Holders(t)) \in Nat
    BY <2>1, Counting DEF Holders
  <2>3. \A u \in Threads \ {t} : Holders(u)' = Holders(u)
    BY <1>0, <1>1, <1>2 DEF Holders, Of, Free
  <2>4. /\ ready'[t].ulCounter = ready[t].ulCounter - 1
        /\ \A u \in Threads \ {t} : ready'[u] = ready[u]
        /\ \A u \in Threads : HasStack(u)' = HasStack(u)
    BY <1>1 DEF HasStack, Ready
  <2>5. t # Main
    BY <1>0, <1>1 DEF NamesStarted
  <2>6. ready[t].ulCounter = Cardinality(Holders(t)) + IF HasStack(t) THEN 1 ELSE 0
    BY <2>5 DEF ReadyCounted
  <2>7. ready'[t].ulCounter = Cardinality(Holders(t)') + IF HasStack(t)' THEN 1 ELSE 0
    BY <2>2, <2>4, <2>6
  <2> QED
    BY <2>3, <2>4, <2>7 DEF ReadyCounted
<1> QED
  BY <1>3, <1>4, <1>5, <1>6

\* An object loses its stack, while that is still linked.
LEMMA ClearObjectObjects ==
    ASSUME TypeOK, ObjectInv, NEW t \in Threads, NEW g \in Handles, ClearObject(t, g)
    PROVE  ObjectInv'
<1> USE DEF ObjectInv, TypeOK
<1>1. /\ stage' = [stage EXCEPT ![t] = "clearing"] /\ stage[t] \in {"closing", "clearing"}
      /\ handle' = [handle EXCEPT ![g].pStack = NoThread]
      /\ pThreadID' = [pThreadID EXCEPT ![t] = @ \ {g}]
      /\ ready' = ready
      /\ g \in pThreadID[t]
  BY DEF ClearObject, AtChain
<1>2. \A h \in Handles : /\ Of(h)' = Of(h) /\ Of(h) \in Threads
                         /\ Free(h)' <=> Free(h)
                         /\ Live(h)' <=> Live(h)
                         /\ handle'[h].bReady = handle[h].bReady
                         /\ handle'[h].pStack = IF h = g THEN NoThread
                                                ELSE handle[h].pStack
  BY <1>1 DEF Of, Free, Live, Handle
<1>0. Live(g) /\ handle[g].pStack = t /\ Of(g) = t /\ t # NoThread
  BY <1>1, ThreadsAssumption DEF Chained
<1>3. NamesStarted'
  BY <1>1, <1>2 DEF NamesStarted
<1>4. ActiveIsStack'
  BY <1>1 DEF ActiveIsStack, HasStack, Linked, InBusiness
<1>5. Chained'
  <2>1. \A u \in Threads :
           pThreadID'[u] = {h \in Handles : Live(h)' /\ handle'[h].pStack = u}
    <3>1. \A u \in Threads : pThreadID[u] = {h \in Handles : Live(h) /\ handle[h].pStack = u}
      BY DEF Chained
    <3>2. \A u \in Threads : pThreadID'[u] = pThreadID[u] \ {g}
      BY <1>0, <1>1, <3>1
    <3> QED
      BY <1>2, <3>1, <3>2, ThreadsAssumption
  <2>2. \A h \in Handles : Live(h)' /\ handle'[h].pStack # NoThread
                          => handle'[h].pStack = Of(h)' /\ stage'[Of(h)'] \in Linked
    BY <1>1, <1>2 DEF Chained, Linked
  <2>3. \A h \in Handles : Live(h)' /\ handle'[h].bReady /\ handle'[h].pStack = NoThread
                          => stage'[Of(h)'] \notin InBusiness
    <3> SUFFICES ASSUME NEW h \in Handles, Live(h)', handle'[h].bReady,
                        handle'[h].pStack = NoThread
                 PROVE  stage'[Of(h)'] \notin InBusiness
      OBVIOUS
    <3>1. CASE Of(h) = t
      BY <1>1, <1>2, <3>1 DEF InBusiness
    <3>2. CASE Of(h) # t
      BY <1>0, <1>1, <1>2, <3>2 DEF Chained
    <3> QED
      BY <3>1, <3>2
  <2> QED
    BY <2>1, <2>2, <2>3 DEF Chained
<1>6. ReadyCounted'
  <2>1. \A u \in Threads : Holders(u)' = Holders(u) /\ HasStack(u)' = HasStack(u)
    BY <1>1, <1>2 DEF Holders, Free, HasStack, Linked, InBusiness
  <2> QED
    BY <1>1, <2>1 DEF ReadyCounted
<1> QED
  BY <1>3, <1>4, <1>5, <1>6

\* The stack is unlinked, when no object points to it any more.
LEMMA UnlinkStackObjects ==
    ASSUME TypeOK, ObjectInv, NEW t \in Threads, UnlinkStack(t)
    PROVE  ObjectInv'
<1> USE DEF ObjectInv, TypeOK
<1>1. /\ stage' = [stage EXCEPT ![t] = "destroying"] /\ stage[t] \in {"closing", "clearing"}
      /\ pThreadID[t] = {}
      /\ handle' = handle /\ pThreadID' = pThreadID /\ ready' = ready
      /\ \A h \in Handles : Of(h) \in Threads
  BY DEF UnlinkStack, AtChain, objects, Of, Handle
<1>2. NamesStarted'
  BY <1>1 DEF NamesStarted, Free, Of
<1>3. ActiveIsStack'
  BY <1>1 DEF ActiveIsStack, HasStack, Linked, InBusiness
<1>4. Chained'
  <2>1. \A h \in Handles : Live(h) => handle[h].pStack # t
    BY <1>1 DEF Chained
  <2>2. \A h \in Handles : Live(h) /\ handle[h].pStack # NoThread
                          => handle[h].pStack = Of(h) /\ stage'[Of(h)] \in Linked
    BY <1>1, <2>1 DEF Chained
  <2>3. \A h \in Handles : Live(h) /\ handle[h].bReady /\ handle[h].pStack = NoThread
                          => stage'[Of(h)] \notin InBusiness
    BY <1>1 DEF Chained, InBusiness
  <2> QED
    BY <1>1, <2>2, <2>3 DEF Chained, Live, Of
<1>5. ReadyCounted'
  <2>1. \A u \in Threads : Holders(u)' = Holders(u) /\ HasStack(u)' = HasStack(u)
    BY <1>1 DEF Holders, Of, HasStack, Linked, InBusiness
  <2> QED
    BY <1>1, <2>1 DEF ReadyCounted
<1> QED
  BY <1>2, <1>3, <1>4, <1>5

\* The stack gives up its hold of the record.
LEMMA DestroyStackObjects ==
    ASSUME TypeOK, ObjectInv, NEW t \in Threads, DestroyStack(t)
    PROVE  ObjectInv'
<1> USE DEF ObjectInv, TypeOK
<1>1. /\ stage' = [stage EXCEPT ![t] = "closed"] /\ stage[t] = "destroying"
      /\ ready' = [ready EXCEPT ![t] = [bActive |-> FALSE, ulCounter |-> @.ulCounter - 1]]
      /\ pThreadID' = pThreadID /\ handle' = handle
      /\ \A h \in Handles : Of(h) \in Threads
  BY DEF DestroyStack, Of, Handle
<1>2. NamesStarted'
  BY <1>1 DEF NamesStarted, Free, Of
<1>3. ActiveIsStack'
  BY <1>1 DEF ActiveIsStack, HasStack, Linked, InBusiness
<1>4. Chained'
  BY <1>1 DEF Chained, Live, Of, Linked, InBusiness
<1>5. ReadyCounted'
  <2>1. \A u \in Threads : Holders(u)' = Holders(u) /\ Cardinality(Holders(u)) \in Nat
    BY <1>1, Counting DEF Holders, Of
  <2>2. ready'[t].ulCounter = ready[t].ulCounter - 1 /\ HasStack(t) /\ ~HasStack(t)'
    BY <1>1 DEF HasStack, Linked, InBusiness
  <2>3. \A u \in Threads \ {t} : ready'[u] = ready[u] /\ HasStack(u)' = HasStack(u)
    BY <1>1 DEF HasStack
  <2> QED
    BY <2>1, <2>2, <2>3 DEF ReadyCounted
<1> QED
  BY <1>2, <1>3, <1>4, <1>5

-----------------------------------------------------------------------------
(* The ids, the calls and the joins.                                       *)

SameKnown == \A t \in Threads : /\ Known(t)' <=> Known(t)
                                /\ stage'[t] = "runs" <=> stage[t] = "runs"

\* The objects that calls work with are as they were.
SameHeld == \A s \in Threads :
    call[s] # NoCall => Live(call[s].h)' /\ Of(call[s].h)' = Of(call[s].h)

\* A step that changes no call.
LEMMA CallsKept ==
    ASSUME TypeOK, JoinInv, SameKnown, SameHeld,
           UNCHANGED <<call, th_id, joiner, detached>>
    PROVE  IdsDiffer' /\ CallHolds' /\ JoinerWaits'
<1>1. IdsDiffer'
  BY DEF JoinInv, IdsDiffer, SameKnown
<1>2. CallHolds'
  BY DEF JoinInv, CallHolds, SameHeld
<1>3. JoinerWaits'
  <2>1. \A s \in Threads : call[s].at = "wait" => call[s] # NoCall
    BY DEF NoCall
  <2> QED
    BY <2>1 DEF JoinInv, JoinerWaits, SameKnown, SameHeld, TypeOK
<1> QED
  BY <1>1, <1>2, <1>3

LEMMA JoinKept ==
    ASSUME TypeOK, JoinInv, SameKnown, SameHeld,
           UNCHANGED <<call, th_id, joiner, detached, tooEarly>>
    PROVE  JoinInv'
  BY CallsKept DEF JoinInv, JoinTrue

\* A step of a thread that waits for nobody, which changes its call.
LEMMA CallChanges ==
    ASSUME TypeOK, JoinInv, SameKnown, NEW s \in Threads, NEW c \in Call,
           \A u \in Threads : joiner[u] # s,
           call' = [call EXCEPT ![s] = c],
           c # NoCall => c.h \in Handles /\ Live(c.h),
           UNCHANGED <<handle, th_id, joiner, detached, tooEarly>>
    PROVE  JoinInv'
<1>1. IdsDiffer'
  BY DEF JoinInv, IdsDiffer, SameKnown
<1>2. CallHolds'
  BY DEF JoinInv, CallHolds, Live, TypeOK
<1>3. JoinerWaits'
  BY DEF JoinInv, JoinerWaits, SameKnown, Of, TypeOK
<1> QED
  BY <1>1, <1>2, <1>3 DEF JoinInv, JoinTrue

\* Nobody is joined by a thread that is at another place.
LEMMA NotWaiting ==
    ASSUME JoinInv, NEW s \in Threads, NoThread \notin Threads,
           stage[s] # "runs" \/ call[s].at # "wait"
    PROVE  \A u \in Threads : joiner[u] # s
  BY DEF JoinInv, JoinerWaits

\* The new thread has an id that none has that is known.
LEMMA StartThreadJoins ==
    ASSUME TypeOK, MainStarted, ObjectInv, JoinInv,
           NEW s \in Threads, NEW t \in Threads, NEW h \in Handles, StartThread(s, t, h)
    PROVE  JoinInv'
<1> USE DEF JoinInv, TypeOK
<1>1. stage[t] = "new" /\ t # Main /\ \A u \in Threads : stage[u] # "new" => u < t
  BY NextIsNew DEF StartThread
<1>2. PICK i \in FreeIds(t) : th_id' = [th_id EXCEPT ![t] = i]
  BY DEF StartThread
<1>3. /\ stage' = [stage EXCEPT ![t] = "runs"]
      /\ handle' = [handle EXCEPT ![h] = [state |-> "live", of |-> t, bReady |-> TRUE,
                                          pStack |-> t]]
      /\ Free(h)
      /\ UNCHANGED <<detached, joiner, call, tooEarly>>
  BY DEF StartThread
<1>4. /\ ~Known(t) /\ Known(t)'
      /\ \A u \in Threads \ {t} : (Known(u)' <=> Known(u)) /\ stage'[u] = stage[u]
  BY <1>1, <1>3 DEF Known
<1>5. i \in 0 .. t /\ \A u \in Threads : Known(u) => th_id[u] # i
  <2>1. Threads \subseteq Nat
    BY ThreadsAssumption DEF Threads
  <2>2. CASE i = t
    <3>1. \A u \in Threads : Known(u) => u < t /\ th_id[u] <= u /\ th_id[u] \in Nat
      BY <1>1, <2>1 DEF Known, IdsDiffer
    <3> QED
      BY <2>1, <2>2, <3>1
  <2>3. CASE i # t
    <3>1. PICK u \in Threads : stage[u] = "gone" /\ th_id[u] = i
      BY <1>2, <2>3 DEF FreeIds
    <3>2. u < t /\ th_id[u] \in 0 .. u
      BY <1>1, <3>1 DEF IdsDiffer
    <3>3. \A v \in Threads : Known(v) => th_id[v] # i
      BY <1>2, <2>3 DEF FreeIds
    <3> QED
      BY <2>1, <3>1, <3>2, <3>3
  <2> QED
    BY <2>2, <2>3
<1>6. IdsDiffer'
  BY <1>2, <1>3, <1>4, <1>5 DEF IdsDiffer
<1>7. /\ \A r \in Threads : call[r] # NoCall =>
             /\ Live(call[r].h)' /\ Of(call[r].h)' = Of(call[r].h)
             /\ Of(call[r].h) \in Threads \ {t}
  BY <1>1, <1>3 DEF CallHolds, Live, Free, Of, ObjectInv, NamesStarted, Handle
<1>8. CallHolds'
  BY <1>3, <1>7 DEF CallHolds
<1>9. JoinerWaits'
  <2>1. \A r \in Threads : call[r].at = "wait" => call[r] # NoCall
    BY DEF NoCall
  <2> QED
    BY <1>2, <1>3, <1>4, <1>7, <2>1 DEF JoinerWaits
<1> QED
  BY <1>3, <1>6, <1>8, <1>9 DEF JoinTrue

\* JoinThread on an object that has lost its stack.
LEMMA JoinAtOnceJoins ==
    ASSUME TypeOK, ObjectInv, JoinInv,
           NEW s \in Threads, NEW h \in Handles, JoinAtOnce(s, h)
    PROVE  JoinInv'
<1>1. UNCHANGED <<stage, handle, call, th_id, joiner, detached>>
  BY DEF JoinAtOnce, system, objects
<1>2. stage[Of(h)] \notin InBusiness
  BY DEF JoinAtOnce, ObjectInv, Chained
<1>3. JoinTrue'
  BY <1>1, <1>2 DEF JoinAtOnce, ReturnTrue, JoinInv, JoinTrue, Of
<1>4. SameKnown /\ SameHeld
  BY <1>1 DEF SameKnown, SameHeld, Known, Live, Of, JoinInv, CallHolds
<1> QED
  BY <1>1, <1>3, <1>4, CallsKept DEF JoinInv

LEMMA JoinJoins ==
    ASSUME TypeOK, JoinInv, NEW s \in Threads, Join(s)
    PROVE  JoinInv'
<1> USE DEF JoinInv, TypeOK
<1>1. PICK u \in Named(call[s].h) : Joinable(s, u) /\ joiner' = [joiner EXCEPT ![u] = s]
  BY DEF Join
<1>2. /\ u \in Threads /\ Known(u) /\ ~detached[u] /\ th_id[u] = th_id[Of(call[s].h)]
      /\ UNCHANGED <<stage, handle, th_id, detached, tooEarly>>
      /\ call' = [call EXCEPT ![s].at = "wait"]
      /\ stage[s] = "runs" /\ call[s].at = "join"
  BY <1>1 DEF Named, Joinable, Join, In, objects
<1>3. /\ call'[s].at = "wait" /\ call'[s].h = call[s].h /\ call[s] # NoCall
      /\ \A r \in Threads \ {s} : call'[r] = call[r]
  BY <1>2 DEF Call, NoCall
<1>4. IdsDiffer'
  BY <1>2 DEF IdsDiffer, Known
<1>5. CallHolds'
  BY <1>2, <1>3 DEF CallHolds, Live
<1>6. JoinerWaits'
  BY <1>1, <1>2, <1>3 DEF JoinerWaits, Known, Of
<1> QED
  BY <1>2, <1>4, <1>5, <1>6 DEF JoinTrue

\* The thread that has ended is the one of the object, or that one has ended before.
LEMMA JoinReturnsJoins ==
    ASSUME TypeOK, JoinInv, NEW s \in Threads, NEW u \in Threads, JoinReturns(s, u)
    PROVE  JoinInv'
<1> USE DEF JoinInv, TypeOK
<1>1. /\ stage' = [stage EXCEPT ![u] = "gone"] /\ stage[u] = "over"
      /\ joiner' = [joiner EXCEPT ![u] = NoThread] /\ joiner[u] = s
      /\ call' = [call EXCEPT ![s] = NoCall]
      /\ UNCHANGED <<handle, th_id, detached>>
      /\ s # NoThread
  BY ThreadsAssumption DEF JoinReturns, objects
<1>2. /\ Known(u) /\ ~Known(u)' /\ stage[s] = "runs" /\ u # s
      /\ \A r \in Threads \ {u} : stage'[r] = stage[r] /\ (Known(r)' <=> Known(r))
  BY <1>1 DEF Known, JoinerWaits
<1>3. \A v \in Threads : joiner[v] = s => v = u
  BY <1>1 DEF JoinerWaits, IdsDiffer
<1>4. IdsDiffer'
  BY <1>1, <1>2 DEF IdsDiffer
<1>5. CallHolds'
  BY <1>1 DEF CallHolds, Live
<1>6. JoinerWaits'
  BY <1>1, <1>2, <1>3 DEF JoinerWaits, Of
<1>7. tooEarly' = tooEarly
  <2>1. th_id[u] = th_id[Of(call[s].h)]
    BY <1>1 DEF JoinerWaits
  <2>2. Of(call[s].h) \in Threads
    BY <1>1 DEF JoinerWaits, CallHolds, NoCall, Of, Handle
  <2>3. stage'[Of(call[s].h)] \notin Linked
    BY <1>1, <1>2, <2>1, <2>2 DEF IdsDiffer, Known, Linked, InBusiness
  <2>4. tooEarly' \in {tooEarly, tooEarly \cup ({stage'[Of(call[s].h)]} \cap Linked)}
    BY DEF JoinReturns, ReturnTrue
  <2> HIDE DEF Linked
  <2> QED
    BY <2>3, <2>4
<1> QED
  BY <1>4, <1>5, <1>6, <1>7 DEF JoinTrue

\* A thread leaves its code, and no join with it.
LEMMA LeaveJoins ==
    ASSUME TypeOK, JoinInv, NEW t \in Threads, Exit(t) \/ CancelInJoin(t)
    PROVE  JoinInv'
<1> USE DEF JoinInv, TypeOK
<1>1. /\ stage' = [stage EXCEPT ![t] = "ending"] /\ stage[t] = "runs"
      /\ UNCHANGED <<handle, call, th_id, detached, tooEarly>>
  BY DEF Exit, CancelInJoin, LeaveCode, Idle, In, objects
<1>2. \A r \in Threads : /\ Known(r)' <=> Known(r)
                         /\ r # t => stage'[r] = stage[r]
  BY <1>1 DEF Known
<1>3. \A u \in Threads : joiner'[u] = IF joiner[u] = t THEN NoThread ELSE joiner[u]
  <2>1. CASE Exit(t)
    <3>1. call[t].at # "wait" /\ joiner' = joiner
      BY <2>1 DEF Exit, Idle, NoCall
    <3> QED
      BY <3>1, NotWaiting, ThreadsAssumption
  <2>2. CASE CancelInJoin(t)
    BY <2>2 DEF CancelInJoin
  <2> QED
    BY <2>1, <2>2
<1>4. IdsDiffer'
  BY <1>1, <1>2 DEF IdsDiffer
<1>5. CallHolds'
  BY <1>1 DEF CallHolds, Live
<1>6. JoinerWaits'
  BY <1>1, <1>2, <1>3 DEF JoinerWaits, Of
<1> QED
  BY <1>1, <1>4, <1>5, <1>6 DEF JoinTrue

\* Who is joined is not detached, and remains known when it ends.
LEMMA DetachJoins ==
    ASSUME TypeOK, JoinInv, NEW t \in Threads, Detach(t) \/ End(t)
    PROVE  JoinInv'
<1> USE DEF JoinInv, TypeOK
<1>1. /\ stage[t] \in {"ending", "closed"}
      /\ stage'[t] # "runs" /\ stage'[t] # "new"
      /\ stage'[t] = "gone" => detached[t]
      /\ \A r \in Threads \ {t} : stage'[r] = stage[r] /\ detached'[r] = detached[r]
      /\ joiner[t] # NoThread /\ ~detached[t] => ~detached'[t]
      /\ UNCHANGED <<handle, call, th_id, joiner, tooEarly>>
  BY DEF Detach, End, objects
<1>2. \A r \in Threads : (Known(r)' => Known(r))
                         /\ (Known(r) /\ joiner[r] # NoThread => Known(r)')
  BY <1>1 DEF Known, JoinerWaits
<1>3. IdsDiffer'
  BY <1>1, <1>2 DEF IdsDiffer
<1>4. CallHolds'
  BY <1>1 DEF CallHolds, Live
<1>5. JoinerWaits'
  BY <1>1, <1>2 DEF JoinerWaits, Of
<1> QED
  BY <1>1, <1>3, <1>4, <1>5 DEF JoinTrue

-----------------------------------------------------------------------------
(* The inductive invariant, and the theorems.                              *)

LEMMA InitInv == Init => IInv
<1> SUFFICES ASSUME Init PROVE IInv
  OBVIOUS
<1> USE DEF Init
<1>1. Main \in Threads /\ Threads \subseteq Nat /\ NoThread \notin Threads
  BY ThreadsAssumption DEF Threads, Main
<1>2. TypeOK
  <2>1. stage \in [Threads -> Stages] /\ ready \in [Threads -> Ready]
    BY DEF Stages, Ready
  <2>2. handle \in [Handles -> Handle]
    BY <1>1 DEF Handle
  <2>3. call \in [Threads -> Call]
    BY DEF Call, NoCall
  <2> QED
    BY <2>1, <2>2, <2>3 DEF TypeOK
<1>3. NamesStarted /\ ActiveIsStack /\ Chained /\ MainStarted
  BY <1>1 DEF NamesStarted, ActiveIsStack, Chained, MainStarted, Free, Live, HasStack, Linked, InBusiness
<1>4. ReadyCounted
  <2>1. \A t \in Threads : Holders(t) = {}
    BY DEF Holders
  <2>2. \A t \in Threads : Cardinality(Holders(t)) = 0
    BY <2>1, FS_EmptySet
  <2>3. \A t \in Threads \ {Main} : ~HasStack(t) /\ ready[t].ulCounter = 0
    BY DEF HasStack, Linked, InBusiness
  <2> QED
    BY <2>2, <2>3 DEF ReadyCounted
<1>5. JoinInv
  BY <1>1 DEF JoinInv, IdsDiffer, CallHolds, JoinerWaits, JoinTrue, Known
<1> QED
  BY <1>2, <1>3, <1>4, <1>5 DEF IInv, ObjectInv

\* A step, with the functions that share a first half taken together.
LEMMA Steps ==
    ASSUME [Next]_vars
    PROVE  \/ \E s \in Threads, h \in Handles :
                  \/ \E t \in Threads : StartThread(s, t, h) \/ StartThreadFails(s, t, h)
                  \/ GetCurrentThread(s, h) \/ JoinAtOnce(s, h)
                  \/ \E op \in {"join", "stop", "kill", "getId"},
                        at \in {"join", "cancel", "read"} : Begin(s, h, op, at)
           \/ \E s \in Threads : \/ SendCancel(s) \/ Join(s) \/ JoinRefused(s) \/ ReadId(s)
                                 \/ \E u \in Threads : JoinReturns(s, u)
                                 \/ KillAllThreads(s) \/ Exit(s) \/ CancelInJoin(s)
                                 \/ Detach(s) \/ (\E h \in Handles : ClearObject(s, h))
                                 \/ UnlinkStack(s) \/ DestroyStack(s) \/ End(s)
           \/ \E h \in Handles : Finalize(h) \/ FinalizeEnd(h)
           \/ UNCHANGED vars
<1>1. ASSUME NEW s \in Threads, NEW h \in Handles,
             JoinThread(s, h) \/ StopThread(s, h) \/ KillThread(s, h) \/ GetThreadId(s, h)
      PROVE  \E op \in {"join", "stop", "kill", "getId"},
                at \in {"join", "cancel", "read"} : Begin(s, h, op, at)
  BY <1>1 DEF JoinThread, StopThread, KillThread, GetThreadId
<1> QED
  BY <1>1 DEF Next, Step

LEMMA TypesKept ==
    ASSUME IInv, [Next]_vars
    PROVE  TypeOK' /\ MainStarted'
<1> USE DEF IInv, TypeOK, MainStarted, system, objects
<1>0. Main \in Threads /\ Main # NoThread
  BY ThreadsAssumption DEF Threads, Main
<1>1. ASSUME NEW s \in Threads, NEW t \in Threads, NEW h \in Handles,
             StartThread(s, t, h) \/ StartThreadFails(s, t, h)
      PROVE  TypeOK' /\ MainStarted'
  <2>1. t # Main
    BY <1>1, NextIsNew DEF StartThread, StartThreadFails
  <2>2. th_id' \in [Threads -> Threads]
    BY <1>1 DEF StartThread, StartThreadFails, FreeIds
  <2>3. ready' \in [Threads -> Ready]
    <3>1. /\ [bActive |-> TRUE, ulCounter |-> 2] \in Ready
          /\ [bActive |-> FALSE, ulCounter |-> 1] \in Ready
      BY DEF Ready
    <3> QED
      BY <1>1, <3>1 DEF StartThread, StartThreadFails
  <2>5. handle' \in [Handles -> Handle]
    <3>1. /\ [state |-> "live", of |-> t, bReady |-> TRUE, pStack |-> t] \in Handle
          /\ [state |-> "live", of |-> t, bReady |-> FALSE, pStack |-> NoThread] \in Handle
      BY DEF Handle
    <3> QED
      BY <1>1, <3>1 DEF StartThread, StartThreadFails
  <2>4. stage' \in [Threads -> Stages] /\ pThreadID' \in [Threads -> SUBSET Handles]
    BY <1>1 DEF StartThread, StartThreadFails, Stages
  <2> QED
    BY <1>0, <1>1, <2>1, <2>2, <2>3, <2>4, <2>5 DEF StartThread, StartThreadFails
<1>2. ASSUME NEW s \in Threads, NEW h \in Handles, GetCurrentThread(s, h)
      PROVE  TypeOK' /\ MainStarted'
  <2>1. ready' \in [Threads -> Ready]
    BY SMTT(30), <1>2 DEF GetCurrentThread, Ready
  <2>2. handle' \in [Handles -> Handle] /\ pThreadID' \in [Threads -> SUBSET Handles]
    BY <1>2 DEF GetCurrentThread, Handle
  <2> QED
    BY <1>2, <2>1, <2>2 DEF GetCurrentThread
<1>3. ASSUME NEW s \in Threads, NEW h \in Handles, JoinAtOnce(s, h)
      PROVE  TypeOK' /\ MainStarted'
  BY <1>3 DEF JoinAtOnce, ReturnTrue
<1>4. ASSUME NEW s \in Threads, NEW h \in Handles,
             NEW op \in {"join", "stop", "kill", "getId"}, NEW at \in {"join", "cancel", "read"},
             Begin(s, h, op, at)
      PROVE  TypeOK' /\ MainStarted'
  BY <1>4 DEF Begin, Call
<1>5. ASSUME NEW s \in Threads, SendCancel(s) \/ Join(s) \/ JoinRefused(s)
      PROVE  TypeOK' /\ MainStarted'
  <2>1. call' \in [Threads -> Call]
    <3>1. NoCall \in Call /\ \A c \in Call : /\ [c EXCEPT !.at = "join"] \in Call
                                            /\ [c EXCEPT !.at = "wait"] \in Call
      BY DEF Call, NoCall
    <3>2. CASE SendCancel(s)
      BY <3>1, <3>2 DEF SendCancel
    <3>3. CASE Join(s)
      BY <3>1, <3>3 DEF Join
    <3>4. CASE JoinRefused(s)
      BY <3>1, <3>4 DEF JoinRefused
    <3> QED
      BY <1>5, <3>2, <3>3, <3>4
  <2>2. cancelled' \in [Threads -> BOOLEAN]
    BY <1>5 DEF SendCancel, Join, JoinRefused
  <2>3. joiner' \in [Threads -> Threads \cup {NoThread}]
    BY <1>5 DEF SendCancel, Join, JoinRefused, Named
  <2> QED
    BY <1>5, <2>1, <2>2, <2>3 DEF SendCancel, Join, JoinRefused
<1>6. ASSUME NEW s \in Threads, ReadId(s)
      PROVE  TypeOK' /\ MainStarted'
  BY <1>6 DEF ReadId, HasStack, Call, NoCall
<1>7. ASSUME NEW s \in Threads, NEW u \in Threads, JoinReturns(s, u)
      PROVE  TypeOK' /\ MainStarted'
  BY <1>7 DEF JoinReturns, ReturnTrue, Stages, Call, NoCall
<1>8. ASSUME NEW s \in Threads, KillAllThreads(s) \/ Exit(s) \/ CancelInJoin(s)
      PROVE  TypeOK' /\ MainStarted'
  <2>1. stage' \in [Threads -> Stages] /\ MainStarted'
    BY <1>0, <1>8 DEF KillAllThreads, Exit, CancelInJoin, LeaveCode, Stages
  <2>2. cancelled' \in [Threads -> BOOLEAN]
    BY <1>8 DEF KillAllThreads, Exit, CancelInJoin, LeaveCode
  <2>3. joiner' \in [Threads -> Threads \cup {NoThread}]
    BY <1>8 DEF KillAllThreads, Exit, CancelInJoin
  <2> QED
    BY <1>8, <2>1, <2>2, <2>3 DEF KillAllThreads, Exit, CancelInJoin
<1>9. ASSUME NEW t \in Threads, Detach(t) \/ End(t)
      PROVE  TypeOK' /\ MainStarted'
  <2>1. stage' \in [Threads -> Stages] /\ MainStarted'
    BY <1>0, <1>9 DEF Detach, End, Stages
  <2>2. detached' \in [Threads -> BOOLEAN]
    BY <1>9 DEF Detach, End
  <2> QED
    BY <1>9, <2>1, <2>2 DEF Detach, End
<1>10. ASSUME NEW t \in Threads, UnlinkStack(t)
       PROVE  TypeOK' /\ MainStarted'
  BY SMTT(30), <1>10 DEF UnlinkStack, Stages
<1>15. ASSUME NEW t \in Threads, NEW h \in Handles, ClearObject(t, h)
       PROVE  TypeOK' /\ MainStarted'
  <2>1. stage' \in [Threads -> Stages] /\ stage'[Main] # "new"
    BY <1>0, <1>15 DEF ClearObject, Stages
  <2>2. handle' \in [Handles -> Handle] /\ pThreadID' \in [Threads -> SUBSET Handles]
    BY <1>15 DEF ClearObject, Handle
  <2> QED
    BY <1>15, <2>1, <2>2 DEF ClearObject
<1>11. ASSUME NEW t \in Threads, DestroyStack(t)
       PROVE  TypeOK' /\ MainStarted'
  BY <1>11 DEF DestroyStack, Stages, Ready, Call, NoCall
<1>12. ASSUME NEW h \in Handles, Finalize(h)
       PROVE  TypeOK' /\ MainStarted'
  BY ZenonT(30), <1>12 DEF Finalize, Handle
<1>13. ASSUME NEW h \in Handles, FinalizeEnd(h)
       PROVE  TypeOK' /\ MainStarted'
  <2>1. ready' \in [Threads -> Ready]
    <3>1. \A r \in Ready : [r EXCEPT !.ulCounter = @ - 1] \in Ready
      BY DEF Ready
    <3>2. ready' = [ready EXCEPT ![Of(h)] = [ready[Of(h)] EXCEPT !.ulCounter = @ - 1]]
      BY <1>13 DEF FinalizeEnd
    <3>3. Of(h) \in Threads
      BY DEF Of, Handle
    <3> QED
      BY <3>1, <3>2, <3>3
  <2>2. handle' \in [Handles -> Handle]
    BY <1>0, <1>13 DEF FinalizeEnd, Handle
  <2> QED
    BY <1>13, <2>1, <2>2 DEF FinalizeEnd
<1>14. CASE UNCHANGED vars
  BY <1>14 DEF vars
<1> QED
  BY <1>1, <1>2, <1>3, <1>4, <1>5, <1>6, <1>7, <1>8, <1>9, <1>10, <1>11, <1>12, <1>13, <1>14,
     <1>15, Steps

LEMMA ObjectInvKept ==
    ASSUME IInv, [Next]_vars
    PROVE  ObjectInv'
<1> USE DEF IInv
<1>1. ASSUME UNCHANGED objects, UNCHANGED stage PROVE ObjectInv'
  BY <1>1, ObjectsKept DEF SameStacks, HasStack
<1>2. ASSUME UNCHANGED objects, NEW t \in Threads, NEW a, stage' = [stage EXCEPT ![t] = a],
             \/ stage[t] = "runs" /\ a = "ending"
             \/ stage[t] = "ending" /\ a = "closing"
             \/ stage[t] = "closed" /\ a \in {"over", "gone"}
             \/ stage[t] = "over" /\ a = "gone"
      PROVE  ObjectInv'
  <2>1. SameStacks
    BY <1>2 DEF SameStacks, HasStack, Linked, InBusiness, TypeOK
  <2> QED
    BY <1>2, <2>1, ObjectsKept
<1>3. ASSUME NEW s \in Threads, NEW h \in Handles, JoinAtOnce(s, h)
      PROVE  ObjectInv'
  BY <1>1, <1>3 DEF JoinAtOnce
<1>4. ASSUME NEW s \in Threads, NEW h \in Handles,
             NEW op \in {"join", "stop", "kill", "getId"}, NEW at \in {"join", "cancel", "read"},
             Begin(s, h, op, at)
      PROVE  ObjectInv'
  BY <1>1, <1>4 DEF Begin
<1>5. ASSUME NEW s \in Threads,
             SendCancel(s) \/ Join(s) \/ JoinRefused(s) \/ ReadId(s) \/ KillAllThreads(s)
      PROVE  ObjectInv'
  BY <1>1, <1>5 DEF SendCancel, Join, JoinRefused, ReadId, KillAllThreads
<1>6. ASSUME NEW s \in Threads, NEW u \in Threads, JoinReturns(s, u)
      PROVE  ObjectInv'
  BY <1>2, <1>6 DEF JoinReturns
<1>7. ASSUME NEW t \in Threads, Exit(t) \/ CancelInJoin(t) \/ Detach(t) \/ End(t)
      PROVE  ObjectInv'
  BY <1>2, <1>7 DEF Exit, CancelInJoin, LeaveCode, Idle, In, Detach, End
<1>8. CASE UNCHANGED vars
  BY <1>1, <1>8 DEF vars
<1> QED
  BY <1>3, <1>4, <1>5, <1>6, <1>7, <1>8, Steps, StartThreadObjects, StartThreadFailsObjects,
     GetCurrentThreadObjects, FinalizeObjects, FinalizeEndObjects, ClearObjectObjects,
     UnlinkStackObjects, DestroyStackObjects

LEMMA JoinInvKept ==
    ASSUME IInv, [Next]_vars
    PROVE  JoinInv'
<1> USE DEF IInv
<1>0. NoThread \notin Threads /\ \A s \in Threads : call[s] # NoCall => call[s].h \in Handles
  BY ThreadsAssumption DEF JoinInv, CallHolds
<1>1. ASSUME NEW s \in Threads, NEW t \in Threads, NEW h \in Handles,
             StartThreadFails(s, t, h)
      PROVE  JoinInv'
  <2>1. stage[t] = "new"
    BY <1>1, NextIsNew DEF StartThreadFails
  <2>2. SameKnown
    BY <1>1, <2>1 DEF StartThreadFails, SameKnown, Known, TypeOK
  <2>3. SameHeld
    BY <1>1 DEF StartThreadFails, SameHeld, Free, Live, Of, JoinInv, CallHolds, TypeOK
  <2> QED
    BY <1>1, <2>2, <2>3, JoinKept DEF StartThreadFails, system
<1>2. ASSUME NEW s \in Threads, NEW h \in Handles, GetCurrentThread(s, h)
      PROVE  JoinInv'
  <2>1. SameHeld
    BY <1>2 DEF GetCurrentThread, SameHeld, Free, Live, Of, JoinInv, CallHolds, TypeOK
  <2> QED
    BY <1>2, <2>1, JoinKept DEF GetCurrentThread, SameKnown, Known, system
<1>3. ASSUME NEW s \in Threads, NEW h \in Handles,
             NEW op \in {"join", "stop", "kill", "getId"}, NEW at \in {"join", "cancel", "read"},
             Begin(s, h, op, at)
      PROVE  JoinInv'
  <2>1. \A u \in Threads : joiner[u] # s
    BY <1>0, <1>3, NotWaiting DEF Begin, Idle, NoCall
  <2>2. [op |-> op, h |-> h, at |-> at] \in Call /\ Live(h)
    BY <1>3 DEF Call, Begin, IsActive
  <2>3. SameKnown /\ UNCHANGED <<handle, th_id, joiner, detached, tooEarly>>
    BY <1>3 DEF Begin, SameKnown, Known, system, objects
  <2> QED
    BY <1>3, <2>1, <2>2, <2>3, CallChanges DEF Begin
<1>4. ASSUME NEW s \in Threads, SendCancel(s)
      PROVE  JoinInv'
  <2> DEFINE c == IF call[s].op = "stop" THEN [call[s] EXCEPT !.at = "join"] ELSE NoCall
  <2>1. \A u \in Threads : joiner[u] # s
    BY <1>0, <1>4, NotWaiting DEF SendCancel, In
  <2>2. c \in Call
    BY DEF Call, NoCall, TypeOK
  <2>3. c # NoCall => c.h \in Handles /\ Live(c.h)
    BY DEF JoinInv, CallHolds, TypeOK, Call, NoCall
  <2>4. SameKnown /\ UNCHANGED <<handle, th_id, joiner, detached, tooEarly>>
        /\ call' = [call EXCEPT ![s] = c]
    BY <1>4 DEF SendCancel, SameKnown, Known, objects
  <2> HIDE DEF c
  <2> QED
    BY <2>1, <2>2, <2>3, <2>4, CallChanges
<1>5. ASSUME NEW s \in Threads, JoinRefused(s) \/ ReadId(s) \/ DestroyStack(s)
      PROVE  JoinInv'
  <2>1. \A u \in Threads : joiner[u] # s
    BY <1>0, <1>5, NotWaiting DEF JoinRefused, ReadId, DestroyStack, In
  <2>2. NoCall \in Call
    BY DEF Call, NoCall
  <2>3. SameKnown
    BY <1>5 DEF JoinRefused, ReadId, DestroyStack, SameKnown, Known, TypeOK
  <2>4. UNCHANGED <<handle, th_id, joiner, detached, tooEarly>>
        /\ call' = [call EXCEPT ![s] = NoCall]
    BY <1>5 DEF JoinRefused, ReadId, DestroyStack, system, objects
  <2> QED
    BY <2>1, <2>2, <2>3, <2>4, CallChanges
<1>6. ASSUME NEW s \in Threads, KillAllThreads(s)
      PROVE  JoinInv'
  <2>1. UNCHANGED <<stage, call, handle, th_id, joiner, detached, tooEarly>>
    BY <1>6 DEF KillAllThreads, objects
  <2>2. SameKnown /\ SameHeld
    BY <2>1 DEF SameKnown, SameHeld, Known, Live, Of, JoinInv, CallHolds
  <2> QED
    BY <2>1, <2>2, JoinKept
<1>7. ASSUME NEW t \in Threads, UnlinkStack(t)
      PROVE  JoinInv'
  <2>1. SameKnown
    BY <1>7 DEF UnlinkStack, AtChain, SameKnown, Known, TypeOK
  <2>2. SameHeld
    BY <1>7 DEF UnlinkStack, objects, SameHeld, Live, Of, JoinInv, CallHolds
  <2> QED
    BY <1>7, <2>1, <2>2, JoinKept DEF UnlinkStack, system
<1>10. ASSUME NEW t \in Threads, NEW h \in Handles, ClearObject(t, h)
      PROVE  JoinInv'
  <2>1. SameKnown
    BY <1>10 DEF ClearObject, AtChain, SameKnown, Known, TypeOK
  <2>2. SameHeld
    BY <1>0, <1>10 DEF ClearObject, SameHeld, Live, Of, JoinInv, CallHolds, TypeOK, Handle
  <2> QED
    BY <1>10, <2>1, <2>2, JoinKept DEF ClearObject, system
<1>8. ASSUME NEW h \in Handles, Finalize(h) \/ FinalizeEnd(h)
      PROVE  JoinInv'
  <2>1. \A s \in Threads : call[s] # NoCall => call[s].h # h
    BY <1>8 DEF Finalize, FinalizeEnd, JoinInv, CallHolds, Live
  <2>2. call' = call /\ \A g \in Handles \ {h} : handle'[g] = handle[g]
    BY <1>8 DEF Finalize, FinalizeEnd, TypeOK
  <2>3. SameHeld
    BY <1>0, <2>1, <2>2 DEF SameHeld, Live, Of, JoinInv, CallHolds
  <2> QED
    BY <1>8, <2>3, JoinKept DEF Finalize, FinalizeEnd, SameKnown, Known, system
<1>9. CASE UNCHANGED vars
  <2>1. UNCHANGED <<stage, call, handle, th_id, joiner, detached, tooEarly>>
    BY <1>9 DEF vars, system, objects
  <2>2. SameKnown /\ SameHeld
    BY <2>1 DEF SameKnown, SameHeld, Known, Live, Of, JoinInv, CallHolds
  <2> QED
    BY <2>1, <2>2, JoinKept
<1> QED
  BY <1>1, <1>2, <1>3, <1>4, <1>5, <1>6, <1>7, <1>8, <1>9, <1>10, Steps, StartThreadJoins,
     JoinAtOnceJoins, JoinJoins, JoinReturnsJoins, LeaveJoins, DetachJoins

\* IInv holds always.
THEOREM Invariance == Spec => []IInv
<1>1. IInv /\ [Next]_vars => IInv'
  BY TypesKept, ObjectInvKept, JoinInvKept DEF IInv
<1> QED
  BY <1>1, InitInv, PTL DEF Spec

\* The variables have the values that ThreadLife says.
THEOREM TypeCorrect == Spec => []TypeOK
<1>1. IInv => TypeOK
  BY DEF IInv
<1> QED
  BY <1>1, Invariance, PTL

\* A thread's record counts its stack and its objects, in whichever order
\* hb_threadDestroyStack and hb_threadThreadIdFinalize come.
THEOREM RecordIsCounted == Spec => []ReadyCounted
<1>1. IInv => ReadyCounted
  BY DEF IInv, ObjectInv
<1> QED
  BY <1>1, Invariance, PTL

\* No object points to a stack that hb_threadTerminator has freed.
THEOREM ObjectsAreChained == Spec => []HandlesChained
<1>1. IInv => HandlesChained
  BY DEF IInv, ObjectInv, Chained, HandlesChained, HasStack
<1> QED
  BY <1>1, Invariance, PTL

\* JoinThread returns .T. only when the thread has left its code and given back
\* its mutexes, though not always when its stack is out of hb_ht_stack.
THEOREM JoinTellsTruth == Spec => []JoinTrue
<1>1. IInv => JoinTrue
  BY DEF IInv, JoinInv
<1> QED
  BY <1>1, Invariance, PTL
=============================================================================
