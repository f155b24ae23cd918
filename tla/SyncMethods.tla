---------------------------- MODULE SyncMethods ----------------------------
(***************************************************************************)
(* SYNC methods: hb_vmSend puts the class of the object in a list of the   *)
(* thread (HB_VM_STACK.pSyncId) and locks the mutex of the class the first *)
(* time, and takes it out again when the method returns; Subscribe unlocks *)
(* the mutexes of the list while it waits.  A mutex behaves as module      *)
(* ReentrantLock says; a class that only inherits its SYNC methods has     *)
(* none.                                                                   *)
(***************************************************************************)
EXTENDS Integers, Sequences, FiniteSets

CONSTANTS
    Threads,
    NoThread,
    Classes,    \* class handles, numbers: the list is sorted by them
    Uses,       \* the classes whose SYNC methods each thread sends to
    Inherited,  \* the classes whose SYNC methods are all inherited
    MaxDepth    \* bound of TLC: nested sends of a thread

ASSUME ThreadsAssumption == NoThread \notin Threads
ASSUME ClassesAssumption == Classes \subseteq Nat /\ Inherited \subseteq Classes
ASSUME UsesAssumption    == Uses \in [Threads -> SUBSET Classes]
ASSUME DepthAssumption   == MaxDepth \in Nat

VARIABLES
    entries,     \* the classes in the list of each thread
    ulCount,     \* the ulCount of each entry
    calls,       \* the SYNC methods each thread is in, the last one last
    pc,          \* where a thread is
    relock,      \* the classes hb_clsRemutexSync has still to lock
    locker,      \* pMtxSync of each class: its owner
    lock_count   \* and how often it has it

vars == <<entries, ulCount, calls, pc, relock, locker, lock_count>>

Places == {"exec",      \* runs
           "locking",   \* in hb_clsPutSyncID, waits for the mutex
           "waiting",   \* in Subscribe
           "relock"}    \* in hb_clsRemutexSync

\* The class of the method a thread is in.
Top(t) == calls[t][Len(calls[t])]

Init == /\ entries = [t \in Threads |-> {}]
        /\ ulCount = [t \in Threads |-> [c \in Classes |-> 0]]
        /\ calls = [t \in Threads |-> <<>>]
        /\ pc = [t \in Threads |-> "exec"]
        /\ relock = [t \in Threads |-> {}]
        /\ locker = [c \in Classes |-> NoThread]
        /\ lock_count = [c \in Classes |-> 0]

-----------------------------------------------------------------------------
(* The mutex of a class.                                                   *)

CanLock(t, c) == c \in Inherited \/ locker[c] \in {NoThread, t}

MutexLock(t, c) ==
    IF c \in Inherited
    THEN UNCHANGED <<locker, lock_count>>
    ELSE /\ locker' = [locker EXCEPT ![c] = t]
         /\ lock_count' = [lock_count EXCEPT ![c] = @ + 1]

\* The mutexes of a set of classes, as far as the thread has them.
MutexUnlock(t, S) ==
    LET mine == {c \in S : locker[c] = t}
    IN /\ lock_count' = [c \in Classes |-> IF c \in mine THEN lock_count[c] - 1
                                                          ELSE lock_count[c]]
       /\ locker' = [c \in Classes |-> IF c \in mine /\ lock_count[c] = 1
                                        THEN NoThread ELSE locker[c]]

-----------------------------------------------------------------------------
(* The list.                                                               *)

\* The first entry: the list is sorted.
First(t) == CHOOSE c \in entries[t] : \A d \in entries[t] : c <= d

\* hb_clsPutSyncID: the first send to a class locks its mutex.
PutSyncID(t, c) ==
    /\ pc[t] = "exec" /\ c \in Uses[t] /\ Len(calls[t]) < MaxDepth
    /\ entries' = [entries EXCEPT ![t] = @ \cup {c}]
    /\ ulCount' = [ulCount EXCEPT ![t][c] = @ + 1]
    /\ calls' = [calls EXCEPT ![t] = Append(@, c)]
    /\ IF ulCount[t][c] > 0
       THEN UNCHANGED <<pc, locker, lock_count>>
       ELSE IF CanLock(t, c)
            THEN MutexLock(t, c) /\ UNCHANGED pc
            ELSE /\ pc' = [pc EXCEPT ![t] = "locking"]
                 /\ UNCHANGED <<locker, lock_count>>
    /\ UNCHANGED relock

\* The mutex it waits for is free.
Locked(t) ==
    /\ pc[t] = "locking" /\ CanLock(t, Top(t))
    /\ MutexLock(t, Top(t))
    /\ pc' = [pc EXCEPT ![t] = "exec"]
    /\ UNCHANGED <<entries, ulCount, calls, relock>>

\* Mutant: the entry keeps its count.
DelSyncIDKeeps(t) ==
    /\ pc[t] = "exec" /\ calls[t] # <<>>
    /\ MutexUnlock(t, {c \in {Top(t)} : ulCount[t][First(t)] = 1})
    /\ calls' = [calls EXCEPT ![t] = SubSeq(@, 1, Len(@) - 1)]
    /\ UNCHANGED <<entries, ulCount, pc, relock>>

\* hb_clsDelSyncID: the loop that looks for the class never goes past the
\* first entry, for it ends as soon as the length of the list is not less
\* than the position.
DelSyncID(t) ==
    LET first == First(t)
        left  == IF first = Top(t) /\ ulCount[t][first] > 0
                 THEN ulCount[t][first] - 1 ELSE ulCount[t][first]
    IN /\ pc[t] = "exec" /\ calls[t] # <<>>
       /\ ulCount' = [ulCount EXCEPT ![t][first] = left]
       /\ MutexUnlock(t, {c \in {Top(t)} : left = 0})
       /\ calls' = [calls EXCEPT ![t] = SubSeq(@, 1, Len(@) - 1)]
       /\ UNCHANGED <<entries, pc, relock>>

-----------------------------------------------------------------------------
(* Subscribe.                                                              *)

Listed(t) == {c \in entries[t] : ulCount[t][c] > 0}

\* hb_clsUnmutexSync, and the wait.
UnmutexSync(t) ==
    /\ pc[t] = "exec"
    /\ MutexUnlock(t, Listed(t))
    /\ pc' = [pc EXCEPT ![t] = "waiting"]
    /\ UNCHANGED <<entries, ulCount, calls, relock>>

\* Mutant: the mutexes are not locked again.
RemutexSyncNone(t) ==
    /\ pc[t] = "waiting"
    /\ pc' = [pc EXCEPT ![t] = "relock"]
    /\ UNCHANGED <<entries, ulCount, calls, relock, locker, lock_count>>

\* The wait is over: hb_clsRemutexSync begins.
RemutexSync(t) ==
    /\ pc[t] = "waiting"
    /\ relock' = [relock EXCEPT ![t] = Listed(t)]
    /\ pc' = [pc EXCEPT ![t] = "relock"]
    /\ UNCHANGED <<entries, ulCount, calls, locker, lock_count>>

\* It locks one after the other, in the order of the list.
Relock(t) ==
    \/ \E c \in relock[t] :
           /\ pc[t] = "relock"
           /\ \A d \in relock[t] : c <= d
           /\ CanLock(t, c)
           /\ MutexLock(t, c)
           /\ relock' = [relock EXCEPT ![t] = @ \ {c}]
           /\ UNCHANGED <<entries, ulCount, calls, pc>>
    \/ /\ pc[t] = "relock" /\ relock[t] = {}
       /\ pc' = [pc EXCEPT ![t] = "exec"]
       /\ UNCHANGED <<entries, ulCount, calls, relock, locker, lock_count>>

-----------------------------------------------------------------------------
Next == \E t \in Threads :
            \/ \E c \in Classes : PutSyncID(t, c)
            \/ Locked(t) \/ DelSyncID(t)
            \/ UnmutexSync(t) \/ RemutexSync(t) \/ Relock(t)

Spec == Init /\ [][Next]_vars

-----------------------------------------------------------------------------
(* Properties.                                                             *)

\* The variables have their types.
TypeOK == /\ entries \in [Threads -> SUBSET Classes]
          /\ ulCount \in [Threads -> [Classes -> Nat]]
          /\ calls \in [Threads -> Seq(Classes)]
          /\ pc \in [Threads -> Places]
          /\ relock \in [Threads -> SUBSET Classes]
          /\ locker \in [Classes -> Threads \cup {NoThread}]
          /\ lock_count \in [Classes -> Nat]

\* What the list is right for: a thread sends to the SYNC methods of one
\* class, that defines them itself.
Disciplined == /\ \A t \in Threads : \A c, d \in Uses[t] : c = d
               /\ Inherited = {}

\* t executes a SYNC method of class c.
Executes(t, c) == pc[t] = "exec" /\ \E i \in 1..Len(calls[t]) : calls[t][i] = c

\* Two threads do not execute SYNC methods of a class at the same time, but
\* for those that wait in Subscribe.
SyncExclusive == \A c \in Classes : \A t, u \in Threads :
                     Executes(t, c) /\ Executes(u, c) => t = u

\* A thread that is in no SYNC method, and a thread that waits in Subscribe,
\* has the mutex of no class.
Released == \A t \in Threads :
                calls[t] = <<>> \/ pc[t] = "waiting"
                => \A c \in Classes : locker[c] # t

\* The list says how many SYNC methods of each class a thread is in.
ListBalanced == \A t \in Threads : \A c \in Classes :
    ulCount[t][c] = Cardinality({i \in 1..Len(calls[t]) : calls[t][i] = c})
=============================================================================
