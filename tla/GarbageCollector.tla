-------------------------- MODULE GarbageCollector --------------------------
(***************************************************************************)
(* The two ways xHarbour frees an array or an object: the count of its     *)
(* holders falls to zero (hb_itemClear, hb_arrayReleaseBase), or the       *)
(* collector finds that nobody reaches it (hb_gcCollectAll and             *)
(* hb_arrayReleaseGarbage of garbage.c).  Both call the destructor of an   *)
(* object, which is code of the program and may release other blocks in    *)
(* the middle of a collection.                                             *)
(*                                                                         *)
(* One thread runs, for the collector is an idle inspector (module         *)
(* RunningStacks).  "frames" is its C stack: the calls of                  *)
(* hb_arrayReleaseBase, hb_arrayReleaseGarbage and hb_gcCollectAll that    *)
(* are open.  Code of the program runs when there is none, or the last one *)
(* is in a destructor.                                                     *)
(*                                                                         *)
(* A block holds another one in at most one item, and so do the variables. *)
(* While hb_itemClear releases a block the item it clears is still there;  *)
(* here it is gone, for the destructor has the block as Self.  The class   *)
(* of an object in Objects names its destructor by a symbol, and           *)
(* destructors are allowed, as they are until the VM ends.                 *)
(***************************************************************************)
EXTENDS Integers, Sequences, FiniteSets

CONSTANTS
    Blocks,    \* the addresses hb_gcAlloc returns; a freed one is reused
    Objects,   \* those of objects whose class has a destructor
    Cases,     \* the hard cases the program is allowed to meet
    LongMax,   \* the holders of an object that hb_arrayReleaseBase finalizes
    MaxHolders \* bound of TLC: the program adds no holder to that many

AllCases == {"sweepAlloc",     \* a block allocated in a collection outlives it
             "keep",           \* a destructor stores a block that is doomed
             "nestedCollect",  \* a destructor collects (threads only)
             "lock"}           \* hb_gcLock and hb_gcUnlock are used

ASSUME BlocksAssumption == IsFiniteSet(Blocks) /\ Objects \subseteq Blocks
ASSUME CasesAssumption  == Cases \subseteq AllCases
ASSUME CountAssumption  == LongMax \in Nat /\ MaxHolders \in Nat
                           /\ LongMax > MaxHolders + Cardinality(Blocks)

VARIABLES
    list,           \* the blocks, from s_pCurrBlock on, in a circle
    locked,         \* the blocks of s_pLockedBlock
    s_uUsedFlag,    \* what "used" of a block is when it is not marked
    s_bCollecting,  \* no collection is to begin
    used,           \* HB_GARBAGE.used, the bit HB_GC_USED_FLAG
    deleted,        \* HB_GARBAGE.used, the bit HB_GC_DELETE
    ulHolders,      \* HB_BASEARRAY.ulHolders
    uiFlags,        \* HB_BASEARRAY.uiFlags: 1 finalized, 3 released
    pItems,         \* the blocks in the items of a block
    roots,          \* the blocks in variables
    frames          \* the open calls, the last one last

heap == <<ulHolders, uiFlags, pItems>>
gc == <<s_uUsedFlag, used, deleted>>
vars == <<list, locked, s_uUsedFlag, s_bCollecting, used, deleted,
          ulHolders, uiFlags, pItems, roots, frames>>

Listed == {list[i] : i \in 1..Len(list)}
Allocated == Listed \cup locked

-----------------------------------------------------------------------------
(* The stack of calls.                                                     *)

Top == frames[Len(frames)]
Below == SubSeq(frames, 1, Len(frames) - 1)
TopIs(kind, phase) == frames # <<>> /\ Top.kind = kind /\ Top.phase = phase

Phase(phase) == Append(Below, [Top EXCEPT !.phase = phase])

\* A call of hb_arrayReleaseBase ("base") or hb_arrayReleaseGarbage
\* ("garbage"), with what hb_clsFinalize has to put back in s_bCollecting.
Call(kind, b, phase) == [kind |-> kind, block |-> b, phase |-> phase,
                         saved |-> s_bCollecting, doomed |-> {}]

\* A call of hb_gcCollectAll, that began with a block and found some doomed.
Collection(start, unreached) ==
    [kind |-> "collect", block |-> start, phase |-> "cleanup",
     saved |-> s_bCollecting, doomed |-> unreached]

InDestructor == frames # <<>> /\ Top.phase = "destructor"
ProgramRuns == frames = <<>> \/ InDestructor

\* The Self of each destructor that runs: an item of the VM stack.
Selves == {frames[i].block : i \in {j \in 1..Len(frames) :
                                        frames[j].phase = "destructor"}}
Released == {frames[i].block : i \in {j \in 1..Len(frames) :
                                          frames[j].kind = "base"}}
Collections == {i \in 1..Len(frames) : frames[i].kind = "collect"}
Doomed == UNION {frames[i].doomed : i \in Collections}

-----------------------------------------------------------------------------
(* Who reaches whom.                                                       *)

\* The blocks of "within" that "from" reaches without leaving "within".
Reached(from, within) ==
    {b \in within : \A C \in SUBSET within :
        /\ from \cap within \subseteq C
        /\ \A a \in C : pItems[a] \cap within \subseteq C
        => b \in C}

\* What the program can name at the moment.
Visible == Reached(roots \cup (IF InDestructor THEN {Top.block} ELSE {}),
                   Allocated)

\* A destructor stores no block that is doomed where it outlives it.
MayStore(into, b) == \/ "keep" \in Cases
                     \/ /\ b \in Doomed => into \subseteq Doomed /\ into # {}
                        /\ b \in Released => into = {b}

-----------------------------------------------------------------------------
(* Lists and counts.                                                       *)

\* hb_gcUnlink of a block of the circle.
Unlink(b) == LET i == CHOOSE j \in 1..Len(list) : list[j] = b
             IN SubSeq(list, 1, i - 1) \o SubSeq(list, i + 1, Len(list))

\* hb_xfree of the items, and of the block itself.
FreeItems(b) == pItems' = [pItems EXCEPT ![b] = {}]

FreeBlock(b) ==
    /\ FreeItems(b)
    /\ ulHolders' = [ulHolders EXCEPT ![b] = 0]
    /\ uiFlags' = [uiFlags EXCEPT ![b] = 0]
    /\ used' = [used EXCEPT ![b] = FALSE]

\* hb_itemClear of an item that holds b: the last holder releases it, unless
\* that was done before.
ClearItem(b) ==
    /\ ulHolders[b] > 0
    /\ IF ulHolders[b] = 1 /\ uiFlags[b] = 0
       THEN IF b \in Objects
            THEN /\ uiFlags' = [uiFlags EXCEPT ![b] = 1]
                 /\ ulHolders' = [ulHolders EXCEPT ![b] = LongMax + 1]
                 /\ frames' = Append(frames, Call("base", b, "destructor"))
                 /\ s_bCollecting' = TRUE
            ELSE /\ uiFlags' = [uiFlags EXCEPT ![b] = 3]
                 /\ ulHolders' = [ulHolders EXCEPT ![b] = 0]
                 /\ frames' = Append(frames, Call("base", b, "items"))
                 /\ UNCHANGED s_bCollecting
       ELSE /\ ulHolders' = [ulHolders EXCEPT ![b] = @ - 1]
            /\ UNCHANGED <<uiFlags, s_bCollecting, frames>>

-----------------------------------------------------------------------------
Init == /\ list = <<>> /\ locked = {}
        /\ s_uUsedFlag = TRUE /\ s_bCollecting = FALSE
        /\ used = [b \in Blocks |-> FALSE] /\ deleted = {}
        /\ ulHolders = [b \in Blocks |-> 0]
        /\ uiFlags = [b \in Blocks |-> 0]
        /\ pItems = [b \in Blocks |-> {}]
        /\ roots = {}
        /\ frames = <<>>

-----------------------------------------------------------------------------
(* The program.                                                            *)

\* hb_arrayNew, into a variable.  A destructor that runs in a collection
\* allocates too; what it frees again leaves the list as it was.
New(b) ==
    /\ ProgramRuns
    /\ b \notin Allocated
    /\ Collections # {} => "sweepAlloc" \in Cases
    /\ list' = Append(list, b)
    /\ used' = [used EXCEPT ![b] = s_uUsedFlag]
    /\ ulHolders' = [ulHolders EXCEPT ![b] = 1]
    /\ uiFlags' = [uiFlags EXCEPT ![b] = 0]
    /\ roots' = roots \cup {b}
    /\ UNCHANGED <<locked, s_uUsedFlag, s_bCollecting, deleted, pItems, frames>>

\* Mutant: hb_itemForwardValue where hb_itemCopy is due.
GetForwards(b) ==
    /\ ProgramRuns
    /\ b \in Visible \ roots
    /\ MayStore({}, b) /\ ulHolders[b] < MaxHolders
    /\ roots' = roots \cup {b}
    /\ UNCHANGED <<list, locked, gc, heap, s_bCollecting, frames>>

\* hb_itemCopy into an empty variable; one that is not is cleared first (Drop),
\* and the source is an item of the VM stack, that no destructor clears.
Get(b) ==
    /\ ProgramRuns
    /\ b \in Visible \ roots
    /\ MayStore({}, b) /\ ulHolders[b] < MaxHolders
    /\ roots' = roots \cup {b}
    /\ ulHolders' = [ulHolders EXCEPT ![b] = @ + 1]
    /\ UNCHANGED <<list, locked, gc, s_bCollecting, uiFlags, pItems, frames>>

\* hb_itemCopy into an item of the block a, which has its items.
Store(a, b) ==
    /\ ProgramRuns
    /\ a \in Visible /\ uiFlags[a] # 3
    /\ b \in Visible \ pItems[a]
    /\ MayStore({a}, b) /\ (ulHolders[b] < MaxHolders \/ b \in Released)
    /\ pItems' = [pItems EXCEPT ![a] = @ \cup {b}]
    /\ ulHolders' = [ulHolders EXCEPT ![b] = @ + 1]
    /\ UNCHANGED <<list, locked, gc, s_bCollecting, uiFlags, roots, frames>>

\* A variable is cleared, or an item of a block.
Drop(b) ==
    /\ ProgramRuns
    /\ b \in roots
    /\ roots' = roots \ {b}
    /\ ClearItem(b)
    /\ UNCHANGED <<list, locked, gc, pItems>>

Remove(a, b) ==
    /\ ProgramRuns
    /\ a \in Visible /\ b \in pItems[a]
    /\ pItems' = [pItems EXCEPT ![a] = @ \ {b}]
    /\ ClearItem(b)
    /\ UNCHANGED <<list, locked, gc, roots>>

\* hb_gcLock of a block that a C function got in an item.  The count of the
\* locks is one at most, and only code outside of destructors locks.
Lock(b) ==
    /\ "lock" \in Cases /\ frames = <<>>
    /\ b \in roots \cap Listed
    /\ list' = Unlink(b)
    /\ locked' = locked \cup {b}
    /\ used' = [used EXCEPT ![b] = s_uUsedFlag]
    /\ UNCHANGED <<s_uUsedFlag, s_bCollecting, deleted, heap, roots, frames>>

Unlock(b) ==
    /\ frames = <<>>
    /\ b \in locked
    /\ locked' = locked \ {b}
    /\ list' = Append(list, b)
    /\ used' = [used EXCEPT ![b] = s_uUsedFlag]
    /\ UNCHANGED <<s_uUsedFlag, s_bCollecting, deleted, heap, roots, frames>>

-----------------------------------------------------------------------------
(* hb_arrayReleaseBase and hb_arrayReleaseGarbage.                         *)

\* The destructor returns.  hb_arrayReleaseBase goes on with the items;
\* hb_arrayReleaseGarbage frees them at once and does not clear them.
EndDestructor ==
    /\ InDestructor
    /\ LET b == Top.block IN
       /\ s_bCollecting' = Top.saved
       /\ uiFlags' = [uiFlags EXCEPT ![b] = 3]
       /\ IF Top.kind = "base"
          THEN /\ ulHolders' = [ulHolders EXCEPT ![b] = 0]
               /\ frames' = Phase("items")
               /\ UNCHANGED pItems
          ELSE /\ ulHolders' = [ulHolders EXCEPT ![b] = @ - 1]
               /\ frames' = Below
               /\ FreeItems(b)
    /\ UNCHANGED <<list, locked, gc, roots>>

\* Mutant: the item that holds the block itself is never passed.
ReleaseItemCyclic(b) ==
    /\ TopIs("base", "items")
    /\ b \in pItems[Top.block]
    /\ IF b = Top.block
       THEN UNCHANGED <<heap, frames, s_bCollecting>>
       ELSE /\ pItems' = [pItems EXCEPT ![Top.block] = @ \ {b}]
            /\ ClearItem(b)
    /\ UNCHANGED <<list, locked, gc, roots>>

\* hb_arrayReleaseBase clears an item, but for one that holds the block.
ReleaseItem(b) ==
    /\ TopIs("base", "items")
    /\ b \in pItems[Top.block]
    /\ pItems' = [pItems EXCEPT ![Top.block] = @ \ {b}]
    /\ IF b = Top.block
       THEN UNCHANGED <<ulHolders, uiFlags, frames, s_bCollecting>>
       ELSE ClearItem(b)
    /\ UNCHANGED <<list, locked, gc, roots>>

\* hb_gcFree: a block that the collection will free stays in the list.
Free ==
    /\ TopIs("base", "items")
    /\ pItems[Top.block] = {}
    /\ frames' = Below
    /\ IF Top.block \in deleted
       THEN UNCHANGED <<list, locked, used, heap>>
       ELSE /\ list' = IF Top.block \in locked THEN list ELSE Unlink(Top.block)
            /\ locked' = locked \ {Top.block}
            /\ FreeBlock(Top.block)
    /\ UNCHANGED <<s_uUsedFlag, deleted, s_bCollecting, roots>>

-----------------------------------------------------------------------------
(* hb_gcCollectAll.                                                        *)

\* The blocks hb_gcItemRef has not seen in this collection.
Unmarked == {b \in Allocated : used[b] = s_uUsedFlag /\ b \notin deleted}

\* Mutant: the scan of the locked blocks is missing.
CollectBlind ==
    LET from == roots \cup Selves IN
    /\ ProgramRuns
    /\ s_bCollecting => "nestedCollect" \in Cases
    /\ list # <<>>
    /\ used' = [b \in Blocks |-> IF b \in Reached(from, Unmarked)
                                 THEN ~used[b] ELSE used[b]]
    /\ frames' = Append(frames,
                        Collection(Head(list), Allocated \ Reached(from, Allocated)))
    /\ s_bCollecting' = TRUE
    /\ UNCHANGED <<list, locked, s_uUsedFlag, deleted, heap, roots>>

\* The mark: variables, the VM stack, and the locked blocks.
Collect ==
    LET from == roots \cup Selves \cup locked IN
    /\ ProgramRuns
    /\ s_bCollecting => "nestedCollect" \in Cases
    /\ list # <<>>
    /\ used' = [b \in Blocks |-> IF b \in Reached(from, Unmarked)
                                 THEN ~used[b] ELSE used[b]]
    /\ frames' = Append(frames,
                        Collection(Head(list), Allocated \ Reached(from, Allocated)))
    /\ s_bCollecting' = TRUE
    /\ UNCHANGED <<list, locked, s_uUsedFlag, deleted, heap, roots>>

\* s_pCurrBlock = s_pCurrBlock->pNext, until it is the first block again.
Rotated == Append(Tail(list), Head(list))
\* Mutant: the cleanup scan stops before the last block.
NextPhaseEarly ==
    IF Head(Append(Tail(Rotated), Head(Rotated))) = Top.block
    THEN "release" ELSE "cleanup"

NextPhase == IF Head(Rotated) = Top.block THEN "release" ELSE "cleanup"

\* Mutant: the cleanup function is not called.
CleanupSilent ==
    LET b == Head(list) IN
    /\ TopIs("collect", "cleanup")
    /\ deleted' = IF b \in Unmarked THEN deleted \cup {b} ELSE deleted
    /\ list' = Rotated
    /\ frames' = Phase(NextPhase)
    /\ UNCHANGED <<locked, s_uUsedFlag, s_bCollecting, used, heap, roots>>

\* The cleanup scan calls hb_arrayReleaseGarbage for a block that was not
\* marked; a destructor is called and the scan goes on when it returned.
Cleanup ==
    LET b == Head(list) IN
    /\ TopIs("collect", "cleanup")
    /\ IF b \in Unmarked
       THEN /\ deleted' = deleted \cup {b}
            /\ IF b \in Objects /\ uiFlags[b] = 0
               THEN /\ uiFlags' = [uiFlags EXCEPT ![b] = 1]
                    /\ ulHolders' = [ulHolders EXCEPT ![b] = @ + 1]
                    /\ frames' = Append(Phase("advance"),
                                        Call("garbage", b, "destructor"))
                    /\ UNCHANGED <<list, pItems>>
               ELSE /\ uiFlags' = [uiFlags EXCEPT ![b] = 3]
                    /\ IF uiFlags[b] = 0 THEN FreeItems(b) ELSE UNCHANGED pItems
                    /\ list' = Rotated
                    /\ frames' = Phase(NextPhase)
                    /\ UNCHANGED ulHolders
       ELSE /\ list' = Rotated
            /\ frames' = Phase(NextPhase)
            /\ UNCHANGED <<deleted, heap>>
    /\ UNCHANGED <<locked, s_uUsedFlag, s_bCollecting, used, roots>>

Advance ==
    /\ TopIs("collect", "advance")
    /\ list' = Rotated
    /\ frames' = Phase(NextPhase)
    /\ UNCHANGED <<locked, gc, s_bCollecting, heap, roots>>

\* The release scan frees one block after the other.
ReleaseBlock(b) ==
    /\ TopIs("collect", "release")
    /\ \E i \in 1..Len(list) :
          /\ list[i] = b /\ b \in deleted
          /\ \A j \in 1..i - 1 : list[j] \notin deleted
    /\ list' = Unlink(b)
    /\ FreeBlock(b)
    /\ deleted' = deleted \ {b}
    /\ UNCHANGED <<locked, s_uUsedFlag, s_bCollecting, roots, frames>>

\* Mutant: the flag is not flipped.
ReleaseUnflipped ==
    /\ TopIs("collect", "release")
    /\ deleted = {}
    /\ s_bCollecting' = FALSE
    /\ frames' = Below
    /\ UNCHANGED <<list, locked, gc, heap, roots>>

\* After the release scan the meaning of the flag changes.
Release ==
    /\ TopIs("collect", "release")
    /\ deleted = {}
    /\ s_uUsedFlag' = ~s_uUsedFlag
    /\ s_bCollecting' = FALSE
    /\ frames' = Below
    /\ UNCHANGED <<list, locked, used, deleted, heap, roots>>

-----------------------------------------------------------------------------
Next == \/ \E b \in Blocks : New(b) \/ Get(b) \/ Drop(b) \/ Lock(b) \/ Unlock(b)
        \/ \E a, b \in Blocks : Store(a, b) \/ Remove(a, b)
        \/ EndDestructor \/ Free
        \/ \E b \in Blocks : ReleaseItem(b) \/ ReleaseBlock(b)
        \/ Collect \/ Cleanup \/ Advance \/ Release

Spec == Init /\ [][Next]_vars

\* A destructor returns, and the C code goes on.
FairSpec == /\ Spec
            /\ WF_vars(EndDestructor) /\ WF_vars(Free)
            /\ WF_vars(\E b \in Blocks : ReleaseItem(b))
            /\ WF_vars(Cleanup) /\ WF_vars(Advance)
            /\ WF_vars(\E b \in Blocks : ReleaseBlock(b)) /\ WF_vars(Release)

-----------------------------------------------------------------------------
(* Properties.                                                             *)

Frames == [kind : {"base", "garbage", "collect"}, block : Blocks,
           phase : {"destructor", "items", "cleanup", "advance", "release"},
           saved : BOOLEAN, doomed : SUBSET Blocks]

\* The variables have their types.
TypeOK == /\ list \in Seq(Blocks) /\ locked \subseteq Blocks
          /\ s_uUsedFlag \in BOOLEAN /\ s_bCollecting \in BOOLEAN
          /\ used \in [Blocks -> BOOLEAN] /\ deleted \subseteq Blocks
          /\ ulHolders \in [Blocks -> Nat]
          /\ uiFlags \in [Blocks -> {0, 1, 3}]
          /\ pItems \in [Blocks -> SUBSET Blocks]
          /\ roots \subseteq Blocks
          /\ frames \in Seq(Frames)

\* Nobody holds a block that was freed: no variable, no item of a block that
\* still has its items, no Self.
NoDangling == /\ roots \cup Selves \subseteq Allocated
              /\ \A a \in Allocated : pItems[a] \subseteq Allocated

\* A block that was not released has at least as many holders as there are
\* variables and items that hold it: none of them clears it too early.
HoldersCounted ==
    \A b \in Allocated : uiFlags[b] = 0 =>
        ulHolders[b] >= Cardinality({a \in Allocated : b \in pItems[a]})
                        + Cardinality({b} \cap roots)

\* Between two collections all blocks are "unused", by the same flag.
SameFlag == Collections = {} =>
                \A b \in Allocated : used[b] = s_uUsedFlag /\ b \notin deleted

\* An object is freed when its destructor has returned, and no sooner.
FinalizedFirst == [][\A b \in Objects : b \in Allocated \ Allocated'
                                        => uiFlags[b] = 3]_vars

\* A collection frees every block that nobody reached when it began.
CollectsAll == [][\A i \in Collections : Len(frames') < i =>
                      frames[i].doomed \cap Allocated' = {}]_vars

\* A collection comes to its end, unless the block at which the cleanup scan
\* is to stop leaves the list before the scan is there: a destructor that the
\* scan called freed it.  Only a block that was reached can go so: one that was
\* not is marked for deletion first and stays until the release scan, that
\* takes a new block to stop at when it frees the first one.
StartListed == \A i \in Collections :
                  frames[i].phase # "release" => frames[i].block \in Listed
CollectEnds == Collections # {} ~> (Collections = {} \/ ~StartListed)

-----------------------------------------------------------------------------
(* What the documents promise and the code does not keep: TLC refutes each *)
(* of these, with the constants that README.md names.                      *)

\* A block that C code has locked is not released.
LockedStays == \A b \in locked : uiFlags[b] = 0

\* A collection comes to its end.
CollectReturns == Collections # {} ~> Collections = {}

\* A destructor finds the items of what its object holds.
DestructorSeesItems ==
    InDestructor => \A b \in pItems[Top.block] \ Released : uiFlags[b] # 3
=============================================================================
