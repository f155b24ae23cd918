----------------------- MODULE GarbageCollector_proofs -----------------------
(***************************************************************************)
(* Proofs of GarbageCollector, for any set of blocks and of objects with   *)
(* destructors, however they are linked.                                   *)
(*                                                                         *)
(* The invariant has three parts.  Stack says what the open calls may be:  *)
(* one collection at most, below all others.  Heap says what they mean for *)
(* the blocks: who is being released has no holder, and who is not has its *)
(* holders counted.  Sweep says what the collection under way has found:   *)
(* nothing that it spares leads to what it dooms, and the scan leaves none *)
(* out.                                                                    *)
(***************************************************************************)
EXTENDS GarbageCollector, FiniteSetTheorems, SequenceTheorems, TLAPS

\* What the theorems leave out: a destructor that allocates what outlives the
\* sweep, that keeps what is doomed, or that collects.
Calm == Cases \subseteq {"lock"}

-----------------------------------------------------------------------------
(* The open calls.                                                         *)

\* The calls that release a block, the blocks, and those of the sweep.
Calls == {i \in 1..Len(frames) : frames[i].kind # "collect"}
Called == {frames[i].block : i \in Calls}
Swept == {frames[i].block : i \in {j \in 1..Len(frames) : frames[j].kind = "garbage"}}

Collecting == frames # <<>> /\ frames[1].kind = "collect"

\* A collection is the first call, and waits while there are others.
Shape == \A i \in 1..Len(frames) :
    /\ frames[i].kind = "base" => frames[i].phase \in {"destructor", "items"}
    /\ frames[i].kind = "garbage" => frames[i].phase = "destructor"
    /\ frames[i].kind = "collect" =>
          /\ i = 1 /\ frames[i].phase \in {"cleanup", "advance", "release"}
          /\ Len(frames) > 1 => frames[i].phase = "advance"

\* No collection begins in a collection or in a destructor, whose end puts back
\* what it found.
Forbids(f) == f.kind = "collect" \/ f.phase = "destructor"
Forbidden == \A i \in 1..Len(frames) : Forbids(frames[i]) =>
    /\ s_bCollecting
    /\ \A j \in i + 1..Len(frames) : frames[j].phase = "destructor" => frames[j].saved

\* One call releases a block.
Apart == \A i, j \in Calls : frames[i].block = frames[j].block => i = j

Stack == /\ frames \in Seq(Frames) /\ s_bCollecting \in BOOLEAN
         /\ Shape /\ Forbidden /\ Apart

-----------------------------------------------------------------------------
(* The blocks.                                                             *)

HeapType ==
    /\ list \in Seq(Blocks) /\ locked \subseteq Blocks
    /\ s_uUsedFlag \in BOOLEAN
    /\ used \in [Blocks -> BOOLEAN] /\ deleted \subseteq Blocks
    /\ ulHolders \in [Blocks -> Nat]
    /\ uiFlags \in [Blocks -> {0, 1, 3}]
    /\ pItems \in [Blocks -> SUBSET Blocks]
    /\ roots \subseteq Blocks

\* A block is in one list, once; a freed one has no items.
Once(q) == \A i, j \in 1..Len(q) : q[i] = q[j] => i = j
Linked == /\ Once(list) /\ Listed \cap locked = {}
          /\ \A b \in Blocks : b \notin Allocated => pItems[b] = {}

\* The flags of a block that is being released say how far that is.
Flagged == /\ Called \subseteq Allocated
           /\ \A b \in Called : uiFlags[b] = IF b \in Selves THEN 1 ELSE 3

\* The others are as they were made, or the sweep is done with them.
Settled ==
    /\ Swept \subseteq deleted
    /\ \A b \in Allocated : b \notin Called =>
          IF b \in deleted THEN uiFlags[b] = 3 /\ pItems[b] = {} ELSE uiFlags[b] = 0

\* What the last holder releases has no other.
Unheld == \A b \in Released :
    b \notin roots /\ \A a \in Allocated : a # b => b \notin pItems[a]

\* The holders are counted, and so is the sweep while it calls a destructor.
Holders(b) == {a \in Allocated : b \in pItems[a]}
One(x) == IF x THEN 1 ELSE 0
Weight(b) == Cardinality(Holders(b)) + One(b \in roots)
Counted == \A b \in Allocated : uiFlags[b] = 0 \/ b \in Swept =>
    ulHolders[b] >= Weight(b) + One(b \in Swept)

Held == Flagged /\ Settled /\ Unheld /\ NoDangling /\ Counted
Heap == HeapType /\ Linked /\ Held

-----------------------------------------------------------------------------
(* The collection.                                                         *)

\* Between the collections.
Quiet == ~Collecting => deleted = {} /\ \A b \in Allocated : used[b] = s_uUsedFlag

\* Nothing that the collection spares holds what it dooms.
Barrier(doomed) ==
    /\ deleted \subseteq doomed /\ deleted \subseteq Listed
    /\ (locked \cup roots) \cap doomed = {}
    /\ \A a \in Allocated : a \notin doomed => pItems[a] \cap doomed = {}
    /\ \A b \in Allocated : used[b] = s_uUsedFlag <=> b \in doomed

\* The scan of a list is past the blocks from the one it began with to the end:
\* none of them is still to be found.
Past(q, start, todo) == \A i \in 1..Len(q) :
    q[i] \in todo => \A j \in 2..i : q[j] # start

Scan(start, phase, doomed) ==
    /\ phase # "release" => list # <<>> /\ Past(list, start, doomed \ deleted)
    /\ phase = "advance" => list[1] \in deleted
    /\ phase = "release" => doomed \cap Allocated \subseteq deleted

Sweep == Collecting => /\ Barrier(frames[1].doomed)
                       /\ Scan(frames[1].block, frames[1].phase, frames[1].doomed)

IInv == Stack /\ Heap /\ Quiet /\ Sweep

-----------------------------------------------------------------------------
(* What the steps do to the stack.                                         *)

LEMMA StackFacts ==
    ASSUME Stack
    PROVE  /\ Len(frames) \in Nat
           /\ frames = <<>> <=> Len(frames) = 0
           /\ \A i \in 1..Len(frames) : frames[i] \in Frames
BY EmptySeq, LenProperties, ElementOfSeq DEF Stack

\* The three sets, one by the others.
LEMMA CallSets ==
    ASSUME Stack
    PROVE  /\ Called = Released \cup Swept /\ Released \cap Swept = {}
           /\ Selves \subseteq Called /\ Swept \subseteq Selves
<1>1. \A i \in 1..Len(frames) :
         /\ frames[i].kind \in {"base", "garbage", "collect"}
         /\ frames[i].phase = "destructor" => frames[i].kind # "collect"
         /\ frames[i].kind = "garbage" => frames[i].phase = "destructor"
  BY StackFacts DEF Stack, Shape, Frames
<1>2. Called = Released \cup Swept
  BY <1>1 DEF Called, Calls, Released, Swept
<1>3. Selves \subseteq Called /\ Swept \subseteq Selves
  BY <1>1 DEF Called, Calls, Selves, Swept
<1>4. Released \cap Swept = {}
  <2> SUFFICES ASSUME NEW i \in 1..Len(frames), NEW j \in 1..Len(frames),
                      frames[i].kind = "base", frames[j].kind = "garbage",
                      frames[i].block = frames[j].block
               PROVE  FALSE
    BY DEF Released, Swept
  <2>1. i \in Calls /\ j \in Calls BY DEF Calls
  <2> QED BY <2>1 DEF Stack, Apart
<1> QED BY <1>2, <1>3, <1>4

\* A collection is the first call, or there is none.
LEMMA Collects ==
    ASSUME Stack
    PROVE  /\ Collecting => Collections = {1} /\ Doomed = frames[1].doomed
           /\ ~Collecting => Collections = {}
           /\ \A i \in 1..Len(frames) : frames[i].kind = "collect" => i = 1 /\ Collecting
<1>1. \A i \in 1..Len(frames) : frames[i].kind = "collect" => i = 1 /\ Collecting
  BY StackFacts DEF Stack, Shape, Collecting
<1>2. Collecting => Collections = {1}
  BY <1>1, StackFacts DEF Collections, Collecting
<1>3. ~Collecting => Collections = {}
  BY <1>1 DEF Collections
<1>4. Collections = {1} => Doomed = frames[1].doomed
  BY DEF Doomed
<1> QED BY <1>1, <1>2, <1>3, <1>4

LEMMA TopFacts ==
    ASSUME Stack, frames # <<>>
    PROVE  /\ Len(frames) \in 1..Len(frames) /\ Top \in Frames
           /\ Top.kind = "collect" => Len(frames) = 1 /\ Collecting
           /\ Top.kind # "collect" => Top.block \in Called
           /\ Top.kind = "base" => Top.block \in Released
           /\ Top.kind = "garbage" => Top.block \in Swept
           /\ Top.phase = "destructor" => Top.block \in Selves /\ Top.kind # "collect"
           /\ Top.kind # "collect" /\ Top.phase # "destructor" => Top.block \notin Selves
<1> DEFINE n == Len(frames)
<1>1. n \in 1..n /\ Top = frames[n] /\ Top \in Frames
  BY StackFacts DEF Top
<1>2. Top.kind = "collect" => n = 1 /\ Collecting
  BY <1>1, Collects
<1>3. Top.kind # "collect" => n \in Calls /\ Top.block \in Called
  BY <1>1 DEF Calls, Called
<1>4. Top.kind = "base" => Top.block \in Released
  BY <1>1 DEF Released
<1>5. Top.kind = "garbage" => Top.block \in Swept
  BY <1>1 DEF Swept
<1>6. Top.phase = "destructor" => Top.block \in Selves /\ Top.kind # "collect"
  BY <1>1 DEF Selves, Stack, Shape
<1>7. ASSUME Top.kind # "collect", Top.phase # "destructor", Top.block \in Selves
      PROVE  FALSE
  <2>1. PICK i \in 1..n : frames[i].phase = "destructor" /\ frames[i].block = Top.block
    BY <1>7 DEF Selves
  <2>2. frames[i].kind # "collect" BY <2>1 DEF Stack, Shape
  <2>3. i \in Calls BY <2>2 DEF Calls
  <2>4. i = n BY <1>1, <1>3, <1>7, <2>1, <2>3 DEF Stack, Apart
  <2> QED BY <1>1, <1>7, <2>1, <2>4
<1> QED BY <1>1, <1>2, <1>3, <1>4, <1>5, <1>6, <1>7

\* Who is in a destructor or in a collection does not collect.
LEMMA ProgramCollects ==
    ASSUME Stack, ProgramRuns, ~s_bCollecting
    PROVE  frames = <<>>
<1> SUFFICES ASSUME frames # <<>> PROVE FALSE OBVIOUS
<1>1. Top.phase = "destructor" BY DEF ProgramRuns, InDestructor
<1>2. Len(frames) \in 1..Len(frames) BY TopFacts
<1>3. Forbids(frames[Len(frames)]) BY <1>1 DEF Top, Forbids
<1> QED BY <1>2, <1>3 DEF Stack, Forbidden

\* The program does not run in the middle of a scan.
LEMMA ScanWaits ==
    ASSUME Stack, Collecting, Top.kind # "collect"
    PROVE  frames[1].phase = "advance" /\ Len(frames) > 1
<1> DEFINE n == Len(frames)
<1>1. frames # <<>> /\ frames[1].kind = "collect" BY DEF Collecting
<1>2. n \in Nat /\ n # 0 /\ 1 \in 1..n
  BY <1>1, StackFacts
<1>3. n # 1 BY <1>1 DEF Top
<1>4. n > 1
  <2> HIDE DEF n
  <2> QED BY <1>2, <1>3
<1>5. n > 1 => frames[1].phase = "advance"
  BY <1>1, <1>2 DEF Stack, Shape
<1> QED BY <1>4, <1>5

-----------------------------------------------------------------------------
LEMMA StackSame ==
    ASSUME Stack, UNCHANGED <<frames, s_bCollecting>>
    PROVE  /\ Stack'
           /\ UNCHANGED <<Called, Selves, Released, Swept, Collecting>>
           /\ frames'[1] = frames[1]
<1>1. Stack' BY DEF Stack, Shape, Forbidden, Apart, Calls
<1>2. UNCHANGED <<Called, Selves, Released, Swept, Collecting>>
  BY DEF Called, Calls, Selves, Released, Swept, Collecting
<1> QED BY <1>1, <1>2

\* A call of hb_arrayReleaseBase.
LEMMA Pushed ==
    ASSUME Stack, NEW f \in Frames, f.kind = "base", f.phase \in {"destructor", "items"},
           f.block \notin Called, frames' = Append(frames, f),
           frames # <<>> => Top.kind # "collect",
           f.saved = s_bCollecting,
           IF f.phase = "destructor" THEN s_bCollecting' = TRUE ELSE UNCHANGED s_bCollecting
    PROVE  /\ Stack'
           /\ Called' = Called \cup {f.block} /\ Released' = Released \cup {f.block}
           /\ Swept' = Swept
           /\ Selves' = IF f.phase = "destructor" THEN Selves \cup {f.block} ELSE Selves
           /\ Collecting' <=> Collecting
           /\ Collecting => frames'[1] = frames[1]
<1> DEFINE n == Len(frames)
<1>1. n \in Nat /\ (frames = <<>> <=> n = 0) /\ \A i \in 1..n : frames[i] \in Frames
  BY StackFacts
<1>2. /\ frames' \in Seq(Frames) /\ Len(frames') = n + 1
      /\ \A i \in 1..n : frames'[i] = frames[i]
      /\ frames'[n + 1] = f
  BY AppendProperties DEF Stack
<1>3. 1..Len(frames') = (1..n) \cup {n + 1} BY <1>1, <1>2
<1>4. Calls' = Calls \cup {n + 1}
  BY <1>1, <1>2, <1>3 DEF Calls
<1>5. Shape'
  <2>1. ASSUME NEW i \in 1..n, frames[i].kind = "collect"
        PROVE  frames[i].phase = "advance"
    <3>1. i = 1 /\ Collecting BY <2>1, Collects
    <3>2. frames # <<>> BY <3>1 DEF Collecting
    <3> QED BY <3>1, <3>2, ScanWaits
  <2> QED BY <1>2, <1>3, <2>1 DEF Stack, Shape
<1>6. Forbidden'
  <2> SUFFICES ASSUME NEW i \in 1..n + 1, Forbids(frames'[i])
               PROVE  /\ s_bCollecting'
                      /\ \A j \in i + 1..n + 1 :
                            frames'[j].phase = "destructor" => frames'[j].saved
    BY <1>2 DEF Forbidden
  <2>1. CASE i = n + 1
    <3>1. f.phase = "destructor" BY <1>2, <2>1 DEF Forbids
    <3> QED BY <1>1, <2>1, <3>1
  <2>2. CASE i \in 1..n
    <3>1. Forbids(frames[i]) BY <1>2, <2>2
    <3>2. s_bCollecting /\ \A j \in i + 1..n : frames[j].phase = "destructor" => frames[j].saved
      BY <2>2, <3>1 DEF Stack, Forbidden
    <3>3. s_bCollecting' BY <3>2
    <3>4. ASSUME NEW j \in i + 1..n + 1, frames'[j].phase = "destructor"
          PROVE  frames'[j].saved
      <4>1. CASE j = n + 1 BY <1>2, <3>2, <4>1
      <4>2. CASE j # n + 1
        <5>1. j \in i + 1..n /\ j \in 1..n BY <1>1, <2>2, <4>2
        <5> QED BY <1>2, <3>2, <3>4, <5>1
      <4> QED BY <4>1, <4>2
    <3> QED BY <3>3, <3>4
  <2> QED BY <1>1, <2>1, <2>2
<1>7. Apart'
  <2> SUFFICES ASSUME NEW i \in Calls \cup {n + 1}, NEW j \in Calls \cup {n + 1},
                      frames'[i].block = frames'[j].block
               PROVE  i = j
    BY <1>4 DEF Apart
  <2>1. \A k \in Calls : frames'[k] = frames[k] /\ frames[k].block \in Called
    BY <1>2 DEF Calls, Called
  <2>2. CASE i = n + 1 \/ j = n + 1 BY <1>2, <2>1, <2>2
  <2>3. CASE i \in Calls /\ j \in Calls BY <2>1, <2>3 DEF Stack, Apart
  <2> QED BY <2>2, <2>3
<1>8. Called' = Called \cup {f.block}
  <2>1. \A k \in Calls : frames'[k].block = frames[k].block BY <1>2 DEF Calls
  <2>2. frames'[n + 1].block = f.block BY <1>2
  <2>3. Called' = {frames'[k].block : k \in Calls \cup {n + 1}} BY <1>4 DEF Called
  <2> HIDE DEF n
  <2>4. {frames'[k].block : k \in Calls} = Called BY <2>1 DEF Called
  <2>5. Called' = {frames'[k].block : k \in Calls} \cup {frames'[n + 1].block} BY <2>3
  <2> QED BY <2>2, <2>4, <2>5
<1>9. /\ Released' = Released \cup {f.block} /\ Swept' = Swept
      /\ Selves' = IF f.phase = "destructor" THEN Selves \cup {f.block} ELSE Selves
  <2>1. Released' = Released \cup {f.block} BY <1>2, <1>3 DEF Released
  <2>2. Swept' = Swept BY <1>2, <1>3 DEF Swept
  <2>3. Selves' = IF f.phase = "destructor" THEN Selves \cup {f.block} ELSE Selves
    BY <1>2, <1>3 DEF Selves
  <2> QED BY <2>1, <2>2, <2>3
<1>10. (Collecting' <=> Collecting) /\ (Collecting => frames'[1] = frames[1])
  <2>1. CASE n = 0
    <3>1. ~Collecting /\ frames'[1].kind = "base" BY <1>1, <1>2, <2>1 DEF Collecting
    <3> QED BY <3>1 DEF Collecting
  <2>2. CASE n # 0
    <3>1. 1 \in 1..n BY <1>1, <2>2
    <3>2. frames'[1] = frames[1] /\ frames # <<>> BY <1>1, <1>2, <2>2, <3>1
    <3>3. frames' # <<>> BY <1>1, <1>2, EmptySeq
    <3> QED BY <3>2, <3>3 DEF Collecting
  <2> QED BY <2>1, <2>2
<1>11. s_bCollecting' \in BOOLEAN BY DEF Stack
<1>12. Stack' BY <1>2, <1>5, <1>6, <1>7, <1>11 DEF Stack
<1> QED BY <1>8, <1>9, <1>10, <1>12

\* A call that ends, or the destructor of an object that was released.
LEMMA Popped ==
    ASSUME Stack, frames # <<>>, Top.kind # "collect", frames' = Below,
           s_bCollecting' = IF Top.phase = "destructor" THEN Top.saved ELSE s_bCollecting
    PROVE  /\ Stack'
           /\ Called' = Called \ {Top.block} /\ Released' = Released \ {Top.block}
           /\ Swept' = Swept \ {Top.block} /\ Selves' = Selves \ {Top.block}
           /\ Collecting' <=> Collecting
           /\ Collecting => frames' # <<>> /\ frames'[1] = frames[1]
<1> DEFINE n == Len(frames)
<1>1. n \in Nat /\ n \in 1..n /\ \A i \in 1..n : frames[i] \in Frames
  BY StackFacts, TopFacts
<1>2. /\ frames' \in Seq(Frames) /\ Len(frames') = n - 1
      /\ \A i \in 1..n - 1 : frames'[i] = frames[i]
  <2>1. \A i \in 1..n - 1 : frames[i] \in Frames BY <1>1
  <2>2. 1 \in Int /\ n - 1 \in Int BY <1>1
  <2> HIDE DEF n
  <2>3. /\ SubSeq(frames, 1, n - 1) \in Seq(Frames)
        /\ Len(SubSeq(frames, 1, n - 1)) = IF 1 <= n - 1 THEN (n - 1) - 1 + 1 ELSE 0
        /\ \A i \in 1..(n - 1) - 1 + 1 : SubSeq(frames, 1, n - 1)[i] = frames[1 + i - 1]
    BY <2>1, <2>2, SubSeqProperties
  <2>4. frames' = SubSeq(frames, 1, n - 1) BY DEF Below, n
  <2> QED BY <1>1, <2>3, <2>4
<1>3. 1..n = (1..n - 1) \cup {n} /\ n \notin 1..n - 1 BY <1>1
<1>4. Calls' = Calls \ {n} /\ n \in Calls /\ frames[n] = Top
  <2>1. frames[n] = Top BY DEF Top
  <2>2. Calls' = Calls \ {n} BY <1>2, <1>3 DEF Calls
  <2> QED BY <1>1, <2>1, <2>2 DEF Calls
<1>5. \A i \in 1..n : frames[i].block = Top.block /\ frames[i].kind # "collect" => i = n
  <2> SUFFICES ASSUME NEW i \in 1..n, frames[i].block = Top.block,
                      frames[i].kind # "collect"
               PROVE  i = n
    OBVIOUS
  <2>1. i \in Calls BY DEF Calls
  <2> QED BY <1>4, <2>1 DEF Stack, Apart
<1>6. Shape' BY <1>1, <1>2, <1>3 DEF Stack, Shape
<1>7. Forbidden'
  <2> SUFFICES ASSUME NEW i \in 1..n - 1, Forbids(frames[i])
               PROVE  /\ s_bCollecting'
                      /\ \A j \in i + 1..n - 1 :
                            frames'[j].phase = "destructor" => frames'[j].saved
    BY <1>2 DEF Forbidden
  <2>1. /\ s_bCollecting
        /\ \A j \in i + 1..n : frames[j].phase = "destructor" => frames[j].saved
    BY <1>3 DEF Stack, Forbidden
  <2>2. n \in i + 1..n BY <1>1
  <2>3. s_bCollecting' BY <1>4, <2>1, <2>2
  <2>4. \A j \in i + 1..n - 1 : frames'[j] = frames[j] /\ j \in i + 1..n BY <1>1, <1>2
  <2> QED BY <2>1, <2>3, <2>4
<1>8. Apart'
  <2>1. \A i \in Calls : i # n => frames'[i] = frames[i] BY <1>2, <1>3 DEF Calls
  <2> QED BY <1>4, <2>1 DEF Stack, Apart
<1>9. Called' = Called \ {Top.block}
  <2>1. \A i \in Calls : i # n => frames'[i] = frames[i] /\ frames[i].block # Top.block
    BY <1>2, <1>3, <1>5 DEF Calls
  <2> QED BY <1>4, <2>1 DEF Called
<1>10. \A i \in 1..n - 1 : /\ frames'[i] = frames[i]
                           /\ frames[i].kind # "collect" => frames[i].block # Top.block
  BY <1>2, <1>3, <1>5
<1>11. \A i \in 1..n : frames[i].phase = "destructor" => frames[i].kind # "collect"
  BY DEF Stack, Shape
<1>12. Released' = Released \ {Top.block}
  BY <1>2, <1>3, <1>4, <1>10 DEF Released
<1>13. Swept' = Swept \ {Top.block}
  BY <1>2, <1>3, <1>4, <1>10 DEF Swept
<1>14. Selves' = Selves \ {Top.block}
  BY <1>2, <1>3, <1>4, <1>10, <1>11 DEF Selves
<1>15. /\ Collecting' <=> Collecting
       /\ Collecting => frames' # <<>> /\ frames'[1] = frames[1]
  <2>1. CASE n = 1
    <3>1. ~Collecting BY <1>4, <2>1 DEF Collecting
    <3>2. frames' = <<>> BY <1>2, <2>1, EmptySeq
    <3> QED BY <3>1, <3>2 DEF Collecting
  <2>2. CASE n # 1
    <3>1. 1 \in 1..n - 1 /\ n - 1 # 0
      <4> HIDE DEF n
      <4> QED BY <1>1, <2>2
    <3>2. frames' # <<>> /\ frames'[1] = frames[1] BY <1>2, <3>1, EmptySeq
    <3> QED BY <3>2 DEF Collecting
  <2> QED BY <2>1, <2>2
<1>16. s_bCollecting' \in BOOLEAN
  <2>1. Top.saved \in BOOLEAN BY <1>1, <1>4 DEF Frames
  <2> QED BY <2>1 DEF Stack
<1>17. Stack' BY <1>2, <1>6, <1>7, <1>8, <1>16 DEF Stack
<1> QED BY <1>9, <1>12, <1>13, <1>14, <1>15, <1>17

\* The last call in another phase.
LEMMA PhaseFacts ==
    ASSUME Stack, frames # <<>>,
           NEW p \in {"destructor", "items", "cleanup", "advance", "release"}
    PROVE  LET q == Phase(p)
               f == [Top EXCEPT !.phase = p] IN
           /\ q \in Seq(Frames) /\ Len(q) = Len(frames) /\ f \in Frames
           /\ \A i \in 1..Len(frames) - 1 : q[i] = frames[i]
           /\ q[Len(frames)] = f
           /\ f.kind = Top.kind /\ f.block = Top.block /\ f.phase = p
           /\ f.saved = Top.saved /\ f.doomed = Top.doomed
<1> DEFINE n == Len(frames)
           f == [Top EXCEPT !.phase = p]
<1>1. n \in Nat /\ n \in 1..n /\ \A i \in 1..n : frames[i] \in Frames
  BY StackFacts, TopFacts
<1>2. Top \in Frames BY TopFacts
<1>3. /\ f \in Frames
      /\ f.kind = Top.kind /\ f.block = Top.block /\ f.phase = p
      /\ f.saved = Top.saved /\ f.doomed = Top.doomed
  BY <1>2 DEF Frames
<1>4. /\ Below \in Seq(Frames) /\ Len(Below) = n - 1
      /\ \A i \in 1..n - 1 : Below[i] = frames[i]
  <2>1. \A i \in 1..n - 1 : frames[i] \in Frames BY <1>1
  <2>2. 1 \in Int /\ n - 1 \in Int BY <1>1
  <2> HIDE DEF n
  <2>3. /\ SubSeq(frames, 1, n - 1) \in Seq(Frames)
        /\ Len(SubSeq(frames, 1, n - 1)) = IF 1 <= n - 1 THEN (n - 1) - 1 + 1 ELSE 0
        /\ \A i \in 1..(n - 1) - 1 + 1 : SubSeq(frames, 1, n - 1)[i] = frames[1 + i - 1]
    BY <2>1, <2>2, SubSeqProperties
  <2>4. Below = SubSeq(frames, 1, n - 1) BY DEF Below, n
  <2> QED BY <1>1, <2>3, <2>4
<1> HIDE DEF f
<1>5. Phase(p) = Append(Below, f) BY DEF Phase, f
<1>6. /\ Append(Below, f) \in Seq(Frames) /\ Len(Append(Below, f)) = n
      /\ \A i \in 1..n - 1 : Append(Below, f)[i] = frames[i]
      /\ Append(Below, f)[n] = f
  <2> HIDE DEF n
  <2>1. Len(Append(Below, f)) = (n - 1) + 1 /\ Append(Below, f)[(n - 1) + 1] = f
        /\ Append(Below, f) \in Seq(Frames)
        /\ \A i \in 1..n - 1 : Append(Below, f)[i] = Below[i]
    BY <1>3, <1>4, AppendProperties
  <2> QED BY <1>1, <1>4, <2>1
<1> QED BY <1>3, <1>5, <1>6 DEF f

\* The destructor of a released object returns, and its items are next.
LEMMA Returned ==
    ASSUME Stack, frames # <<>>, Top.kind = "base", Top.phase = "destructor",
           frames' = Phase("items"), s_bCollecting' = Top.saved
    PROVE  /\ Stack'
           /\ UNCHANGED <<Called, Released, Swept>> /\ Selves' = Selves \ {Top.block}
           /\ Collecting' <=> Collecting
           /\ Collecting => frames'[1] = frames[1]
<1> DEFINE n == Len(frames)
           f == [Top EXCEPT !.phase = "items"]
<1>1. n \in Nat /\ n \in 1..n /\ Top = frames[n]
  BY StackFacts, TopFacts DEF Top
<1>2. /\ frames' \in Seq(Frames) /\ Len(frames') = n
      /\ \A i \in 1..n - 1 : frames'[i] = frames[i]
      /\ frames'[n] = f
      /\ f.kind = "base" /\ f.block = Top.block /\ f.phase = "items"
      /\ f.saved = Top.saved
  BY PhaseFacts
<1>3. 1..n = (1..n - 1) \cup {n} /\ n \notin 1..n - 1 BY <1>1
<1> HIDE DEF f
<1>4. \A i \in 1..n : /\ frames'[i].kind = frames[i].kind
                      /\ frames'[i].block = frames[i].block
                      /\ frames'[i].saved = frames[i].saved
                      /\ frames'[i].phase = IF i = n THEN "items" ELSE frames[i].phase
  BY <1>1, <1>2, <1>3
<1>5. Calls' = Calls /\ n \in Calls BY <1>1, <1>2, <1>4 DEF Calls
<1>6. Shape' BY <1>1, <1>2, <1>4 DEF Stack, Shape
<1>7. Forbidden'
  <2> SUFFICES ASSUME NEW i \in 1..n, Forbids(frames'[i])
               PROVE  /\ s_bCollecting'
                      /\ \A j \in i + 1..n :
                            frames'[j].phase = "destructor" => frames'[j].saved
    BY <1>2 DEF Forbidden
  <2>1. i # n /\ Forbids(frames[i]) BY <1>1, <1>4 DEF Forbids
  <2>2. /\ s_bCollecting
        /\ \A j \in i + 1..n : frames[j].phase = "destructor" => frames[j].saved
    BY <2>1 DEF Stack, Forbidden
  <2>3. n \in i + 1..n BY <1>1, <2>1
  <2>4. s_bCollecting' BY <1>1, <2>2, <2>3
  <2>5. \A j \in i + 1..n : j \in 1..n BY <1>1
  <2> QED BY <1>4, <2>2, <2>4, <2>5
<1>8. Apart'
  <2>1. \A i \in Calls : frames'[i].block = frames[i].block BY <1>4 DEF Calls
  <2> QED BY <1>5, <2>1 DEF Stack, Apart
<1>9. Called' = Called
  <2>1. \A i \in Calls : frames'[i].block = frames[i].block BY <1>4 DEF Calls
  <2> QED BY <1>5, <2>1 DEF Called
<1>10. Released' = Released /\ Swept' = Swept BY <1>2, <1>4 DEF Released, Swept
<1>11. \A i \in 1..n : frames[i].phase = "destructor" /\ frames[i].block = Top.block => i = n
  <2> SUFFICES ASSUME NEW i \in 1..n, frames[i].block = Top.block,
                      frames[i].phase = "destructor"
               PROVE  i = n
    OBVIOUS
  <2>1. i \in Calls BY DEF Calls, Stack, Shape
  <2> QED BY <1>1, <1>5, <2>1 DEF Stack, Apart
<1>12. Selves' = Selves \ {Top.block} BY <1>1, <1>2, <1>4, <1>11 DEF Selves
<1>13. (Collecting' <=> Collecting) /\ (Collecting => frames'[1] = frames[1])
  <2>1. frames' # <<>> BY <1>1, <1>2, EmptySeq
  <2>2. 1 \in 1..n BY <1>1
  <2>3. Collecting' <=> Collecting BY <1>4, <2>1, <2>2 DEF Collecting
  <2>4. ASSUME Collecting PROVE frames'[1] = frames[1]
    <3>1. n # 1 BY <1>1, <2>4 DEF Collecting
    <3>2. 1 \in 1..n - 1
      <4> HIDE DEF n
      <4> QED BY <1>1, <3>1
    <3> QED BY <1>2, <3>2
  <2> QED BY <2>3, <2>4
<1>14. s_bCollecting' \in BOOLEAN
  <2>1. Top \in Frames BY TopFacts
  <2> QED BY <2>1 DEF Frames
<1>15. Stack' BY <1>2, <1>6, <1>7, <1>8, <1>14 DEF Stack
<1> QED BY <1>9, <1>10, <1>12, <1>13, <1>15

\* No call is open but perhaps a collection.
LEMMA NoCalls ==
    ASSUME Stack, \A i \in 1..Len(frames) : frames[i].kind = "collect"
    PROVE  Called = {} /\ Released = {} /\ Swept = {} /\ Selves = {}
<1>1. Called = {} BY DEF Called, Calls
<1> QED BY <1>1, CallSets

\* One call is open, a collection.
LEMMA OnlyCollection ==
    ASSUME NEW f \in Frames, f.kind = "collect",
           f.phase \in {"cleanup", "advance", "release"},
           frames' \in Seq(Frames), Len(frames') = 1, frames'[1] = f, s_bCollecting' = TRUE
    PROVE  Stack' /\ Collecting'
<1>1. 1..Len(frames') = {1} OBVIOUS
<1>2. Shape' BY <1>1 DEF Shape
<1>3. Forbidden' BY <1>1 DEF Forbidden
<1>4. Apart' BY <1>1 DEF Apart, Calls
<1>5. frames' # <<>>
  <2>1. Len(<<>>) = 0 BY EmptySeq
  <2> QED BY <2>1
<1> QED BY <1>2, <1>3, <1>4, <1>5 DEF Stack, Collecting

\* A collection goes on.
LEMMA Rescanned ==
    ASSUME Stack, frames # <<>>, Top.kind = "collect",
           NEW p \in {"cleanup", "advance", "release"}, frames' = Phase(p),
           UNCHANGED s_bCollecting
    PROVE  /\ Stack' /\ Collecting' /\ Collecting
           /\ Called = {} /\ UNCHANGED <<Called, Released, Swept, Selves>>
           /\ Top = frames[1] /\ Selves = {} /\ Swept = {} /\ Released = {}
           /\ frames'[1].phase = p /\ frames'[1].block = frames[1].block
           /\ frames'[1].doomed = frames[1].doomed
<1> DEFINE f == [Top EXCEPT !.phase = p]
<1>1. Len(frames) = 1 /\ Collecting /\ Top = frames[1]
  BY TopFacts DEF Top
<1>2. /\ frames' \in Seq(Frames) /\ Len(frames') = 1 /\ frames'[1] = f /\ f \in Frames
      /\ f.kind = "collect" /\ f.block = Top.block /\ f.phase = p
      /\ f.doomed = Top.doomed
  <2>1. p \in {"destructor", "items", "cleanup", "advance", "release"} OBVIOUS
  <2> QED BY <1>1, <2>1, PhaseFacts
<1> HIDE DEF f
<1>3. 1 \in 1..Len(frames) /\ Forbids(frames[1]) BY <1>1 DEF Forbids
<1>4. s_bCollecting = TRUE BY <1>3 DEF Stack, Forbidden
<1>5. Stack' /\ Collecting' BY <1>2, <1>4, OnlyCollection
<1>6. 1..Len(frames) = {1} BY <1>1
<1>7. Called = {} /\ Released = {} /\ Swept = {} /\ Selves = {}
  BY <1>1, <1>6, NoCalls
<1>8. 1..Len(frames') = {1} /\ frames'[1].kind = "collect" /\ frames'[1].phase # "destructor"
  BY <1>2
<1>9. Called' = {} /\ Released' = {} /\ Swept' = {} /\ Selves' = {}
  BY <1>8 DEF Called, Calls, Released, Swept, Selves
<1> QED BY <1>1, <1>2, <1>5, <1>7, <1>9

\* A collection begins.
LEMMA Begun ==
    ASSUME Stack, frames = <<>>, NEW f \in Frames, f.kind = "collect", f.phase = "cleanup",
           frames' = Append(frames, f), s_bCollecting' = TRUE
    PROVE  /\ Stack' /\ Collecting' /\ ~Collecting
           /\ Called = {} /\ Released = {} /\ Swept = {} /\ Selves = {}
           /\ UNCHANGED <<Called, Released, Swept, Selves>>
           /\ frames'[1] = f
<1>1. Len(frames) = 0 BY StackFacts
<1>2. frames' \in Seq(Frames) /\ Len(frames') = 1 /\ frames'[1] = f
  <2>1. /\ frames' \in Seq(Frames) /\ Len(frames') = Len(frames) + 1
        /\ frames'[Len(frames) + 1] = f
    BY AppendProperties DEF Stack
  <2>2. 0 + 1 = 1 OBVIOUS
  <2> QED BY <1>1, <2>1, <2>2
<1>3. Stack' /\ Collecting' BY <1>2, OnlyCollection
<1>4. 1..Len(frames) = {} BY <1>1
<1>5. Called = {} /\ Released = {} /\ Swept = {} /\ Selves = {} BY <1>4, NoCalls
<1>6. 1..Len(frames') = {1} /\ frames'[1].kind = "collect" /\ frames'[1].phase # "destructor"
  BY <1>2
<1>7. Called' = {} /\ Released' = {} /\ Swept' = {} /\ Selves' = {}
  BY <1>6 DEF Called, Calls, Released, Swept, Selves
<1> QED BY <1>2, <1>3, <1>5, <1>7 DEF Collecting

\* A collection ends.
LEMMA Ended ==
    ASSUME Stack, frames # <<>>, Top.kind = "collect", frames' = Below,
           s_bCollecting' = FALSE
    PROVE  /\ Stack' /\ Collecting /\ ~Collecting' /\ Top = frames[1]
           /\ Called = {} /\ Released = {} /\ Swept = {} /\ Selves = {}
           /\ UNCHANGED <<Called, Released, Swept, Selves>>
<1>1. Len(frames) = 1 /\ Collecting /\ Top = frames[1]
  BY TopFacts DEF Top
<1>2. frames' = <<>> /\ Len(frames') = 0
  <2>1. 1 \in Int /\ 0 \in Int /\ 0 < 1 OBVIOUS
  <2>2. SubSeq(frames, 1, 0) = <<>> BY <2>1, SubSeqEmpty
  <2> QED BY <1>1, <2>2, EmptySeq DEF Below
<1>3. 1..Len(frames') = {} BY <1>2
<1>4. Stack'
  <2>1. frames' \in Seq(Frames) BY <1>2, EmptySeq
  <2> QED BY <1>3, <2>1 DEF Stack, Shape, Forbidden, Apart, Calls
<1>5. 1..Len(frames) = {1} BY <1>1
<1>6. Called = {} /\ Released = {} /\ Swept = {} /\ Selves = {}
  BY <1>1, <1>5, NoCalls
<1>7. Called' = {} /\ Released' = {} /\ Swept' = {} /\ Selves' = {}
  BY <1>3 DEF Called, Calls, Released, Swept, Selves
<1> QED BY <1>1, <1>2, <1>4, <1>6, <1>7 DEF Collecting

\* The cleanup scan calls a destructor.
LEMMA SweptOne ==
    ASSUME Stack, frames # <<>>, Top.kind = "collect", NEW f \in Frames,
           f.kind = "garbage", f.phase = "destructor", f.saved = s_bCollecting,
           frames' = Append(Phase("advance"), f), UNCHANGED s_bCollecting
    PROVE  /\ Stack' /\ Collecting' /\ Collecting /\ Top = frames[1]
           /\ Called = {} /\ Released = {} /\ Swept = {} /\ Selves = {}
           /\ Called' = {f.block} /\ Released' = {} /\ Swept' = {f.block}
           /\ Selves' = {f.block}
           /\ frames'[1].phase = "advance" /\ frames'[1].block = frames[1].block
           /\ frames'[1].doomed = frames[1].doomed
<1> DEFINE g == [Top EXCEPT !.phase = "advance"]
           q == Phase("advance")
<1>1. Len(frames) = 1 /\ Collecting /\ Top = frames[1]
  BY TopFacts DEF Top
<1>2. /\ q \in Seq(Frames) /\ Len(q) = 1 /\ q[1] = g /\ g \in Frames
      /\ g.kind = "collect" /\ g.block = Top.block /\ g.phase = "advance"
      /\ g.doomed = Top.doomed
  BY <1>1, PhaseFacts
<1> HIDE DEF g, q
<1>3. frames' = Append(q, f) BY DEF q
<1>4. /\ frames' \in Seq(Frames) /\ Len(frames') = 2
      /\ frames'[1] = g /\ frames'[2] = f
  <2>1. /\ frames' \in Seq(Frames) /\ Len(frames') = Len(q) + 1
        /\ \A i \in 1..Len(q) : frames'[i] = q[i]
        /\ frames'[Len(q) + 1] = f
    <3>1. q \in Seq(Frames) BY <1>2
    <3>2. /\ Append(q, f) \in Seq(Frames) /\ Len(Append(q, f)) = Len(q) + 1
          /\ \A i \in 1..Len(q) : Append(q, f)[i] = q[i]
          /\ Append(q, f)[Len(q) + 1] = f
      BY <3>1, AppendProperties
    <3> QED BY <1>3, <3>2
  <2>2. 1 + 1 = 2 /\ 1 \in 1..1 OBVIOUS
  <2> QED BY <1>2, <2>1, <2>2
<1>5. 1..Len(frames') = {1, 2} BY <1>4
<1>6. 1 \in 1..Len(frames) /\ Forbids(frames[1]) BY <1>1 DEF Forbids
<1>7. s_bCollecting = TRUE BY <1>6 DEF Stack, Forbidden
<1>8. Shape' BY <1>2, <1>4, <1>5 DEF Shape
<1>9. Forbidden'
  <2>1. \A i \in {1, 2} : \A j \in i + 1..2 : j = 2 OBVIOUS
  <2> QED BY <1>4, <1>5, <1>7, <2>1 DEF Forbidden
<1>10. Calls' = {2} BY <1>2, <1>4, <1>5 DEF Calls
<1>11. Apart' BY <1>10 DEF Apart
<1>12. Stack' BY <1>4, <1>7, <1>8, <1>9, <1>11 DEF Stack
<1>13. Collecting' BY <1>2, <1>4, EmptySeq DEF Collecting
<1>14. 1..Len(frames) = {1} BY <1>1
<1>15. Called = {} /\ Released = {} /\ Swept = {} /\ Selves = {}
  BY <1>1, <1>14, NoCalls
<1>16. Called' = {f.block} BY <1>4, <1>10 DEF Called
<1>17. Released' = {} BY <1>2, <1>4, <1>5 DEF Released
<1>18. Swept' = {f.block} BY <1>2, <1>4, <1>5 DEF Swept
<1>19. Selves' = {f.block} BY <1>2, <1>4, <1>5 DEF Selves
<1> QED
  BY <1>1, <1>2, <1>4, <1>12, <1>13, <1>15, <1>16, <1>17, <1>18, <1>19


-----------------------------------------------------------------------------
(* What the steps do to the list.                                          *)

LEMMA ListFacts ==
    ASSUME HeapType
    PROVE  /\ Len(list) \in Nat
           /\ list = <<>> <=> Len(list) = 0
           /\ \A i \in 1..Len(list) : list[i] \in Blocks /\ list[i] \in Listed
BY EmptySeq, LenProperties, ElementOfSeq DEF HeapType, Listed

LEMMA ListedBlocks ==
    ASSUME HeapType
    PROVE  Listed \subseteq Blocks /\ Allocated \subseteq Blocks
BY ListFacts DEF Listed, Allocated, HeapType

LEMMA FirstListed ==
    ASSUME HeapType, list # <<>>
    PROVE  list[1] \in Listed /\ Head(list) = list[1]
<1> DEFINE n == Len(list)
<1>1. n \in Nat /\ n # 0 BY ListFacts
<1>2. 1 \in 1..n
  <2> HIDE DEF n
  <2> QED BY <1>1
<1> QED BY <1>2, HeadTailProperties DEF HeapType, Listed

Without(seq, i) == SubSeq(seq, 1, i - 1) \o SubSeq(seq, i + 1, Len(seq))

\* What is left of a list from which one entry is taken.
LEMMA WithoutProperties ==
    ASSUME NEW S, NEW seq \in Seq(S), NEW i \in 1 .. Len(seq)
    PROVE  /\ Without(seq, i) \in Seq(S) /\ Len(Without(seq, i)) = Len(seq) - 1
           /\ \A j \in 1 .. Len(seq) - 1 :
                 Without(seq, i)[j] = IF j < i THEN seq[j] ELSE seq[j + 1]
<1> DEFINE n == Len(seq)
           a == SubSeq(seq, 1, i - 1)
           b == SubSeq(seq, i + 1, n)
<1>1. n \in Nat /\ i \in Nat /\ 1 <= i /\ i <= n /\ \A j \in 1 .. n : seq[j] \in S
  BY LenProperties, ElementOfSeq
<1>2. /\ a \in Seq(S) /\ Len(a) = i - 1
      /\ \A j \in 1 .. i - 1 : a[j] = seq[j]
  <2>1. 1 \in Int /\ i - 1 \in Int /\ \A j \in 1 .. i - 1 : seq[j] \in S BY <1>1
  <2> HIDE DEF n
  <2>2. /\ a \in Seq(S) /\ Len(a) = IF 1 <= i - 1 THEN i - 1 - 1 + 1 ELSE 0
        /\ \A j \in 1 .. i - 1 - 1 + 1 : a[j] = seq[1 + j - 1]
    BY <2>1, SubSeqProperties
  <2> HIDE DEF a
  <2> QED BY <1>1, <2>2
<1>3. /\ b \in Seq(S) /\ Len(b) = n - i
      /\ \A j \in 1 .. n - i : b[j] = seq[i + j]
  <2>1. i + 1 \in Int /\ n \in Int /\ \A j \in i + 1 .. n : seq[j] \in S BY <1>1
  <2> HIDE DEF n
  <2>2. /\ b \in Seq(S) /\ Len(b) = IF i + 1 <= n THEN n - (i + 1) + 1 ELSE 0
        /\ \A j \in 1 .. n - (i + 1) + 1 : b[j] = seq[i + 1 + j - 1]
    BY <2>1, SubSeqProperties
  <2> HIDE DEF b
  <2> QED BY <1>1, <2>2
<1>4. Without(seq, i) = a \o b BY DEF Without
<1> HIDE DEF n, a, b
<1>5. /\ a \o b \in Seq(S) /\ Len(a \o b) = (i - 1) + (n - i)
      /\ \A j \in 1 .. (i - 1) + (n - i) :
            (a \o b)[j] = IF j <= i - 1 THEN a[j] ELSE b[j - (i - 1)]
  <2>1. \A j \in 1 .. Len(a) + Len(b) :
           (a \o b)[j] = IF j <= Len(a) THEN a[j] ELSE b[j - Len(a)]
    BY <1>2, <1>3, ConcatProperties
  <2>2. a \o b \in Seq(S) /\ Len(a \o b) = Len(a) + Len(b)
    BY <1>2, <1>3, ConcatProperties
  <2> QED BY <1>2, <1>3, <2>1, <2>2
<1>6. ASSUME NEW j \in 1 .. n - 1
      PROVE  (a \o b)[j] = IF j < i THEN seq[j] ELSE seq[j + 1]
  <2>1. CASE j < i BY <1>1, <1>2, <1>5, <2>1
  <2>2. CASE ~(j < i)
    <3>1. j - (i - 1) \in 1 .. n - i /\ i + (j - (i - 1)) = j + 1 BY <1>1, <2>2
    <3>2. j \in 1 .. (i - 1) + (n - i) /\ ~(j <= i - 1) BY <1>1, <2>2
    <3>3. (a \o b)[j] = b[j - (i - 1)] BY <1>5, <3>2
    <3> QED BY <1>3, <2>2, <3>1, <3>3
  <2> QED BY <2>1, <2>2
<1> QED BY <1>1, <1>4, <1>5, <1>6 DEF n

\* hb_gcUnlink leaves the others where they were.
LEMMA UnlinkFacts ==
    ASSUME HeapType, NEW b \in Listed
    PROVE  \E p \in 1..Len(list) :
             /\ list[p] = b
             /\ Unlink(b) \in Seq(Blocks) /\ Len(Unlink(b)) = Len(list) - 1
             /\ \A j \in 1..Len(list) - 1 :
                   Unlink(b)[j] = IF j < p THEN list[j] ELSE list[j + 1]
<1> DEFINE i == CHOOSE j \in 1..Len(list) : list[j] = b
<1>1. i \in 1..Len(list) /\ list[i] = b BY DEF Listed
<1>2. Unlink(b) = Without(list, i) BY DEF Unlink, Without
<1> HIDE DEF i
<1>3. /\ Without(list, i) \in Seq(Blocks) /\ Len(Without(list, i)) = Len(list) - 1
      /\ \A j \in 1..Len(list) - 1 :
            Without(list, i)[j] = IF j < i THEN list[j] ELSE list[j + 1]
  <2>1. list \in Seq(Blocks) BY DEF HeapType
  <2> QED BY <1>1, <2>1, WithoutProperties
<1> QED BY <1>1, <1>2, <1>3

LEMMA Unlinked ==
    ASSUME HeapType, Once(list), NEW b \in Listed, list' = Unlink(b)
    PROVE  /\ list' \in Seq(Blocks) /\ Once(list')
           /\ Listed' = Listed \ {b}
           /\ list[1] # b => list' # <<>> /\ list'[1] = list[1]
<1> DEFINE n == Len(list)
<1>1. n \in Nat BY ListFacts
<1>2. PICK p \in 1..n :
         /\ list[p] = b /\ list' \in Seq(Blocks) /\ Len(list') = n - 1
         /\ \A j \in 1..n - 1 : list'[j] = IF j < p THEN list[j] ELSE list[j + 1]
  BY UnlinkFacts
<1> HIDE DEF n
<1>3. \A i, j \in 1..n : list[i] = list[j] => i = j BY DEF Once, n
<1>4. Once(list')
  <2> SUFFICES ASSUME NEW i \in 1..n - 1, NEW j \in 1..n - 1, list'[i] = list'[j]
               PROVE  i = j
    BY <1>2 DEF Once
  <2> DEFINE u == IF i < p THEN i ELSE i + 1
             v == IF j < p THEN j ELSE j + 1
  <2>1. u \in 1..n /\ v \in 1..n BY <1>1
  <2>2. list'[i] = list[u] /\ list'[j] = list[v] BY <1>2
  <2>3. u = v BY <1>3, <2>1, <2>2
  <2> QED BY <1>1, <2>3
<1>5. \A c \in Listed' : c \in Listed \ {b}
  <2> SUFFICES ASSUME NEW i \in 1..n - 1 PROVE list'[i] \in Listed \ {b}
    BY <1>2 DEF Listed
  <2> DEFINE u == IF i < p THEN i ELSE i + 1
  <2>1. u \in 1..n /\ u # p BY <1>1
  <2>2. list'[i] = list[u] BY <1>2
  <2>3. list[u] # b BY <1>2, <1>3, <2>1
  <2>4. list[u] \in Listed BY <2>1 DEF Listed, n
  <2> QED BY <2>2, <2>3, <2>4
<1>6. \A c \in Listed : c # b => c \in Listed'
  <2> SUFFICES ASSUME NEW i \in 1..n, list[i] # b PROVE list[i] \in Listed'
    BY DEF Listed, n
  <2> DEFINE u == IF i < p THEN i ELSE i - 1
  <2>1. i # p BY <1>2
  <2>2. u \in 1..n - 1 BY <1>1, <2>1
  <2>3. list'[u] = list[i]
    <3>1. CASE i < p BY <1>1, <1>2, <2>2, <3>1
    <3>2. CASE ~(i < p)
      <4>1. u = i - 1 /\ ~(u < p) /\ u + 1 = i BY <1>1, <2>1, <3>2
      <4> HIDE DEF u
      <4> QED BY <1>2, <2>2, <4>1
    <3> QED BY <3>1, <3>2
  <2> HIDE DEF u
  <2> QED BY <1>2, <2>2, <2>3 DEF Listed
<1>7. ASSUME list[1] # b PROVE list' # <<>> /\ list'[1] = list[1]
  <2>1. p # 1 BY <1>2, <1>7
  <2>2. 1 \in 1..n - 1 /\ 1 < p BY <1>1, <2>1
  <2>3. list'[1] = list[1] BY <1>2, <2>2
  <2>4. Len(list') # 0 BY <1>1, <1>2, <2>2
  <2> QED BY <2>3, <2>4, EmptySeq
<1> QED BY <1>2, <1>4, <1>5, <1>6, <1>7

\* A block that leaves the list does not bring the scan forward.
LEMMA PastUnlinked ==
    ASSUME HeapType, NEW b \in Listed, list' = Unlink(b),
           NEW start, NEW todo, Past(list, start, todo)
    PROVE  Past(list', start, todo)
<1> DEFINE n == Len(list)
<1>1. n \in Nat BY ListFacts
<1>2. PICK p \in 1..n :
         /\ list[p] = b /\ list' \in Seq(Blocks) /\ Len(list') = n - 1
         /\ \A j \in 1..n - 1 : list'[j] = IF j < p THEN list[j] ELSE list[j + 1]
  BY UnlinkFacts
<1>3. \A i \in 1..n : list[i] \in todo => \A j \in 2..i : list[j] # start
  BY DEF Past
<1> HIDE DEF n
<1> SUFFICES ASSUME NEW i \in 1..n - 1, list'[i] \in todo, NEW j \in 2..i
             PROVE  list'[j] # start
  BY <1>2 DEF Past
<1> DEFINE u == IF i < p THEN i ELSE i + 1
           v == IF j < p THEN j ELSE j + 1
<1>4. u \in 1..n /\ v \in 2..u /\ j \in 1..n - 1 BY <1>1
<1>5. list'[i] = list[u] /\ list'[j] = list[v] BY <1>2, <1>4
<1> HIDE DEF u, v
<1> QED BY <1>3, <1>4, <1>5

\* A block is put at the end.
LEMMA Appended ==
    ASSUME HeapType, Once(list), NEW b \in Blocks, b \notin Listed, list' = Append(list, b)
    PROVE  list' \in Seq(Blocks) /\ Once(list') /\ Listed' = Listed \cup {b}
<1> DEFINE n == Len(list)
<1>1. n \in Nat BY ListFacts
<1>2. /\ list' \in Seq(Blocks) /\ Len(list') = n + 1
      /\ \A i \in 1..n : list'[i] = list[i]
      /\ list'[n + 1] = b
  BY AppendProperties DEF HeapType
<1>3. \A i \in 1..n : list[i] # b BY DEF Listed
<1>4. \A i, j \in 1..n : list[i] = list[j] => i = j BY DEF Once
<1>5. 1..Len(list') = (1..n) \cup {n + 1} BY <1>1, <1>2
<1>6. Once(list') BY <1>2, <1>3, <1>4, <1>5 DEF Once
<1>7. Listed' = Listed \cup {b} BY <1>2, <1>5 DEF Listed
<1> QED BY <1>2, <1>6, <1>7

\* The first block becomes the last one.
LEMMA RotatedFacts ==
    ASSUME HeapType, list # <<>>
    PROVE  /\ Rotated \in Seq(Blocks) /\ Len(Rotated) = Len(list)
           /\ \A i \in 1..Len(list) - 1 : Rotated[i] = list[i + 1]
           /\ Rotated[Len(list)] = list[1]
           /\ Head(Rotated) = Rotated[1]
<1> DEFINE n == Len(list)
           t == Tail(list)
<1>1. n \in Nat /\ n # 0 /\ list \in Seq(Blocks) /\ list[1] \in Blocks
  <2>1. n \in Nat /\ n # 0 BY ListFacts
  <2>2. 1 \in 1..n
    <3> HIDE DEF n
    <3> QED BY <2>1
  <2> QED BY <2>1, <2>2, ListFacts DEF HeapType
<1>2. Head(list) = list[1] BY HeadTailProperties, <1>1
<1>3. t \in Seq(Blocks) /\ Len(t) = n - 1 /\ \A i \in 1..n - 1 : t[i] = list[i + 1]
  BY HeadTailProperties, <1>1
<1> HIDE DEF n, t
<1>4. /\ Append(t, list[1]) \in Seq(Blocks) /\ Len(Append(t, list[1])) = (n - 1) + 1
      /\ \A i \in 1..n - 1 : Append(t, list[1])[i] = t[i]
      /\ Append(t, list[1])[(n - 1) + 1] = list[1]
  BY <1>1, <1>3, AppendProperties
<1>5. (n - 1) + 1 = n BY <1>1
<1>6. Rotated = Append(t, list[1]) BY <1>2 DEF Rotated, t
<1>7. Rotated \in Seq(Blocks) /\ Rotated # <<>>
  BY <1>1, <1>4, <1>5, <1>6, EmptySeq
<1>8. Head(Rotated) = Rotated[1] BY <1>7, HeadTailProperties
<1> QED BY <1>3, <1>4, <1>5, <1>6, <1>8 DEF n

LEMMA Turned ==
    ASSUME HeapType, Once(list), list # <<>>, list' = Rotated
    PROVE  list' \in Seq(Blocks) /\ Once(list') /\ Listed' = Listed /\ list' # <<>>
<1> DEFINE n == Len(list)
<1>1. n \in Nat /\ n # 0 BY ListFacts
<1>2. /\ list' \in Seq(Blocks) /\ Len(list') = n
      /\ \A i \in 1..n - 1 : list'[i] = list[i + 1]
      /\ list'[n] = list[1]
  BY RotatedFacts
<1>3. \A i, j \in 1..n : list[i] = list[j] => i = j BY DEF Once
<1>4. Listed = {list[i] : i \in 1..n} /\ Listed' = {list'[i] : i \in 1..n}
  BY <1>2 DEF Listed
<1> HIDE DEF n
<1>5. \A i \in 1..n : list'[i] = list[IF i = n THEN 1 ELSE i + 1] BY <1>1, <1>2
<1>6. Once(list')
  <2> SUFFICES ASSUME NEW i \in 1..n, NEW j \in 1..n, list'[i] = list'[j]
               PROVE  i = j
    BY <1>2 DEF Once
  <2> DEFINE u == IF i = n THEN 1 ELSE i + 1
             v == IF j = n THEN 1 ELSE j + 1
  <2>1. u \in 1..n /\ v \in 1..n BY <1>1
  <2>2. list[u] = list[v] BY <1>5
  <2>3. u = v BY <1>3, <2>1, <2>2
  <2> QED BY <1>1, <2>3
<1>7. \A i \in 1..n : list'[i] \in Listed
  <2> TAKE i \in 1..n
  <2> DEFINE u == IF i = n THEN 1 ELSE i + 1
  <2>1. u \in 1..n /\ list'[i] = list[u] BY <1>1, <1>5
  <2> HIDE DEF u
  <2> QED BY <1>4, <2>1
<1>8. \A i \in 1..n : list[i] \in Listed'
  <2> TAKE i \in 1..n
  <2> DEFINE u == IF i = 1 THEN n ELSE i - 1
  <2>1. u \in 1..n /\ (IF u = n THEN 1 ELSE u + 1) = i BY <1>1
  <2>2. list'[u] = list[i] BY <1>5, <2>1
  <2> HIDE DEF u
  <2> QED BY <1>4, <2>1, <2>2
<1>9. Listed' = Listed BY <1>4, <1>7, <1>8
<1>10. list' # <<>>
  <2>1. Len(list') # 0 BY <1>1, <1>2
  <2> QED BY <2>1, EmptySeq
<1> QED BY <1>2, <1>6, <1>9, <1>10

\* The scan goes on, or is done.
LEMMA NextScan ==
    ASSUME HeapType, list # <<>>, list' = Rotated,
           NEW start, NEW todo, Past(list, start, todo)
    PROVE  /\ Head(Rotated) # start => Past(list', start, todo \ {list[1]})
           /\ Head(Rotated) = start => todo \cap Listed \subseteq {list[1]}
<1> DEFINE n == Len(list)
<1>1. n \in Nat /\ n # 0 BY ListFacts
<1>2. /\ Len(list') = n
      /\ \A i \in 1..n - 1 : list'[i] = list[i + 1]
      /\ list'[n] = list[1]
      /\ Head(Rotated) = list'[1]
  BY RotatedFacts
<1>3. \A i \in 1..n : list[i] \in todo => \A j \in 2..i : list[j] # start
  BY DEF Past
<1>4. Listed = {list[i] : i \in 1..n} BY DEF Listed
<1> HIDE DEF n
<1>5. ASSUME Head(Rotated) # start, NEW i \in 1..n, list'[i] \in todo,
             list'[i] # list[1], NEW j \in 2..i
      PROVE  list'[j] # start
  <2>1. i # n BY <1>2, <1>5
  <2>2. i \in 1..n - 1 /\ j \in 1..n - 1 /\ j + 1 \in 2..i + 1 /\ i + 1 \in 1..n
    BY <1>1, <2>1
  <2>3. list'[i] = list[i + 1] /\ list'[j] = list[j + 1] BY <1>2, <2>2
  <2> QED BY <1>3, <1>5, <2>2, <2>3
<1>6. ASSUME Head(Rotated) = start, NEW i \in 1..n, list[i] \in todo, list[i] # list[1]
      PROVE  FALSE
  <2>1. i # 1 BY <1>6
  <2>2. 2 \in 2..i /\ 1 \in 1..n - 1 /\ 1 + 1 = 2 BY <1>1, <2>1
  <2>3. list[2] # start BY <1>3, <1>6, <2>2
  <2>4. list'[1] = list[2] BY <1>2, <2>2
  <2> QED BY <1>2, <1>6, <2>3, <2>4
<1>7. Head(Rotated) # start => Past(list', start, todo \ {list[1]})
  BY <1>2, <1>5 DEF Past
<1> QED BY <1>4, <1>6, <1>7

-----------------------------------------------------------------------------
(* Who reaches whom, and how many hold a block.                            *)

LEMMA ReachedWithin ==
    ASSUME NEW from, NEW within
    PROVE  /\ Reached(from, within) \subseteq within
           /\ from \cap within \subseteq Reached(from, within)
           /\ \A a \in Reached(from, within) :
                 pItems[a] \cap within \subseteq Reached(from, within)
<1>1. Reached(from, within) \subseteq within BY DEF Reached
<1>2. from \cap within \subseteq Reached(from, within) BY DEF Reached
<1>3. ASSUME NEW a \in Reached(from, within), NEW b \in pItems[a] \cap within
      PROVE  b \in Reached(from, within)
  <2> SUFFICES ASSUME NEW C \in SUBSET within, from \cap within \subseteq C,
                      \A c \in C : pItems[c] \cap within \subseteq C
               PROVE  b \in C
    BY DEF Reached
  <2>1. a \in C BY DEF Reached
  <2> QED BY <2>1
<1> QED BY <1>1, <1>2, <1>3

LEMMA VisibleAllocated == Visible \subseteq Allocated
BY ReachedWithin DEF Visible

\* A store or a copy that the program may make with Calm.
LEMMA Storable ==
    ASSUME Calm, Stack, NEW into, NEW b, MayStore(into, b)
    PROVE  /\ b \in Released => into = {b}
           /\ Collecting /\ b \in frames[1].doomed =>
                 into \subseteq frames[1].doomed /\ into # {}
<1>1. "keep" \notin Cases BY DEF Calm
<1> QED BY <1>1, Collects DEF MayStore

LEMMA HoldersFinite ==
    ASSUME HeapType
    PROVE  IsFiniteSet(Allocated) /\ \A b : IsFiniteSet(Holders(b))
<1>1. IsFiniteSet(Allocated) BY BlocksAssumption, ListedBlocks, FS_Subset
<1>2. ASSUME NEW b PROVE IsFiniteSet(Holders(b))
  <2>1. Holders(b) \subseteq Allocated BY DEF Holders
  <2> QED BY <1>1, <2>1, FS_Subset
<1> QED BY <1>1, <1>2

\* A weight is a number; what is held by none weighs nothing.
LEMMA Weighed ==
    ASSUME NEW H, IsFiniteSet(H), NEW x \in BOOLEAN
    PROVE  /\ Cardinality(H) + One(x) \in Nat
           /\ Cardinality(H) + One(x) = 0 => H = {} /\ ~x
<1> DEFINE c == Cardinality(H)
<1>1. c \in Nat /\ (c = 0 <=> H = {}) BY FS_CardinalityType, FS_EmptySet
<1> HIDE DEF c
<1>2. CASE x BY <1>1, <1>2 DEF One, c
<1>3. CASE ~x BY <1>1, <1>3 DEF One, c
<1> QED BY <1>2, <1>3

LEMMA WeightType ==
    ASSUME HeapType, NEW b
    PROVE  Weight(b) \in Nat
<1>1. IsFiniteSet(Holders(b)) BY HoldersFinite
<1>2. (b \in roots) \in BOOLEAN OBVIOUS
<1> QED BY <1>1, <1>2, Weighed DEF Weight

\* Fewer holders weigh less, and a holder weighs one.
LEMMA Lighter ==
    ASSUME HeapType, NEW b,
           Holders(b)' \subseteq Holders(b), b \in roots' => b \in roots
    PROVE  /\ Weight(b)' \in Nat /\ Weight(b)' <= Weight(b)
           /\ Weight(b)' = 0 => Holders(b)' = {} /\ b \notin roots'
           /\ b \in roots /\ b \notin roots' => Weight(b)' + 1 <= Weight(b)
           /\ \A a : a \in Holders(b) /\ a \notin Holders(b)' => Weight(b)' + 1 <= Weight(b)
<1> DEFINE c == Cardinality(Holders(b))
           d == Cardinality(Holders(b)')
<1>1. IsFiniteSet(Holders(b)) BY HoldersFinite
<1>2. d <= c /\ IsFiniteSet(Holders(b)') BY <1>1, FS_Subset
<1>3. c \in Nat /\ d \in Nat BY <1>1, <1>2, FS_CardinalityType
<1>4. ASSUME NEW a, a \in Holders(b), a \notin Holders(b)' PROVE d + 1 <= c
  <2> DEFINE H == Holders(b) \ {a}
  <2>1. IsFiniteSet(H) /\ Cardinality(H) = c - 1 BY <1>1, <1>4, FS_RemoveElement
  <2>2. Holders(b)' \subseteq H BY <1>4
  <2>3. d <= Cardinality(H) BY <2>1, <2>2, FS_Subset
  <2> HIDE DEF c, d, H
  <2> QED BY <1>3, <2>1, <2>3
<1>5. Weight(b) = c + One(b \in roots) /\ Weight(b)' = d + One(b \in roots')
  BY DEF Weight, One
<1>8. (b \in roots') \in BOOLEAN OBVIOUS
<1>9. /\ Weight(b)' \in Nat
      /\ Weight(b)' = 0 => Holders(b)' = {} /\ b \notin roots'
  BY <1>2, <1>5, <1>8, Weighed
<1> HIDE DEF c, d
<1>6. /\ One(b \in roots') <= One(b \in roots)
      /\ One(b \in roots') \in Nat /\ One(b \in roots) \in Nat
      /\ b \in roots /\ b \notin roots' => One(b \in roots') + 1 <= One(b \in roots)
  BY DEF One
<1>7. ASSUME NEW r \in Nat, NEW s \in Nat, s <= r
      PROVE  /\ d + s <= c + r
             /\ s + 1 <= r => d + s + 1 <= c + r
             /\ d + 1 <= c => d + s + 1 <= c + r
  BY <1>2, <1>3, <1>7
<1> QED BY <1>4, <1>5, <1>6, <1>7, <1>9

\* One holder more weighs one more.
LEMMA Heavier ==
    ASSUME HeapType, NEW b, NEW a,
           \/ Holders(b)' = Holders(b) \cup {a} /\ UNCHANGED roots
           \/ Holders(b)' = Holders(b)
    PROVE  Weight(b)' <= Weight(b) + 1 /\ Weight(b)' \in Nat
<1> DEFINE c == Cardinality(Holders(b))
           d == Cardinality(Holders(b)')
<1>1. IsFiniteSet(Holders(b)) BY HoldersFinite
<1>2. c \in Nat BY <1>1, FS_CardinalityType
<1>3. Cardinality(Holders(b) \cup {a}) = IF a \in Holders(b) THEN c ELSE c + 1
  BY <1>1, FS_AddElement
<1>4. Weight(b) = c + One(b \in roots) /\ Weight(b)' = d + One(b \in roots')
  BY DEF Weight, One
<1>5. CASE Holders(b)' = Holders(b) \cup {a} /\ UNCHANGED roots
  <2>1. d \in {c, c + 1} /\ One(b \in roots') = One(b \in roots) BY <1>3, <1>5 DEF One
  <2>2. One(b \in roots) \in Nat BY DEF One
  <2> HIDE DEF c, d
  <2> QED BY <1>2, <1>4, <2>1, <2>2
<1>6. CASE Holders(b)' = Holders(b)
  <2>1. d = c BY <1>6
  <2>2. One(b \in roots) \in {0, 1} /\ One(b \in roots') \in {0, 1} BY DEF One
  <2> HIDE DEF c, d
  <2> QED BY <1>2, <1>4, <2>1, <2>2
<1> QED BY <1>5, <1>6

-----------------------------------------------------------------------------
(* What the steps do to the blocks.                                        *)

LEMMA HeapTypes ==
    ASSUME HeapType
    PROVE  \A b \in Allocated : /\ b \in Blocks /\ ulHolders[b] \in Nat
                                /\ uiFlags[b] \in {0, 1, 3} /\ pItems[b] \subseteq Blocks
BY ListedBlocks DEF HeapType

\* A block moves from one list to the other, or not at all.
LEMMA HeldSame ==
    ASSUME Held, UNCHANGED <<Allocated, Called, Released, Swept, Selves>>,
           UNCHANGED <<deleted, ulHolders, uiFlags, pItems, roots>>
    PROVE  Held'
<1>1. Flagged' BY DEF Held, Flagged
<1>2. Settled' BY DEF Held, Settled
<1>3. Unheld' BY DEF Held, Unheld
<1>4. NoDangling' BY DEF Held, NoDangling
<1>5. Counted' BY DEF Held, Counted, Weight, Holders
<1> QED BY <1>1, <1>2, <1>3, <1>4, <1>5 DEF Held

\* Allocated depends on the two lists only.
LEMMA AllocatedSame == UNCHANGED <<list, locked>> => UNCHANGED <<Listed, Allocated>>
BY DEF Listed, Allocated

LEMMA LinkedSame ==
    ASSUME Linked, UNCHANGED <<list, locked>>,
           \A b \in Blocks : pItems'[b] \subseteq pItems[b] \/ b \in Allocated
    PROVE  Linked'
BY AllocatedSame DEF Linked, Once

\* A collection that is under way does not notice what makes the graph smaller,
\* and what does not lead from the blocks it spares to those it dooms.
LEMMA SweepSame ==
    ASSUME Quiet, Sweep, UNCHANGED <<list, locked, s_uUsedFlag, used, deleted>>,
           Collecting' <=> Collecting, Collecting => frames'[1] = frames[1],
           Collecting => roots' \cap frames[1].doomed \subseteq roots,
           Collecting => \A a \in Allocated : a \notin frames[1].doomed =>
                            pItems'[a] \cap frames[1].doomed \subseteq pItems[a]
    PROVE  Quiet' /\ Sweep'
<1>1. Quiet' BY AllocatedSame DEF Quiet
<1>2. ASSUME Collecting PROVE Sweep'
  <2> DEFINE D == frames[1].doomed
  <2>1. Barrier(D)'
    <3>1. Barrier(D) BY <1>2 DEF Sweep
    <3>2. D' = D BY <1>2
    <3> QED BY <1>2, <3>1, <3>2, AllocatedSame DEF Barrier
  <2>2. Scan(frames[1].block, frames[1].phase, D)'
    <3>1. Scan(frames[1].block, frames[1].phase, D) BY <1>2 DEF Sweep
    <3>2. UNCHANGED frames[1] BY <1>2
    <3> QED BY <3>1, <3>2, AllocatedSame DEF Scan, Past
  <2> QED BY <2>1, <2>2 DEF Sweep
<1>3. ASSUME ~Collecting PROVE Sweep' BY <1>3 DEF Sweep
<1> QED BY <1>1, <1>2, <1>3

\* An item is cleared.
LEMMA Cleared ==
    ASSUME IInv, NEW b \in Allocated, ClearItem(b), HeapType',
           frames # <<>> => Top.kind # "collect",
           UNCHANGED <<list, locked, s_uUsedFlag, used, deleted>>,
           roots' \subseteq roots, \A a \in Blocks : pItems'[a] \subseteq pItems[a],
           \/ b \in roots /\ b \notin roots'
           \/ \E a \in Allocated : b \in pItems[a] /\ b \notin pItems'[a]
    PROVE  IInv'
<1>1. /\ Stack /\ HeapType /\ Linked /\ Held /\ Quiet /\ Sweep
      /\ Flagged /\ Settled /\ Unheld /\ NoDangling /\ Counted
  BY DEF IInv, Heap, Held
<1>2. UNCHANGED <<Listed, Allocated>> BY AllocatedSame
<1>3. /\ b \in Blocks /\ ulHolders[b] \in Nat /\ uiFlags[b] \in {0, 1, 3}
      /\ Allocated \subseteq Blocks
  BY <1>1, HeapTypes, ListedBlocks
<1>4. \A c : Holders(c)' \subseteq Holders(c)
  BY <1>2, <1>3 DEF Holders
<1>5. \A c : Weight(c)' <= Weight(c) /\ Weight(c) \in Nat /\ Weight(c)' \in Nat
  <2> TAKE c
  <2>1. c \in roots' => c \in roots OBVIOUS
  <2>2. Weight(c)' <= Weight(c) /\ Weight(c)' \in Nat BY <1>1, <1>4, <2>1, Lighter
  <2> QED BY <1>1, <2>2, WeightType
<1>6. Weight(b)' + 1 <= Weight(b)
  <2>1. CASE b \in roots /\ b \notin roots' BY <1>1, <1>4, <2>1, Lighter
  <2>2. CASE \E a \in Allocated : b \in pItems[a] /\ b \notin pItems'[a]
    <3>1. PICK a \in Allocated : b \in pItems[a] /\ b \notin pItems'[a] BY <2>2
    <3>2. a \in Holders(b) /\ a \notin Holders(b)' BY <3>1 DEF Holders
    <3> QED BY <1>1, <1>4, <3>2, Lighter
  <2> QED BY <2>1, <2>2
<1>7. Linked' BY <1>1, <1>3, LinkedSame
<1>8. Swept \subseteq Allocated /\ Called \subseteq Allocated /\ Selves \subseteq Allocated
  BY <1>1, CallSets DEF Flagged
<1>9. CASE ulHolders[b] = 1 /\ uiFlags[b] = 0
  <2>1. b \notin Called BY <1>9, <1>1 DEF Flagged
  <2> DEFINE p == IF b \in Objects THEN "destructor" ELSE "items"
             f == Call("base", b, p)
  <2>2. /\ f \in Frames /\ f.kind = "base" /\ f.phase = p /\ f.block = b
        /\ f.saved = s_bCollecting
    BY <1>1, <1>3 DEF Call, Frames, Stack
  <2>3. /\ frames' = Append(frames, f)
        /\ uiFlags' = [uiFlags EXCEPT ![b] = IF b \in Objects THEN 1 ELSE 3]
        /\ \A c \in Blocks : c # b => ulHolders'[c] = ulHolders[c]
        /\ IF p = "destructor" THEN s_bCollecting' = TRUE ELSE UNCHANGED s_bCollecting
    BY <1>1, <1>9 DEF ClearItem, HeapType
  <2> HIDE DEF f
  <2>4. p \in {"destructor", "items"} /\ (p = "destructor" <=> b \in Objects) OBVIOUS
  <2> HIDE DEF p
  <2>5. /\ Stack'
        /\ Called' = Called \cup {b} /\ Released' = Released \cup {b}
        /\ Swept' = Swept
        /\ Selves' = IF p = "destructor" THEN Selves \cup {b} ELSE Selves
        /\ Collecting' <=> Collecting
        /\ Collecting => frames'[1] = frames[1]
    BY <1>1, <2>1, <2>2, <2>3, <2>4, Pushed
  <2>6. \A c \in Blocks : uiFlags'[c] = IF c # b THEN uiFlags[c]
                                        ELSE IF b \in Objects THEN 1 ELSE 3
    BY <1>1, <2>3 DEF HeapType
  <2>7. Flagged'
    <3>1. b \notin Selves BY <1>1, <2>1, CallSets
    <3> QED BY <1>1, <1>2, <1>3, <2>4, <2>5, <2>6, <3>1 DEF Flagged
  <2>8. Settled'
    BY <1>1, <1>2, <1>3, <2>5, <2>6 DEF Settled
  <2>9. b \notin Swept BY <1>1, <2>1, CallSets
  <2>10. Holders(b)' = {} /\ b \notin roots'
    <3>1. Weight(b) <= 1
      <4>1. One(b \in Swept) = 0 BY <2>9 DEF One
      <4>2. ulHolders[b] >= Weight(b) + One(b \in Swept) BY <1>1, <1>9 DEF Counted
      <4> QED BY <1>5, <1>9, <4>1, <4>2
    <3>2. Weight(b)' = 0 BY <1>5, <1>6, <3>1
    <3> QED BY <1>1, <1>4, <3>2, Lighter
  <2>11. Unheld'
    <3>1. ASSUME NEW a \in Allocated PROVE b \notin pItems'[a]
      BY <1>2, <2>10 DEF Holders
    <3>2. ASSUME NEW c \in Released
          PROVE  c \notin roots' /\ \A a \in Allocated : a # c => c \notin pItems'[a]
      BY <1>1, <1>3 DEF Unheld
    <3> QED BY <1>2, <2>5, <2>10, <3>1, <3>2 DEF Unheld
  <2>12. NoDangling'
    BY <1>1, <1>2, <1>3, <2>5 DEF NoDangling
  <2>13. Counted'
    <3> SUFFICES ASSUME NEW c \in Allocated, uiFlags'[c] = 0 \/ c \in Swept
                 PROVE  ulHolders'[c] >= Weight(c)' + One(c \in Swept)
      BY <1>2, <2>5 DEF Counted, One
    <3>1. c # b /\ c \in Blocks BY <1>3, <2>6, <2>9
    <3>2. ulHolders'[c] = ulHolders[c] /\ uiFlags'[c] = uiFlags[c] /\ ulHolders[c] \in Nat
      BY <1>1, <2>3, <2>6, <3>1, HeapTypes
    <3>3. ulHolders[c] >= Weight(c) + One(c \in Swept) BY <1>1, <3>2 DEF Counted
    <3>4. One(c \in Swept) \in Nat BY DEF One
    <3> QED BY <1>5, <3>2, <3>3, <3>4
  <2>14. Quiet' /\ Sweep' BY <1>1, <1>3, <2>5, SweepSame
  <2> QED BY <1>7, <2>5, <2>7, <2>8, <2>11, <2>12, <2>13, <2>14 DEF IInv, Heap, Held
<1>10. CASE ~(ulHolders[b] = 1 /\ uiFlags[b] = 0)
  <2>1. /\ ulHolders[b] > 0 /\ ulHolders' = [ulHolders EXCEPT ![b] = @ - 1]
        /\ UNCHANGED <<uiFlags, s_bCollecting, frames>>
    BY <1>10 DEF ClearItem
  <2>2. /\ Stack'
        /\ UNCHANGED <<Called, Selves, Released, Swept, Collecting>>
        /\ frames'[1] = frames[1]
    BY <1>1, <2>1, StackSame
  <2>3. Flagged' BY <1>1, <1>2, <2>1, <2>2 DEF Flagged
  <2>4. Settled' BY <1>1, <1>2, <1>3, <2>1, <2>2 DEF Settled
  <2>5. Unheld' BY <1>1, <1>2, <1>3, <2>1, <2>2 DEF Unheld
  <2>6. NoDangling' BY <1>1, <1>2, <1>3, <2>1, <2>2 DEF NoDangling
  <2>7. Counted'
    <3> SUFFICES ASSUME NEW c \in Allocated, uiFlags[c] = 0 \/ c \in Swept
                 PROVE  ulHolders'[c] >= Weight(c)' + One(c \in Swept)
      BY <1>2, <2>1, <2>2 DEF Counted, One
    <3>1. ulHolders'[c] = IF c = b THEN ulHolders[b] - 1 ELSE ulHolders[c]
      BY <1>1, <1>3, <2>1 DEF HeapType
    <3>2. ulHolders[c] >= Weight(c) + One(c \in Swept) /\ ulHolders[c] \in Nat
      BY <1>1, HeapTypes DEF Counted
    <3>3. One(c \in Swept) \in Nat BY DEF One
    <3>4. CASE c = b BY <1>5, <1>6, <3>1, <3>2, <3>3, <3>4
    <3>5. CASE c # b BY <1>5, <3>1, <3>2, <3>3, <3>5
    <3> QED BY <3>4, <3>5
  <2>8. Quiet' /\ Sweep' BY <1>1, <1>3, <2>2, SweepSame
  <2> QED BY <1>7, <2>2, <2>3, <2>4, <2>5, <2>6, <2>7, <2>8 DEF IInv, Heap, Held
<1> QED BY <1>9, <1>10

-----------------------------------------------------------------------------
(* The program.                                                            *)

LEMMA Parts ==
    ASSUME IInv
    PROVE  /\ Stack /\ HeapType /\ Linked /\ Held /\ Quiet /\ Sweep
           /\ Flagged /\ Settled /\ Unheld /\ NoDangling /\ Counted
           /\ Allocated \subseteq Blocks /\ Listed \subseteq Allocated /\ Listed \subseteq Blocks
           /\ locked \subseteq Allocated /\ Once(list)
           /\ Swept \subseteq Called /\ Selves \subseteq Called /\ Called \subseteq Allocated
           /\ deleted \subseteq Listed
<1>1. /\ Stack /\ HeapType /\ Linked /\ Held /\ Quiet /\ Sweep
      /\ Flagged /\ Settled /\ Unheld /\ NoDangling /\ Counted
  BY DEF IInv, Heap, Held
<1>2. Allocated \subseteq Blocks /\ Listed \subseteq Allocated /\ Listed \subseteq Blocks
      /\ locked \subseteq Allocated /\ Once(list)
  BY <1>1, ListedBlocks DEF Allocated, Linked
<1>3. Swept \subseteq Called /\ Selves \subseteq Called /\ Called \subseteq Allocated
  BY <1>1, CallSets DEF Flagged
<1>4. deleted \subseteq Listed
  BY <1>1 DEF Quiet, Sweep, Barrier
<1> QED BY <1>1, <1>2, <1>3, <1>4

LEMMA StepNew ==
    ASSUME Calm, IInv, NEW b \in Blocks, New(b)
    PROVE  IInv'
<1>1. /\ Stack /\ HeapType /\ Linked /\ Held /\ Quiet /\ Sweep
      /\ Flagged /\ Settled /\ Unheld /\ NoDangling /\ Counted
      /\ Allocated \subseteq Blocks /\ Listed \subseteq Allocated /\ Once(list)
      /\ Swept \subseteq Called /\ Selves \subseteq Called /\ Called \subseteq Allocated
  BY Parts
<1>2. b \notin Allocated /\ b \notin Listed BY <1>1 DEF New
<1>3. Collections = {} BY DEF New, Calm
<1>4. ~Collecting BY <1>1, <1>3, Collects
<1>5. deleted = {} BY <1>1, <1>4 DEF Quiet
<1>6. /\ Stack'
      /\ UNCHANGED <<Called, Selves, Released, Swept, Collecting>>
  BY <1>1, StackSame DEF New
<1>7. list' \in Seq(Blocks) /\ Once(list') /\ Listed' = Listed \cup {b}
  BY <1>1, <1>2, Appended DEF New
<1>8. Allocated' = Allocated \cup {b} BY <1>7 DEF Allocated, New
<1>9. /\ ulHolders'[b] = 1 /\ uiFlags'[b] = 0 /\ used'[b] = s_uUsedFlag
      /\ \A c \in Blocks : c # b => /\ ulHolders'[c] = ulHolders[c]
                                    /\ uiFlags'[c] = uiFlags[c] /\ used'[c] = used[c]
      /\ UNCHANGED <<pItems, deleted, locked, s_uUsedFlag>> /\ roots' = roots \cup {b}
  BY <1>1 DEF New, HeapType
<1>10. HeapType' BY <1>1, <1>7 DEF New, HeapType
<1>11. pItems[b] = {} BY <1>1, <1>2 DEF Linked
<1>12. Linked' BY <1>1, <1>2, <1>7, <1>8, <1>9 DEF Linked, Allocated
<1>13. b \notin roots /\ \A a \in Allocated : b \notin pItems[a]
  BY <1>1, <1>2 DEF NoDangling
<1>14. b \notin Called /\ b \notin Swept BY <1>1, <1>2
<1>15. Flagged' BY <1>1, <1>2, <1>6, <1>8, <1>9 DEF Flagged
<1>16. Settled' BY <1>1, <1>5, <1>6, <1>8, <1>9 DEF Settled
<1>17. Unheld'
  <2>1. Released \subseteq Called BY <1>1, CallSets
  <2> QED BY <1>1, <1>2, <1>6, <1>8, <1>9, <1>11, <2>1 DEF Unheld
<1>18. NoDangling' BY <1>1, <1>6, <1>8, <1>9, <1>11 DEF NoDangling
<1>19. Counted'
  <2> SUFFICES ASSUME NEW c \in Allocated \cup {b}, uiFlags'[c] = 0 \/ c \in Swept
               PROVE  ulHolders'[c] >= Weight(c)' + One(c \in Swept)
    BY <1>6, <1>8 DEF Counted, One
  <2>1. CASE c = b
    <3>1. Holders(b)' = {} BY <1>8, <1>9, <1>11, <1>13 DEF Holders
    <3>2. Weight(b)' = 0 + 1 BY <1>9, <3>1, FS_EmptySet DEF Weight, One
    <3>3. One(b \in Swept) = 0 BY <1>14 DEF One
    <3> QED BY <1>9, <2>1, <3>2, <3>3
  <2>2. CASE c # b
    <3>1. Holders(c)' = Holders(c) BY <1>8, <1>9, <1>11 DEF Holders
    <3>2. Weight(c)' = Weight(c) BY <1>9, <2>2, <3>1 DEF Weight, One
    <3>3. ulHolders'[c] = ulHolders[c] /\ uiFlags'[c] = uiFlags[c] /\ c \in Allocated
      BY <1>1, <1>9, <2>2
    <3> QED BY <1>1, <3>2, <3>3 DEF Counted
  <2> QED BY <2>1, <2>2
<1>20. Quiet' BY <1>1, <1>4, <1>6, <1>8, <1>9 DEF Quiet
<1>21. Sweep' BY <1>4, <1>6 DEF Sweep
<1> QED
  BY <1>6, <1>10, <1>12, <1>15, <1>16, <1>17, <1>18, <1>19, <1>20, <1>21
  DEF IInv, Heap, Held

\* What Get and Store do to the counts.
LEMMA HeldMore ==
    ASSUME IInv, NEW b \in Allocated, NEW a,
           UNCHANGED <<list, locked, uiFlags, frames, s_bCollecting>>,
           ulHolders' = [ulHolders EXCEPT ![b] = @ + 1],
           \/ Holders(b)' = Holders(b) \cup {a} /\ UNCHANGED roots
           \/ Holders(b)' = Holders(b),
           \A c : c # b => Holders(c)' = Holders(c) /\ (c \in roots' <=> c \in roots)
    PROVE  Counted'
<1>1. Stack /\ HeapType /\ Counted /\ Allocated \subseteq Blocks BY Parts
<1>2. UNCHANGED <<Allocated, Swept>> BY <1>1, AllocatedSame, StackSame
<1> SUFFICES ASSUME NEW c \in Allocated, uiFlags[c] = 0 \/ c \in Swept
             PROVE  ulHolders'[c] >= Weight(c)' + One(c \in Swept)
  BY <1>2 DEF Counted, One
<1>3. ulHolders'[c] = IF c = b THEN ulHolders[b] + 1 ELSE ulHolders[c]
  BY <1>1 DEF HeapType
<1>4. ulHolders[c] >= Weight(c) + One(c \in Swept) /\ ulHolders[c] \in Nat
  BY <1>1, HeapTypes DEF Counted
<1>5. One(c \in Swept) \in Nat BY DEF One
<1>6. Weight(c) \in Nat BY <1>1, WeightType
<1>7. CASE c = b
  <2>1. Weight(c)' <= Weight(c) + 1 /\ Weight(c)' \in Nat BY <1>1, <1>7, Heavier
  <2> QED BY <1>3, <1>4, <1>5, <1>6, <1>7, <2>1
<1>8. CASE c # b
  <2>1. Weight(c)' = Weight(c) BY <1>8 DEF Weight, One
  <2> QED BY <1>3, <1>4, <1>5, <1>6, <1>8, <2>1
<1> QED BY <1>7, <1>8

LEMMA StepGet ==
    ASSUME Calm, IInv, NEW b \in Blocks, Get(b)
    PROVE  IInv'
<1>1. /\ Stack /\ HeapType /\ Linked /\ Held /\ Quiet /\ Sweep
      /\ Flagged /\ Settled /\ Unheld /\ NoDangling /\ Counted
      /\ Allocated \subseteq Blocks
  BY Parts
<1>2. b \in Allocated BY VisibleAllocated DEF Get
<1>3. b \notin Released /\ (Collecting => b \notin frames[1].doomed)
  BY <1>1, Storable DEF Get
<1>4. UNCHANGED <<list, locked, s_uUsedFlag, used, deleted, uiFlags, pItems, frames,
                  s_bCollecting>>
  BY DEF Get, gc
<1>5. /\ roots' = roots \cup {b}
      /\ ulHolders' = [ulHolders EXCEPT ![b] = @ + 1]
  BY DEF Get
<1>6. /\ Stack'
      /\ UNCHANGED <<Called, Selves, Released, Swept, Collecting>>
      /\ frames'[1] = frames[1]
  BY <1>1, <1>4, StackSame
<1>7. UNCHANGED <<Listed, Allocated>> BY <1>4, AllocatedSame
<1>8. HeapType' BY <1>1, <1>4, <1>5 DEF HeapType
<1>9. Linked' BY <1>1, <1>4, LinkedSame
<1>10. Flagged' BY <1>1, <1>4, <1>6, <1>7 DEF Flagged
<1>11. Settled' BY <1>1, <1>4, <1>6, <1>7 DEF Settled
<1>12. Unheld' BY <1>1, <1>3, <1>4, <1>5, <1>6, <1>7 DEF Unheld
<1>13. NoDangling' BY <1>1, <1>2, <1>4, <1>5, <1>6, <1>7 DEF NoDangling
<1>14. Counted'
  <2>1. \A c : Holders(c)' = Holders(c) BY <1>4, <1>7 DEF Holders
  <2> QED BY <1>2, <1>4, <1>5, <2>1, HeldMore
<1>15. Quiet' /\ Sweep' BY <1>1, <1>3, <1>4, <1>5, <1>6, SweepSame
<1> QED
  BY <1>6, <1>8, <1>9, <1>10, <1>11, <1>12, <1>13, <1>14, <1>15 DEF IInv, Heap, Held

LEMMA StepStore ==
    ASSUME Calm, IInv, NEW a \in Blocks, NEW b \in Blocks, Store(a, b)
    PROVE  IInv'
<1>1. /\ Stack /\ HeapType /\ Linked /\ Held /\ Quiet /\ Sweep
      /\ Flagged /\ Settled /\ Unheld /\ NoDangling /\ Counted
      /\ Allocated \subseteq Blocks
  BY Parts
<1>2. a \in Allocated /\ b \in Allocated /\ b \notin pItems[a]
  BY VisibleAllocated DEF Store
<1>3. /\ b \in Released => a = b
      /\ Collecting /\ b \in frames[1].doomed => a \in frames[1].doomed
  <2>1. MayStore({a}, b) BY DEF Store
  <2> QED BY <1>1, <2>1, Storable
<1>4. UNCHANGED <<list, locked, s_uUsedFlag, used, deleted, uiFlags, roots, frames,
                  s_bCollecting>>
  BY DEF Store, gc
<1>5. /\ pItems' = [pItems EXCEPT ![a] = @ \cup {b}]
      /\ ulHolders' = [ulHolders EXCEPT ![b] = @ + 1]
      /\ uiFlags[a] # 3
  BY DEF Store
<1>6. /\ Stack'
      /\ UNCHANGED <<Called, Selves, Released, Swept, Collecting>>
      /\ frames'[1] = frames[1]
  BY <1>1, <1>4, StackSame
<1>7. UNCHANGED <<Listed, Allocated>> BY <1>4, AllocatedSame
<1>8. HeapType' BY <1>1, <1>4, <1>5 DEF HeapType
<1>9. \A c \in Blocks : pItems'[c] = IF c = a THEN pItems[a] \cup {b} ELSE pItems[c]
  BY <1>1, <1>5 DEF HeapType
<1>10. Linked' BY <1>1, <1>2, <1>4, <1>9, LinkedSame
<1>11. Flagged' BY <1>1, <1>4, <1>6, <1>7 DEF Flagged
<1>12. Settled' BY <1>1, <1>4, <1>5, <1>6, <1>7, <1>9 DEF Settled
<1>13. Unheld' BY <1>1, <1>3, <1>4, <1>6, <1>7, <1>9 DEF Unheld
<1>14. NoDangling' BY <1>1, <1>2, <1>4, <1>6, <1>7, <1>9 DEF NoDangling
<1>15. Counted'
  <2>1. Holders(b)' = Holders(b) \cup {a} BY <1>1, <1>2, <1>7, <1>9 DEF Holders
  <2>2. \A c : c # b => Holders(c)' = Holders(c) BY <1>1, <1>7, <1>9 DEF Holders
  <2> QED BY <1>2, <1>4, <1>5, <2>1, <2>2, HeldMore
<1>16. Quiet' /\ Sweep' BY <1>1, <1>3, <1>4, <1>6, <1>9, SweepSame
<1> QED
  BY <1>6, <1>8, <1>10, <1>11, <1>12, <1>13, <1>14, <1>15, <1>16 DEF IInv, Heap, Held

\* The program runs when no call is open, or in a destructor.
LEMMA ProgramTop ==
    ASSUME Stack, ProgramRuns
    PROVE  frames # <<>> => Top.kind # "collect"
BY TopFacts DEF ProgramRuns, InDestructor

LEMMA ClearTypes ==
    ASSUME HeapType, NEW b \in Blocks, ClearItem(b)
    PROVE  ulHolders' \in [Blocks -> Nat] /\ uiFlags' \in [Blocks -> {0, 1, 3}]
<1>1. CASE ulHolders[b] = 1 /\ uiFlags[b] = 0
  <2>1. LongMax + 1 \in Nat /\ 0 \in Nat BY CountAssumption
  <2> QED BY <1>1, <2>1 DEF ClearItem, HeapType
<1>2. CASE ~(ulHolders[b] = 1 /\ uiFlags[b] = 0)
  <2>1. ulHolders[b] \in Nat /\ ulHolders[b] > 0 BY DEF ClearItem, HeapType
  <2>2. ulHolders[b] - 1 \in Nat BY <2>1
  <2> QED BY <1>2, <2>2 DEF ClearItem, HeapType
<1> QED BY <1>1, <1>2

LEMMA StepDrop ==
    ASSUME IInv, NEW b \in Blocks, Drop(b)
    PROVE  IInv'
<1>1. Stack /\ HeapType /\ NoDangling BY Parts
<1>2. b \in roots /\ roots' = roots \ {b} /\ ClearItem(b) /\ ProgramRuns
      /\ UNCHANGED <<list, locked, s_uUsedFlag, used, deleted, pItems>>
  BY DEF Drop, gc
<1>3. b \in Allocated BY <1>1, <1>2 DEF NoDangling
<1>4. HeapType' BY <1>1, <1>2, ClearTypes DEF HeapType
<1>5. frames # <<>> => Top.kind # "collect" BY <1>1, <1>2, ProgramTop
<1> QED BY <1>2, <1>3, <1>4, <1>5, Cleared

LEMMA StepRemove ==
    ASSUME IInv, NEW a \in Blocks, NEW b \in Blocks, Remove(a, b)
    PROVE  IInv'
<1>1. Stack /\ HeapType /\ NoDangling BY Parts
<1>2. a \in Allocated /\ b \in pItems[a] /\ ClearItem(b) /\ ProgramRuns
      /\ pItems' = [pItems EXCEPT ![a] = @ \ {b}]
      /\ UNCHANGED <<list, locked, s_uUsedFlag, used, deleted, roots>>
  BY VisibleAllocated DEF Remove, gc
<1>3. b \in Allocated BY <1>1, <1>2 DEF NoDangling
<1>4. HeapType' BY <1>1, <1>2, ClearTypes DEF HeapType
<1>5. frames # <<>> => Top.kind # "collect" BY <1>1, <1>2, ProgramTop
<1>6. /\ \A c \in Blocks : pItems'[c] \subseteq pItems[c]
      /\ b \in pItems[a] /\ b \notin pItems'[a]
  BY <1>1, <1>2 DEF HeapType
<1>7. roots' \subseteq roots BY <1>2
<1> QED BY <1>2, <1>3, <1>4, <1>5, <1>6, <1>7, Cleared

LEMMA StepLock ==
    ASSUME IInv, NEW b \in Blocks, Lock(b) \/ Unlock(b)
    PROVE  IInv'
<1>1. /\ Stack /\ HeapType /\ Linked /\ Held /\ Quiet
      /\ Allocated \subseteq Blocks /\ Listed \subseteq Blocks /\ Once(list)
  BY Parts
<1>2. /\ frames = <<>> /\ used' = [used EXCEPT ![b] = s_uUsedFlag]
      /\ UNCHANGED <<s_uUsedFlag, s_bCollecting, deleted, ulHolders, uiFlags, pItems,
                     roots, frames>>
  BY DEF Lock, Unlock, heap
<1>3. ~Collecting BY <1>2 DEF Collecting
<1>4. Stack' /\ UNCHANGED <<Called, Selves, Released, Swept, Collecting>>
  BY <1>1, <1>2, StackSame
<1>5. /\ list' \in Seq(Blocks) /\ Once(list') /\ locked' \subseteq Blocks
      /\ Listed' \cap locked' = {} /\ Allocated' = Allocated
  <2>1. CASE Lock(b)
    <3>1. b \in Listed /\ list' = Unlink(b) /\ locked' = locked \cup {b}
      BY <2>1 DEF Lock
    <3>2. list' \in Seq(Blocks) /\ Once(list') /\ Listed' = Listed \ {b}
      BY <1>1, <3>1, Unlinked
    <3> QED BY <1>1, <3>1, <3>2 DEF Linked, Allocated, HeapType
  <2>2. CASE Unlock(b)
    <3>1. b \in locked /\ list' = Append(list, b) /\ locked' = locked \ {b}
      BY <2>2 DEF Unlock
    <3>2. b \notin Listed BY <1>1, <3>1 DEF Linked
    <3>3. list' \in Seq(Blocks) /\ Once(list') /\ Listed' = Listed \cup {b}
      BY <1>1, <3>1, <3>2, Appended
    <3> QED BY <1>1, <3>1, <3>3 DEF Linked, Allocated, HeapType
  <2> QED BY <2>1, <2>2
<1>6. HeapType' BY <1>1, <1>2, <1>5 DEF HeapType
<1>7. Linked' BY <1>1, <1>2, <1>5 DEF Linked
<1>8. Held' BY <1>1, <1>2, <1>4, <1>5, HeldSame
<1>9. Quiet' BY <1>1, <1>2, <1>3, <1>5 DEF Quiet, HeapType
<1>10. Sweep' BY <1>3, <1>4 DEF Sweep
<1> QED BY <1>4, <1>6, <1>7, <1>8, <1>9, <1>10 DEF IInv, Heap

-----------------------------------------------------------------------------
(* hb_arrayReleaseBase and hb_arrayReleaseGarbage.                         *)

\* The weights do not rise when nothing is added.
LEMMA HeldLess ==
    ASSUME HeapType, Allocated' \subseteq Allocated, roots' \subseteq roots,
           \A a \in Blocks : pItems'[a] \subseteq pItems[a], Allocated \subseteq Blocks
    PROVE  \A c : Weight(c)' <= Weight(c) /\ Weight(c) \in Nat /\ Weight(c)' \in Nat
<1> TAKE c
<1>1. Holders(c)' \subseteq Holders(c) BY DEF Holders
<1>2. c \in roots' => c \in roots OBVIOUS
<1>3. Weight(c)' <= Weight(c) /\ Weight(c)' \in Nat BY <1>1, <1>2, Lighter
<1> QED BY <1>3, WeightType

LEMMA StepEndBase ==
    ASSUME IInv, EndDestructor, Top.kind = "base"
    PROVE  IInv'
<1> DEFINE b == Top.block
<1>1. /\ Stack /\ HeapType /\ Linked /\ Held /\ Quiet /\ Sweep
      /\ Flagged /\ Settled /\ Unheld /\ NoDangling /\ Counted
      /\ Allocated \subseteq Blocks /\ Called \subseteq Allocated
  BY Parts
<1>2. /\ frames # <<>> /\ Top.phase = "destructor"
      /\ s_bCollecting' = Top.saved /\ frames' = Phase("items")
      /\ uiFlags' = [uiFlags EXCEPT ![b] = 3]
      /\ ulHolders' = [ulHolders EXCEPT ![b] = 0]
      /\ UNCHANGED <<list, locked, s_uUsedFlag, used, deleted, pItems, roots>>
  BY DEF EndDestructor, InDestructor, gc
<1>3. b \in Released /\ b \in Called BY <1>1, <1>2, TopFacts
<1>4. b \notin Swept /\ b \in Blocks BY <1>1, <1>3, CallSets
<1>5. /\ Stack'
      /\ UNCHANGED <<Called, Released, Swept>> /\ Selves' = Selves \ {b}
      /\ Collecting' <=> Collecting
      /\ Collecting => frames'[1] = frames[1]
  BY <1>1, <1>2, Returned
<1>6. UNCHANGED <<Listed, Allocated>> BY <1>2, AllocatedSame
<1> HIDE DEF b
<1>7. HeapType' BY <1>1, <1>2 DEF HeapType
<1>8. \A c \in Blocks : /\ uiFlags'[c] = IF c = b THEN 3 ELSE uiFlags[c]
                        /\ c # b => ulHolders'[c] = ulHolders[c]
  BY <1>1, <1>2 DEF HeapType
<1>9. Linked' BY <1>1, <1>2, LinkedSame
<1>10. Flagged' BY <1>1, <1>3, <1>5, <1>6, <1>8 DEF Flagged
<1>11. Settled' BY <1>1, <1>2, <1>3, <1>5, <1>6, <1>8 DEF Settled
<1>12. Unheld' BY <1>1, <1>2, <1>5, <1>6 DEF Unheld
<1>13. NoDangling' BY <1>1, <1>2, <1>5, <1>6 DEF NoDangling
<1>14. Counted'
  <2> SUFFICES ASSUME NEW c \in Allocated, uiFlags'[c] = 0 \/ c \in Swept
               PROVE  ulHolders'[c] >= Weight(c)' + One(c \in Swept)
    BY <1>5, <1>6 DEF Counted, One
  <2>1. c # b /\ c \in Blocks BY <1>1, <1>4, <1>8
  <2>2. ulHolders'[c] = ulHolders[c] /\ uiFlags'[c] = uiFlags[c] BY <1>8, <2>1
  <2>3. Weight(c)' = Weight(c) BY <1>2, <1>6 DEF Weight, Holders, One
  <2> QED BY <1>1, <2>2, <2>3 DEF Counted
<1>15. Quiet' /\ Sweep' BY <1>1, <1>2, <1>5, SweepSame
<1> QED
  BY <1>5, <1>7, <1>9, <1>10, <1>11, <1>12, <1>13, <1>14, <1>15 DEF IInv, Heap, Held

LEMMA StepEndGarbage ==
    ASSUME IInv, EndDestructor, Top.kind # "base"
    PROVE  IInv'
<1> DEFINE b == Top.block
<1>1. /\ Stack /\ HeapType /\ Linked /\ Held /\ Quiet /\ Sweep
      /\ Flagged /\ Settled /\ Unheld /\ NoDangling /\ Counted
      /\ Allocated \subseteq Blocks /\ Called \subseteq Allocated
  BY Parts
<1>2. /\ frames # <<>> /\ Top.phase = "destructor"
      /\ s_bCollecting' = Top.saved /\ frames' = Below
      /\ uiFlags' = [uiFlags EXCEPT ![b] = 3]
      /\ ulHolders' = [ulHolders EXCEPT ![b] = @ - 1]
      /\ pItems' = [pItems EXCEPT ![b] = {}]
      /\ UNCHANGED <<list, locked, s_uUsedFlag, used, deleted, roots>>
  BY DEF EndDestructor, InDestructor, FreeItems, gc
<1>3. Top.kind = "garbage" /\ b \in Called /\ b \in Swept
  <2>1. Top \in Frames /\ Top.kind # "collect" BY <1>1, <1>2, TopFacts
  <2>2. Top.kind = "garbage" BY <2>1 DEF Frames
  <2> QED BY <1>1, <1>2, <2>2, TopFacts
<1>4. b \notin Released /\ b \in Blocks /\ b \in Allocated /\ b \in deleted
  BY <1>1, <1>3, CallSets DEF Settled
<1>5. /\ Stack'
      /\ Called' = Called \ {b} /\ Released' = Released \ {b}
      /\ Swept' = Swept \ {b} /\ Selves' = Selves \ {b}
      /\ Collecting' <=> Collecting
      /\ Collecting => frames'[1] = frames[1]
  BY <1>1, <1>2, <1>3, Popped
<1>6. UNCHANGED <<Listed, Allocated>> BY <1>2, AllocatedSame
<1> HIDE DEF b
<1>7. ulHolders[b] \in Nat /\ ulHolders[b] - 1 \in Nat
  <2>1. ulHolders[b] >= Weight(b) + One(b \in Swept) BY <1>1, <1>3, <1>4 DEF Counted
  <2>2. One(b \in Swept) = 1 BY <1>3 DEF One
  <2>3. Weight(b) \in Nat /\ ulHolders[b] \in Nat BY <1>1, <1>4, WeightType, HeapTypes
  <2> QED BY <2>1, <2>2, <2>3
<1>8. HeapType' BY <1>1, <1>2, <1>7 DEF HeapType
<1>9. \A c \in Blocks : /\ uiFlags'[c] = IF c = b THEN 3 ELSE uiFlags[c]
                        /\ pItems'[c] = IF c = b THEN {} ELSE pItems[c]
                        /\ c # b => ulHolders'[c] = ulHolders[c]
  BY <1>1, <1>2 DEF HeapType
<1>10. Linked' BY <1>1, <1>2, <1>9, LinkedSame
<1>11. Flagged' BY <1>1, <1>4, <1>5, <1>6, <1>9 DEF Flagged
<1>12. Settled' BY <1>1, <1>2, <1>4, <1>5, <1>6, <1>9 DEF Settled
<1>13. Unheld' BY <1>1, <1>2, <1>4, <1>5, <1>6, <1>9 DEF Unheld
<1>14. NoDangling' BY <1>1, <1>2, <1>5, <1>6, <1>9 DEF NoDangling
<1>15. Counted'
  <2> SUFFICES ASSUME NEW c \in Allocated, uiFlags'[c] = 0 \/ c \in Swept'
               PROVE  ulHolders'[c] >= Weight(c)' + One(c \in Swept')
    BY <1>6 DEF Counted, One
  <2>1. c # b /\ c \in Blocks BY <1>1, <1>5, <1>9
  <2>2. ulHolders'[c] = ulHolders[c] /\ uiFlags'[c] = uiFlags[c] /\ ulHolders[c] \in Nat
    BY <1>1, <1>9, <2>1, HeapTypes
  <2>3. One(c \in Swept') = One(c \in Swept) /\ One(c \in Swept) \in Nat
    BY <1>5, <2>1 DEF One
  <2>4. ulHolders[c] >= Weight(c) + One(c \in Swept) BY <1>1, <1>5, <2>2 DEF Counted
  <2>5. Weight(c)' <= Weight(c) /\ Weight(c) \in Nat /\ Weight(c)' \in Nat
    BY <1>1, <1>2, <1>6, <1>9, HeldLess
  <2> QED BY <2>2, <2>3, <2>4, <2>5
<1>16. Quiet' /\ Sweep'
  <2>1. \A a \in Allocated : pItems'[a] \subseteq pItems[a] BY <1>1, <1>9
  <2> QED BY <1>1, <1>2, <1>5, <2>1, SweepSame
<1> QED
  BY <1>5, <1>8, <1>10, <1>11, <1>12, <1>13, <1>14, <1>15, <1>16 DEF IInv, Heap, Held

\* The items that hb_arrayReleaseBase does not clear are those of the block
\* that hold the block itself.
LEMMA StepReleaseItem ==
    ASSUME IInv, NEW b \in Blocks, ReleaseItem(b)
    PROVE  IInv'
<1> DEFINE t == Top.block
<1>1. /\ Stack /\ HeapType /\ Linked /\ Held /\ Quiet /\ Sweep
      /\ Flagged /\ Settled /\ Unheld /\ NoDangling /\ Counted
      /\ Allocated \subseteq Blocks /\ Called \subseteq Allocated
  BY Parts
<1>2. /\ frames # <<>> /\ Top.kind = "base" /\ Top.phase = "items"
      /\ b \in pItems[t]
      /\ pItems' = [pItems EXCEPT ![t] = @ \ {b}]
      /\ UNCHANGED <<list, locked, s_uUsedFlag, used, deleted, roots>>
  BY DEF ReleaseItem, TopIs, gc
<1>3. t \in Called /\ t \in Released /\ t \notin Selves BY <1>1, <1>2, TopFacts
<1>4. t \in Allocated /\ t \in Blocks /\ t \notin Swept /\ uiFlags[t] = 3
  BY <1>1, <1>3, CallSets DEF Flagged
<1> HIDE DEF t
<1>5. /\ \A c \in Blocks : pItems'[c] = IF c = t THEN pItems[t] \ {b} ELSE pItems[c]
      /\ \A c \in Blocks : pItems'[c] \subseteq pItems[c]
      /\ b \notin pItems'[t]
  BY <1>1, <1>2, <1>4 DEF HeapType
<1>6. roots' \subseteq roots BY <1>2
<1>7. CASE b # t
  <2>1. ClearItem(b) BY <1>7 DEF ReleaseItem, t
  <2>2. HeapType' BY <1>1, <1>2, <2>1, ClearTypes DEF HeapType
  <2>3. b \in Allocated BY <1>1, <1>2, <1>4 DEF NoDangling
  <2> QED BY <1>2, <1>4, <1>5, <1>6, <2>1, <2>2, <2>3, Cleared
<1>8. CASE b = t
  <2>1. UNCHANGED <<ulHolders, uiFlags, frames, s_bCollecting>>
    BY <1>8 DEF ReleaseItem, t
  <2>2. /\ Stack'
        /\ UNCHANGED <<Called, Selves, Released, Swept, Collecting>>
        /\ frames'[1] = frames[1]
    BY <1>1, <2>1, StackSame
  <2>3. UNCHANGED <<Listed, Allocated>> BY <1>2, AllocatedSame
  <2>4. HeapType' BY <1>1, <1>2, <1>5, <2>1 DEF HeapType
  <2>5. Linked' BY <1>1, <1>2, <1>5, LinkedSame
  <2>6. Flagged' BY <1>1, <2>1, <2>2, <2>3 DEF Flagged
  <2>7. Settled' BY <1>1, <1>2, <1>5, <2>1, <2>2, <2>3 DEF Settled
  <2>8. Unheld' BY <1>1, <1>2, <1>5, <2>2, <2>3 DEF Unheld
  <2>9. NoDangling' BY <1>1, <1>2, <1>5, <2>2, <2>3 DEF NoDangling
  <2>10. Counted'
    <3> SUFFICES ASSUME NEW c \in Allocated, uiFlags[c] = 0 \/ c \in Swept
                 PROVE  ulHolders[c] >= Weight(c)' + One(c \in Swept)
      BY <2>1, <2>2, <2>3 DEF Counted, One
    <3>1. ulHolders[c] >= Weight(c) + One(c \in Swept) /\ ulHolders[c] \in Nat
      BY <1>1, HeapTypes DEF Counted
    <3>2. One(c \in Swept) \in Nat BY DEF One
    <3>3. Weight(c)' <= Weight(c) /\ Weight(c) \in Nat /\ Weight(c)' \in Nat
      BY <1>1, <1>5, <1>6, <2>3, HeldLess
    <3> QED BY <3>1, <3>2, <3>3
  <2>11. Quiet' /\ Sweep'
    <3>1. \A a \in Allocated : pItems'[a] \subseteq pItems[a] BY <1>1, <1>5
    <3> QED BY <1>1, <1>2, <2>2, <3>1, SweepSame
  <2> QED BY <2>2, <2>4, <2>5, <2>6, <2>7, <2>8, <2>9, <2>10, <2>11 DEF IInv, Heap, Held
<1> QED BY <1>7, <1>8

\* A block that nobody holds is freed.
LEMMA Freed ==
    ASSUME IInv, NEW b \in Allocated, FreeBlock(b),
           list' \in Seq(Blocks), Once(list'), Listed' = Listed \ {b},
           locked' = locked \ {b}, UNCHANGED <<s_uUsedFlag, roots>>,
           Called' = Called \ {b}, Released' = Released \ {b},
           Swept' = Swept, Selves' = Selves \ {b}, b \notin Swept,
           b \notin roots, \A a \in Allocated : a # b => b \notin pItems[a],
           deleted' = deleted \ {b}
    PROVE  /\ Heap' /\ Allocated' = Allocated \ {b}
           /\ \A c \in Blocks : c # b => used'[c] = used[c] /\ pItems'[c] = pItems[c]
<1>1. /\ HeapType /\ Linked
      /\ Flagged /\ Settled /\ Unheld /\ NoDangling /\ Counted
      /\ Allocated \subseteq Blocks
  BY Parts
<1>2. Allocated' = Allocated \ {b} BY DEF Allocated
<1>3. b \in Blocks BY <1>1
<1>4. /\ \A c \in Blocks : c # b => /\ uiFlags'[c] = uiFlags[c] /\ used'[c] = used[c]
                                    /\ pItems'[c] = pItems[c]
                                    /\ ulHolders'[c] = ulHolders[c]
      /\ pItems'[b] = {}
  BY <1>1, <1>3 DEF FreeBlock, FreeItems, HeapType
<1>5. HeapType' BY <1>1 DEF HeapType, FreeBlock, FreeItems
<1>6. Linked' BY <1>1, <1>2, <1>4 DEF Linked
<1>7. Flagged' BY <1>1, <1>2, <1>4 DEF Flagged
<1>8. Settled' BY <1>1, <1>2, <1>4 DEF Settled
<1>9. Unheld' BY <1>1, <1>2, <1>4 DEF Unheld
<1>10. NoDangling' BY <1>1, <1>2, <1>4 DEF NoDangling
<1>11. Counted'
  <2> SUFFICES ASSUME NEW c \in Allocated, c # b, uiFlags'[c] = 0 \/ c \in Swept
               PROVE  ulHolders'[c] >= Weight(c)' + One(c \in Swept)
    BY <1>2 DEF Counted, One
  <2>1. ulHolders'[c] = ulHolders[c] /\ uiFlags'[c] = uiFlags[c] /\ ulHolders[c] \in Nat
    BY <1>1, <1>4, HeapTypes
  <2>2. ulHolders[c] >= Weight(c) + One(c \in Swept) BY <1>1, <2>1 DEF Counted
  <2>3. One(c \in Swept) \in Nat BY DEF One
  <2>4. Weight(c)' <= Weight(c) /\ Weight(c) \in Nat /\ Weight(c)' \in Nat
    <3>1. \A a \in Blocks : pItems'[a] \subseteq pItems[a] BY <1>4
    <3>2. Allocated' \subseteq Allocated /\ roots' \subseteq roots BY <1>2
    <3> QED BY <1>1, <3>1, <3>2, HeldLess
  <2> QED BY <2>1, <2>2, <2>3, <2>4
<1> QED
  BY <1>2, <1>4, <1>5, <1>6, <1>7, <1>8, <1>9, <1>10, <1>11 DEF Heap, Held

LEMMA StepFree ==
    ASSUME IInv, Free
    PROVE  IInv'
<1> DEFINE b == Top.block
<1>1. /\ Stack /\ HeapType /\ Linked /\ Held /\ Quiet /\ Sweep
      /\ Flagged /\ Settled /\ Unheld /\ NoDangling /\ Counted
      /\ Allocated \subseteq Blocks /\ Called \subseteq Allocated /\ Once(list)
      /\ Listed \subseteq Allocated /\ deleted \subseteq Listed
  BY Parts
<1>2. /\ frames # <<>> /\ Top.kind = "base" /\ Top.phase = "items"
      /\ pItems[b] = {} /\ frames' = Below
      /\ UNCHANGED <<s_uUsedFlag, deleted, s_bCollecting, roots>>
  BY DEF Free, TopIs
<1>3. b \in Called /\ b \in Released /\ b \notin Selves /\ Top.kind # "collect"
  BY <1>1, <1>2, TopFacts
<1>4. b \in Allocated /\ b \in Blocks /\ b \notin Swept /\ uiFlags[b] = 3
  BY <1>1, <1>3, CallSets DEF Flagged
<1>5. /\ Stack'
      /\ Called' = Called \ {b} /\ Released' = Released \ {b}
      /\ Swept' = Swept /\ Selves' = Selves \ {b}
      /\ Collecting' <=> Collecting
      /\ Collecting => frames'[1] = frames[1]
  <2>1. Swept \ {b} = Swept BY <1>4
  <2> QED BY <1>1, <1>2, <1>3, <2>1, Popped
<1>6. CASE b \in deleted
  <2>1. UNCHANGED <<list, locked, used, ulHolders, uiFlags, pItems>>
    BY <1>6 DEF Free, heap
  <2>2. UNCHANGED <<Listed, Allocated>> BY <2>1, AllocatedSame
  <2> HIDE DEF b
  <2>3. HeapType' BY <1>1, <1>2, <2>1 DEF HeapType
  <2>4. Linked' BY <1>1, <2>1, LinkedSame
  <2>5. Flagged' BY <1>1, <1>3, <1>5, <2>1, <2>2 DEF Flagged
  <2>6. Settled' BY <1>1, <1>2, <1>4, <1>5, <1>6, <2>1, <2>2 DEF Settled
  <2>7. Unheld' BY <1>1, <1>2, <1>5, <2>1, <2>2 DEF Unheld
  <2>8. NoDangling' BY <1>1, <1>2, <1>5, <2>1, <2>2 DEF NoDangling
  <2>9. Counted' BY <1>1, <1>2, <1>5, <2>1, <2>2 DEF Counted, Weight, Holders
  <2>10. Quiet' /\ Sweep' BY <1>1, <1>2, <1>5, <2>1, SweepSame
  <2> QED BY <1>5, <2>3, <2>4, <2>5, <2>6, <2>7, <2>8, <2>9, <2>10 DEF IInv, Heap, Held
<1>7. CASE b \notin deleted
  <2>1. /\ list' = IF b \in locked THEN list ELSE Unlink(b)
        /\ locked' = locked \ {b} /\ FreeBlock(b)
    BY <1>7 DEF Free
  <2> HIDE DEF b
  <2>2. /\ list' \in Seq(Blocks) /\ Once(list') /\ Listed' = Listed \ {b}
        /\ list # <<>> /\ list[1] # b => list' # <<>> /\ list'[1] = list[1]
        /\ \A start, D : Past(list, start, D) => Past(list', start, D)
    <3>1. CASE b \in locked
      <4>1. list' = list /\ b \notin Listed BY <1>1, <2>1, <3>1 DEF Linked
      <4> QED BY <1>1, <1>2, <4>1 DEF HeapType, Once, Listed, Past
    <3>2. CASE b \notin locked
      <4>1. b \in Listed /\ list' = Unlink(b) BY <1>4, <2>1, <3>2 DEF Allocated
      <4>2. /\ list' \in Seq(Blocks) /\ Once(list') /\ Listed' = Listed \ {b}
            /\ list[1] # b => list' # <<>> /\ list'[1] = list[1]
        BY <1>1, <4>1, Unlinked
      <4>3. ASSUME NEW start, NEW D, Past(list, start, D) PROVE Past(list', start, D)
        BY <1>1, <1>2, <4>1, <4>3, PastUnlinked
      <4> QED BY <4>2, <4>3
    <3> QED BY <3>1, <3>2
  <2>3. b \notin roots /\ \A a \in Allocated : a # b => b \notin pItems[a]
    BY <1>1, <1>3 DEF Unheld
  <2>4. deleted' = deleted \ {b} BY <1>2, <1>7
  <2>5. /\ Heap' /\ Allocated' = Allocated \ {b}
        /\ \A c \in Blocks : c # b => used'[c] = used[c] /\ pItems'[c] = pItems[c]
    BY <1>2, <1>4, <1>5, <2>1, <2>2, <2>3, <2>4, Freed
  <2>6. Quiet' BY <1>1, <1>2, <1>5, <2>5 DEF Quiet
  <2>7. ASSUME Collecting PROVE Sweep'
    <3> DEFINE D == frames[1].doomed
               start == frames[1].block
    <3>1. frames'[1] = frames[1] BY <1>5, <2>7
    <3>2. frames[1].phase = "advance" BY <1>1, <1>3, <2>7, ScanWaits
    <3>3. Barrier(D) /\ Scan(start, "advance", D) BY <1>1, <2>7, <3>2 DEF Sweep
    <3> HIDE DEF D, start
    <3>4. list # <<>> /\ Past(list, start, D \ deleted) /\ list[1] \in deleted
        BY <3>3 DEF Scan
    <3>5. /\ deleted \subseteq D /\ deleted \subseteq Listed'
          /\ (locked' \cup roots) \cap D = {}
          /\ \A a \in Allocated' : a \notin D => pItems'[a] \cap D = {}
          /\ \A a \in Allocated' : used'[a] = s_uUsedFlag <=> a \in D
      BY <1>1, <1>2, <1>7, <2>1, <2>2, <2>5, <3>3 DEF Barrier
    <3>6. list' # <<>> /\ list'[1] = list[1] BY <1>7, <2>2, <3>4
    <3>7. Past(list', start, D \ deleted) BY <2>2, <3>4
    <3>8. Barrier(frames[1].doomed)' BY <1>2, <3>1, <3>5 DEF Barrier, D
    <3>9. Scan(frames[1].block, frames[1].phase, frames[1].doomed)'
      BY <1>2, <3>1, <3>2, <3>4, <3>6, <3>7 DEF Scan, D, start
    <3> QED BY <3>8, <3>9 DEF Sweep
  <2>8. Sweep' BY <1>5, <2>7 DEF Sweep
  <2> QED BY <1>5, <2>5, <2>6, <2>8 DEF IInv
<1> QED BY <1>6, <1>7

-----------------------------------------------------------------------------
(* hb_gcCollectAll.                                                        *)

LEMMA StepCollect ==
    ASSUME Calm, IInv, Collect
    PROVE  IInv'
<1> DEFINE from == roots \cup Selves \cup locked
           R == Reached(from, Allocated)
<1>1. /\ Stack /\ HeapType /\ Linked /\ Held /\ Quiet /\ NoDangling
      /\ Allocated \subseteq Blocks /\ Once(list) /\ locked \subseteq Allocated
  BY Parts
<1> PICK D : D = Allocated \ R OBVIOUS
<1> PICK start : start = Head(list) OBVIOUS
<1> DEFINE f == Collection(start, D)
<1>2. /\ ProgramRuns /\ list # <<>>
      /\ used' = [b \in Blocks |-> IF b \in Reached(from, Unmarked)
                                   THEN ~used[b] ELSE used[b]]
      /\ frames' = Append(frames, f) /\ s_bCollecting' = TRUE
      /\ UNCHANGED <<list, locked, s_uUsedFlag, deleted, ulHolders, uiFlags, pItems, roots>>
  BY DEF Collect, heap
<1>3. frames = <<>>
  <2>1. s_bCollecting \in BOOLEAN BY <1>1 DEF Stack
  <2>2. s_bCollecting # TRUE BY DEF Collect, Calm
  <2> QED BY <1>1, <1>2, <2>1, <2>2, ProgramCollects
<1>4. start = list[1] /\ start \in Blocks
  <2>1. list[1] \in Listed /\ Head(list) = list[1] BY <1>1, <1>2, FirstListed
  <2> QED BY <1>1, <2>1 DEF Allocated
<1>5. /\ f \in Frames /\ f.kind = "collect" /\ f.phase = "cleanup"
      /\ f.block = start /\ f.doomed = D
  <2>1. s_bCollecting \in BOOLEAN BY <1>1 DEF Stack
  <2> HIDE DEF R
  <2> QED BY <1>1, <1>4, <2>1 DEF Collection, Frames
<1> HIDE DEF f
<1>6. /\ Stack' /\ Collecting' /\ ~Collecting
      /\ UNCHANGED <<Called, Released, Swept, Selves>>
      /\ frames'[1] = f
  BY <1>1, <1>2, <1>3, <1>5, Begun
<1>7. deleted = {} /\ \A b \in Allocated : used[b] = s_uUsedFlag BY <1>1, <1>6 DEF Quiet
<1>8. Unmarked = Allocated BY <1>7 DEF Unmarked
<1>9. /\ R \subseteq Allocated /\ roots \subseteq R /\ locked \subseteq R
      /\ \A a \in R : pItems[a] \subseteq R
  <2>1. R \subseteq Allocated /\ from \cap Allocated \subseteq R
        /\ \A a \in R : pItems[a] \cap Allocated \subseteq R
    BY ReachedWithin
  <2>2. roots \subseteq from \cap Allocated /\ locked \subseteq from \cap Allocated
    BY <1>1 DEF NoDangling
  <2> HIDE DEF R, from
  <2> QED BY <1>1, <2>1, <2>2 DEF NoDangling
<1>10. used' = [b \in Blocks |-> IF b \in R THEN ~used[b] ELSE used[b]]
  BY <1>2, <1>8
<1> HIDE DEF R, from
<1>11. UNCHANGED <<Listed, Allocated>> BY <1>2, AllocatedSame
<1>12. used' \in [Blocks -> BOOLEAN] BY <1>1, <1>10 DEF HeapType
<1>13. HeapType' BY <1>1, <1>2, <1>12 DEF HeapType
<1>14. Linked' BY <1>1, <1>2, LinkedSame
<1>15. Held' BY <1>1, <1>2, <1>6, <1>11, HeldSame
<1>16. Quiet' BY <1>6 DEF Quiet
<1>17. Barrier(D)'
  <2>1. \A b \in Allocated : used'[b] = s_uUsedFlag <=> b \notin R
    BY <1>1, <1>7, <1>10 DEF HeapType
  <2>2. \A a \in Allocated : a \notin D => pItems[a] \cap D = {}
    BY <1>9
  <2>3. (locked \cup roots) \cap D = {} BY <1>9
  <2> QED BY <1>2, <1>7, <1>11, <2>1, <2>2, <2>3 DEF Barrier
<1>18. Scan(start, "cleanup", D)'
  <2>1. Past(list, start, D \ deleted)
    <3>1. \A j \in 2..Len(list) : list[j] # list[1]
      <4> DEFINE n == Len(list)
      <4>1. n \in Nat BY <1>1, ListFacts
      <4>2. \A i, j \in 1..n : list[i] = list[j] => i = j BY <1>1 DEF Once
      <4> HIDE DEF n
      <4>3. \A j \in 2..n : j \in 1..n /\ 1 \in 1..n /\ j # 1 BY <4>1
      <4> QED BY <4>2, <4>3 DEF n
    <3>2. \A i \in 1..Len(list) : \A j \in 2..i : j \in 2..Len(list)
      BY <1>1, ListFacts
    <3> QED BY <1>4, <3>1, <3>2 DEF Past
  <2> QED BY <1>2, <1>11, <2>1 DEF Scan
<1>19. Sweep' BY <1>2, <1>5, <1>6, <1>17, <1>18 DEF Sweep
<1> QED BY <1>6, <1>13, <1>14, <1>15, <1>16, <1>19 DEF IInv, Heap

\* The scan goes on with the next block, and is done when that is the first.
LEMMA Rescan ==
    ASSUME IInv, frames # <<>>, Top.kind = "collect", list # <<>>, list' = Rotated,
           frames' = Phase(NextPhase), Heap', Allocated' = Allocated,
           UNCHANGED <<locked, s_uUsedFlag, s_bCollecting, used, roots>>,
           deleted' \subseteq deleted \cup {list[1]}, deleted \subseteq deleted',
           Top.phase # "release",
           list[1] \in frames[1].doomed <=> list[1] \in deleted',
           \A a \in Blocks : pItems'[a] \subseteq pItems[a]
    PROVE  IInv'
<1>1. /\ Stack /\ HeapType /\ Sweep /\ Once(list) /\ Allocated \subseteq Blocks
      /\ Linked
  BY Parts
<1>2. NextPhase \in {"release", "cleanup"} BY DEF NextPhase
<1>3. /\ Stack' /\ Collecting' /\ Collecting /\ Top = frames[1]
      /\ frames'[1].phase = NextPhase /\ frames'[1].block = frames[1].block
      /\ frames'[1].doomed = frames[1].doomed
  BY <1>1, <1>2, Rescanned
<1> PICK D : D = frames[1].doomed OBVIOUS
<1> PICK start : start = frames[1].block OBVIOUS
<1>4. Barrier(D) /\ Scan(start, frames[1].phase, D) BY <1>1, <1>3 DEF Sweep
<1>5. Past(list, start, D \ deleted) BY <1>3, <1>4 DEF Scan
<1>6. list' # <<>> /\ Listed' = Listed BY <1>1, Turned
<1>7. Barrier(D)'
  <2>1. list[1] \in Listed BY <1>1, FirstListed
  <2> QED BY <1>1, <1>4, <1>6, <2>1 DEF Barrier
<1>8. /\ Head(Rotated) # start => Past(list', start, (D \ deleted) \ {list[1]})
      /\ Head(Rotated) = start => (D \ deleted) \cap Listed \subseteq {list[1]}
  BY <1>1, <1>5, NextScan
<1>9. (D \ deleted) \ {list[1]} = D \ deleted' OBVIOUS
<1>10. CASE NextPhase = "cleanup"
  <2>1. Head(Rotated) # start BY <1>3, <1>10 DEF NextPhase
  <2> QED BY <1>3, <1>6, <1>7, <1>8, <1>9, <1>10, <2>1 DEF IInv, Quiet, Sweep, Scan
<1>11. CASE NextPhase = "release"
  <2>1. Head(Rotated) = start BY <1>3, <1>11 DEF NextPhase
  <2>2. D \cap Listed \subseteq deleted' BY <1>8, <2>1
  <2>3. D \cap Allocated \subseteq deleted' BY <1>4, <2>2 DEF Barrier, Allocated
  <2> QED BY <1>3, <1>7, <1>11, <2>3 DEF IInv, Quiet, Sweep, Scan
<1> QED BY <1>2, <1>10, <1>11

\* The first block of the list, when the scan is at it.
LEMMA AtFirst ==
    ASSUME IInv, frames # <<>>, Top.kind = "collect", Top.phase # "release"
    PROVE  /\ list # <<>> /\ list[1] \in Listed /\ Head(list) = list[1]
           /\ Collecting /\ Top = frames[1] /\ Called = {}
           /\ list[1] \in Unmarked <=> list[1] \in frames[1].doomed \ deleted
           /\ list[1] \notin deleted => uiFlags[list[1]] = 0
           /\ Top.phase = "advance" => list[1] \in deleted
           /\ deleted \subseteq frames[1].doomed
<1>1. Stack /\ HeapType /\ Sweep /\ Settled BY Parts
<1>2. Len(frames) = 1 /\ Collecting /\ Top = frames[1] BY <1>1, TopFacts DEF Top
<1>3. 1..Len(frames) = {1} BY <1>2
<1>4. Called = {} BY <1>1, <1>2, <1>3, NoCalls
<1>5. Barrier(frames[1].doomed) /\ list # <<>> /\ (Top.phase = "advance" => list[1] \in deleted)
  BY <1>1, <1>2 DEF Sweep, Scan
<1>6. list[1] \in Listed /\ Head(list) = list[1] BY <1>1, <1>5, FirstListed
<1>7. list[1] \in Allocated BY <1>6 DEF Allocated
<1>8. list[1] \in Unmarked <=> list[1] \in frames[1].doomed \ deleted
  BY <1>5, <1>7 DEF Barrier, Unmarked
<1>9. list[1] \notin deleted => uiFlags[list[1]] = 0 BY <1>1, <1>4, <1>7 DEF Settled
<1> QED BY <1>2, <1>4, <1>5, <1>6, <1>8, <1>9 DEF Barrier

LEMMA StepAdvance ==
    ASSUME IInv, Advance
    PROVE  IInv'
<1>1. /\ Stack /\ HeapType /\ Linked /\ Held /\ Once(list)
  BY Parts
<1>2. /\ frames # <<>> /\ Top.kind = "collect" /\ Top.phase = "advance"
      /\ list' = Rotated /\ frames' = Phase(NextPhase)
      /\ UNCHANGED <<locked, s_uUsedFlag, s_bCollecting, used, deleted, roots>>
      /\ UNCHANGED <<ulHolders, uiFlags, pItems>>
  BY DEF Advance, TopIs, gc, heap
<1>3. /\ list # <<>> /\ list[1] \in deleted /\ deleted \subseteq frames[1].doomed
  BY <1>2, AtFirst
<1>4. list' \in Seq(Blocks) /\ Once(list') /\ Listed' = Listed BY <1>1, <1>2, <1>3, Turned
<1>5. Allocated' = Allocated BY <1>2, <1>4 DEF Allocated
<1>6. NextPhase \in {"release", "cleanup"} BY DEF NextPhase
<1>7. UNCHANGED <<Called, Released, Swept, Selves>> BY <1>1, <1>2, <1>6, Rescanned
<1>8. HeapType' BY <1>1, <1>2, <1>4 DEF HeapType
<1>9. Linked' BY <1>1, <1>2, <1>4, <1>5 DEF Linked
<1>10. Held' BY <1>1, <1>2, <1>5, <1>7, HeldSame
<1>11. Heap' BY <1>8, <1>9, <1>10 DEF Heap
<1> QED BY <1>2, <1>3, <1>5, <1>11, Rescan

\* The scan passes a block that it does not call, or frees its items.
LEMMA StepCleanupPass ==
    ASSUME IInv, Cleanup, ~(Head(list) \in Unmarked /\ Head(list) \in Objects)
    PROVE  IInv'
<1> DEFINE b == list[1]
<1>1. /\ Stack /\ HeapType /\ Linked /\ Held /\ Once(list)
      /\ Flagged /\ Settled /\ Unheld /\ NoDangling /\ Counted
      /\ Allocated \subseteq Blocks /\ Listed \subseteq Allocated
  BY Parts
<1>2. /\ frames # <<>> /\ Top.kind = "collect" /\ Top.phase = "cleanup"
      /\ UNCHANGED <<locked, s_uUsedFlag, s_bCollecting, used, roots>>
  BY DEF Cleanup, TopIs
<1>3. /\ list # <<>> /\ b \in Listed /\ Head(list) = b /\ Called = {}
      /\ b \in Unmarked <=> b \in frames[1].doomed \ deleted
      /\ b \notin deleted => uiFlags[b] = 0
      /\ deleted \subseteq frames[1].doomed
  BY <1>2, AtFirst
<1>4. b \in Allocated /\ b \in Blocks BY <1>1, <1>3
<1> HIDE DEF b
<1>5. /\ list' = Rotated /\ frames' = Phase(NextPhase) /\ UNCHANGED ulHolders
      /\ IF b \in Unmarked
         THEN /\ deleted' = deleted \cup {b} /\ uiFlags' = [uiFlags EXCEPT ![b] = 3]
              /\ pItems' = [pItems EXCEPT ![b] = {}]
         ELSE UNCHANGED <<deleted, uiFlags, pItems>>
  <2>1. CASE b \in Unmarked
    <3>1. b \notin Objects /\ uiFlags[b] = 0 BY <1>3, <2>1
    <3> QED BY <1>3, <2>1, <3>1 DEF Cleanup, FreeItems
  <2>2. CASE b \notin Unmarked BY <1>3, <2>2 DEF Cleanup, heap
  <2> QED BY <2>1, <2>2
<1>6. list' \in Seq(Blocks) /\ Once(list') /\ Listed' = Listed
  BY <1>1, <1>3, <1>5, Turned
<1>7. Allocated' = Allocated BY <1>2, <1>6 DEF Allocated
<1>8. NextPhase \in {"release", "cleanup"} BY DEF NextPhase
<1>9. /\ UNCHANGED <<Called, Released, Swept, Selves>> /\ Released = {} /\ Swept = {}
      /\ Selves = {}
  BY <1>1, <1>2, <1>5, <1>8, Rescanned
<1>10. HeapType'
  <2>1. {} \subseteq Blocks /\ deleted' \subseteq Blocks BY <1>1, <1>4, <1>5 DEF HeapType
  <2> QED BY <1>1, <1>2, <1>5, <1>6, <2>1 DEF HeapType
<1>11. /\ \A c \in Blocks : c # b => uiFlags'[c] = uiFlags[c] /\ pItems'[c] = pItems[c]
       /\ \A c \in Blocks : pItems'[c] \subseteq pItems[c]
       /\ b \in deleted' /\ b \notin deleted => uiFlags'[b] = 3 /\ pItems'[b] = {}
       /\ uiFlags'[b] = 0 => uiFlags[b] = 0
       /\ b \in deleted => uiFlags'[b] = uiFlags[b] /\ pItems'[b] = pItems[b]
       /\ b \notin deleted' => uiFlags'[b] = uiFlags[b]
  BY <1>1, <1>4, <1>5 DEF HeapType, Unmarked
<1>12. Linked' BY <1>1, <1>2, <1>6, <1>7, <1>11 DEF Linked
<1>13. Flagged' BY <1>3, <1>9 DEF Flagged
<1>14. Settled'
  <2>1. \A c \in Allocated : c # b => (c \in deleted' <=> c \in deleted) BY <1>5
  <2>2. deleted \subseteq deleted' BY <1>5
  <2> QED BY <1>1, <1>3, <1>7, <1>9, <1>11, <2>1, <2>2 DEF Settled
<1>15. Unheld' BY <1>9 DEF Unheld
<1>16. NoDangling' BY <1>1, <1>2, <1>7, <1>9, <1>11 DEF NoDangling
<1>17. Counted'
  <2> SUFFICES ASSUME NEW c \in Allocated, uiFlags'[c] = 0 \/ c \in Swept
               PROVE  ulHolders[c] >= Weight(c)' + One(c \in Swept)
    BY <1>5, <1>7, <1>9 DEF Counted, One
  <2>1. uiFlags[c] = 0 BY <1>1, <1>9, <1>11
  <2>2. ulHolders[c] >= Weight(c) + One(c \in Swept) /\ ulHolders[c] \in Nat
    BY <1>1, <2>1, HeapTypes DEF Counted
  <2>3. One(c \in Swept) \in Nat BY DEF One
  <2>4. Weight(c)' <= Weight(c) /\ Weight(c) \in Nat /\ Weight(c)' \in Nat
    BY <1>1, <1>2, <1>7, <1>11, HeldLess
  <2> QED BY <2>2, <2>3, <2>4
<1>18. Heap'
  BY <1>10, <1>12, <1>13, <1>14, <1>15, <1>16, <1>17 DEF Heap, Held
<1>19. deleted' \subseteq deleted \cup {b} /\ deleted \subseteq deleted' BY <1>5
<1>20. b \in frames[1].doomed <=> b \in deleted' BY <1>3, <1>5
<1>21. Top.phase # "release" BY <1>2
<1> QED BY <1>2, <1>3, <1>5, <1>7, <1>11, <1>18, <1>19, <1>20, <1>21, Rescan DEF b

\* The scan calls the destructor of an object.
LEMMA StepCleanupCall ==
    ASSUME IInv, Cleanup, Head(list) \in Unmarked, Head(list) \in Objects
    PROVE  IInv'
<1> DEFINE b == list[1]
<1>1. /\ Stack /\ HeapType /\ Linked /\ Held /\ Once(list) /\ Sweep
      /\ Flagged /\ Settled /\ Unheld /\ NoDangling /\ Counted
      /\ Allocated \subseteq Blocks /\ Listed \subseteq Allocated
  BY Parts
<1>2. /\ frames # <<>> /\ Top.kind = "collect" /\ Top.phase = "cleanup"
      /\ UNCHANGED <<locked, s_uUsedFlag, s_bCollecting, used, roots>>
  BY DEF Cleanup, TopIs
<1>3. /\ list # <<>> /\ b \in Listed /\ Head(list) = b /\ Called = {}
      /\ b \in Unmarked <=> b \in frames[1].doomed \ deleted
      /\ b \notin deleted => uiFlags[b] = 0
      /\ deleted \subseteq frames[1].doomed
      /\ Top = frames[1]
  BY <1>2, AtFirst
<1>4. b \in Allocated /\ b \in Blocks BY <1>1, <1>3
<1>5. uiFlags[b] = 0 /\ b \in frames[1].doomed /\ b \notin deleted BY <1>3
<1>6. /\ deleted' = deleted \cup {b}
      /\ uiFlags' = [uiFlags EXCEPT ![b] = 1]
      /\ ulHolders' = [ulHolders EXCEPT ![b] = @ + 1]
      /\ frames' = Append(Phase("advance"), Call("garbage", b, "destructor"))
      /\ UNCHANGED <<list, pItems>>
  BY <1>3, <1>5 DEF Cleanup
<1>7. /\ Call("garbage", b, "destructor") \in Frames
      /\ Call("garbage", b, "destructor").kind = "garbage"
      /\ Call("garbage", b, "destructor").phase = "destructor"
      /\ Call("garbage", b, "destructor").saved = s_bCollecting
      /\ Call("garbage", b, "destructor").block = b
  <2>1. s_bCollecting \in BOOLEAN BY <1>1 DEF Stack
  <2> HIDE DEF b
  <2> QED BY <1>4, <2>1 DEF Call, Frames
<1> HIDE DEF b
<1>8. /\ Stack' /\ Collecting' /\ Collecting
      /\ Swept = {}
      /\ Called' = {b} /\ Released' = {} /\ Swept' = {b} /\ Selves' = {b}
      /\ frames'[1].phase = "advance" /\ frames'[1].block = frames[1].block
      /\ frames'[1].doomed = frames[1].doomed
  <2> DEFINE f == Call("garbage", b, "destructor")
  <2>1. /\ f \in Frames /\ f.kind = "garbage" /\ f.phase = "destructor"
        /\ f.saved = s_bCollecting /\ f.block = b /\ frames' = Append(Phase("advance"), f)
    BY <1>6, <1>7
  <2> HIDE DEF f
  <2> QED BY <1>1, <1>2, <2>1, SweptOne
<1>9. UNCHANGED <<Listed, Allocated>> BY <1>2, <1>6, AllocatedSame
<1>10. ulHolders[b] \in Nat /\ ulHolders[b] + 1 \in Nat BY <1>1, <1>4 DEF HeapType
<1>11. HeapType'
  <2>1. deleted' \subseteq Blocks BY <1>1, <1>4, <1>6 DEF HeapType
  <2> QED BY <1>1, <1>2, <1>6, <1>10, <2>1 DEF HeapType
<1>12. \A c \in Blocks :
          /\ uiFlags'[c] = IF c = b THEN 1 ELSE uiFlags[c]
          /\ ulHolders'[c] = IF c = b THEN ulHolders[b] + 1 ELSE ulHolders[c]
  BY <1>1, <1>6 DEF HeapType
<1>13. Linked' BY <1>1, <1>2, <1>6, LinkedSame
<1>14. Flagged' BY <1>4, <1>8, <1>9, <1>12 DEF Flagged
<1>15. Settled'
  <2>1. \A c \in Allocated : c # b => (c \in deleted' <=> c \in deleted) BY <1>6
  <2>2. Swept' \subseteq deleted' BY <1>6, <1>8
  <2> QED BY <1>1, <1>3, <1>6, <1>8, <1>9, <1>12, <2>1, <2>2 DEF Settled
<1>16. Unheld' BY <1>8 DEF Unheld
<1>17. NoDangling' BY <1>1, <1>2, <1>4, <1>6, <1>8, <1>9 DEF NoDangling
<1>18. Counted'
  <2> SUFFICES ASSUME NEW c \in Allocated, uiFlags'[c] = 0 \/ c = b
               PROVE  ulHolders'[c] >= Weight(c) + One(c = b)
    <3>1. \A c : Weight(c)' = Weight(c) BY <1>2, <1>6, <1>9 DEF Weight, Holders, One
    <3>2. \A c : One(c \in Swept)' = One(c = b) BY <1>8 DEF One
    <3> QED BY <1>8, <1>9, <3>1, <3>2 DEF Counted
  <2>1. uiFlags[c] = 0 BY <1>1, <1>5, <1>12
  <2>2. ulHolders[c] >= Weight(c) + One(c \in Swept) /\ ulHolders[c] \in Nat
    BY <1>1, <2>1, HeapTypes DEF Counted
  <2>3. One(c \in Swept) = 0 /\ Weight(c) \in Nat BY <1>1, <1>8, WeightType DEF One
  <2>4. ulHolders'[c] = ulHolders[c] + One(c = b) /\ One(c = b) \in Nat
    BY <1>1, <1>12, <2>2 DEF One
  <2> QED BY <2>2, <2>3, <2>4
<1>19. Quiet' BY <1>8 DEF Quiet
<1>20. Sweep'
  <2> PICK D : D = frames[1].doomed OBVIOUS
  <2> PICK start : start = frames[1].block OBVIOUS
  <2>1. Barrier(D) /\ Scan(start, "cleanup", D) BY <1>1, <1>2, <1>3, <1>8 DEF Sweep
  <2>2. Barrier(D)'
    <3>1. deleted' \subseteq D /\ deleted' \subseteq Listed
        BY <1>3, <1>5, <1>6, <2>1 DEF Barrier
    <3> QED BY <1>2, <1>6, <1>9, <2>1, <3>1 DEF Barrier
  <2>3. Scan(start, "advance", D)'
    <3>1. Past(list, start, D \ deleted) /\ list # <<>> BY <2>1 DEF Scan
    <3>2. D \ deleted' \subseteq D \ deleted BY <1>6
    <3>3. Past(list, start, D \ deleted') BY <3>1, <3>2 DEF Past
    <3>4. list[1] \in deleted' BY <1>6 DEF b
    <3> QED BY <1>6, <3>1, <3>3, <3>4 DEF Scan
  <2> QED BY <1>8, <2>2, <2>3 DEF Sweep
<1> QED
  BY <1>8, <1>11, <1>13, <1>14, <1>15, <1>16, <1>17, <1>18, <1>19, <1>20
  DEF IInv, Heap, Held

\* The collection when its scan is done.
LEMMA AtRelease ==
    ASSUME IInv, TopIs("collect", "release")
    PROVE  /\ frames # <<>> /\ Collecting /\ Top = frames[1]
           /\ Called = {} /\ Released = {} /\ Swept = {} /\ Selves = {}
           /\ Barrier(frames[1].doomed) /\ frames[1].phase = "release"
           /\ frames[1].doomed \cap Allocated \subseteq deleted
<1>1. Stack /\ Sweep BY Parts
<1>2. frames # <<>> /\ Top.kind = "collect" /\ Top.phase = "release" BY DEF TopIs
<1>3. Len(frames) = 1 /\ Collecting /\ Top = frames[1] BY <1>1, <1>2, TopFacts DEF Top
<1>4. 1..Len(frames) = {1} BY <1>3
<1>5. Called = {} /\ Released = {} /\ Swept = {} /\ Selves = {}
  BY <1>1, <1>2, <1>3, <1>4, NoCalls
<1>6. Barrier(frames[1].doomed) /\ frames[1].doomed \cap Allocated \subseteq deleted
  BY <1>1, <1>2, <1>3 DEF Sweep, Scan
<1> QED BY <1>2, <1>3, <1>5, <1>6

LEMMA StepReleaseBlock ==
    ASSUME IInv, NEW b \in Blocks, ReleaseBlock(b)
    PROVE  IInv'
<1> PICK D : D = frames[1].doomed OBVIOUS
<1>1. /\ Stack /\ HeapType /\ Linked /\ Once(list) /\ NoDangling /\ Settled
      /\ Allocated \subseteq Blocks /\ Listed \subseteq Allocated
  BY Parts
<1>2. /\ TopIs("collect", "release") /\ b \in Listed /\ b \in deleted
      /\ list' = Unlink(b) /\ FreeBlock(b) /\ deleted' = deleted \ {b}
      /\ UNCHANGED <<locked, s_uUsedFlag, s_bCollecting, roots, frames>>
  BY DEF ReleaseBlock, Listed
<1>3. /\ Collecting /\ Called = {} /\ Released = {} /\ Swept = {} /\ Selves = {}
      /\ Barrier(D) /\ frames[1].phase = "release" /\ D \cap Allocated \subseteq deleted
  BY <1>2, AtRelease
<1>4. /\ Stack' /\ UNCHANGED <<Called, Selves, Released, Swept, Collecting>>
      /\ frames'[1] = frames[1]
  BY <1>1, <1>2, StackSame
<1>5. list' \in Seq(Blocks) /\ Once(list') /\ Listed' = Listed \ {b}
  BY <1>1, <1>2, Unlinked
<1>6. b \in Allocated /\ b \notin locked BY <1>1, <1>2 DEF Linked
<1>7. b \in D /\ b \notin roots BY <1>2, <1>3 DEF Barrier
<1>8. ASSUME NEW a \in Allocated, a # b PROVE b \notin pItems[a]
  <2>1. CASE a \notin D BY <1>3, <1>7, <2>1 DEF Barrier
  <2>2. CASE a \in D
    <3>1. a \in deleted /\ a \notin Called BY <1>3, <2>2
    <3>2. pItems[a] = {} BY <1>1, <3>1 DEF Settled
    <3> QED BY <3>2
  <2> QED BY <2>1, <2>2
<1>9. locked' = locked \ {b} BY <1>2, <1>6
<1>10. /\ Called' = Called \ {b} /\ Released' = Released \ {b}
       /\ Swept' = Swept /\ Selves' = Selves \ {b} /\ b \notin Swept
  BY <1>3, <1>4
<1>11. /\ Heap' /\ Allocated' = Allocated \ {b}
       /\ \A c \in Blocks : c # b => used'[c] = used[c] /\ pItems'[c] = pItems[c]
  BY <1>2, <1>5, <1>6, <1>7, <1>8, <1>9, <1>10, Freed
<1>12. Quiet' BY <1>3, <1>4 DEF Quiet
<1>13. Barrier(D)' BY <1>1, <1>2, <1>3, <1>5, <1>11 DEF Barrier
<1>14. Sweep' BY <1>2, <1>3, <1>4, <1>11, <1>13 DEF Sweep, Scan
<1> QED BY <1>4, <1>11, <1>12, <1>14 DEF IInv

LEMMA StepRelease ==
    ASSUME IInv, Release
    PROVE  IInv'
<1>1. /\ Stack /\ HeapType /\ Linked /\ Held /\ Allocated \subseteq Blocks
  BY Parts
<1>2. /\ TopIs("collect", "release") /\ deleted = {}
      /\ s_uUsedFlag' = ~s_uUsedFlag /\ s_bCollecting' = FALSE /\ frames' = Below
      /\ UNCHANGED <<list, locked, used, deleted, ulHolders, uiFlags, pItems, roots>>
  BY DEF Release, heap
<1>3. /\ Barrier(frames[1].doomed) /\ frames[1].doomed \cap Allocated \subseteq deleted
  BY <1>2, AtRelease
<1>4. /\ Stack' /\ ~Collecting' /\ UNCHANGED <<Called, Released, Swept, Selves>>
  <2>1. frames # <<>> /\ Top.kind = "collect" BY <1>2 DEF TopIs
  <2> QED BY <1>1, <1>2, <2>1, Ended
<1>5. UNCHANGED <<Listed, Allocated>> BY <1>2, AllocatedSame
<1>6. HeapType' BY <1>1, <1>2 DEF HeapType
<1>7. Linked' BY <1>1, <1>2, LinkedSame
<1>8. Held' BY <1>1, <1>2, <1>4, <1>5, HeldSame
<1>9. Quiet'
  <2>1. \A b \in Allocated : used[b] # s_uUsedFlag BY <1>2, <1>3 DEF Barrier
  <2>2. \A b \in Allocated : used[b] \in BOOLEAN BY <1>1 DEF HeapType
  <2>3. s_uUsedFlag \in BOOLEAN BY <1>1 DEF HeapType
  <2> QED BY <1>2, <1>5, <2>1, <2>2, <2>3 DEF Quiet
<1>10. Sweep' BY <1>4 DEF Sweep
<1> QED BY <1>4, <1>6, <1>7, <1>8, <1>9, <1>10 DEF IInv, Heap

-----------------------------------------------------------------------------
(* The invariant.                                                          *)

LEMMA InitInv == Init => IInv
<1> SUFFICES ASSUME Init PROVE IInv OBVIOUS
<1>1. /\ list = <<>> /\ Len(list) = 0 /\ list \in Seq(Blocks)
      /\ frames = <<>> /\ Len(frames) = 0 /\ frames \in Seq(Frames)
      /\ 1..Len(list) = {} /\ 1..Len(frames) = {}
  BY EmptySeq DEF Init
<1>2. Listed = {} /\ Allocated = {} BY <1>1 DEF Listed, Allocated, Init
<1>3. Called = {} /\ Released = {} /\ Swept = {} /\ Selves = {}
  BY <1>1 DEF Called, Calls, Released, Swept, Selves
<1>4. Stack BY <1>1 DEF Stack, Shape, Forbidden, Apart, Calls, Init
<1>5. HeapType BY <1>1 DEF HeapType, Init
<1>6. Linked BY <1>1, <1>2 DEF Linked, Once, Init
<1>7. Held
  BY <1>2, <1>3 DEF Held, Flagged, Settled, Unheld, NoDangling, Counted, Init
<1>8. ~Collecting BY <1>1 DEF Collecting
<1> QED BY <1>2, <1>4, <1>5, <1>6, <1>7, <1>8 DEF IInv, Heap, Quiet, Sweep, Init

LEMMA StutterInv ==
    ASSUME IInv, UNCHANGED vars
    PROVE  IInv'
<1>1. Stack /\ HeapType /\ Linked /\ Held /\ Quiet /\ Sweep BY Parts
<1>2. /\ UNCHANGED <<list, locked, s_uUsedFlag, s_bCollecting, used, deleted,
                     ulHolders, uiFlags, pItems, roots, frames>>
  BY DEF vars
<1>3. /\ Stack' /\ UNCHANGED <<Called, Selves, Released, Swept, Collecting>>
      /\ frames'[1] = frames[1]
  BY <1>1, <1>2, StackSame
<1>4. UNCHANGED <<Listed, Allocated>> BY <1>2, AllocatedSame
<1>5. HeapType' BY <1>1, <1>2 DEF HeapType
<1>6. Linked' BY <1>1, <1>2, LinkedSame
<1>7. Held' BY <1>1, <1>2, <1>3, <1>4, HeldSame
<1>8. Quiet' /\ Sweep' BY <1>1, <1>2, <1>3, SweepSame
<1> QED BY <1>3, <1>5, <1>6, <1>7, <1>8 DEF IInv, Heap

LEMMA StepInv == Calm /\ IInv /\ [Next]_vars => IInv'
<1> SUFFICES ASSUME Calm, IInv, [Next]_vars PROVE IInv' OBVIOUS
<1>1. ASSUME NEW b \in Blocks, New(b) \/ Get(b) \/ Drop(b) \/ Lock(b) \/ Unlock(b)
      PROVE  IInv'
  BY <1>1, StepNew, StepGet, StepDrop, StepLock
<1>2. ASSUME NEW a \in Blocks, NEW b \in Blocks, Store(a, b) \/ Remove(a, b)
      PROVE  IInv'
  BY <1>2, StepStore, StepRemove
<1>3. CASE EndDestructor BY <1>3, StepEndBase, StepEndGarbage
<1>4. CASE Free BY <1>4, StepFree
<1>5. ASSUME NEW b \in Blocks, ReleaseItem(b) \/ ReleaseBlock(b)
      PROVE  IInv'
  BY <1>5, StepReleaseItem, StepReleaseBlock
<1>6. CASE Collect BY <1>6, StepCollect
<1>7. CASE Cleanup BY <1>7, StepCleanupPass, StepCleanupCall
<1>8. CASE Advance BY <1>8, StepAdvance
<1>9. CASE Release BY <1>9, StepRelease
<1>10. CASE UNCHANGED vars BY <1>10, StutterInv
<1> QED
  BY <1>1, <1>2, <1>3, <1>4, <1>5, <1>6, <1>7, <1>8, <1>9, <1>10 DEF Next

\* The program that meets none of the hard cases keeps the invariant.
THEOREM Invariance == ASSUME Calm PROVE Spec => []IInv
<1>1. Init => IInv BY InitInv
<1>2. IInv /\ [Next]_vars => IInv' BY StepInv
<1> QED BY <1>1, <1>2, PTL DEF Spec

\* The variables have their types; no count of holders becomes negative.
THEOREM TypeCorrect == ASSUME Calm PROVE Spec => []TypeOK
<1>1. IInv => TypeOK BY Parts DEF TypeOK, HeapType, Stack
<1> QED BY <1>1, Invariance, PTL

\* No variable, no item and no Self holds a block that was freed.
THEOREM NothingDangles == ASSUME Calm PROVE Spec => []NoDangling
<1>1. IInv => NoDangling BY Parts
<1> QED BY <1>1, Invariance, PTL

\* A block that was not released has all its holders counted.
THEOREM HoldersAreCounted == ASSUME Calm PROVE Spec => []HoldersCounted
<1>1. ASSUME IInv PROVE HoldersCounted
  <2> SUFFICES ASSUME NEW b \in Allocated, uiFlags[b] = 0
               PROVE  ulHolders[b] >= Cardinality(Holders(b)) + Cardinality({b} \cap roots)
    BY DEF HoldersCounted, Holders
  <2>1. HeapType /\ Counted BY <1>1, Parts
  <2>2. ulHolders[b] >= Weight(b) + One(b \in Swept) /\ ulHolders[b] \in Nat
    BY <2>1, HeapTypes DEF Counted
  <2>3. One(b \in Swept) \in Nat /\ Weight(b) \in Nat BY <2>1, WeightType DEF One
  <2>4. Cardinality({b} \cap roots) = One(b \in roots)
    <3>1. CASE b \in roots
      <4>1. {b} \cap roots = {b} BY <3>1
      <4> QED BY <3>1, <4>1, FS_Singleton DEF One
    <3>2. CASE b \notin roots
      <4>1. {b} \cap roots = {} BY <3>2
      <4> QED BY <3>2, <4>1, FS_EmptySet DEF One
    <3> QED BY <3>1, <3>2
  <2> QED BY <2>2, <2>3, <2>4 DEF Weight
<1> QED BY <1>1, Invariance, PTL

\* Between two collections every block has the flag of an unused one, whatever
\* was allocated, locked and released in the last one.
THEOREM OneFlag == ASSUME Calm PROVE Spec => []SameFlag
<1>1. ASSUME IInv PROVE SameFlag
  <2>1. Stack /\ Quiet BY <1>1, Parts
  <2>2. Collections = {} => ~Collecting BY <2>1, Collects
  <2> QED BY <2>1, <2>2 DEF Quiet, SameFlag
<1> QED BY <1>1, Invariance, PTL

-----------------------------------------------------------------------------
(* What a step frees.                                                      *)

\* Two steps free a block: hb_gcFree of one that was released, and the release
\* scan of one that the cleanup scan has found.
LEMMA FreedBlocks ==
    ASSUME IInv, Next, ~Free, \A b \in Blocks : ~ReleaseBlock(b)
    PROVE  Allocated \subseteq Allocated'
<1>1. HeapType /\ Once(list) /\ Linked /\ Listed \subseteq Blocks BY Parts
<1>2. ASSUME UNCHANGED <<list, locked>> PROVE Allocated \subseteq Allocated'
  BY <1>2, AllocatedSame
<1>3. ASSUME list # <<>>, list' = Rotated, UNCHANGED locked
      PROVE  Allocated \subseteq Allocated'
  BY <1>1, <1>3, Turned DEF Allocated
<1>4. ASSUME NEW b \in Blocks, New(b) PROVE Allocated \subseteq Allocated'
  <2>1. b \notin Listed /\ list' = Append(list, b) /\ locked' = locked
    BY <1>4 DEF New, Allocated
  <2> QED BY <1>1, <2>1, Appended DEF Allocated
<1>5. ASSUME NEW b \in Blocks, Lock(b) PROVE Allocated \subseteq Allocated'
  <2>1. b \in Listed /\ list' = Unlink(b) /\ locked' = locked \cup {b} BY <1>5 DEF Lock
  <2> QED BY <1>1, <2>1, Unlinked DEF Allocated
<1>6. ASSUME NEW b \in Blocks, Unlock(b) PROVE Allocated \subseteq Allocated'
  <2>1. b \notin Listed /\ list' = Append(list, b) /\ locked' = locked \ {b}
    BY <1>1, <1>6 DEF Unlock, Linked
  <2> QED BY <1>1, <2>1, Appended DEF Allocated
<1>7. ASSUME NEW b \in Blocks, Get(b) \/ Drop(b) \/ ReleaseItem(b)
      PROVE  Allocated \subseteq Allocated'
  BY <1>2, <1>7 DEF Get, Drop, ReleaseItem
<1>8. ASSUME NEW a \in Blocks, NEW b \in Blocks, Store(a, b) \/ Remove(a, b)
      PROVE  Allocated \subseteq Allocated'
  BY <1>2, <1>8 DEF Store, Remove
<1>9. CASE EndDestructor \/ Collect \/ Release
  BY <1>2, <1>9 DEF EndDestructor, Collect, Release
<1>10. CASE Cleanup \/ Advance
  <2>1. frames # <<>> /\ Top.kind = "collect" /\ Top.phase # "release"
    BY <1>10 DEF Cleanup, Advance, TopIs
  <2>2. list # <<>> BY <2>1, AtFirst
  <2>3. locked' = locked /\ (list' = Rotated \/ list' = list)
    BY <1>10 DEF Cleanup, Advance
  <2> QED BY <1>2, <1>3, <2>2, <2>3
<1> QED BY <1>4, <1>5, <1>6, <1>7, <1>8, <1>9, <1>10 DEF Next

\* An object is freed when its destructor has returned, whether its last holder
\* or the collection released it.
THEOREM FinalizedBeforeFreed == ASSUME Calm PROVE Spec => FinalizedFirst
<1> DEFINE A == \A b \in Objects : b \in Allocated \ Allocated' => uiFlags[b] = 3
<1>1. ASSUME IInv, [Next]_vars PROVE [A]_vars
  <2> SUFFICES ASSUME Next, NEW b \in Allocated, b \notin Allocated'
               PROVE  uiFlags[b] = 3
    BY <1>1
  <2>1. Stack /\ HeapType /\ Flagged /\ Settled /\ Linked /\ Once(list) BY <1>1, Parts
  <2>2. CASE Free
    <3> DEFINE t == Top.block
    <3>1. frames # <<>> /\ Top.kind = "base" /\ Top.phase = "items"
      BY <2>2 DEF Free, TopIs
    <3>2. t \in Called /\ t \notin Selves BY <2>1, <3>1, TopFacts
    <3>3. uiFlags[t] = 3 BY <2>1, <3>2 DEF Flagged
    <3>4. b = t
      <4> SUFFICES ASSUME b # t PROVE FALSE OBVIOUS
      <4>1. UNCHANGED <<list, locked>> => Allocated' = Allocated BY AllocatedSame
      <4>2. /\ list' = IF t \in locked THEN list ELSE Unlink(t)
            /\ locked' = locked \ {t}
        BY <2>2, <4>1 DEF Free
      <4> HIDE DEF t
      <4>3. t \in Allocated BY <2>1, <3>2 DEF Flagged
      <4>4. CASE t \in locked
        <5>1. Listed' = Listed BY <4>2, <4>4 DEF Listed
        <5> QED BY <4>2, <5>1 DEF Allocated
      <4>5. CASE t \notin locked
        <5>1. t \in Listed BY <4>3, <4>5 DEF Allocated
        <5>2. Listed' = Listed \ {t} BY <2>1, <4>2, <4>5, <5>1, Unlinked
        <5> QED BY <4>2, <5>2 DEF Allocated
      <4> QED BY <4>4, <4>5
    <3> QED BY <3>3, <3>4
  <2>3. ASSUME NEW c \in Blocks, ReleaseBlock(c) PROVE uiFlags[b] = 3
    <3>1. /\ TopIs("collect", "release") /\ c \in Listed /\ c \in deleted
          /\ list' = Unlink(c) /\ locked' = locked
      BY <2>3 DEF ReleaseBlock, Listed
    <3>2. Called = {} BY <1>1, <3>1, AtRelease
    <3>3. Listed' = Listed \ {c} BY <2>1, <3>1, Unlinked
    <3>4. b = c BY <3>1, <3>3 DEF Allocated
    <3> QED BY <2>1, <3>1, <3>2, <3>4 DEF Settled
  <2> QED BY <1>1, <2>2, <2>3, FreedBlocks
<1>2. Spec => [][A]_vars BY <1>1, Invariance, PTL DEF Spec
<1> QED BY <1>2 DEF FinalizedFirst

\* A collection that is open stays so until it is done.
LEMMA Remains ==
    ASSUME Calm, IInv, Next, Collecting, ~Release
    PROVE  frames' # <<>>
<1>1. /\ Stack /\ HeapType /\ NoDangling /\ frames # <<>>
      /\ Allocated \subseteq Blocks
  BY Parts DEF Collecting
<1>2. ASSUME UNCHANGED frames PROVE frames' # <<>> BY <1>1, <1>2
<1>3. ASSUME NEW b \in Blocks, ClearItem(b) PROVE frames' # <<>>
  <2>1. ASSUME NEW p \in {"destructor", "items"}, frames' = Append(frames, Call("base", b, p))
        PROVE  frames' # <<>>
    <3>1. Call("base", b, p) \in Frames BY <1>1 DEF Call, Frames, Stack
    <3>2. frames \in Seq(Frames) BY <1>1 DEF Stack
    <3> QED BY <2>1, <3>1, <3>2, AppendProperties
  <2> QED BY <1>2, <1>3, <2>1 DEF ClearItem
<1>4. ASSUME NEW p \in {"items", "cleanup", "advance", "release"}, frames' = Phase(p)
      PROVE  frames' # <<>>
  <2>1. Len(frames') = Len(frames) BY <1>1, <1>4, PhaseFacts
  <2>2. Len(frames) # 0 BY <1>1, StackFacts
  <2> QED BY <2>1, <2>2, EmptySeq
<1>5. ASSUME NEW b \in Blocks, New(b) \/ Get(b) \/ Lock(b) \/ Unlock(b) \/ ReleaseBlock(b)
      PROVE  frames' # <<>>
  BY <1>2, <1>5 DEF New, Get, Lock, Unlock, ReleaseBlock
<1>6. ASSUME NEW b \in Blocks, Drop(b) \/ ReleaseItem(b) PROVE frames' # <<>>
  BY <1>2, <1>3, <1>6 DEF Drop, ReleaseItem
<1>7. ASSUME NEW a \in Blocks, NEW b \in Blocks, Store(a, b) \/ Remove(a, b)
      PROVE  frames' # <<>>
  BY <1>2, <1>3, <1>7 DEF Store, Remove
<1>8. CASE EndDestructor
  <2>1. Top.phase = "destructor" /\ Top.kind # "collect" /\ s_bCollecting' = Top.saved
    BY <1>1, <1>8, TopFacts DEF EndDestructor, InDestructor
  <2>2. CASE frames' = Below BY <1>1, <2>1, <2>2, Popped
  <2>3. CASE frames' = Phase("items") BY <1>4, <2>3
  <2> QED BY <1>8, <2>2, <2>3 DEF EndDestructor
<1>9. CASE Free
  <2>1. /\ Top.kind # "collect" /\ Top.phase # "destructor" /\ frames' = Below
        /\ s_bCollecting' = s_bCollecting
    BY <1>9 DEF Free, TopIs
  <2> QED BY <1>1, <2>1, Popped
<1>10. CASE Collect
  <2>1. s_bCollecting \in BOOLEAN /\ s_bCollecting # TRUE /\ ProgramRuns
    BY <1>1, <1>10 DEF Collect, Calm, Stack
  <2> QED BY <1>1, <2>1, ProgramCollects
<1>11. CASE Cleanup \/ Advance
  <2>1. frames # <<>> /\ Top.kind = "collect" /\ Top.phase # "release"
    BY <1>11 DEF Cleanup, Advance, TopIs
  <2>2. NextPhase \in {"items", "cleanup", "advance", "release"} BY DEF NextPhase
  <2>3. CASE frames' = Phase(NextPhase) BY <1>4, <2>2, <2>3
  <2>4. CASE frames' = Append(Phase("advance"), Call("garbage", Head(list), "destructor"))
    <3>1. Phase("advance") \in Seq(Frames) BY <1>1, PhaseFacts
    <3>2. Head(list) \in Blocks
      <4>1. list # <<>> BY <2>1, AtFirst
      <4> QED BY <1>1, <4>1, FirstListed, ListedBlocks
    <3>3. Call("garbage", Head(list), "destructor") \in Frames
      BY <1>1, <3>2 DEF Call, Frames, Stack
    <3> QED BY <2>4, <3>1, <3>3, AppendProperties
  <2> QED BY <1>11, <2>3, <2>4 DEF Cleanup, Advance
<1> QED BY <1>5, <1>6, <1>7, <1>8, <1>9, <1>10, <1>11 DEF Next

\* A collection that ends has freed all that nobody reached when it began.
THEOREM AllCollected == ASSUME Calm PROVE Spec => CollectsAll
<1> DEFINE A == \A i \in Collections : Len(frames') < i =>
                    frames[i].doomed \cap Allocated' = {}
<1>1. ASSUME IInv, IInv', [Next]_vars PROVE [A]_vars
  <2> SUFFICES ASSUME Next, NEW i \in Collections, Len(frames') < i
               PROVE  frames[i].doomed \cap Allocated' = {}
    BY <1>1
  <2>1. Stack BY <1>1, Parts
  <2>2. Collecting /\ i = 1 BY <2>1, Collects
  <2>3. frames' = <<>>
    <3>1. Stack' BY <1>1 DEF IInv
    <3>2. Len(frames') \in Nat BY <3>1, LenProperties DEF Stack
    <3>3. Len(frames') = 0 BY <2>2, <3>2
    <3> QED BY <3>1, <3>3, EmptySeq DEF Stack
  <2>4. Release BY <1>1, <2>2, <2>3, Remains
  <2>5. TopIs("collect", "release") /\ deleted = {} /\ UNCHANGED <<list, locked>>
    BY <2>4 DEF Release
  <2>6. frames[1].doomed \cap Allocated \subseteq {} BY <1>1, <2>5, AtRelease
  <2> QED BY <2>2, <2>5, <2>6, AllocatedSame
<1>2. Spec => [][A]_vars BY <1>1, Invariance, PTL DEF Spec
<1> QED BY <1>2 DEF CollectsAll
=============================================================================
