-------------------------- MODULE KeyBuffer_proofs --------------------------
(***************************************************************************)
(* Proofs about the keyboard buffer, for every set of keys and every size  *)
(* of the buffer: its ends stay inside of it, the text that is left is     *)
(* inside its buffer, and ring and text are a bounded queue.  At the end,  *)
(* what holds of the idle tasks that run while INKEY() waits.              *)
(***************************************************************************)
EXTENDS KeyBuffer, IdleTasks, SequenceTheorems, TLAPS

Cell == Keys \cup {NoKey}
LeftOK(g) == g.StrBuffer # <<>> => g.StrBufferPos < Len(g.StrBuffer)
IInv == TypeOK /\ TextLeft

LEMMA SizeOf ==
    ASSUME NEW size \in Sizes
    PROVE  size \in Nat /\ size >= 2 /\ size - 1 \in Nat
BY SizesAssumption DEF Sizes

-----------------------------------------------------------------------------
(* Every function gives back a buffer.                                     *)

LEMMA PopType ==
    ASSUME NEW size \in Sizes, NEW g \in Buffers(size), LeftOK(g)
    PROVE  InkeyPop(g) \in Buffers(size) /\ LeftOK(InkeyPop(g))
<1>1. size \in Nat /\ size >= 2 BY SizeOf
<1>2. CASE g.StrBuffer # <<>>
  <2>1. g.StrBufferPos + 1 \in Nat /\ g.StrBuffer \in Seq(Keys) /\ <<>> \in Seq(Keys)
    BY EmptySeq DEF Buffers
  <2>2. InkeyPop(g) \in Buffers(size)
    BY <1>2, <2>1 DEF InkeyPop, Buffers
  <2>3. /\ InkeyPop(g).StrBufferPos = g.StrBufferPos + 1
        /\ InkeyPop(g).StrBuffer = IF g.StrBufferPos + 1 >= Len(g.StrBuffer) THEN <<>>
                                   ELSE g.StrBuffer
    BY <1>2, <2>2 DEF InkeyPop, Buffers
  <2>4. Len(g.StrBuffer) \in Nat BY <2>1
  <2>5. LeftOK(InkeyPop(g)) BY <2>1, <2>3, <2>4 DEF LeftOK
  <2> QED BY <2>2, <2>5
<1>3. CASE g.StrBuffer = <<>>
  <2>0. Up(g, g.inkeyTail) \in 0 .. size - 1 BY <1>1 DEF Buffers, Up
  <2>1. InkeyPop(g) \in Buffers(size) BY <2>0, <1>3 DEF InkeyPop, Buffers
  <2>2. InkeyPop(g).StrBuffer = <<>> BY <1>3 DEF InkeyPop, Buffers
  <2> QED BY <2>1, <2>2 DEF LeftOK
<1> QED BY <1>2, <1>3

LEMMA PutType ==
    ASSUME NEW size \in Sizes, NEW g \in Buffers(size), LeftOK(g), NEW k \in Keys
    PROVE  InkeyPut(g, k) \in Buffers(size) /\ LeftOK(InkeyPut(g, k))
BY SizeOf DEF InkeyPut, Buffers, LeftOK, Up

LEMMA InsType ==
    ASSUME NEW size \in Sizes, NEW g \in Buffers(size), LeftOK(g), NEW k \in Keys
    PROVE  InkeyIns(g, k) \in Buffers(size) /\ LeftOK(InkeyIns(g, k))
BY SizeOf DEF InkeyIns, Buffers, LeftOK, Down

LEMMA NextKeyType ==
    ASSUME NEW size \in Sizes, NEW g \in Buffers(size), LeftOK(g), NEW mask
    PROVE  NextKey(g, mask) \in Cell
<1>1. CASE g.StrBuffer # <<>>
  <2>1. g.StrBufferPos + 1 \in 1 .. Len(g.StrBuffer) /\ g.StrBuffer \in Seq(Keys)
    BY <1>1 DEF Buffers, LeftOK
  <2> QED BY <1>1, <2>1 DEF NextKey, Cell
<1>2. CASE g.StrBuffer = <<>>
  BY <1>2, SizeOf DEF NextKey, InkeyFilter, Buffers, Cell
<1> QED BY <1>1, <1>2

LEMMA CheckedType ==
    ASSUME NEW size \in Sizes, NEW g \in Buffers(size), LeftOK(g), NEW mask
    PROVE  Checked(g, mask) \in Buffers(size) /\ LeftOK(Checked(g, mask))
BY PopType DEF Checked

LEMMA PollDoType ==
    ASSUME NEW size \in Sizes, NEW g \in Buffers(size), LeftOK(g), NEW k \in Cell
    PROVE  InkeyPollDo(g, k) \in Buffers(size) /\ LeftOK(InkeyPollDo(g, k))
BY PutType DEF InkeyPollDo, Typed, Cell

LEMMA SetTextType ==
    ASSUME NEW size \in Sizes, NEW g \in Buffers(size), LeftOK(g), NEW t \in Seq(Keys)
    PROVE  InkeySetText(g, t) \in Buffers(size) /\ LeftOK(InkeySetText(g, t))
<1>1. CASE t = <<>> BY <1>1 DEF InkeySetText
<1>2. CASE t # <<>>
  <2>1. Len(t) > 0 /\ Len(t) \in Nat BY <1>2, EmptySeq, LenProperties
  <2>2. g.StrBuffer \o t \in Seq(Keys) /\ Len(g.StrBuffer \o t) = Len(g.StrBuffer) + Len(t)
    BY ConcatProperties DEF Buffers
  <2>3. g.StrBuffer \in Seq(Keys) /\ Len(g.StrBuffer) \in Nat /\ g.StrBufferPos \in Nat
    BY DEF Buffers
  <2> DEFINE new == InkeySetText(g, t)
  <2>4. new = [g EXCEPT !.StrBuffer = @ \o t,
                        !.StrBufferPos = IF g.StrBuffer = <<>> THEN 0 ELSE @]
    BY <1>2 DEF InkeySetText
  <2>5. new \in Buffers(size) BY <2>2, <2>3, <2>4 DEF Buffers
  <2>6. /\ new.StrBuffer = g.StrBuffer \o t
        /\ new.StrBufferPos = IF g.StrBuffer = <<>> THEN 0 ELSE g.StrBufferPos
    BY <2>4 DEF Buffers
  <2>7. LeftOK(new) BY <2>1, <2>2, <2>3, <2>6 DEF LeftOK
  <2> QED BY <2>5, <2>7
<1> QED BY <1>1, <1>2

LEMMA ResetType ==
    ASSUME NEW size \in Sizes, NEW g \in Buffers(size), NEW wanted \in TypeAheads
    PROVE  \E new \in Sizes : InkeyReset(g, wanted) \in Buffers(new) /\ LeftOK(InkeyReset(g, wanted))
<1>1. CASE wanted = g.inkeyBufferSize
  <2>1. <<>> \in Seq(Keys) BY EmptySeq
  <2>2. InkeyReset(g, wanted) = [g EXCEPT !.StrBuffer = <<>>, !.inkeyHead = 0, !.inkeyTail = 0]
    BY <1>1 DEF InkeyReset
  <2>3. InkeyReset(g, wanted) \in Buffers(size) BY <2>1, <2>2, SizeOf DEF Buffers
  <2>4. InkeyReset(g, wanted).StrBuffer = <<>> BY <2>2 DEF Buffers
  <2>5. LeftOK(InkeyReset(g, wanted)) BY <2>4 DEF LeftOK
  <2> QED BY <2>3, <2>5
<1>2. CASE wanted # g.inkeyBufferSize
  <2> DEFINE new == IF wanted > Default THEN wanted ELSE Default
  <2>1. new \in Sizes BY SizesAssumption DEF Sizes
  <2>2. InkeyReset(g, wanted) =
            [g EXCEPT !.StrBuffer = <<>>, !.inkeyHead = 0, !.inkeyTail = 0,
                      !.inkeyBufferSize = new, !.inkeyBuffer = Empty(new)]
    BY <1>2 DEF InkeyReset, Buffers
  <2>3. <<>> \in Seq(Keys) BY EmptySeq
  <2>4. Empty(new) \in [0 .. new - 1 -> Keys \cup {NoKey}] BY DEF Empty
  <2>5. new \in Nat /\ 0 \in 0 .. new - 1 BY <2>1, SizeOf
  <2> HIDE DEF new
  <2>6. InkeyReset(g, wanted) \in Buffers(new) BY <2>2, <2>3, <2>4, <2>5 DEF Buffers
  <2>7. InkeyReset(g, wanted).StrBuffer = <<>> BY <2>2 DEF Buffers
  <2>8. LeftOK(InkeyReset(g, wanted)) BY <2>7 DEF LeftOK
  <2> QED BY <2>1, <2>6, <2>8
<1> QED BY <1>1, <1>2

LEMMA InitType == Init => IInv
<1> SUFFICES ASSUME Init PROVE IInv OBVIOUS
<1>1. Default \in Sizes BY SizesAssumption DEF Sizes
<1>2. pGT \in Buffers(Default)
  <2>1. Empty(Default) \in [0 .. Default - 1 -> Keys \cup {NoKey}] BY DEF Empty
  <2>2. <<>> \in Seq(Keys) /\ 0 \in 0 .. Default - 1 BY <1>1, SizeOf, EmptySeq
  <2> QED BY <2>1, <2>2 DEF Init, Buffers
<1>3. TextLeft BY DEF Init, TextLeft
<1> QED BY <1>1, <1>2, <1>3 DEF IInv, TypeOK, Init

LEMMA TextsType == Texts \subseteq Seq(Keys)
<1>1. <<>> \in Seq(Keys) BY EmptySeq
<1>2. \A k, l \in Keys : <<k>> \in Seq(Keys) /\ <<k, l>> \in Seq(Keys) OBVIOUS
<1>3. Plain \subseteq Keys BY DEF Keys
<1>4. ASSUME NEW t \in Texts
      PROVE  t = <<>> \/ (\E k \in Plain : t = <<k>>) \/ \E k, l \in Plain : t = <<k, l>>
  BY <1>4 DEF Texts
<1>5. ASSUME NEW t \in Texts PROVE t \in Seq(Keys)
  BY <1>1, <1>2, <1>3, <1>4, <1>5
<1> QED BY <1>5

LEMMA StepType == IInv /\ [Next]_vars => IInv'
<1> SUFFICES ASSUME IInv, [Next]_vars PROVE IInv' OBVIOUS
<1>0. PICK size \in Sizes : pGT \in Buffers(size) BY DEF IInv, TypeOK
<1>1. LeftOK(pGT) BY DEF IInv, TextLeft, LeftOK
<1>2. /\ typeAhead \in TypeAheads /\ request \in BOOLEAN
      /\ inkey \in Inkeys \cup {NotInkey}
  BY DEF IInv, TypeOK
\* What is left to show once the buffer is known to be one.
<1>3. ASSUME NEW new \in Sizes, pGT' \in Buffers(new), LeftOK(pGT'),
             typeAhead' \in TypeAheads, request' \in BOOLEAN, inkey' \in Inkeys \cup {NotInkey}
      PROVE  IInv'
  BY <1>3 DEF IInv, TypeOK, TextLeft, LeftOK
<1>4. ASSUME NEW k \in Keys, PutKey(k) PROVE IInv'
  BY <1>0, <1>1, <1>2, <1>3, <1>4, PutType DEF PutKey
<1>5. ASSUME NEW k \in Keys, InsertKey(k) PROVE IInv'
  BY <1>0, <1>1, <1>2, <1>3, <1>5, InsType DEF InsertKey
<1>6. ASSUME NEW k \in Plain, SetLast(k) PROVE IInv'
  <2>1. pGT' \in Buffers(size) /\ pGT'.StrBuffer = pGT.StrBuffer
        /\ pGT'.StrBufferPos = pGT.StrBufferPos
    BY <1>0, <1>6 DEF SetLast, Buffers, Keys
  <2>2. LeftOK(pGT') BY <1>1, <2>1 DEF LeftOK
  <2> QED BY <1>2, <1>3, <1>6, <2>1, <2>2 DEF SetLast
<1>7. ASSUME NEW k \in Keys \cup {NoKey}, Poll(k) PROVE IInv'
  <2>1. request' \in BOOLEAN BY <1>2, <1>7 DEF Poll, Cancels
  <2> QED BY <1>0, <1>1, <1>2, <1>3, <1>7, <2>1, PollDoType DEF Poll, Cell
<1>8. ASSUME NEW mask \in Masks, PeekKey(mask) PROVE IInv'
  BY <1>0, <1>1, <1>2, <1>3, <1>8, CheckedType DEF PeekKey
<1>9. ASSUME NEW t \in Texts, NEW keep \in BOOLEAN, Keyboard(t, keep) PROVE IInv'
  <2> DEFINE g == IF keep THEN pGT ELSE InkeyReset(pGT, typeAhead)
  <2>1. PICK new \in Sizes : g \in Buffers(new) /\ LeftOK(g)
    BY <1>0, <1>1, <1>2, ResetType
  <2>2. pGT' = InkeySetText(g, t) BY <1>9 DEF Keyboard
  <2>3. t \in Seq(Keys) BY TextsType
  <2> HIDE DEF g
  <2>4. pGT' \in Buffers(new) /\ LeftOK(pGT') BY <2>1, <2>2, <2>3, SetTextType
  <2> QED BY <1>2, <1>3, <1>9, <2>4 DEF Keyboard
<1>10. ASSUME NEW n \in TypeAheads, SetTypeAhead(n) PROVE IInv'
  <2>1. PICK new \in Sizes : pGT' \in Buffers(new) /\ LeftOK(pGT')
    BY <1>0, <1>10, ResetType DEF SetTypeAhead
  <2> QED BY <1>2, <1>3, <1>10, <2>1 DEF SetTypeAhead
<1>11. ASSUME NEW call \in Inkeys, BeginInkey(call) PROVE IInv'
  BY <1>0, <1>1, <1>2, <1>3, <1>11 DEF BeginInkey
<1>12. ASSUME NEW k \in Keys \cup {NoKey}, Turn(k) PROVE IInv'
  <2> DEFINE g == InkeyPollDo(pGT, k)
             next == NextKey(g, inkey.mask)
             seen == IF Waiting(g) THEN [g EXCEPT !.inkeyLast = next] ELSE g
  <2>1. g \in Buffers(size) /\ LeftOK(g) BY <1>0, <1>1, PollDoType DEF Cell
  <2>2. next \in Keys \cup {NoKey} BY <2>1, NextKeyType DEF Cell
  <2>3. seen \in Buffers(size) /\ LeftOK(seen)
    <3> HIDE DEF g, next
    <3>1. seen \in Buffers(size) BY <2>1, <2>2 DEF Buffers
    <3>2. seen.StrBuffer = g.StrBuffer /\ seen.StrBufferPos = g.StrBufferPos
      BY <2>1 DEF Buffers
    <3> QED BY <2>1, <3>1, <3>2 DEF LeftOK
  <2>4. pGT' = InkeyPop(seen) \/ pGT' = Checked(seen, inkey.mask) BY <1>12 DEF Turn
  <2>5. /\ inkey' = NotInkey \/ inkey' = inkey
        /\ typeAhead' = typeAhead /\ request' \in BOOLEAN
    BY <1>2, <1>12 DEF Turn, Cancels
  <2> HIDE DEF g, next, seen
  <2>6. pGT' \in Buffers(size) /\ LeftOK(pGT') BY <2>3, <2>4, PopType, CheckedType
  <2> QED BY <1>2, <1>3, <2>5, <2>6
<1>13. CASE UNCHANGED vars BY <1>0, <1>1, <1>2, <1>3, <1>13 DEF vars
<1> QED BY <1>4, <1>5, <1>6, <1>7, <1>8, <1>9, <1>10, <1>11, <1>12, <1>13 DEF Next, Call

LEMMA Inductive == Spec => []IInv
BY InitType, StepType, PTL DEF Spec

\* For every size the ends of the ring are places of the buffer.
THEOREM TypeCorrect == Spec => []TypeOK
BY Inductive, PTL DEF IInv

\* INKEY() never reads behind the text that KEYBOARD has stuffed.
THEOREM TextLeftAlways == Spec => []TextLeft
BY Inductive, PTL DEF IInv

-----------------------------------------------------------------------------
(* The ring and the text as sequences of keys.                             *)

LEMMA RingType ==
    ASSUME NEW size \in Sizes, NEW g \in Buffers(size)
    PROVE  /\ Held(g) \in 0 .. size - 1
           /\ \A i \in 1 .. size : At(g, g.inkeyTail + i - 1) \in 0 .. size - 1
           /\ \A i \in 1 .. size :
                 At(g, g.inkeyTail + i - 1) = g.inkeyHead <=> i = Held(g) + 1
           /\ RingKeys(g) \in Seq(Cell) /\ Len(RingKeys(g)) = Held(g)
           /\ \A i \in 1 .. Held(g) :
                 RingKeys(g)[i] = g.inkeyBuffer[At(g, g.inkeyTail + i - 1)]
<1>1. size \in Nat /\ size >= 2 BY SizeOf
<1>2. /\ g.inkeyHead \in 0 .. size - 1 /\ g.inkeyTail \in 0 .. size - 1
      /\ g.inkeyBufferSize = size /\ g.inkeyBuffer \in [0 .. size - 1 -> Cell]
  BY DEF Buffers, Cell
<1>3. Held(g) \in 0 .. size - 1 BY <1>1, <1>2 DEF Held
<1>4. \A i \in 1 .. size : At(g, g.inkeyTail + i - 1) \in 0 .. size - 1
  BY <1>1, <1>2 DEF At
<1>5. \A i \in 1 .. size : At(g, g.inkeyTail + i - 1) = g.inkeyHead <=> i = Held(g) + 1
  <2> TAKE i \in 1 .. size
  <2>1. CASE g.inkeyHead >= g.inkeyTail BY <1>1, <1>2, <2>1 DEF At, Held
  <2>2. CASE g.inkeyHead < g.inkeyTail BY SMTT(30), <1>1, <1>2, <2>2 DEF At, Held
  <2> QED BY <1>2, <2>1, <2>2
<1>6. \A i \in 1 .. Held(g) : g.inkeyBuffer[At(g, g.inkeyTail + i - 1)] \in Cell
  <2> TAKE i \in 1 .. Held(g)
  <2>1. i \in 1 .. size BY <1>1, <1>3
  <2> QED BY <1>2, <1>4, <2>1
<1>7. RingKeys(g) \in [1 .. Held(g) -> Cell] BY <1>6 DEF RingKeys
<1>8. RingKeys(g) \in Seq(Cell) /\ Len(RingKeys(g)) = Held(g) BY <1>3, <1>7
<1>9. \A i \in 1 .. Held(g) : RingKeys(g)[i] = g.inkeyBuffer[At(g, g.inkeyTail + i - 1)]
  BY DEF RingKeys
<1> QED BY <1>3, <1>4, <1>5, <1>8, <1>9

\* Two rings with the same places and the same cells between them hold the same.
LEMMA SameRing ==
    ASSUME NEW g, NEW h,
           h.inkeyBuffer = g.inkeyBuffer, h.inkeyBufferSize = g.inkeyBufferSize,
           h.inkeyHead = g.inkeyHead, h.inkeyTail = g.inkeyTail
    PROVE  RingKeys(h) = RingKeys(g)
BY DEF RingKeys, Held, At

LEMMA PutRing ==
    ASSUME NEW size \in Sizes, NEW g \in Buffers(size), LeftOK(g), NEW k \in Keys,
           ~Repeated(g, k)
    PROVE  /\ RingKeys(InkeyPut(g, k)) = IF Len(RingKeys(g)) < size - 1
                                         THEN Append(RingKeys(g), k) ELSE RingKeys(g)
           /\ InkeyPut(g, k).iLastPut = k
           /\ InkeyPut(g, k).StrBuffer = g.StrBuffer
           /\ InkeyPut(g, k).StrBufferPos = g.StrBufferPos
<1> DEFINE p == InkeyPut(g, k)
           full == ~(Held(g) < size - 1)
<1>1. size \in Nat /\ size >= 2 BY SizeOf
<1>2. /\ g.inkeyHead \in 0 .. size - 1 /\ g.inkeyTail \in 0 .. size - 1
      /\ g.inkeyBufferSize = size /\ g.inkeyBuffer \in [0 .. size - 1 -> Cell]
  BY DEF Buffers, Cell
<1>3. /\ p.inkeyBuffer = [g.inkeyBuffer EXCEPT ![g.inkeyHead] = k]
      /\ p.inkeyBufferSize = size /\ p.inkeyTail = g.inkeyTail
      /\ p.inkeyHead = IF Up(g, g.inkeyHead) # g.inkeyTail THEN Up(g, g.inkeyHead)
                       ELSE g.inkeyHead
      /\ p.iLastPut = k /\ p.StrBuffer = g.StrBuffer /\ p.StrBufferPos = g.StrBufferPos
  BY DEF InkeyPut, Buffers
<1>4. p \in Buffers(size) BY PutType
<1>5. full <=> Up(g, g.inkeyHead) = g.inkeyTail
  BY <1>1, <1>2 DEF Held, Up
<1>6. Held(p) = IF full THEN Held(g) ELSE Held(g) + 1
  BY SMTT(30), <1>1, <1>2, <1>3, <1>5 DEF Held, Up
<1>7. k \in Cell BY DEF Cell
<1> HIDE DEF p
<1>8. \A i \in 1 .. size : At(p, p.inkeyTail + i - 1) = At(g, g.inkeyTail + i - 1)
  BY <1>2, <1>3 DEF At
<1>9. \A i \in 1 .. Held(g) : RingKeys(p)[i] = RingKeys(g)[i]
  <2> TAKE i \in 1 .. Held(g)
  <2>1. i \in 1 .. size /\ i # Held(g) + 1 /\ i \in 1 .. Held(p)
    BY <1>1, <1>6, RingType
  <2>2. At(g, g.inkeyTail + i - 1) # g.inkeyHead /\ At(g, g.inkeyTail + i - 1) \in 0 .. size - 1
    BY <2>1, RingType
  <2>3. RingKeys(p)[i] = p.inkeyBuffer[At(g, g.inkeyTail + i - 1)]
    BY SMTT(30), <1>4, <1>8, <2>1, RingType
  <2> QED BY <1>2, <1>3, <2>2, <2>3, RingType
<1>10. CASE full
  <2>1. Len(RingKeys(p)) = Len(RingKeys(g)) BY <1>4, <1>6, <1>10, RingType
  <2>2. RingKeys(p) = RingKeys(g)
    BY <1>4, <1>9, <2>1, RingType, SeqEqual
  <2> QED BY <1>3, <1>10, <2>2, RingType DEF p
<1>11. CASE ~full
  <2>1. Held(p) = Held(g) + 1 /\ Held(g) \in Nat /\ Held(g) + 1 \in 1 .. size
    BY <1>1, <1>6, <1>11, RingType
  <2>2. RingKeys(p)[Held(g) + 1] = k
    <3>1. At(g, g.inkeyTail + (Held(g) + 1) - 1) = g.inkeyHead BY <2>1, RingType
    <3>2. Held(g) + 1 \in 1 .. Held(p) BY <2>1
    <3>3. RingKeys(p)[Held(g) + 1] = p.inkeyBuffer[At(p, p.inkeyTail + (Held(g) + 1) - 1)]
      BY <1>4, <3>2, RingType
    <3>4. At(p, p.inkeyTail + (Held(g) + 1) - 1) = g.inkeyHead BY <1>8, <2>1, <3>1
    <3> QED BY <1>2, <1>3, <3>3, <3>4
  <2> DEFINE a == Append(RingKeys(g), k)
  <2>3. /\ a \in Seq(Cell) /\ Len(a) = Held(g) + 1
        /\ \A i \in 1 .. Held(g) : a[i] = RingKeys(g)[i]
        /\ a[Held(g) + 1] = k
    BY <1>7, RingType, AppendProperties
  <2>4. RingKeys(p) \in Seq(Cell) /\ Len(RingKeys(p)) = Held(g) + 1
    BY <1>4, <2>1, RingType
  <2> HIDE DEF a
  <2>5. \A i \in 1 .. Held(g) + 1 : RingKeys(p)[i] = a[i]
    BY <1>9, <2>1, <2>2, <2>3
  <2>6. RingKeys(p) = a BY <2>3, <2>4, <2>5, SeqEqual
  <2> QED BY <1>3, <1>11, <2>6, RingType DEF a, p
<1> QED BY <1>10, <1>11

\* Taking from the ring.
LEMMA PopRing ==
    ASSUME NEW size \in Sizes, NEW g \in Buffers(size), LeftOK(g),
           g.StrBuffer = <<>>, g.inkeyHead # g.inkeyTail
    PROVE  /\ RingKeys(g) # <<>> /\ RingKeys(InkeyPop(g)) = Tail(RingKeys(g))
           /\ InkeyPop(g).StrBuffer = <<>> /\ InkeyPop(g).iLastPut = g.iLastPut
<1> DEFINE p == InkeyPop(g)
<1>1. size \in Nat /\ size >= 2 BY SizeOf
<1>2. /\ g.inkeyHead \in 0 .. size - 1 /\ g.inkeyTail \in 0 .. size - 1
      /\ g.inkeyBufferSize = size
  BY DEF Buffers
<1>3. /\ p.inkeyBuffer = g.inkeyBuffer /\ p.inkeyBufferSize = size
      /\ p.inkeyHead = g.inkeyHead /\ p.inkeyTail = Up(g, g.inkeyTail)
      /\ p.StrBuffer = <<>> /\ p.iLastPut = g.iLastPut
  BY <1>2 DEF InkeyPop, Buffers
<1>4. p \in Buffers(size) BY PopType
<1>5. Held(g) >= 1 /\ Held(p) = Held(g) - 1
  BY <1>1, <1>2, <1>3 DEF Held, Up
<1> HIDE DEF p
<1>6. \A i \in 1 .. size - 1 : At(p, p.inkeyTail + i - 1) = At(g, g.inkeyTail + (i + 1) - 1)
  BY <1>1, <1>2, <1>3 DEF At, Up
<1>7. RingKeys(g) \in Seq(Cell) /\ Len(RingKeys(g)) = Held(g) /\ Held(g) \in 0 .. size - 1
  BY RingType
<1>8. RingKeys(g) # <<>> BY <1>5, <1>7, EmptySeq
<1> DEFINE t == Tail(RingKeys(g))
<1>9. /\ t \in Seq(Cell) /\ Len(t) = Held(g) - 1
      /\ \A i \in 1 .. Held(g) - 1 : t[i] = RingKeys(g)[i + 1]
  BY <1>7, <1>8, HeadTailProperties
<1> HIDE DEF t
<1>10. RingKeys(p) \in Seq(Cell) /\ Len(RingKeys(p)) = Held(g) - 1 BY <1>4, <1>5, RingType
<1>11. \A i \in 1 .. Held(g) - 1 : RingKeys(p)[i] = t[i]
  <2> TAKE i \in 1 .. Held(g) - 1
  <2>1. i + 1 \in 1 .. Held(g) /\ i \in 1 .. size - 1 /\ i \in 1 .. Held(p)
    BY <1>1, <1>5, <1>7
  <2>2. RingKeys(p)[i] = p.inkeyBuffer[At(p, p.inkeyTail + i - 1)] BY <1>4, <2>1, RingType
  <2>3. RingKeys(g)[i + 1] = g.inkeyBuffer[At(g, g.inkeyTail + (i + 1) - 1)]
    BY <2>1, RingType
  <2> QED BY <1>3, <1>6, <1>9, <2>1, <2>2, <2>3
<1>12. RingKeys(p) = t BY <1>9, <1>10, <1>11, SeqEqual
<1> QED BY <1>3, <1>8, <1>12 DEF p, t

\* A key in front of the others.
LEMMA InsRing ==
    ASSUME NEW size \in Sizes, NEW g \in Buffers(size), LeftOK(g), NEW k \in Keys
    PROVE  /\ RingKeys(InkeyIns(g, k)) =
                 <<k>> \o (IF Len(RingKeys(g)) < size - 1 THEN RingKeys(g)
                           ELSE SubSeq(RingKeys(g), 1, size - 2))
           /\ InkeyIns(g, k).StrBuffer = g.StrBuffer
           /\ InkeyIns(g, k).StrBufferPos = g.StrBufferPos
           /\ InkeyIns(g, k).iLastPut = g.iLastPut
<1> DEFINE p == InkeyIns(g, k)
           tail == Down(g, g.inkeyTail)
           full == ~(Held(g) < size - 1)
           rest == IF full THEN SubSeq(RingKeys(g), 1, size - 2) ELSE RingKeys(g)
<1>1. size \in Nat /\ size >= 2 BY SizeOf
<1>2. /\ g.inkeyHead \in 0 .. size - 1 /\ g.inkeyTail \in 0 .. size - 1
      /\ g.inkeyBufferSize = size /\ g.inkeyBuffer \in [0 .. size - 1 -> Cell]
  BY DEF Buffers, Cell
<1>3. /\ p.inkeyBuffer = [g.inkeyBuffer EXCEPT ![tail] = k]
      /\ p.inkeyBufferSize = size /\ p.inkeyTail = tail
      /\ p.inkeyHead = IF g.inkeyHead = tail THEN Down(g, g.inkeyHead) ELSE g.inkeyHead
      /\ p.iLastPut = g.iLastPut /\ p.StrBuffer = g.StrBuffer
      /\ p.StrBufferPos = g.StrBufferPos
  BY <1>2 DEF InkeyIns, Buffers
<1>4. p \in Buffers(size) BY InsType
<1>5. tail \in 0 .. size - 1 /\ (full <=> g.inkeyHead = tail)
  BY <1>1, <1>2 DEF Held, Down
<1>6. Held(p) = IF full THEN size - 1 ELSE Held(g) + 1
  <2>1. CASE g.inkeyHead = tail
    <3>1. g.inkeyTail = IF tail + 1 = size THEN 0 ELSE tail + 1 BY <1>1, <1>2 DEF Down
    <3>2. p.inkeyHead = IF tail = 0 THEN size - 1 ELSE tail - 1
      BY <1>1, <1>2, <1>3, <1>5, <2>1 DEF Down
    <3>3. full BY <1>5, <2>1
    <3> HIDE DEF tail, full
    <3>4. Held(p) = size - 1 BY <1>1, <1>3, <1>5, <3>2 DEF Held
    <3> QED BY <3>3, <3>4
  <2>2. CASE g.inkeyHead # tail
    <3>1. tail = IF g.inkeyTail = 0 THEN size - 1 ELSE g.inkeyTail - 1
      BY <1>1, <1>2 DEF Down
    <3>2. p.inkeyHead = g.inkeyHead BY <1>3, <2>2
    <3>3. ~full BY <1>5, <2>2
    <3> HIDE DEF tail, full
    <3>4. Held(p) = Held(g) + 1 BY <1>1, <1>2, <1>3, <2>2, <3>1, <3>2 DEF Held
    <3> QED BY <3>3, <3>4
  <2> QED BY <2>1, <2>2
<1>7. k \in Cell BY DEF Cell
<1>8. RingKeys(g) \in Seq(Cell) /\ Len(RingKeys(g)) = Held(g) /\ Held(g) \in 0 .. size - 1
  BY RingType
<1>9. /\ rest \in Seq(Cell) /\ Len(rest) = Held(p) - 1 /\ Held(p) - 1 \in Nat
      /\ Held(p) - 1 <= Held(g)
      /\ \A i \in 1 .. Held(p) - 1 : rest[i] = RingKeys(g)[i]
  <2>1. CASE full
    <3>1. Held(g) = size - 1 BY <1>1, <1>8, <2>1
    <3>2. \A i \in 1 .. size - 2 : RingKeys(g)[i] \in Cell
      BY <1>1, <1>8, <3>1, ElementOfSeq
    <3>3. /\ rest \in Seq(Cell) /\ Len(rest) = size - 2
          /\ \A i \in 1 .. size - 2 : rest[i] = RingKeys(g)[i]
      BY <1>1, <2>1, <3>2, SubSeqProperties
    <3> QED BY <1>1, <1>6, <2>1, <3>1, <3>3
  <2>2. CASE ~full BY <1>6, <1>8, <2>2
  <2> QED BY <2>1, <2>2
<1> HIDE DEF p, rest
<1> DEFINE c == <<k>> \o rest
<1>10. /\ c \in Seq(Cell) /\ Len(c) = Held(p) /\ c[1] = k
       /\ \A i \in 2 .. Held(p) : c[i] = rest[i - 1]
  <2>1. <<k>> \in Seq(Cell) /\ Len(<<k>>) = 1 /\ <<k>>[1] = k BY <1>7
  <2>2. /\ c \in Seq(Cell) /\ Len(c) = 1 + Len(rest)
        /\ \A i \in 1 .. 1 + Len(rest) : c[i] = IF i <= 1 THEN <<k>>[i] ELSE rest[i - 1]
    BY <1>9, <2>1, ConcatProperties
  <2>3. 1 + Len(rest) = Held(p) /\ Held(p) \in Nat /\ Held(p) >= 1
    BY <1>6, <1>8, <1>1, <1>9
  <2> HIDE DEF c
  <2> QED BY <2>1, <2>2, <2>3
<1> HIDE DEF c
<1>11. At(p, p.inkeyTail + 1 - 1) = tail
  BY <1>1, <1>3, <1>5 DEF At
<1>12. \A i \in 2 .. size : At(p, p.inkeyTail + i - 1) = At(g, g.inkeyTail + (i - 1) - 1)
  <2> TAKE i \in 2 .. size
  <2>1. CASE g.inkeyTail = 0 BY <1>1, <1>2, <1>3, <2>1 DEF At, Down
  <2>2. CASE g.inkeyTail # 0
    <3>1. tail = g.inkeyTail - 1 BY <1>1, <1>2, <2>2 DEF Down
    <3>2. p.inkeyTail + i - 1 = g.inkeyTail + (i - 1) - 1 BY <1>2, <1>3, <3>1
    <3> QED BY <1>2, <1>3, <3>2 DEF At
  <2> QED BY <2>1, <2>2
<1>13. \A i \in 2 .. size : At(g, g.inkeyTail + (i - 1) - 1) # tail
  BY <1>1, <1>2 DEF At, Down
<1>14. RingKeys(p) \in Seq(Cell) /\ Len(RingKeys(p)) = Held(p) /\ Held(p) \in 0 .. size - 1
  BY <1>4, RingType
<1>15. \A i \in 1 .. Held(p) : RingKeys(p)[i] = c[i]
  <2> TAKE i \in 1 .. Held(p)
  <2>1. RingKeys(p)[i] = p.inkeyBuffer[At(p, p.inkeyTail + i - 1)] BY <1>4, RingType
  <2>2. CASE i = 1 BY <1>2, <1>3, <1>5, <1>10, <1>11, <2>1, <2>2
  <2>3. CASE i # 1
    <3>1. i \in 2 .. size /\ i - 1 \in 1 .. Held(p) - 1 /\ i - 1 \in 1 .. Held(g)
          /\ i - 1 \in 1 .. size /\ i \in 2 .. Held(p)
      BY <1>1, <1>8, <1>9, <1>14, <2>3
    <3>2. At(g, g.inkeyTail + (i - 1) - 1) \in 0 .. size - 1 BY <3>1, RingType
    <3>3. RingKeys(p)[i] = g.inkeyBuffer[At(g, g.inkeyTail + (i - 1) - 1)]
      BY <1>2, <1>3, <1>12, <1>13, <2>1, <3>1, <3>2
    <3>4. RingKeys(g)[i - 1] = g.inkeyBuffer[At(g, g.inkeyTail + (i - 1) - 1)]
      BY <3>1, RingType
    <3> QED BY <1>9, <1>10, <3>1, <3>3, <3>4
  <2> QED BY <2>2, <2>3
<1>16. RingKeys(p) = c BY <1>10, <1>14, <1>15, SeqEqual
<1> QED BY <1>3, <1>8, <1>16 DEF c, p, rest

LEMMA TextType ==
    ASSUME NEW size \in Sizes, NEW g \in Buffers(size), LeftOK(g)
    PROVE  /\ TextKeys(g) \in Seq(Keys)
           /\ g.StrBuffer = <<>> => TextKeys(g) = <<>>
           /\ g.StrBuffer # <<>> =>
                 /\ TextKeys(g) # <<>>
                 /\ Len(TextKeys(g)) = Len(g.StrBuffer) - g.StrBufferPos
                 /\ \A i \in 1 .. Len(TextKeys(g)) : TextKeys(g)[i] = g.StrBuffer[g.StrBufferPos + i]
<1>1. g.StrBuffer \in Seq(Keys) /\ g.StrBufferPos \in Nat /\ Len(g.StrBuffer) \in Nat
  BY DEF Buffers
<1>2. CASE g.StrBuffer = <<>> BY <1>2, EmptySeq DEF TextKeys
<1>3. CASE g.StrBuffer # <<>>
  <2> DEFINE m == g.StrBufferPos + 1
             n == Len(g.StrBuffer)
  <2>1. m \in Int /\ n \in Int /\ m <= n BY <1>1, <1>3 DEF LeftOK
  <2>2. \A i \in m .. n : g.StrBuffer[i] \in Keys BY <1>1, ElementOfSeq
  <2>3. TextKeys(g) = SubSeq(g.StrBuffer, m, n) BY <1>3 DEF TextKeys
  <2> HIDE DEF m, n
  <2>4. /\ TextKeys(g) \in Seq(Keys) /\ Len(TextKeys(g)) = n - m + 1
        /\ \A i \in 1 .. n - m + 1 : TextKeys(g)[i] = g.StrBuffer[m + i - 1]
    BY <2>1, <2>2, <2>3, SubSeqProperties
  <2>5. TextKeys(g) # <<>> BY <2>1, <2>4, EmptySeq
  <2>6. /\ n - m + 1 = Len(g.StrBuffer) - g.StrBufferPos
        /\ \A i \in 1 .. n - m + 1 : m + i - 1 = g.StrBufferPos + i
    BY <1>1, <2>1 DEF m, n
  <2> QED BY <1>3, <2>4, <2>5, <2>6
<1> QED BY <1>2, <1>3

\* What a step from one buffer to another is to the queue.
Same(g, h) == /\ RingKeys(h) = RingKeys(g) /\ TextKeys(h) = TextKeys(g)
              /\ h.iLastPut = g.iLastPut /\ h.inkeyBufferSize = g.inkeyBufferSize
Lost(g, k) == \/ k = NoKey \/ Len(RingKeys(g)) >= g.inkeyBufferSize - 1
              \/ k = K_MOUSEMOVE /\ g.iLastPut = K_MOUSEMOVE /\ RingKeys(g) # <<>>
IsPut(g, h, k) == /\ RingKeys(h) = (IF Lost(g, k) THEN RingKeys(g) ELSE Append(RingKeys(g), k))
                  /\ TextKeys(h) = TextKeys(g)
                  /\ h.iLastPut = (IF k = NoKey THEN g.iLastPut ELSE k)
                  /\ h.inkeyBufferSize = g.inkeyBufferSize
IsRead(g, h, mask, got, take) ==
    /\ h.iLastPut = g.iLastPut /\ h.inkeyBufferSize = g.inkeyBufferSize
    /\ \/ /\ TextKeys(g) # <<>> /\ got = Head(TextKeys(g))
          /\ TextKeys(h) = (IF take THEN Tail(TextKeys(g)) ELSE TextKeys(g))
          /\ RingKeys(h) = RingKeys(g)
       \/ /\ TextKeys(g) = <<>> /\ RingKeys(g) # <<>>
          /\ mask = "all" \/ Head(RingKeys(g)) # K_MOUSEMOVE
          /\ got = Head(RingKeys(g)) /\ TextKeys(h) = TextKeys(g)
          /\ RingKeys(h) = (IF take THEN Tail(RingKeys(g)) ELSE RingKeys(g))
       \/ /\ TextKeys(g) = <<>> /\ RingKeys(g) # <<>>
          /\ ~(mask = "all" \/ Head(RingKeys(g)) # K_MOUSEMOVE)
          /\ got = NoKey /\ TextKeys(h) = TextKeys(g) /\ RingKeys(h) = Tail(RingKeys(g))
       \/ /\ TextKeys(g) = <<>> /\ RingKeys(g) = <<>>
          /\ got = NoKey /\ TextKeys(h) = TextKeys(g) /\ RingKeys(h) = RingKeys(g)

LEMMA SameText ==
    ASSUME NEW g, NEW h, h.StrBuffer = g.StrBuffer, h.StrBufferPos = g.StrBufferPos
    PROVE  TextKeys(h) = TextKeys(g)
BY DEF TextKeys

\* The ring is empty when its ends meet.
LEMMA RingEmpty ==
    ASSUME NEW size \in Sizes, NEW g \in Buffers(size)
    PROVE  RingKeys(g) = <<>> <=> g.inkeyHead = g.inkeyTail
<1>1. RingKeys(g) \in Seq(Cell) /\ Len(RingKeys(g)) = Held(g) BY RingType
<1>2. RingKeys(g) = <<>> <=> Held(g) = 0 BY <1>1, EmptySeq
<1>3. size \in Nat /\ size >= 2 BY SizeOf
<1>4. Held(g) = 0 <=> g.inkeyHead = g.inkeyTail BY <1>3 DEF Held, Buffers
<1> QED BY <1>2, <1>4

LEMMA PutStep ==
    ASSUME NEW size \in Sizes, NEW g \in Buffers(size), LeftOK(g), NEW k \in Keys
    PROVE  IsPut(g, InkeyPut(g, k), k)
<1>1. k # NoKey BY KeysAssumption
<1>2. CASE Repeated(g, k)
  <2>1. Lost(g, k) BY <1>2, RingEmpty DEF Repeated, Lost
  <2>2. InkeyPut(g, k) = g /\ g.iLastPut = k BY <1>2 DEF InkeyPut, Repeated
  <2> QED BY <1>1, <2>1, <2>2 DEF IsPut
<1>3. CASE ~Repeated(g, k)
  <2>1. InkeyPut(g, k) \in Buffers(size) BY PutType
  <2>2. InkeyPut(g, k).inkeyBufferSize = size /\ g.inkeyBufferSize = size
    BY <2>1 DEF Buffers
  <2>3. TextKeys(InkeyPut(g, k)) = TextKeys(g) BY <1>3, PutRing, SameText
  <2>4. size \in Nat /\ Len(RingKeys(g)) \in Nat BY SizeOf, RingType
  <2>5. Lost(g, k) <=> ~(Len(RingKeys(g)) < size - 1)
    <3>1. ~(k = K_MOUSEMOVE /\ g.iLastPut = K_MOUSEMOVE /\ RingKeys(g) # <<>>)
      BY <1>3, RingEmpty DEF Repeated
    <3> QED BY <1>1, <2>2, <2>4, <3>1 DEF Lost
  <2>6. RingKeys(InkeyPut(g, k)) = IF Lost(g, k) THEN RingKeys(g) ELSE Append(RingKeys(g), k)
    BY <1>3, <2>5, PutRing
  <2>7. InkeyPut(g, k).iLastPut = k BY <1>3, PutRing
  <2> QED BY <1>1, <2>2, <2>3, <2>6, <2>7 DEF IsPut
<1> QED BY <1>2, <1>3

LEMMA TypedType == ASSUME NEW k \in Cell PROVE Typed(k) \in Cell
BY DEF Typed, Cell

LEMMA PollDoStep ==
    ASSUME NEW size \in Sizes, NEW g \in Buffers(size), LeftOK(g), NEW k \in Cell
    PROVE  IsPut(g, InkeyPollDo(g, k), Typed(k))
<1>1. CASE Typed(k) = NoKey BY <1>1 DEF InkeyPollDo, IsPut, Lost
<1>2. CASE Typed(k) # NoKey
  <2>1. Typed(k) = k /\ k \in Keys BY <1>2 DEF Typed, Cell
  <2> QED BY <1>2, <2>1, PutStep DEF InkeyPollDo
<1> QED BY <1>1, <1>2

\* A key that is taken from the text.
LEMMA PopText ==
    ASSUME NEW size \in Sizes, NEW g \in Buffers(size), LeftOK(g), g.StrBuffer # <<>>
    PROVE  LET p == InkeyPop(g)
           IN /\ TextKeys(p) = Tail(TextKeys(g)) /\ RingKeys(p) = RingKeys(g)
              /\ p.iLastPut = g.iLastPut
<1> DEFINE p == InkeyPop(g)
<1>1. p \in Buffers(size) /\ LeftOK(p) BY PopType
<1>2. p.inkeyBufferSize = size /\ g.inkeyBufferSize = size BY <1>1 DEF Buffers
<1>3. /\ p.StrBufferPos = g.StrBufferPos + 1
      /\ p.StrBuffer = IF g.StrBufferPos + 1 >= Len(g.StrBuffer) THEN <<>> ELSE g.StrBuffer
      /\ p.inkeyBuffer = g.inkeyBuffer /\ p.inkeyHead = g.inkeyHead
      /\ p.inkeyTail = g.inkeyTail /\ p.iLastPut = g.iLastPut
  BY DEF InkeyPop, Buffers
<1>4. RingKeys(p) = RingKeys(g) BY <1>2, <1>3, SameRing
<1>5. g.StrBufferPos \in Nat /\ Len(g.StrBuffer) \in Nat BY DEF Buffers
<1> HIDE DEF p
<1> DEFINE t == Tail(TextKeys(g))
<1>6. /\ t \in Seq(Keys) /\ Len(t) = Len(TextKeys(g)) - 1
      /\ \A i \in 1 .. Len(t) : t[i] = TextKeys(g)[i + 1]
  BY TextType, HeadTailProperties
<1> HIDE DEF t
<1>7. CASE g.StrBufferPos + 1 >= Len(g.StrBuffer)
  <2>1. TextKeys(p) = <<>> BY <1>3, <1>7 DEF TextKeys
  <2>2. Len(t) = 0 BY <1>5, <1>6, <1>7, TextType DEF LeftOK
  <2>3. TextKeys(p) = t BY <1>6, <2>1, <2>2, EmptySeq
  <2> QED BY <1>3, <1>4, <2>3 DEF t, p
<1>8. CASE ~(g.StrBufferPos + 1 >= Len(g.StrBuffer))
  <2>1. p.StrBuffer = g.StrBuffer BY <1>3, <1>8
  <2>2. TextKeys(p) \in Seq(Keys) /\ Len(TextKeys(p)) = Len(t)
    BY SMTT(30), <1>1, <1>3, <1>5, <1>6, <2>1, TextType
  <2>3. Len(t) \in Nat /\ Len(TextKeys(g)) = Len(t) + 1 BY <1>6, LenProperties, TextType
  <2>4. \A i \in 1 .. Len(t) : TextKeys(p)[i] = t[i]
    <3> TAKE i \in 1 .. Len(t)
    <3>1. i + 1 \in 1 .. Len(TextKeys(g)) BY <2>3
    <3>2. TextKeys(g)[i + 1] = g.StrBuffer[g.StrBufferPos + (i + 1)] BY <3>1, TextType
    <3>3. TextKeys(p)[i] = g.StrBuffer[(g.StrBufferPos + 1) + i]
      BY <1>1, <1>3, <2>1, <2>2, TextType
    <3>4. (g.StrBufferPos + 1) + i = g.StrBufferPos + (i + 1) BY <1>5
    <3> QED BY <1>6, <3>2, <3>3, <3>4
  <2>5. TextKeys(p) = t BY <1>6, <2>2, <2>4, SeqEqual
  <2> QED BY <1>3, <1>4, <2>5 DEF t, p
<1> QED BY <1>7, <1>8

\* The key that comes next is the first one of the text, or else of the ring.
LEMMA NextIsFirst ==
    ASSUME NEW size \in Sizes, NEW g \in Buffers(size), LeftOK(g),
           RingKeys(g) \in Seq(Keys), NEW mask
    PROVE  /\ g.StrBuffer # <<>> =>
                 /\ TextKeys(g) # <<>> /\ NextKey(g, mask) = Head(TextKeys(g))
                 /\ NextKey(g, mask) # NoKey
           /\ g.StrBuffer = <<>> /\ g.inkeyHead # g.inkeyTail =>
                 /\ TextKeys(g) = <<>> /\ RingKeys(g) # <<>> /\ Head(RingKeys(g)) # NoKey
                 /\ NextKey(g, mask) = IF mask = "all" \/ Head(RingKeys(g)) # K_MOUSEMOVE
                                       THEN Head(RingKeys(g)) ELSE NoKey
           /\ g.StrBuffer = <<>> /\ g.inkeyHead = g.inkeyTail =>
                 TextKeys(g) = <<>> /\ RingKeys(g) = <<>> /\ NextKey(g, mask) = NoKey
<1>1. CASE g.StrBuffer # <<>>
  <2>1. TextKeys(g) \in Seq(Keys) /\ TextKeys(g) # <<>> BY <1>1, TextType
  <2>2. Len(TextKeys(g)) \in Nat \ {0} BY <2>1, EmptySeq
  <2>3. TextKeys(g)[1] = g.StrBuffer[g.StrBufferPos + 1] BY <1>1, <2>2, TextType
  <2>4. Head(TextKeys(g)) = TextKeys(g)[1] /\ Head(TextKeys(g)) \in Keys
    BY <2>1, HeadTailProperties
  <2> QED BY <1>1, <2>1, <2>3, <2>4, KeysAssumption DEF NextKey
<1>2. CASE g.StrBuffer = <<>> /\ g.inkeyHead # g.inkeyTail
  <2>1. RingKeys(g) # <<>> /\ TextKeys(g) = <<>> BY <1>2, RingEmpty, TextType
  <2>2. Head(RingKeys(g)) = RingKeys(g)[1] /\ Head(RingKeys(g)) \in Keys
    BY <2>1, HeadTailProperties
  <2>3. 1 \in 1 .. Held(g)
    <3>1. Len(RingKeys(g)) = Held(g) BY RingType
    <3> QED BY <2>1, <3>1, EmptySeq
  <2>4. RingKeys(g)[1] = g.inkeyBuffer[At(g, g.inkeyTail + 1 - 1)] BY <2>3, RingType
  <2>5. At(g, g.inkeyTail + 1 - 1) = g.inkeyTail BY SizeOf DEF At, Buffers
  <2>6. Head(RingKeys(g)) = g.inkeyBuffer[g.inkeyTail] BY <2>2, <2>4, <2>5
  <2>7. NextKey(g, mask) = InkeyFilter(Head(RingKeys(g)), mask) BY <1>2, <2>6 DEF NextKey
  <2> QED BY <1>2, <2>1, <2>2, <2>7, KeysAssumption DEF InkeyFilter
<1>3. CASE g.StrBuffer = <<>> /\ g.inkeyHead = g.inkeyTail
  BY <1>3, RingEmpty, TextType DEF NextKey
<1> QED BY <1>1, <1>2, <1>3

\* A turn of INKEY() and a look at the next key, behind the poll.
LEMMA ReadStep ==
    ASSUME NEW size \in Sizes, NEW g \in Buffers(size), LeftOK(g),
           RingKeys(g) \in Seq(Keys), NEW mask
    PROVE  LET next == NextKey(g, mask)
           IN /\ next # NoKey => IsRead(g, InkeyPop(g), mask, next, TRUE)
              /\ next = NoKey => IsRead(g, Checked(g, mask), mask, next, TRUE)
              /\ IsRead(g, Checked(g, mask), mask, next, FALSE)
<1> DEFINE next == NextKey(g, mask)
<1>1. InkeyPop(g).inkeyBufferSize = g.inkeyBufferSize
  <2>1. InkeyPop(g) \in Buffers(size) BY PopType
  <2> QED BY <2>1 DEF Buffers
<1>2. CASE g.StrBuffer # <<>>
  <2>1. Checked(g, mask) = g BY <1>2, NextIsFirst DEF Checked
  <2> QED BY <1>1, <1>2, <2>1, NextIsFirst, PopText DEF IsRead
<1>3. CASE g.StrBuffer = <<>> /\ g.inkeyHead # g.inkeyTail
  <2>1. TextKeys(InkeyPop(g)) = <<>> BY <1>3, PopRing DEF TextKeys
  <2>2. Checked(g, mask) = IF next = NoKey THEN InkeyPop(g) ELSE g
    BY <1>3 DEF Checked, Waiting
  <2>3. /\ TextKeys(g) = <<>> /\ RingKeys(g) # <<>> /\ Head(RingKeys(g)) # NoKey
        /\ next = IF mask = "all" \/ Head(RingKeys(g)) # K_MOUSEMOVE
                  THEN Head(RingKeys(g)) ELSE NoKey
    BY <1>3, NextIsFirst
  <2>4. RingKeys(InkeyPop(g)) = Tail(RingKeys(g)) /\ InkeyPop(g).iLastPut = g.iLastPut
    BY <1>3, PopRing
  <2>5. CASE mask = "all" \/ Head(RingKeys(g)) # K_MOUSEMOVE
    BY <1>1, <2>1, <2>2, <2>3, <2>4, <2>5 DEF IsRead
  <2>6. CASE ~(mask = "all" \/ Head(RingKeys(g)) # K_MOUSEMOVE)
    BY <1>1, <2>1, <2>2, <2>3, <2>4, <2>6 DEF IsRead
  <2> QED BY <2>5, <2>6
<1>4. CASE g.StrBuffer = <<>> /\ g.inkeyHead = g.inkeyTail
  <2>1. Checked(g, mask) = g /\ next = NoKey BY <1>4, NextIsFirst DEF Checked, Waiting
  <2>2. TextKeys(g) = <<>> /\ RingKeys(g) = <<>> BY <1>4, NextIsFirst
  <2> QED BY <2>1, <2>2 DEF IsRead
<1> QED BY <1>2, <1>3, <1>4

LEMMA TextStep ==
    ASSUME NEW size \in Sizes, NEW g \in Buffers(size), LeftOK(g), NEW t \in Seq(Keys)
    PROVE  LET h == InkeySetText(g, t)
           IN /\ RingKeys(h) = RingKeys(g) /\ TextKeys(h) = TextKeys(g) \o t
              /\ h.iLastPut = g.iLastPut /\ h.inkeyBufferSize = g.inkeyBufferSize
<1> DEFINE h == InkeySetText(g, t)
           n == Len(TextKeys(g))
           c == TextKeys(g) \o t
<1>1. h \in Buffers(size) /\ LeftOK(h) BY SetTextType
<1>2. /\ TextKeys(g) \in Seq(Keys) /\ TextKeys(h) \in Seq(Keys)
      /\ n \in Nat /\ Len(t) \in Nat
  BY <1>1, TextType, LenProperties
<1>3. /\ h.inkeyBuffer = g.inkeyBuffer /\ h.inkeyHead = g.inkeyHead
      /\ h.inkeyTail = g.inkeyTail /\ h.iLastPut = g.iLastPut
      /\ h.inkeyBufferSize = g.inkeyBufferSize
  BY DEF InkeySetText, Buffers
<1>4. RingKeys(h) = RingKeys(g) BY <1>3, SameRing
<1>5. CASE t = <<>>
  <2>1. h = g /\ c = TextKeys(g) BY <1>2, <1>5, ConcatEmptySeq DEF InkeySetText
  <2> QED BY <1>3, <1>4, <2>1
<1>6. CASE t # <<>>
  <2> DEFINE p == h.StrBufferPos
             m == Len(g.StrBuffer)
  <2>1. /\ h.StrBuffer = g.StrBuffer \o t
        /\ p = IF g.StrBuffer = <<>> THEN 0 ELSE g.StrBufferPos
    BY <1>6 DEF InkeySetText, Buffers
  <2>2. /\ g.StrBuffer \in Seq(Keys) /\ g.StrBufferPos \in Nat /\ m \in Nat /\ p \in Nat
        /\ Len(t) > 0
    BY <1>1, <1>2, <1>6, EmptySeq DEF Buffers
  <2>3. /\ Len(h.StrBuffer) = m + Len(t)
        /\ \A i \in 1 .. m + Len(t) :
              h.StrBuffer[i] = IF i <= m THEN g.StrBuffer[i] ELSE t[i - m]
    BY <2>1, <2>2, ConcatProperties
  <2>4. h.StrBuffer # <<>> BY <1>2, <2>2, <2>3, EmptySeq
  <2> HIDE DEF h
  <2>5. /\ n = m - p
        /\ \A i \in 1 .. n : TextKeys(g)[i] = g.StrBuffer[p + i]
    <3>1. CASE g.StrBuffer = <<>>
      <4>1. n = 0 /\ m = 0 BY <3>1, EmptySeq DEF TextKeys
      <4> QED BY <2>1, <3>1, <4>1
    <3>2. CASE g.StrBuffer # <<>> BY <2>1, <3>2, TextType
    <3> QED BY <3>1, <3>2
  <2>6. /\ Len(TextKeys(h)) = (m + Len(t)) - p
        /\ \A i \in 1 .. Len(TextKeys(h)) : TextKeys(h)[i] = h.StrBuffer[p + i]
    BY <1>1, <2>3, <2>4, TextType
  <2>7. /\ c \in Seq(Keys) /\ Len(c) = n + Len(t)
        /\ \A i \in 1 .. n + Len(t) : c[i] = IF i <= n THEN TextKeys(g)[i] ELSE t[i - n]
    BY <1>2, ConcatProperties
  <2> HIDE DEF c, n, m, p
  <2>8. Len(TextKeys(h)) = n + Len(t) BY <1>2, <2>2, <2>5, <2>6
  <2>9. ASSUME NEW i \in 1 .. n + Len(t) PROVE TextKeys(h)[i] = c[i]
    <3> DEFINE j == p + i
    <3>1. TextKeys(h)[i] = h.StrBuffer[j] BY <2>6, <2>8
    <3>2. j \in 1 .. m + Len(t) BY <1>2, <2>2, <2>5
    <3>3. CASE i <= n
      <4>1. j <= m /\ i \in 1 .. n BY <1>2, <2>2, <2>5, <3>3
      <4>2. TextKeys(g)[i] = g.StrBuffer[j] BY <2>5, <4>1
      <4> HIDE DEF j
      <4> QED BY <2>3, <2>7, <3>1, <3>2, <3>3, <4>1, <4>2
    <3>4. CASE ~(i <= n)
      <4>1. ~(j <= m) /\ j - m = i - n BY <1>2, <2>2, <2>5, <3>4
      <4> HIDE DEF j
      <4>2. h.StrBuffer[j] = t[j - m] BY <2>3, <3>2, <4>1
      <4> QED BY <2>7, <3>1, <3>4, <4>1, <4>2
    <3> QED BY <3>3, <3>4
  <2>10. TextKeys(h) = c BY <1>2, <2>7, <2>8, <2>9, SeqEqual
  <2> QED BY <1>3, <1>4, <2>10 DEF h, c
<1> QED BY <1>5, <1>6

LEMMA ResetStep ==
    ASSUME NEW size \in Sizes, NEW g \in Buffers(size), NEW wanted \in TypeAheads
    PROVE  /\ RingKeys(InkeyReset(g, wanted)) = <<>>
           /\ TextKeys(InkeyReset(g, wanted)) = <<>>
           /\ InkeyReset(g, wanted).iLastPut = g.iLastPut
<1> DEFINE h == InkeyReset(g, wanted)
<1>1. PICK new \in Sizes : h \in Buffers(new) BY ResetType
<1>2. h.inkeyHead = 0 /\ h.inkeyTail = 0 /\ h.iLastPut = g.iLastPut /\ h.StrBuffer = <<>>
  BY DEF InkeyReset, Buffers
<1>3. TextKeys(h) = <<>> BY <1>2 DEF TextKeys
<1> HIDE DEF h
<1>4. RingKeys(h) = <<>> BY <1>1, <1>2, RingEmpty
<1> QED BY <1>2, <1>3, <1>4 DEF h

-----------------------------------------------------------------------------
(* The buffer implements the queue: what the ring holds are keys, never    *)
(* the zeros that a new buffer is full of.                                 *)

RingOK == RingKeys(pGT) \in Seq(Keys)

LEMMA InitQueue == Init => Queue!Init /\ RingOK
<1> SUFFICES ASSUME Init PROVE Queue!Init /\ RingOK OBVIOUS
<1>1. IInv BY InitType
<1>2. PICK size \in Sizes : pGT \in Buffers(size) BY <1>1 DEF IInv, TypeOK
<1>3. pGT.inkeyHead = pGT.inkeyTail /\ pGT.iLastPut = NoKey BY DEF Init
<1>4. RingKeys(pGT) = <<>> BY <1>2, <1>3, RingEmpty
<1>5. TextKeys(pGT) = <<>> BY DEF Init, TextKeys
<1>6. pGT.inkeyBufferSize = size BY <1>2 DEF Buffers
<1> QED BY <1>3, <1>4, <1>5, <1>6, EmptySeq DEF Queue!Init, RingOK

\* A key that goes into the ring or not.
LEMMA PutKeys ==
    ASSUME NEW g, NEW h, NEW k \in Cell, IsPut(g, h, k), RingKeys(g) \in Seq(Keys)
    PROVE  RingKeys(h) \in Seq(Keys)
<1>1. CASE Lost(g, k) BY <1>1 DEF IsPut
<1>2. CASE ~Lost(g, k)
  <2>1. k \in Keys BY <1>2 DEF Lost, Cell
  <2> QED BY <1>2, <2>1, AppendProperties DEF IsPut
<1> QED BY <1>1, <1>2

LEMMA ReadKeys ==
    ASSUME NEW g, NEW h, NEW mask, NEW got, NEW take, IsRead(g, h, mask, got, take),
           RingKeys(g) \in Seq(Keys)
    PROVE  RingKeys(h) \in Seq(Keys)
<1>1. RingKeys(h) = RingKeys(g) \/ (RingKeys(g) # <<>> /\ RingKeys(h) = Tail(RingKeys(g)))
  BY DEF IsRead
<1> QED BY <1>1, HeadTailProperties

\* The steps of the queue.
LEMMA QueuePut ==
    ASSUME NEW k, IsPut(pGT, pGT', k), event' = [Now("put") EXCEPT !.key = k]
    PROVE  Queue!Put
<1>1. Queue!Did("put") /\ event'.key = k BY DEF Queue!Did, Now, Event
<1>2. Lost(pGT, k) <=> k = NoKey \/ Queue!Full \/ Queue!MovesAgain(k)
  BY DEF Lost, Queue!Full, Queue!MovesAgain
<1> QED BY <1>1, <1>2 DEF IsPut, Queue!Put, Queue!With, Queue!Newest

LEMMA QueuePeek ==
    ASSUME NEW mask, NEW got, IsRead(pGT, pGT', mask, got, FALSE),
           event' = [Now("peek") EXCEPT !.mask = mask, !.got = got]
    PROVE  Queue!Peek
<1>1. Queue!Did("peek") /\ event'.mask = mask /\ event'.got = got
  BY DEF Queue!Did, Now, Event
<1> QED BY <1>1 DEF IsRead, Queue!Peek, Queue!Reads, Queue!Passes

LEMMA QueueInkey ==
    ASSUME NEW k, NEW g, IsPut(pGT, g, k), NEW mask, NEW got, IsRead(g, pGT', mask, got, TRUE),
           event' = [Now("inkey") EXCEPT !.key = k, !.mask = mask, !.got = got]
    PROVE  Queue!Inkey
<1>1. /\ Queue!Did("inkey") /\ event'.key = k /\ event'.mask = mask /\ event'.got = got
  BY DEF Queue!Did, Now, Event
<1>2. Lost(pGT, k) <=> k = NoKey \/ Queue!Full \/ Queue!MovesAgain(k)
  BY DEF Lost, Queue!Full, Queue!MovesAgain
<1>3. Queue!With(k) = RingKeys(g) /\ Queue!Newest(k) = g.iLastPut /\ TextKeys(g) = TextKeys(pGT)
      /\ g.inkeyBufferSize = pGT.inkeyBufferSize
  BY <1>2 DEF IsPut, Queue!With, Queue!Newest
<1>4. Queue!Reads(RingKeys(g), TRUE)
  BY <1>1, <1>3 DEF IsRead, Queue!Reads, Queue!Passes
<1> QED BY <1>1, <1>3, <1>4 DEF IsRead, Queue!Inkey

LEMMA StepQueue ==
    IInv /\ RingOK /\ [Next]_vars => [Queue!Next]_(Queue!vars) /\ RingOK'
<1> SUFFICES ASSUME IInv, RingOK, [Next]_vars
             PROVE  (Queue!Next \/ UNCHANGED Queue!vars) /\ RingOK'
  OBVIOUS
<1>1. PICK size \in Sizes : pGT \in Buffers(size) BY DEF IInv, TypeOK
<1>2. LeftOK(pGT) BY DEF IInv, TextLeft, LeftOK
<1>3. IInv' BY StepType
<1>4. PICK new \in Sizes : pGT' \in Buffers(new) BY <1>3 DEF IInv, TypeOK
<1>5. pGT.inkeyBufferSize = size /\ pGT'.inkeyBufferSize = new BY <1>1, <1>4 DEF Buffers
<1>6. ASSUME Same(pGT, pGT'), event' = event PROVE UNCHANGED Queue!vars /\ RingOK'
  BY <1>6 DEF Same, Queue!vars, RingOK
\* A put, whoever brings the key.
<1>7. ASSUME NEW k \in Cell, IsPut(pGT, pGT', k), event' = [Now("put") EXCEPT !.key = k]
      PROVE  Queue!Next /\ RingOK'
  BY <1>7, QueuePut, PutKeys DEF Queue!Next, RingOK
\* Everything is forgotten but the new text.
<1>8. ASSUME RingKeys(pGT') = <<>>, pGT'.iLastPut = pGT.iLastPut,
             NEW t, TextKeys(pGT') = t, event' = [Now("reset") EXCEPT !.text = t]
      PROVE  Queue!Next /\ RingOK'
  <2>1. Queue!Did("reset") /\ event'.text = t BY <1>8 DEF Queue!Did, Now, Event
  <2>2. Queue!Reset BY <1>4, <1>5, <1>8, <2>1 DEF Queue!Reset
  <2> QED BY <1>8, <2>2, EmptySeq DEF Queue!Next, RingOK
<1>9. ASSUME NEW k \in Keys, PutKey(k) PROVE Queue!Next /\ RingOK'
  <2>1. IsPut(pGT, pGT', k) /\ k \in Cell BY <1>1, <1>2, <1>9, PutStep DEF PutKey, Cell
  <2> QED BY <1>7, <1>9, <2>1 DEF PutKey
<1>10. ASSUME NEW k \in Keys, InsertKey(k) PROVE Queue!Next /\ RingOK'
  <2>1. pGT' = InkeyIns(pGT, k) /\ event' = [Now("insert") EXCEPT !.key = k]
    BY <1>10 DEF InsertKey
  <2>2. pGT' \in Buffers(size) BY <1>1, <1>2, <2>1, InsType
  <2>3. pGT'.inkeyBufferSize = size BY <2>2 DEF Buffers
  <2>4. TextKeys(pGT') = TextKeys(pGT) /\ pGT'.iLastPut = pGT.iLastPut
    BY <1>1, <1>2, <2>1, InsRing, SameText
  <2> DEFINE n == Len(RingKeys(pGT))
             rest == IF n >= size - 1 THEN SubSeq(RingKeys(pGT), 1, size - 2)
                     ELSE RingKeys(pGT)
  <2>5. size \in Nat /\ size >= 2 /\ n \in Nat /\ n <= size - 1
    BY <1>1, SizeOf, RingType
  <2>6. RingKeys(pGT') = <<k>> \o rest
    <3>1. n >= size - 1 <=> ~(n < size - 1) BY <2>5
    <3> QED BY <1>1, <1>2, <2>1, <3>1, InsRing
  <2>7. rest \in Seq(Keys)
    <3>1. CASE n >= size - 1
      <4>1. \A i \in 1 .. size - 2 : RingKeys(pGT)[i] \in Keys
        BY <2>5, <3>1, ElementOfSeq DEF RingOK
      <4> QED BY <2>5, <3>1, <4>1, SubSeqProperties
    <3>2. CASE ~(n >= size - 1) BY <3>2 DEF RingOK
    <3> QED BY <3>1, <3>2
  <2>8. RingOK'
    <3>1. <<k>> \in Seq(Keys) OBVIOUS
    <3> HIDE DEF rest
    <3> QED BY <2>6, <2>7, <3>1, ConcatProperties DEF RingOK
  <2>9. Queue!Did("insert") /\ event'.key = k BY <2>1 DEF Queue!Did, Now, Event
  <2>10. Queue!Insert
    <3>1. size - 2 = (size - 1) - 1 BY <2>5
    <3> QED BY <1>5, <2>3, <2>4, <2>6, <2>9, <3>1 DEF Queue!Insert, Queue!Full
  <2> QED BY <2>8, <2>10 DEF Queue!Next
<1>11. ASSUME NEW k \in Plain, SetLast(k) PROVE UNCHANGED Queue!vars /\ RingOK'
  <2>1. pGT' = [pGT EXCEPT !.inkeyLast = k] /\ event' = event BY <1>11 DEF SetLast
  <2>2. Same(pGT, pGT') BY <1>1, <2>1, SameRing, SameText DEF Buffers, Same
  <2> QED BY <1>6, <2>1, <2>2
<1>12. ASSUME NEW k \in Keys \cup {NoKey}, Poll(k) PROVE Queue!Next /\ RingOK'
  <2>1. k \in Cell BY DEF Cell
  <2>2. IsPut(pGT, pGT', Typed(k)) /\ Typed(k) \in Cell
    BY <1>1, <1>2, <1>12, <2>1, PollDoStep, TypedType DEF Poll
  <2> QED BY <1>7, <1>12, <2>2 DEF Poll
<1>13. ASSUME NEW mask \in Masks, PeekKey(mask) PROVE Queue!Next /\ RingOK'
  <2>1. IsRead(pGT, pGT', mask, NextKey(pGT, mask), FALSE)
    BY <1>1, <1>2, <1>13, ReadStep DEF PeekKey, RingOK
  <2>2. Queue!Peek BY <1>13, <2>1, QueuePeek DEF PeekKey
  <2>3. RingOK' BY <2>1, ReadKeys DEF RingOK
  <2> QED BY <2>2, <2>3 DEF Queue!Next
<1>14. ASSUME NEW t \in Texts, NEW keep \in BOOLEAN, Keyboard(t, keep)
       PROVE  Queue!Next /\ RingOK'
  <2>1. t \in Seq(Keys) BY TextsType
  <2>2. CASE keep
    <3>1. pGT' = InkeySetText(pGT, t) /\ event' = [Now("stuff") EXCEPT !.text = t]
      BY <1>14, <2>2 DEF Keyboard
    <3>2. Queue!Did("stuff") /\ event'.text = t BY <3>1 DEF Queue!Did, Now, Event
    <3>3. RingKeys(pGT') = RingKeys(pGT) /\ TextKeys(pGT') = TextKeys(pGT) \o t
          /\ pGT'.iLastPut = pGT.iLastPut /\ pGT'.inkeyBufferSize = pGT.inkeyBufferSize
      BY <1>1, <1>2, <2>1, <3>1, TextStep
    <3>4. Queue!Stuff BY <3>2, <3>3 DEF Queue!Stuff
    <3> QED BY <3>3, <3>4 DEF Queue!Next, RingOK
  <2>3. CASE ~keep
    <3> DEFINE g == InkeyReset(pGT, typeAhead)
    <3>1. pGT' = InkeySetText(g, t) /\ event' = [Now("reset") EXCEPT !.text = t]
      BY <1>14, <2>3 DEF Keyboard
    <3>2. typeAhead \in TypeAheads BY DEF IInv, TypeOK
    <3>3. PICK s \in Sizes : g \in Buffers(s) /\ LeftOK(g) BY <1>1, <3>2, ResetType
    <3>4. RingKeys(g) = <<>> /\ TextKeys(g) = <<>> /\ g.iLastPut = pGT.iLastPut
      BY <1>1, <3>2, ResetStep
    <3> HIDE DEF g
    <3>5. RingKeys(pGT') = RingKeys(g) /\ TextKeys(pGT') = TextKeys(g) \o t
          /\ pGT'.iLastPut = g.iLastPut
      BY <2>1, <3>1, <3>3, TextStep
    <3>6. TextKeys(pGT') = t BY <2>1, <3>4, <3>5, ConcatEmptySeq
    <3> QED BY <1>8, <3>1, <3>4, <3>5, <3>6
  <2> QED BY <2>2, <2>3
<1>15. ASSUME NEW n \in TypeAheads, SetTypeAhead(n) PROVE Queue!Next /\ RingOK'
  <2>1. RingKeys(pGT') = <<>> /\ TextKeys(pGT') = <<>> /\ pGT'.iLastPut = pGT.iLastPut
    BY <1>1, <1>15, ResetStep DEF SetTypeAhead
  <2>2. event' = [Now("reset") EXCEPT !.text = <<>>] BY <1>15 DEF SetTypeAhead, Now, Event
  <2> QED BY <1>8, <2>1, <2>2
<1>16. ASSUME NEW call \in Inkeys, BeginInkey(call) PROVE UNCHANGED Queue!vars /\ RingOK'
  BY <1>16 DEF BeginInkey, Queue!vars, RingOK
<1>17. ASSUME NEW k \in Keys \cup {NoKey}, Turn(k) PROVE Queue!Next /\ RingOK'
  <2> DEFINE g == InkeyPollDo(pGT, k)
             next == NextKey(g, inkey.mask)
             seen == IF Waiting(g) THEN [g EXCEPT !.inkeyLast = next] ELSE g
  <2>1. k \in Cell /\ g \in Buffers(size) /\ LeftOK(g) BY <1>1, <1>2, PollDoType DEF Cell
  <2>2. IsPut(pGT, g, Typed(k)) BY <1>1, <1>2, <2>1, PollDoStep
  <2>3. next \in Keys \cup {NoKey} BY <2>1, NextKeyType DEF Cell
  <2>4. /\ \/ next # NoKey /\ pGT' = InkeyPop(seen)
           \/ next = NoKey /\ pGT' = Checked(seen, inkey.mask)
        /\ event' = [Now("inkey") EXCEPT !.key = Typed(k), !.mask = inkey.mask, !.got = next]
    BY <1>17 DEF Turn
  <2> HIDE DEF g
  <2>5. seen.StrBuffer = g.StrBuffer /\ seen.StrBufferPos = g.StrBufferPos
        /\ seen.inkeyBuffer = g.inkeyBuffer /\ seen.inkeyBufferSize = g.inkeyBufferSize
        /\ seen.inkeyHead = g.inkeyHead /\ seen.inkeyTail = g.inkeyTail
        /\ seen.iLastPut = g.iLastPut
    BY <2>1 DEF Buffers
  <2>6. seen \in Buffers(size) BY <2>1, <2>3 DEF Buffers
  <2>7. LeftOK(seen) BY <2>1, <2>5 DEF LeftOK
  <2>8. next = NextKey(seen, inkey.mask) BY <2>5 DEF NextKey
  <2> HIDE DEF seen, next
  <2>9. Same(g, seen) BY <2>5, SameRing, SameText DEF Same
  <2>10. IsPut(pGT, seen, Typed(k)) BY <2>2, <2>9 DEF IsPut, Same
  <2>11. RingKeys(seen) \in Seq(Keys) BY <2>1, <2>10, TypedType, PutKeys DEF RingOK
  <2>12. IsRead(seen, pGT', inkey.mask, next, TRUE)
    BY <2>4, <2>6, <2>7, <2>8, <2>11, ReadStep
  <2>13. Queue!Inkey BY <2>4, <2>10, <2>12, QueueInkey
  <2>14. RingOK' BY <2>11, <2>12, ReadKeys DEF RingOK
  <2> QED BY <2>13, <2>14 DEF Queue!Next
<1>18. CASE UNCHANGED vars BY <1>18 DEF vars, Queue!vars, RingOK
<1> QED
  BY <1>9, <1>10, <1>11, <1>12, <1>13, <1>14, <1>15, <1>16, <1>17, <1>18 DEF Next, Call

\* Keys are neither lost, doubled nor reordered but where the queue says so: for
\* every buffer size, each call that puts, inserts or reads a key does to the ring
\* and its text what it does to KeyQueue.
THEOREM BufferIsQueue == Spec => QueueSpec
<1>1. Spec => []IInv BY Inductive
<1>2. Spec => Queue!Spec BY <1>1, InitQueue, StepQueue, PTL DEF Spec, Queue!Spec
<1> QED BY <1>2 DEF QueueSpec

-----------------------------------------------------------------------------
(* The idle tasks, which run while INKEY() waits (module IdleTasks).  For   *)
(* every set of tasks a round runs no task twice, whatever is added and    *)
(* deleted meanwhile, and the index passes the end of the list only by a    *)
(* deletion at the end of a round.                                         *)

Distinct == \A i, j \in 1 .. Len(s_pIdleTasks) : s_pIdleTasks[i] = s_pIdleTasks[j] => i = j
RanListed == ran \subseteq Listed

TasksInv == IdleTypeOK /\ Distinct /\ RanListed /\ OnceARound

\* What a deletion leaves.
LEMMA WithoutProperties ==
    ASSUME NEW S, NEW seq \in Seq(S), NEW i \in 1 .. Len(seq)
    PROVE  /\ Without(seq, i) \in Seq(S) /\ Len(Without(seq, i)) = Len(seq) - 1
           /\ \A j \in 1 .. Len(seq) - 1 :
                 Without(seq, i)[j] = IF j < i THEN seq[j] ELSE seq[j + 1]
<1> DEFINE n == Len(seq)
           a == SubSeq(seq, 1, i - 1)
           b == SubSeq(seq, i + 1, n)
<1>1. n \in Nat /\ i \in Nat /\ 1 <= i /\ i <= n /\ \A j \in 1 .. n : seq[j] \in S
  BY LenProperties, ElementOfSeq
<1>2. /\ a \in Seq(S) /\ Len(a) = i - 1
      /\ \A j \in 1 .. i - 1 : a[j] = seq[j]
  <2>1. 1 \in Int /\ i - 1 \in Int /\ \A j \in 1 .. i - 1 : seq[j] \in S BY <1>1
  <2> HIDE DEF n
  <2>2. /\ a \in Seq(S) /\ Len(a) = IF 1 <= i - 1 THEN i - 1 - 1 + 1 ELSE 0
        /\ \A j \in 1 .. i - 1 - 1 + 1 : a[j] = seq[1 + j - 1]
    BY <2>1, SubSeqProperties
  <2> HIDE DEF a
  <2> QED BY <1>1, <2>2
<1>3. /\ b \in Seq(S) /\ Len(b) = n - i
      /\ \A j \in 1 .. n - i : b[j] = seq[i + j]
  <2>1. i + 1 \in Int /\ n \in Int /\ \A j \in i + 1 .. n : seq[j] \in S BY <1>1
  <2> HIDE DEF n
  <2>2. /\ b \in Seq(S) /\ Len(b) = IF i + 1 <= n THEN n - (i + 1) + 1 ELSE 0
        /\ \A j \in 1 .. n - (i + 1) + 1 : b[j] = seq[i + 1 + j - 1]
    BY <2>1, SubSeqProperties
  <2> HIDE DEF b
  <2> QED BY <1>1, <2>2
<1>4. Without(seq, i) = a \o b BY DEF Without
<1> HIDE DEF n, a, b
<1>5. /\ a \o b \in Seq(S) /\ Len(a \o b) = (i - 1) + (n - i)
      /\ \A j \in 1 .. (i - 1) + (n - i) :
            (a \o b)[j] = IF j <= i - 1 THEN a[j] ELSE b[j - (i - 1)]
  <2>1. \A j \in 1 .. Len(a) + Len(b) :
           (a \o b)[j] = IF j <= Len(a) THEN a[j] ELSE b[j - Len(a)]
    BY <1>2, <1>3, ConcatProperties
  <2>2. a \o b \in Seq(S) /\ Len(a \o b) = Len(a) + Len(b)
    BY <1>2, <1>3, ConcatProperties
  <2> QED BY <1>2, <1>3, <2>1, <2>2
<1>6. ASSUME NEW j \in 1 .. n - 1
      PROVE  (a \o b)[j] = IF j < i THEN seq[j] ELSE seq[j + 1]
  <2>1. CASE j < i BY <1>1, <1>2, <1>5, <2>1
  <2>2. CASE ~(j < i)
    <3>1. j - (i - 1) \in 1 .. n - i /\ i + (j - (i - 1)) = j + 1 BY <1>1, <2>2
    <3>2. j \in 1 .. (i - 1) + (n - i) /\ ~(j <= i - 1) BY <1>1, <2>2
    <3>3. (a \o b)[j] = b[j - (i - 1)] BY <1>5, <3>2
    <3> QED BY <1>3, <2>2, <3>1, <3>3
  <2> QED BY <2>1, <2>2
<1> QED BY <1>1, <1>4, <1>5, <1>6 DEF n

LEMMA InitTasks == IdleInit => TasksInv
<1> SUFFICES ASSUME IdleInit PROVE TasksInv OBVIOUS
<1>1. s_pIdleTasks = <<>> /\ Len(s_pIdleTasks) = 0 /\ s_pIdleTasks \in Seq(Tasks)
  BY EmptySeq DEF IdleInit
<1>2. IdleTypeOK BY <1>1 DEF IdleTypeOK, IdleInit
<1>3. Distinct BY <1>1 DEF Distinct
<1>4. RanListed BY DEF RanListed, IdleInit
<1>5. OnceARound BY DEF OnceARound, IdleInit
<1> QED BY <1>2, <1>3, <1>4, <1>5 DEF TasksInv

\* The list and its index stay, and only what ran matters.
LEMMA StepTasks == TasksInv /\ [IdleNext]_idleVars => TasksInv'
<1> SUFFICES ASSUME TasksInv, [IdleNext]_idleVars PROVE TasksInv' OBVIOUS
<1> DEFINE n == Len(s_pIdleTasks)
<1>1. /\ s_pIdleTasks \in Seq(Tasks) /\ n \in Nat /\ DOMAIN s_pIdleTasks = 1 .. n
      /\ s_uiIdleTask \in Nat
      /\ \A i \in 1 .. n : s_pIdleTasks[i] \in Tasks
  BY LenProperties, ElementOfSeq DEF TasksInv, IdleTypeOK
<1>2. ASSUME UNCHANGED <<s_pIdleTasks, s_uiIdleTask, running, ran>>,
             s_bIamIdle' \in BOOLEAN, hb_vm_bCollectGarbage' \in BOOLEAN,
             idleRepeat' \in BOOLEAN
      PROVE  TasksInv'
  BY <1>2 DEF TasksInv, IdleTypeOK, Distinct, RanListed, Listed, OnceARound, Behind
<1>3. CASE Collect BY <1>2, <1>3 DEF Collect, list, TasksInv, IdleTypeOK
<1>4. CASE \E on \in BOOLEAN : SetIdleRepeat(on)
  BY <1>2, <1>4 DEF SetIdleRepeat, list, TasksInv, IdleTypeOK
<1>5. CASE UNCHANGED idleVars BY <1>2, <1>5 DEF idleVars, list, TasksInv, IdleTypeOK
<1>6. CASE BeginTask
  <2> DEFINE k == s_uiIdleTask + 1
  <2>1. k \in 1 .. n /\ running' = s_pIdleTasks[k] /\ ran' = ran \cup {s_pIdleTasks[k]}
        /\ s_pIdleTasks' = s_pIdleTasks /\ s_uiIdleTask' = s_uiIdleTask
    BY <1>1, <1>6 DEF BeginTask, list
  <2>2. running' \in Tasks /\ running' # NoTask BY <1>1, <2>1, TasksAssumption
  <2>3. IdleTypeOK' BY <1>1, <1>6, <2>1, <2>2 DEF BeginTask, list, TasksInv, IdleTypeOK
  <2>4. Distinct' BY <2>1 DEF TasksInv, Distinct
  <2>5. RanListed' BY <1>1, <2>1 DEF TasksInv, RanListed, Listed
  <2>6. Behind' = k /\ Behind <= k BY <1>1, <2>1, <2>2 DEF Behind
  <2>7. OnceARound'
    <3> SUFFICES ASSUME NEW i \in 1 .. n, s_pIdleTasks[i] \in ran'
                 PROVE  i <= k
      BY <1>1, <2>1, <2>6 DEF OnceARound
    <3>1. CASE s_pIdleTasks[i] \in ran
      <4>1. Behind \in Nat BY <1>1 DEF Behind
      <4>2. i <= Behind BY <1>1, <3>1 DEF TasksInv, OnceARound
      <4> QED BY <2>1, <2>6, <4>1, <4>2
    <3>2. CASE s_pIdleTasks[i] = s_pIdleTasks[k]
      <4>1. i = k BY <2>1, <3>2 DEF TasksInv, Distinct
      <4> QED BY <2>1, <4>1
    <3> QED BY <2>1, <3>1, <3>2
  <2> QED BY <2>3, <2>4, <2>5, <2>7 DEF TasksInv
<1>7. CASE EndTask
  <2>1. /\ running # NoTask /\ running' = NoTask /\ s_uiIdleTask' = s_uiIdleTask + 1
        /\ s_pIdleTasks' = s_pIdleTasks /\ ran' = ran
    BY <1>7 DEF EndTask
  <2>2. Behind' = Behind BY <2>1 DEF Behind
  <2>3. s_bIamIdle' = FALSE /\ UNCHANGED <<hb_vm_bCollectGarbage, idleRepeat>>
    BY <1>7 DEF EndTask
  <2>4. s_uiIdleTask' \in Nat BY <1>1, <2>1
  <2>5. IdleTypeOK' BY <2>1, <2>3, <2>4 DEF TasksInv, IdleTypeOK
  <2> QED BY <2>1, <2>2, <2>5 DEF TasksInv, Distinct, RanListed, Listed, OnceARound
<1>8. CASE Again
  <2>1. s_pIdleTasks' = s_pIdleTasks /\ ran' = {} BY <1>8 DEF Again
  <2>2. IdleTypeOK' BY <1>8 DEF Again, TasksInv, IdleTypeOK
  <2> QED BY <2>1, <2>2 DEF TasksInv, Distinct, RanListed, OnceARound
<1>9. ASSUME NEW task \in Tasks, Add(task) PROVE TasksInv'
  <2>1. /\ s_pIdleTasks' = Append(s_pIdleTasks, task) /\ task \notin Listed
        /\ UNCHANGED <<s_uiIdleTask, running, ran>>
    BY <1>9 DEF Add
  <2>2. /\ s_pIdleTasks' \in Seq(Tasks) /\ Len(s_pIdleTasks') = n + 1
        /\ DOMAIN s_pIdleTasks' = 1 .. n + 1
        /\ \A i \in 1 .. n : s_pIdleTasks'[i] = s_pIdleTasks[i]
        /\ s_pIdleTasks'[n + 1] = task
    BY <1>1, <2>1, AppendProperties, LenProperties
  <2>3. IdleTypeOK' BY <1>9, <2>1, <2>2 DEF Add, TasksInv, IdleTypeOK
  <2>4. \A i \in 1 .. n : s_pIdleTasks[i] # task BY <1>1, <2>1 DEF Listed
  <2>5. Distinct'
    <3> SUFFICES ASSUME NEW i \in 1 .. n + 1, NEW j \in 1 .. n + 1,
                        s_pIdleTasks'[i] = s_pIdleTasks'[j]
                 PROVE  i = j
      BY <2>2 DEF Distinct
    <3>1. CASE i \in 1 .. n /\ j \in 1 .. n BY <2>2, <3>1 DEF TasksInv, Distinct
    <3>2. CASE i = n + 1 \/ j = n + 1 BY <1>1, <2>2, <2>4, <3>2
    <3> QED BY <1>1, <3>1, <3>2
  <2>6. RanListed'
    <3>1. Listed \subseteq Listed' BY <1>1, <2>2 DEF Listed
    <3> QED BY <2>1, <3>1 DEF TasksInv, RanListed
  <2>7. OnceARound'
    <3> SUFFICES ASSUME NEW i \in 1 .. n + 1, s_pIdleTasks'[i] \in ran
                 PROVE  i <= Behind
      BY <2>1, <2>2 DEF OnceARound, Behind
    <3>1. i # n + 1 BY <2>1, <2>2 DEF TasksInv, RanListed
    <3>2. i \in 1 .. n BY <1>1, <3>1
    <3> QED BY <1>1, <2>2, <3>2 DEF TasksInv, OnceARound
  <2> QED BY <2>3, <2>5, <2>6, <2>7 DEF TasksInv
<1>10. ASSUME NEW k \in DOMAIN s_pIdleTasks, Del(k) PROVE TasksInv'
  <2> DEFINE Was(j) == IF j < k THEN j ELSE j + 1
  <2>1. /\ s_pIdleTasks' = Without(s_pIdleTasks, k)
        /\ ran' = ran \ {s_pIdleTasks[k]}
        /\ UNCHANGED <<s_uiIdleTask, running>>
    BY <1>10 DEF Del
  <2>2. k \in 1 .. n BY <1>1
  <2>3. /\ s_pIdleTasks' \in Seq(Tasks) /\ Len(s_pIdleTasks') = n - 1
        /\ DOMAIN s_pIdleTasks' = 1 .. n - 1
        /\ \A j \in 1 .. n - 1 : s_pIdleTasks'[j] = s_pIdleTasks[Was(j)]
    <3>1. /\ s_pIdleTasks' \in Seq(Tasks) /\ Len(s_pIdleTasks') = n - 1
          /\ \A j \in 1 .. n - 1 : s_pIdleTasks'[j] = IF j < k THEN s_pIdleTasks[j]
                                                      ELSE s_pIdleTasks[j + 1]
      BY <1>1, <2>1, <2>2, WithoutProperties
    <3> QED BY <3>1, LenProperties
  <2>4. \A j \in 1 .. n - 1 : Was(j) \in 1 .. n /\ Was(j) # k /\ Was(j) >= j
    BY <1>1, <2>2
  <2>5. \A i \in 1 .. n : i # k => \E j \in 1 .. n - 1 : Was(j) = i
    <3> TAKE i \in 1 .. n
    <3>1. CASE i < k
      <4>1. i \in 1 .. n - 1 /\ Was(i) = i BY <1>1, <2>2, <3>1
      <4> QED BY <4>1
    <3>2. CASE i > k
      <4>1. i - 1 \in 1 .. n - 1 /\ Was(i - 1) = i BY <1>1, <2>2, <3>2
      <4> QED BY <4>1
    <3> QED BY <1>1, <2>2, <3>1, <3>2
  <2>6. IdleTypeOK' BY <1>10, <2>1, <2>3 DEF Del, TasksInv, IdleTypeOK
  <2>7. Distinct'
    <3> SUFFICES ASSUME NEW i \in 1 .. n - 1, NEW j \in 1 .. n - 1,
                        s_pIdleTasks'[i] = s_pIdleTasks'[j]
                 PROVE  i = j
      BY <2>3 DEF Distinct
    <3>1. Was(i) = Was(j) BY <2>3, <2>4 DEF TasksInv, Distinct
    <3> QED BY <1>1, <2>2, <3>1
  <2> HIDE DEF Was
  <2>8. RanListed'
    <3> SUFFICES ASSUME NEW t \in ran, t # s_pIdleTasks[k] PROVE t \in Listed'
      BY <2>1 DEF RanListed
    <3>1. PICK i \in 1 .. n : s_pIdleTasks[i] = t BY <1>1 DEF TasksInv, RanListed, Listed
    <3>2. PICK j \in 1 .. n - 1 : Was(j) = i BY <2>5, <3>1
    <3> QED BY <2>3, <3>1, <3>2 DEF Listed
  <2>9. OnceARound'
    <3> SUFFICES ASSUME NEW j \in 1 .. n - 1, s_pIdleTasks'[j] \in ran
                 PROVE  j <= Behind
      BY <2>1, <2>3 DEF OnceARound, Behind
    <3>1. Was(j) <= Behind BY <1>1, <2>3, <2>4 DEF TasksInv, OnceARound
    <3>2. Behind \in Nat /\ Was(j) \in Nat BY <1>1, <2>4 DEF Behind
    <3> QED BY <2>4, <3>1, <3>2
  <2> QED BY <2>6, <2>7, <2>8, <2>9 DEF TasksInv
<1> QED
  BY <1>3, <1>4, <1>5, <1>6, <1>7, <1>8, <1>9, <1>10
     DEF IdleNext, IdleState, Repeat, IdleReset

LEMMA TasksInductive == IdleSpec => []TasksInv
BY InitTasks, StepTasks, PTL DEF IdleSpec

\* The list, the index and the flags of hb_idleState keep their types.
THEOREM TasksTyped == IdleSpec => []IdleTypeOK
BY TasksInductive, PTL DEF TasksInv

\* No round runs a task twice, with every deletion and addition from inside the
\* tasks: each entry that moves, moves towards the front.
THEOREM OnceARoundAlways == IdleSpec => []OnceARound
BY TasksInductive, PTL DEF TasksInv

-----------------------------------------------------------------------------
\* The step that leaves the index behind the end of the list is the deletion of a
\* task when no other task of the round is to come.
EndDeletions == IndexInRange /\ ~IndexInRange'
                   => /\ Behind = Len(s_pIdleTasks)
                      /\ \E k \in DOMAIN s_pIdleTasks : Del(k)

LEMMA StepIndex ==
    ASSUME TasksInv, IndexInRange, [IdleNext]_idleVars,
           \/ Behind # Len(s_pIdleTasks)
           \/ \A k \in DOMAIN s_pIdleTasks : ~Del(k)
    PROVE  IndexInRange'
<1> DEFINE n == Len(s_pIdleTasks)
<1>1. /\ s_pIdleTasks \in Seq(Tasks) /\ n \in Nat /\ s_uiIdleTask \in Nat
      /\ Behind \in Nat /\ Behind <= n
  BY LenProperties DEF TasksInv, IdleTypeOK, IndexInRange, Behind
<1>2. ASSUME UNCHANGED <<s_pIdleTasks, s_uiIdleTask, running>> PROVE IndexInRange'
  BY <1>1, <1>2 DEF Behind, IndexInRange
<1>3. CASE Collect BY <1>2, <1>3 DEF Collect, list
<1>4. CASE \E on \in BOOLEAN : SetIdleRepeat(on) BY <1>2, <1>4 DEF SetIdleRepeat, list
<1>5. CASE UNCHANGED idleVars BY <1>2, <1>5 DEF idleVars, list
<1>6. CASE BeginTask BY <1>1, <1>6 DEF BeginTask, list, Behind, IndexInRange
<1>7. CASE EndTask BY <1>1, <1>7 DEF EndTask, Behind, IndexInRange
\* A round does not begin while a task runs: the index is not at the end.
<1>8. CASE Again /\ s_uiIdleTask = Len(s_pIdleTasks)
  <2>1. running = NoTask BY <1>1, <1>8 DEF Behind
  <2> QED BY <1>1, <1>8, <2>1 DEF Again, Behind, IndexInRange
<1>9. ASSUME NEW task \in Tasks, Add(task) PROVE IndexInRange'
  <2>1. Len(s_pIdleTasks') = n + 1 BY <1>1, <1>9, AppendProperties DEF Add
  <2> QED BY <1>1, <1>9, <2>1 DEF Add, Behind, IndexInRange
<1>10. ASSUME NEW k \in DOMAIN s_pIdleTasks, Del(k) PROVE IndexInRange'
  <2>1. k \in 1 .. n BY <1>1, LenProperties
  <2>2. Len(s_pIdleTasks') = n - 1 BY <1>1, <1>10, <2>1, WithoutProperties DEF Del
  <2>3. Behind < n /\ Behind' = Behind BY <1>1, <1>10 DEF Del, Behind
  <2> QED BY <1>1, <2>2, <2>3 DEF IndexInRange
<1> QED
  BY <1>3, <1>4, <1>5, <1>6, <1>7, <1>8, <1>9, <1>10
     DEF IdleNext, IdleState, Repeat, IdleReset

\* Only deletions take the index out of the list, and only at the end of a round
\* (idle.c:263-280): no other step of the idle state, and none of the calls of a
\* task, keeps the tests for the end from coming true.
THEOREM OnlyEndDeletions == IdleSpec => [][EndDeletions]_idleVars
<1>1. TasksInv /\ [IdleNext]_idleVars => [EndDeletions]_idleVars
  BY StepIndex DEF EndDeletions
<1> QED BY <1>1, TasksInductive, PTL DEF IdleSpec
=============================================================================
