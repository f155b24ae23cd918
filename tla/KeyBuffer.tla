----------------------------- MODULE KeyBuffer ------------------------------
(***************************************************************************)
(* The keyboard buffer of a terminal driver (PHB_GT of hbgtcore.c): a ring *)
(* of keys, the text that KEYBOARD stuffs in front of it, and INKEY(),     *)
(* which waits for a key while idle tasks run that use the buffer, too.    *)
(***************************************************************************)
EXTENDS Integers, Sequences

CONSTANTS
    Plain,        \* keys of the keyboard
    K_MOUSEMOVE,
    K_ALT_C,      \* the key that cancels the program (SET CANCEL is ON)
    NoKey,        \* zero
    Default,      \* HB_DEFAULT_INKEY_BUFSIZE
    TypeAheads,   \* the values that SET TYPEAHEAD is given
    MaxText       \* bound: the longest text

Keys == Plain \cup {K_MOUSEMOVE, K_ALT_C}

ASSUME KeysAssumption == /\ NoKey \notin Keys /\ K_MOUSEMOVE # K_ALT_C
                         /\ K_MOUSEMOVE \notin Plain /\ K_ALT_C \notin Plain
ASSUME SizesAssumption == Default \in Nat /\ Default >= 2 /\ TypeAheads \subseteq Nat
ASSUME TextAssumption == MaxText \in Nat

VARIABLES
    pGT,                 \* the buffer; StrBuffer is <<>> where the code has NULL
    typeAhead,           \* _SET_TYPEAHEAD
    request,             \* hb_vmRequestQuery: the program is to stop
    inkey,               \* what INKEY() waits for
    event                \* history: the last call, as the program and the terminal see it

vars == <<pGT, typeAhead, request, inkey, event>>

Empty(size) == [i \in 0 .. size - 1 |-> NoKey]

Masks == {"all", "keyboard"}
Inkeys == [mask : Masks, forever : BOOLEAN]
NotInkey == [mask |-> "none", forever |-> FALSE]

\* A call that brings no key or text and gives none back.
Event(call, turn) == [call |-> call, turn |-> turn, mask |-> "all", key |-> NoKey,
                      text |-> <<>>, got |-> NoKey]
Now(call) == Event(call, ~event.turn)

Init == /\ pGT = [inkeyBuffer |-> Empty(Default), inkeyBufferSize |-> Default,
                  inkeyHead |-> 0, inkeyTail |-> 0, iLastPut |-> NoKey, inkeyLast |-> NoKey,
                  StrBuffer |-> <<>>, StrBufferPos |-> 0]
        /\ typeAhead \in TypeAheads /\ request = FALSE
        /\ inkey = NotInkey /\ event = Event("reset", FALSE)

-----------------------------------------------------------------------------
(* What the functions do to the buffer g.                                  *)

Up(g, i) == IF i + 1 >= g.inkeyBufferSize THEN 0 ELSE i + 1
Down(g, i) == IF i - 1 < 0 THEN g.inkeyBufferSize - 1 ELSE i - 1

Waiting(g) == g.StrBuffer # <<>> \/ g.inkeyHead # g.inkeyTail

\* Mutant: the text is freed one key too late.
InkeyPopLate(g) ==
    IF g.StrBuffer # <<>>
    THEN [g EXCEPT !.StrBufferPos = @ + 1,
                   !.StrBuffer = IF g.StrBufferPos + 1 > Len(@) THEN <<>> ELSE @]
    ELSE IF g.inkeyHead # g.inkeyTail THEN [g EXCEPT !.inkeyTail = Up(g, @)]
    ELSE g

\* hb_gt_def_InkeyPop.
InkeyPop(g) ==
    IF g.StrBuffer # <<>>
    THEN [g EXCEPT !.StrBufferPos = @ + 1,
                   !.StrBuffer = IF g.StrBufferPos + 1 >= Len(@) THEN <<>> ELSE @]
    ELSE IF g.inkeyHead # g.inkeyTail THEN [g EXCEPT !.inkeyTail = Up(g, @)]
    ELSE g

\* hb_gt_def_InkeyPut: on a full ring the key goes to the spare place.
Repeated(g, k) == k = K_MOUSEMOVE /\ g.iLastPut = k /\ g.inkeyHead # g.inkeyTail

\* Mutant: the head runs into the tail.
InkeyPutOver(g, k) ==
    IF Repeated(g, k) THEN g
    ELSE [g EXCEPT !.inkeyBuffer[g.inkeyHead] = k, !.iLastPut = k, !.inkeyHead = Up(g, @)]

InkeyPut(g, k) ==
    IF Repeated(g, k) THEN g
    ELSE [g EXCEPT !.inkeyBuffer[g.inkeyHead] = k, !.iLastPut = k,
                   !.inkeyHead = IF Up(g, @) # g.inkeyTail THEN Up(g, @) ELSE @]

\* hb_gt_def_InkeyIns.
InkeyIns(g, k) ==
    LET tail == Down(g, g.inkeyTail)
    IN [g EXCEPT !.inkeyTail = tail, !.inkeyBuffer[tail] = k,
                 !.inkeyHead = IF @ = tail THEN Down(g, @) ELSE @]

\* hb_gt_def_InkeyFilter.
InkeyFilter(k, mask) == IF mask = "all" \/ k # K_MOUSEMOVE THEN k ELSE NoKey

\* hb_gt_def_InkeyNextCheck: the key that comes next, NoKey when the mask leaves
\* it out.
NextKey(g, mask) ==
    IF g.StrBuffer # <<>> THEN g.StrBuffer[g.StrBufferPos + 1]
    ELSE IF g.inkeyHead # g.inkeyTail THEN InkeyFilter(g.inkeyBuffer[g.inkeyTail], mask)
    ELSE NoKey

Checked(g, mask) == IF Waiting(g) /\ NextKey(g, mask) = NoKey THEN InkeyPop(g) ELSE g

\* hb_gt_def_InkeyPollDo with what the terminal has to read.
Cancels(k) == k = K_ALT_C

Typed(k) == IF Cancels(k) THEN NoKey ELSE k

InkeyPollDo(g, k) == IF Typed(k) = NoKey THEN g ELSE InkeyPut(g, k)

\* hb_gt_def_InkeySetText, hb_gt_def_SetStrBuffer.
InkeySetText(g, t) ==
    IF t = <<>> THEN g
    ELSE [g EXCEPT !.StrBuffer = @ \o t,
                   !.StrBufferPos = IF g.StrBuffer = <<>> THEN 0 ELSE @]

\* hb_gt_def_InkeyReset: a new buffer is of the size that is asked for, but
\* never smaller than the default.
InkeyReset(g, wanted) ==
    LET size == IF wanted > Default THEN wanted ELSE Default
        cleared == [g EXCEPT !.StrBuffer = <<>>, !.inkeyHead = 0, !.inkeyTail = 0]
    IN IF wanted = g.inkeyBufferSize THEN cleared
       ELSE [cleared EXCEPT !.inkeyBufferSize = size, !.inkeyBuffer = Empty(size)]

-----------------------------------------------------------------------------
(* The calls of the program and of its idle tasks.                         *)

PutKey(k) == /\ pGT' = InkeyPut(pGT, k)
             /\ event' = [Now("put") EXCEPT !.key = k]
             /\ UNCHANGED <<typeAhead, request, inkey>>

InsertKey(k) == /\ pGT' = InkeyIns(pGT, k)
                /\ event' = [Now("insert") EXCEPT !.key = k]
                /\ UNCHANGED <<typeAhead, request, inkey>>

\* hb_gt_def_InkeyPoll.
Poll(k) == /\ typeAhead # 0
           /\ pGT' = InkeyPollDo(pGT, k)
           /\ request' = (request \/ Cancels(k))
           /\ event' = [Now("put") EXCEPT !.key = Typed(k)]
           /\ UNCHANGED <<typeAhead, inkey>>

\* hb_gt_def_InkeyNext behind its poll.
PeekKey(mask) == /\ pGT' = Checked(pGT, mask)
                 /\ event' = [Now("peek") EXCEPT !.mask = mask, !.got = NextKey(pGT, mask)]
                 /\ UNCHANGED <<typeAhead, request, inkey>>

SetLast(k) == /\ pGT' = [pGT EXCEPT !.inkeyLast = k]
              /\ UNCHANGED <<typeAhead, request, inkey, event>>

\* __KEYBOARD().
Keyboard(t, keep) ==
    /\ LET g == IF keep THEN pGT ELSE InkeyReset(pGT, typeAhead)
       IN /\ Len(g.StrBuffer) + Len(t) <= MaxText
          /\ pGT' = InkeySetText(g, t)
    /\ event' = [Now(IF keep THEN "stuff" ELSE "reset") EXCEPT !.text = t]
    /\ UNCHANGED <<typeAhead, request, inkey>>

SetTypeAhead(n) == /\ typeAhead' = n
                   /\ pGT' = InkeyReset(pGT, n)
                   /\ event' = Now("reset")
                   /\ UNCHANGED <<request, inkey>>

-----------------------------------------------------------------------------
(* hb_gt_def_InkeyGet.                                                     *)

BeginInkey(call) == /\ inkey = NotInkey
                    /\ inkey' = call
                    /\ UNCHANGED <<pGT, typeAhead, request, event>>

\* A turn of its loop: it polls and looks at the next key.  A key that the mask
\* leaves out is dropped, and what LASTKEY() returns with it; when there is
\* none, the call ends or idle tasks run until the next turn.
Turn(k) ==
    /\ inkey # NotInkey
    /\ request' = (request \/ Cancels(k))
    /\ LET g == InkeyPollDo(pGT, k)
           next == NextKey(g, inkey.mask)
           seen == IF Waiting(g) THEN [g EXCEPT !.inkeyLast = next] ELSE g
       IN /\ event' = [Now("inkey") EXCEPT !.key = Typed(k), !.mask = inkey.mask, !.got = next]
          /\ \/ /\ next # NoKey
                /\ pGT' = InkeyPop(seen)
                /\ inkey' = NotInkey
             \/ /\ next = NoKey
                /\ pGT' = Checked(seen, inkey.mask)
                /\ \/ request' /\ inkey' = NotInkey
                   \/ ~request' /\ inkey' = inkey
                   \/ ~request' /\ ~inkey.forever /\ inkey' = NotInkey
    /\ UNCHANGED typeAhead

-----------------------------------------------------------------------------
Texts == {<<>>} \cup {<<k>> : k \in Plain} \cup {<<k, l>> : k, l \in Plain}

\* Once the program is to stop it makes no more calls.
Call == /\ ~request
        /\ \/ \E k \in Keys : PutKey(k) \/ InsertKey(k)
           \/ \E k \in Plain : SetLast(k)
           \/ \E k \in Keys \cup {NoKey} : Poll(k)
           \/ \E mask \in Masks : PeekKey(mask)
           \/ \E t \in Texts, keep \in BOOLEAN : Keyboard(t, keep)
           \/ \E n \in TypeAheads : SetTypeAhead(n)
           \/ \E call \in Inkeys : BeginInkey(call)

Next == Call \/ \E k \in Keys \cup {NoKey} : Turn(k)

Spec == Init /\ [][Next]_vars

-----------------------------------------------------------------------------
\* A buffer of some size.
Buffers(size) == [inkeyBuffer : [0 .. size - 1 -> Keys \cup {NoKey}], inkeyBufferSize : {size},
                  inkeyHead : 0 .. size - 1, inkeyTail : 0 .. size - 1,
                  iLastPut : Keys \cup {NoKey}, inkeyLast : Keys \cup {NoKey},
                  StrBuffer : Seq(Keys), StrBufferPos : Nat]
Sizes == {size \in {Default} \cup TypeAheads : size >= Default}

\* The ring's ends are places of the buffer that is allocated now (hbgtcore.c:2489).
TypeOK == /\ \E size \in Sizes : pGT \in Buffers(size)
          /\ typeAhead \in TypeAheads /\ request \in BOOLEAN
          /\ inkey \in Inkeys \cup {NotInkey}

\* The text that is left is read from inside the buffer that holds it
\* (hbgtcore.c:2274).
TextLeft == pGT.StrBuffer # <<>> => pGT.StrBufferPos < Len(pGT.StrBuffer)

\* What the ring holds, from its tail to its head.
Held(g) == IF g.inkeyHead >= g.inkeyTail THEN g.inkeyHead - g.inkeyTail
           ELSE g.inkeyBufferSize - g.inkeyTail + g.inkeyHead
At(g, i) == IF i < g.inkeyBufferSize THEN i ELSE i - g.inkeyBufferSize
RingKeys(g) == [i \in 1 .. Held(g) |-> g.inkeyBuffer[At(g, g.inkeyTail + i - 1)]]
TextKeys(g) == IF g.StrBuffer = <<>> THEN <<>>
               ELSE SubSeq(g.StrBuffer, g.StrBufferPos + 1, Len(g.StrBuffer))

\* Keys come out in the order they went in, and none is lost, doubled or left
\* unread but where the queue of KeyQueue says so, whatever INKEY(), its idle tasks
\* and SET TYPEAHEAD do in between (hbgtcore.c:2200-2294).
Queue == INSTANCE KeyQueue WITH
    Move <- K_MOUSEMOVE,
    Capacities <- {size - 1 : size \in Sizes},
    keys <- RingKeys(pGT), text <- TextKeys(pGT), newest <- pGT.iLastPut,
    capacity <- pGT.inkeyBufferSize - 1
QueueSpec == Queue!Spec

\* What the comment at hbgtcore.c:2237-2240 says: "When the buffer is full new
\* event overwrite the last one in the buffer".  TLC refutes it: hb_gt_def_InkeyPut
\* writes to the place behind the last one, and the new key is the one that is lost.
FullOverwrites ==
    [][\A k \in Keys : PutKey(k) /\ Held(pGT) = pGT.inkeyBufferSize - 1
                          => RingKeys(pGT')[Held(pGT')] = k]_vars

\* What the comment at hbgtcore.c:2228-2232 says: "Clipper does not store in buffer
\* repeated mouse movement", so that a move is left out where the buffer ends with
\* one.  TLC refutes it: the last key that was put need not be in the buffer (2233).
RepeatsLeftOut ==
    [][\A k \in Keys : PutKey(k) /\ Repeated(pGT, k) => RingKeys(pGT)[Held(pGT)] = k]_vars
=============================================================================
