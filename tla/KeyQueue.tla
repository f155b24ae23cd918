------------------------------ MODULE KeyQueue ------------------------------
(***************************************************************************)
(* What the keyboard buffer promises to a program, one step for each call  *)
(* or key that arrives: keys are read in the order they went in, stuffed   *)
(* text first.  A key that arrives is lost when the queue is full, or when *)
(* the mouse moves again; one that waits leaves by being read, when a read *)
(* leaves mouse moves out, when another is inserted before a full queue,   *)
(* or with the whole queue.                                                *)
(***************************************************************************)
EXTENDS Naturals, Sequences

CONSTANTS Keys, Move, NoKey, Capacities

VARIABLES
    keys,      \* the keys that wait
    text,      \* what KEYBOARD has stuffed and is not read yet
    newest,    \* the key that came last
    capacity,  \* how many keys fit
    event      \* the call that is made: what it brings, what it gives back

vars == <<keys, text, newest, capacity, event>>

Init == /\ keys = <<>> /\ text = <<>> /\ newest = NoKey
        /\ capacity \in Capacities

\* Every call flips the turn, so that one that changes nothing is a step, too.
Did(call) == event'.turn = ~event.turn /\ event'.call = call

Full == Len(keys) >= capacity
MovesAgain(k) == k = Move /\ newest = Move /\ keys # <<>>

\* The queue once a key has arrived.
With(k) == IF k = NoKey \/ Full \/ MovesAgain(k) THEN keys ELSE Append(keys, k)
Newest(k) == IF k = NoKey THEN newest ELSE k

Passes(k, mask) == mask = "all" \/ k # Move

\* What a read makes of the queue q behind the text: the key that is next, which
\* it takes or leaves.  A mouse move that it is not to see goes.
Reads(q, take) ==
    \/ /\ text # <<>> /\ event'.got = Head(text)
       /\ text' = (IF take THEN Tail(text) ELSE text) /\ keys' = q
    \/ /\ text = <<>> /\ q # <<>> /\ Passes(Head(q), event'.mask)
       /\ event'.got = Head(q)
       /\ keys' = (IF take THEN Tail(q) ELSE q) /\ text' = text
    \/ /\ text = <<>> /\ q # <<>> /\ ~Passes(Head(q), event'.mask)
       /\ event'.got = NoKey
       /\ keys' = Tail(q) /\ text' = text
    \/ /\ text = <<>> /\ q = <<>> /\ event'.got = NoKey
       /\ keys' = q /\ text' = text

Put == /\ Did("put")
       /\ keys' = With(event'.key) /\ newest' = Newest(event'.key)
       /\ UNCHANGED <<text, capacity>>

\* A turn of INKEY(): a key may arrive, and the next one is read.
Inkey == /\ Did("inkey")
         /\ newest' = Newest(event'.key)
         /\ Reads(With(event'.key), TRUE)
         /\ UNCHANGED capacity

Peek == Did("peek") /\ Reads(keys, FALSE) /\ UNCHANGED <<newest, capacity>>

\* The key goes to the front; the last one makes room for it.
Insert == /\ Did("insert")
          /\ keys' = <<event'.key>> \o (IF Full THEN SubSeq(keys, 1, capacity - 1) ELSE keys)
          /\ UNCHANGED <<text, newest, capacity>>

Stuff == /\ Did("stuff") /\ text' = text \o event'.text
         /\ UNCHANGED <<keys, newest, capacity>>

\* Everything is forgotten; new text may take its place.
Reset == /\ Did("reset") /\ keys' = <<>> /\ text' = event'.text
         /\ capacity' \in Capacities
         /\ UNCHANGED newest

Next == Put \/ Inkey \/ Peek \/ Insert \/ Stuff \/ Reset

Spec == Init /\ [][Next]_vars
=============================================================================
