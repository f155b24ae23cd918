----------------------------- MODULE ByteLocks -----------------------------
(***************************************************************************)
(* What the table of the locks of a file promises to the threads of one    *)
(* process: it is the set of the bytes they have locked.  The range that   *)
(* is asked for is locked when none of its bytes is, and unlocked when all *)
(* of them are; any other request is refused and changes nothing.          *)
(***************************************************************************)
EXTENDS Integers

CONSTANTS
    Ranges,     \* the sets of bytes that may be asked for
    MayBreak    \* an unlock may ruin the table

VARIABLES
    locked,     \* the bytes locked
    asked,      \* the request that is not answered yet
    fResult,    \* what the last call returned
    intact      \* the table has not been ruined

byteVars == <<locked, asked, fResult, intact>>

NoRequest == [op |-> "none", range |-> {}]

Init == locked = {} /\ asked = NoRequest /\ fResult = FALSE /\ intact = TRUE

\* Nothing is promised any more to who asks a table that is ruined.
Ask(op, range) == /\ intact /\ asked = NoRequest
                  /\ asked' = [op |-> op, range |-> range]
                  /\ UNCHANGED <<locked, fResult, intact>>

Lock == /\ asked.op = "lock"
        /\ fResult' = (asked.range \cap locked = {})
        /\ locked' = IF fResult' THEN locked \cup asked.range ELSE locked
        /\ asked' = NoRequest
        /\ UNCHANGED intact

Unlock == /\ asked.op = "unlock"
          /\ fResult' = (asked.range \subseteq locked)
          /\ locked' = IF fResult' THEN locked \ asked.range ELSE locked
          /\ asked' = NoRequest
          /\ UNCHANGED intact

\* An unlock from the middle of what is locked says that it has unlocked the
\* range, and has not.
Break == /\ MayBreak /\ asked.op = "unlock" /\ asked.range \subseteq locked
         /\ \E b \in asked.range : b - 1 \in locked \ asked.range
         /\ \E b \in asked.range : b + 1 \in locked \ asked.range
         /\ fResult' = TRUE /\ intact' = FALSE
         /\ asked' = NoRequest
         /\ UNCHANGED locked

Next == \/ \E op \in {"lock", "unlock"}, range \in Ranges : Ask(op, range)
        \/ Lock \/ Unlock \/ Break

Spec == Init /\ [][Next]_byteVars
=============================================================================
