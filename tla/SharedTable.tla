---------------------------- MODULE SharedTable ----------------------------
(***************************************************************************)
(* What the locks of a table promise to the stations that share it: a      *)
(* record is locked by one station, only that station writes it, and what  *)
(* it writes keeps what others have written before.  A record's value is   *)
(* the set of the updates made to it.                                      *)
(***************************************************************************)
EXTENDS Naturals, Sequences

CONSTANTS Stations, RecNos

VARIABLES
    recs,    \* the records of the table
    held     \* for each station, the records it has locked

Init == recs = <<>> /\ held = [s \in Stations |-> {}]

Free(s, r) == \A t \in Stations \ {s} : r \notin held[t]

\* A lock is taken or given up, of one record or of all.
Acquire(s) == /\ \E more \in SUBSET RecNos : /\ \A r \in more : Free(s, r)
                                          /\ held' = [held EXCEPT ![s] = @ \cup more]
              /\ UNCHANGED recs

Release(s) == /\ \E less \in SUBSET held[s] : held' = [held EXCEPT ![s] = @ \ less]
              /\ UNCHANGED recs

Update(s, r) == /\ r \in DOMAIN recs /\ r \in held[s]
                /\ recs' = [recs EXCEPT ![r] = @ \cup {s}]
                /\ UNCHANGED held

Extend(s) == /\ Len(recs) + 1 \in held[s]
             /\ recs' = Append(recs, {})
             /\ UNCHANGED held

Next == \E s \in Stations : \/ Acquire(s) \/ Release(s) \/ Extend(s)
                            \/ \E r \in DOMAIN recs : Update(s, r)

Spec == Init /\ [][Next]_<<recs, held>>
=============================================================================
