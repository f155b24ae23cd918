----------------------------- MODULE LockTable -----------------------------
(***************************************************************************)
(* The table of the locks of one open file (HB_FILE of filebuf.c): an      *)
(* array of ranges, sorted, ranges that touch joined, searched by halves,  *)
(* grown and shrunk by HB_FLOCK_RESIZE entries.  POSIX knows the locks of  *)
(* a process only, so this table is what keeps its threads apart.          *)
(*                                                                         *)
(* A call runs under S_FILEMTX; the steps of the search are actions of     *)
(* their own, for what the search knows is what its result rests on.       *)
(* pLocks[i] of the code is pLocks[i + 1] here.                            *)
(***************************************************************************)
EXTENDS Integers, Sequences

CONSTANTS
    FileSize,         \* the bytes are 0 .. FileSize - 1
    HB_FLOCK_RESIZE,  \* 16 in the code
    ReallocMoves      \* hb_xrealloc may return another address

ASSUME SizeAssumption == FileSize \in Nat /\ HB_FLOCK_RESIZE \in Nat \ {0}
ASSUME MovesAssumption == ReallocMoves \in BOOLEAN

VARIABLES
    pLocks,    \* HB_FILE.pLocks, the uiLocks entries in use
    uiSize,    \* HB_FILE.uiSize, the entries allocated
    call,      \* the call under way: "none", "lock" or "unlock"
    ulStart,   \* its arguments
    ulLen,
    uiFirst,   \* the search: the entries before uiFirst are behind,
    uiLast,    \* ... those from uiLast on are not
    fResult,   \* what the last call returned
    intact     \* no entry has been cut in memory given back

table == <<pLocks, uiSize>>
args == <<ulStart, ulLen>>
vars == <<pLocks, uiSize, call, ulStart, ulLen, uiFirst, uiLast, fResult, intact>>

Entry == [start : Nat, len : Nat]
Requests == {r \in (0 .. FileSize) \X (1 .. FileSize) : r[1] + r[2] <= FileSize}

Interval(start, len) == [start |-> start, len |-> len]
End(lock) == lock.start + lock.len
ulEnd == ulStart + ulLen

Init == /\ pLocks = <<>> /\ uiSize = 0
        /\ call = "none" /\ ulStart = 0 /\ ulLen = 0
        /\ uiFirst = 0 /\ uiLast = 0
        /\ fResult = FALSE /\ intact = TRUE

-----------------------------------------------------------------------------
(* hb_fileFindOffset: the first entry that ends behind ulStart.            *)

\* What a program does that has written into memory given back is not
\* followed any further.
Call(name) == /\ call = "none" /\ intact
              /\ call' = name
              /\ \E r \in Requests : ulStart' = r[1] /\ ulLen' = r[2]
              /\ uiFirst' = 0 /\ uiLast' = Len(pLocks)
              /\ UNCHANGED <<table, fResult, intact>>

uiMiddle == (uiFirst + uiLast) \div 2

FindStep == /\ call # "none" /\ uiFirst < uiLast
            /\ IF End(pLocks[uiMiddle + 1]) <= ulStart
               THEN uiFirst' = uiMiddle + 1 /\ UNCHANGED uiLast
               ELSE uiLast' = uiMiddle /\ UNCHANGED uiFirst
            /\ UNCHANGED <<table, call, args, fResult, intact>>

-----------------------------------------------------------------------------
(* The array.                                                              *)

uiPos == uiMiddle
uiLocks == Len(pLocks)

Inserted(s, pos, lock) ==
    [i \in 1 .. Len(s) + 1 |-> IF i <= pos THEN s[i]
                               ELSE IF i = pos + 1 THEN lock ELSE s[i - 1]]

Deleted(s, pos) ==
    [i \in 1 .. Len(s) - 1 |-> IF i <= pos THEN s[i] ELSE s[i + 1]]

\* hb_fileInsertLock and hb_fileDeleteLock: what becomes of the allocation.
Full == uiLocks = uiSize

\* Mutant: room for one entry less.
GrowLate == uiSize' = IF uiLocks > uiSize THEN uiSize + HB_FLOCK_RESIZE ELSE uiSize

Grow == uiSize' = IF Full THEN uiSize + HB_FLOCK_RESIZE ELSE uiSize

Shrink == uiSize' = IF uiSize - (uiLocks - 1) >= 2 * HB_FLOCK_RESIZE
                    THEN uiSize - HB_FLOCK_RESIZE ELSE uiSize

-----------------------------------------------------------------------------
(* hb_fileSetLock, from the end of its search on.                          *)

Here == pLocks[uiPos + 1]
Before == pLocks[uiPos]

\* Mutant: a range that ends where the next entry starts is refused.
ConflictTouching == uiPos < uiLocks /\ ulEnd >= Here.start

Conflict == uiPos < uiLocks /\ ulEnd > Here.start
RJoin == uiPos < uiLocks /\ ulEnd = Here.start
LJoin == uiPos > 0 /\ End(Before) = ulStart

\* The entries on both sides and what is locked between them.
Both == Interval(Before.start, Before.len + ulLen + Here.len)

\* Mutant: the entry on the right stays when both are joined.
JoinBothKeeps == /\ LJoin /\ RJoin
                 /\ pLocks' = [pLocks EXCEPT ![uiPos] = Both]
                 /\ UNCHANGED uiSize

JoinBoth == /\ LJoin /\ RJoin
            /\ pLocks' = Deleted([pLocks EXCEPT ![uiPos] = Both], uiPos)
            /\ Shrink

JoinLeft == /\ LJoin /\ ~RJoin
            /\ pLocks' = [pLocks EXCEPT ![uiPos] = Interval(Before.start, Before.len + ulLen)]
            /\ UNCHANGED uiSize

JoinRight == /\ ~LJoin /\ RJoin
             /\ pLocks' = [pLocks EXCEPT ![uiPos + 1] =
                               Interval(Here.start - ulLen, Here.len + ulLen)]
             /\ UNCHANGED uiSize

JoinNone == /\ ~LJoin /\ ~RJoin
            /\ pLocks' = Inserted(pLocks, uiPos, Interval(ulStart, ulLen))
            /\ Grow

Found(name) == /\ call = name /\ uiFirst >= uiLast
               /\ call' = "none"
               /\ UNCHANGED <<args, uiFirst, uiLast>>

SetLock == /\ Found("lock")
           /\ fResult' = ~Conflict
           /\ IF Conflict THEN UNCHANGED table
              ELSE JoinBoth \/ JoinLeft \/ JoinRight \/ JoinNone
           /\ UNCHANGED intact

-----------------------------------------------------------------------------
(* hb_fileUnlock, from the end of its search on.                           *)

Inside == uiPos < uiLocks /\ ulStart >= Here.start /\ ulEnd <= End(Here)

CutAll == /\ ulStart = Here.start /\ ulLen = Here.len
          /\ pLocks' = Deleted(pLocks, uiPos)
          /\ Shrink

CutLeft == /\ ulStart = Here.start /\ ulLen # Here.len
           /\ pLocks' = [pLocks EXCEPT ![uiPos + 1] =
                             Interval(Here.start + ulLen, Here.len - ulLen)]
           /\ UNCHANGED uiSize

CutRight == /\ ulStart # Here.start /\ ulEnd = End(Here)
            /\ pLocks' = [pLocks EXCEPT ![uiPos + 1] = Interval(Here.start, Here.len - ulLen)]
            /\ UNCHANGED uiSize

\* The entry is cut by a write through pLock after hb_fileInsertLock, that
\* leaves it dangling when it has moved the array: the entry stays as it was.
Split == /\ ulStart # Here.start /\ ulEnd # End(Here)
         /\ \E moved \in BOOLEAN :
               /\ moved => ReallocMoves /\ Full
               /\ intact' = ~moved
               /\ LET rest == Interval(ulEnd, End(Here) - ulEnd)
                      cut  == [pLocks EXCEPT ![uiPos + 1] =
                                   Interval(Here.start, ulStart - Here.start)]
                  IN pLocks' = Inserted(IF moved THEN pLocks ELSE cut, uiPos + 1, rest)
         /\ Grow

Unlock == /\ Found("unlock")
          /\ fResult' = Inside
          /\ \/ Inside /\ (CutAll \/ CutLeft \/ CutRight) /\ UNCHANGED intact
             \/ Inside /\ Split
             \/ ~Inside /\ UNCHANGED <<table, intact>>

-----------------------------------------------------------------------------
Next == Call("lock") \/ Call("unlock") \/ FindStep \/ SetLock \/ Unlock

Spec == Init /\ [][Next]_vars

-----------------------------------------------------------------------------
TypeOK == /\ pLocks \in Seq(Entry) /\ uiSize \in Nat
          /\ call \in {"none", "lock", "unlock"}
          /\ ulStart \in Nat /\ ulLen \in Nat
          /\ uiLast \in 0 .. uiLocks /\ uiFirst \in 0 .. uiLast
          /\ fResult \in BOOLEAN /\ intact \in BOOLEAN

\* No entry is empty, the entries are sorted, and ranges that touch have been
\* joined: hb_fileUnlock, that looks at one entry only, rests on it.
Sorted ==
    intact => /\ \A i \in DOMAIN pLocks : pLocks[i].len > 0
              /\ \A i, j \in DOMAIN pLocks : i < j => End(pLocks[i]) < pLocks[j].start

\* The entries fit into the allocation at every step, and less than two
\* times HB_FLOCK_RESIZE of them are free.
Capacity == uiLocks <= uiSize /\ uiSize - uiLocks < 2 * HB_FLOCK_RESIZE

\* The search by halves ends at the only right place: what is before it ends
\* at ulStart or earlier, what is behind it ends later.
SearchOK ==
    call # "none" => /\ \A i \in 1 .. uiFirst : End(pLocks[i]) <= ulStart
                     /\ \A i \in uiLast + 1 .. uiLocks : End(pLocks[i]) > ulStart

\* The table is the set of the bytes locked: the range of the call is refused
\* exactly when a byte of it is locked, and released exactly when all of them
\* are, for as long as no entry has been cut in memory given back; only an
\* unlock from the middle of an entry can do that.
Span(start, len) == start .. (start + len - 1)
Covered == UNION {Span(pLocks[i].start, pLocks[i].len) : i \in DOMAIN pLocks}

Asked == [op    |-> call,
          range |-> IF call = "none" THEN {} ELSE Span(ulStart, ulLen)]

Bytes == INSTANCE ByteLocks WITH locked <- Covered, asked <- Asked,
                                 Ranges <- {Span(r[1], r[2]) : r \in Requests},
                                 MayBreak <- ReallocMoves
IsByteLocks == Bytes!Spec

-----------------------------------------------------------------------------
(* What does not hold: no run checks it.                                   *)

\* No entry is cut in memory given back.  It fails where the array has to
\* grow, and moves, between hb_fileUnlock taking pLock and writing through it.
Intact == intact
=============================================================================
