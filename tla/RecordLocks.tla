---------------------------- MODULE RecordLocks ----------------------------
(***************************************************************************)
(* A table that several stations have open shared: the work area of each   *)
(* (DBFAREA of dbf1.c), its buffer for one record, its list of locks, and  *)
(* the file with its header behind the locks of the operating system.      *)
(*                                                                         *)
(* A call of the program is a list of steps, one for each thing it does to *)
(* the file or to its locks; in between other stations act.  The value of  *)
(* a record is the set of the stations that have updated it.               *)
(***************************************************************************)
EXTENDS Integers, Sequences, FiniteSets

CONSTANTS
    Stations,
    NoStation,
    Top,       \* bound: the highest record number
    Cases      \* what may happen: a record, the header or a read fails, a
               \* station crashes

RecNos == 1 .. Top

ASSUME StationsAssumption == IsFiniteSet(Stations) /\ NoStation \notin Stations
ASSUME TopAssumption == Top \in Nat \ {0}
ASSUME CasesAssumption == Cases \subseteq {"writeError", "headerError", "readError", "crash"}

VARIABLES
    recs,      \* the records in the file
    header,    \* the number of records that its header states
    osRecs,    \* the locks of the operating system: for each station the
    osFile,    \* ... records, who has the whole range of records,
    osHeader,  \* ... and who has the byte for append and header
    area       \* the work area of each station

vars == <<recs, header, osRecs, osFile, osHeader, area>>

StepNames == {"write", "headerLock", "count", "headerWrite", "headerUnlock",
              "unlockAll", "unlock", "lock", "fileLock", "fileUnlock",
              "newRecord", "blank", "goTo", "goBottom", "read", "put", "rollback", "close"}

Area == [ulRecNo : Nat, ulRecCount : Nat, fPositioned : BOOLEAN, fValidBuffer : BOOLEAN,
         fRecordChanged : BOOLEAN, fAppend : BOOLEAN, fUpdateHeader : BOOLEAN,
         fFLocked : BOOLEAN, fHeaderLocked : BOOLEAN,
         pLocksPos : SUBSET Nat, pRecord : SUBSET Stations,
         todo : Seq(StepNames \X Nat)]

\* hb_dbfOpen ends at the first record.
Opened(count) ==
    [ulRecNo |-> 1, ulRecCount |-> count, fPositioned |-> count > 0,
     fValidBuffer |-> count = 0, fRecordChanged |-> FALSE, fAppend |-> FALSE,
     fUpdateHeader |-> FALSE, fFLocked |-> FALSE, fHeaderLocked |-> FALSE,
     pLocksPos |-> {}, pRecord |-> {}, todo |-> <<>>]

\* The table was just created.
Init == /\ recs = <<>> /\ header = 0
        /\ osRecs = [s \in Stations |-> {}]
        /\ osFile = NoStation /\ osHeader = NoStation
        /\ area = [s \in Stations |-> Opened(0)]

-----------------------------------------------------------------------------
(* The locks of the operating system: external.                            *)

RecFree(s, r) == /\ osFile \in {s, NoStation}
                 /\ \A t \in Stations \ {s} : r \notin osRecs[t]
FileFree(s) == /\ osFile \in {s, NoStation}
               /\ \A t \in Stations \ {s} : osRecs[t] = {}

\* They go with the handle of the file.
LocksGone(s) == /\ osRecs' = [osRecs EXCEPT ![s] = {}]
                /\ osFile' = IF osFile = s THEN NoStation ELSE osFile
                /\ osHeader' = IF osHeader = s THEN NoStation ELSE osHeader

-----------------------------------------------------------------------------
(* The lists of steps.  must: the call ends when hb_dbfGoCold fails.       *)

must == 1
may == 0

\* hb_dbfGoCold, hb_dbfUnlockAllRecords, hb_dbfUnlockFile.
Cold(a, how) == IF a.fRecordChanged THEN <<<<"write", how>>>> ELSE <<>>

UnlockAllRecords(a) ==
    IF a.pLocksPos = {} THEN <<>> ELSE Cold(a, may) \o <<<<"unlockAll", 0>>>>

\* Mutant: the changed record is not written first.
UnlockFileHot(a) == IF a.fFLocked THEN <<<<"fileUnlock", 0>>>> ELSE <<>>

UnlockFile(a) == IF a.fFLocked THEN Cold(a, may) \o <<<<"fileUnlock", 0>>>> ELSE <<>>

WriteDBHeader(a, how) ==
    LET update == <<<<"count", 0>>, <<"headerWrite", how>>>>
    IN IF a.fHeaderLocked THEN update
       ELSE <<<<"headerLock", 0>>>> \o update \o <<<<"headerUnlock", 0>>>>

\* hb_dbfLockRecord when the lock is not there yet.
LockRecord(a, r, bExclusive) ==
    (IF bExclusive THEN UnlockAllRecords(a) ELSE <<>>) \o <<<<"lock", r>>>>

-----------------------------------------------------------------------------
(* The steps.  todo begins with the step that is taken; the area that the  *)
(* step leaves says what is still to do.                                   *)

Arg(todo) == Head(todo)[2]

Leaves(s, a) == area' = [area EXCEPT ![s] = a]

\* hb_dbfWriteRecord, hb_dbfPutRec: the file grows when it has to.
PutRec(a) == recs' = [i \in 1 .. (IF a.ulRecNo > Len(recs) THEN a.ulRecNo ELSE Len(recs)) |->
                         IF i = a.ulRecNo THEN a.pRecord
                         ELSE IF i <= Len(recs) THEN recs[i] ELSE {}]

\* hb_dbfGoCold of a record that may have been written by an earlier step.
Write(s, todo) ==
    LET a == area[s]
        update == a.fUpdateHeader \/ a.fAppend
        rest == (IF update THEN WriteDBHeader(a, Arg(todo)) ELSE <<>>) \o Tail(todo)
    IN /\ \/ /\ a.fRecordChanged
             /\ PutRec(a)
             /\ Leaves(s, [a EXCEPT !.fRecordChanged = FALSE, !.fAppend = FALSE,
                                    !.fUpdateHeader = update, !.todo = rest])
          \/ /\ a.fRecordChanged /\ "writeError" \in Cases
             /\ Leaves(s, [a EXCEPT !.todo = IF Arg(todo) = must THEN <<>> ELSE Tail(todo)])
             /\ UNCHANGED recs
          \/ /\ ~a.fRecordChanged
             /\ Leaves(s, [a EXCEPT !.todo = Tail(todo)])
             /\ UNCHANGED recs
       /\ UNCHANGED <<header, osRecs, osFile, osHeader>>

\* hb_dbfRawLock: APPEND_LOCK and HEADER_LOCK wait for the lock.
HeaderLock(s, todo) ==
    /\ osHeader = NoStation
    /\ osHeader' = s
    /\ Leaves(s, [area[s] EXCEPT !.fHeaderLocked = TRUE, !.todo = Tail(todo)])
    /\ UNCHANGED <<recs, header, osRecs, osFile>>

HeaderUnlock(s, todo) ==
    /\ osHeader' = IF area[s].fHeaderLocked THEN NoStation ELSE osHeader
    /\ Leaves(s, [area[s] EXCEPT !.fHeaderLocked = FALSE, !.todo = Tail(todo)])
    /\ UNCHANGED <<recs, header, osRecs, osFile>>

\* Mutant: the count of the work area is trusted.
CountKept(s, todo) ==
    /\ Leaves(s, [area[s] EXCEPT !.todo = Tail(todo)])
    /\ UNCHANGED <<recs, header, osRecs, osFile, osHeader>>

\* hb_dbfWriteDBHeader with the byte locked.
Count(s, todo) ==
    /\ Leaves(s, [area[s] EXCEPT !.ulRecCount = Len(recs), !.todo = Tail(todo)])
    /\ UNCHANGED <<recs, header, osRecs, osFile, osHeader>>

HeaderWrite(s, todo) ==
    LET done == [area[s] EXCEPT !.fUpdateHeader = FALSE, !.todo = Tail(todo)]
    IN /\ \/ header' = area[s].ulRecCount /\ Leaves(s, done)
          \/ /\ "headerError" \in Cases
             /\ Leaves(s, [done EXCEPT !.todo = IF Arg(todo) = must THEN SubSeq(@, 1, 1) ELSE @])
             /\ UNCHANGED header
       /\ UNCHANGED <<recs, osRecs, osFile, osHeader>>

\* hb_dbfUnlockAllRecords behind hb_dbfGoCold: one lock after the other.  The
\* list is freed behind the last one and not read before, so an entry goes with
\* its lock.
UnlockAllStep(s, todo) ==
    /\ \E r \in area[s].pLocksPos :
          /\ osRecs' = [osRecs EXCEPT ![s] = @ \ {r}]
          /\ Leaves(s, [area[s] EXCEPT !.pLocksPos = @ \ {r},
                                       !.todo = IF area[s].pLocksPos = {r} THEN Tail(todo)
                                                ELSE todo])
    /\ UNCHANGED <<recs, header, osFile, osHeader>>

UnlockStep(s, todo) ==
    /\ osRecs' = [osRecs EXCEPT ![s] = @ \ {Arg(todo)}]
    /\ Leaves(s, [area[s] EXCEPT !.pLocksPos = @ \ {Arg(todo)}, !.todo = Tail(todo)])
    /\ UNCHANGED <<recs, header, osFile, osHeader>>

\* Mutant: the buffer of the time before the lock is kept.
AfterLockKeeps(a, rest) ==
    IF ~a.fPositioned THEN [a EXCEPT !.todo = <<<<"goTo", a.ulRecNo>>>> \o rest]
    ELSE [a EXCEPT !.todo = rest]

\* What a lock on the current record does with its buffer.  What is in a
\* buffer that is not valid is not looked at again.
AfterLock(a, rest) ==
    IF ~a.fPositioned THEN [a EXCEPT !.todo = <<<<"goTo", a.ulRecNo>>>> \o rest]
    ELSE IF a.fRecordChanged THEN [a EXCEPT !.todo = rest]
    ELSE [a EXCEPT !.fValidBuffer = FALSE, !.pRecord = {}, !.todo = rest]

\* Mutant: a refused append keeps the byte of the header.
LockStepKeeps(s, todo) ==
    /\ LET r == Arg(todo)
           locked == [area[s] EXCEPT !.pLocksPos = @ \cup {r}]
       IN IF RecFree(s, r)
          THEN /\ osRecs' = [osRecs EXCEPT ![s] = @ \cup {r}]
               /\ Leaves(s, IF r = locked.ulRecNo THEN AfterLock(locked, Tail(todo))
                            ELSE [locked EXCEPT !.todo = Tail(todo)])
          ELSE /\ Leaves(s, [area[s] EXCEPT !.todo = <<>>])
               /\ UNCHANGED osRecs
    /\ UNCHANGED <<recs, header, osFile, osHeader>>

\* When the lock is refused in hb_dbfAppend, the byte of the header is given
\* back and the call ends.
LockStep(s, todo) ==
    /\ LET r == Arg(todo)
           locked == [area[s] EXCEPT !.pLocksPos = @ \cup {r}]
       IN \/ /\ RecFree(s, r)
             /\ osRecs' = [osRecs EXCEPT ![s] = @ \cup {r}]
             /\ Leaves(s, IF r = locked.ulRecNo THEN AfterLock(locked, Tail(todo))
                          ELSE [locked EXCEPT !.todo = Tail(todo)])
          \/ /\ ~RecFree(s, r)
             /\ Leaves(s, [area[s] EXCEPT !.todo = IF Tail(todo) = <<>> THEN <<>>
                                                   ELSE <<<<"headerUnlock", 0>>>>])
             /\ UNCHANGED osRecs
    /\ UNCHANGED <<recs, header, osFile, osHeader>>

\* Mutant: the flag is set whether or not the lock was given.
FileLockAlways(s, todo) ==
    /\ osFile' = IF FileFree(s) THEN s ELSE osFile
    /\ Leaves(s, AfterLock([area[s] EXCEPT !.fFLocked = TRUE], Tail(todo)))
    /\ UNCHANGED <<recs, header, osRecs, osHeader>>

\* hb_dbfLockFile: the buffer is given up even when the lock is refused.
FileLock(s, todo) ==
    /\ osFile' = IF FileFree(s) THEN s ELSE osFile
    /\ Leaves(s, AfterLock([area[s] EXCEPT !.fFLocked = FileFree(s)], Tail(todo)))
    /\ UNCHANGED <<recs, header, osRecs, osHeader>>

FileUnlock(s, todo) ==
    /\ osFile' = NoStation
    /\ Leaves(s, [area[s] EXCEPT !.fFLocked = FALSE, !.todo = Tail(todo)])
    /\ UNCHANGED <<recs, header, osRecs, osHeader>>

\* Mutant: the byte of the header is given back before the record is
\* written.
NewRecordEarly(s, todo) ==
    /\ LET n == Len(recs) + 1
           a == [area[s] EXCEPT !.ulRecCount = n - 1]
           blank == <<<<"headerUnlock", 0>>, <<"blank", 0>>>>
       IN Leaves(s, [a EXCEPT !.todo = (IF a.fFLocked \/ n \in a.pLocksPos THEN <<>>
                                        ELSE LockRecord(a, n, Arg(todo) = 1)) \o blank])
    /\ UNCHANGED <<recs, header, osRecs, osFile, osHeader>>

\* hb_dbfAppend with the byte of the header locked.
NewRecord(s, todo) ==
    /\ LET n == Len(recs) + 1
           a == [area[s] EXCEPT !.ulRecCount = n - 1]
           blank == <<<<"blank", 0>>, <<"headerUnlock", 0>>>>
       IN Leaves(s, [a EXCEPT !.todo = (IF a.fFLocked \/ n \in a.pLocksPos THEN <<>>
                                        ELSE LockRecord(a, n, Arg(todo) = 1)) \o blank])
    /\ UNCHANGED <<recs, header, osRecs, osFile, osHeader>>

\* ... and with the new record locked: it is written with hb_dbfGoCold.
Blank(s, todo) ==
    /\ LET n == area[s].ulRecCount + 1
       IN Leaves(s, [area[s] EXCEPT !.pRecord = {}, !.fValidBuffer = TRUE,
                        !.fUpdateHeader = TRUE, !.fRecordChanged = TRUE, !.fAppend = TRUE,
                        !.fPositioned = TRUE, !.ulRecCount = n, !.ulRecNo = n,
                        !.todo = <<<<"write", may>>>> \o Tail(todo)])
    /\ UNCHANGED <<recs, header, osRecs, osFile, osHeader>>

\* hb_dbfGoTo: the count is read again only for a record behind it.
GoToStep(s, todo) ==
    /\ LET a == area[s]
           r == Arg(todo)
           count == IF r > a.ulRecCount THEN Len(recs) ELSE a.ulRecCount
           there == r \in 1 .. count
       IN Leaves(s, [a EXCEPT !.ulRecCount = count, !.ulRecNo = IF there THEN r ELSE count + 1,
                              !.fPositioned = there, !.fValidBuffer = ~there,
                              !.pRecord = {}, !.todo = Tail(todo)])
    /\ UNCHANGED <<recs, header, osRecs, osFile, osHeader>>

GoBottomStep(s, todo) ==
    /\ Leaves(s, [area[s] EXCEPT !.ulRecCount = Len(recs), !.todo = <<<<"goTo", Len(recs)>>>>])
    /\ UNCHANGED <<recs, header, osRecs, osFile, osHeader>>

\* hb_dbfReadRecord: behind the end nothing is read; a record that cannot be
\* read is an error, and the call ends.
ReadRecord(s, todo) ==
    /\ LET a == area[s]
           behind == a.fPositioned /\ a.ulRecNo > a.ulRecCount
           count == IF behind THEN Len(recs) ELSE a.ulRecCount
           read == [a EXCEPT !.ulRecCount = count, !.fValidBuffer = TRUE, !.todo = Tail(todo)]
       IN \/ /\ ~a.fPositioned \/ a.ulRecNo > count
             /\ Leaves(s, read)
          \/ /\ a.fPositioned /\ a.ulRecNo <= count /\ a.ulRecNo \in DOMAIN recs
             /\ Leaves(s, [read EXCEPT !.pRecord = recs[a.ulRecNo]])
          \/ /\ a.fPositioned /\ a.ulRecNo <= count
             /\ a.ulRecNo \notin DOMAIN recs \/ "readError" \in Cases
             /\ Leaves(s, [a EXCEPT !.ulRecCount = count, !.todo = <<>>])
    /\ UNCHANGED <<recs, header, osRecs, osFile, osHeader>>

\* hb_dbfGoHot: without a lock an error.
MayGoHot(a) == a.fFLocked \/ a.ulRecNo \in a.pLocksPos

\* hb_dbfPutValue behind its read.
Put(s, todo) ==
    /\ LET a == area[s]
           hot == a.fPositioned /\ (a.fRecordChanged \/ MayGoHot(a))
       IN Leaves(s, [a EXCEPT !.fRecordChanged = @ \/ hot,
                              !.pRecord = IF hot THEN @ \cup {s} ELSE @,
                              !.todo = Tail(todo)])
    /\ UNCHANGED <<recs, header, osRecs, osFile, osHeader>>

\* DBI_ROLLBACK of hb_dbfInfo.
Rollback(s, todo) ==
    /\ LET a == area[s]
       IN Leaves(s, IF a.fAppend THEN [a EXCEPT !.pRecord = {}, !.todo = Tail(todo)]
                    ELSE [a EXCEPT !.fRecordChanged = FALSE, !.fValidBuffer = FALSE,
                                   !.pRecord = {}, !.todo = Tail(todo)])
    /\ UNCHANGED <<recs, header, osRecs, osFile, osHeader>>

\* hb_dbfClose behind its unlock: a header that is still to be written is
\* written first.  The station may open the table again.
CloseStep(s, todo) ==
    /\ \/ /\ area[s].fUpdateHeader
          /\ Leaves(s, [area[s] EXCEPT !.todo = WriteDBHeader(area[s], may) \o todo])
          /\ UNCHANGED <<osRecs, osFile, osHeader>>
       \/ /\ ~area[s].fUpdateHeader
          /\ Leaves(s, Opened(Len(recs)))
          /\ LocksGone(s)
    /\ UNCHANGED <<recs, header>>

Take(s, todo) ==
    /\ todo # <<>>
    /\ LET name == Head(todo)[1]
       IN \/ name = "write" /\ Write(s, todo)
          \/ name = "headerLock" /\ HeaderLock(s, todo)
          \/ name = "headerUnlock" /\ HeaderUnlock(s, todo)
          \/ name = "count" /\ Count(s, todo)
          \/ name = "headerWrite" /\ HeaderWrite(s, todo)
          \/ name = "unlockAll" /\ UnlockAllStep(s, todo)
          \/ name = "unlock" /\ UnlockStep(s, todo)
          \/ name = "lock" /\ LockStep(s, todo)
          \/ name = "fileLock" /\ FileLock(s, todo)
          \/ name = "fileUnlock" /\ FileUnlock(s, todo)
          \/ name = "newRecord" /\ NewRecord(s, todo)
          \/ name = "blank" /\ Blank(s, todo)
          \/ name = "goTo" /\ GoToStep(s, todo)
          \/ name = "goBottom" /\ GoBottomStep(s, todo)
          \/ name = "read" /\ ReadRecord(s, todo)
          \/ name = "put" /\ Put(s, todo)
          \/ name = "rollback" /\ Rollback(s, todo)
          \/ name = "close" /\ CloseStep(s, todo)

-----------------------------------------------------------------------------
(* The calls: each takes the first of its steps.                           *)

Idle(s) == area[s].todo = <<>>

Begin(s, steps) == Idle(s) /\ Take(s, steps)

GoTo(s, r) == Begin(s, Cold(area[s], must) \o <<<<"goTo", r>>>>)

GoBottom(s) == Begin(s, Cold(area[s], must) \o <<<<"goBottom", 0>>>>)

\* RLOCK() and DBRLOCK() without a record: the other locks are given up first.
LockExclusive(s) == /\ ~area[s].fFLocked
                    /\ Begin(s, LockRecord(area[s], area[s].ulRecNo, TRUE))

LockMultiple(s, r) == /\ ~area[s].fFLocked /\ r \notin area[s].pLocksPos
                      /\ Begin(s, LockRecord(area[s], r, FALSE))

LockFile(s) == /\ ~area[s].fFLocked
               /\ Begin(s, UnlockAllRecords(area[s]) \o <<<<"fileLock", 0>>>>)

UnLock(s) == Begin(s, UnlockAllRecords(area[s]) \o UnlockFile(area[s]))

UnLockOne(s, r) == /\ r \in area[s].pLocksPos
                   /\ Begin(s, Cold(area[s], may) \o <<<<"unlock", r>>>>)

\* Bound: the table has at most Top records.
Appending(s) == \/ area[s].fAppend
                \/ \E i \in DOMAIN area[s].todo : area[s].todo[i][1] \in {"newRecord", "blank"}

AppendRecord(s, bUnLockAll) ==
    /\ Len(recs) + Cardinality({t \in Stations : Appending(t)}) < Top
    /\ Begin(s, Cold(area[s], must) \o <<<<"headerLock", 0>>,
                                          <<"newRecord", IF bUnLockAll THEN 1 ELSE 0>>>>)

GetValue(s) == ~area[s].fValidBuffer /\ Begin(s, <<<<"read", 0>>>>)

PutValue(s) == Begin(s, IF area[s].fValidBuffer THEN <<<<"put", 0>>>>
                        ELSE <<<<"read", 0>>, <<"put", 0>>>>)

RollbackRecord(s) == area[s].fRecordChanged /\ Begin(s, <<<<"rollback", 0>>>>)

Flush(s) == Begin(s, IF area[s].fRecordChanged THEN Cold(area[s], must)
                     ELSE IF area[s].fUpdateHeader THEN WriteDBHeader(area[s], must) ELSE <<>>)

RecCount(s) == Begin(s, <<<<"count", 0>>>>)

Close(s) == Begin(s, Cold(area[s], may) \o UnlockAllRecords(area[s])
                     \o UnlockFile(area[s]) \o <<<<"close", 0>>>>)

\* A station stops; another one takes its place.
Crash(s) == /\ "crash" \in Cases
            /\ Leaves(s, Opened(Len(recs)))
            /\ LocksGone(s)
            /\ UNCHANGED <<recs, header>>

Call(s) ==
    \/ GoBottom(s) \/ LockExclusive(s) \/ LockFile(s) \/ UnLock(s)
    \/ GetValue(s) \/ PutValue(s) \/ RollbackRecord(s)
    \/ RecCount(s) \/ Flush(s) \/ Close(s)
    \/ \E r \in RecNos : GoTo(s, r) \/ LockMultiple(s, r) \/ UnLockOne(s, r)
    \/ \E bUnLockAll \in BOOLEAN : AppendRecord(s, bUnLockAll)

Step(s) == Take(s, area[s].todo)

Next == \E s \in Stations : Call(s) \/ Step(s) \/ Crash(s)

Spec == Init /\ [][Next]_vars

\* A call that was begun goes on; who waits for the lock of the header gets it
\* when it is free again and again.
Waits(s) == ~Idle(s) /\ Head(area[s].todo)[1] = "headerLock"
FairSpec == Spec /\ \A s \in Stations : /\ WF_vars(Step(s) /\ ~Waits(s))
                                        /\ SF_vars(Step(s) /\ Waits(s))

-----------------------------------------------------------------------------
(* Properties.                                                             *)

\* The kinds of the variables: lists of steps are made of the known steps.
TypeOK == /\ recs \in Seq(SUBSET Stations) /\ header \in Nat
          /\ osRecs \in [Stations -> SUBSET Nat]
          /\ osFile \in Stations \cup {NoStation} /\ osHeader \in Stations \cup {NoStation}
          /\ area \in [Stations -> Area]

\* What the file's locks give a station.
Held(s) == osRecs[s] \cup (IF osFile = s THEN RecNos ELSE {})

\* A work area knows its locks: pLocksPos, fFLocked and fHeaderLocked are what
\* the operating system holds for it, between any two steps of hb_dbfLock,
\* hb_dbfUnLock, hb_dbfAppend and hb_dbfClose, whatever was refused; and one that
\* has locked the file holds no record beside it.
LocksKnown == \A s \in Stations : LET a == area[s] IN
    /\ osRecs[s] = a.pLocksPos
    /\ osFile = s <=> a.fFLocked
    /\ osHeader = s <=> a.fHeaderLocked
    /\ a.fFLocked => osRecs[s] = {}

\* A changed buffer (fRecordChanged) belongs to a record that the station holds
\* until it is written, and misses nothing that others have written to it: no
\* call gives the lock up before hb_dbfGoCold, and no buffer of the time before
\* the lock is changed.
HotHeld == \A s \in Stations : LET a == area[s] IN
    a.fRecordChanged => /\ a.ulRecNo \in Held(s)
                        /\ a.ulRecNo \in DOMAIN recs => recs[a.ulRecNo] \subseteq a.pRecord

\* Whenever nobody holds the byte for append and header, the header states the
\* number of records in the file, whichever appends have met (hb_dbfAppend,
\* hb_dbfWriteDBHeader).
HeaderTrue == osHeader = NoStation => header = Len(recs)

\* The header never counts a record that is not in the file, whatever fails and
\* whoever stops between the two writes of hb_dbfGoCold.
HeaderNotAhead == header <= Len(recs)

\* Every call comes back: who waits for the header in hb_dbfRawLock is let in.
Returns == \A s \in Stations : ~Idle(s) ~> Idle(s)

\* The work areas and the locks of the operating system keep the promise of
\* SharedTable: locks exclude, only the holder writes, no update is lost.
Table == INSTANCE SharedTable WITH held <- [s \in Stations |-> Held(s)]
TableSpec == Table!Spec

-----------------------------------------------------------------------------
(* What a document promises and the code does not keep: TLC refutes it     *)
(* with the constants that README.md names.                                *)

\* A record changes only while a station holds it: a change "requires that the
\* record be locked" (doc/en/rdddb.txt:548).  DBRUNLOCK(), RLOCK() and FLOCK()
\* give the lock up even when hb_dbfGoCold has failed, and the buffer is written
\* later.
ChangedLocked ==
    [][\A r \in DOMAIN recs : recs'[r] # recs[r] => \E s \in Stations : r \in Held(s)]_recs
=============================================================================
