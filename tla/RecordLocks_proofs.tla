------------------------- MODULE RecordLocks_proofs -------------------------
(***************************************************************************)
(* Proofs of RecordLocks, for any number of stations and records.          *)
(*                                                                         *)
(* IInv holds whatever fails: it says what the list of steps of a work     *)
(* area may look like at any time (Shape).  HotInv holds besides when no   *)
(* write of a record fails: it says what the list still plans (Plan) and   *)
(* what the buffer may hold (Buffer), and with it the stations implement   *)
(* SharedTable.  HeaderInv holds besides when the header can be written    *)
(* and nobody crashes: it says who still has to write the header (Owes).   *)
(***************************************************************************)
EXTENDS RecordLocks, FiniteSetTheorems, SequenceTheorems, TLAPS

Lists == Seq(StepNames \X Nat)

Names(q) == {q[i][1] : i \in 1..Len(q)}

Begins(q, x) == q # <<>> /\ q[1][1] = x

\* What may come once a record or the header is written.
Onward == {"write", "headerLock", "headerUnlock", "unlockAll", "unlock",
           "fileUnlock", "close", "goTo", "goBottom"}

\* Step y comes directly behind step x in some list.
MayFollow(x, y) ==
    \/ x \in {"write", "headerUnlock"} /\ y \in Onward
    \/ x = "headerLock" /\ y \in {"count", "newRecord"}
    \/ x = "count" /\ y = "headerWrite"
    \/ x = "headerWrite" /\ y = "headerUnlock"
    \/ x = "unlockAll" /\ y \in {"lock", "fileLock", "fileUnlock", "close"}
    \/ x \in {"lock", "goTo"} /\ y = "blank"
    \/ x = "blank" /\ y = "headerUnlock"
    \/ x = "fileUnlock" /\ y = "close"
    \/ x = "read" /\ y = "put"

\* A list of steps is put together as MayFollow says, it does not end where
\* the byte of the header is still locked, and a record that was appended is
\* the last thing in it.
Chain(q) ==
    /\ \A i \in 1..Len(q) : \A j \in 1..Len(q) :
           j = i + 1 => MayFollow(q[i][1], q[j][1])
    /\ \A i \in 1..Len(q) :
           i = Len(q) => /\ q[i][1] \notin {"headerLock", "headerWrite", "blank"}
                         /\ q[i][1] = "count" => i = 1
    /\ \A i \in 1..Len(q) : q[i][1] = "blank" => Len(q) = i + 1

\* The steps about locks agree with the locks of the work area.
LockShape(a, q) ==
    /\ {"lock", "fileLock"} \cap Names(q) # {} => ~a.fFLocked
    /\ "fileUnlock" \in Names(q) => a.fFLocked
    /\ Begins(q, "fileLock") => a.pLocksPos = {}

\* Who has the byte of the header will give it back.
ByteShape(a, q) ==
    /\ a.fHeaderLocked => {"headerUnlock", "newRecord"} \cap Names(q) # {}
    /\ Begins(q, "write") /\ a.fHeaderLocked
       => q[1][2] = may /\ Len(q) > 1 /\ q[2][1] = "headerUnlock"

\* A record is appended only when no changed one is left.
ColdShape(a, q) ==
    "newRecord" \in Names(q) /\ a.fRecordChanged => q[1] = <<"write", must>>

\* The number that goes to the header is one of the records in the file.
CountShape(a, q, n) == Begins(q, "headerWrite") => a.ulRecCount <= n

Shape(a, q, n) == /\ Chain(q) /\ LockShape(a, q) /\ ByteShape(a, q)
                  /\ ColdShape(a, q) /\ CountShape(a, q, n)

ShapeInv == \A s \in Stations : Shape(area[s], area[s].todo, Len(recs))

\* The locks of the operating system exclude each other.
LocksApart == \A s, t \in Stations :
    s # t => /\ osRecs[s] \cap osRecs[t] = {}
             /\ osFile = s => osRecs[t] = {}

IInv == TypeOK /\ ShapeInv /\ LocksApart /\ LocksKnown /\ HeaderNotAhead

-----------------------------------------------------------------------------
(* Facts about lists.                                                      *)

\* The first step of a list, and the others.
LEMMA TailFacts ==
    ASSUME NEW q \in Lists, q # <<>>
    PROVE  /\ Len(q) \in Nat /\ Len(q) > 0
           /\ Head(q) = q[1] /\ q[1] \in StepNames \X Nat
           /\ Tail(q) \in Lists /\ Len(Tail(q)) = Len(q) - 1
           /\ \A i \in 1..Len(q) - 1 : Tail(q)[i] = q[i + 1]
           /\ Tail(q) # <<>> => Len(q) > 1 /\ Tail(q)[1] = q[2]
<1>1. Len(q) \in Nat /\ Len(q) > 0
  BY DEF Lists
<1>2. Head(q) = q[1] /\ q[1] \in StepNames \X Nat
  BY <1>1 DEF Lists
<1>3. Tail(q) \in Lists /\ Len(Tail(q)) = Len(q) - 1
  BY DEF Lists
<1>4. \A i \in 1..Len(q) - 1 : Tail(q)[i] = q[i + 1]
  BY <1>1 DEF Lists
<1>5. Tail(q) # <<>> => Len(q) > 1 /\ Tail(q)[1] = q[2]
  <2>1. Tail(q) # <<>> => Len(Tail(q)) # 0
    BY <1>3 DEF Lists
  <2> QED
    BY <1>1, <1>3, <1>4, <2>1
<1> QED
  BY <1>1, <1>2, <1>3, <1>4, <1>5

\* Two lists, one behind the other.
LEMMA ConcatFacts ==
    ASSUME NEW p \in Lists, NEW q \in Lists
    PROVE  /\ p \o q \in Lists
           /\ Len(p) \in Nat /\ Len(q) \in Nat
           /\ Len(p \o q) = Len(p) + Len(q)
           /\ \A i \in 1..Len(p) : (p \o q)[i] = p[i]
           /\ \A i \in 1..Len(q) : (p \o q)[Len(p) + i] = q[i]
           /\ \A i \in 1..Len(p) + Len(q) :
                  i \in 1..Len(p) \/ \E j \in 1..Len(q) : i = Len(p) + j
<1>1. Len(p) \in Nat /\ Len(q) \in Nat
  BY DEF Lists
<1>2. ASSUME NEW i \in 1..Len(p) + Len(q), i \notin 1..Len(p)
      PROVE  \E j \in 1..Len(q) : i = Len(p) + j
  <2>1. i - Len(p) \in 1..Len(q) /\ i = Len(p) + (i - Len(p))
    BY <1>1, <1>2
  <2> QED
    BY <2>1
<1> QED
  BY <1>1, <1>2 DEF Lists

\* The names of the steps of a list.
LEMMA NamesOfTail ==
    ASSUME NEW q \in Lists, q # <<>>
    PROVE  /\ Names(q) = {q[1][1]} \cup Names(Tail(q))
           /\ Names(q) \subseteq StepNames
<1> DEFINE t == Tail(q)
<1>1. /\ Len(q) \in Nat /\ Len(q) > 0 /\ Len(t) = Len(q) - 1
      /\ \A i \in 1..Len(q) - 1 : t[i] = q[i + 1]
  BY TailFacts
<1> HIDE DEF t
<1>2. ASSUME NEW i \in 1..Len(q)
      PROVE  q[i][1] \in {q[1][1]} \cup Names(t)
  <2>1. CASE i = 1
    BY <2>1
  <2>2. CASE i # 1
    <3>1. i - 1 \in 1..Len(t) /\ t[i - 1] = q[i]
      BY <1>1, <2>2
    <3> QED
      BY <3>1 DEF Names
  <2> QED
    BY <2>1, <2>2
<1>3. ASSUME NEW i \in 1..Len(t)
      PROVE  t[i][1] \in Names(q)
  <2>1. i + 1 \in 1..Len(q) /\ t[i] = q[i + 1]
    BY <1>1
  <2> QED
    BY <2>1 DEF Names
<1>4. q[1][1] \in Names(q)
  BY <1>1 DEF Names
<1>5. \A i \in 1..Len(q) : q[i][1] \in StepNames
  BY DEF Lists
<1> QED
  BY <1>2, <1>3, <1>4, <1>5 DEF Names, t

LEMMA NamesOfConcat ==
    ASSUME NEW p \in Lists, NEW q \in Lists
    PROVE  Names(p \o q) = Names(p) \cup Names(q)
<1> DEFINE r == p \o q
<1>1. /\ Len(p) \in Nat /\ Len(q) \in Nat /\ Len(r) = Len(p) + Len(q)
      /\ \A i \in 1..Len(p) : r[i] = p[i]
      /\ \A i \in 1..Len(q) : r[Len(p) + i] = q[i]
      /\ \A i \in 1..Len(p) + Len(q) :
             i \in 1..Len(p) \/ \E j \in 1..Len(q) : i = Len(p) + j
  BY ConcatFacts
<1> HIDE DEF r
<1>2. ASSUME NEW i \in 1..Len(r)
      PROVE  r[i][1] \in Names(p) \cup Names(q)
  <2>1. CASE i \in 1..Len(p)
    BY <1>1, <2>1 DEF Names
  <2>2. ASSUME NEW j \in 1..Len(q), i = Len(p) + j
        PROVE  r[i][1] \in Names(q)
    BY <1>1, <2>2 DEF Names
  <2> QED
    BY <1>1, <2>1, <2>2
<1>3. \A i \in 1..Len(p) : p[i][1] \in Names(r)
  <2> SUFFICES ASSUME NEW i \in 1..Len(p)
               PROVE  p[i][1] \in Names(r)
    OBVIOUS
  <2>1. i \in 1..Len(r) /\ r[i] = p[i]
    BY <1>1
  <2> QED
    BY <2>1 DEF Names
<1>4. \A i \in 1..Len(q) : q[i][1] \in Names(r)
  <2> SUFFICES ASSUME NEW i \in 1..Len(q)
               PROVE  q[i][1] \in Names(r)
    OBVIOUS
  <2>1. Len(p) + i \in 1..Len(r) /\ r[Len(p) + i] = q[i]
    BY <1>1
  <2> QED
    BY <2>1 DEF Names
<1> QED
  BY <1>2, <1>3, <1>4 DEF Names, r

LEMMA NamesOfEmpty == Names(<<>>) = {}
  BY DEF Names

LEMMA NamesOfOne ==
    ASSUME NEW x \in StepNames \X Nat
    PROVE  <<x>> \in Lists /\ Len(<<x>>) = 1 /\ <<x>>[1] = x
           /\ Names(<<x>>) = {x[1]} /\ <<x>> # <<>>
<1> DEFINE q == <<x>>
<1>1. q \in Lists /\ Len(q) = 1 /\ q[1] = x /\ q # <<>>
  BY DEF Lists
<1> HIDE DEF q
<1>2. Names(q) = {x[1]}
  BY <1>1 DEF Names
<1> QED
  BY <1>1, <1>2 DEF q

\* What is left of a list put together well is put together well.
LEMMA ChainOfTail ==
    ASSUME NEW q \in Lists, q # <<>>, Chain(q)
    PROVE  /\ Chain(Tail(q))
           /\ Tail(q) # <<>> => MayFollow(q[1][1], Tail(q)[1][1])
           /\ Tail(q) = <<>> => /\ Len(q) = 1
                                /\ q[1][1] \notin {"headerLock", "headerWrite", "blank"}
<1> DEFINE t == Tail(q)
<1>1. /\ Len(q) \in Nat /\ Len(q) > 0 /\ Len(t) = Len(q) - 1 /\ t \in Lists
      /\ \A i \in 1..Len(q) - 1 : t[i] = q[i + 1]
      /\ t # <<>> => Len(q) > 1 /\ t[1] = q[2]
  BY TailFacts
<1> HIDE DEF t
<1>2. ASSUME NEW i \in 1..Len(t), NEW j \in 1..Len(t), j = i + 1
      PROVE  MayFollow(t[i][1], t[j][1])
  <2>1. /\ i + 1 \in 1..Len(q) /\ j + 1 \in 1..Len(q)
        /\ t[i] = q[i + 1] /\ t[j] = q[j + 1] /\ j + 1 = (i + 1) + 1
    BY <1>1, <1>2
  <2> QED
    BY <2>1 DEF Chain
<1>3. ASSUME NEW i \in 1..Len(t), i = Len(t)
      PROVE  /\ t[i][1] \notin {"headerLock", "headerWrite", "blank"}
             /\ t[i][1] # "count"
  <2>1. /\ i + 1 \in 1..Len(q) /\ i + 1 = Len(q) /\ t[i] = q[i + 1]
        /\ i + 1 # 1
    BY <1>1, <1>3
  <2> QED
    BY <2>1 DEF Chain
<1>7. ASSUME NEW i \in 1..Len(t), t[i][1] = "blank"
      PROVE  Len(t) = i + 1
  <2>1. i + 1 \in 1..Len(q) /\ t[i] = q[i + 1]
    BY <1>1
  <2>2. Len(q) = (i + 1) + 1
    BY <1>7, <2>1 DEF Chain
  <2> QED
    BY <1>1, <2>2
<1>4. Chain(t)
  BY <1>2, <1>3, <1>7 DEF Chain
<1>5. t # <<>> => MayFollow(q[1][1], t[1][1])
  <2>1. Len(q) > 1 => 1 \in 1..Len(q) /\ 2 \in 1..Len(q) /\ 2 = 1 + 1
    BY <1>1
  <2> QED
    BY <1>1, <2>1 DEF Chain
<1>6. t = <<>> => Len(q) = 1 /\ q[1][1] \notin {"headerLock", "headerWrite", "blank"}
  <2>1. t = <<>> => Len(q) = 1
    BY <1>1
  <2> QED
    BY <2>1 DEF Chain
<1> QED
  BY <1>4, <1>5, <1>6 DEF t

\* A step in front of a list.
LEMMA ChainOfOne ==
    ASSUME NEW x \in StepNames \X Nat,
           x[1] \notin {"headerLock", "headerWrite", "blank"}
    PROVE  Chain(<<x>>)
<1>1. Len(<<x>>) = 1 /\ <<x>>[1] = x
  BY NamesOfOne
<1> QED
  BY <1>1 DEF Chain

LEMMA ConsFacts ==
    ASSUME NEW x \in StepNames \X Nat, NEW q \in Lists, q # <<>>
    PROVE  /\ <<x>> \o q \in Lists /\ <<x>> \o q # <<>>
           /\ Len(<<x>> \o q) = Len(q) + 1 /\ Len(q) \in Nat /\ Len(q) > 0
           /\ (<<x>> \o q)[1] = x /\ (<<x>> \o q)[2] = q[1]
           /\ \A i \in 1..Len(q) : (<<x>> \o q)[i + 1] = q[i]
           /\ Names(<<x>> \o q) = {x[1]} \cup Names(q)
           /\ Chain(q) /\ MayFollow(x[1], q[1][1]) /\ (q[1][1] = "count" => Len(q) > 1)
                 /\ (x[1] = "blank" => Len(q) = 1)
              => Chain(<<x>> \o q)
<1> DEFINE r == <<x>> \o q
<1>1. <<x>> \in Lists /\ Len(<<x>>) = 1 /\ <<x>>[1] = x
      /\ Names(<<x>>) = {x[1]}
  BY NamesOfOne
<1>2. /\ r \in Lists /\ Len(q) \in Nat /\ Len(r) = 1 + Len(q)
      /\ \A i \in 1..1 : r[i] = <<x>>[i]
      /\ \A i \in 1..Len(q) : r[1 + i] = q[i]
  BY <1>1, ConcatFacts
<1>3. Names(r) = {x[1]} \cup Names(q)
  BY <1>1, NamesOfConcat
<1> HIDE DEF r
<1>4. Len(q) > 0
  BY <1>2 DEF Lists
<1>5. r[1] = x /\ r[2] = q[1] /\ \A i \in 1..Len(q) : r[i + 1] = q[i]
  BY <1>1, <1>2, <1>4
<1>6. r # <<>>
  BY <1>2
<1>7. ASSUME Chain(q), MayFollow(x[1], q[1][1]), q[1][1] = "count" => Len(q) > 1,
             x[1] = "blank" => Len(q) = 1
      PROVE  Chain(r)
  <2>1. ASSUME NEW i \in 1..Len(r), NEW j \in 1..Len(r), j = i + 1
        PROVE  MayFollow(r[i][1], r[j][1])
    <3>1. CASE i = 1
      BY <1>5, <1>7, <2>1, <3>1
    <3>2. CASE i # 1
      <4>1. /\ i - 1 \in 1..Len(q) /\ j - 1 \in 1..Len(q) /\ j - 1 = (i - 1) + 1
            /\ r[i] = q[i - 1] /\ r[j] = q[j - 1]
        BY <1>2, <2>1, <3>2
      <4> QED
        BY <1>7, <4>1 DEF Chain
    <3> QED
      BY <3>1, <3>2
  <2>2. ASSUME NEW i \in 1..Len(r), i = Len(r)
        PROVE  /\ r[i][1] \notin {"headerLock", "headerWrite", "blank"}
               /\ r[i][1] # "count"
    <3>1. i - 1 \in 1..Len(q) /\ i - 1 = Len(q) /\ r[i] = q[i - 1]
      BY <1>2, <1>4, <2>2
    <3> QED
      BY <1>7, <3>1 DEF Chain
  <2>3. ASSUME NEW i \in 1..Len(r), r[i][1] = "blank"
        PROVE  Len(r) = i + 1
    <3>1. CASE i = 1
      BY <1>2, <1>5, <1>7, <2>3, <3>1
    <3>2. CASE i # 1
      <4>1. i - 1 \in 1..Len(q) /\ r[i] = q[i - 1]
        BY <1>2, <2>3, <3>2
      <4>2. Len(q) = (i - 1) + 1
        BY <1>7, <2>3, <4>1 DEF Chain
      <4> QED
        BY <1>2, <4>2
    <3> QED
      BY <3>1, <3>2
  <2> QED
    BY <2>1, <2>2, <2>3 DEF Chain
<1> QED
  BY <1>2, <1>3, <1>4, <1>5, <1>6, <1>7 DEF r

LEMMA EmptyChain == Chain(<<>>)
  BY DEF Chain

LEMMA ConcatAssoc ==
    ASSUME NEW p \in Lists, NEW q \in Lists, NEW r \in Lists
    PROVE  (p \o q) \o r = p \o (q \o r)
  BY SMTT(30), ConcatAssociative DEF Lists

LEMMA ConcatNone ==
    ASSUME NEW q \in Lists
    PROVE  <<>> \in Lists /\ <<>> \o q = q /\ q \o <<>> = q
  BY ConcatEmptySeq DEF Lists

LEMMA PairIsConcat ==
    ASSUME NEW x \in StepNames \X Nat, NEW y \in StepNames \X Nat
    PROVE  <<x, y>> \in Lists /\ <<x, y>> = <<x>> \o <<y>>
<1> DEFINE p == <<x>>
           q == <<y>>
           r == <<x, y>>
<1>1. /\ p \in Lists /\ q \in Lists /\ Len(p) = 1 /\ Len(q) = 1
      /\ p[1] = x /\ q[1] = y
  BY NamesOfOne
<1>2. r \in Lists /\ Len(r) = 2 /\ r[1] = x /\ r[2] = y
  BY DEF Lists
<1> HIDE DEF p, q, r
<1>3. /\ p \o q \in Lists /\ Len(p \o q) = 2
      /\ (p \o q)[1] = p[1] /\ (p \o q)[2] = q[1]
  <2>1. /\ p \o q \in Lists /\ Len(p \o q) = Len(p) + Len(q)
        /\ \A i \in 1..Len(p) : (p \o q)[i] = p[i]
        /\ \A i \in 1..Len(q) : (p \o q)[Len(p) + i] = q[i]
    BY <1>1, ConcatFacts
  <2>2. 1 \in 1..Len(p) /\ 1 \in 1..Len(q) /\ Len(p) + 1 = 2
    BY <1>1
  <2> QED
    BY <1>1, <2>1, <2>2
<1>4. \A i \in 1..2 : i = 1 \/ i = 2
  OBVIOUS
<1>5. \A i \in 1..2 : r[i] = (p \o q)[i]
  BY <1>1, <1>2, <1>3, <1>4
<1>6. r = p \o q
  BY ZenonT(30), <1>2, <1>3, <1>5, SeqEqual DEF Lists
<1> QED
  BY <1>2, <1>6 DEF p, q, r

-----------------------------------------------------------------------------
(* The lists of the model.                                                 *)

\* A list that may be done.
Good(q) == q \in Lists /\ q # <<>> /\ Chain(q)

LEMMA GoodOne ==
    ASSUME NEW x \in StepNames \X Nat,
           x[1] \notin {"headerLock", "headerWrite", "blank"}
    PROVE  Good(<<x>>) /\ <<x>>[1] = x /\ Names(<<x>>) = {x[1]} /\ Len(<<x>>) = 1
  BY NamesOfOne, ChainOfOne DEF Good

LEMMA GoodCons ==
    ASSUME NEW x \in StepNames \X Nat, NEW q, Good(q), MayFollow(x[1], q[1][1]),
           q[1][1] = "count" => Len(q) > 1, x[1] = "blank" => Len(q) = 1
    PROVE  /\ Good(<<x>> \o q) /\ (<<x>> \o q)[1] = x
           /\ Names(<<x>> \o q) = {x[1]} \cup Names(q)
           /\ Len(<<x>> \o q) > 1 /\ (<<x>> \o q)[2] = q[1]
<1>1. q \in Lists /\ q # <<>>
  BY DEF Good
<1> QED
  BY <1>1, ConsFacts DEF Good

LEMMA StepsAreNamed ==
    /\ \A x \in StepNames : \A n \in Nat : <<x, n>> \in StepNames \X Nat
    /\ must \in Nat /\ may \in Nat /\ must # may /\ 0 \in Nat
  BY DEF must, may

\* A list of one step, two and one before a list, one step at a time.
SameJoin(s, t, u, v, w) ==
    ((s \o (t \o u)) \o v) \o w = s \o (t \o (u \o (v \o w)))

LEMMA ConcatFour ==
    ASSUME NEW s \in Lists, NEW t \in Lists, NEW u \in Lists, NEW v \in Lists,
           NEW w \in Lists
    PROVE  SameJoin(s, t, u, v, w)
<1>1. t \o u \in Lists /\ v \o w \in Lists
  BY ConcatFacts
<1>2. s \o (t \o u) \in Lists
  BY <1>1, ConcatFacts
<1>3. \A x \in Lists : (t \o u) \o x = t \o (u \o x)
  BY ConcatAssoc
<1>4. ((s \o (t \o u)) \o v) \o w = (s \o (t \o u)) \o (v \o w)
  BY <1>2, ConcatAssoc
<1>5. \A x \in Lists : \A y \in Lists : (s \o x) \o y = s \o (x \o y)
  BY ConcatAssoc
<1>6. (t \o u) \o (v \o w) = t \o (u \o (v \o w))
  BY <1>1, <1>3
<1>7. (s \o (t \o u)) \o (v \o w) = s \o ((t \o u) \o (v \o w))
  BY <1>1, <1>5
<1> QED
  BY <1>4, <1>6, <1>7 DEF SameJoin

\* The steps of hb_dbfGoCold come first.
IsCold(p, a, how, q) == p = Cold(a, how) \o q

LEMMA ColdList ==
    ASSUME NEW a, a.fRecordChanged \in BOOLEAN, NEW how \in Nat, NEW q, Good(q),
           q[1][1] \in Onward, NEW p, IsCold(p, a, how, q)
    PROVE  /\ Good(p) /\ p[1][1] \in Onward
           /\ a.fRecordChanged => Names(p) = {"write"} \cup Names(q)
           /\ a.fRecordChanged => p[1] = <<"write", how>>
           /\ ~a.fRecordChanged => p = q
<1> DEFINE x == <<"write", how>>
<1>1. x \in StepNames \X Nat /\ x[1] = "write"
  BY StepsAreNamed DEF StepNames
<1>2. MayFollow("write", q[1][1]) /\ "write" \in Onward /\ q[1][1] # "count"
  BY DEF MayFollow, Onward
<1>3. CASE a.fRecordChanged
  <2>1. p = <<x>> \o q
    BY <1>3 DEF Cold, IsCold
  <2> HIDE DEF x
  <2>2. Good(p) /\ p[1] = x /\ Names(p) = {x[1]} \cup Names(q)
    <3>1. MayFollow(x[1], q[1][1]) /\ x[1] # "blank"
      BY <1>1, <1>2
    <3> QED
      BY <1>1, <1>2, <2>1, <3>1, GoodCons
  <2>3. p[1][1] = "write" /\ Names(p) = {"write"} \cup Names(q)
    BY <1>1, <2>2
  <2> QED
    BY <1>2, <1>3, <2>2, <2>3 DEF x
<1>4. CASE ~a.fRecordChanged
  <2>1. p = q
    BY <1>4, ConcatNone DEF Cold, Good, IsCold
  <2> QED
    BY <1>4, <2>1
<1> QED
  BY <1>3, <1>4

\* The steps of hb_dbfWriteDBHeader come first.
IsUpdate(p, a, how, q) == p = WriteDBHeader(a, how) \o q

\* The header is written, and its byte given back.
LEMMA HeaderList ==
    ASSUME NEW a, ~a.fHeaderLocked, NEW how \in Nat,
           NEW q \in Lists, Chain(q), q # <<>> => q[1][1] \in Onward,
           NEW p, IsUpdate(p, a, how, q)
    PROVE  /\ Good(p) /\ p[1] = <<"headerLock", 0>> /\ p[1][1] = "headerLock"
           /\ Names(p) = {"headerLock", "count", "headerWrite", "headerUnlock"}
                              \cup Names(q)
<1> DEFINE x1 == <<"headerLock", 0>>
           x2 == <<"count", 0>>
           x3 == <<"headerWrite", how>>
           x4 == <<"headerUnlock", 0>>
<1>1. x1 \in StepNames \X Nat /\ x2 \in StepNames \X Nat
  BY DEF StepNames
<1>2. x3 \in StepNames \X Nat /\ x4 \in StepNames \X Nat
  BY StepsAreNamed DEF StepNames
<1>3. x1[1] = "headerLock" /\ x2[1] = "count" /\ x3[1] = "headerWrite" /\ x4[1] = "headerUnlock"
  OBVIOUS
<1>4. WriteDBHeader(a, how) = (<<x1>> \o <<x2, x3>>) \o <<x4>>
  BY DEF WriteDBHeader
<1>5. x1 = <<"headerLock", 0>>
  OBVIOUS
<1> HIDE DEF x1, x2, x3, x4
<1> DEFINE s1 == <<x1>>
           s2 == <<x2>>
           s3 == <<x3>>
           s4 == <<x4>>
           r4 == s4 \o q
           r3 == s3 \o r4
           r2 == s2 \o r3
<1>6. /\ s1 \in Lists /\ s2 \in Lists /\ s3 \in Lists /\ s4 \in Lists
      /\ <<x2, x3>> = s2 \o s3
  BY <1>1, <1>2, NamesOfOne, PairIsConcat
<1>7. WriteDBHeader(a, how) \o q = s1 \o r2
  <2>1. WriteDBHeader(a, how) = (s1 \o (s2 \o s3)) \o s4
    BY <1>4, <1>6
  <2> HIDE DEF s1, s2, s3, s4
  <2>2. s1 \in Lists /\ s2 \in Lists /\ s3 \in Lists /\ s4 \in Lists
    BY <1>6
  <2>3. SameJoin(s1, s2, s3, s4, q)
    BY <2>2, ConcatFour
  <2> QED
    BY <2>1, <2>3 DEF SameJoin
<1>8. Good(r4) /\ r4[1] = x4 /\ Names(r4) = {"headerUnlock"} \cup Names(q)
  <2>1. CASE q = <<>>
    BY <1>2, <1>3, <1>6, <2>1, GoodOne, ConcatNone, NamesOfEmpty
  <2>2. CASE q # <<>>
    <3>1. Good(q) /\ MayFollow(x4[1], q[1][1]) /\ q[1][1] # "count"
      BY <1>3, <2>2 DEF Good, MayFollow, Onward
    <3> QED
      BY <1>2, <1>3, <3>1, GoodCons
  <2> QED
    BY <2>1, <2>2
<1> HIDE DEF r4
<1>9. /\ Good(r3) /\ r3[1] = x3
      /\ Names(r3) = {"headerWrite", "headerUnlock"} \cup Names(q)
  <2>1. MayFollow(x3[1], r4[1][1]) /\ r4[1][1] # "count"
    BY <1>3, <1>8 DEF MayFollow
  <2> QED
    BY <1>2, <1>3, <1>8, <2>1, GoodCons
<1> HIDE DEF r3
<1>10. /\ Good(r2) /\ r2[1] = x2 /\ Len(r2) > 1
       /\ Names(r2) = {"count", "headerWrite", "headerUnlock"} \cup Names(q)
  <2>1. MayFollow(x2[1], r3[1][1]) /\ r3[1][1] # "count"
    BY <1>3, <1>9 DEF MayFollow
  <2> QED
    BY <1>1, <1>3, <1>9, <2>1, GoodCons
<1> HIDE DEF r2
<1>11. MayFollow(x1[1], r2[1][1])
  BY <1>3, <1>10 DEF MayFollow
<1>12. /\ Good(s1 \o r2) /\ (s1 \o r2)[1] = x1
       /\ Names(s1 \o r2) = {"headerLock"} \cup Names(r2)
  BY <1>1, <1>3, <1>10, <1>11, GoodCons
<1>13. p = s1 \o r2 /\ x1[1] = "headerLock"
  BY <1>3, <1>7 DEF IsUpdate
<1> HIDE DEF s1
<1>14. /\ Good(p) /\ p[1] = x1 /\ Names(p) = {"headerLock"} \cup Names(r2)
  BY <1>12, <1>13
<1>15. p[1][1] = "headerLock"
  BY <1>13, <1>14
<1> QED
  BY <1>5, <1>10, <1>14, <1>15

\* It is written with the byte held.
LEMMA UpdateList ==
    ASSUME NEW a, a.fHeaderLocked, NEW how \in Nat,
           NEW q, Good(q), q[1][1] = "headerUnlock",
           NEW p, IsUpdate(p, a, how, q)
    PROVE  /\ Good(p) /\ p[1] = <<"count", 0>> /\ p[1][1] = "count"
           /\ Names(p) = {"count", "headerWrite"} \cup Names(q)
<1> DEFINE x2 == <<"count", 0>>
           x3 == <<"headerWrite", how>>
<1>1. x2 \in StepNames \X Nat /\ x3 \in StepNames \X Nat
  BY StepsAreNamed DEF StepNames
<1>2. x2[1] = "count" /\ x3[1] = "headerWrite" /\ x2 = <<"count", 0>>
  OBVIOUS
<1>3. WriteDBHeader(a, how) = <<x2, x3>>
  BY DEF WriteDBHeader
<1> HIDE DEF x2, x3
<1> DEFINE s2 == <<x2>>
           s3 == <<x3>>
           r3 == s3 \o q
<1>4. WriteDBHeader(a, how) \o q = s2 \o r3
  <2>1. s2 \in Lists /\ s3 \in Lists /\ <<x2, x3>> = s2 \o s3 /\ q \in Lists
    BY <1>1, NamesOfOne, PairIsConcat DEF Good
  <2> HIDE DEF s2, s3
  <2>2. (s2 \o s3) \o q = s2 \o r3
    BY <2>1, ConcatAssoc
  <2> QED
    BY <1>3, <2>1, <2>2
<1>5. MayFollow(x3[1], q[1][1]) /\ q[1][1] # "count"
  BY <1>2 DEF MayFollow
<1>6. Good(r3) /\ r3[1] = x3 /\ Names(r3) = {"headerWrite"} \cup Names(q)
  BY <1>1, <1>2, <1>5, GoodCons
<1> HIDE DEF r3
<1>7. MayFollow(x2[1], r3[1][1]) /\ r3[1][1] # "count"
  BY <1>2, <1>6 DEF MayFollow
<1>8. /\ Good(s2 \o r3) /\ (s2 \o r3)[1] = x2
      /\ Names(s2 \o r3) = {"count"} \cup Names(r3)
  BY <1>1, <1>2, <1>6, <1>7, GoodCons
<1>9. p = s2 \o r3
  BY <1>4 DEF IsUpdate
<1> HIDE DEF s2
<1>10. /\ Good(p) /\ p[1] = x2 /\ Names(p) = {"count"} \cup Names(r3)
  BY <1>8, <1>9
<1>11. p[1][1] = "count"
  BY <1>2, <1>10
<1> QED
  BY <1>2, <1>6, <1>10, <1>11

-----------------------------------------------------------------------------
(* The shape of what is left to do.                                        *)

\* One step is done that does not lock the byte of the header or begin an
\* append.
LEMMA TailShape ==
    ASSUME NEW a, NEW b, NEW n, NEW q \in Lists, q # <<>>, Shape(a, q, n),
           b.fFLocked = a.fFLocked, b.fHeaderLocked => a.fHeaderLocked,
           b.fRecordChanged => a.fRecordChanged, q[1][1] # "newRecord",
           q[1][1] = "headerUnlock" => ~b.fHeaderLocked,
           q[1][1] = "unlockAll" => b.pLocksPos = {},
           q[1][1] = "count" => b.ulRecCount <= n,
           q[1][1] = "write" => ~b.fRecordChanged \/ q[1][2] # must
    PROVE  Shape(b, Tail(q), n)
<1> DEFINE t == Tail(q)
<1> USE DEF Shape
<1>1. /\ Chain(t)
      /\ t # <<>> => MayFollow(q[1][1], t[1][1])
      /\ Names(q) = {q[1][1]} \cup Names(t)
      /\ t # <<>> => Len(q) > 1 /\ t[1] = q[2]
  BY ChainOfTail, NamesOfTail, TailFacts
<1> HIDE DEF t
<1>2. LockShape(b, t)
  <2>1. Begins(t, "fileLock") => b.pLocksPos = {}
    BY <1>1 DEF Begins, MayFollow, Onward
  <2> QED
    BY <1>1, <2>1 DEF LockShape
<1>3. ByteShape(b, t)
  <2>1. b.fHeaderLocked => {"headerUnlock", "newRecord"} \cap Names(t) # {}
    BY <1>1 DEF ByteShape
  <2>2. ~(Begins(t, "write") /\ b.fHeaderLocked)
    <3> SUFFICES ASSUME Begins(t, "write"), b.fHeaderLocked
                 PROVE  FALSE
      OBVIOUS
    <3>1. q[1][1] = "write"
      BY <1>1 DEF Begins, MayFollow, Onward
    <3> QED
      BY <1>1, <3>1 DEF ByteShape, Begins
  <2> QED
    BY <2>1, <2>2 DEF ByteShape
<1>4. ColdShape(b, t)
  <2> SUFFICES ASSUME "newRecord" \in Names(t), b.fRecordChanged
               PROVE  FALSE
    BY DEF ColdShape
  <2>1. q[1] = <<"write", must>>
    BY <1>1 DEF ColdShape
  <2> QED
    BY <2>1, StepsAreNamed
<1>5. CountShape(b, t, n)
  BY <1>1 DEF CountShape, Begins, MayFollow, Onward
<1> QED
  BY <1>1, <1>2, <1>3, <1>4, <1>5 DEF t

\* Nothing is left to do.
LEMMA EmptyShape ==
    ASSUME NEW b, NEW n, ~b.fHeaderLocked
    PROVE  Shape(b, <<>>, n)
  BY EmptyChain, NamesOfEmpty
  DEF Shape, LockShape, ByteShape, ColdShape, CountShape, Begins

\* One step that stands for itself is left.
LEMMA OneShape ==
    ASSUME NEW b, NEW n, NEW x \in StepNames \X Nat,
           \/ x[1] = "headerUnlock"
           \/ x[1] \in {"goTo", "goBottom", "read", "put", "rollback", "close", "unlock",
                        "count"} /\ ~b.fHeaderLocked
    PROVE  <<x>> \in Lists /\ Shape(b, <<x>>, n)
<1>1. Good(<<x>>) /\ <<x>>[1] = x /\ Names(<<x>>) = {x[1]}
  BY GoodOne
<1> DEFINE q == <<x>>
<1> HIDE DEF q
<1>2. Good(q) /\ q[1] = x /\ Names(q) = {x[1]}
  BY <1>1 DEF q
<1>3. LockShape(b, q) /\ ByteShape(b, q) /\ ColdShape(b, q) /\ CountShape(b, q, n)
  BY <1>2 DEF LockShape, ByteShape, ColdShape, CountShape, Begins
<1> QED
  BY <1>2, <1>3 DEF Shape, Good, q

\* More records.
LEMMA ShapeGrows ==
    ASSUME NEW a, a.ulRecCount \in Nat, NEW q, NEW n \in Nat, NEW m \in Nat, n <= m,
           Shape(a, q, n)
    PROVE  Shape(a, q, m)
  BY DEF Shape, CountShape

\* A work area with another list.
LEMMA ShapeOfFields ==
    ASSUME NEW a, NEW b, NEW n, NEW q,
           b.fFLocked = a.fFLocked, b.fHeaderLocked = a.fHeaderLocked,
           b.fRecordChanged = a.fRecordChanged, b.pLocksPos = a.pLocksPos,
           b.ulRecCount = a.ulRecCount,
           Shape(a, q, n)
    PROVE  Shape(b, q, n)
  BY DEF Shape, LockShape, ByteShape, ColdShape, CountShape

-----------------------------------------------------------------------------
(* A step of a station.                                                    *)

LEMMA LeavesFacts ==
    ASSUME TypeOK, NEW s \in Stations, NEW b \in Area, Leaves(s, b)
    PROVE  /\ area' \in [Stations -> Area] /\ area'[s] = b
           /\ \A t \in Stations \ {s} : area'[t] = area[t]
  BY DEF TypeOK, Leaves

\* The locks of the other stations stay.
OthersKeep(s) ==
    \A t \in Stations \ {s} :
        /\ osRecs'[t] = osRecs[t]
        /\ osFile' = t <=> osFile = t
        /\ osHeader' = t <=> osHeader = t

\* What has to be shown of a step that changes the locks of its station.
LEMMA OwnStep ==
    ASSUME IInv, NEW s \in Stations, NEW b \in Area, Leaves(s, b),
           UNCHANGED <<recs, header>>,
           osRecs' \in [Stations -> SUBSET Nat],
           osFile' \in Stations \cup {NoStation}, osHeader' \in Stations \cup {NoStation},
           Shape(b, b.todo, Len(recs)), LocksApart',
           osRecs'[s] = b.pLocksPos, osFile' = s <=> b.fFLocked,
           osHeader' = s <=> b.fHeaderLocked, b.fFLocked => b.pLocksPos = {},
           OthersKeep(s)
    PROVE  IInv'
<1>1. /\ area' \in [Stations -> Area] /\ area'[s] = b
      /\ \A t \in Stations \ {s} : area'[t] = area[t]
  BY LeavesFacts DEF IInv
<1>2. TypeOK' /\ HeaderNotAhead'
  BY <1>1 DEF IInv, TypeOK, HeaderNotAhead
<1>3. ShapeInv'
  BY <1>1 DEF IInv, ShapeInv
<1>4. LocksKnown'
  BY <1>1 DEF IInv, LocksKnown, OthersKeep
<1> QED
  BY <1>2, <1>3, <1>4 DEF IInv

\* ... and of one that does not.
LEMMA QuietStep ==
    ASSUME IInv, NEW s \in Stations, NEW b \in Area, Leaves(s, b),
           UNCHANGED <<osRecs, osFile, osHeader>>,
           recs' \in Seq(SUBSET Stations), Len(recs') >= Len(recs),
           header' \in Nat, header' <= Len(recs'),
           Shape(b, b.todo, Len(recs')),
           b.pLocksPos = area[s].pLocksPos, b.fFLocked = area[s].fFLocked,
           b.fHeaderLocked = area[s].fHeaderLocked
    PROVE  IInv'
<1>1. /\ area' \in [Stations -> Area] /\ area'[s] = b
      /\ \A t \in Stations \ {s} : area'[t] = area[t]
  BY LeavesFacts DEF IInv
<1>2. TypeOK' /\ HeaderNotAhead'
  BY <1>1 DEF IInv, TypeOK, HeaderNotAhead
<1>3. ShapeInv'
  <2> SUFFICES ASSUME NEW t \in Stations
               PROVE  Shape(area'[t], area'[t].todo, Len(recs'))
    BY DEF ShapeInv
  <2>1. CASE t = s
    BY <1>1, <2>1
  <2>2. CASE t # s
    <3>1. area'[t] = area[t] /\ area[t].ulRecCount \in Nat
      BY <1>1, <2>2 DEF IInv, TypeOK, Area
    <3>2. Len(recs) \in Nat /\ Len(recs') \in Nat /\ Shape(area[t], area[t].todo, Len(recs))
      BY DEF IInv, TypeOK, ShapeInv
    <3> QED
      BY <3>1, <3>2, ShapeGrows
  <2> QED
    BY <2>1, <2>2
<1>4. LocksKnown'
  BY <1>1 DEF IInv, LocksKnown
<1>5. LocksApart'
  BY DEF IInv, LocksApart
<1> QED
  BY <1>2, <1>3, <1>4, <1>5 DEF IInv

-----------------------------------------------------------------------------
(* The inductive invariant: the steps that leave the locks alone.          *)

\* A step that is about to be taken.
Taken(s, q, x) == /\ IInv /\ s \in Stations
                  /\ q \in Lists /\ q # <<>> /\ q[1][1] = x
                  /\ Shape(area[s], q, Len(recs))

LEMMA TakenFacts ==
    ASSUME NEW s, NEW q, NEW x, Taken(s, q, x)
    PROVE  /\ area[s] \in Area /\ Tail(q) \in Lists
           /\ Arg(q) = q[1][2] /\ Arg(q) \in Nat /\ x \in StepNames
           /\ recs \in Seq(SUBSET Stations) /\ Len(recs) \in Nat
           /\ header \in Nat /\ header <= Len(recs)
           /\ Tail(q) # <<>> => /\ Good(Tail(q))
                                /\ MayFollow(x, Tail(q)[1][1])
           /\ Tail(q) = <<>> => x \notin {"headerLock", "headerWrite", "blank"}
           /\ Names(q) = {x} \cup Names(Tail(q))
<1>1. area[s] \in Area
  BY DEF Taken, IInv, TypeOK
<1>2. /\ Tail(q) \in Lists /\ Head(q) = q[1] /\ q[1] \in StepNames \X Nat
  BY TailFacts DEF Taken
<1>3. /\ recs \in Seq(SUBSET Stations) /\ Len(recs) \in Nat
      /\ header \in Nat /\ header <= Len(recs)
  BY DEF Taken, IInv, TypeOK, HeaderNotAhead
<1>4. /\ Chain(Tail(q))
      /\ Tail(q) # <<>> => MayFollow(q[1][1], Tail(q)[1][1])
      /\ Tail(q) = <<>> => q[1][1] \notin {"headerLock", "headerWrite", "blank"}
  BY ChainOfTail DEF Taken, Shape
<1>5. Names(q) = {x} \cup Names(Tail(q))
  BY NamesOfTail DEF Taken
<1> QED
  BY <1>1, <1>2, <1>3, <1>4, <1>5 DEF Taken, Arg, Good

\* When nothing else is in the list, the byte of the header is not locked.
LEMMA LastStep ==
    ASSUME NEW s, NEW q, NEW x, Taken(s, q, x), Tail(q) = <<>>,
           x \notin {"headerUnlock", "newRecord"}
    PROVE  ~area[s].fHeaderLocked
<1>1. Names(q) = {x} \cup Names(Tail(q)) /\ Names(Tail(q)) = {}
  BY TakenFacts, NamesOfEmpty
<1>2. ByteShape(area[s], q)
  BY DEF Taken, Shape
<1> QED
  BY <1>1, <1>2 DEF ByteShape

\* hb_dbfWriteRecord keeps the other records and may add some.
LEMMA PutRecFacts ==
    ASSUME NEW a \in Area, recs \in Seq(SUBSET Stations), PutRec(a)
    PROVE  /\ recs' \in Seq(SUBSET Stations) /\ Len(recs') \in Nat
           /\ Len(recs') = IF a.ulRecNo > Len(recs) THEN a.ulRecNo ELSE Len(recs)
           /\ Len(recs') >= Len(recs)
           /\ \A i \in 1..Len(recs') :
                  recs'[i] = IF i = a.ulRecNo THEN a.pRecord
                             ELSE IF i <= Len(recs) THEN recs[i] ELSE {}
<1> DEFINE n == IF a.ulRecNo > Len(recs) THEN a.ulRecNo ELSE Len(recs)
           v(i) == IF i = a.ulRecNo THEN a.pRecord
                   ELSE IF i <= Len(recs) THEN recs[i] ELSE {}
<1>1. n \in Nat /\ n >= Len(recs)
  BY DEF Area
<1>2. \A i \in 1..n : v(i) \in SUBSET Stations
  BY DEF Area
<1>3. recs' = [i \in 1..n |-> v(i)]
  BY DEF PutRec
<1> HIDE DEF n, v
<1>4. recs' \in [1..n -> SUBSET Stations]
  BY <1>2, <1>3
<1>5. recs' \in Seq(SUBSET Stations) /\ Len(recs') = n
  BY <1>1, <1>4
<1>6. \A i \in 1..n : recs'[i] = v(i)
  BY <1>3
<1> QED
  BY <1>1, <1>5, <1>6 DEF n, v

\* A record is written.
LEMMA WriteInv ==
    ASSUME NEW s, NEW q, Taken(s, q, "write"), Write(s, q)
    PROVE  IInv'
<1> DEFINE a == area[s]
           t == Tail(q)
           update == a.fUpdateHeader \/ a.fAppend
           rest == (IF update THEN WriteDBHeader(a, Arg(q)) ELSE <<>>) \o t
<1>1. /\ a \in Area /\ t \in Lists /\ Arg(q) = q[1][2] /\ Arg(q) \in Nat
      /\ recs \in Seq(SUBSET Stations) /\ Len(recs) \in Nat
      /\ header \in Nat /\ header <= Len(recs)
      /\ t # <<>> => Good(t) /\ MayFollow("write", t[1][1])
      /\ Names(q) = {"write"} \cup Names(t)
  BY TakenFacts
<1>2. /\ IInv /\ s \in Stations /\ q \in Lists /\ q # <<>> /\ q[1][1] = "write"
      /\ Shape(a, q, Len(recs))
  BY DEF Taken
<1>3. UNCHANGED <<osRecs, osFile, osHeader>> /\ header' = header
  BY DEF Write
<1>4. ASSUME NEW b \in Area, Leaves(s, b), UNCHANGED recs,
             b.fFLocked = a.fFLocked, b.fHeaderLocked = a.fHeaderLocked,
             b.pLocksPos = a.pLocksPos, Shape(b, b.todo, Len(recs))
      PROVE  IInv'
  BY <1>1, <1>2, <1>3, <1>4, QuietStep
<1>5. CASE /\ a.fRecordChanged /\ PutRec(a)
           /\ Leaves(s, [a EXCEPT !.fRecordChanged = FALSE, !.fAppend = FALSE,
                                  !.fUpdateHeader = update, !.todo = rest])
  <2> DEFINE b == [a EXCEPT !.fRecordChanged = FALSE, !.fAppend = FALSE,
                            !.fUpdateHeader = update, !.todo = rest]
  <2>1. /\ recs' \in Seq(SUBSET Stations) /\ Len(recs') \in Nat
        /\ Len(recs') >= Len(recs)
    BY <1>1, <1>5, PutRecFacts
  <2>2. rest \in Lists /\ Shape([a EXCEPT !.fRecordChanged = FALSE], rest, Len(recs'))
    <3> DEFINE c == [a EXCEPT !.fRecordChanged = FALSE]
    <3>1. /\ c.fFLocked = a.fFLocked /\ c.fHeaderLocked = a.fHeaderLocked
          /\ ~c.fRecordChanged /\ c.pLocksPos = a.pLocksPos
          /\ c.ulRecCount = a.ulRecCount /\ c.ulRecCount \in Nat
      BY <1>1 DEF Area
    <3> HIDE DEF c
    <3>2. Shape(c, t, Len(recs))
      BY <1>1, <1>2, <3>1, TailShape
    <3>3. Shape(c, t, Len(recs'))
      BY <1>1, <2>1, <3>1, <3>2, ShapeGrows
    <3>4. CASE ~update
      <4>1. rest = t
        BY <1>1, <3>4, ConcatNone
      <4> QED
        BY <1>1, <3>3, <4>1 DEF c
    <3>5. ASSUME Good(rest), rest[1][1] \in {"headerLock", "count"},
                 Names(rest) \subseteq
                     {"headerLock", "count", "headerWrite", "headerUnlock"} \cup Names(t),
                 "headerUnlock" \in Names(rest)
          PROVE  rest \in Lists /\ Shape(c, rest, Len(recs'))
      <4> HIDE DEF rest, t
      <4>1. LockShape(c, rest)
        BY <3>2, <3>5 DEF LockShape, Shape, Begins
      <4>2. ByteShape(c, rest) /\ ColdShape(c, rest) /\ CountShape(c, rest, Len(recs'))
        BY <3>1, <3>5 DEF ByteShape, ColdShape, CountShape, Begins
      <4> QED
        BY <3>5, <4>1, <4>2 DEF Shape, Good
    <3>6. CASE update /\ ~a.fHeaderLocked
      <4>1. Chain(t) /\ (t # <<>> => t[1][1] \in Onward)
        BY <1>1, EmptyChain DEF Good, MayFollow
      <4>2. IsUpdate(rest, a, Arg(q), t)
        BY <3>6 DEF IsUpdate
      <4>3. t \in Lists /\ Arg(q) \in Nat /\ ~a.fHeaderLocked
        BY <1>1, <3>6
      <4> HIDE DEF rest, t, a
      <4>4. /\ Good(rest) /\ rest[1][1] = "headerLock"
            /\ Names(rest) = {"headerLock", "count", "headerWrite", "headerUnlock"}
                                 \cup Names(t)
        BY <4>1, <4>2, <4>3, HeaderList
      <4> QED
        BY <3>5, <4>4 DEF c
    <3>7. CASE update /\ a.fHeaderLocked
      <4>1. Len(q) > 1 /\ q[2][1] = "headerUnlock"
        BY <1>2, <3>7 DEF Shape, ByteShape, Begins
      <4>2. t # <<>> /\ t[1] = q[2]
        <5>1. /\ Len(t) = Len(q) - 1 /\ Len(q) \in Nat
              /\ t # <<>> => t[1] = q[2]
          BY <1>2, TailFacts
        <5>2. Len(<<>>) = 0
          OBVIOUS
        <5> QED
          BY <4>1, <5>1, <5>2
      <4>3. IsUpdate(rest, a, Arg(q), t)
        BY <3>7 DEF IsUpdate
      <4>4. /\ t \in Lists /\ Arg(q) \in Nat /\ a.fHeaderLocked
            /\ Good(t) /\ t[1][1] = "headerUnlock"
        BY <1>1, <3>7, <4>1, <4>2
      <4> HIDE DEF rest, t, a
      <4>5. /\ Good(rest) /\ rest[1][1] = "count"
            /\ Names(rest) = {"count", "headerWrite"} \cup Names(t)
        BY <4>3, <4>4, UpdateList
      <4>6. "headerUnlock" \in Names(t)
        <5>1. t \in Lists /\ Names(t) = {t[1][1]} \cup Names(Tail(t))
          BY <4>2, <4>4, NamesOfTail
        <5> QED
          BY <4>1, <4>2, <5>1
      <4> QED
        BY <3>5, <4>5, <4>6 DEF c
    <3> QED
      BY <1>1, <3>4, <3>6, <3>7 DEF Area
  <2> HIDE DEF rest
  <2>3. /\ b \in Area /\ b.todo = rest /\ b.fFLocked = a.fFLocked
        /\ b.fHeaderLocked = a.fHeaderLocked /\ b.pLocksPos = a.pLocksPos
    BY <1>1, <2>2 DEF Area, Lists
  <2>4. Shape(b, rest, Len(recs'))
    <3>1. /\ b.fRecordChanged = FALSE /\ b.ulRecCount = a.ulRecCount
      BY <1>1 DEF Area
    <3>2. LET c == [a EXCEPT !.fRecordChanged = FALSE] IN
          /\ b.fFLocked = c.fFLocked /\ b.fHeaderLocked = c.fHeaderLocked
          /\ b.fRecordChanged = c.fRecordChanged /\ b.pLocksPos = c.pLocksPos
          /\ b.ulRecCount = c.ulRecCount
      BY <1>1, <2>3, <3>1 DEF Area
    <3> HIDE DEF b
    <3> QED
      BY <2>2, <3>2, ShapeOfFields
  <2>5. Leaves(s, b)
    BY <1>5
  <2> HIDE DEF b
  <2> QED
    BY <1>1, <1>2, <1>3, <2>1, <2>3, <2>4, <2>5, QuietStep
<1>6. CASE Leaves(s, [a EXCEPT !.todo = IF Arg(q) = must THEN <<>> ELSE t]) /\ UNCHANGED recs
  <2> DEFINE r == IF Arg(q) = must THEN <<>> ELSE t
             b == [a EXCEPT !.todo = r]
  <2>1. r \in Lists
    BY <1>1, ConcatNone
  <2>2. /\ b \in Area /\ b.todo = r /\ b.fFLocked = a.fFLocked
        /\ b.fHeaderLocked = a.fHeaderLocked /\ b.pLocksPos = a.pLocksPos
        /\ b.fRecordChanged = a.fRecordChanged
    BY <1>1, <2>1 DEF Area, Lists
  <2>3. Leaves(s, b)
    BY <1>6
  <2> HIDE DEF b
  <2>4. CASE Arg(q) = must
    <3>1. ~a.fHeaderLocked
      BY <1>1, <1>2, <2>4, StepsAreNamed DEF Shape, ByteShape, Begins
    <3> QED
      BY <1>4, <1>6, <2>2, <2>3, <2>4, <3>1, EmptyShape
  <2>5. CASE Arg(q) # must
    <3>1. Shape(b, t, Len(recs))
      BY <1>1, <1>2, <2>2, <2>5, TailShape
    <3> QED
      BY <1>4, <1>6, <2>2, <2>3, <2>5, <3>1
  <2> QED
    BY <2>4, <2>5
<1>7. CASE ~a.fRecordChanged /\ Leaves(s, [a EXCEPT !.todo = t]) /\ UNCHANGED recs
  <2> DEFINE b == [a EXCEPT !.todo = t]
  <2>1. /\ b \in Area /\ b.todo = t /\ b.fFLocked = a.fFLocked
        /\ b.fHeaderLocked = a.fHeaderLocked /\ b.pLocksPos = a.pLocksPos
        /\ b.fRecordChanged = a.fRecordChanged
    BY <1>1 DEF Area, Lists
  <2>2. Leaves(s, b)
    BY <1>7
  <2> HIDE DEF b
  <2>3. Shape(b, t, Len(recs))
    BY <1>1, <1>2, <1>7, <2>1, TailShape
  <2> QED
    BY <1>4, <1>7, <2>1, <2>2, <2>3
<1> QED
  BY <1>5, <1>6, <1>7 DEF Write

\* What is known of the locks of a station that takes a step.
LEMMA TakenLocks ==
    ASSUME NEW s, NEW q, NEW x, Taken(s, q, x)
    PROVE  /\ osRecs[s] = area[s].pLocksPos /\ (osFile = s <=> area[s].fFLocked)
           /\ (osHeader = s <=> area[s].fHeaderLocked)
           /\ (area[s].fFLocked => osRecs[s] = {})
           /\ osRecs \in [Stations -> SUBSET Nat]
           /\ osFile \in Stations \cup {NoStation} /\ osHeader \in Stations \cup {NoStation}
           /\ NoStation \notin Stations /\ s \in Stations
  BY StationsAssumption DEF Taken, IInv, LocksKnown, TypeOK

\* Steps that nothing comes behind.
LEMMA NothingFollows ==
    ASSUME NEW s, NEW q, NEW x, Taken(s, q, x),
           x \in {"put", "close", "fileLock", "goBottom", "read", "newRecord", "rollback",
                  "unlock", "count"},
           Tail(q) # <<>>
    PROVE  \/ x = "read" /\ Tail(q)[1][1] = "put"
           \/ x = "count" /\ Tail(q)[1][1] = "headerWrite"
  BY TakenFacts DEF MayFollow, Onward

\* A list of one step.
LEMMA OneStep ==
    ASSUME NEW q \in Lists, q # <<>>, Tail(q) = <<>>
    PROVE  q = <<q[1]>> /\ Len(q) = 1 /\ q[1] \in StepNames \X Nat
<1>1. /\ Len(q) \in Nat /\ Len(Tail(q)) = Len(q) - 1 /\ q[1] \in StepNames \X Nat
  BY TailFacts
<1>2. Len(Tail(q)) = 0
  <2> DEFINE t == Tail(q)
  <2>1. t = <<>>
    OBVIOUS
  <2> HIDE DEF t
  <2>2. Len(t) = 0
    BY <2>1
  <2> QED
    BY <2>2 DEF t
<1> DEFINE n == Len(q)
<1>3. n = 1
  <2>1. n \in Nat /\ n - 1 = 0
    BY <1>1, <1>2
  <2> HIDE DEF n
  <2> QED
    BY <2>1
<1> QED
  BY <1>1, <1>3 DEF Lists

\* A list of two steps of which the second is "put" or "close".
LEMMA TwoSteps ==
    ASSUME NEW s, NEW q, NEW x, Taken(s, q, x), Tail(q) # <<>>,
           Tail(q)[1][1] \in {"put", "close"}, x \notin {"headerUnlock", "newRecord"}
    PROVE  /\ ~area[s].fHeaderLocked
           /\ Tail(q) = <<Tail(q)[1]>> /\ Tail(q)[1] \in StepNames \X Nat
<1> DEFINE t == Tail(q)
<1>1. t \in Lists /\ t # <<>> /\ Good(t) /\ Names(q) = {x} \cup Names(t)
      /\ t[1][1] \in {"put", "close"}
  BY TakenFacts
<1>2. ByteShape(area[s], q)
  BY DEF Taken, Shape
<1> HIDE DEF t
<1>3. Tail(t) # <<>> => MayFollow(t[1][1], Tail(t)[1][1])
  BY <1>1, ChainOfTail DEF Good
<1>4. Tail(t) = <<>>
  BY <1>1, <1>3 DEF MayFollow
<1>5. Names(t) = {t[1][1]}
  BY <1>1, <1>4, NamesOfTail, NamesOfEmpty
<1>6. ~area[s].fHeaderLocked
  BY <1>1, <1>2, <1>5 DEF ByteShape
<1>7. t = <<t[1]>> /\ t[1] \in StepNames \X Nat
  BY <1>1, <1>4, OneStep
<1> QED
  BY <1>6, <1>7 DEF t

\* A step that leaves the locks and the records alone.
LEMMA QuietList ==
    ASSUME NEW s, NEW q, NEW x, Taken(s, q, x), NEW b \in Area, Leaves(s, b),
           UNCHANGED <<recs, osRecs, osFile, osHeader>>,
           header' \in Nat, header' <= Len(recs),
           b.pLocksPos = area[s].pLocksPos, b.fFLocked = area[s].fFLocked,
           b.fHeaderLocked = area[s].fHeaderLocked,
           Shape(b, b.todo, Len(recs))
    PROVE  IInv'
<1>1. IInv /\ s \in Stations /\ recs \in Seq(SUBSET Stations) /\ Len(recs) \in Nat
  BY TakenFacts DEF Taken
<1> QED
  BY <1>1, QuietStep

\* ... and goes on with the next one.
LEMMA QuietTail ==
    ASSUME NEW s, NEW q, NEW x, Taken(s, q, x),
           x \notin {"newRecord", "headerUnlock", "unlockAll", "write"},
           NEW b \in Area, Leaves(s, b), UNCHANGED <<recs, osRecs, osFile, osHeader>>,
           header' \in Nat, header' <= Len(recs),
           b.pLocksPos = area[s].pLocksPos, b.fFLocked = area[s].fFLocked,
           b.fHeaderLocked = area[s].fHeaderLocked,
           b.fRecordChanged => area[s].fRecordChanged,
           x = "count" => b.ulRecCount <= Len(recs),
           b.todo = Tail(q)
    PROVE  IInv'
<1>1. /\ q \in Lists /\ q # <<>> /\ q[1][1] = x
      /\ Shape(area[s], q, Len(recs))
  BY DEF Taken
<1>2. Shape(b, Tail(q), Len(recs))
  BY <1>1, TailShape
<1> QED
  BY <1>2, QuietList

\* The records are counted.
LEMMA CountInv ==
    ASSUME NEW s, NEW q, Taken(s, q, "count"), Count(s, q)
    PROVE  IInv'
<1> DEFINE a == area[s]
           b == [a EXCEPT !.ulRecCount = Len(recs), !.todo = Tail(q)]
<1>1. /\ a \in Area /\ Tail(q) \in Lists /\ Len(recs) \in Nat
      /\ header \in Nat /\ header <= Len(recs)
  BY TakenFacts
<1>2. /\ b \in Area /\ b.todo = Tail(q) /\ b.ulRecCount = Len(recs)
      /\ b.pLocksPos = a.pLocksPos /\ b.fFLocked = a.fFLocked
      /\ b.fHeaderLocked = a.fHeaderLocked /\ b.fRecordChanged = a.fRecordChanged
  BY <1>1 DEF Area, Lists
<1>3. Leaves(s, b) /\ UNCHANGED <<recs, header, osRecs, osFile, osHeader>>
  BY DEF Count
<1> HIDE DEF b
<1> QED
  BY <1>1, <1>2, <1>3, QuietTail

\* The header is written with the count of the work area.
LEMMA HeaderWriteInv ==
    ASSUME NEW s, NEW q, Taken(s, q, "headerWrite"), HeaderWrite(s, q)
    PROVE  IInv'
<1> DEFINE a == area[s]
           t == Tail(q)
           done == [a EXCEPT !.fUpdateHeader = FALSE, !.todo = t]
<1>1. /\ a \in Area /\ t \in Lists /\ Len(recs) \in Nat
      /\ header \in Nat /\ header <= Len(recs)
      /\ t # <<>> /\ MayFollow("headerWrite", t[1][1]) /\ Good(t)
  BY TakenFacts
<1>2. a.ulRecCount \in Nat /\ a.ulRecCount <= Len(recs)
  BY <1>1 DEF Taken, Shape, CountShape, Begins, Area
<1>3. UNCHANGED <<recs, osRecs, osFile, osHeader>>
  BY DEF HeaderWrite
<1>4. /\ done \in Area /\ done.todo = t
      /\ done.pLocksPos = a.pLocksPos /\ done.fFLocked = a.fFLocked
      /\ done.fHeaderLocked = a.fHeaderLocked /\ done.fRecordChanged = a.fRecordChanged
  BY <1>1 DEF Area, Lists
<1>5. CASE header' \in {header, a.ulRecCount} /\ Leaves(s, done)
  <2> HIDE DEF done
  <2>1. header' \in Nat /\ header' <= Len(recs)
    BY <1>1, <1>2, <1>5
  <2> QED
    BY <1>3, <1>4, <1>5, <2>1, QuietTail
<1>6. CASE Leaves(s, [done EXCEPT !.todo = SubSeq(t, 1, 1)]) /\ header' = header
  <2> DEFINE r == SubSeq(t, 1, 1)
             b == [done EXCEPT !.todo = r]
  <2>1. t[1] \in StepNames \X Nat /\ t[1][1] = "headerUnlock"
    BY <1>1, TailFacts DEF MayFollow, Onward
  <2>2. r = <<t[1]>>
    <3>1. Len(t) \in Nat /\ Len(t) > 0
      BY <1>1, TailFacts
    <3>2. r \in Seq(StepNames \X Nat) /\ Len(r) = 1 /\ r[1] = t[1]
      BY <1>1, <3>1 DEF Lists
    <3> HIDE DEF r, t
    <3> QED
      BY <3>2
  <2>3. r \in Lists /\ \A c : Shape(c, r, Len(recs))
    BY <2>1, <2>2, OneShape
  <2> HIDE DEF r
  <2>4. /\ b \in Area /\ b.todo = r
        /\ b.pLocksPos = a.pLocksPos /\ b.fFLocked = a.fFLocked
        /\ b.fHeaderLocked = a.fHeaderLocked
    BY <1>1, <2>3 DEF Area, Lists
  <2>5. Leaves(s, b)
    BY <1>6 DEF r
  <2> HIDE DEF b
  <2> QED
    BY <1>1, <1>3, <1>6, <2>3, <2>4, <2>5, QuietList
<1>7. done.todo = t /\ Arg(q) = Arg(q)
  BY <1>4
<1>8. \/ Leaves(s, [done EXCEPT !.todo = IF Arg(q) = must THEN SubSeq(t, 1, 1) ELSE t])
         /\ header' = header
      \/ header' = a.ulRecCount /\ Leaves(s, done)
  <2>1. [done EXCEPT !.todo = IF Arg(q) = must THEN SubSeq(@, 1, 1) ELSE @]
        = [done EXCEPT !.todo = IF Arg(q) = must THEN SubSeq(t, 1, 1) ELSE t]
    BY <1>4
  <2> QED
    BY <2>1 DEF HeaderWrite
<1>9. [done EXCEPT !.todo = t] = done
  BY <1>4 DEF Area
<1> QED
  BY <1>5, <1>6, <1>8, <1>9

\* A record is looked for.
LEMMA GoToInv ==
    ASSUME NEW s, NEW q, Taken(s, q, "goTo"), GoToStep(s, q)
    PROVE  IInv'
<1> DEFINE a == area[s]
           r == Arg(q)
           count == IF r > a.ulRecCount THEN Len(recs) ELSE a.ulRecCount
           there == r \in 1 .. count
           b == [a EXCEPT !.ulRecCount = count, !.ulRecNo = IF there THEN r ELSE count + 1,
                          !.fPositioned = there, !.fValidBuffer = ~there,
                          !.pRecord = {}, !.todo = Tail(q)]
<1>1. /\ a \in Area /\ Tail(q) \in Lists /\ Len(recs) \in Nat /\ r \in Nat
      /\ header \in Nat /\ header <= Len(recs)
  BY TakenFacts
<1>2. count \in Nat
  BY <1>1 DEF Area
<1>3. Leaves(s, b) /\ UNCHANGED <<recs, header, osRecs, osFile, osHeader>>
  BY DEF GoToStep
<1> HIDE DEF count
<1>4. there \in BOOLEAN /\ (IF there THEN r ELSE count + 1) \in Nat
  BY <1>1, <1>2
<1> HIDE DEF there, r
<1>5. /\ b \in Area /\ b.todo = Tail(q)
      /\ b.pLocksPos = a.pLocksPos /\ b.fFLocked = a.fFLocked
      /\ b.fHeaderLocked = a.fHeaderLocked /\ b.fRecordChanged = a.fRecordChanged
  BY <1>1, <1>2, <1>4 DEF Area, Lists
<1> HIDE DEF b
<1> QED
  BY <1>1, <1>3, <1>5, QuietTail

\* The last record is looked for.
LEMMA GoBottomInv ==
    ASSUME NEW s, NEW q, Taken(s, q, "goBottom"), GoBottomStep(s, q)
    PROVE  IInv'
<1> DEFINE a == area[s]
           x == <<"goTo", Len(recs)>>
           b == [a EXCEPT !.ulRecCount = Len(recs), !.todo = <<x>>]
<1>1. /\ a \in Area /\ Len(recs) \in Nat
      /\ header \in Nat /\ header <= Len(recs)
  BY TakenFacts
<1>2. ~a.fHeaderLocked
  BY NothingFollows, LastStep
<1>3. x \in StepNames \X Nat /\ x[1] = "goTo"
  BY <1>1 DEF StepNames
<1>4. Leaves(s, b) /\ UNCHANGED <<recs, header, osRecs, osFile, osHeader>>
  BY DEF GoBottomStep
<1> HIDE DEF x
<1>5. <<x>> \in Lists
  BY <1>3, NamesOfOne
<1>6. /\ b \in Area /\ b.todo = <<x>> /\ b.ulRecCount = Len(recs)
      /\ b.pLocksPos = a.pLocksPos /\ b.fFLocked = a.fFLocked
      /\ b.fHeaderLocked = a.fHeaderLocked
  BY <1>1, <1>5 DEF Area, Lists
<1> HIDE DEF b
<1>7. Shape(b, <<x>>, Len(recs))
  BY <1>2, <1>3, <1>6, OneShape
<1> QED
  BY <1>1, <1>4, <1>6, <1>7, QuietList

\* A record is read.
LEMMA ReadInv ==
    ASSUME NEW s, NEW q, Taken(s, q, "read"), ReadRecord(s, q)
    PROVE  IInv'
<1> DEFINE a == area[s]
           behind == a.fPositioned /\ a.ulRecNo > a.ulRecCount
           count == IF behind THEN Len(recs) ELSE a.ulRecCount
           read == [a EXCEPT !.ulRecCount = count, !.fValidBuffer = TRUE, !.todo = Tail(q)]
           last == [a EXCEPT !.ulRecCount = count, !.todo = <<>>]
<1>1. /\ a \in Area /\ Tail(q) \in Lists /\ Len(recs) \in Nat
      /\ header \in Nat /\ header <= Len(recs) /\ recs \in Seq(SUBSET Stations)
  BY TakenFacts
<1>2. ~a.fHeaderLocked
  <2>1. CASE Tail(q) = <<>>
    BY <2>1, LastStep
  <2>2. CASE Tail(q) # <<>>
    <3>1. Tail(q)[1][1] = "put"
      BY <2>2, NothingFollows
    <3> QED
      BY <2>2, <3>1, TwoSteps
  <2> QED
    BY <2>1, <2>2
<1>3. UNCHANGED <<recs, header, osRecs, osFile, osHeader>>
  BY DEF ReadRecord
<1>4. count \in Nat
  BY <1>1 DEF Area
<1>5. \/ Leaves(s, read)
      \/ a.ulRecNo \in DOMAIN recs /\ Leaves(s, [read EXCEPT !.pRecord = recs[a.ulRecNo]])
      \/ Leaves(s, last)
  BY DEF ReadRecord
<1> HIDE DEF count
<1>6. ASSUME NEW R \in SUBSET Stations, Leaves(s, [read EXCEPT !.pRecord = R])
      PROVE  IInv'
  <2> DEFINE b == [read EXCEPT !.pRecord = R]
  <2>1. /\ b \in Area /\ b.todo = Tail(q)
        /\ b.pLocksPos = a.pLocksPos /\ b.fFLocked = a.fFLocked
        /\ b.fHeaderLocked = a.fHeaderLocked /\ b.fRecordChanged = a.fRecordChanged
    BY <1>1, <1>4 DEF Area, Lists
  <2>2. Leaves(s, b)
    BY <1>6
  <2> HIDE DEF b
  <2> QED
    BY <1>1, <1>3, <2>1, <2>2, QuietTail
<1>7. CASE Leaves(s, read)
  <2>1. read = [read EXCEPT !.pRecord = a.pRecord] /\ a.pRecord \in SUBSET Stations
    BY <1>1 DEF Area
  <2> HIDE DEF read
  <2> QED
    BY <1>6, <1>7, <2>1
<1>8. CASE a.ulRecNo \in DOMAIN recs /\ Leaves(s, [read EXCEPT !.pRecord = recs[a.ulRecNo]])
  <2>1. recs[a.ulRecNo] \in SUBSET Stations
    BY <1>1, <1>8
  <2> QED
    BY <1>6, <1>8, <2>1
<1>9. CASE Leaves(s, last)
  <2>1. <<>> \in Lists
    BY <1>1, ConcatNone
  <2>2. /\ last \in Area /\ last.todo = <<>>
        /\ last.pLocksPos = a.pLocksPos /\ last.fFLocked = a.fFLocked
        /\ last.fHeaderLocked = a.fHeaderLocked
    BY <1>1, <1>4, <2>1 DEF Area, Lists
  <2> HIDE DEF last
  <2> QED
    BY <1>1, <1>2, <1>3, <1>9, <2>2, EmptyShape, QuietList
<1> QED
  BY <1>5, <1>7, <1>8, <1>9

\* A value is put into the buffer.
LEMMA PutInv ==
    ASSUME NEW s, NEW q, Taken(s, q, "put"), Put(s, q)
    PROVE  IInv'
<1> DEFINE a == area[s]
           hot == a.fPositioned /\ (a.fRecordChanged \/ MayGoHot(a))
           R == IF hot THEN a.pRecord \cup {s} ELSE a.pRecord
           c == a.fRecordChanged \/ hot
           b == [a EXCEPT !.fRecordChanged = c, !.pRecord = R, !.todo = Tail(q)]
<1>1. /\ a \in Area /\ Tail(q) \in Lists /\ Len(recs) \in Nat
      /\ header \in Nat /\ header <= Len(recs) /\ s \in Stations
  BY TakenFacts DEF Taken
<1>2. Tail(q) = <<>> /\ ~a.fHeaderLocked
  BY NothingFollows, LastStep
<1>3. /\ Leaves(s, b) /\ UNCHANGED <<recs, header, osRecs, osFile, osHeader>>
  BY DEF Put
<1>4. c \in BOOLEAN /\ R \in SUBSET Stations
  BY <1>1 DEF Area, MayGoHot
<1> HIDE DEF c, R
<1>5. /\ b \in Area /\ b.todo = Tail(q)
      /\ b.pLocksPos = a.pLocksPos /\ b.fFLocked = a.fFLocked
      /\ b.fHeaderLocked = a.fHeaderLocked
  BY <1>1, <1>4 DEF Area, Lists
<1> HIDE DEF b
<1> QED
  BY <1>1, <1>2, <1>3, <1>5, EmptyShape, QuietList

\* A change is taken back.
LEMMA RollbackInv ==
    ASSUME NEW s, NEW q, Taken(s, q, "rollback"), Rollback(s, q)
    PROVE  IInv'
<1> DEFINE a == area[s]
           b == [a EXCEPT !.pRecord = {}, !.todo = Tail(q)]
           c == [a EXCEPT !.fRecordChanged = FALSE, !.fValidBuffer = FALSE,
                          !.pRecord = {}, !.todo = Tail(q)]
<1>1. /\ a \in Area /\ Tail(q) \in Lists /\ Len(recs) \in Nat
      /\ header \in Nat /\ header <= Len(recs)
  BY TakenFacts
<1>2. /\ Leaves(s, b) \/ Leaves(s, c)
      /\ UNCHANGED <<recs, header, osRecs, osFile, osHeader>>
  BY DEF Rollback
<1>3. /\ b \in Area /\ b.todo = Tail(q)
      /\ b.pLocksPos = a.pLocksPos /\ b.fFLocked = a.fFLocked
      /\ b.fHeaderLocked = a.fHeaderLocked /\ b.fRecordChanged = a.fRecordChanged
  BY <1>1 DEF Area, Lists
<1>4. /\ c \in Area /\ c.todo = Tail(q)
      /\ c.pLocksPos = a.pLocksPos /\ c.fFLocked = a.fFLocked
      /\ c.fHeaderLocked = a.fHeaderLocked /\ ~c.fRecordChanged
  BY <1>1 DEF Area, Lists
<1> HIDE DEF b, c
<1>5. CASE Leaves(s, b)
  BY <1>1, <1>2, <1>3, <1>5, QuietTail
<1>6. CASE Leaves(s, c)
  BY <1>1, <1>2, <1>4, <1>6, QuietTail
<1> QED
  BY <1>2, <1>5, <1>6

-----------------------------------------------------------------------------
(* The inductive invariant: the steps that change the locks.               *)

\* The byte of the header is locked.
LEMMA HeaderLockInv ==
    ASSUME NEW s, NEW q, Taken(s, q, "headerLock"), HeaderLock(s, q)
    PROVE  IInv'
<1> DEFINE a == area[s]
           t == Tail(q)
           b == [a EXCEPT !.fHeaderLocked = TRUE, !.todo = t]
<1>1. /\ a \in Area /\ t \in Lists /\ Len(recs) \in Nat
      /\ t # <<>> /\ MayFollow("headerLock", t[1][1]) /\ Good(t)
      /\ Names(q) = {"headerLock"} \cup Names(t)
  BY TakenFacts
<1>2. /\ IInv /\ s \in Stations /\ q \in Lists /\ q # <<>> /\ q[1][1] = "headerLock"
      /\ Shape(a, q, Len(recs))
  BY DEF Taken
<1>3. /\ osRecs[s] = a.pLocksPos /\ (osFile = s <=> a.fFLocked)
      /\ (osHeader = s <=> a.fHeaderLocked) /\ (a.fFLocked => osRecs[s] = {})
      /\ osRecs \in [Stations -> SUBSET Nat] /\ osFile \in Stations \cup {NoStation}
      /\ NoStation \notin Stations
  BY TakenLocks
<1>4. /\ osHeader = NoStation /\ osHeader' = s /\ Leaves(s, b)
      /\ UNCHANGED <<recs, header, osRecs, osFile>>
  BY DEF HeaderLock
<1>5. /\ b \in Area /\ b.todo = t
      /\ b.pLocksPos = a.pLocksPos /\ b.fFLocked = a.fFLocked
      /\ b.fHeaderLocked /\ b.fRecordChanged = a.fRecordChanged
      /\ b.ulRecCount = a.ulRecCount
  BY <1>1 DEF Area, Lists
<1>6. Shape(a, t, Len(recs))
  <2> HIDE DEF a
  <2> QED
    BY <1>2, TailShape
<1>7. {"headerUnlock", "newRecord"} \cap Names(t) # {}
  <2>1. CASE t[1][1] = "newRecord"
    BY <1>1, <2>1, NamesOfTail
  <2>2. CASE t[1][1] = "count"
    <3>1. /\ Len(q) \in Nat /\ Len(q) > 1 /\ t[1] = q[2]
      BY <1>1, <1>2, TailFacts
    <3>2. Chain(q) /\ q[2][1] = "count" /\ 2 \in 1..Len(q)
      BY <1>2, <2>2, <3>1 DEF Shape
    <3>3. Len(q) # 2
      BY <3>2 DEF Chain
    <3>4. 3 \in 1..Len(q)
      BY <3>1, <3>3
    <3>5. q[3][1] = "headerWrite"
      BY <3>2, <3>4 DEF Chain, MayFollow
    <3>6. Len(q) # 3
      BY <3>4, <3>5, <3>2 DEF Chain
    <3>7. 4 \in 1..Len(q)
      <4> DEFINE n == Len(q)
      <4>1. n \in Nat /\ 3 \in 1..n /\ n # 3
        BY <3>1, <3>4, <3>6
      <4> HIDE DEF n
      <4>2. 4 \in 1..n
        BY <4>1
      <4> QED
        BY <4>2 DEF n
    <3>8. q[4][1] = "headerUnlock"
      BY <3>2, <3>4, <3>5, <3>7 DEF Chain, MayFollow
    <3>9. "headerUnlock" \in Names(q)
      BY <3>7, <3>8 DEF Names
    <3> QED
      BY <1>1, <3>9
  <2> QED
    BY <1>1, <2>1, <2>2 DEF MayFollow
<1>8. Shape(b, t, Len(recs))
  <2> HIDE DEF a, b, t
  <2>1. LockShape(b, t) /\ ColdShape(b, t) /\ CountShape(b, t, Len(recs)) /\ Chain(t)
    BY <1>5, <1>6 DEF Shape, LockShape, ColdShape, CountShape
  <2>2. ByteShape(b, t)
    BY <1>1, <1>7 DEF ByteShape, Begins, MayFollow
  <2> QED
    BY <2>1, <2>2 DEF Shape
<1>9. LocksApart'
  BY <1>2, <1>4 DEF IInv, LocksApart
<1>a. /\ osRecs'[s] = b.pLocksPos /\ (osFile' = s <=> b.fFLocked)
      /\ (osHeader' = s <=> b.fHeaderLocked) /\ (b.fFLocked => b.pLocksPos = {})
      /\ osFile' \in Stations \cup {NoStation} /\ osHeader' \in Stations \cup {NoStation}
      /\ osRecs' \in [Stations -> SUBSET Nat] /\ b \in Area
  <2> HIDE DEF b, a
  <2> QED
    BY <1>2, <1>3, <1>4, <1>5
<1>b. OthersKeep(s)
  BY <1>3, <1>4, <1>8 DEF OthersKeep
<1>c. Leaves(s, b) /\ UNCHANGED <<recs, header>> /\ Shape(b, b.todo, Len(recs))
  BY <1>4, <1>5, <1>8
<1> HIDE DEF b
<1> QED
  BY <1>2, <1>a, <1>b, <1>c, <1>9, OwnStep

\* ... and given back.
LEMMA HeaderUnlockInv ==
    ASSUME NEW s, NEW q, Taken(s, q, "headerUnlock"), HeaderUnlock(s, q)
    PROVE  IInv'
<1> DEFINE a == area[s]
           t == Tail(q)
           b == [a EXCEPT !.fHeaderLocked = FALSE, !.todo = t]
<1>1. /\ a \in Area /\ t \in Lists /\ Len(recs) \in Nat
  BY TakenFacts
<1>2. /\ IInv /\ s \in Stations /\ q \in Lists /\ q # <<>> /\ q[1][1] = "headerUnlock"
      /\ Shape(a, q, Len(recs))
  BY DEF Taken
<1>3. /\ osRecs[s] = a.pLocksPos /\ (osFile = s <=> a.fFLocked)
      /\ (osHeader = s <=> a.fHeaderLocked) /\ (a.fFLocked => osRecs[s] = {})
      /\ osRecs \in [Stations -> SUBSET Nat] /\ osFile \in Stations \cup {NoStation}
      /\ osHeader \in Stations \cup {NoStation}
      /\ NoStation \notin Stations
  BY TakenLocks
<1>4. /\ osHeader' = IF a.fHeaderLocked THEN NoStation ELSE osHeader
      /\ Leaves(s, b)
      /\ UNCHANGED <<recs, header, osRecs, osFile>>
  BY DEF HeaderUnlock
<1>5. /\ b \in Area /\ b.todo = t
      /\ b.pLocksPos = a.pLocksPos /\ b.fFLocked = a.fFLocked
      /\ ~b.fHeaderLocked /\ b.fRecordChanged = a.fRecordChanged
  BY <1>1 DEF Area, Lists
<1> HIDE DEF b
<1>6. Shape(b, t, Len(recs))
  BY <1>2, <1>5, TailShape
<1>7. LocksApart'
  BY <1>2, <1>4 DEF IInv, LocksApart
<1>8. /\ osHeader' \in Stations \cup {NoStation} /\ osHeader' # s
      /\ \A u \in Stations \ {s} : osHeader' = u <=> osHeader = u
  <2>1. CASE a.fHeaderLocked
    BY <1>2, <1>3, <1>4, <2>1
  <2>2. CASE ~a.fHeaderLocked
    BY <1>2, <1>3, <1>4, <2>2
  <2> QED
    BY <2>1, <2>2
<1>9. /\ osRecs'[s] = b.pLocksPos /\ (osFile' = s <=> b.fFLocked)
      /\ (osHeader' = s <=> b.fHeaderLocked) /\ (b.fFLocked => b.pLocksPos = {})
      /\ osFile' \in Stations \cup {NoStation}
      /\ osRecs' \in [Stations -> SUBSET Nat]
  <2> HIDE DEF a
  <2> QED
    BY <1>2, <1>3, <1>4, <1>5, <1>8
<1>10. OthersKeep(s)
  BY <1>3, <1>4, <1>8 DEF OthersKeep
<1>11. Leaves(s, b) /\ UNCHANGED <<recs, header>> /\ Shape(b, b.todo, Len(recs))
  BY <1>4, <1>5, <1>6
<1> QED
  BY <1>2, <1>5, <1>7, <1>8, <1>9, <1>10, <1>11, OwnStep

\* Record locks are given up.
LEMMA GivesUp ==
    ASSUME NEW s, NEW q, NEW x, Taken(s, q, x), NEW b \in Area, Leaves(s, b), NEW r,
           osRecs' = [osRecs EXCEPT ![s] = @ \ {r}],
           UNCHANGED <<recs, header, osFile, osHeader>>,
           b.pLocksPos = area[s].pLocksPos \ {r}, b.fFLocked = area[s].fFLocked,
           b.fHeaderLocked = area[s].fHeaderLocked, Shape(b, b.todo, Len(recs))
    PROVE  IInv'
<1> DEFINE a == area[s]
<1>1. IInv /\ s \in Stations
  BY DEF Taken
<1>2. /\ osRecs[s] = a.pLocksPos /\ (osFile = s <=> a.fFLocked)
      /\ (osHeader = s <=> a.fHeaderLocked) /\ (a.fFLocked => osRecs[s] = {})
      /\ osRecs \in [Stations -> SUBSET Nat] /\ osFile \in Stations \cup {NoStation}
      /\ osHeader \in Stations \cup {NoStation}
  BY TakenLocks
<1>3. /\ osRecs' \in [Stations -> SUBSET Nat] /\ osRecs'[s] = osRecs[s] \ {r}
      /\ \A t \in Stations \ {s} : osRecs'[t] = osRecs[t]
  BY <1>1, <1>2
<1>4. LocksApart'
  <2>1. LocksApart
    BY <1>1 DEF IInv
  <2>2. \A t \in Stations : osRecs'[t] \subseteq osRecs[t]
    BY <1>1, <1>3
  <2> QED
    BY <2>1, <2>2 DEF LocksApart
<1>5. OthersKeep(s)
  BY <1>3 DEF OthersKeep
<1>6. /\ osRecs'[s] = b.pLocksPos /\ (osFile' = s <=> b.fFLocked)
      /\ (osHeader' = s <=> b.fHeaderLocked) /\ (b.fFLocked => b.pLocksPos = {})
  BY <1>2, <1>3
<1> QED
  BY <1>1, <1>2, <1>3, <1>4, <1>5, <1>6, OwnStep

\* One of all locks is given up.
LEMMA UnlockAllInv ==
    ASSUME NEW s, NEW q, Taken(s, q, "unlockAll"), UnlockAllStep(s, q)
    PROVE  IInv'
<1> DEFINE a == area[s]
           t == Tail(q)
<1>1. /\ a \in Area /\ t \in Lists /\ Len(recs) \in Nat
  BY TakenFacts
<1>2. /\ s \in Stations /\ q \in Lists /\ q # <<>> /\ q[1][1] = "unlockAll"
      /\ Shape(a, q, Len(recs))
  BY DEF Taken
<1>3. PICK r \in a.pLocksPos :
          /\ osRecs' = [osRecs EXCEPT ![s] = @ \ {r}]
          /\ Leaves(s, [a EXCEPT !.pLocksPos = @ \ {r},
                                 !.todo = IF a.pLocksPos = {r} THEN t ELSE q])
  BY DEF UnlockAllStep
<1>4. UNCHANGED <<recs, header, osFile, osHeader>>
  BY DEF UnlockAllStep
<1> DEFINE p == IF a.pLocksPos = {r} THEN t ELSE q
           b == [a EXCEPT !.pLocksPos = @ \ {r}, !.todo = p]
<1>5. p \in Lists
  BY <1>1, <1>2
<1>6. Leaves(s, b)
  BY <1>3
<1> HIDE DEF p
<1>7. /\ b \in Area /\ b.todo = p
      /\ b.pLocksPos = a.pLocksPos \ {r} /\ b.fFLocked = a.fFLocked
      /\ b.fHeaderLocked = a.fHeaderLocked /\ b.fRecordChanged = a.fRecordChanged
      /\ b.ulRecCount = a.ulRecCount
  BY <1>1, <1>5 DEF Area, Lists
<1> HIDE DEF b
<1>8. Shape(b, p, Len(recs))
  <2>1. CASE a.pLocksPos = {r}
    <3>1. p = t /\ b.pLocksPos = {}
      BY <1>7, <2>1 DEF p
    <3>2. Shape(b, t, Len(recs))
      BY <1>2, <1>7, <3>1, TailShape
    <3> QED
      BY <3>1, <3>2
  <2>2. CASE a.pLocksPos # {r}
    <3>1. p = q
      BY <2>2 DEF p
    <3>2. Shape(b, q, Len(recs))
      BY <1>2, <1>7
      DEF Shape, LockShape, ByteShape, ColdShape, CountShape, Begins
    <3> QED
      BY <3>1, <3>2
  <2> QED
    BY <2>1, <2>2
<1> QED
  BY <1>3, <1>4, <1>6, <1>7, <1>8, GivesUp

\* One lock is given up.
LEMMA UnlockInv ==
    ASSUME NEW s, NEW q, Taken(s, q, "unlock"), UnlockStep(s, q)
    PROVE  IInv'
<1> DEFINE a == area[s]
           t == Tail(q)
           r == Arg(q)
           b == [a EXCEPT !.pLocksPos = @ \ {r}, !.todo = t]
<1>1. /\ a \in Area /\ t \in Lists /\ Len(recs) \in Nat
  BY TakenFacts
<1>2. /\ s \in Stations /\ q \in Lists /\ q # <<>> /\ q[1][1] = "unlock"
      /\ Shape(a, q, Len(recs))
  BY DEF Taken
<1>3. /\ osRecs' = [osRecs EXCEPT ![s] = @ \ {r}] /\ Leaves(s, b)
      /\ UNCHANGED <<recs, header, osFile, osHeader>>
  BY DEF UnlockStep
<1> HIDE DEF r
<1>4. /\ b \in Area /\ b.todo = t
      /\ b.pLocksPos = a.pLocksPos \ {r} /\ b.fFLocked = a.fFLocked
      /\ b.fHeaderLocked = a.fHeaderLocked /\ b.fRecordChanged = a.fRecordChanged
  BY <1>1 DEF Area, Lists
<1> HIDE DEF b
<1>5. Shape(b, t, Len(recs))
  BY <1>2, <1>4, TailShape
<1> QED
  BY <1>3, <1>4, <1>5, GivesUp

\* What comes behind a lock on the current record.
LEMMA AfterLockFacts ==
    ASSUME NEW a \in Area, NEW t \in Lists, NEW n,
           Shape(a, t, n), t # <<>> => t[1][1] = "blank", t = <<>> => ~a.fHeaderLocked
    PROVE  LET b == AfterLock(a, t)
           IN  /\ b \in Area /\ Shape(b, b.todo, n)
               /\ b.pLocksPos = a.pLocksPos /\ b.fFLocked = a.fFLocked
               /\ b.fHeaderLocked = a.fHeaderLocked
<1> DEFINE x == <<"goTo", a.ulRecNo>>
           g == <<x>> \o t
<1>1. x \in StepNames \X Nat /\ x[1] = "goTo"
  BY DEF StepNames, Area
<1>2. g \in Lists /\ \A c : c.fFLocked = a.fFLocked /\ c.fHeaderLocked = a.fHeaderLocked
                            /\ c.fRecordChanged = a.fRecordChanged
                            => Shape(c, g, n)
  <2>1. CASE t = <<>>
    <3> HIDE DEF x
    <3>1. <<x>> \in Lists
      BY <1>1, NamesOfOne
    <3>2. g = <<x>>
      BY <2>1, <3>1, ConcatNone
    <3> HIDE DEF g
    <3>3. ~a.fHeaderLocked
      BY <2>1
    <3> QED
      BY <1>1, <3>1, <3>2, <3>3, OneShape
  <2>2. CASE t # <<>>
    <3> HIDE DEF x
    <3>1. Chain(t) /\ t[1][1] = "blank"
      BY <2>2 DEF Shape
    <3>2. MayFollow(x[1], t[1][1])
      BY <1>1, <3>1 DEF MayFollow
    <3>3. /\ g \in Lists /\ g # <<>> /\ g[1] = x /\ Chain(g)
          /\ Names(g) = {"goTo"} \cup Names(t)
      BY <1>1, <2>2, <3>1, <3>2, ConsFacts
    <3> HIDE DEF g
    <3>4. "newRecord" \in Names(t) => ~a.fRecordChanged
      <4>1. ASSUME t[1] = <<"write", must>>
            PROVE  FALSE
        BY <3>1, <4>1
      <4> QED
        BY <4>1 DEF Shape, ColdShape
    <3>5. ASSUME NEW c, c.fFLocked = a.fFLocked, c.fHeaderLocked = a.fHeaderLocked,
                 c.fRecordChanged = a.fRecordChanged
          PROVE  Shape(c, g, n)
      <4>1. LockShape(c, g)
        BY <1>1, <3>3, <3>5 DEF Shape, LockShape, Begins
      <4>2. ByteShape(c, g)
        BY <1>1, <3>3, <3>5 DEF Shape, ByteShape, Begins
      <4>3. ColdShape(c, g)
        BY <3>3, <3>4, <3>5 DEF ColdShape
      <4>4. CountShape(c, g, n)
        BY <1>1, <3>3 DEF CountShape, Begins
      <4> QED
        BY <3>3, <4>1, <4>2, <4>3, <4>4 DEF Shape
    <3> QED
      BY <3>3, <3>5
  <2> QED
    BY <2>1, <2>2
<1> HIDE DEF x
<1>3. CASE ~a.fPositioned
  <2> DEFINE b == [a EXCEPT !.todo = g]
  <2>1. AfterLock(a, t) = b
    BY <1>3 DEF AfterLock, x
  <2> HIDE DEF g
  <2>2. /\ b \in Area /\ b.todo = g /\ b.fRecordChanged = a.fRecordChanged
        /\ b.pLocksPos = a.pLocksPos /\ b.fFLocked = a.fFLocked
        /\ b.fHeaderLocked = a.fHeaderLocked
    BY <1>2 DEF Area, Lists
  <2> HIDE DEF b
  <2> QED
    BY <1>2, <2>1, <2>2
<1>4. CASE a.fPositioned
  <2> DEFINE b == IF a.fRecordChanged THEN [a EXCEPT !.todo = t]
                  ELSE [a EXCEPT !.fValidBuffer = FALSE, !.pRecord = {}, !.todo = t]
  <2>1. AfterLock(a, t) = b
    BY <1>4 DEF AfterLock
  <2>2. /\ b \in Area /\ b.todo = t /\ b.fRecordChanged = a.fRecordChanged
        /\ b.pLocksPos = a.pLocksPos /\ b.fFLocked = a.fFLocked
        /\ b.fHeaderLocked = a.fHeaderLocked /\ b.ulRecCount = a.ulRecCount
    <3>1. CASE a.fRecordChanged
      BY <3>1 DEF Area, Lists
    <3>2. CASE ~a.fRecordChanged
      BY <3>2 DEF Area, Lists
    <3> QED
      BY <3>1, <3>2
  <2> HIDE DEF b
  <2>3. Shape(b, t, n)
    BY <2>2, ShapeOfFields
  <2> QED
    BY <2>1, <2>2, <2>3
<1> QED
  BY <1>3, <1>4 DEF Area

\* A record is locked, or the lock is refused.
LEMMA LockInv ==
    ASSUME NEW s, NEW q, Taken(s, q, "lock"), LockStep(s, q)
    PROVE  IInv'
<1> DEFINE a == area[s]
           t == Tail(q)
           r == Arg(q)
<1>1. /\ a \in Area /\ t \in Lists /\ Len(recs) \in Nat /\ r \in Nat
      /\ header \in Nat /\ header <= Len(recs)
      /\ Names(q) = {"lock"} \cup Names(t)
      /\ t # <<>> => MayFollow("lock", t[1][1])
  BY TakenFacts
<1>2. /\ IInv /\ s \in Stations /\ q \in Lists /\ q # <<>> /\ q[1][1] = "lock"
      /\ Shape(a, q, Len(recs))
  BY DEF Taken
<1>3. /\ osRecs[s] = a.pLocksPos /\ (osFile = s <=> a.fFLocked)
      /\ (osHeader = s <=> a.fHeaderLocked) /\ (a.fFLocked => osRecs[s] = {})
      /\ osRecs \in [Stations -> SUBSET Nat] /\ osFile \in Stations \cup {NoStation}
      /\ osHeader \in Stations \cup {NoStation}
      /\ NoStation \notin Stations
  BY TakenLocks
<1>4. ~a.fFLocked
  BY <1>1, <1>2 DEF Shape, LockShape
<1>5. t = <<>> => ~a.fHeaderLocked
  BY LastStep
<1>6. UNCHANGED <<recs, header, osFile, osHeader>>
  BY DEF LockStep
<1>7. t # <<>> => t[1][1] = "blank"
  BY <1>1 DEF MayFollow, Onward
<1> DEFINE locked == [a EXCEPT !.pLocksPos = @ \cup {r}]
           b == IF r = locked.ulRecNo THEN AfterLock(locked, t)
                ELSE [locked EXCEPT !.todo = t]
           e == IF t = <<>> THEN <<>> ELSE <<<<"headerUnlock", 0>>>>
           c == [a EXCEPT !.todo = e]
<1>8. \/ /\ RecFree(s, r) /\ osRecs' = [osRecs EXCEPT ![s] = @ \cup {r}]
         /\ Leaves(s, b)
      \/ osRecs' = osRecs /\ Leaves(s, c)
  BY DEF LockStep
<1>9. /\ b \in Area /\ Shape(b, b.todo, Len(recs))
      /\ b.pLocksPos = a.pLocksPos \cup {r} /\ b.fFLocked = a.fFLocked
      /\ b.fHeaderLocked = a.fHeaderLocked
  <2>1. /\ locked \in Area /\ locked.pLocksPos = a.pLocksPos \cup {r}
        /\ locked.fFLocked = a.fFLocked /\ locked.fHeaderLocked = a.fHeaderLocked
        /\ locked.fRecordChanged = a.fRecordChanged
    BY <1>1 DEF Area
  <2>2. Shape(locked, t, Len(recs))
    <3> HIDE DEF locked
    <3> QED
      BY <1>2, <2>1, TailShape
  <2>3. CASE r = locked.ulRecNo
    <3>1. b = AfterLock(locked, t)
      BY <2>3
    <3> HIDE DEF locked, b
    <3> QED
      BY <1>1, <1>5, <1>7, <2>1, <2>2, <3>1, AfterLockFacts
  <2>4. CASE r # locked.ulRecNo
    <3> DEFINE d == [locked EXCEPT !.todo = t]
    <3>1. b = d
      BY <2>4
    <3>2. /\ d \in Area /\ d.todo = t /\ d.fRecordChanged = locked.fRecordChanged
          /\ d.pLocksPos = locked.pLocksPos /\ d.fFLocked = locked.fFLocked
          /\ d.fHeaderLocked = locked.fHeaderLocked /\ d.ulRecCount = locked.ulRecCount
      <4> HIDE DEF locked
      <4> QED
        BY <1>1, <2>1 DEF Area, Lists
    <3> HIDE DEF d, locked, b
    <3>3. Shape(d, t, Len(recs))
      BY <2>2, <3>2, ShapeOfFields
    <3> QED
      BY <2>1, <3>1, <3>2, <3>3
  <2> QED
    BY <2>3, <2>4
<1> HIDE DEF b, locked
<1>10. CASE /\ RecFree(s, r) /\ osRecs' = [osRecs EXCEPT ![s] = @ \cup {r}]
            /\ Leaves(s, b)
  <2>1. osFile = NoStation /\ \A u \in Stations \ {s} : r \notin osRecs[u]
    BY <1>3, <1>4, <1>10 DEF RecFree
  <2>2. /\ osRecs' \in [Stations -> SUBSET Nat] /\ osRecs'[s] = osRecs[s] \cup {r}
        /\ \A u \in Stations \ {s} : osRecs'[u] = osRecs[u]
    BY <1>1, <1>2, <1>3, <1>10
  <2>3. LocksApart'
    <3>1. LocksApart /\ osFile' = NoStation
      BY <1>2, <1>6, <2>1 DEF IInv
    <3> QED
      BY <1>3, <2>1, <2>2, <3>1 DEF LocksApart
  <2>4. OthersKeep(s)
    BY <1>6, <2>2 DEF OthersKeep
  <2>5. /\ osRecs'[s] = b.pLocksPos /\ (osFile' = s <=> b.fFLocked)
        /\ (osHeader' = s <=> b.fHeaderLocked) /\ (b.fFLocked => b.pLocksPos = {})
    BY <1>3, <1>4, <1>6, <1>9, <2>2
  <2>6. UNCHANGED <<recs, header>> /\ osFile' = osFile /\ osHeader' = osHeader
    BY <1>6
  <2> QED
    BY <1>2, <1>3, <1>9, <1>10, <2>2, <2>3, <2>4, <2>5, <2>6, OwnStep
<1>11. CASE osRecs' = osRecs /\ Leaves(s, c)
  <2>1. e \in Lists /\ Shape(c, e, Len(recs))
    <3>1. CASE t = <<>>
      <4>1. e = <<>> /\ e \in Lists
        BY <1>1, <3>1
      <4>2. ~c.fHeaderLocked
        BY <1>1, <1>5, <3>1 DEF Area
      <4> HIDE DEF e, c
      <4> QED
        BY <4>1, <4>2, EmptyShape
    <3>2. CASE t # <<>>
      <4> DEFINE x == <<"headerUnlock", 0>>
      <4>1. e = <<x>> /\ x \in StepNames \X Nat /\ x[1] = "headerUnlock"
        BY <3>2 DEF StepNames
      <4> HIDE DEF e, c, x
      <4> QED
        BY <4>1, OneShape
    <3> QED
      BY <3>1, <3>2
  <2> HIDE DEF e
  <2>2. /\ c \in Area /\ c.todo = e
        /\ c.pLocksPos = a.pLocksPos /\ c.fFLocked = a.fFLocked
        /\ c.fHeaderLocked = a.fHeaderLocked
    BY <1>1, <2>1 DEF Area, Lists
  <2> HIDE DEF c
  <2> QED
    BY <1>1, <1>6, <1>11, <2>1, <2>2, QuietList
<1> HIDE DEF c
<1> QED
  BY <1>8, <1>10, <1>11

\* The file is locked, or the lock is refused.
LEMMA FileLockInv ==
    ASSUME NEW s, NEW q, Taken(s, q, "fileLock"), FileLock(s, q)
    PROVE  IInv'
<1> DEFINE a == area[s]
           t == Tail(q)
           f == FileFree(s)
           c == [a EXCEPT !.fFLocked = f]
           b == AfterLock(c, t)
<1>1. /\ a \in Area /\ t \in Lists /\ Len(recs) \in Nat
      /\ Names(q) = {"fileLock"} \cup Names(t)
  BY TakenFacts
<1>2. /\ IInv /\ s \in Stations /\ q \in Lists /\ q # <<>> /\ q[1][1] = "fileLock"
      /\ Shape(a, q, Len(recs))
  BY DEF Taken
<1>3. /\ osRecs[s] = a.pLocksPos /\ (osFile = s <=> a.fFLocked)
      /\ (osHeader = s <=> a.fHeaderLocked)
      /\ osRecs \in [Stations -> SUBSET Nat] /\ osFile \in Stations \cup {NoStation}
      /\ osHeader \in Stations \cup {NoStation}
      /\ NoStation \notin Stations
  BY TakenLocks
<1>4. ~a.fFLocked /\ a.pLocksPos = {}
  BY <1>1, <1>2 DEF Shape, LockShape, Begins
<1>5. t = <<>> /\ ~a.fHeaderLocked
  BY NothingFollows, LastStep
<1>6. /\ osFile' = (IF f THEN s ELSE osFile) /\ Leaves(s, b)
      /\ UNCHANGED <<recs, header, osRecs, osHeader>>
  BY DEF FileLock
<1>7. /\ f \in BOOLEAN
      /\ f => osFile = NoStation /\ \A u \in Stations \ {s} : osRecs[u] = {}
  BY <1>3, <1>4 DEF FileFree
<1> HIDE DEF f
<1>8. /\ c \in Area /\ c.fFLocked = f /\ c.pLocksPos = {} /\ ~c.fHeaderLocked
  BY <1>1, <1>4, <1>5, <1>7 DEF Area
<1>9. Shape(c, t, Len(recs))
  <2> HIDE DEF c, t
  <2> QED
    BY <1>5, <1>8, EmptyShape
<1>10. /\ b \in Area /\ Shape(b, b.todo, Len(recs))
       /\ b.pLocksPos = {} /\ b.fFLocked = f
       /\ b.fHeaderLocked = c.fHeaderLocked
  <2> HIDE DEF c, t
  <2> QED
    BY <1>1, <1>5, <1>8, <1>9, AfterLockFacts
<1> HIDE DEF b, c
<1>11. /\ osFile' \in Stations \cup {NoStation} /\ (osFile' = s <=> f)
       /\ \A u \in Stations \ {s} : osFile' = u <=> osFile = u
  <2>1. CASE f
    BY <1>2, <1>3, <1>6, <1>7, <2>1
  <2>2. CASE ~f
    BY <1>3, <1>4, <1>6, <2>2
  <2> QED
    BY <2>1, <2>2
<1>12. LocksApart'
  <2>1. LocksApart /\ UNCHANGED osRecs
    BY <1>2, <1>6 DEF IInv
  <2>2. CASE f
    BY <1>6, <1>7, <2>1, <2>2 DEF LocksApart
  <2>3. CASE ~f
    BY <1>6, <2>1, <2>3 DEF LocksApart
  <2> QED
    BY <2>2, <2>3
<1>13. OthersKeep(s)
  BY <1>6, <1>11 DEF OthersKeep
<1>14. /\ osRecs'[s] = b.pLocksPos /\ (osFile' = s <=> b.fFLocked)
       /\ (osHeader' = s <=> b.fHeaderLocked) /\ (b.fFLocked => b.pLocksPos = {})
  BY <1>3, <1>4, <1>5, <1>6, <1>8, <1>10, <1>11
<1>15. UNCHANGED <<recs, header>> /\ osRecs' = osRecs /\ osHeader' = osHeader
  BY <1>6
<1> QED
  BY <1>2, <1>3, <1>6, <1>10, <1>11, <1>12, <1>13, <1>14, <1>15, OwnStep

\* ... and given up.
LEMMA FileUnlockInv ==
    ASSUME NEW s, NEW q, Taken(s, q, "fileUnlock"), FileUnlock(s, q)
    PROVE  IInv'
<1> DEFINE a == area[s]
           t == Tail(q)
           b == [a EXCEPT !.fFLocked = FALSE, !.todo = t]
<1>1. /\ a \in Area /\ t \in Lists /\ Len(recs) \in Nat
      /\ Names(q) = {"fileUnlock"} \cup Names(t)
      /\ t # <<>> => MayFollow("fileUnlock", t[1][1])
  BY TakenFacts
<1>2. /\ IInv /\ s \in Stations /\ Shape(a, q, Len(recs))
  BY DEF Taken
<1>3. /\ osRecs[s] = a.pLocksPos /\ (osFile = s <=> a.fFLocked)
      /\ (osHeader = s <=> a.fHeaderLocked) /\ (a.fFLocked => osRecs[s] = {})
      /\ osRecs \in [Stations -> SUBSET Nat] /\ osFile \in Stations \cup {NoStation}
      /\ osHeader \in Stations \cup {NoStation}
      /\ NoStation \notin Stations
  BY TakenLocks
<1>4. osFile = s
  BY <1>1, <1>2, <1>3 DEF Shape, LockShape
<1>5. /\ osFile' = NoStation /\ Leaves(s, b)
      /\ UNCHANGED <<recs, header, osRecs, osHeader>>
  BY DEF FileUnlock
<1>6. /\ b \in Area /\ b.todo = t
      /\ b.pLocksPos = a.pLocksPos /\ ~b.fFLocked
      /\ b.fHeaderLocked = a.fHeaderLocked
  BY <1>1 DEF Area, Lists
<1>7. Shape(b, t, Len(recs))
  <2>1. CASE t = <<>>
    <3>1. ~b.fHeaderLocked
      BY <1>6, <2>1, LastStep
    <3> HIDE DEF b, t
    <3> QED
      BY <2>1, <3>1, EmptyShape
  <2>2. CASE t # <<>>
    <3>1. t[1][1] = "close"
      BY <1>1, <2>2 DEF MayFollow, Onward
    <3>2. ~b.fHeaderLocked /\ t = <<t[1]>> /\ t[1] \in StepNames \X Nat
      BY <1>6, <2>2, <3>1, TwoSteps
    <3> DEFINE x == t[1]
    <3> HIDE DEF b, x, t
    <3>3. Shape(b, <<x>>, Len(recs))
      BY <3>1, <3>2, OneShape DEF x
    <3> QED
      BY <3>2, <3>3 DEF x
  <2> QED
    BY <2>1, <2>2
<1> HIDE DEF b
<1>8. LocksApart'
  <2>1. LocksApart /\ UNCHANGED osRecs
    BY <1>2, <1>5 DEF IInv
  <2> QED
    BY <1>3, <1>5, <2>1 DEF LocksApart
<1>9. OthersKeep(s)
  BY <1>3, <1>4, <1>5 DEF OthersKeep
<1>10. /\ osRecs'[s] = b.pLocksPos /\ (osFile' = s <=> b.fFLocked)
       /\ (osHeader' = s <=> b.fHeaderLocked) /\ (b.fFLocked => b.pLocksPos = {})
  BY <1>2, <1>3, <1>5, <1>6
<1>11. UNCHANGED <<recs, header>> /\ osRecs' = osRecs /\ osHeader' = osHeader
       /\ osFile' \in Stations \cup {NoStation}
  BY <1>5
<1> QED
  BY <1>2, <1>3, <1>5, <1>6, <1>7, <1>8, <1>9, <1>10, <1>11, OwnStep

\* The list of hb_dbfAppend with the byte of the header locked.
LEMMA AppendList ==
    ASSUME NEW a, ~a.fRecordChanged, NEW n \in Nat, NEW excl \in BOOLEAN
    PROVE  LET q == (IF a.fFLocked \/ n \in a.pLocksPos THEN <<>> ELSE LockRecord(a, n, excl))
                    \o <<<<"blank", 0>>, <<"headerUnlock", 0>>>>
           IN  /\ Good(q) /\ q[1][1] \in {"blank", "lock", "unlockAll"}
               /\ Names(q) \subseteq {"blank", "headerUnlock", "lock", "unlockAll"}
               /\ "headerUnlock" \in Names(q)
               /\ "lock" \in Names(q) => ~a.fFLocked
<1> DEFINE x1 == <<"blank", 0>>
           x2 == <<"headerUnlock", 0>>
           y == <<"lock", n>>
           z == <<"unlockAll", 0>>
           P == <<x1, x2>>
           L1 == <<y>> \o P
           L2 == <<z>> \o L1
           q == (IF a.fFLocked \/ n \in a.pLocksPos THEN <<>> ELSE LockRecord(a, n, excl))
                \o P
<1>1. /\ x1 \in StepNames \X Nat /\ x2 \in StepNames \X Nat
      /\ y \in StepNames \X Nat /\ z \in StepNames \X Nat
  BY DEF StepNames
<1>2. x1[1] = "blank" /\ x2[1] = "headerUnlock" /\ y[1] = "lock" /\ z[1] = "unlockAll"
  OBVIOUS
<1>3. LockRecord(a, n, excl) = (IF excl THEN UnlockAllRecords(a) ELSE <<>>) \o <<y>>
  BY DEF LockRecord
<1>4. UnlockAllRecords(a) = IF a.pLocksPos = {} THEN <<>> ELSE <<>> \o <<z>>
  BY DEF UnlockAllRecords, Cold
<1> HIDE DEF x1, x2, y, z
<1>5. /\ <<y>> \in Lists /\ <<z>> \in Lists /\ Good(<<x2>>) /\ <<x2>>[1] = x2
      /\ Names(<<x2>>) = {"headerUnlock"} /\ Len(<<x2>>) = 1
  BY <1>1, <1>2, GoodOne, NamesOfOne
<1>6. P = <<x1>> \o <<x2>>
  BY <1>1, PairIsConcat
<1>7. /\ Good(P) /\ P[1] = x1 /\ Len(P) > 1 /\ Names(P) = {"blank", "headerUnlock"}
  <2> DEFINE r == <<x2>>
  <2>1. /\ Good(r) /\ r[1] = x2 /\ Names(r) = {"headerUnlock"} /\ Len(r) = 1
        /\ P = <<x1>> \o r
    BY <1>5, <1>6
  <2> HIDE DEF r, P
  <2>2. MayFollow(x1[1], r[1][1]) /\ r[1][1] # "count"
    BY <1>2, <2>1 DEF MayFollow
  <2>3. /\ Good(<<x1>> \o r) /\ (<<x1>> \o r)[1] = x1 /\ Len(<<x1>> \o r) > 1
        /\ Names(<<x1>> \o r) = {x1[1]} \cup Names(r)
    BY <1>1, <2>1, <2>2, GoodCons
  <2> QED
    BY <1>2, <2>1, <2>3
<1> HIDE DEF P
<1>8. /\ Good(L1) /\ L1[1] = y /\ Names(L1) = {"lock", "blank", "headerUnlock"}
  <2>1. MayFollow(y[1], P[1][1]) /\ P[1][1] # "count" /\ y[1] # "blank"
    BY <1>2, <1>7 DEF MayFollow
  <2>2. /\ Good(L1) /\ L1[1] = y /\ Names(L1) = {y[1]} \cup Names(P)
    BY <1>1, <1>7, <2>1, GoodCons
  <2> HIDE DEF L1
  <2> QED
    BY <1>2, <1>7, <2>2
<1>9. /\ Good(L2) /\ L2[1] = z /\ Names(L2) = {"unlockAll", "lock", "blank", "headerUnlock"}
  <2> HIDE DEF L1
  <2>1. MayFollow(z[1], L1[1][1]) /\ L1[1][1] # "count" /\ z[1] # "blank"
    BY <1>2, <1>8 DEF MayFollow
  <2>2. /\ Good(L2) /\ L2[1] = z /\ Names(L2) = {z[1]} \cup Names(L1)
    BY <1>1, <1>8, <2>1, GoodCons
  <2> HIDE DEF L2
  <2> QED
    BY <1>2, <1>8, <2>2
<1>10. P \in Lists
  BY <1>7 DEF Good
<1>11. CASE a.fFLocked \/ n \in a.pLocksPos
  <2>1. q = P
    BY <1>10, <1>11, ConcatNone
  <2> HIDE DEF q
  <2>2. Good(q) /\ q[1][1] = "blank" /\ Names(q) = {"blank", "headerUnlock"}
    BY <1>2, <1>7, <2>1
  <2> QED
    BY <2>2 DEF q, P, x1, x2
<1>12. CASE ~(a.fFLocked \/ n \in a.pLocksPos)
  <2>1. q = LockRecord(a, n, excl) \o P
    BY <1>12
  <2>2. q \in {L1, L2}
    <3> HIDE DEF q
    <3>1. CASE excl /\ a.pLocksPos # {}
      <4>1. LockRecord(a, n, excl) = (<<>> \o <<z>>) \o <<y>>
        BY <1>3, <1>4, <3>1
      <4>2. LockRecord(a, n, excl) = <<z>> \o <<y>>
        BY <1>5, <4>1, ConcatNone
      <4> DEFINE zz == <<z>>
                 yy == <<y>>
      <4>3. LockRecord(a, n, excl) = zz \o yy /\ zz \in Lists /\ yy \in Lists
        BY <1>5, <4>2
      <4> HIDE DEF zz, yy
      <4>4. (zz \o yy) \o P = zz \o (yy \o P)
        BY <1>10, <4>3, ConcatAssoc
      <4> QED
        BY <2>1, <4>3, <4>4 DEF zz, yy
    <3>2. CASE ~(excl /\ a.pLocksPos # {})
      <4>1. LockRecord(a, n, excl) = <<>> \o <<y>>
        BY <1>3, <1>4, <3>2
      <4>2. LockRecord(a, n, excl) = <<y>>
        BY <1>5, <4>1, ConcatNone
      <4> QED
        BY <2>1, <4>2
    <3> QED
      BY <3>1, <3>2
  <2> HIDE DEF q, L1, L2
  <2>3. /\ Good(q) /\ q[1][1] \in {"lock", "unlockAll"}
        /\ Names(q) \subseteq {"blank", "headerUnlock", "lock", "unlockAll"}
        /\ "headerUnlock" \in Names(q)
    BY <1>2, <1>8, <1>9, <2>2
  <2> QED
    BY <1>12, <2>3 DEF q, P, x1, x2
<1> QED
  BY <1>11, <1>12

\* A list that gives the byte of the header back and locks no file.
LEMMA GivesByteBack ==
    ASSUME NEW b, NEW n, NEW q, Good(q), "headerUnlock" \in Names(q),
           "newRecord" \notin Names(q), "fileLock" \notin Names(q),
           "fileUnlock" \notin Names(q), "lock" \in Names(q) => ~b.fFLocked,
           q[1][1] \notin {"write", "headerWrite"}
    PROVE  Shape(b, q, n)
<1>1. LockShape(b, q)
  <2>1. ~Begins(q, "fileLock")
    <3>1. q # <<>> /\ q \in Lists
      BY DEF Good
    <3> QED
      BY <3>1, NamesOfTail DEF Begins
  <2> QED
    BY <2>1 DEF LockShape
<1>2. ByteShape(b, q) /\ ColdShape(b, q) /\ CountShape(b, q, n)
  BY DEF ByteShape, ColdShape, CountShape, Begins
<1> QED
  BY <1>1, <1>2 DEF Shape, Good

\* A record is to be appended.
LEMMA NewRecordInv ==
    ASSUME NEW s, NEW q, Taken(s, q, "newRecord"), NewRecord(s, q)
    PROVE  IInv'
<1> DEFINE n == Len(recs) + 1
           c == n - 1
           a == [area[s] EXCEPT !.ulRecCount = c]
           excl == Arg(q) = 1
           p == (IF a.fFLocked \/ n \in a.pLocksPos THEN <<>> ELSE LockRecord(a, n, excl))
                \o <<<<"blank", 0>>, <<"headerUnlock", 0>>>>
           b == [a EXCEPT !.todo = p]
<1>1. /\ area[s] \in Area /\ Len(recs) \in Nat /\ n \in Nat
      /\ header \in Nat /\ header <= Len(recs)
      /\ Names(q) = {"newRecord"} \cup Names(Tail(q))
  BY TakenFacts
<1>2. ~area[s].fRecordChanged
  <2>1. q[1][1] = "newRecord" /\ ColdShape(area[s], q)
    BY DEF Taken, Shape
  <2>2. q[1] # <<"write", must>>
    BY <2>1
  <2> QED
    BY <1>1, <2>1, <2>2 DEF ColdShape
<1>3. Leaves(s, b) /\ UNCHANGED <<recs, header, osRecs, osFile, osHeader>>
  BY DEF NewRecord
<1>a. c \in Nat
  BY <1>1
<1> HIDE DEF c
<1>4. /\ a \in Area /\ a.fFLocked = area[s].fFLocked /\ ~a.fRecordChanged
      /\ a.pLocksPos = area[s].pLocksPos /\ a.fHeaderLocked = area[s].fHeaderLocked
  BY <1>a, <1>1, <1>2 DEF Area
<1> HIDE DEF a, n, excl
<1>5. excl \in BOOLEAN
  BY DEF excl
<1>6. /\ Good(p) /\ p[1][1] \in {"blank", "lock", "unlockAll"}
      /\ Names(p) \subseteq {"blank", "headerUnlock", "lock", "unlockAll"}
      /\ "headerUnlock" \in Names(p)
      /\ "lock" \in Names(p) => ~a.fFLocked
  BY <1>1, <1>4, <1>5, AppendList
<1> HIDE DEF p
<1>7. p \in Lists
  BY <1>6 DEF Good
<1>8. /\ b \in Area /\ b.todo = p
      /\ b.pLocksPos = area[s].pLocksPos /\ b.fFLocked = a.fFLocked
      /\ b.fHeaderLocked = area[s].fHeaderLocked
  BY <1>4, <1>7 DEF Area, Lists
<1> HIDE DEF b
<1>9. Shape(b, p, Len(recs))
  BY <1>6, <1>8, GivesByteBack
<1> QED
  BY <1>1, <1>3, <1>4, <1>8, <1>9, QuietList

\* The new record is in the buffer.
LEMMA BlankInv ==
    ASSUME NEW s, NEW q, Taken(s, q, "blank"), Blank(s, q)
    PROVE  IInv'
<1> DEFINE a == area[s]
           t == Tail(q)
           x == <<"write", may>>
           p == <<x>> \o t
           n == a.ulRecCount + 1
           b == [a EXCEPT !.pRecord = {}, !.fValidBuffer = TRUE,
                          !.fUpdateHeader = TRUE, !.fRecordChanged = TRUE, !.fAppend = TRUE,
                          !.fPositioned = TRUE, !.ulRecCount = n, !.ulRecNo = n, !.todo = p]
<1>1. /\ a \in Area /\ t \in Lists /\ Len(recs) \in Nat
      /\ header \in Nat /\ header <= Len(recs)
      /\ t # <<>> /\ MayFollow("blank", t[1][1]) /\ Good(t)
      /\ Names(q) = {"blank"} \cup Names(t)
  BY TakenFacts
<1>2. /\ q \in Lists /\ q # <<>> /\ q[1][1] = "blank" /\ Shape(a, q, Len(recs))
  BY DEF Taken
<1>3. t[1][1] = "headerUnlock"
  BY <1>1 DEF MayFollow
<1>4. /\ t = <<t[1]>> /\ Names(t) = {"headerUnlock"}
  <2>1. Len(q) \in Nat /\ Len(q) > 0 /\ Len(t) = Len(q) - 1
    BY <1>2, TailFacts
  <2>a. Chain(q) /\ 1 \in 1..Len(q)
    BY <1>2, <2>1 DEF Shape
  <2>2. Len(q) = 1 + 1
    BY <1>2, <2>a DEF Chain
  <2> HIDE DEF t
  <2>3. Len(t) = 1
    BY <2>1, <2>2
  <2>4. t = <<t[1]>> /\ t[1] \in StepNames \X Nat
    BY <1>1, <2>3 DEF Lists
  <2> DEFINE y == t[1]
  <2>5. Names(<<y>>) = {y[1]}
    BY <2>4, NamesOfOne
  <2> QED
    BY <1>3, <2>4, <2>5
<1>5. x \in StepNames \X Nat /\ x[1] = "write" /\ x[2] = may
  BY StepsAreNamed DEF StepNames
<1>6. Leaves(s, b) /\ UNCHANGED <<recs, header, osRecs, osFile, osHeader>>
  BY DEF Blank
<1>7. n \in Nat
  BY <1>1 DEF Area
<1> HIDE DEF x
<1>8. /\ Good(p) /\ p[1] = x /\ Names(p) = {"write", "headerUnlock"}
      /\ Len(p) > 1 /\ p[2] = t[1]
  <2> HIDE DEF t
  <2>1. MayFollow(x[1], t[1][1]) /\ t[1][1] # "count" /\ x[1] # "blank"
    BY <1>3, <1>5 DEF MayFollow, Onward
  <2>2. /\ Good(p) /\ p[1] = x /\ Names(p) = {x[1]} \cup Names(t)
        /\ Len(p) > 1 /\ p[2] = t[1]
    BY <1>1, <1>5, <2>1, GoodCons
  <2> HIDE DEF p
  <2> QED
    BY <1>4, <1>5, <2>2
<1> HIDE DEF p, n
<1>9. p \in Lists
  BY <1>8 DEF Good
<1>10. /\ b \in Area /\ b.todo = p
       /\ b.pLocksPos = a.pLocksPos /\ b.fFLocked = a.fFLocked
       /\ b.fHeaderLocked = a.fHeaderLocked
  BY <1>1, <1>7, <1>9 DEF Area, Lists
<1> HIDE DEF b, t, a
<1>11. Shape(b, p, Len(recs))
  <2>1. LockShape(b, p) /\ ColdShape(b, p) /\ CountShape(b, p, Len(recs))
    BY <1>5, <1>8 DEF LockShape, ColdShape, CountShape, Begins
  <2>2. ByteShape(b, p)
    BY <1>3, <1>5, <1>8 DEF ByteShape, Begins
  <2> QED
    BY <1>8, <2>1, <2>2 DEF Shape, Good
<1> QED
  BY <1>1, <1>6, <1>10, <1>11, QuietList DEF a

\* The table is opened again behind a close or a crash.
LEMMA Reopened ==
    ASSUME IInv, NEW s \in Stations, Leaves(s, Opened(Len(recs))), LocksGone(s),
           UNCHANGED <<recs, header>>
    PROVE  IInv'
<1> DEFINE b == Opened(Len(recs))
<1>1. /\ Len(recs) \in Nat /\ osRecs \in [Stations -> SUBSET Nat]
      /\ osFile \in Stations \cup {NoStation} /\ osHeader \in Stations \cup {NoStation}
      /\ NoStation \notin Stations /\ LocksApart
  BY StationsAssumption DEF IInv, TypeOK
<1>2. <<>> \in Seq(StepNames \X Nat)
  OBVIOUS
<1>3. /\ b \in Area /\ b.todo = <<>> /\ b.pLocksPos = {} /\ ~b.fFLocked /\ ~b.fHeaderLocked
  BY <1>1, <1>2 DEF Area, Opened
<1> HIDE DEF b
<1>4. Shape(b, b.todo, Len(recs))
  BY <1>3, EmptyShape
<1>5. /\ osRecs' \in [Stations -> SUBSET Nat] /\ osRecs'[s] = {}
      /\ \A u \in Stations \ {s} : osRecs'[u] = osRecs[u]
  BY <1>1 DEF LocksGone
<1>6. /\ osFile' \in Stations \cup {NoStation} /\ osFile' # s
      /\ \A u \in Stations \ {s} : osFile' = u <=> osFile = u
  BY <1>1 DEF LocksGone
<1>7. /\ osHeader' \in Stations \cup {NoStation} /\ osHeader' # s
      /\ \A u \in Stations \ {s} : osHeader' = u <=> osHeader = u
  BY <1>1 DEF LocksGone
<1>8. LocksApart'
  <2>1. \A u \in Stations : osRecs'[u] \subseteq osRecs[u] /\ (osFile' = u => osFile = u)
    BY <1>5, <1>6
  <2> QED
    BY <1>1, <2>1 DEF LocksApart
<1>9. OthersKeep(s)
  BY <1>5, <1>6, <1>7 DEF OthersKeep
<1>10. Leaves(s, b)
  BY DEF b
<1> QED
  BY <1>3, <1>4, <1>5, <1>6, <1>7, <1>8, <1>9, <1>10, OwnStep

\* The table is closed.
LEMMA CloseInv ==
    ASSUME NEW s, NEW q, Taken(s, q, "close"), CloseStep(s, q)
    PROVE  IInv'
<1> DEFINE a == area[s]
           p == WriteDBHeader(a, may) \o q
           b == [a EXCEPT !.todo = p]
<1>1. /\ a \in Area /\ Len(recs) \in Nat /\ header \in Nat /\ header <= Len(recs)
      /\ Names(q) = {"close"} \cup Names(Tail(q))
  BY TakenFacts
<1>2. /\ IInv /\ s \in Stations /\ q \in Lists /\ q # <<>> /\ q[1][1] = "close"
      /\ Shape(a, q, Len(recs))
  BY DEF Taken
<1>3. Tail(q) = <<>> /\ ~a.fHeaderLocked
  BY NothingFollows, LastStep
<1>4. Names(q) = {"close"}
  <2>1. Names(Tail(q)) = {}
    BY <1>3, NamesOfEmpty
  <2> QED
    BY <1>1, <2>1
<1>5. UNCHANGED <<recs, header>>
  BY DEF CloseStep
<1>6. CASE Leaves(s, b) /\ UNCHANGED <<osRecs, osFile, osHeader>>
  <2>1. Chain(q) /\ q[1][1] \in Onward
    BY <1>2 DEF Shape, Onward
  <2>2. IsUpdate(p, a, may, q) /\ may \in Nat
    BY StepsAreNamed DEF IsUpdate
  <2> HIDE DEF p, a
  <2>3. /\ Good(p) /\ p[1][1] = "headerLock"
        /\ Names(p) = {"headerLock", "count", "headerWrite", "headerUnlock"} \cup Names(q)
    BY <1>2, <1>3, <2>1, <2>2, HeaderList
  <2>4. p \in Lists
    BY <2>3 DEF Good
  <2>5. /\ b \in Area /\ b.todo = p
        /\ b.pLocksPos = a.pLocksPos /\ b.fFLocked = a.fFLocked
        /\ b.fHeaderLocked = a.fHeaderLocked
    BY <1>1, <2>4 DEF Area, Lists
  <2>6. Leaves(s, b)
    BY <1>6
  <2> HIDE DEF b
  <2>7. Shape(b, p, Len(recs))
    BY <1>4, <2>3, GivesByteBack
  <2>8. UNCHANGED <<recs, osRecs, osFile, osHeader>> /\ header' \in Nat
        /\ header' <= Len(recs)
    BY <1>1, <1>5, <1>6
  <2> QED
    BY <2>5, <2>6, <2>7, <2>8, QuietList DEF a
<1>7. CASE Leaves(s, Opened(Len(recs))) /\ LocksGone(s)
  BY <1>2, <1>5, <1>7, Reopened
<1> QED
  BY <1>6, <1>7 DEF CloseStep

\* Whichever step is taken.
LEMMA TakeInv ==
    ASSUME IInv, NEW s \in Stations, NEW q \in Lists, Shape(area[s], q, Len(recs)),
           Take(s, q)
    PROVE  IInv'
<1> DEFINE x == q[1][1]
<1>1. q # <<>> /\ Head(q) = q[1]
  BY TailFacts DEF Take
<1>2. Taken(s, q, x)
  BY <1>1 DEF Taken
<1> HIDE DEF x
<1>3. \/ x = "write" /\ Write(s, q)
      \/ x = "headerLock" /\ HeaderLock(s, q)
      \/ x = "headerUnlock" /\ HeaderUnlock(s, q)
      \/ x = "count" /\ Count(s, q)
      \/ x = "headerWrite" /\ HeaderWrite(s, q)
      \/ x = "unlockAll" /\ UnlockAllStep(s, q)
      \/ x = "unlock" /\ UnlockStep(s, q)
      \/ x = "lock" /\ LockStep(s, q)
      \/ x = "fileLock" /\ FileLock(s, q)
      \/ x = "fileUnlock" /\ FileUnlock(s, q)
      \/ x = "newRecord" /\ NewRecord(s, q)
      \/ x = "blank" /\ Blank(s, q)
      \/ x = "goTo" /\ GoToStep(s, q)
      \/ x = "goBottom" /\ GoBottomStep(s, q)
      \/ x = "read" /\ ReadRecord(s, q)
      \/ x = "put" /\ Put(s, q)
      \/ x = "rollback" /\ Rollback(s, q)
      \/ x = "close" /\ CloseStep(s, q)
  BY <1>1 DEF Take, x
<1>4. CASE x \in {"write", "headerLock", "headerUnlock", "count", "headerWrite"}
  BY <1>2, <1>3, <1>4, WriteInv, HeaderLockInv, HeaderUnlockInv, CountInv,
     HeaderWriteInv
<1>5. CASE x \in {"unlockAll", "unlock", "lock", "fileLock", "fileUnlock"}
  BY <1>2, <1>3, <1>5, UnlockAllInv, UnlockInv, LockInv, FileLockInv,
     FileUnlockInv
<1>6. CASE x \in {"newRecord", "blank", "goTo", "goBottom"}
  BY <1>2, <1>3, <1>6, NewRecordInv, BlankInv, GoToInv, GoBottomInv
<1>7. CASE x \in {"read", "put", "rollback", "close"}
  BY <1>2, <1>3, <1>7, ReadInv, PutInv, RollbackInv, CloseInv
<1> QED
  BY <1>3, <1>4, <1>5, <1>6, <1>7

-----------------------------------------------------------------------------
(* The inductive invariant: the calls.                                     *)

\* A list that a call may begin with when the byte of the header is not locked.
Callable(a, q) == /\ Good(q) /\ LockShape(a, q)
                  /\ "newRecord" \notin Names(q) /\ q[1][1] # "headerWrite"
                  /\ q[1][1] = "count" => Len(q) = 1

LEMMA CallableShape ==
    ASSUME NEW a, ~a.fHeaderLocked, NEW q, Callable(a, q), NEW n
    PROVE  q \in Lists /\ Shape(a, q, n)
  BY DEF Callable, Good, Shape, ByteShape, ColdShape, CountShape, Begins

\* One step that has no lock in it.
LEMMA OneCall ==
    ASSUME NEW a, NEW x \in StepNames \X Nat,
           x[1] \in {"goTo", "goBottom", "read", "put", "rollback", "close", "unlock",
                     "count", "write", "unlockAll"}
    PROVE  Callable(a, <<x>>)
<1> DEFINE q == <<x>>
<1>1. Good(q) /\ q[1] = x /\ Names(q) = {x[1]} /\ Len(q) = 1
  BY GoodOne
<1> HIDE DEF q
<1>2. Callable(a, q)
  BY <1>1 DEF Callable, LockShape, Begins
<1> QED
  BY <1>2 DEF q

\* hb_dbfGoCold in front.
LEMMA ColdCall ==
    ASSUME NEW a, a.fRecordChanged \in BOOLEAN, NEW how \in Nat, NEW q,
           Callable(a, q), q[1][1] \in Onward, NEW p, IsCold(p, a, how, q)
    PROVE  Callable(a, p) /\ p[1][1] \in Onward
<1>1. Good(q)
  BY DEF Callable
<1>2. /\ Good(p) /\ p[1][1] \in Onward
      /\ a.fRecordChanged => Names(p) = {"write"} \cup Names(q)
      /\ a.fRecordChanged => p[1] = <<"write", how>>
      /\ ~a.fRecordChanged => p = q
  BY <1>1, ColdList
<1>3. CASE a.fRecordChanged
  <2>1. p[1][1] = "write" /\ Names(p) = {"write"} \cup Names(q)
    BY <1>2, <1>3
  <2> QED
    BY <1>2, <2>1 DEF Callable, LockShape, Begins
<1>4. CASE ~a.fRecordChanged
  BY <1>2, <1>4
<1> QED
  BY <1>3, <1>4

\* hb_dbfUnlockAllRecords in front of a lock.
LEMMA LockCall ==
    ASSUME NEW a, a.fRecordChanged \in BOOLEAN, ~a.fFLocked,
           NEW x \in StepNames \X Nat, x[1] \in {"lock", "fileLock"}
    PROVE  /\ Callable(a, UnlockAllRecords(a) \o <<x>>)
           /\ x[1] = "lock" => Callable(a, <<x>>)
<1> DEFINE q == <<x>>
           u == <<<<"unlockAll", 0>>>>
           p == u \o q
<1>1. Good(q) /\ q[1] = x /\ Names(q) = {x[1]} /\ q \in Lists
  BY GoodOne, NamesOfOne
<1>2. <<"unlockAll", 0>> \in StepNames \X Nat
  BY DEF StepNames
<1>3. u \in Lists /\ u[1] = <<"unlockAll", 0>>
  BY <1>2, NamesOfOne
<1> HIDE DEF q
<1>4. <<>> \o q = q
  BY <1>1, ConcatNone
<1>5. x[1] = "lock" \/ a.pLocksPos = {} => Callable(a, q)
  BY <1>1 DEF Callable, LockShape, Begins
<1>6. Callable(a, p) /\ p[1][1] = "unlockAll"
  <2> DEFINE z == <<"unlockAll", 0>>
  <2>1. p = <<z>> \o q /\ z \in StepNames \X Nat /\ z[1] = "unlockAll"
    BY <1>2
  <2> HIDE DEF z, p
  <2>2. MayFollow(z[1], q[1][1]) /\ q[1][1] # "count" /\ z[1] # "blank"
    BY <1>1, <2>1 DEF MayFollow
  <2>3. Good(p) /\ p[1] = z /\ Names(p) = {"unlockAll"} \cup Names(q)
    BY <1>1, <2>1, <2>2, GoodCons
  <2> QED
    BY <1>1, <2>1, <2>3 DEF Callable, LockShape, Begins
<1>7. CASE a.pLocksPos = {}
  BY <1>4, <1>5, <1>7 DEF UnlockAllRecords, q
<1>8. CASE a.pLocksPos # {}
  <2>1. UnlockAllRecords(a) = Cold(a, may) \o u
    BY <1>8 DEF UnlockAllRecords
  <2>2. Cold(a, may) \in Lists
    <3>1. <<"write", may>> \in StepNames \X Nat
      BY StepsAreNamed DEF StepNames
    <3>2. << <<"write", may>> >> \in Lists /\ <<>> \in Lists
      BY <1>1, <3>1, NamesOfOne, ConcatNone
    <3> QED
      BY <3>2 DEF Cold
  <2> HIDE DEF u
  <2>3. UnlockAllRecords(a) \o q = Cold(a, may) \o p
    BY SMTT(30), <1>1, <1>3, <2>1, <2>2, ConcatAssoc
  <2> HIDE DEF p
  <2>4. p[1][1] \in Onward
    BY <1>6 DEF Onward
  <2> DEFINE c == Cold(a, may) \o p
  <2>c. may \in Nat /\ IsCold(c, a, may, p)
    BY StepsAreNamed DEF IsCold
  <2> HIDE DEF c
  <2>5. Callable(a, c)
    BY <1>6, <2>4, <2>c, ColdCall
  <2> QED
    BY <1>4, <1>5, <2>3, <2>5 DEF q, c
<1> QED
  BY <1>7, <1>8

\* hb_dbfUnlockAllRecords and hb_dbfUnlockFile, and hb_dbfClose behind them.
LEMMA UnlockCall ==
    ASSUME NEW a, a.fRecordChanged \in BOOLEAN, a.fFLocked => a.pLocksPos = {}
    PROVE  LET q == UnlockAllRecords(a) \o UnlockFile(a)
           IN  /\ q # <<>> => Callable(a, q)
               /\ Callable(a, Cold(a, may) \o UnlockAllRecords(a) \o UnlockFile(a)
                                  \o <<<<"close", 0>>>>)
<1> DEFINE u == <<"unlockAll", 0>>
           f == <<"fileUnlock", 0>>
           z == <<"close", 0>>
           C == Cold(a, may)
           U == <<u>>
           F == <<f>>
           Z == <<z>>
<1>1. u \in StepNames \X Nat /\ f \in StepNames \X Nat /\ z \in StepNames \X Nat
  BY DEF StepNames
<1>2. u[1] = "unlockAll" /\ f[1] = "fileUnlock" /\ z[1] = "close"
  OBVIOUS
<1>3. C \in Lists
  <2>1. <<"write", may>> \in StepNames \X Nat
    BY StepsAreNamed DEF StepNames
  <2>2. << <<"write", may>> >> \in Lists /\ <<>> \in Lists
    BY <1>1, <2>1, NamesOfOne, ConcatNone
  <2> QED
    BY <2>2 DEF Cold
<1>4. UnlockAllRecords(a) = IF a.pLocksPos = {} THEN <<>> ELSE C \o U
  BY DEF UnlockAllRecords
<1>5. UnlockFile(a) = IF a.fFLocked THEN C \o F ELSE <<>>
  BY DEF UnlockFile
<1> HIDE DEF u, f, z
<1>6. /\ U \in Lists /\ F \in Lists /\ Z \in Lists
      /\ Good(Z) /\ Z[1] = z /\ Names(Z) = {"close"}
      /\ Good(F) /\ F[1] = f /\ Names(F) = {"fileUnlock"}
  BY <1>1, <1>2, NamesOfOne, GoodOne
<1>7. Callable(a, U) /\ Callable(a, Z) /\ U[1] = u
  BY <1>1, <1>2, OneCall, NamesOfOne
<1> HIDE DEF U, F, Z
<1>8. a.fFLocked => Callable(a, F)
  BY <1>2, <1>6 DEF Callable, LockShape, Begins
<1>9. U \o Z \in Lists /\ Callable(a, U \o Z) /\ (U \o Z)[1] = u
  <2> DEFINE p == U \o Z
  <2>1. MayFollow(u[1], Z[1][1]) /\ Z[1][1] # "count" /\ u[1] # "blank"
    BY <1>2, <1>6 DEF MayFollow
  <2>2. Good(p) /\ p[1] = u /\ Names(p) = {u[1]} \cup Names(Z)
    BY <1>1, <1>6, <2>1, GoodCons DEF U
  <2> HIDE DEF p
  <2>3. Callable(a, p) /\ p \in Lists
    BY <1>2, <1>6, <2>2 DEF Callable, LockShape, Begins, Good
  <2> QED
    BY <2>2, <2>3 DEF p
<1>10. F \o Z \in Lists /\ (a.fFLocked => Callable(a, F \o Z)) /\ (F \o Z)[1] = f
  <2> DEFINE p == F \o Z
  <2>1. MayFollow(f[1], Z[1][1]) /\ Z[1][1] # "count" /\ f[1] # "blank"
    BY <1>2, <1>6 DEF MayFollow
  <2>2. Good(p) /\ p[1] = f /\ Names(p) = {f[1]} \cup Names(Z)
    BY <1>1, <1>6, <2>1, GoodCons DEF F
  <2> HIDE DEF p
  <2>3. p \in Lists /\ (a.fFLocked => Callable(a, p))
    BY <1>2, <1>6, <2>2 DEF Callable, LockShape, Begins, Good
  <2> QED
    BY <2>2, <2>3 DEF p
<1>11. ASSUME NEW q, Callable(a, q), q[1][1] \in Onward
       PROVE  Callable(a, C \o q) /\ (C \o q)[1][1] \in Onward
  <2> DEFINE p == C \o q
  <2>1. may \in Nat /\ IsCold(p, a, may, q)
    BY StepsAreNamed DEF IsCold
  <2> HIDE DEF p
  <2>2. Callable(a, p) /\ p[1][1] \in Onward
    BY <1>11, <2>1, ColdCall
  <2> QED
    BY <2>2 DEF p
<1> HIDE DEF C
<1>12. <<>> \in Lists /\ C \o <<>> = C /\ <<>> \o <<>> = <<>>
  BY <1>3, ConcatNone
<1> DEFINE A == UnlockAllRecords(a)
           G == UnlockFile(a)
           all == ((C \o A) \o G) \o Z
<1> HIDE DEF A, G
<1>13. CASE a.fFLocked
  <2>1. A = <<>> /\ G = C \o F
    BY <1>4, <1>5, <1>13 DEF A, G
  <2>2. C \o F \in Lists
    BY <1>3, <1>6, ConcatFacts
  <2>3. A \o G = C \o F
    BY <2>1, <2>2, ConcatNone
  <2>4. f[1] \in Onward
    BY <1>2 DEF Onward
  <2>5. Callable(a, C \o F)
    BY <1>6, <1>8, <1>11, <1>13, <2>4
  <2>6. all = C \o (C \o (F \o Z))
    <3>1. (C \o A) \o G = C \o (C \o F)
      BY <1>12, <2>1
    <3>2. (C \o (C \o F)) \o Z = C \o ((C \o F) \o Z)
      BY ZenonT(30), <1>3, <1>6, <2>2, ConcatAssoc
    <3>3. (C \o F) \o Z = C \o (F \o Z)
      BY <1>3, <1>6, ConcatAssoc
    <3> QED
      BY <3>1, <3>2, <3>3
  <2>7. Callable(a, C \o (F \o Z)) /\ (C \o (F \o Z))[1][1] \in Onward
    BY <1>10, <1>11, <1>13, <2>4
  <2>8. Callable(a, C \o (C \o (F \o Z)))
    BY <1>11, <2>7
  <2> QED
    BY <2>3, <2>5, <2>6, <2>8 DEF all, A, G, C, Z, z
<1>14. CASE a.pLocksPos # {}
  <2>1. A = C \o U /\ G = <<>>
    BY <1>4, <1>5, <1>14 DEF A, G
  <2>2. C \o U \in Lists
    BY <1>3, <1>6, ConcatFacts
  <2>3. A \o G = C \o U
    BY <2>1, <2>2, ConcatNone
  <2>4. u[1] \in Onward
    BY <1>2 DEF Onward
  <2>5. Callable(a, C \o U)
    BY <1>7, <1>11, <2>4
  <2>6. all = C \o (C \o (U \o Z))
    <3>1. C \o (C \o U) \in Lists
      BY <1>3, <2>2, ConcatFacts
    <3>2. (C \o A) \o G = C \o (C \o U)
      BY <2>1, <3>1, ConcatNone
    <3>3. (C \o (C \o U)) \o Z = C \o ((C \o U) \o Z)
      BY <1>3, <1>6, <2>2, ConcatAssoc
    <3>4. (C \o U) \o Z = C \o (U \o Z)
      BY <1>3, <1>6, ConcatAssoc
    <3> QED
      BY <3>2, <3>3, <3>4
  <2>7. Callable(a, C \o (U \o Z)) /\ (C \o (U \o Z))[1][1] \in Onward
    BY <1>9, <1>11, <2>4
  <2>8. Callable(a, C \o (C \o (U \o Z)))
    BY <1>11, <2>7
  <2> QED
    BY <2>3, <2>5, <2>6, <2>8 DEF all, A, G, C, Z, z
<1>15. CASE ~a.fFLocked /\ a.pLocksPos = {}
  <2>1. A = <<>> /\ G = <<>>
    BY <1>4, <1>5, <1>15 DEF A, G
  <2>2. A \o G = <<>> /\ all = C \o Z
    BY <1>12, <2>1
  <2>3. z[1] \in Onward
    BY <1>2 DEF Onward
  <2>4. Callable(a, C \o Z)
    BY <1>6, <1>7, <1>11, <2>3
  <2> QED
    BY <2>2, <2>4 DEF all, A, G, C, Z, z
<1> QED
  BY <1>13, <1>14, <1>15

\* What is known of the work area of a station that begins a call.
LEMMA IdleFacts ==
    ASSUME IInv, NEW s \in Stations, Idle(s)
    PROVE  /\ area[s] \in Area /\ ~area[s].fHeaderLocked /\ area[s].fRecordChanged \in BOOLEAN
           /\ area[s].ulRecNo \in Nat /\ Len(recs) \in Nat
           /\ area[s].fFLocked => area[s].pLocksPos = {}
<1>1. /\ area[s] \in Area /\ Len(recs) \in Nat
      /\ area[s].fFLocked => area[s].pLocksPos = {}
  BY DEF IInv, TypeOK, LocksKnown
<1>2. ~area[s].fHeaderLocked
  <2>1. ByteShape(area[s], <<>>)
    BY DEF IInv, ShapeInv, Shape, Idle
  <2> QED
    BY <2>1, NamesOfEmpty DEF ByteShape
<1> QED
  BY <1>1, <1>2 DEF Area

LEMMA BeginInv ==
    ASSUME IInv, NEW s \in Stations, NEW q, Callable(area[s], q), Begin(s, q)
    PROVE  IInv'
<1>1. ~area[s].fHeaderLocked
  BY IdleFacts DEF Begin
<1>2. q \in Lists /\ Shape(area[s], q, Len(recs))
  BY <1>1, CallableShape
<1> QED
  BY <1>2, TakeInv DEF Begin

\* Calls that move in the table.
LEMMA GoInv ==
    ASSUME IInv, NEW s \in Stations, NEW x \in StepNames \X Nat,
           x[1] \in {"goTo", "goBottom", "unlock"}, NEW how \in Nat,
           Begin(s, Cold(area[s], how) \o <<x>>)
    PROVE  IInv'
<1> DEFINE q == <<x>>
           p == Cold(area[s], how) \o q
<1>1. area[s].fRecordChanged \in BOOLEAN
  BY IdleFacts DEF Begin
<1>2. Callable(area[s], q) /\ q[1] = x
  BY OneCall, NamesOfOne
<1>3. IsCold(p, area[s], how, q) /\ Begin(s, p)
  BY DEF IsCold
<1> HIDE DEF p, q
<1>4. q[1][1] \in Onward
  BY <1>2 DEF Onward
<1>5. Callable(area[s], p)
  BY <1>1, <1>2, <1>3, <1>4, ColdCall
<1> QED
  BY <1>3, <1>5, BeginInv

\* Calls of one or two steps.
LEMMA OneCallInv ==
    ASSUME IInv, NEW s \in Stations, NEW x \in StepNames \X Nat,
           x[1] \in {"read", "put", "rollback", "count"}, Begin(s, <<x>>)
    PROVE  IInv'
<1> DEFINE q == <<x>>
<1>1. Callable(area[s], q) /\ Begin(s, q)
  BY OneCall
<1> HIDE DEF q
<1> QED
  BY <1>1, BeginInv

LEMMA PutValueInv ==
    ASSUME IInv, NEW s \in Stations, PutValue(s)
    PROVE  IInv'
<1> DEFINE x == <<"read", 0>>
           y == <<"put", 0>>
           q == <<x, y>>
<1>1. x \in StepNames \X Nat /\ y \in StepNames \X Nat /\ x[1] = "read" /\ y[1] = "put"
  BY DEF StepNames
<1>2. Begin(s, <<y>>) \/ Begin(s, q)
  BY DEF PutValue
<1> HIDE DEF x, y
<1>3. CASE Begin(s, <<y>>)
  BY <1>1, <1>3, OneCallInv
<1>4. CASE Begin(s, q)
  <2> DEFINE r == <<y>>
  <2>1. q = <<x>> \o r /\ Good(r) /\ r[1] = y /\ Names(r) = {"put"}
    BY <1>1, PairIsConcat, GoodOne
  <2> HIDE DEF q, r
  <2>2. MayFollow(x[1], r[1][1]) /\ r[1][1] # "count" /\ x[1] # "blank"
    BY <1>1, <2>1 DEF MayFollow
  <2>3. Good(q) /\ q[1] = x /\ Names(q) = {x[1]} \cup Names(r)
    BY <1>1, <2>1, <2>2, GoodCons
  <2>4. Callable(area[s], q)
    BY <1>1, <2>1, <2>3 DEF Callable, LockShape, Begins
  <2> QED
    BY <1>4, <2>4, BeginInv
<1> QED
  BY <1>2, <1>3, <1>4

\* RLOCK(), DBRLOCK() and FLOCK().
LEMMA LocksInv ==
    ASSUME IInv, NEW s \in Stations,
           \/ LockExclusive(s) \/ LockFile(s) \/ \E r \in RecNos : LockMultiple(s, r)
    PROVE  IInv'
<1> DEFINE a == area[s]
<1>1. /\ a.fRecordChanged \in BOOLEAN /\ a.ulRecNo \in Nat /\ ~a.fFLocked
  BY IdleFacts DEF Begin, LockExclusive, LockMultiple, LockFile
<1>2. ASSUME NEW x \in StepNames \X Nat, x[1] \in {"lock", "fileLock"},
             \/ Begin(s, UnlockAllRecords(a) \o <<x>>)
             \/ Begin(s, <<>> \o <<x>>) /\ x[1] = "lock"
      PROVE  IInv'
  <2> DEFINE p == UnlockAllRecords(a) \o <<x>>
             q == <<x>>
  <2>1. Callable(a, p)
    BY <1>1, <1>2, LockCall
  <2>2. x[1] = "lock" => Callable(a, q)
    BY <1>1, <1>2, LockCall
  <2>3. Begin(s, p) \/ (Begin(s, q) /\ x[1] = "lock")
    <3>1. q \in Lists
      BY NamesOfOne
    <3> DEFINE r == <<>> \o q
    <3>2. Begin(s, p) \/ (Begin(s, r) /\ x[1] = "lock")
      BY <1>2
    <3> HIDE DEF p, q
    <3>3. r = q
      BY <3>1, ConcatNone
    <3> HIDE DEF r
    <3> QED
      BY <3>2, <3>3
  <2> HIDE DEF p, q
  <2> QED
    BY <2>1, <2>2, <2>3, BeginInv
<1>3. CASE LockExclusive(s)
  <2> DEFINE x == <<"lock", a.ulRecNo>>
  <2>1. x \in StepNames \X Nat /\ x[1] = "lock"
    BY <1>1 DEF StepNames
  <2>2. Begin(s, UnlockAllRecords(a) \o <<x>>)
    BY <1>3 DEF LockExclusive, LockRecord
  <2> HIDE DEF x
  <2> QED
    BY <1>2, <2>1, <2>2
<1>4. CASE LockFile(s)
  <2> DEFINE x == <<"fileLock", 0>>
  <2>1. x \in StepNames \X Nat /\ x[1] = "fileLock"
    BY <1>1 DEF StepNames
  <2>2. Begin(s, UnlockAllRecords(a) \o <<x>>)
    BY <1>4 DEF LockFile
  <2> HIDE DEF x
  <2> QED
    BY <1>2, <2>1, <2>2
<1>5. ASSUME NEW r \in RecNos, LockMultiple(s, r)
      PROVE  IInv'
  <2> DEFINE x == <<"lock", r>>
  <2>1. x \in StepNames \X Nat /\ x[1] = "lock"
    BY <1>1, TopAssumption DEF StepNames, RecNos
  <2>2. Begin(s, <<>> \o <<x>>)
    BY <1>5 DEF LockMultiple, LockRecord
  <2> HIDE DEF x
  <2> QED
    BY <1>2, <2>1, <2>2
<1> QED
  BY <1>3, <1>4, <1>5

\* DBUNLOCK() and the end of the work area.
LEMMA UnlocksInv ==
    ASSUME IInv, NEW s \in Stations, UnLock(s) \/ Close(s)
    PROVE  IInv'
<1> DEFINE a == area[s]
           q == UnlockAllRecords(a) \o UnlockFile(a)
           p == Cold(a, may) \o UnlockAllRecords(a) \o UnlockFile(a) \o <<<<"close", 0>>>>
<1>1. a.fRecordChanged \in BOOLEAN /\ (a.fFLocked => a.pLocksPos = {})
  BY IdleFacts DEF Begin, UnLock, Close
<1>2. (q # <<>> => Callable(a, q)) /\ Callable(a, p)
  BY <1>1, UnlockCall
<1>3. Begin(s, q) \/ Begin(s, p)
  BY DEF UnLock, Close
<1> HIDE DEF p, q
<1>4. Begin(s, q) => q # <<>>
  BY DEF Begin, Take
<1> QED
  BY <1>2, <1>3, <1>4, BeginInv

\* The header alone.
LEMMA HeaderCall ==
    ASSUME NEW a, ~a.fHeaderLocked, NEW q, q = WriteDBHeader(a, must)
    PROVE  /\ Callable(a, q) /\ q[1][1] = "headerLock"
           /\ Names(q) = {"headerLock", "count", "headerWrite", "headerUnlock"}
<1> DEFINE k == <<"headerLock", 0>>
           l == <<"count", 0>>
           m == <<"headerWrite", must>>
           n == <<"headerUnlock", 0>>
<1>0. must \in Nat
  BY StepsAreNamed
<1>1. /\ k \in StepNames \X Nat /\ l \in StepNames \X Nat
      /\ m \in StepNames \X Nat /\ n \in StepNames \X Nat
  BY <1>0 DEF StepNames
<1>2. q = (<<k>> \o <<l, m>>) \o <<n>>
  BY DEF WriteDBHeader
<1> HIDE DEF k, l, m, n
<1>3. <<k>> \in Lists /\ <<l, m>> \in Lists /\ <<n>> \in Lists
  BY <1>1, NamesOfOne, PairIsConcat
<1>4. <<k>> \o <<l, m>> \in Lists
  BY <1>3, ConcatFacts
<1>5. q \in Lists
  BY <1>2, <1>3, <1>4, ConcatFacts
<1>6. q = q \o <<>> /\ <<>> \in Lists
  BY <1>5, ConcatNone
<1>7. IsUpdate(q, a, must, <<>>)
  BY <1>6 DEF IsUpdate
<1> DEFINE none == <<>>
<1>8. none \in Lists /\ Chain(none) /\ none = <<>> /\ Names(none) = {}
  BY <1>6, EmptyChain, NamesOfEmpty
<1>9. IsUpdate(q, a, must, none)
  BY <1>7
<1> HIDE DEF none
<1>10. /\ Good(q) /\ q[1][1] = "headerLock"
       /\ Names(q) = {"headerLock", "count", "headerWrite", "headerUnlock"} \cup Names(none)
  BY <1>0, <1>8, <1>9, HeaderList
<1> QED
  BY <1>8, <1>10 DEF Callable, LockShape, Begins

\* What has changed goes to the file.
LEMMA FlushInv ==
    ASSUME IInv, NEW s \in Stations, Flush(s)
    PROVE  IInv'
<1> DEFINE a == area[s]
           q == WriteDBHeader(a, must)
           x == <<"write", must>>
<1>1. ~a.fHeaderLocked /\ must \in Nat
  BY IdleFacts, StepsAreNamed DEF Begin, Flush
<1>2. Begin(s, <<x>>) \/ Begin(s, q)
  <2>1. ~Begin(s, <<>>)
    BY DEF Begin, Take
  <2> QED
    BY <2>1 DEF Flush, Cold
<1>3. x \in StepNames \X Nat /\ x[1] = "write"
  BY <1>1 DEF StepNames
<1>4. CASE Begin(s, <<x>>)
  <2> DEFINE r == <<x>>
  <2> HIDE DEF x
  <2>1. Callable(a, r) /\ Begin(s, r)
    BY <1>3, <1>4, OneCall
  <2> HIDE DEF r
  <2> QED
    BY <2>1, BeginInv
<1>5. CASE Begin(s, q)
  <2>1. Callable(a, q)
    BY <1>1, HeaderCall
  <2> QED
    BY <1>5, <2>1, BeginInv
<1> QED
  BY <1>2, <1>4, <1>5

\* What hb_dbfAppend begins with.
LEMMA AppendPair ==
    ASSUME NEW k \in Nat
    PROVE  LET q == <<<<"headerLock", 0>>, <<"newRecord", k>>>>
           IN  Good(q) /\ q[1][1] = "headerLock" /\ Names(q) = {"headerLock", "newRecord"}
<1> DEFINE x == <<"headerLock", 0>>
           y == <<"newRecord", k>>
           q == <<x, y>>
           r == <<y>>
<1>1. x \in StepNames \X Nat /\ y \in StepNames \X Nat
  BY DEF StepNames
<1>2. x[1] = "headerLock" /\ y[1] = "newRecord"
  OBVIOUS
<1> HIDE DEF x, y
<1>3. q = <<x>> \o r /\ Good(r) /\ r[1] = y /\ Names(r) = {"newRecord"}
  BY <1>1, <1>2, PairIsConcat, GoodOne
<1> HIDE DEF q, r
<1>4. MayFollow(x[1], r[1][1]) /\ r[1][1] # "count" /\ x[1] # "blank"
  BY <1>2, <1>3 DEF MayFollow
<1>5. Good(q) /\ q[1] = x /\ Names(q) = {x[1]} \cup Names(r)
  BY <1>1, <1>3, <1>4, GoodCons
<1>6. Good(q) /\ q[1][1] = "headerLock" /\ Names(q) = {"headerLock", "newRecord"}
  BY <1>2, <1>3, <1>5
<1> QED
  BY <1>6 DEF q, x, y

LEMMA AppendShape ==
    ASSUME NEW a, ~a.fHeaderLocked, a.fRecordChanged \in BOOLEAN, NEW n, NEW k \in Nat,
           NEW p, IsCold(p, a, must, <<<<"headerLock", 0>>, <<"newRecord", k>>>>)
    PROVE  p \in Lists /\ Shape(a, p, n)
<1> DEFINE q == <<<<"headerLock", 0>>, <<"newRecord", k>>>>
<1>1. Good(q) /\ q[1][1] = "headerLock" /\ Names(q) = {"headerLock", "newRecord"}
  BY AppendPair
<1>2. IsCold(p, a, must, q) /\ must \in Nat
  BY StepsAreNamed
<1> HIDE DEF q
<1>3. q[1][1] \in Onward
  BY <1>1 DEF Onward
<1>4. /\ Good(p) /\ p[1][1] \in Onward
      /\ a.fRecordChanged => Names(p) = {"write"} \cup Names(q)
      /\ a.fRecordChanged => p[1] = <<"write", must>>
      /\ ~a.fRecordChanged => p = q
  BY <1>1, <1>2, <1>3, ColdList
<1>5. Names(p) \subseteq {"write", "headerLock", "newRecord"} /\ p[1][1] # "fileLock"
      /\ p[1][1] # "headerWrite"
  BY <1>1, <1>4 DEF Onward
<1>6. Shape(a, p, n)
  <2>1. LockShape(a, p) /\ CountShape(a, p, n)
    BY <1>5 DEF LockShape, CountShape, Begins
  <2>2. ByteShape(a, p) /\ ColdShape(a, p)
    BY <1>4 DEF ByteShape, ColdShape
  <2> QED
    BY <1>4, <2>1, <2>2 DEF Shape, Good
<1> QED
  BY <1>4, <1>6 DEF Good

\* A record is appended.
LEMMA AppendInv ==
    ASSUME IInv, NEW s \in Stations, NEW bUnLockAll \in BOOLEAN, AppendRecord(s, bUnLockAll)
    PROVE  IInv'
<1> DEFINE a == area[s]
           k == IF bUnLockAll THEN 1 ELSE 0
           p == Cold(a, must) \o <<<<"headerLock", 0>>, <<"newRecord", k>>>>
<1>1. ~a.fHeaderLocked /\ a.fRecordChanged \in BOOLEAN
  BY IdleFacts DEF Begin, AppendRecord
<1>2. Begin(s, p) /\ k \in Nat
  BY DEF AppendRecord
<1>3. IsCold(p, a, must, <<<<"headerLock", 0>>, <<"newRecord", k>>>>)
  BY DEF IsCold
<1> HIDE DEF p, k
<1>4. p \in Lists /\ Shape(a, p, Len(recs))
  BY <1>1, <1>2, <1>3, AppendShape
<1> QED
  BY <1>2, <1>4, TakeInv DEF Begin

\* Whichever call is made.
LEMMA CallInv ==
    ASSUME IInv, NEW s \in Stations, Call(s)
    PROVE  IInv'
<1>1. /\ \A x \in {"goBottom", "read", "rollback", "count"} : <<x, 0>> \in StepNames \X Nat
      /\ \A x \in {"goTo", "unlock"} : \A r \in RecNos : <<x, r>> \in StepNames \X Nat
      /\ must \in Nat /\ may \in Nat
  BY TopAssumption, StepsAreNamed DEF StepNames, RecNos
<1>2. CASE GoBottom(s)
  <2> DEFINE x == <<"goBottom", 0>>
  <2>1. /\ x \in StepNames \X Nat /\ x[1] = "goBottom"
        /\ Begin(s, Cold(area[s], must) \o <<x>>)
    BY <1>1, <1>2 DEF GoBottom
  <2> HIDE DEF x
  <2> QED
    BY <1>1, <2>1, GoInv
<1>3. ASSUME NEW r \in RecNos, GoTo(s, r)
      PROVE  IInv'
  <2> DEFINE x == <<"goTo", r>>
  <2>1. /\ x \in StepNames \X Nat /\ x[1] = "goTo"
        /\ Begin(s, Cold(area[s], must) \o <<x>>)
    BY <1>1, <1>3 DEF GoTo
  <2> HIDE DEF x
  <2> QED
    BY <1>1, <2>1, GoInv
<1>4. ASSUME NEW r \in RecNos, UnLockOne(s, r)
      PROVE  IInv'
  <2> DEFINE x == <<"unlock", r>>
  <2>1. /\ x \in StepNames \X Nat /\ x[1] = "unlock"
        /\ Begin(s, Cold(area[s], may) \o <<x>>)
    BY <1>1, <1>4 DEF UnLockOne
  <2> HIDE DEF x
  <2> QED
    BY <1>1, <2>1, GoInv
<1>5. CASE GetValue(s)
  <2> DEFINE x == <<"read", 0>>
  <2>1. x \in StepNames \X Nat /\ x[1] = "read" /\ Begin(s, <<x>>)
    BY <1>1, <1>5 DEF GetValue
  <2> HIDE DEF x
  <2> QED
    BY <2>1, OneCallInv
<1>6. CASE RollbackRecord(s)
  <2> DEFINE x == <<"rollback", 0>>
  <2>1. x \in StepNames \X Nat /\ x[1] = "rollback" /\ Begin(s, <<x>>)
    BY <1>1, <1>6 DEF RollbackRecord
  <2> HIDE DEF x
  <2> QED
    BY <2>1, OneCallInv
<1>7. CASE RecCount(s)
  <2> DEFINE x == <<"count", 0>>
  <2>1. x \in StepNames \X Nat /\ x[1] = "count" /\ Begin(s, <<x>>)
    BY <1>1, <1>7 DEF RecCount
  <2> HIDE DEF x
  <2> QED
    BY <2>1, OneCallInv
<1>8. CASE \/ LockExclusive(s) \/ LockFile(s) \/ \E r \in RecNos : LockMultiple(s, r)
  BY <1>8, LocksInv
<1>9. CASE UnLock(s) \/ Close(s)
  BY <1>9, UnlocksInv
<1>10. CASE PutValue(s) \/ Flush(s) \/ \E bUnLockAll \in BOOLEAN : AppendRecord(s, bUnLockAll)
  BY <1>10, PutValueInv, FlushInv, AppendInv
<1> QED
  BY <1>2, <1>3, <1>4, <1>5, <1>6, <1>7, <1>8, <1>9, <1>10 DEF Call

-----------------------------------------------------------------------------
(* The theorems.                                                           *)

LEMMA InitInv == Init => IInv
<1> SUFFICES ASSUME Init
             PROVE  IInv
  OBVIOUS
<1> DEFINE b == Opened(0)
<1>1. <<>> \in Seq(StepNames \X Nat) /\ <<>> \in Seq(SUBSET Stations) /\ Len(recs) = 0
  BY DEF Init
<1>2. /\ b \in Area /\ b.todo = <<>> /\ b.pLocksPos = {} /\ ~b.fFLocked /\ ~b.fHeaderLocked
  BY <1>1 DEF Area, Opened
<1> HIDE DEF b
<1>3. \A s \in Stations : area[s] = b
  BY DEF Init, b
<1>4. TypeOK
  <2>1. area \in [Stations -> Area]
    BY <1>2 DEF Init, b
  <2> QED
    BY <1>1, <2>1 DEF Init, TypeOK
<1>5. ShapeInv
  BY <1>2, <1>3, EmptyShape DEF ShapeInv
<1>6. LocksApart /\ HeaderNotAhead
  BY <1>1 DEF Init, LocksApart, HeaderNotAhead
<1>7. LocksKnown
  BY <1>2, <1>3, StationsAssumption DEF Init, LocksKnown
<1> QED
  BY <1>4, <1>5, <1>6, <1>7 DEF IInv

LEMMA NextInv == IInv /\ [Next]_vars => IInv'
<1> SUFFICES ASSUME IInv, [Next]_vars
             PROVE  IInv'
  OBVIOUS
<1>1. ASSUME NEW s \in Stations, Step(s)
      PROVE  IInv'
  <2>1. area[s].todo \in Lists /\ Shape(area[s], area[s].todo, Len(recs))
    BY DEF IInv, TypeOK, Area, Lists, ShapeInv
  <2> QED
    BY <1>1, <2>1, TakeInv DEF Step
<1>2. ASSUME NEW s \in Stations, Crash(s)
      PROVE  IInv'
  BY <1>2, Reopened DEF Crash
<1>3. CASE UNCHANGED vars
  BY <1>3
  DEF vars, IInv, TypeOK, ShapeInv, LocksApart, LocksKnown, HeaderNotAhead
<1> QED
  BY <1>1, <1>2, <1>3, CallInv DEF Next

\* In every case, failing reads and writes and crashes included: each work area has
\* the locks it believes to have, and no header counts a record that is not there.
THEOREM Invariance == Spec => []IInv
  BY InitInv, NextInv, PTL DEF Spec

\* A work area knows its locks, whatever was refused, failed or crashed.
THEOREM LocksAreKnown == Spec => []LocksKnown
<1>1. IInv => LocksKnown
  BY DEF IInv
<1> QED
  BY <1>1, Invariance, PTL

\* The header never counts a record that is not in the file.
THEOREM HeaderIsNotAhead == Spec => []HeaderNotAhead
<1>1. IInv => HeaderNotAhead
  BY DEF IInv
<1> QED
  BY <1>1, Invariance, PTL

-----------------------------------------------------------------------------
(* What holds besides when no write of a record fails: the buffer of a     *)
(* changed record belongs to a record that is locked.                      *)

Steps(q) == {q[i] : i \in 1..Len(q)}

\* Steps that a changed buffer must not meet: it is written first.
Risky == {"unlockAll", "unlock", "fileUnlock", "close", "goTo", "goBottom",
          "newRecord", "blank"}

\* The record that an append locks.
New(a) == a.ulRecCount + 1

HotPlan(a, q) ==
    a.fRecordChanged /\ Names(q) \cap Risky # {} => q[1][1] = "write"

\* What is put goes to a buffer that was read.
PutPlan(a, q) == Begins(q, "put") => a.fValidBuffer

LockPlan(a, q) == \A x \in Steps(q) :
    x[1] = "lock" => x[2] \in RecNos /\ ("blank" \in Names(q) => x[2] = New(a))

\* Only the bottom of an empty table has no record.
GoPlan(a, q) == \A x \in Steps(q) :
    x[1] = "goTo" => x[2] \in RecNos \/ (x[2] = 0 /\ a.ulRecCount = 0 /\ Len(q) = 1)

\* The new record is the next one of the file, and locked when it is filled.
BlankPlan(a, q, n) == "blank" \in Names(q) =>
    /\ Names(q) \subseteq {"unlockAll", "lock", "goTo", "blank", "headerUnlock"}
    /\ q[1][1] # "headerUnlock" /\ a.fHeaderLocked /\ a.ulRecCount = n
    /\ \/ "lock" \in Names(q)
       \/ "unlockAll" \notin Names(q) /\ (a.fFLocked \/ New(a) \in a.pLocksPos)

\* It is written at once, and the header behind it.
AppendPlan(a, q) ==
    /\ a.fAppend => Len(q) = 2 /\ q[1] = <<"write", may>> /\ q[2][1] = "headerUnlock"
    /\ Begins(q, "newRecord") => a.fHeaderLocked

Plan(a, q, n) == /\ HotPlan(a, q) /\ PutPlan(a, q) /\ LockPlan(a, q)
                 /\ GoPlan(a, q) /\ BlankPlan(a, q, n) /\ AppendPlan(a, q)

PlanInv == \A s \in Stations : Plan(area[s], area[s].todo, Len(recs))

\* A changed buffer was read under its lock.
Hot(a) == a.fPositioned /\ a.fValidBuffer /\ MayGoHot(a)

\* What was read under the lock is what the file has, but for the update of
\* the station itself.
Fresh(s, a, table) ==
    Hot(a) /\ a.ulRecNo \in 1..Len(table)
    => /\ table[a.ulRecNo] \subseteq a.pRecord
       /\ a.pRecord \subseteq table[a.ulRecNo] \cup {s}

\* The buffer of a new record, and of one that is in the file.
Place(a, n) ==
    /\ a.fAppend => /\ a.fRecordChanged /\ a.fHeaderLocked /\ a.pRecord = {}
                    /\ a.ulRecNo = n + 1 /\ a.ulRecCount = n + 1
    /\ ~a.fAppend => /\ a.ulRecCount <= n
                     /\ a.fPositioned => a.ulRecNo <= n

Buffer(s, a, table) == /\ a.ulRecNo \in RecNos
                       /\ a.fRecordChanged => Hot(a)
                       /\ Fresh(s, a, table) /\ Place(a, Len(table))

BufferInv == \A s \in Stations : Buffer(s, area[s], recs)

\* There is room for the records that are being appended.
Appends(a, q) == a.fAppend \/ {"newRecord", "blank"} \cap Names(q) # {}

Room == Len(recs) + Cardinality({t \in Stations : Appends(area[t], area[t].todo)}) <= Top

HotInv == PlanInv /\ BufferInv /\ Room

-----------------------------------------------------------------------------
(* More facts about lists.                                                 *)

LEMMA NamesAreOfSteps ==
    ASSUME NEW q \in Lists
    PROVE  \A y : y \in Names(q) <=> \E x \in Steps(q) : x[1] = y
  BY DEF Names, Steps

LEMMA StepsOfTail ==
    ASSUME NEW q \in Lists, q # <<>>
    PROVE  Steps(Tail(q)) \subseteq Steps(q) /\ q[1] \in Steps(q)
<1> DEFINE t == Tail(q)
<1>1. /\ Len(q) \in Nat /\ Len(q) > 0 /\ Len(t) = Len(q) - 1
      /\ \A i \in 1..Len(q) - 1 : t[i] = q[i + 1]
  BY TailFacts
<1> HIDE DEF t
<1>2. ASSUME NEW i \in 1..Len(t)
      PROVE  t[i] \in Steps(q)
  <2>1. i + 1 \in 1..Len(q) /\ t[i] = q[i + 1]
    BY <1>1
  <2> QED
    BY <2>1 DEF Steps
<1>3. q[1] \in Steps(q)
  BY <1>1 DEF Steps
<1> QED
  BY <1>2, <1>3 DEF Steps, t

LEMMA StepsOfConcat ==
    ASSUME NEW p \in Lists, NEW q \in Lists
    PROVE  Steps(p \o q) \subseteq Steps(p) \cup Steps(q)
<1> DEFINE r == p \o q
<1>1. /\ Len(p) \in Nat /\ Len(q) \in Nat /\ Len(r) = Len(p) + Len(q)
      /\ \A i \in 1..Len(p) : r[i] = p[i]
      /\ \A i \in 1..Len(q) : r[Len(p) + i] = q[i]
      /\ \A i \in 1..Len(p) + Len(q) :
             i \in 1..Len(p) \/ \E j \in 1..Len(q) : i = Len(p) + j
  BY ConcatFacts
<1> HIDE DEF r
<1>2. ASSUME NEW i \in 1..Len(r)
      PROVE  r[i] \in Steps(p) \cup Steps(q)
  <2>1. CASE i \in 1..Len(p)
    BY <1>1, <2>1 DEF Steps
  <2>2. ASSUME NEW j \in 1..Len(q), i = Len(p) + j
        PROVE  r[i] \in Steps(q)
    BY <1>1, <2>2 DEF Steps
  <2> QED
    BY <1>1, <2>1, <2>2
<1> QED
  BY <1>2 DEF Steps, r

LEMMA StepsOfOne == \A x : Steps(<<x>>) = {x}
  BY DEF Steps

LEMMA StepsOfEmpty == Steps(<<>>) = {}
  BY DEF Steps

LEMMA FirstOfConcat ==
    ASSUME NEW p \in Lists, p # <<>>, NEW q \in Lists
    PROVE  p \o q # <<>> /\ (p \o q)[1] = p[1]
<1>1. Len(p) \in Nat /\ Len(p) > 0
  BY TailFacts
<1>2. /\ Len(q) \in Nat /\ Len(p \o q) = Len(p) + Len(q)
      /\ \A i \in 1..Len(p) : (p \o q)[i] = p[i]
  BY ConcatFacts
<1>3. 1 \in 1..Len(p) /\ Len(p \o q) # 0
  BY <1>1, <1>2
<1>4. (p \o q)[1] = p[1]
  BY <1>2, <1>3
<1>5. p \o q # <<>>
  BY <1>3
<1> QED
  BY <1>4, <1>5

\* One step is done, and what was planned behind it stays so.
LEMMA TailPlan ==
    ASSUME NEW a, NEW b, NEW n, NEW m, NEW q \in Lists, q # <<>>, Plan(a, q, n),
           b.fRecordChanged => a.fRecordChanged /\ q[1][1] # "write",
           ~b.fAppend,
           Begins(Tail(q), "put") => b.fValidBuffer,
           Begins(Tail(q), "newRecord") => b.fHeaderLocked,
           "blank" \in Names(Tail(q)) => New(b) = New(a),
           BlankPlan(b, Tail(q), m)
    PROVE  Plan(b, Tail(q), m)
<1> DEFINE t == Tail(q)
<1>1. Names(q) = {q[1][1]} \cup Names(t) /\ Steps(t) \subseteq Steps(q)
  BY NamesOfTail, StepsOfTail
<1>2. Len(q) = 1 => Steps(t) = {}
  <2>1. Len(q) = 1 => t = <<>>
    BY TailFacts DEF Lists
  <2> HIDE DEF t
  <2> QED
    BY <2>1, StepsOfEmpty
<1>3. PutPlan(b, t) /\ AppendPlan(b, t) /\ BlankPlan(b, t, m)
      /\ ("blank" \in Names(t) => New(b) = New(a))
  BY DEF PutPlan, AppendPlan
<1> HIDE DEF t
<1>4. HotPlan(b, t)
  <2> SUFFICES ASSUME b.fRecordChanged, Names(t) \cap Risky # {}
               PROVE  FALSE
    BY DEF HotPlan
  <2>1. a.fRecordChanged /\ Names(q) \cap Risky # {}
    BY <1>1
  <2> QED
    BY <2>1 DEF Plan, HotPlan
<1>5. LockPlan(b, t)
  BY <1>1, <1>3 DEF Plan, LockPlan
<1>6. GoPlan(b, t)
  BY <1>1, <1>2 DEF Plan, GoPlan
<1> QED
  BY <1>3, <1>4, <1>5, <1>6 DEF Plan, t

\* The steps that no append is behind.
LEMMA NoBlank ==
    ASSUME NEW a, NEW n, NEW q \in Lists, q # <<>>, BlankPlan(a, q, n),
           q[1][1] \notin {"unlockAll", "lock", "goTo", "blank"}
    PROVE  /\ "blank" \notin Names(q) /\ "blank" \notin Names(Tail(q))
           /\ \A b, m : BlankPlan(b, Tail(q), m)
<1>1. Names(q) = {q[1][1]} \cup Names(Tail(q))
  BY NamesOfTail
<1>2. "blank" \notin Names(q)
  BY <1>1 DEF BlankPlan
<1> QED
  BY <1>1, <1>2 DEF BlankPlan

\* A list that has neither a lock nor a record to go to nor an append in it.
LEMMA PlainPlan ==
    ASSUME NEW a, NEW n, NEW q \in Lists, ~a.fAppend,
           a.fRecordChanged /\ Names(q) \cap Risky # {} => q[1][1] = "write",
           Names(q) \cap {"lock", "goTo", "blank"} = {},
           Begins(q, "put") => a.fValidBuffer,
           Begins(q, "newRecord") => a.fHeaderLocked
    PROVE  Plan(a, q, n)
<1>1. LockPlan(a, q) /\ GoPlan(a, q)
  BY NamesAreOfSteps DEF LockPlan, GoPlan
<1>2. HotPlan(a, q) /\ PutPlan(a, q) /\ BlankPlan(a, q, n) /\ AppendPlan(a, q)
  BY DEF HotPlan, PutPlan, BlankPlan, AppendPlan
<1> QED
  BY <1>1, <1>2 DEF Plan

LEMMA EmptyPlan ==
    ASSUME NEW a, NEW n, ~a.fAppend
    PROVE  Plan(a, <<>>, n)
<1> DEFINE q == <<>>
<1>1. q \in Lists /\ Names(q) = {} /\ q = <<>>
  BY NamesOfEmpty DEF Lists
<1> HIDE DEF q
<1>2. ~Begins(q, "put") /\ ~Begins(q, "newRecord")
  BY <1>1 DEF Begins
<1>3. Plan(a, q, n)
  BY <1>1, <1>2, PlainPlan
<1> QED
  BY <1>3 DEF q

LEMMA OnePlan ==
    ASSUME NEW a, NEW n, NEW x \in StepNames \X Nat, ~a.fAppend,
           a.fRecordChanged => x[1] \notin Risky,
           x[1] \notin {"blank", "newRecord"}, x[1] = "put" => a.fValidBuffer,
           x[1] = "lock" => x[2] \in RecNos,
           x[1] = "goTo" => x[2] \in RecNos \/ (x[2] = 0 /\ a.ulRecCount = 0)
    PROVE  Plan(a, <<x>>, n)
<1> DEFINE q == <<x>>
<1>1. q \in Lists /\ Names(q) = {x[1]} /\ Steps(q) = {x} /\ Len(q) = 1 /\ q[1] = x
  BY NamesOfOne, StepsOfOne
<1> HIDE DEF q
<1>2. LockPlan(a, q) /\ GoPlan(a, q)
  BY <1>1 DEF LockPlan, GoPlan
<1>3. HotPlan(a, q) /\ PutPlan(a, q) /\ BlankPlan(a, q, n) /\ AppendPlan(a, q)
  BY <1>1 DEF HotPlan, PutPlan, BlankPlan, AppendPlan, Begins
<1>4. Plan(a, q, n)
  BY <1>2, <1>3 DEF Plan
<1> QED
  BY <1>4 DEF q

\* A buffer that is not changed meets nothing that could harm it.
LEMMA FreshOfFields ==
    ASSUME NEW s, NEW a, NEW b, NEW table,
           Buffer(s, a, table), ~a.fAppend, ~b.fAppend, b.ulRecCount <= Len(table),
           b.ulRecNo = a.ulRecNo, b.fPositioned = a.fPositioned, b.pRecord = a.pRecord,
           b.fValidBuffer = a.fValidBuffer, MayGoHot(b) => MayGoHot(a),
           b.fRecordChanged => a.fRecordChanged /\ MayGoHot(b)
    PROVE  Buffer(s, b, table)
  BY DEF Buffer, Fresh, Place, Hot

-----------------------------------------------------------------------------
(* A step of a station whose list is as planned.                           *)

\* Who appends once the step is taken from list q.
Appenders(s, q) ==
    {t \in Stations : IF t = s THEN Appends(area[s], q) ELSE Appends(area[t], area[t].todo)}

Ready(s, q, x) == /\ Taken(s, q, x) /\ HotInv
                  /\ Plan(area[s], q, Len(recs))
                  /\ Len(recs) + Cardinality(Appenders(s, q)) <= Top

\* What the step leaves when it does not write the table.
Sound(s, q) == /\ recs' = recs
               /\ \A t \in Stations \ {s} : area'[t] = area[t]
               /\ Plan(area'[s], area'[s].todo, Len(recs))
               /\ Buffer(s, area'[s], recs)
               /\ Appends(area'[s], area'[s].todo) => Appends(area[s], q)

LEMMA AppendersFinite ==
    \A s \in Stations : \A q : IsFiniteSet(Appenders(s, q)) /\ Cardinality(Appenders(s, q)) \in Nat
<1> SUFFICES ASSUME NEW s \in Stations, NEW q
             PROVE  IsFiniteSet(Appenders(s, q)) /\ Cardinality(Appenders(s, q)) \in Nat
  OBVIOUS
<1>1. Appenders(s, q) \subseteq Stations
  BY DEF Appenders
<1> QED
  BY <1>1, StationsAssumption, FS_Subset, FS_CardinalityType

LEMMA ReadyFacts ==
    ASSUME NEW s, NEW q, NEW x, Ready(s, q, x)
    PROVE  /\ s \in Stations /\ area[s] \in Area /\ Buffer(s, area[s], recs)
           /\ q \in Lists /\ q # <<>> /\ q[1][1] = x /\ Chain(q)
           /\ Plan(area[s], q, Len(recs))
           /\ x # "write" => ~area[s].fAppend
           /\ Len(recs) \in Nat /\ Len(recs) <= Top /\ Top \in Nat
           /\ Appends(area[s], q) => Len(recs) + 1 <= Top
<1>1. /\ s \in Stations /\ area[s] \in Area /\ Len(recs) \in Nat
      /\ q \in Lists /\ q # <<>> /\ q[1][1] = x /\ Chain(q)
  BY TakenFacts DEF Ready, Taken, Shape
<1>2. x # "write" => ~area[s].fAppend
  BY <1>1 DEF Ready, Plan, AppendPlan
<1>3. IsFiniteSet(Appenders(s, q)) /\ Cardinality(Appenders(s, q)) \in Nat
  BY <1>1, AppendersFinite
<1>4. Appends(area[s], q) => Cardinality(Appenders(s, q)) >= 1
  <2> SUFFICES ASSUME Appends(area[s], q)
               PROVE  Cardinality(Appenders(s, q)) >= 1
    OBVIOUS
  <2>1. Appenders(s, q) # {}
    BY <1>1 DEF Appenders
  <2> QED
    BY <1>3, <2>1, FS_EmptySet
<1> QED
  BY <1>1, <1>2, <1>3, <1>4, TopAssumption DEF Ready, HotInv, BufferInv

\* The step left the work area b.
LEMMA SoundStep ==
    ASSUME NEW s, NEW q, NEW x, Ready(s, q, x), NEW b, Leaves(s, b), recs' = recs,
           Plan(b, b.todo, Len(recs)), Buffer(s, b, recs),
           Appends(b, b.todo) => Appends(area[s], q)
    PROVE  Sound(s, q)
<1>1. s \in Stations /\ area \in [Stations -> Area]
  BY DEF Ready, Taken, IInv, TypeOK
<1>2. area'[s] = b /\ \A t \in Stations \ {s} : area'[t] = area[t]
  BY <1>1 DEF Leaves
<1> QED
  BY <1>2 DEF Sound

\* The last but one argument of many: the rest of the list is left, and the
\* buffer not touched.
LEMMA SoundTail ==
    ASSUME NEW s, NEW q, NEW x, Ready(s, q, x),
           x \notin {"write", "unlockAll", "lock", "goTo", "blank"},
           NEW b, Leaves(s, b), recs' = recs, b.todo = Tail(q),
           ~b.fAppend, b.fRecordChanged => area[s].fRecordChanged,
           Begins(Tail(q), "put") => b.fValidBuffer,
           Begins(Tail(q), "newRecord") => b.fHeaderLocked,
           Buffer(s, b, recs)
    PROVE  Sound(s, q)
<1> DEFINE a == area[s]
           t == Tail(q)
<1>1. /\ q \in Lists /\ q # <<>> /\ q[1][1] = x /\ Chain(q)
      /\ Plan(a, q, Len(recs))
  BY ReadyFacts
<1> HIDE DEF a
<1>2. Plan(b, t, Len(recs))
  <2>1. "blank" \notin Names(t) /\ BlankPlan(b, t, Len(recs))
    BY <1>1, NoBlank DEF Plan
  <2> QED
    BY <1>1, <2>1, TailPlan DEF a
<1>3. Names(t) \subseteq Names(q)
  BY <1>1, NamesOfTail
<1> HIDE DEF t
<1>4. Appends(b, t) => Appends(a, q)
  BY <1>3 DEF Appends
<1>5. b.todo = t
  BY DEF t
<1> QED
  BY <1>2, <1>4, <1>5, SoundStep DEF a

\* A step that does not look at the buffer.
LEMMA BufferStays ==
    ASSUME NEW s, NEW q, NEW x, Ready(s, q, x), x # "write", NEW b,
           b.ulRecNo = area[s].ulRecNo, b.fPositioned = area[s].fPositioned,
           b.fValidBuffer = area[s].fValidBuffer, b.fAppend = area[s].fAppend,
           b.fRecordChanged = area[s].fRecordChanged, b.pRecord = area[s].pRecord,
           b.fFLocked = area[s].fFLocked, b.pLocksPos = area[s].pLocksPos,
           b.ulRecCount \in {area[s].ulRecCount, Len(recs)}
    PROVE  Buffer(s, b, recs) /\ ~b.fAppend
<1> DEFINE a == area[s]
<1>1. Buffer(s, a, recs) /\ ~a.fAppend /\ Len(recs) \in Nat
  BY ReadyFacts
<1>2. b.ulRecCount <= Len(recs)
  BY <1>1 DEF Buffer, Place
<1>3. (MayGoHot(b) <=> MayGoHot(a)) /\ (a.fRecordChanged => MayGoHot(a))
  BY <1>1 DEF MayGoHot, Buffer, Hot
<1> HIDE DEF a
<1> QED
  BY <1>1, <1>2, <1>3, FreshOfFields DEF a

\* The rest of the list is left, and the buffer as it was.
LEMMA SoundRest ==
    ASSUME NEW s, NEW q, NEW x, Ready(s, q, x),
           x \notin {"write", "unlockAll", "lock", "goTo", "blank", "read"},
           NEW b, Leaves(s, b), recs' = recs, b.todo = Tail(q),
           b.ulRecNo = area[s].ulRecNo, b.fPositioned = area[s].fPositioned,
           b.fValidBuffer = area[s].fValidBuffer, b.fAppend = area[s].fAppend,
           b.fRecordChanged = area[s].fRecordChanged, b.pRecord = area[s].pRecord,
           b.fFLocked = area[s].fFLocked, b.pLocksPos = area[s].pLocksPos,
           b.ulRecCount \in {area[s].ulRecCount, Len(recs)},
           x = "headerLock" => b.fHeaderLocked
    PROVE  Sound(s, q)
<1>1. Buffer(s, b, recs) /\ ~b.fAppend
  BY BufferStays
<1>2. Tail(q) # <<>> => MayFollow(x, Tail(q)[1][1])
  BY TakenFacts DEF Ready
<1>3. ~Begins(Tail(q), "put") /\ (Begins(Tail(q), "newRecord") => b.fHeaderLocked)
  BY <1>2 DEF Begins, MayFollow, Onward
<1> QED
  BY <1>1, <1>3, SoundTail

LEMMA HeaderLockSound ==
    ASSUME NEW s, NEW q, Ready(s, q, "headerLock"), HeaderLock(s, q)
    PROVE  Sound(s, q)
<1> DEFINE a == area[s]
           b == [a EXCEPT !.fHeaderLocked = TRUE, !.todo = Tail(q)]
<1>1. a \in Area
  BY ReadyFacts
<1>2. /\ b.ulRecNo = a.ulRecNo /\ b.fPositioned = a.fPositioned
      /\ b.fValidBuffer = a.fValidBuffer /\ b.fAppend = a.fAppend
      /\ b.fRecordChanged = a.fRecordChanged /\ b.pRecord = a.pRecord
      /\ b.fFLocked = a.fFLocked /\ b.pLocksPos = a.pLocksPos
      /\ b.ulRecCount = a.ulRecCount /\ b.todo = Tail(q) /\ b.fHeaderLocked
  BY <1>1 DEF Area
<1>3. Leaves(s, b) /\ recs' = recs
  BY DEF HeaderLock
<1> HIDE DEF b
<1> QED
  BY <1>2, <1>3, SoundRest

LEMMA HeaderUnlockSound ==
    ASSUME NEW s, NEW q, Ready(s, q, "headerUnlock"), HeaderUnlock(s, q)
    PROVE  Sound(s, q)
<1> DEFINE a == area[s]
           b == [a EXCEPT !.fHeaderLocked = FALSE, !.todo = Tail(q)]
<1>1. a \in Area
  BY ReadyFacts
<1>2. /\ b.ulRecNo = a.ulRecNo /\ b.fPositioned = a.fPositioned
      /\ b.fValidBuffer = a.fValidBuffer /\ b.fAppend = a.fAppend
      /\ b.fRecordChanged = a.fRecordChanged /\ b.pRecord = a.pRecord
      /\ b.fFLocked = a.fFLocked /\ b.pLocksPos = a.pLocksPos
      /\ b.ulRecCount = a.ulRecCount /\ b.todo = Tail(q)
  BY <1>1 DEF Area
<1>3. Leaves(s, b) /\ recs' = recs
  BY DEF HeaderUnlock
<1> HIDE DEF b
<1> QED
  BY <1>2, <1>3, SoundRest

LEMMA CountSound ==
    ASSUME NEW s, NEW q, Ready(s, q, "count"), Count(s, q)
    PROVE  Sound(s, q)
<1> DEFINE a == area[s]
           b == [a EXCEPT !.ulRecCount = Len(recs), !.todo = Tail(q)]
<1>1. a \in Area
  BY ReadyFacts
<1>2. /\ b.ulRecNo = a.ulRecNo /\ b.fPositioned = a.fPositioned
      /\ b.fValidBuffer = a.fValidBuffer /\ b.fAppend = a.fAppend
      /\ b.fRecordChanged = a.fRecordChanged /\ b.pRecord = a.pRecord
      /\ b.fFLocked = a.fFLocked /\ b.pLocksPos = a.pLocksPos
      /\ b.ulRecCount = Len(recs) /\ b.todo = Tail(q)
  BY <1>1 DEF Area
<1>3. Leaves(s, b) /\ recs' = recs
  BY DEF Count
<1> HIDE DEF b
<1> QED
  BY <1>2, <1>3, SoundRest

LEMMA HeaderWriteSound ==
    ASSUME NEW s, NEW q, Ready(s, q, "headerWrite"), HeaderWrite(s, q)
    PROVE  Sound(s, q)
<1> DEFINE a == area[s]
           t == Tail(q)
           b == [a EXCEPT !.fUpdateHeader = FALSE, !.todo = t]
           e == IF Arg(q) = must THEN SubSeq(t, 1, 1) ELSE t
           c == [b EXCEPT !.todo = e]
<1>1. a \in Area /\ t \in Lists
  BY ReadyFacts, TakenFacts DEF Ready
<1>2. /\ b.ulRecNo = a.ulRecNo /\ b.fPositioned = a.fPositioned
      /\ b.fValidBuffer = a.fValidBuffer /\ b.fAppend = a.fAppend
      /\ b.fRecordChanged = a.fRecordChanged /\ b.pRecord = a.pRecord
      /\ b.fFLocked = a.fFLocked /\ b.pLocksPos = a.pLocksPos
      /\ b.ulRecCount = a.ulRecCount /\ b.todo = t /\ b \in Area
  BY <1>1 DEF Area, Lists
<1>3. recs' = recs /\ (Leaves(s, b) \/ Leaves(s, c))
  BY <1>2 DEF HeaderWrite
<1> HIDE DEF b
<1>4. CASE Leaves(s, b)
  BY <1>2, <1>3, <1>4, SoundRest
<1>5. CASE Leaves(s, c)
  <2>1. /\ c.ulRecNo = a.ulRecNo /\ c.fPositioned = a.fPositioned
        /\ c.fValidBuffer = a.fValidBuffer /\ c.fAppend = a.fAppend
        /\ c.fRecordChanged = a.fRecordChanged /\ c.pRecord = a.pRecord
        /\ c.fFLocked = a.fFLocked /\ c.pLocksPos = a.pLocksPos
        /\ c.ulRecCount = a.ulRecCount /\ c.todo = e
    BY <1>2 DEF Area
  <2> HIDE DEF c
  <2>2. CASE Arg(q) # must
    <3>1. e = t
      BY <2>2
    <3> HIDE DEF e
    <3> QED
      BY <1>3, <1>5, <2>1, <3>1, SoundRest
  <2>3. CASE Arg(q) = must
    <3>1. t # <<>> /\ t[1][1] = "headerUnlock" /\ t[1] \in StepNames \X Nat
      <4>1. t # <<>> /\ MayFollow("headerWrite", t[1][1])
        BY TakenFacts DEF Ready
      <4>2. t[1] \in StepNames \X Nat
        <5> HIDE DEF t
        <5> QED
          BY <1>1, <4>1, TailFacts
      <4> QED
        BY <4>1, <4>2 DEF MayFollow, Onward
    <3> DEFINE y == t[1]
    <3>2. e = <<y>>
      <4>1. Len(t) \in Nat /\ Len(t) > 0
        <5> HIDE DEF t
        <5> QED
          BY <1>1, <3>1, TailFacts
      <4> DEFINE r == SubSeq(t, 1, 1)
      <4>2. r = <<t[1]>>
        <5>1. r \in Seq(StepNames \X Nat) /\ Len(r) = 1 /\ r[1] = t[1]
          BY <1>1, <4>1 DEF Lists
        <5> HIDE DEF r, t
        <5> QED
          BY <5>1
      <4> QED
        BY <2>3, <4>2
    <3> HIDE DEF e, y
    <3>3. Buffer(s, c, recs) /\ ~c.fAppend
      BY <2>1, BufferStays
    <3>4. y \in StepNames \X Nat /\ y[1] = "headerUnlock"
      BY <3>1 DEF y
    <3>5. Plan(c, <<y>>, Len(recs)) /\ ~Appends(c, <<y>>)
      <4>1. Plan(c, <<y>>, Len(recs))
        BY <3>3, <3>4, OnePlan DEF Risky
      <4>2. Names(<<y>>) = {"headerUnlock"}
        BY <3>4, NamesOfOne
      <4> QED
        BY <3>3, <4>1, <4>2 DEF Appends
    <3>6. Plan(c, c.todo, Len(recs)) /\ ~Appends(c, c.todo)
      BY <2>1, <3>2, <3>5
    <3> QED
      BY <1>3, <1>5, <3>3, <3>6, SoundStep
  <2> QED
    BY <2>2, <2>3
<1> QED
  BY <1>3, <1>4, <1>5

LEMMA GoBottomSound ==
    ASSUME NEW s, NEW q, Ready(s, q, "goBottom"), GoBottomStep(s, q)
    PROVE  Sound(s, q)
<1> DEFINE a == area[s]
           x == <<"goTo", Len(recs)>>
           b == [a EXCEPT !.ulRecCount = Len(recs), !.todo = <<x>>]
<1>1. /\ a \in Area /\ Len(recs) \in Nat /\ Len(recs) <= Top /\ Top \in Nat
      /\ Plan(a, q, Len(recs)) /\ q \in Lists /\ q # <<>> /\ q[1][1] = "goBottom"
  BY ReadyFacts
<1>2. /\ b.ulRecNo = a.ulRecNo /\ b.fPositioned = a.fPositioned
      /\ b.fValidBuffer = a.fValidBuffer /\ b.fAppend = a.fAppend
      /\ b.fRecordChanged = a.fRecordChanged /\ b.pRecord = a.pRecord
      /\ b.fFLocked = a.fFLocked /\ b.pLocksPos = a.pLocksPos
      /\ b.ulRecCount = Len(recs) /\ b.todo = <<x>>
  BY <1>1 DEF Area
<1>3. Leaves(s, b) /\ recs' = recs
  BY DEF GoBottomStep
<1>4. x \in StepNames \X Nat /\ x[1] = "goTo" /\ x[2] = Len(recs)
  BY <1>1 DEF StepNames
<1> HIDE DEF b, x
<1>5. Buffer(s, b, recs) /\ ~b.fAppend
  BY <1>2, BufferStays
<1>6. ~a.fRecordChanged
  <2>1. "goBottom" \in Names(q) \cap Risky
    BY <1>1, NamesOfTail DEF Risky
  <2> QED
    BY <1>1, <2>1 DEF Plan, HotPlan
<1>7. Plan(b, <<x>>, Len(recs)) /\ ~Appends(b, <<x>>)
  <2>1. x[2] \in RecNos \/ (x[2] = 0 /\ b.ulRecCount = 0)
    BY <1>1, <1>2, <1>4 DEF RecNos
  <2>2. Plan(b, <<x>>, Len(recs))
    BY <1>2, <1>4, <1>5, <1>6, <2>1, OnePlan
  <2>3. Names(<<x>>) = {"goTo"}
    BY <1>4, NamesOfOne
  <2> QED
    BY <1>5, <2>2, <2>3 DEF Appends
<1> QED
  BY <1>2, <1>3, <1>5, <1>7, SoundStep

\* Nothing has changed when a step is taken that may lose the change.
LEMMA Cooled ==
    ASSUME NEW s, NEW q, NEW x, Ready(s, q, x), x \in Risky
    PROVE  ~area[s].fRecordChanged
<1>1. /\ Plan(area[s], q, Len(recs)) /\ q \in Lists /\ q # <<>> /\ q[1][1] = x
  BY ReadyFacts
<1>2. x \in Names(q) \cap Risky /\ x # "write"
  BY <1>1, NamesOfTail DEF Risky
<1> QED
  BY <1>1, <1>2 DEF Plan, HotPlan

LEMMA UnlockSound ==
    ASSUME NEW s, NEW q, Ready(s, q, "unlock"), UnlockStep(s, q)
    PROVE  Sound(s, q)
<1> DEFINE a == area[s]
           b == [a EXCEPT !.pLocksPos = @ \ {Arg(q)}, !.todo = Tail(q)]
<1>1. a \in Area /\ Buffer(s, a, recs) /\ ~a.fAppend
  BY ReadyFacts
<1>2. /\ b.ulRecNo = a.ulRecNo /\ b.fPositioned = a.fPositioned
      /\ b.fValidBuffer = a.fValidBuffer /\ b.fAppend = a.fAppend
      /\ b.fRecordChanged = a.fRecordChanged /\ b.pRecord = a.pRecord
      /\ b.fFLocked = a.fFLocked /\ b.pLocksPos \subseteq a.pLocksPos
      /\ b.ulRecCount = a.ulRecCount /\ b.todo = Tail(q)
  BY <1>1 DEF Area
<1>3. Leaves(s, b) /\ recs' = recs
  BY DEF UnlockStep
<1>4. ~a.fRecordChanged
  BY Cooled DEF Risky
<1>5. a.ulRecCount <= Len(recs)
  BY <1>1 DEF Buffer, Place
<1>6. MayGoHot(b) => MayGoHot(a)
  BY <1>2 DEF MayGoHot
<1>7. Tail(q) = <<>>
  BY NothingFollows DEF Ready
<1> HIDE DEF b, a
<1>8. Buffer(s, b, recs)
  BY <1>1, <1>2, <1>4, <1>5, <1>6, FreshOfFields
<1> QED
  BY <1>1, <1>2, <1>3, <1>4, <1>7, <1>8, SoundTail DEF Begins

LEMMA FileUnlockSound ==
    ASSUME NEW s, NEW q, Ready(s, q, "fileUnlock"), FileUnlock(s, q)
    PROVE  Sound(s, q)
<1> DEFINE a == area[s]
           b == [a EXCEPT !.fFLocked = FALSE, !.todo = Tail(q)]
<1>1. a \in Area /\ Buffer(s, a, recs) /\ ~a.fAppend
  BY ReadyFacts
<1>2. /\ b.ulRecNo = a.ulRecNo /\ b.fPositioned = a.fPositioned
      /\ b.fValidBuffer = a.fValidBuffer /\ b.fAppend = a.fAppend
      /\ b.fRecordChanged = a.fRecordChanged /\ b.pRecord = a.pRecord
      /\ ~b.fFLocked /\ b.pLocksPos = a.pLocksPos
      /\ b.ulRecCount = a.ulRecCount /\ b.todo = Tail(q)
  BY <1>1 DEF Area
<1>3. Leaves(s, b) /\ recs' = recs
  BY DEF FileUnlock
<1>4. ~a.fRecordChanged
  BY Cooled DEF Risky
<1>5. a.ulRecCount <= Len(recs)
  BY <1>1 DEF Buffer, Place
<1>6. MayGoHot(b) => MayGoHot(a)
  BY <1>2 DEF MayGoHot
<1>7. Tail(q) # <<>> => MayFollow("fileUnlock", Tail(q)[1][1])
  BY TakenFacts DEF Ready
<1>8. ~Begins(Tail(q), "put") /\ ~Begins(Tail(q), "newRecord")
  BY <1>7 DEF Begins, MayFollow, Onward
<1> HIDE DEF b, a
<1>9. Buffer(s, b, recs)
  BY <1>1, <1>2, <1>4, <1>5, <1>6, FreshOfFields
<1> QED
  BY <1>1, <1>2, <1>3, <1>4, <1>8, <1>9, SoundTail

LEMMA UnlockAllSound ==
    ASSUME NEW s, NEW q, Ready(s, q, "unlockAll"), UnlockAllStep(s, q)
    PROVE  Sound(s, q)
<1> DEFINE a == area[s]
           t == Tail(q)
<1>1. /\ a \in Area /\ Buffer(s, a, recs) /\ ~a.fAppend
      /\ q \in Lists /\ q # <<>> /\ q[1][1] = "unlockAll" /\ Plan(a, q, Len(recs))
  BY ReadyFacts
<1>2. PICK r \in a.pLocksPos :
          Leaves(s, [a EXCEPT !.pLocksPos = @ \ {r},
                              !.todo = IF a.pLocksPos = {r} THEN t ELSE q])
  BY DEF UnlockAllStep
<1> DEFINE p == IF a.pLocksPos = {r} THEN t ELSE q
           b == [a EXCEPT !.pLocksPos = @ \ {r}, !.todo = p]
<1>3. Leaves(s, b) /\ recs' = recs
  BY <1>2 DEF UnlockAllStep
<1>4. p \in {t, q}
  OBVIOUS
<1> HIDE DEF p
<1>5. /\ b.ulRecNo = a.ulRecNo /\ b.fPositioned = a.fPositioned
      /\ b.fValidBuffer = a.fValidBuffer /\ b.fAppend = a.fAppend
      /\ b.fRecordChanged = a.fRecordChanged /\ b.pRecord = a.pRecord
      /\ b.fFLocked = a.fFLocked /\ b.pLocksPos \subseteq a.pLocksPos
      /\ b.fHeaderLocked = a.fHeaderLocked
      /\ b.ulRecCount = a.ulRecCount /\ b.todo = p
  BY <1>1 DEF Area
<1>6. ~a.fRecordChanged
  BY Cooled DEF Risky
<1>7. a.ulRecCount <= Len(recs)
  BY <1>1 DEF Buffer, Place
<1>8. MayGoHot(b) => MayGoHot(a)
  BY <1>5 DEF MayGoHot
<1>9. /\ t # <<>> => MayFollow("unlockAll", t[1][1])
      /\ Names(q) = {"unlockAll"} \cup Names(t)
  BY TakenFacts DEF Ready
<1> HIDE DEF b
<1>10. Buffer(s, b, recs)
  BY <1>1, <1>5, <1>6, <1>7, <1>8, FreshOfFields
<1>11. Plan(b, q, Len(recs))
  <2>1. BlankPlan(b, q, Len(recs))
    BY <1>1, <1>5, <1>9 DEF Plan, BlankPlan
  <2>2. HotPlan(b, q) /\ PutPlan(b, q) /\ AppendPlan(b, q)
    BY <1>1, <1>5, <1>6 DEF HotPlan, PutPlan, AppendPlan, Begins
  <2>3. LockPlan(b, q) /\ GoPlan(b, q)
    BY <1>1, <1>5 DEF Plan, LockPlan, GoPlan, New
  <2> QED
    BY <2>1, <2>2, <2>3 DEF Plan
<1>12. Plan(b, t, Len(recs))
  <2>1. New(b) = New(a) /\ ~Begins(t, "put") /\ ~Begins(t, "newRecord")
    BY <1>5, <1>9 DEF New, Begins, MayFollow, Onward
  <2>2. BlankPlan(b, t, Len(recs))
    <3> SUFFICES ASSUME "blank" \in Names(t)
                 PROVE  BlankPlan(b, t, Len(recs))
      BY DEF BlankPlan
    <3>1. "blank" \in Names(q) /\ "unlockAll" \in Names(q)
      BY <1>9
    <3>2. /\ Names(q) \subseteq {"unlockAll", "lock", "goTo", "blank", "headerUnlock"}
          /\ a.fHeaderLocked /\ a.ulRecCount = Len(recs)
          /\ "lock" \in Names(q)
      BY <1>1, <3>1 DEF Plan, BlankPlan
    <3>3. t # <<>>
      <4> HIDE DEF t
      <4> QED
        BY NamesOfEmpty
    <3>4. t[1][1] # "headerUnlock"
      BY <1>9, <3>3 DEF MayFollow, Onward
    <3> QED
      BY <1>5, <1>9, <3>2, <3>4 DEF BlankPlan
  <2> HIDE DEF a
  <2> QED
    BY <1>1, <1>5, <1>6, <2>1, <2>2, TailPlan
<1>13. Appends(b, p) => Appends(a, q)
  BY <1>4, <1>5, <1>9 DEF Appends
<1> HIDE DEF t
<1>14. Plan(b, b.todo, Len(recs)) /\ (Appends(b, b.todo) => Appends(a, q))
  BY <1>4, <1>5, <1>11, <1>12, <1>13
<1> QED
  BY <1>3, <1>10, <1>14, SoundStep

\* When a record is read under its lock, the buffer has what the file has.
LEMMA ReadSound ==
    ASSUME NEW s, NEW q, Ready(s, q, "read"), ReadRecord(s, q)
    PROVE  Sound(s, q)
<1> DEFINE a == area[s]
           t == Tail(q)
           behind == a.fPositioned /\ a.ulRecNo > a.ulRecCount
           count == IF behind THEN Len(recs) ELSE a.ulRecCount
           b == [a EXCEPT !.ulRecCount = count, !.fValidBuffer = TRUE, !.todo = t]
           c == [b EXCEPT !.pRecord = recs[a.ulRecNo]]
           d == [a EXCEPT !.ulRecCount = count, !.todo = <<>>]
<1>1. /\ a \in Area /\ Buffer(s, a, recs) /\ ~a.fAppend
      /\ q \in Lists /\ q # <<>> /\ q[1][1] = "read" /\ Plan(a, q, Len(recs))
      /\ Len(recs) \in Nat
  BY ReadyFacts
<1>2. /\ a.ulRecCount <= Len(recs) /\ (a.fPositioned => a.ulRecNo <= Len(recs))
      /\ a.ulRecNo \in RecNos /\ a.ulRecNo \in Nat /\ a.ulRecNo > 0
  BY <1>1, TopAssumption DEF Buffer, Place, RecNos, Area
<1>3. recs' = recs
  BY DEF ReadRecord
<1>4. count \in {a.ulRecCount, Len(recs)} /\ (a.fPositioned => a.ulRecNo <= count)
  BY <1>1, <1>2 DEF Area
<1>5. count <= Len(recs)
  BY <1>1, <1>2
<1>6. \/ ~a.fPositioned /\ Leaves(s, b)
      \/ a.fPositioned /\ a.ulRecNo \in DOMAIN recs /\ Leaves(s, c)
      \/ Leaves(s, d)
  <2>1. a.fPositioned /\ a.ulRecNo > count => FALSE
    BY <1>1, <1>2, <1>4 DEF Area
  <2> HIDE DEF count
  <2> QED
    BY <2>1 DEF ReadRecord, count
<1> HIDE DEF count
<1>7. /\ b.ulRecNo = a.ulRecNo /\ b.fPositioned = a.fPositioned
      /\ b.fValidBuffer /\ b.fAppend = a.fAppend
      /\ b.fRecordChanged = a.fRecordChanged
      /\ b.fFLocked = a.fFLocked /\ b.pLocksPos = a.pLocksPos
      /\ b.ulRecCount = count /\ b.todo = t
  BY <1>1 DEF Area
<1>8. /\ c.ulRecNo = a.ulRecNo /\ c.fPositioned = a.fPositioned
      /\ c.fValidBuffer /\ c.fAppend = a.fAppend
      /\ c.fRecordChanged = a.fRecordChanged /\ c.pRecord = recs[a.ulRecNo]
      /\ c.fFLocked = a.fFLocked /\ c.pLocksPos = a.pLocksPos
      /\ c.ulRecCount = count /\ c.todo = t
  BY <1>1 DEF Area
<1>9. /\ d.ulRecNo = a.ulRecNo /\ d.fPositioned = a.fPositioned
      /\ d.fValidBuffer = a.fValidBuffer /\ d.fAppend = a.fAppend
      /\ d.fRecordChanged = a.fRecordChanged /\ d.pRecord = a.pRecord
      /\ d.fFLocked = a.fFLocked /\ d.pLocksPos = a.pLocksPos
      /\ d.ulRecCount = count /\ d.todo = <<>>
  BY <1>1 DEF Area
<1>10. t # <<>> => t[1][1] = "put"
  BY NothingFollows DEF Ready
<1>11. ~Begins(t, "newRecord")
  BY <1>10 DEF Begins
<1> HIDE DEF a, b, c, d
<1>12. CASE ~a.fPositioned /\ Leaves(s, b)
  <2>1. Buffer(s, b, recs)
    BY <1>1, <1>2, <1>5, <1>7, <1>12 DEF Buffer, Fresh, Hot, Place
  <2> QED
    BY <1>1, <1>3, <1>7, <1>11, <1>12, <2>1, SoundTail DEF a
<1>13. CASE a.fPositioned /\ a.ulRecNo \in DOMAIN recs /\ Leaves(s, c)
  <2>1. MayGoHot(c) <=> MayGoHot(a)
    BY <1>8 DEF MayGoHot
  <2>2. c.fRecordChanged => Hot(c)
    BY <1>1, <1>8, <1>13, <2>1 DEF Buffer, Hot
  <2>3. Fresh(s, c, recs)
    BY <1>8 DEF Fresh
  <2>4. Place(c, Len(recs))
    BY <1>1, <1>2, <1>5, <1>8 DEF Place
  <2>5. Buffer(s, c, recs)
    BY <1>2, <1>8, <2>2, <2>3, <2>4 DEF Buffer
  <2> QED
    BY <1>1, <1>3, <1>8, <1>11, <1>13, <2>5, SoundTail DEF a
<1>14. CASE Leaves(s, d)
  <2>1. Buffer(s, d, recs) /\ ~d.fAppend
    BY <1>4, <1>9, BufferStays DEF a
  <2>2. Plan(d, <<>>, Len(recs)) /\ ~Appends(d, <<>>)
    BY <2>1, EmptyPlan, NamesOfEmpty DEF Appends
  <2>3. Plan(d, d.todo, Len(recs)) /\ ~Appends(d, d.todo)
    BY <1>9, <2>2
  <2> QED
    BY <1>3, <1>14, <2>1, <2>3, SoundStep
<1> QED
  BY <1>6, <1>12, <1>13, <1>14 DEF a

\* What is put is added to what was read under the lock.
LEMMA PutSound ==
    ASSUME NEW s, NEW q, Ready(s, q, "put"), Put(s, q)
    PROVE  Sound(s, q)
<1> DEFINE a == area[s]
           hot == a.fPositioned /\ (a.fRecordChanged \/ MayGoHot(a))
           c == a.fRecordChanged \/ hot
           v == IF hot THEN a.pRecord \cup {s} ELSE a.pRecord
           b == [a EXCEPT !.fRecordChanged = c, !.pRecord = v, !.todo = Tail(q)]
<1>1. /\ a \in Area /\ Buffer(s, a, recs) /\ ~a.fAppend
      /\ q \in Lists /\ q # <<>> /\ q[1][1] = "put" /\ Plan(a, q, Len(recs))
  BY ReadyFacts
<1>2. Leaves(s, b) /\ recs' = recs
  BY DEF Put
<1>3. a.fValidBuffer
  BY <1>1 DEF Plan, PutPlan, Begins
<1>4. hot <=> a.fPositioned /\ MayGoHot(a)
  BY <1>1 DEF Buffer, Hot
<1>5. c <=> hot
  BY <1>1, <1>4 DEF Buffer, Hot
<1>6. Tail(q) = <<>>
  BY NothingFollows DEF Ready
<1> HIDE DEF hot
<1> HIDE DEF c, v
<1>7. /\ b.ulRecNo = a.ulRecNo /\ b.fPositioned = a.fPositioned
      /\ b.fValidBuffer = a.fValidBuffer /\ b.fAppend = a.fAppend
      /\ b.fRecordChanged = c /\ b.pRecord = v
      /\ b.fFLocked = a.fFLocked /\ b.pLocksPos = a.pLocksPos
      /\ b.ulRecCount = a.ulRecCount /\ b.todo = <<>>
  BY <1>1, <1>6 DEF Area
<1> HIDE DEF b, a
<1>8. MayGoHot(b) <=> MayGoHot(a)
  BY <1>7 DEF MayGoHot
<1>9. Hot(b) <=> hot
  BY <1>3, <1>4, <1>7, <1>8 DEF Hot
<1>10. Buffer(s, b, recs)
  <2>1. Fresh(s, b, recs)
    <3> SUFFICES ASSUME Hot(b), b.ulRecNo \in 1..Len(recs)
                 PROVE  /\ recs[b.ulRecNo] \subseteq b.pRecord
                        /\ b.pRecord \subseteq recs[b.ulRecNo] \cup {s}
      BY DEF Fresh
    <3>1. Hot(a) /\ hot
      BY <1>3, <1>4, <1>9 DEF Hot
    <3>2. v = a.pRecord \cup {s}
      BY <3>1 DEF v
    <3>3. /\ recs[a.ulRecNo] \subseteq a.pRecord
          /\ a.pRecord \subseteq recs[a.ulRecNo] \cup {s}
      BY <1>1, <1>7, <3>1 DEF Buffer, Fresh
    <3> QED
      BY <1>7, <3>2, <3>3
  <2>2. Place(b, Len(recs))
    BY <1>1, <1>7 DEF Buffer, Place
  <2> QED
    BY <1>1, <1>5, <1>7, <1>9, <2>1, <2>2 DEF Buffer
<1>11. Plan(b, <<>>, Len(recs)) /\ ~Appends(b, <<>>)
  BY <1>1, <1>7, EmptyPlan, NamesOfEmpty DEF Appends
<1>12. Plan(b, b.todo, Len(recs)) /\ ~Appends(b, b.todo)
  BY <1>7, <1>11
<1> QED
  BY <1>2, <1>10, <1>12, SoundStep

LEMMA RollbackSound ==
    ASSUME NEW s, NEW q, Ready(s, q, "rollback"), Rollback(s, q)
    PROVE  Sound(s, q)
<1> DEFINE a == area[s]
           b == [a EXCEPT !.fRecordChanged = FALSE, !.fValidBuffer = FALSE,
                          !.pRecord = {}, !.todo = Tail(q)]
<1>1. a \in Area /\ Buffer(s, a, recs) /\ ~a.fAppend
  BY ReadyFacts
<1>2. Leaves(s, b) /\ recs' = recs
  BY <1>1 DEF Rollback
<1>3. Tail(q) = <<>>
  BY NothingFollows DEF Ready
<1>4. /\ b.ulRecNo = a.ulRecNo /\ b.fPositioned = a.fPositioned
      /\ ~b.fValidBuffer /\ b.fAppend = a.fAppend /\ ~b.fRecordChanged
      /\ b.ulRecCount = a.ulRecCount /\ b.todo = <<>>
  BY <1>1, <1>3 DEF Area
<1> HIDE DEF b, a
<1>5. Buffer(s, b, recs)
  BY <1>1, <1>4 DEF Buffer, Fresh, Hot, Place
<1>6. Plan(b, <<>>, Len(recs)) /\ ~Appends(b, <<>>)
  BY <1>1, <1>4, EmptyPlan, NamesOfEmpty DEF Appends
<1>7. Plan(b, b.todo, Len(recs)) /\ ~Appends(b, b.todo)
  BY <1>4, <1>6
<1> QED
  BY <1>2, <1>5, <1>7, SoundStep

\* A table that is opened anew.
LEMMA OpenedSound ==
    ASSUME NEW s, NEW table, Len(table) \in Nat
    PROVE  LET b == Opened(Len(table))
           IN  /\ Plan(b, b.todo, Len(table)) /\ Buffer(s, b, table)
               /\ ~Appends(b, b.todo) /\ b.todo = <<>>
<1> DEFINE b == Opened(Len(table))
<1>1. /\ b.ulRecNo = 1 /\ (b.fPositioned <=> Len(table) > 0) /\ ~b.fAppend
      /\ (b.fValidBuffer <=> Len(table) = 0) /\ ~b.fRecordChanged
      /\ b.ulRecCount = Len(table) /\ b.todo = <<>>
  BY DEF Opened
<1>5. 1 \in RecNos
  BY TopAssumption DEF RecNos
<1> HIDE DEF b
<1>2. Buffer(s, b, table)
  BY <1>1, <1>5 DEF Buffer, Fresh, Hot, Place
<1>3. Plan(b, <<>>, Len(table)) /\ ~Appends(b, <<>>)
  BY <1>1, EmptyPlan, NamesOfEmpty DEF Appends
<1> QED
  BY <1>1, <1>2, <1>3 DEF b

LEMMA CloseSound ==
    ASSUME NEW s, NEW q, Ready(s, q, "close"), CloseStep(s, q)
    PROVE  Sound(s, q)
<1> DEFINE a == area[s]
           p == WriteDBHeader(a, may) \o q
           b == [a EXCEPT !.todo = p]
           c == Opened(Len(recs))
<1>1. /\ a \in Area /\ Buffer(s, a, recs) /\ ~a.fAppend
      /\ q \in Lists /\ q # <<>> /\ q[1][1] = "close" /\ Plan(a, q, Len(recs))
      /\ Chain(q) /\ Len(recs) \in Nat
  BY ReadyFacts
<1>2. recs' = recs /\ (Leaves(s, b) \/ Leaves(s, c))
  BY DEF CloseStep
<1>3. CASE Leaves(s, c)
  <2>1. Plan(c, c.todo, Len(recs)) /\ Buffer(s, c, recs) /\ ~Appends(c, c.todo)
    BY <1>1, OpenedSound
  <2> HIDE DEF c
  <2> QED
    BY <1>2, <1>3, <2>1, SoundStep
<1>4. CASE Leaves(s, b)
  <2>1. Tail(q) = <<>>
    BY NothingFollows DEF Ready
  <2>2. ~a.fHeaderLocked /\ Names(q) = {"close"}
    BY <1>1, <2>1, LastStep, NamesOfTail, NamesOfEmpty DEF Ready
  <2>3. IsUpdate(p, a, may, q) /\ may \in Nat
    BY StepsAreNamed DEF IsUpdate
  <2> HIDE DEF p, a
  <2>4. /\ Good(p) /\ p[1][1] = "headerLock"
        /\ Names(p) = {"headerLock", "count", "headerWrite", "headerUnlock"} \cup Names(q)
    BY <1>1, <2>2, <2>3, HeaderList DEF Onward
  <2>5. /\ b.ulRecNo = a.ulRecNo /\ b.fPositioned = a.fPositioned
        /\ b.fValidBuffer = a.fValidBuffer /\ b.fAppend = a.fAppend
        /\ b.fRecordChanged = a.fRecordChanged /\ b.pRecord = a.pRecord
        /\ b.fFLocked = a.fFLocked /\ b.pLocksPos = a.pLocksPos
        /\ b.ulRecCount = a.ulRecCount /\ b.todo = p
    BY <1>1 DEF Area
  <2>6. ~a.fRecordChanged
    BY Cooled DEF Risky, a
  <2> HIDE DEF b
  <2>7. Buffer(s, b, recs) /\ ~b.fAppend
    BY <2>5, BufferStays DEF a
  <2>8. Plan(b, p, Len(recs))
    BY <2>2, <2>4, <2>5, <2>6, <2>7, PlainPlan DEF Good, Begins
  <2>9. ~Appends(b, p)
    BY <2>2, <2>4, <2>7 DEF Appends
  <2>10. Plan(b, b.todo, Len(recs)) /\ ~Appends(b, b.todo)
    BY <2>5, <2>8, <2>9
  <2> QED
    BY <1>2, <1>4, <2>7, <2>10, SoundStep
<1> QED
  BY <1>2, <1>3, <1>4

\* What is left when the new record is to be filled.
LEMMA BlankTail ==
    ASSUME NEW t, Good(t), t[1][1] = "blank"
    PROVE  /\ Len(t) = 2 /\ t[2][1] = "headerUnlock" /\ Tail(t) = <<t[2]>>
           /\ t[2] \in StepNames \X Nat
           /\ Names(t) = {"blank", "headerUnlock"}
<1> DEFINE u == Tail(t)
<1>1. t \in Lists /\ t # <<>> /\ Chain(t)
  BY DEF Good
<1>2. /\ Len(t) \in Nat /\ Len(t) > 0 /\ u \in Lists /\ Len(u) = Len(t) - 1
      /\ u # <<>> => u[1] = t[2]
  BY <1>1, TailFacts
<1>3. u # <<>> /\ MayFollow("blank", u[1][1]) /\ Chain(u)
  BY <1>1, ChainOfTail
<1>4. Len(t) = 2
  <2>1. 1 \in 1..Len(t)
    BY <1>2
  <2>2. \A i \in 1..Len(t) : t[i][1] = "blank" => Len(t) = i + 1
    BY <1>1 DEF Chain
  <2>3. Len(t) = 1 + 1
    BY <2>1, <2>2
  <2> QED
    BY <2>3
<1>5. u[1][1] = "headerUnlock"
  BY <1>3 DEF MayFollow, Onward
<1>6. Names(t) = {"blank"} \cup Names(u)
  BY <1>1, NamesOfTail
<1> HIDE DEF u
<1>7. u = <<u[1]>> /\ u[1] \in StepNames \X Nat
  <2>1. Len(u) = 1
    BY <1>2, <1>4
  <2> QED
    BY SMTT(30), <1>2, <2>1 DEF Lists
<1> DEFINE y == u[1]
<1>8. Names(<<y>>) = {y[1]}
  BY <1>7, NamesOfOne
<1>9. Names(u) = {"headerUnlock"}
  BY <1>5, <1>7, <1>8
<1> QED
  BY <1>2, <1>3, <1>4, <1>5, <1>6, <1>7, <1>9 DEF u

\* Wherever the station goes, its buffer is empty.
LEMMA GoToSound ==
    ASSUME NEW s, NEW q, Ready(s, q, "goTo"), GoToStep(s, q)
    PROVE  Sound(s, q)
<1> DEFINE a == area[s]
           t == Tail(q)
           r == Arg(q)
           count == IF r > a.ulRecCount THEN Len(recs) ELSE a.ulRecCount
           there == r \in 1 .. count
           no == IF there THEN r ELSE count + 1
           b == [a EXCEPT !.ulRecCount = count, !.ulRecNo = no,
                          !.fPositioned = there, !.fValidBuffer = ~there,
                          !.pRecord = {}, !.todo = t]
<1>1. /\ a \in Area /\ Buffer(s, a, recs) /\ ~a.fAppend
      /\ q \in Lists /\ q # <<>> /\ q[1][1] = "goTo" /\ Plan(a, q, Len(recs))
      /\ Chain(q) /\ Len(recs) \in Nat /\ Len(recs) <= Top /\ Top \in Nat
  BY ReadyFacts
<1>2. /\ r = q[1][2] /\ r \in Nat /\ Names(q) = {"goTo"} \cup Names(t)
      /\ t # <<>> => Good(t) /\ MayFollow("goTo", t[1][1])
  BY TakenFacts DEF Ready
<1>3. Leaves(s, b) /\ recs' = recs
  BY DEF GoToStep
<1>4. a.ulRecCount \in Nat /\ a.ulRecCount <= Len(recs)
  BY <1>1 DEF Buffer, Place, Area
<1>5. r \in RecNos \/ (r = 0 /\ a.ulRecCount = 0)
  <2>1. q[1] \in Steps(q)
    BY <1>1, StepsOfTail
  <2> QED
    BY <1>1, <1>2, <2>1 DEF Plan, GoPlan
<1>6. no \in RecNos /\ (there => no <= Len(recs)) /\ there \in BOOLEAN
  BY <1>1, <1>2, <1>4, <1>5, TopAssumption DEF RecNos
<1>7. count \in {a.ulRecCount, Len(recs)} /\ count <= Len(recs)
  BY <1>1, <1>4
<1> HIDE DEF no, there, count, r
<1>8. /\ b.ulRecNo = no /\ (b.fPositioned <=> there)
      /\ (b.fValidBuffer <=> ~there) /\ b.fAppend = a.fAppend
      /\ b.fRecordChanged = a.fRecordChanged
      /\ b.fFLocked = a.fFLocked /\ b.pLocksPos = a.pLocksPos
      /\ b.fHeaderLocked = a.fHeaderLocked
      /\ b.ulRecCount = count /\ b.todo = t
  BY <1>1 DEF Area
<1>9. ~a.fRecordChanged
  BY Cooled DEF Risky
<1>10. t # <<>> => t[1][1] = "blank"
  BY <1>2 DEF MayFollow, Onward
<1> HIDE DEF b, a, t
<1>11. Buffer(s, b, recs)
  BY <1>1, <1>6, <1>7, <1>8, <1>9 DEF Buffer, Fresh, Hot, Place
<1>12. BlankPlan(b, t, Len(recs)) /\ ("blank" \in Names(t) => New(b) = New(a))
  <2> SUFFICES ASSUME "blank" \in Names(t)
               PROVE  BlankPlan(b, t, Len(recs)) /\ New(b) = New(a)
    BY DEF BlankPlan
  <2>1. t # <<>>
    BY NamesOfEmpty
  <2>2. Names(t) = {"blank", "headerUnlock"} /\ t[1][1] = "blank"
    BY <1>2, <1>10, <2>1, BlankTail
  <2>3. /\ a.fHeaderLocked /\ a.ulRecCount = Len(recs)
        /\ a.fFLocked \/ New(a) \in a.pLocksPos
    BY <1>1, <1>2, <2>2 DEF Plan, BlankPlan
  <2>4. b.ulRecCount = a.ulRecCount
    BY <1>7, <1>8, <2>3
  <2>5. New(b) = New(a)
    BY <2>4 DEF New
  <2> QED
    BY <1>8, <2>2, <2>3, <2>4, <2>5 DEF BlankPlan
<1>13. Plan(b, t, Len(recs))
  <2>1. ~Begins(t, "put") /\ ~Begins(t, "newRecord")
    BY <1>10 DEF Begins
  <2> QED
    BY <1>1, <1>8, <1>9, <1>12, <2>1, TailPlan DEF t
<1>14. Appends(b, t) => Appends(a, q)
  BY <1>2, <1>8 DEF Appends
<1>15. Plan(b, b.todo, Len(recs)) /\ (Appends(b, b.todo) => Appends(a, q))
  BY <1>8, <1>13, <1>14
<1> QED
  BY <1>3, <1>11, <1>15, SoundStep DEF a

\* A lock on the current record: what was in the buffer is not used any more.
LEMMA AfterLockSound ==
    ASSUME NEW s, NEW a, NEW c \in Area, NEW t \in Lists, NEW table, Len(table) \in Nat,
           Buffer(s, a, table), ~a.fAppend,
           c.ulRecNo = a.ulRecNo, c.fPositioned = a.fPositioned,
           c.fValidBuffer = a.fValidBuffer, c.fAppend = a.fAppend,
           c.fRecordChanged = a.fRecordChanged, c.pRecord = a.pRecord,
           c.ulRecCount = a.ulRecCount, c.fRecordChanged => MayGoHot(c),
           Plan(c, t, Len(table)), t # <<>> => Good(t) /\ t[1][1] = "blank"
    PROVE  LET b == AfterLock(c, t)
           IN  /\ Plan(b, b.todo, Len(table)) /\ Buffer(s, b, table)
               /\ Appends(b, b.todo) => Appends(c, t)
<1>1. c.ulRecNo \in RecNos /\ c.ulRecNo \in Nat /\ Place(c, Len(table))
  BY DEF Buffer, Place, Area
<1>2. c.fRecordChanged => Hot(c) /\ Hot(a)
  BY DEF Buffer, Hot
<1>3. CASE ~c.fPositioned
  <2> DEFINE x == <<"goTo", c.ulRecNo>>
             g == <<x>> \o t
             b == [c EXCEPT !.todo = g]
  <2>1. AfterLock(c, t) = b
    BY <1>3 DEF AfterLock
  <2>2. x \in StepNames \X Nat /\ x[1] = "goTo" /\ x[2] \in RecNos
    BY <1>1 DEF StepNames
  <2> HIDE DEF x
  <2>3. /\ b.ulRecNo = c.ulRecNo /\ b.fPositioned = c.fPositioned
        /\ b.fValidBuffer = c.fValidBuffer /\ b.fAppend = c.fAppend
        /\ b.fRecordChanged = c.fRecordChanged
        /\ b.ulRecCount = c.ulRecCount /\ b.todo = g
        /\ b.fFLocked = c.fFLocked /\ b.pLocksPos = c.pLocksPos
        /\ b.fHeaderLocked = c.fHeaderLocked
    BY DEF Area
  <2> HIDE DEF b
  <2>4. ~b.fRecordChanged
    BY <1>2, <1>3, <2>3 DEF Hot
  <2>5. Buffer(s, b, table)
    BY <1>1, <1>3, <2>3, <2>4 DEF Buffer, Fresh, Hot, Place
  <2>6. Plan(b, g, Len(table)) /\ Names(g) = {"goTo"} \cup Names(t)
    <3>1. CASE t = <<>>
      <4> DEFINE o == <<x>>
      <4>1. o \in Lists /\ Names(o) = {"goTo"} /\ Names(t) = {}
        BY <2>2, <3>1, NamesOfOne, NamesOfEmpty
      <4>2. Plan(b, o, Len(table))
        BY <2>2, <2>3, <2>4, OnePlan
      <4> HIDE DEF o
      <4>3. o \o t = o
        BY <3>1, <4>1, ConcatNone
      <4> QED
        BY <4>1, <4>2, <4>3 DEF o
    <3>2. CASE t # <<>>
      <4>1. Good(t) /\ t[1][1] = "blank" /\ Names(t) = {"blank", "headerUnlock"}
        BY <3>2, BlankTail
      <4> DEFINE o == <<x>>
      <4>2. o \in Lists /\ o # <<>> /\ o[1] = x /\ Names(o) = {"goTo"} /\ Steps(o) = {x}
        BY <2>2, NamesOfOne, StepsOfOne
      <4>7. o \o t = g
        OBVIOUS
      <4> HIDE DEF o, g
      <4>8. /\ o \o t # <<>> /\ (o \o t)[1] = x /\ o \o t \in Lists
            /\ Names(o \o t) = Names(o) \cup Names(t)
            /\ Steps(o \o t) \subseteq Steps(o) \cup Steps(t)
        BY <4>2, FirstOfConcat, NamesOfConcat, StepsOfConcat, ConcatFacts
      <4>3. /\ g # <<>> /\ g[1] = x /\ g \in Lists
            /\ Names(g) = {"goTo", "blank", "headerUnlock"}
            /\ Steps(g) \subseteq {x} \cup Steps(t)
        BY <4>1, <4>2, <4>7, <4>8
      <4>4. HotPlan(b, g) /\ PutPlan(b, g) /\ AppendPlan(b, g)
        BY <2>2, <2>3, <2>4, <4>3 DEF HotPlan, PutPlan, AppendPlan, Begins
      <4>5. LockPlan(b, g) /\ GoPlan(b, g)
        <5>1. \A y \in Steps(t) : y[1] # "lock" /\ y[1] # "goTo"
          BY <4>1, NamesAreOfSteps
        <5> QED
          BY <2>2, <4>3, <5>1 DEF LockPlan, GoPlan
      <4>6. BlankPlan(b, g, Len(table))
        <5>1. /\ c.fHeaderLocked /\ c.ulRecCount = Len(table)
              /\ c.fFLocked \/ New(c) \in c.pLocksPos
          BY <4>1 DEF Plan, BlankPlan
        <5> QED
          BY <2>2, <2>3, <4>3, <5>1 DEF BlankPlan, New
      <4> QED
        BY <4>1, <4>3, <4>4, <4>5, <4>6 DEF Plan
    <3> QED
      BY <3>1, <3>2
  <2> HIDE DEF g
  <2>7. Appends(b, g) => Appends(c, t)
    BY <2>3, <2>6 DEF Appends
  <2>8. Plan(b, b.todo, Len(table)) /\ (Appends(b, b.todo) => Appends(c, t))
    BY <2>3, <2>6, <2>7
  <2> QED
    BY <2>1, <2>5, <2>8
<1>4. CASE c.fPositioned
  <2> DEFINE b == IF c.fRecordChanged THEN [c EXCEPT !.todo = t]
                  ELSE [c EXCEPT !.fValidBuffer = FALSE, !.pRecord = {}, !.todo = t]
  <2>1. AfterLock(c, t) = b
    BY <1>4 DEF AfterLock
  <2>2. /\ b.ulRecNo = c.ulRecNo /\ b.fPositioned = c.fPositioned
        /\ b.fAppend = c.fAppend /\ b.fRecordChanged = c.fRecordChanged
        /\ b.ulRecCount = c.ulRecCount /\ b.todo = t
        /\ b.fFLocked = c.fFLocked /\ b.pLocksPos = c.pLocksPos
        /\ b.fHeaderLocked = c.fHeaderLocked
        /\ c.fRecordChanged => b.fValidBuffer = c.fValidBuffer /\ b.pRecord = c.pRecord
        /\ ~c.fRecordChanged => ~b.fValidBuffer
    <3>1. CASE c.fRecordChanged
      BY <3>1 DEF Area
    <3>2. CASE ~c.fRecordChanged
      BY <3>2 DEF Area
    <3> QED
      BY <3>1, <3>2
  <2> HIDE DEF b
  <2>3. MayGoHot(b) <=> MayGoHot(c)
    BY <2>2 DEF MayGoHot
  <2>4. Buffer(s, b, table)
    <3>1. b.fRecordChanged => Hot(b)
      BY <1>2, <2>2, <2>3 DEF Hot
    <3>2. Fresh(s, b, table)
      BY <1>2, <2>2 DEF Buffer, Fresh, Hot
    <3>3. Place(b, Len(table))
      BY <1>1, <2>2 DEF Place
    <3> QED
      BY <1>1, <2>2, <3>1, <3>2, <3>3 DEF Buffer
  <2>5. Plan(b, t, Len(table))
    <3>1. ~Begins(t, "put")
      BY DEF Begins
    <3> QED
      BY <2>2, <3>1
      DEF Plan, HotPlan, PutPlan, LockPlan, GoPlan, BlankPlan, AppendPlan, New
  <2>6. Appends(b, t) => Appends(c, t)
    BY <2>2 DEF Appends
  <2>7. Plan(b, b.todo, Len(table)) /\ (Appends(b, b.todo) => Appends(c, t))
    BY <2>2, <2>5, <2>6
  <2> QED
    BY <2>1, <2>4, <2>7
<1> QED
  BY <1>3, <1>4 DEF Area

LEMMA LockSound ==
    ASSUME NEW s, NEW q, Ready(s, q, "lock"), LockStep(s, q)
    PROVE  Sound(s, q)
<1> DEFINE a == area[s]
           t == Tail(q)
           r == Arg(q)
           locked == [a EXCEPT !.pLocksPos = @ \cup {r}]
           d == [locked EXCEPT !.todo = t]
           e == IF t = <<>> THEN <<>> ELSE <<<<"headerUnlock", 0>>>>
           c == [a EXCEPT !.todo = e]
<1>1. /\ a \in Area /\ Buffer(s, a, recs) /\ ~a.fAppend
      /\ q \in Lists /\ q # <<>> /\ q[1][1] = "lock" /\ Plan(a, q, Len(recs))
      /\ Chain(q) /\ Len(recs) \in Nat
  BY ReadyFacts
<1>2. /\ r = q[1][2] /\ r \in Nat /\ Names(q) = {"lock"} \cup Names(t) /\ t \in Lists
      /\ t # <<>> => Good(t) /\ MayFollow("lock", t[1][1])
  BY TakenFacts DEF Ready
<1>3. t # <<>> => t[1][1] = "blank"
  BY <1>2 DEF MayFollow, Onward
<1>4. recs' = recs
  BY DEF LockStep
<1>5. \/ r = locked.ulRecNo /\ Leaves(s, AfterLock(locked, t))
      \/ r # locked.ulRecNo /\ Leaves(s, d)
      \/ Leaves(s, c)
  BY DEF LockStep
<1>6. /\ locked.ulRecNo = a.ulRecNo /\ locked.fPositioned = a.fPositioned
      /\ locked.fValidBuffer = a.fValidBuffer /\ locked.fAppend = a.fAppend
      /\ locked.fRecordChanged = a.fRecordChanged /\ locked.pRecord = a.pRecord
      /\ locked.ulRecCount = a.ulRecCount /\ locked.fFLocked = a.fFLocked
      /\ locked.pLocksPos = a.pLocksPos \cup {r} /\ locked.fHeaderLocked = a.fHeaderLocked
      /\ locked \in Area
  BY <1>1, <1>2 DEF Area
<1>7. q[1] \in Steps(q)
  BY <1>1, StepsOfTail
<1> HIDE DEF r, locked, a, t
<1>8. MayGoHot(a) => MayGoHot(locked)
  BY <1>6 DEF MayGoHot
<1>9. locked.fRecordChanged => MayGoHot(locked)
  BY <1>1, <1>6, <1>8 DEF Buffer, Hot
<1>10. Plan(locked, t, Len(recs))
  <2>1. ~Begins(t, "put") /\ ~Begins(t, "newRecord") /\ New(locked) = New(a)
    BY <1>3, <1>6 DEF Begins, New
  <2>2. BlankPlan(locked, t, Len(recs))
    <3> SUFFICES ASSUME "blank" \in Names(t)
                 PROVE  BlankPlan(locked, t, Len(recs))
      BY DEF BlankPlan
    <3>1. t # <<>>
      BY NamesOfEmpty
    <3>2. Names(t) = {"blank", "headerUnlock"} /\ t[1][1] = "blank"
      BY <1>2, <1>3, <3>1, BlankTail
    <3>3. a.fHeaderLocked /\ a.ulRecCount = Len(recs) /\ r = New(a)
      BY <1>1, <1>2, <1>7, <3>2 DEF Plan, BlankPlan, LockPlan
    <3> QED
      BY <1>6, <2>1, <3>2, <3>3 DEF BlankPlan
  <2> QED
    BY <1>1, <1>6, <2>1, <2>2, TailPlan DEF t
<1>11. Appends(locked, t) => Appends(a, q)
  BY <1>2, <1>6 DEF Appends
<1>12. CASE r = locked.ulRecNo /\ Leaves(s, AfterLock(locked, t))
  <2> DEFINE b == AfterLock(locked, t)
  <2>1. /\ Plan(b, b.todo, Len(recs)) /\ Buffer(s, b, recs)
        /\ Appends(b, b.todo) => Appends(locked, t)
    BY <1>1, <1>2, <1>3, <1>6, <1>9, <1>10, AfterLockSound
  <2> HIDE DEF b
  <2>2. Leaves(s, b)
    BY <1>12 DEF b
  <2> QED
    BY <1>4, <1>11, <2>1, <2>2, SoundStep DEF a
<1>13. CASE r # locked.ulRecNo /\ Leaves(s, d)
  <2>1. /\ d.ulRecNo = locked.ulRecNo /\ d.fPositioned = locked.fPositioned
        /\ d.fValidBuffer = locked.fValidBuffer /\ d.fAppend = locked.fAppend
        /\ d.fRecordChanged = locked.fRecordChanged /\ d.pRecord = locked.pRecord
        /\ d.ulRecCount = locked.ulRecCount /\ d.fFLocked = locked.fFLocked
        /\ d.pLocksPos = locked.pLocksPos /\ d.fHeaderLocked = locked.fHeaderLocked
        /\ d.todo = t
    BY <1>6 DEF Area
  <2> HIDE DEF d
  <2>2. Plan(d, t, Len(recs)) /\ (Appends(d, t) => Appends(a, q))
    BY <1>10, <1>11, <2>1
    DEF Plan, HotPlan, PutPlan, LockPlan, GoPlan, BlankPlan, AppendPlan, New,
        Appends
  <2>3. MayGoHot(d) <=> MayGoHot(a)
    BY <1>6, <1>13, <2>1 DEF MayGoHot
  <2>4. a.ulRecCount <= Len(recs) /\ (a.fRecordChanged => MayGoHot(a))
    BY <1>1 DEF Buffer, Place, Hot
  <2>5. Buffer(s, d, recs)
    BY <1>1, <1>6, <2>1, <2>3, <2>4, FreshOfFields
  <2>6. Plan(d, d.todo, Len(recs)) /\ (Appends(d, d.todo) => Appends(a, q))
    BY <2>1, <2>2
  <2> QED
    BY <1>4, <1>13, <2>5, <2>6, SoundStep DEF a
<1>14. CASE Leaves(s, c)
  <2>1. /\ c.ulRecNo = a.ulRecNo /\ c.fPositioned = a.fPositioned
        /\ c.fValidBuffer = a.fValidBuffer /\ c.fAppend = a.fAppend
        /\ c.fRecordChanged = a.fRecordChanged /\ c.pRecord = a.pRecord
        /\ c.ulRecCount = a.ulRecCount /\ c.fFLocked = a.fFLocked
        /\ c.pLocksPos = a.pLocksPos /\ c.todo = e
    BY <1>1 DEF Area
  <2> HIDE DEF c
  <2>2. Buffer(s, c, recs) /\ ~c.fAppend
    BY <2>1, BufferStays DEF a
  <2>3. Plan(c, e, Len(recs)) /\ ~Appends(c, e)
    <3>1. CASE t = <<>>
      BY <2>2, <3>1, EmptyPlan, NamesOfEmpty DEF Appends
    <3>2. CASE t # <<>>
      <4> DEFINE x == <<"headerUnlock", 0>>
      <4>1. x \in StepNames \X Nat /\ x[1] = "headerUnlock" /\ e = <<x>>
        BY <3>2 DEF StepNames
      <4> HIDE DEF x, e
      <4>2. Plan(c, <<x>>, Len(recs)) /\ Names(<<x>>) = {"headerUnlock"}
        BY <2>2, <4>1, OnePlan, NamesOfOne DEF Risky
      <4> QED
        BY <2>2, <4>1, <4>2 DEF Appends
    <3> QED
      BY <3>1, <3>2
  <2>4. Plan(c, c.todo, Len(recs)) /\ ~Appends(c, c.todo)
    BY <2>1, <2>3
  <2> QED
    BY <1>4, <1>14, <2>2, <2>4, SoundStep
<1> QED
  BY <1>5, <1>12, <1>13, <1>14

LEMMA FileLockSound ==
    ASSUME NEW s, NEW q, Ready(s, q, "fileLock"), FileLock(s, q)
    PROVE  Sound(s, q)
<1> DEFINE a == area[s]
           t == Tail(q)
           f == FileFree(s)
           c == [a EXCEPT !.fFLocked = f]
           b == AfterLock(c, t)
<1>1. /\ a \in Area /\ Buffer(s, a, recs) /\ ~a.fAppend
      /\ Plan(a, q, Len(recs)) /\ Len(recs) \in Nat
  BY ReadyFacts
<1>2. t = <<>> /\ t \in Lists
  BY NothingFollows, TakenFacts DEF Ready
<1>3. recs' = recs /\ Leaves(s, b)
  BY DEF FileLock
<1>4. ~a.fFLocked /\ a.pLocksPos = {}
  <2>1. LockShape(a, q) /\ q # <<>> /\ q[1][1] = "fileLock" /\ q \in Lists
    BY DEF Ready, Taken, Shape
  <2> QED
    BY <2>1, NamesOfTail DEF LockShape, Begins
<1>5. ~a.fRecordChanged
  BY <1>1, <1>4 DEF Buffer, Hot, MayGoHot
<1>6. f \in BOOLEAN
  BY DEF FileFree
<1> HIDE DEF f
<1>7. /\ c.ulRecNo = a.ulRecNo /\ c.fPositioned = a.fPositioned
      /\ c.fValidBuffer = a.fValidBuffer /\ c.fAppend = a.fAppend
      /\ c.fRecordChanged = a.fRecordChanged /\ c.pRecord = a.pRecord
      /\ c.ulRecCount = a.ulRecCount /\ c \in Area
  BY <1>1, <1>6 DEF Area
<1> HIDE DEF c
<1>8. Plan(c, t, Len(recs)) /\ ~Appends(c, t)
  BY <1>1, <1>2, <1>7, EmptyPlan, NamesOfEmpty DEF Appends
<1> HIDE DEF t, a
<1>9. /\ Plan(b, b.todo, Len(recs)) /\ Buffer(s, b, recs)
      /\ Appends(b, b.todo) => Appends(c, t)
  BY <1>1, <1>2, <1>5, <1>7, <1>8, AfterLockSound
<1> HIDE DEF b
<1> QED
  BY <1>3, <1>8, <1>9, SoundStep

\* What AppendList leaves open: the lock it asks for.
LEMMA AppendSteps ==
    ASSUME NEW a, ~a.fRecordChanged, NEW n \in Nat, NEW excl \in BOOLEAN
    PROVE  LET q == (IF a.fFLocked \/ n \in a.pLocksPos THEN <<>> ELSE LockRecord(a, n, excl))
                    \o <<<<"blank", 0>>, <<"headerUnlock", 0>>>>
           IN  /\ \A x \in Steps(q) : x[1] = "lock" => x[2] = n
               /\ \/ "lock" \in Names(q)
                  \/ "unlockAll" \notin Names(q) /\ (a.fFLocked \/ n \in a.pLocksPos)
<1> DEFINE x1 == <<"blank", 0>>
           x2 == <<"headerUnlock", 0>>
           y == <<"lock", n>>
           z == <<"unlockAll", 0>>
           P == <<x1, x2>>
           one == <<y>>
           A == IF excl THEN UnlockAllRecords(a) ELSE <<>>
           L == A \o one
           M == IF a.fFLocked \/ n \in a.pLocksPos THEN <<>> ELSE LockRecord(a, n, excl)
           q == M \o P
<1>1. /\ x1 \in StepNames \X Nat /\ x2 \in StepNames \X Nat
      /\ y \in StepNames \X Nat /\ z \in StepNames \X Nat
  BY DEF StepNames
<1>2. x1[1] = "blank" /\ x2[1] = "headerUnlock" /\ y[1] = "lock" /\ z[1] = "unlockAll"
      /\ y[2] = n
  OBVIOUS
<1>3. LockRecord(a, n, excl) = L
  BY DEF LockRecord
<1>4. A \in {<<>>, <<>> \o <<z>>}
  BY DEF UnlockAllRecords, Cold
<1> HIDE DEF x1, x2, y, z
<1>5. /\ one \in Lists /\ Names(one) = {"lock"} /\ Steps(one) = {y}
      /\ <<z>> \in Lists /\ Steps(<<z>>) = {z} /\ <<>> \in Lists
  BY <1>1, <1>2, NamesOfOne, StepsOfOne, ConcatNone
<1>6. P \in Lists /\ Steps(P) \subseteq {x1, x2}
  <2>1. P \in Lists
    BY <1>1, PairIsConcat
  <2>2. Len(P) = 2 /\ P[1] = x1 /\ P[2] = x2
    OBVIOUS
  <2> HIDE DEF P
  <2> QED
    BY <2>1, <2>2 DEF Steps
<1>7. A \in Lists /\ Steps(A) \subseteq {z}
  <2> DEFINE zz == <<z>>
  <2>1. zz \in Lists /\ Steps(zz) = {z} /\ A \in {<<>>, <<>> \o zz}
    BY <1>4, <1>5
  <2> HIDE DEF zz
  <2>2. <<>> \o zz = zz
    BY <2>1, ConcatNone
  <2> QED
    BY <1>5, <2>1, <2>2, StepsOfEmpty
<1> HIDE DEF A, one, P
<1>8. /\ L \in Lists /\ Steps(L) \subseteq {y, z} /\ "lock" \in Names(L)
  <2>1. A \o one \in Lists
    BY <1>5, <1>7, ConcatFacts
  <2>2. Steps(A \o one) \subseteq Steps(A) \cup Steps(one)
    BY <1>5, <1>7, StepsOfConcat
  <2>3. Names(A \o one) = Names(A) \cup Names(one)
    BY <1>5, <1>7, NamesOfConcat
  <2> QED
    BY <1>5, <1>7, <2>1, <2>2, <2>3
<1> HIDE DEF L
<1>9. CASE a.fFLocked \/ n \in a.pLocksPos
  <2>1. q = P
    <3>1. q = <<>> \o P
      BY <1>9
    <3> QED
      BY <1>6, <3>1, ConcatNone
  <2>2. "unlockAll" \notin Names(P)
    BY <1>2, <1>6, NamesAreOfSteps
  <2> HIDE DEF q
  <2>3. /\ \A x \in Steps(q) : x[1] = "lock" => x[2] = n
        /\ "unlockAll" \notin Names(q)
    BY <1>2, <1>6, <2>1, <2>2
  <2> QED
    BY <1>9, <2>3 DEF q, M, P, x1, x2
<1>10. CASE ~(a.fFLocked \/ n \in a.pLocksPos)
  <2>1. q = L \o P
    BY <1>3, <1>10
  <2> HIDE DEF q
  <2>2. Steps(q) \subseteq {y, z, x1, x2} /\ "lock" \in Names(q)
    BY <1>6, <1>8, <2>1, StepsOfConcat, NamesOfConcat
  <2>3. \A x \in Steps(q) : x[1] = "lock" => x[2] = n
    BY <1>2, <2>2
  <2> QED
    BY <2>2, <2>3 DEF q, M, P, x1, x2
<1> QED
  BY <1>9, <1>10

LEMMA NewRecordSound ==
    ASSUME NEW s, NEW q, Ready(s, q, "newRecord"), NewRecord(s, q)
    PROVE  Sound(s, q)
<1> DEFINE n == Len(recs) + 1
           c == n - 1
           a == [area[s] EXCEPT !.ulRecCount = c]
           excl == Arg(q) = 1
           p == (IF a.fFLocked \/ n \in a.pLocksPos THEN <<>> ELSE LockRecord(a, n, excl))
                \o <<<<"blank", 0>>, <<"headerUnlock", 0>>>>
           b == [a EXCEPT !.todo = p]
<1>1. /\ area[s] \in Area /\ ~area[s].fAppend
      /\ q \in Lists /\ q # <<>> /\ q[1][1] = "newRecord" /\ Plan(area[s], q, Len(recs))
      /\ Len(recs) \in Nat /\ Top \in Nat
      /\ Appends(area[s], q) => Len(recs) + 1 <= Top
  BY ReadyFacts
<1>2. Leaves(s, b) /\ recs' = recs
  BY DEF NewRecord
<1>3. ~area[s].fRecordChanged
  BY Cooled DEF Risky
<1>4. Appends(area[s], q)
  BY <1>1, NamesOfTail DEF Appends
<1>5. area[s].fHeaderLocked
  BY <1>1 DEF Plan, AppendPlan, Begins
<1>6. n \in RecNos /\ n \in Nat /\ c = Len(recs)
  BY <1>1, <1>4 DEF RecNos
<1> HIDE DEF c
<1>7. /\ a.ulRecNo = area[s].ulRecNo /\ a.fPositioned = area[s].fPositioned
      /\ a.fValidBuffer = area[s].fValidBuffer /\ a.fAppend = area[s].fAppend
      /\ a.fRecordChanged = area[s].fRecordChanged /\ a.pRecord = area[s].pRecord
      /\ a.fFLocked = area[s].fFLocked /\ a.pLocksPos = area[s].pLocksPos
      /\ a.fHeaderLocked = area[s].fHeaderLocked /\ a.ulRecCount = Len(recs)
      /\ DOMAIN a = DOMAIN area[s] /\ a \in Area
  BY <1>1, <1>6 DEF Area
<1>8. n = New(a)
  BY <1>7 DEF New
<1> HIDE DEF a, n, excl
<1>9. excl \in BOOLEAN
  BY DEF excl
<1>10. /\ Good(p) /\ p[1][1] \in {"blank", "lock", "unlockAll"}
       /\ Names(p) \subseteq {"blank", "headerUnlock", "lock", "unlockAll"}
  BY <1>3, <1>6, <1>7, <1>9, AppendList
<1>11. /\ \A x \in Steps(p) : x[1] = "lock" => x[2] = n
       /\ \/ "lock" \in Names(p)
          \/ "unlockAll" \notin Names(p) /\ (a.fFLocked \/ n \in a.pLocksPos)
  BY <1>3, <1>6, <1>7, <1>9, AppendSteps
<1> HIDE DEF p
<1>12. /\ b.ulRecNo = a.ulRecNo /\ b.fPositioned = a.fPositioned
       /\ b.fValidBuffer = a.fValidBuffer /\ b.fAppend = a.fAppend
       /\ b.fRecordChanged = a.fRecordChanged /\ b.pRecord = a.pRecord
       /\ b.fFLocked = a.fFLocked /\ b.pLocksPos = a.pLocksPos
       /\ b.fHeaderLocked = a.fHeaderLocked /\ b.ulRecCount = a.ulRecCount /\ b.todo = p
  BY <1>7 DEF Area
<1> HIDE DEF b
<1>13. Buffer(s, b, recs) /\ ~b.fAppend
  BY <1>7, <1>12, BufferStays
<1>14. Plan(b, p, Len(recs))
  <2>1. p \in Lists /\ ~b.fRecordChanged
    BY <1>3, <1>7, <1>10, <1>12 DEF Good
  <2>2. New(b) = n
    BY <1>8, <1>12 DEF New
  <2>3. LockPlan(b, p) /\ GoPlan(b, p)
    BY <1>6, <1>10, <1>11, <2>1, <2>2, NamesAreOfSteps DEF LockPlan, GoPlan
  <2>4. BlankPlan(b, p, Len(recs))
    BY <1>5, <1>7, <1>10, <1>11, <1>12, <2>2 DEF BlankPlan
  <2>5. HotPlan(b, p) /\ PutPlan(b, p) /\ AppendPlan(b, p)
    BY <1>10, <1>13, <2>1 DEF HotPlan, PutPlan, AppendPlan, Begins
  <2> QED
    BY <2>3, <2>4, <2>5 DEF Plan
<1>15. Plan(b, b.todo, Len(recs))
  BY <1>12, <1>14
<1> QED
  BY <1>2, <1>4, <1>13, <1>15, SoundStep

\* The new record is in the buffer, and locked.
LEMMA BlankSound ==
    ASSUME NEW s, NEW q, Ready(s, q, "blank"), Blank(s, q)
    PROVE  Sound(s, q)
<1> DEFINE a == area[s]
           t == Tail(q)
           x == <<"write", may>>
           p == <<x>> \o t
           n == a.ulRecCount + 1
           b == [a EXCEPT !.pRecord = {}, !.fValidBuffer = TRUE,
                          !.fUpdateHeader = TRUE, !.fRecordChanged = TRUE, !.fAppend = TRUE,
                          !.fPositioned = TRUE, !.ulRecCount = n, !.ulRecNo = n, !.todo = p]
<1>1. /\ a \in Area
      /\ q \in Lists /\ q # <<>> /\ q[1][1] = "blank" /\ Plan(a, q, Len(recs))
      /\ Chain(q) /\ Len(recs) \in Nat /\ Top \in Nat
      /\ Appends(a, q) => Len(recs) + 1 <= Top
  BY ReadyFacts
<1>2. Leaves(s, b) /\ recs' = recs
  BY DEF Blank
<1>3. /\ Len(q) = 2 /\ q[2][1] = "headerUnlock" /\ t = <<q[2]>>
      /\ q[2] \in StepNames \X Nat /\ Names(q) = {"blank", "headerUnlock"}
  BY <1>1, BlankTail DEF Good
<1>4. Appends(a, q)
  BY <1>3 DEF Appends
<1>5. a.fHeaderLocked /\ a.ulRecCount = Len(recs) /\ (a.fFLocked \/ New(a) \in a.pLocksPos)
  BY <1>1, <1>3 DEF Plan, BlankPlan
<1>6. n = Len(recs) + 1 /\ n = New(a) /\ n \in RecNos /\ n \in Nat
  BY <1>1, <1>4, <1>5 DEF New, RecNos
<1>7. x \in StepNames \X Nat /\ x[1] = "write" /\ x = <<"write", may>>
  BY StepsAreNamed DEF StepNames
<1> HIDE DEF x
<1>8. /\ p \in Lists /\ p # <<>> /\ p[1] = x /\ p[2] = q[2] /\ Len(p) = 2
      /\ Names(p) = {"write", "headerUnlock"}
  <2> DEFINE y == q[2]
             r == <<y>>
  <2>1. r \in Lists /\ r # <<>> /\ Len(r) = 1 /\ r[1] = y /\ Names(r) = {"headerUnlock"}
    BY <1>3, NamesOfOne
  <2>2. p = <<x>> \o r
    BY <1>3
  <2> HIDE DEF r, p
  <2> QED
    BY <1>7, <2>1, <2>2, ConsFacts
<1> HIDE DEF n, p
<1>9. /\ b.ulRecNo = n /\ b.fPositioned /\ b.fValidBuffer /\ b.fAppend /\ b.fRecordChanged
      /\ b.pRecord = {} /\ b.fFLocked = a.fFLocked /\ b.pLocksPos = a.pLocksPos
      /\ b.fHeaderLocked = a.fHeaderLocked /\ b.ulRecCount = n /\ b.todo = p
  BY <1>1 DEF Area
<1> HIDE DEF b, a
<1>10. MayGoHot(b)
  BY <1>5, <1>6, <1>9 DEF MayGoHot
<1>11. Buffer(s, b, recs)
  <2>1. Hot(b)
    BY <1>9, <1>10 DEF Hot
  <2>2. b.ulRecNo \notin 1..Len(recs)
    BY <1>1, <1>6, <1>9
  <2>3. Place(b, Len(recs))
    BY <1>5, <1>6, <1>9 DEF Place
  <2> QED
    BY <1>6, <1>9, <2>1, <2>2, <2>3 DEF Buffer, Fresh
<1>12. Plan(b, p, Len(recs))
  <2>1. LockPlan(b, p) /\ GoPlan(b, p) /\ BlankPlan(b, p, Len(recs))
    BY <1>8, NamesAreOfSteps DEF LockPlan, GoPlan, BlankPlan
  <2>2. HotPlan(b, p) /\ PutPlan(b, p)
    BY <1>7, <1>8 DEF HotPlan, PutPlan, Begins
  <2>3. AppendPlan(b, p)
    BY <1>3, <1>7, <1>8 DEF AppendPlan, Begins
  <2> QED
    BY <2>1, <2>2, <2>3 DEF Plan
<1>13. Plan(b, b.todo, Len(recs))
  BY <1>9, <1>12
<1> QED
  BY <1>2, <1>4, <1>11, <1>13, SoundStep DEF a

-----------------------------------------------------------------------------
(* The invariant of the buffers is kept.                                   *)

LEMMA SoundInv ==
    ASSUME NEW s, NEW q, NEW x, Ready(s, q, x), Sound(s, q)
    PROVE  HotInv'
<1>1. PlanInv /\ BufferInv /\ s \in Stations /\ Len(recs) \in Nat /\ Top \in Nat
  BY ReadyFacts DEF Ready, HotInv
<1>2. PlanInv'
  BY <1>1 DEF PlanInv, Sound
<1>3. BufferInv'
  BY <1>1 DEF BufferInv, Sound
<1>4. Room'
  <2> DEFINE S == {t \in Stations : Appends(area'[t], area'[t].todo)}
  <2>1. S \subseteq Appenders(s, q)
    BY <1>1 DEF Appenders, Sound
  <2> HIDE DEF S
  <2>2. IsFiniteSet(Appenders(s, q)) /\ Cardinality(Appenders(s, q)) \in Nat
    BY <1>1, AppendersFinite
  <2>3. IsFiniteSet(S) /\ Cardinality(S) <= Cardinality(Appenders(s, q))
    BY <2>1, <2>2, FS_Subset
  <2>4. Cardinality(S) \in Nat
    BY <2>3, FS_CardinalityType
  <2>5. Len(recs) + Cardinality(S) <= Top
    BY <1>1, <2>2, <2>3, <2>4 DEF Ready
  <2> QED
    BY <2>5 DEF Room, Sound, S
<1> QED
  BY <1>2, <1>3, <1>4 DEF HotInv

\* Two stations do not hold the record they stand on at once.
LEMMA HoldersApart ==
    ASSUME IInv, NEW s \in Stations, NEW t \in Stations, s # t,
           MayGoHot(area[s]), MayGoHot(area[t])
    PROVE  area[s].ulRecNo # area[t].ulRecNo
<1>1. LocksApart /\ LocksKnown
  BY DEF IInv
<1>2. /\ osRecs[s] = area[s].pLocksPos /\ (osFile = s <=> area[s].fFLocked)
      /\ osRecs[t] = area[t].pLocksPos /\ (osFile = t <=> area[t].fFLocked)
  BY <1>1 DEF LocksKnown
<1>3. osRecs[s] \cap osRecs[t] = {}
  BY <1>1 DEF LocksApart
<1>4. osFile = s => osRecs[t] = {}
  BY <1>1 DEF LocksApart
<1>5. osFile = t => osRecs[s] = {}
  BY <1>1 DEF LocksApart
<1> QED
  BY <1>2, <1>3, <1>4, <1>5 DEF MayGoHot

\* What is to do when the record is in the file.
LEMMA RestPlan ==
    ASSUME NEW a, NEW b, NEW n, NEW m, NEW q \in Lists, q # <<>>, Chain(q), Plan(a, q, n),
           q[1][1] = "write", NEW how \in Nat, NEW update \in BOOLEAN,
           ~b.fRecordChanged, ~b.fAppend
    PROVE  LET p == (IF update THEN WriteDBHeader(a, how) ELSE <<>>) \o Tail(q)
           IN  /\ Plan(b, p, m) /\ (Appends(b, p) => Appends(a, q))
               /\ a.fAppend => ~Appends(b, p)
<1> DEFINE t == Tail(q)
           H == IF update THEN WriteDBHeader(a, how) ELSE <<>>
           p == H \o t
<1>1. /\ t \in Lists /\ Len(q) \in Nat /\ Names(q) = {"write"} \cup Names(t)
      /\ Steps(t) \subseteq Steps(q)
      /\ t # <<>> => MayFollow("write", t[1][1]) /\ t[1] = q[2]
  BY TailFacts, NamesOfTail, StepsOfTail, ChainOfTail
<1>2. Len(q) = 1 => Steps(t) = {}
  <2>1. Len(q) = 1 => t = <<>>
    BY SMTT(30), TailFacts DEF Lists
  <2> HIDE DEF t
  <2> QED
    BY <2>1, StepsOfEmpty
<1>3. "blank" \notin Names(t)
  BY NoBlank DEF Plan
<1>4. /\ H \in Lists
      /\ Names(H) \subseteq {"headerLock", "count", "headerWrite", "headerUnlock"}
  <2> DEFINE k == <<<<"headerLock", 0>>>>
             l == <<<<"count", 0>>, <<"headerWrite", how>>>>
             r == <<<<"headerUnlock", 0>>>>
  <2>1. k \in Lists /\ l \in Lists /\ r \in Lists
    BY DEF Lists, StepNames
  <2>2. /\ Len(k) = 1 /\ k[1][1] = "headerLock" /\ Len(l) = 2 /\ l[1][1] = "count"
        /\ l[2][1] = "headerWrite" /\ Len(r) = 1 /\ r[1][1] = "headerUnlock"
    OBVIOUS
  <2>3. H \in {<<>>, l, (k \o l) \o r}
    BY DEF WriteDBHeader
  <2> HIDE DEF k, l, r, H
  <2>4. Names(k) = {"headerLock"} /\ Names(r) = {"headerUnlock"}
    BY <2>2 DEF Names
  <2>5. Names(l) = {"count", "headerWrite"}
    <3>1. \A i \in 1..2 : i = 1 \/ i = 2
      OBVIOUS
    <3> QED
      BY <2>2, <3>1 DEF Names
  <2>6. k \o l \in Lists
    BY <2>1, ConcatFacts
  <2>7. Names(k \o l) = {"headerLock", "count", "headerWrite"}
    <3>1. Names(k \o l) = Names(k) \cup Names(l)
      BY <2>1, NamesOfConcat
    <3> QED
      BY <2>4, <2>5, <3>1
  <2> DEFINE kl == k \o l
             klr == kl \o r
  <2>8. kl \in Lists /\ Names(kl) = {"headerLock", "count", "headerWrite"} /\ H \in {<<>>, l, klr}
    BY <2>3, <2>6, <2>7
  <2> HIDE DEF kl
  <2>9. klr \in Lists
    BY <2>1, <2>8, ConcatFacts
  <2>10. Names(klr) = {"headerLock", "count", "headerWrite", "headerUnlock"}
    <3>1. Names(klr) = Names(kl) \cup Names(r)
      BY <2>1, <2>8, NamesOfConcat
    <3> QED
      BY <2>4, <2>8, <3>1
  <2> HIDE DEF klr
  <2> QED
    BY <2>1, <2>5, <2>8, <2>9, <2>10, NamesOfEmpty, ConcatNone
<1> HIDE DEF H, t
<1>5. /\ p \in Lists /\ Names(p) = Names(H) \cup Names(t)
      /\ Steps(p) \subseteq Steps(H) \cup Steps(t)
  BY <1>1, <1>4, ConcatFacts, NamesOfConcat, StepsOfConcat
<1>6. ~Begins(p, "put") /\ ~Begins(p, "newRecord")
  <2>1. CASE H = <<>>
    <3>1. p = t
      BY <1>1, <2>1, ConcatNone
    <3> HIDE DEF p
    <3> QED
      BY <1>1, <3>1 DEF Begins, MayFollow, Onward
  <2>2. CASE H # <<>>
    <3>1. p[1] = H[1] /\ H[1][1] \in Names(H)
      BY <1>1, <1>4, <2>2, FirstOfConcat, NamesOfTail
    <3> HIDE DEF p
    <3> QED
      BY <1>4, <3>1 DEF Begins
  <2> QED
    BY <2>1, <2>2
<1> HIDE DEF p
<1>7. HotPlan(b, p) /\ PutPlan(b, p) /\ AppendPlan(b, p)
  BY <1>6 DEF HotPlan, PutPlan, AppendPlan
<1>8. BlankPlan(b, p, m)
  BY <1>3, <1>4, <1>5 DEF BlankPlan
<1>9. LockPlan(b, p) /\ GoPlan(b, p)
  <2>1. \A x \in Steps(H) : x[1] # "lock" /\ x[1] # "goTo"
    BY <1>4, NamesAreOfSteps
  <2>2. \A x \in Steps(t) : x[1] \in {"lock", "goTo"} => x[2] \in RecNos
    BY <1>1, <1>2 DEF Plan, LockPlan, GoPlan
  <2>3. "blank" \notin Names(p)
    BY <1>3, <1>4, <1>5
  <2> QED
    BY <1>5, <2>1, <2>2, <2>3 DEF LockPlan, GoPlan
<1>10. Appends(b, p) => Appends(a, q)
  BY <1>1, <1>4, <1>5 DEF Appends
<1>11. a.fAppend => ~Appends(b, p)
  <2> SUFFICES ASSUME a.fAppend
               PROVE  Names(t) \subseteq {"headerUnlock"}
    BY <1>4, <1>5 DEF Appends
  <2>1. Len(q) = 2 /\ q[2][1] = "headerUnlock"
    BY DEF Plan, AppendPlan
  <2>2. Len(t) = 1 /\ t # <<>>
    <3>1. Len(t) = Len(q) - 1
      BY TailFacts DEF t
    <3>2. Len(<<>>) = 0
      OBVIOUS
    <3> QED
      BY <2>1, <3>1, <3>2
  <2> QED
    BY <1>1, <2>1, <2>2 DEF Names
<1> QED
  BY <1>7, <1>8, <1>9, <1>10, <1>11 DEF Plan, p, H, t


-----------------------------------------------------------------------------
(* A record is written.                                                    *)

\* Who is about to append, or does, has the byte of the header for itself.
LEMMA OneHeader ==
    ASSUME IInv, NEW s \in Stations, NEW t \in Stations, s # t, area[s].fHeaderLocked
    PROVE  ~area[t].fHeaderLocked
<1>1. LocksKnown
  BY DEF IInv
<1>2. (osHeader = s <=> area[s].fHeaderLocked) /\ (osHeader = t <=> area[t].fHeaderLocked)
  BY <1>1 DEF LocksKnown
<1> QED
  BY <1>2

\* A record that was written already is not written again.
LEMMA WriteNone ==
    ASSUME NEW s, NEW q, Ready(s, q, "write"), ~area[s].fRecordChanged, UNCHANGED recs,
           Leaves(s, [area[s] EXCEPT !.todo = Tail(q)])
    PROVE  HotInv' /\ UNCHANGED recs
<1> DEFINE a == area[s]
           t == Tail(q)
           b == [a EXCEPT !.todo = t]
<1>1. /\ a \in Area /\ Buffer(s, a, recs) /\ Plan(a, q, Len(recs))
      /\ q \in Lists /\ q # <<>> /\ q[1][1] = "write" /\ Chain(q) /\ Len(recs) \in Nat
  BY ReadyFacts
<1>2. /\ t \in Lists /\ Names(q) = {"write"} \cup Names(t)
      /\ t # <<>> => MayFollow("write", t[1][1])
  BY <1>1, TailFacts, NamesOfTail, ChainOfTail
<1>3. ~a.fRecordChanged /\ ~a.fAppend /\ Leaves(s, b) /\ recs' = recs
  BY <1>1 DEF Buffer, Place
<1>4. /\ b.ulRecNo = a.ulRecNo /\ b.fPositioned = a.fPositioned
      /\ b.fValidBuffer = a.fValidBuffer /\ b.fAppend = a.fAppend
      /\ b.fRecordChanged = a.fRecordChanged /\ b.pRecord = a.pRecord
      /\ b.fFLocked = a.fFLocked /\ b.pLocksPos = a.pLocksPos
      /\ b.ulRecCount = a.ulRecCount /\ b.todo = t
  BY <1>1 DEF Area
<1> HIDE DEF b
<1>5. Buffer(s, b, recs)
  <2>1. b.ulRecCount <= Len(recs) /\ ~b.fAppend /\ ~b.fRecordChanged
    BY <1>1, <1>3, <1>4 DEF Buffer, Place
  <2>2. MayGoHot(b) => MayGoHot(a)
    BY <1>4 DEF MayGoHot
  <2> HIDE DEF a
  <2> QED
    BY <1>1, <1>3, <1>4, <2>1, <2>2, FreshOfFields
<1>6. "blank" \notin Names(t) /\ BlankPlan(b, t, Len(recs))
  BY <1>1, NoBlank DEF Plan
<1>7. ~Begins(t, "put") /\ ~Begins(t, "newRecord")
  BY <1>2 DEF Begins, MayFollow, Onward
<1>8. Plan(b, t, Len(recs))
  BY <1>1, <1>3, <1>4, <1>6, <1>7, TailPlan
<1>9. Plan(b, b.todo, Len(recs))
  BY <1>4, <1>8
<1>10. Appends(b, b.todo) => Appends(a, q)
  BY <1>2, <1>4 DEF Appends
<1> HIDE DEF a
<1>11. Sound(s, q)
  BY <1>3, <1>5, <1>9, <1>10, SoundStep DEF a
<1> QED
  BY <1>3, <1>11, SoundInv

\* The record that the station holds goes to the file.
LEMMA WritePut ==
    ASSUME NEW s, NEW q, Ready(s, q, "write"), area[s].fRecordChanged, PutRec(area[s]),
           LET update == area[s].fUpdateHeader \/ area[s].fAppend
               rest == (IF update THEN WriteDBHeader(area[s], Arg(q)) ELSE <<>>) \o Tail(q)
           IN  Leaves(s, [area[s] EXCEPT !.fRecordChanged = FALSE, !.fAppend = FALSE,
                                         !.fUpdateHeader = update, !.todo = rest])
    PROVE  HotInv'
<1> DEFINE a == area[s]
           update == a.fUpdateHeader \/ a.fAppend
           rest == (IF update THEN WriteDBHeader(a, Arg(q)) ELSE <<>>) \o Tail(q)
           b == [a EXCEPT !.fRecordChanged = FALSE, !.fAppend = FALSE,
                          !.fUpdateHeader = update, !.todo = rest]
           no == a.ulRecNo
           n == Len(recs)
           m == Len(recs')
<1>1. /\ a \in Area /\ Buffer(s, a, recs) /\ Plan(a, q, n) /\ s \in Stations
      /\ q \in Lists /\ q # <<>> /\ q[1][1] = "write" /\ Chain(q)
      /\ n \in Nat /\ n <= Top /\ Top \in Nat
  BY ReadyFacts
<1>2. /\ recs \in Seq(SUBSET Stations) /\ Arg(q) \in Nat
      /\ IInv /\ PlanInv /\ BufferInv
  BY TakenFacts DEF Ready, Taken, HotInv
<1>3. Leaves(s, b) /\ PutRec(a) /\ a.fRecordChanged
  OBVIOUS
<1>4. update \in BOOLEAN
  BY <1>1 DEF Area
<1>5. /\ m \in Nat /\ m = IF no > n THEN no ELSE n
      /\ \A i \in 1..m : recs'[i] = IF i = no THEN a.pRecord
                                    ELSE IF i <= n THEN recs[i] ELSE {}
  BY <1>1, <1>2, <1>3, PutRecFacts
<1>6. /\ b.ulRecNo = no /\ b.fPositioned = a.fPositioned /\ ~b.fAppend /\ ~b.fRecordChanged
      /\ b.pRecord = a.pRecord /\ b.ulRecCount = a.ulRecCount /\ b.todo = rest
  BY <1>1 DEF Area
<1>7. Hot(a) /\ no \in RecNos /\ Place(a, n) /\ no \in Nat /\ no > 0 /\ a.ulRecCount \in Nat
  BY <1>1, <1>3 DEF Buffer, RecNos, Area
<1>8. /\ a.fAppend => /\ no = n + 1 /\ m = n + 1 /\ a.fHeaderLocked
                      /\ a.ulRecCount = n + 1
      /\ ~a.fAppend => no <= n /\ m = n /\ a.ulRecCount <= n
  BY <1>1, <1>5, <1>7 DEF Place, Hot
<1>9. /\ Plan(b, rest, m) /\ (Appends(b, rest) => Appends(a, q))
      /\ a.fAppend => ~Appends(b, rest)
  <2> HIDE DEF update, b, a
  <2> QED
    BY <1>1, <1>2, <1>4, <1>6, RestPlan
<1>10. /\ \A t \in Stations \ {s} : area'[t] = area[t]
       /\ area'[s] = b
  <2> HIDE DEF b
  <2> QED
    BY <1>1, <1>2, <1>3 DEF IInv, TypeOK, Leaves
<1> HIDE DEF b, rest
<1>11. Buffer(s, b, recs')
  <2>1. Fresh(s, b, recs')
    BY <1>5, <1>6 DEF Fresh
  <2>2. Place(b, m)
    BY <1>6, <1>8 DEF Place
  <2> QED
    BY <1>6, <1>7, <2>1, <2>2 DEF Buffer
<1> HIDE DEF m, n
<1>12. ASSUME NEW t \in Stations \ {s}
       PROVE  Buffer(t, area[t], recs') /\ Plan(area[t], area[t].todo, m)
  <2> DEFINE c == area[t]
  <2>1. Buffer(t, c, recs) /\ Plan(c, c.todo, n) /\ t \in Stations /\ c \in Area
    BY <1>2 DEF BufferInv, PlanInv, IInv, TypeOK, n
  <2>2. a.fAppend => ~c.fHeaderLocked
    BY <1>1, <1>2, <1>8, OneHeader
  <2>3. MayGoHot(c) => c.ulRecNo # no
    BY <1>1, <1>2, <1>7, HoldersApart DEF Hot
  <2>4. c.ulRecNo \in Nat /\ c.ulRecCount \in Nat
    BY <2>1 DEF Area
  <2> HIDE DEF c, a
  <2>5. Fresh(t, c, recs')
    <3> SUFFICES ASSUME Hot(c), c.ulRecNo \in 1..m
                 PROVE  /\ recs'[c.ulRecNo] \subseteq c.pRecord
                        /\ c.pRecord \subseteq recs'[c.ulRecNo] \cup {t}
      BY DEF Fresh, m
    <3>1. c.ulRecNo # no
      BY <2>3 DEF Hot
    <3>2. c.ulRecNo \in 1..n
      BY <1>1, <1>5, <1>8, <2>4, <3>1 DEF n, m
    <3>3. recs'[c.ulRecNo] = recs[c.ulRecNo]
      BY <1>1, <1>5, <3>1, <3>2 DEF n, m
    <3> QED
      BY <2>1, <3>2, <3>3 DEF Buffer, Fresh, n
  <2>6. Place(c, m)
    BY <1>1, <1>5, <1>8, <2>1, <2>2, <2>4 DEF Buffer, Place, n, m
  <2>7. Buffer(t, c, recs')
    BY <2>1, <2>5, <2>6 DEF Buffer, m
  <2>8. BlankPlan(c, c.todo, m)
    BY <1>8, <2>1, <2>2 DEF Plan, BlankPlan
  <2>9. Plan(c, c.todo, m)
    BY <2>1, <2>8 DEF Plan
  <2> QED
    BY <2>7, <2>9 DEF c
<1>13. PlanInv' /\ BufferInv'
  <2>1. \A t \in Stations : Plan(area'[t], area'[t].todo, m) /\ Buffer(t, area'[t], recs')
    BY <1>6, <1>9, <1>10, <1>11, <1>12
  <2> QED
    BY <2>1 DEF PlanInv, BufferInv, m
<1>14. Room'
  <2> DEFINE S == {t \in Stations : Appends(area'[t], area'[t].todo)}
             A == Appenders(s, q)
  <2>1. S \subseteq A
    BY <1>6, <1>9, <1>10 DEF Appenders
  <2>2. a.fAppend => s \in A /\ s \notin S
    BY <1>1, <1>6, <1>9, <1>10 DEF Appenders, Appends
  <2>3. IsFiniteSet(A) /\ Cardinality(A) \in Nat
    BY <1>1, AppendersFinite
  <2>4. n + Cardinality(A) <= Top
    BY DEF Ready, n
  <2> HIDE DEF S, A
  <2>5. CASE ~a.fAppend
    <3>1. IsFiniteSet(S) /\ Cardinality(S) <= Cardinality(A)
      BY <2>1, <2>3, FS_Subset
    <3>2. Cardinality(S) \in Nat
      BY <3>1, FS_CardinalityType
    <3> QED
      BY <1>1, <1>8, <2>3, <2>4, <2>5, <3>1, <3>2 DEF Room, S, m, n
  <2>6. CASE a.fAppend
    <3>1. IsFiniteSet(A \ {s}) /\ Cardinality(A \ {s}) = Cardinality(A) - 1
      BY <2>2, <2>3, <2>6, FS_RemoveElement
    <3>2. S \subseteq A \ {s}
      BY <2>1, <2>2, <2>6
    <3>3. IsFiniteSet(S) /\ Cardinality(S) <= Cardinality(A \ {s})
      BY <3>1, <3>2, FS_Subset
    <3>4. Cardinality(S) \in Nat
      BY <3>3, FS_CardinalityType
    <3>5. m + Cardinality(S) <= Top
      BY <1>1, <1>8, <2>3, <2>4, <2>6, <3>1, <3>3, <3>4 DEF n, m
    <3> QED
      BY <3>5 DEF Room, S, m
  <2> QED
    BY <2>5, <2>6
<1> QED
  BY <1>13, <1>14 DEF HotInv

LEMMA WriteHot ==
    ASSUME NEW s, NEW q, Ready(s, q, "write"), Write(s, q), "writeError" \notin Cases
    PROVE  HotInv'
<1>1. CASE ~area[s].fRecordChanged
  BY <1>1, WriteNone DEF Write
<1>2. CASE area[s].fRecordChanged
  BY <1>2, WritePut DEF Write
<1> QED
  BY <1>1, <1>2

\* Whichever step is taken.
LEMMA TakeHot ==
    ASSUME NEW s, NEW q, NEW x, Ready(s, q, x), Take(s, q), "writeError" \notin Cases
    PROVE  HotInv'
<1>1. q # <<>> /\ Head(q) = q[1] /\ q[1][1] = x
  BY TailFacts, ReadyFacts
<1>2. \/ x = "write" /\ Write(s, q)
      \/ x = "headerLock" /\ HeaderLock(s, q)
      \/ x = "headerUnlock" /\ HeaderUnlock(s, q)
      \/ x = "count" /\ Count(s, q)
      \/ x = "headerWrite" /\ HeaderWrite(s, q)
      \/ x = "unlockAll" /\ UnlockAllStep(s, q)
      \/ x = "unlock" /\ UnlockStep(s, q)
      \/ x = "lock" /\ LockStep(s, q)
      \/ x = "fileLock" /\ FileLock(s, q)
      \/ x = "fileUnlock" /\ FileUnlock(s, q)
      \/ x = "newRecord" /\ NewRecord(s, q)
      \/ x = "blank" /\ Blank(s, q)
      \/ x = "goTo" /\ GoToStep(s, q)
      \/ x = "goBottom" /\ GoBottomStep(s, q)
      \/ x = "read" /\ ReadRecord(s, q)
      \/ x = "put" /\ Put(s, q)
      \/ x = "rollback" /\ Rollback(s, q)
      \/ x = "close" /\ CloseStep(s, q)
  BY <1>1 DEF Take
<1>3. CASE x = "write"
  BY <1>2, <1>3, WriteHot
<1>4. CASE x \in {"headerLock", "headerUnlock", "count", "headerWrite"}
  BY <1>2, <1>4, HeaderLockSound, HeaderUnlockSound, CountSound,
     HeaderWriteSound, SoundInv
<1>5. CASE x \in {"unlockAll", "unlock", "lock", "fileLock", "fileUnlock"}
  BY <1>2, <1>5, UnlockAllSound, UnlockSound, LockSound, FileLockSound,
     FileUnlockSound, SoundInv
<1>6. CASE x \in {"newRecord", "blank", "goTo", "goBottom"}
  BY <1>2, <1>6, NewRecordSound, BlankSound, GoToSound, GoBottomSound, SoundInv
<1>7. CASE x \in {"read", "put", "rollback", "close"}
  BY <1>2, <1>7, ReadSound, PutSound, RollbackSound, CloseSound, SoundInv
<1> QED
  BY <1>2, <1>3, <1>4, <1>5, <1>6, <1>7

-----------------------------------------------------------------------------
(* The calls begin as planned.                                             *)

\* What is known of a station that begins a call.
LEMMA IdleHot ==
    ASSUME IInv, HotInv, NEW s \in Stations, Idle(s)
    PROVE  ~area[s].fAppend /\ Buffer(s, area[s], recs) /\ area[s].ulRecNo \in RecNos
<1> DEFINE q == area[s].todo
<1>1. Plan(area[s], q, Len(recs)) /\ Buffer(s, area[s], recs)
  BY DEF HotInv, PlanInv, BufferInv
<1>2. Len(q) = 0
  BY DEF Idle
<1> HIDE DEF q
<1>3. ~area[s].fAppend
  BY <1>1, <1>2 DEF Plan, AppendPlan
<1> QED
  BY <1>1, <1>3 DEF Buffer

\* The count in the header is still to be written, with the byte locked.
Owes(q) == Begins(q, "headerWrite") \/ (Begins(q, "count") /\ Len(q) > 1)

\* A step is taken from a list that is as planned.
Acts(s) == \E q : /\ Ready(s, q, q[1][1]) /\ Take(s, q)
                  /\ q = area[s].todo \/ (Idle(s) /\ ~Owes(q))

\* A call that does not append.
LEMMA BeginActs ==
    ASSUME IInv, HotInv, NEW s \in Stations, NEW q,
           Begin(s, q), q \in Lists, Shape(area[s], q, Len(recs)),
           Plan(area[s], q, Len(recs)), {"newRecord", "blank"} \cap Names(q) = {},
           ~Owes(q)
    PROVE  Acts(s)
<1>1. q # <<>> /\ Take(s, q)
  BY DEF Begin, Take
<1>2. ~area[s].fAppend
  BY IdleHot DEF Begin
<1>3. Len(recs) + Cardinality(Appenders(s, q)) <= Top
  <2> DEFINE S == {t \in Stations : Appends(area[t], area[t].todo)}
  <2>1. Appenders(s, q) \subseteq S
    BY <1>2 DEF Appenders, Appends
  <2>2. S \subseteq Stations /\ IsFiniteSet(Stations)
    BY StationsAssumption
  <2>3. Len(recs) + Cardinality(S) <= Top /\ Len(recs) \in Nat /\ Top \in Nat
    BY TopAssumption DEF HotInv, Room, IInv, TypeOK
  <2> HIDE DEF S
  <2>4. IsFiniteSet(S) /\ Cardinality(S) \in Nat
    BY <2>2, FS_Subset, FS_CardinalityType
  <2>5. IsFiniteSet(Appenders(s, q)) /\ Cardinality(Appenders(s, q)) <= Cardinality(S)
    BY <2>1, <2>4, FS_Subset
  <2>6. Cardinality(Appenders(s, q)) \in Nat
    BY <2>5, FS_CardinalityType
  <2> QED
    BY <2>3, <2>4, <2>5, <2>6
<1>4. Ready(s, q, q[1][1])
  BY <1>1, <1>3 DEF Ready, Taken
<1>5. Idle(s)
  BY DEF Begin
<1> QED
  BY <1>1, <1>4, <1>5 DEF Acts

\* A list that may begin when the byte of the header is not locked.
LEMMA CallActs ==
    ASSUME IInv, HotInv, NEW s \in Stations, NEW q,
           Begin(s, q), Callable(area[s], q), Plan(area[s], q, Len(recs)),
           "blank" \notin Names(q)
    PROVE  Acts(s)
<1>1. q \in Lists /\ Shape(area[s], q, Len(recs))
  BY IdleFacts, CallableShape DEF Begin
<1>2. {"newRecord", "blank"} \cap Names(q) = {}
  BY DEF Callable
<1>3. q[1][1] # "headerWrite" /\ (q[1][1] = "count" => Len(q) = 1) /\ Len(q) \in Nat
  BY <1>1 DEF Callable, Lists
<1>4. ~Owes(q)
  <2>1. ~Begins(q, "headerWrite")
    BY <1>3 DEF Begins
  <2>2. Begins(q, "count") => Len(q) = 1
    BY <1>3 DEF Begins
  <2>3. ~(1 > 1)
    OBVIOUS
  <2> QED
    BY <2>1, <2>2, <2>3 DEF Owes
<1> QED
  BY <1>1, <1>2, <1>4, BeginActs

\* A list with hb_dbfGoCold before it that has no lock and no append in it.
LEMMA ColdPlan ==
    ASSUME NEW a, a.fRecordChanged \in BOOLEAN, ~a.fAppend, NEW how \in Nat, NEW n,
           NEW q, Good(q), q[1][1] \in Onward, NEW p, IsCold(p, a, how, q),
           \A x \in Steps(q) : x[1] = "goTo" => x[2] \in RecNos,
           Names(q) \cap {"lock", "blank"} = {}, ~Begins(q, "newRecord")
    PROVE  Plan(a, p, n) /\ "blank" \notin Names(p)
<1>1. /\ Good(p) /\ p[1][1] \in Onward
      /\ a.fRecordChanged => Names(p) = {"write"} \cup Names(q)
      /\ a.fRecordChanged => p[1] = <<"write", how>>
      /\ ~a.fRecordChanged => p = q
  BY ColdList
<1>2. p \in Lists /\ q \in Lists
  BY <1>1 DEF Good
<1>3. Steps(p) \subseteq {<<"write", how>>} \cup Steps(q)
  <2> DEFINE w == <<<<"write", how>>>>
  <2>1. p = q \/ p = w \o q
    BY <1>1 DEF IsCold, Cold
  <2>2. w \in Lists /\ Steps(w) = {<<"write", how>>}
    BY StepsOfOne DEF Lists, StepNames
  <2> HIDE DEF w
  <2> QED
    BY <1>2, <2>1, <2>2, StepsOfConcat
<1>4. LockPlan(a, p) /\ GoPlan(a, p)
  <2>1. \A x \in Steps(q) : x[1] # "lock"
    BY <1>2, NamesAreOfSteps
  <2>2. \A x \in Steps(p) : x = <<"write", how>> \/ x \in Steps(q)
    BY <1>3
  <2>3. <<"write", how>>[1] = "write"
    OBVIOUS
  <2> QED
    BY <2>1, <2>2, <2>3 DEF LockPlan, GoPlan
<1>5. "blank" \notin Names(p)
  BY <1>1
<1>6. PutPlan(a, p) /\ ~Begins(p, "newRecord")
  BY <1>1 DEF PutPlan, Begins, Onward
<1>7. HotPlan(a, p) /\ BlankPlan(a, p, n) /\ AppendPlan(a, p)
  BY <1>1, <1>5, <1>6 DEF HotPlan, BlankPlan, AppendPlan
<1> QED
  BY <1>4, <1>5, <1>6, <1>7 DEF Plan

\* What is given up: the record goes to the file first.
Safe(a, q, names) == /\ q \in Lists /\ Names(q) \subseteq names
                     /\ a.fRecordChanged /\ q # <<>> => q[1][1] = "write"

LEMMA ColdSafe ==
    ASSUME NEW a
    PROVE  /\ Safe(a, Cold(a, may), {"write"})
           /\ a.fRecordChanged => Cold(a, may) # <<>>
<1> DEFINE x == <<"write", may>>
           w == <<x>>
<1>1. x \in StepNames \X Nat /\ x[1] = "write"
  BY StepsAreNamed DEF StepNames
<1>2. Cold(a, may) = IF a.fRecordChanged THEN w ELSE <<>>
  BY DEF Cold
<1> HIDE DEF x
<1>3. w \in Lists /\ w # <<>> /\ w[1] = x /\ Names(w) = {"write"}
  BY <1>1, NamesOfOne
<1>4. <<>> \in Lists /\ Names(<<>>) = {}
  BY <1>3, ConcatNone, NamesOfEmpty
<1> HIDE DEF w
<1> QED
  BY <1>1, <1>2, <1>3, <1>4 DEF Safe

LEMMA SafeConcat ==
    ASSUME NEW a, NEW p, NEW q, NEW S, NEW T, Safe(a, p, S), Safe(a, q, T)
    PROVE  Safe(a, p \o q, S \cup T)
<1> DEFINE r == p \o q
<1>1. p \in Lists /\ q \in Lists
  BY DEF Safe
<1>2. r \in Lists
  BY <1>1, ConcatFacts
<1>3. Names(r) = Names(p) \cup Names(q)
  BY <1>1, NamesOfConcat
<1>4. p # <<>> => r[1] = p[1]
  BY <1>1, FirstOfConcat
<1>5. p = <<>> => r = q
  BY <1>1, ConcatNone
<1> HIDE DEF r
<1>6. a.fRecordChanged /\ r # <<>> => r[1][1] = "write"
  BY <1>4, <1>5 DEF Safe
<1>7. Safe(a, r, S \cup T)
  BY <1>2, <1>3, <1>6 DEF Safe
<1> QED
  BY <1>7 DEF r

LEMMA ColdConcat ==
    ASSUME NEW a, NEW q \in Lists
    PROVE  Safe(a, Cold(a, may) \o q, {"write"} \cup Names(q))
<1> DEFINE c == Cold(a, may)
           r == c \o q
<1>1. /\ c \in Lists /\ Names(c) \subseteq {"write"} /\ Safe(a, c, {"write"})
      /\ a.fRecordChanged => c # <<>>
  BY ColdSafe DEF Safe
<1> HIDE DEF c
<1>2. r \in Lists
  BY <1>1, ConcatFacts
<1>3. Names(r) = Names(c) \cup Names(q)
  BY <1>1, NamesOfConcat
<1>4. c # <<>> => r[1] = c[1]
  BY <1>1, FirstOfConcat
<1> HIDE DEF r
<1>5. Safe(a, r, {"write"} \cup Names(q))
  BY <1>1, <1>2, <1>3, <1>4 DEF Safe
<1> QED
  BY <1>5 DEF r, c

LEMMA UnlockSafe ==
    ASSUME NEW a
    PROVE  /\ Safe(a, UnlockAllRecords(a), {"write", "unlockAll"})
           /\ Safe(a, UnlockFile(a), {"write", "fileUnlock"})
<1> DEFINE u == <<"unlockAll", 0>>
           f == <<"fileUnlock", 0>>
           U == <<u>>
           F == <<f>>
<1>1. u \in StepNames \X Nat /\ f \in StepNames \X Nat
      /\ u[1] = "unlockAll" /\ f[1] = "fileUnlock"
  BY DEF StepNames
<1>2. UnlockAllRecords(a) = IF a.pLocksPos = {} THEN <<>> ELSE Cold(a, may) \o U
  BY DEF UnlockAllRecords
<1>3. UnlockFile(a) = IF a.fFLocked THEN Cold(a, may) \o F ELSE <<>>
  BY DEF UnlockFile
<1> HIDE DEF u, f
<1>4. U \in Lists /\ Names(U) = {"unlockAll"} /\ F \in Lists /\ Names(F) = {"fileUnlock"}
  BY <1>1, NamesOfOne
<1>5. Safe(a, <<>>, {"write", "unlockAll"}) /\ Safe(a, <<>>, {"write", "fileUnlock"})
  BY <1>4, ConcatNone, NamesOfEmpty DEF Safe
<1> HIDE DEF U, F
<1>6. Safe(a, Cold(a, may) \o U, {"write"} \cup Names(U))
  BY <1>4, ColdConcat
<1>7. Safe(a, Cold(a, may) \o F, {"write"} \cup Names(F))
  BY <1>4, ColdConcat
<1>8. /\ {"write"} \cup Names(U) = {"write", "unlockAll"}
      /\ {"write"} \cup Names(F) = {"write", "fileUnlock"}
  BY <1>4
<1> QED
  BY <1>2, <1>3, <1>5, <1>6, <1>7, <1>8

\* A list of which no step is a lock or part of an append.
LEMMA SafePlan ==
    ASSUME NEW a, NEW n, NEW q, ~a.fAppend,
           Safe(a, q, {"write", "unlockAll", "fileUnlock", "close"})
    PROVE  Plan(a, q, n) /\ "blank" \notin Names(q)
<1>1. q \in Lists /\ Names(q) \subseteq {"write", "unlockAll", "fileUnlock", "close"}
  BY DEF Safe
<1>2. Names(q) \cap {"lock", "goTo", "blank"} = {}
  BY <1>1
<1>3. q # <<>> => q[1][1] \in Names(q)
  BY <1>1, NamesOfTail
<1>4. ~Begins(q, "put") /\ ~Begins(q, "newRecord")
  BY <1>1, <1>3 DEF Begins
<1>5. a.fRecordChanged /\ Names(q) \cap Risky # {} => q[1][1] = "write"
  <2>1. q = <<>> => Names(q) = {}
    BY NamesOfEmpty
  <2> QED
    BY <2>1 DEF Safe
<1> QED
  BY <1>1, <1>2, <1>4, <1>5, PlainPlan

\* A lock behind hb_dbfUnlockAllRecords.
LEMMA LockPlanned ==
    ASSUME NEW a, NEW n, ~a.fAppend, NEW x \in StepNames \X Nat,
           x[1] \in {"lock", "fileLock"}, x[1] = "lock" => x[2] \in RecNos
    PROVE  LET p == UnlockAllRecords(a) \o <<x>>
           IN  Plan(a, p, n) /\ "blank" \notin Names(p)
<1> DEFINE u == UnlockAllRecords(a)
           r == <<x>>
           p == u \o r
<1>1. Safe(a, u, {"write", "unlockAll"})
  BY UnlockSafe
<1>2. r \in Lists /\ Names(r) = {x[1]} /\ Steps(r) = {x} /\ r[1] = x
  BY NamesOfOne, StepsOfOne
<1> HIDE DEF u, r
<1>3. u \in Lists /\ Names(u) \subseteq {"write", "unlockAll"}
  BY <1>1 DEF Safe
<1>4. p \in Lists
  BY <1>2, <1>3, ConcatFacts
<1>5. Names(p) = Names(u) \cup {x[1]}
  BY <1>2, <1>3, NamesOfConcat
<1>6. Steps(p) \subseteq Steps(u) \cup {x}
  BY <1>2, <1>3, StepsOfConcat
<1>7. /\ u # <<>> => p[1] = u[1]
      /\ u = <<>> => p = r /\ Names(u) = {}
  BY <1>2, <1>3, FirstOfConcat, ConcatNone, NamesOfEmpty
<1> HIDE DEF p
<1>8. HotPlan(a, p)
  BY <1>1, <1>2, <1>3, <1>5, <1>7 DEF HotPlan, Risky, Safe
<1>9. LockPlan(a, p) /\ GoPlan(a, p)
  <2>1. \A y \in Steps(u) : y[1] \in {"write", "unlockAll"}
    BY <1>3, NamesAreOfSteps
  <2>2. "blank" \notin Names(p)
    BY <1>3, <1>5
  <2> QED
    BY <1>6, <2>1, <2>2 DEF LockPlan, GoPlan
<1>10. "blank" \notin Names(p)
  BY <1>3, <1>5
<1>11. ~Begins(p, "put") /\ ~Begins(p, "newRecord")
  <2>1. p # <<>> => p[1][1] \in Names(p)
    BY <1>4, NamesOfTail
  <2> QED
    BY <1>3, <1>5, <2>1 DEF Begins
<1>12. PutPlan(a, p) /\ BlankPlan(a, p, n) /\ AppendPlan(a, p)
  BY <1>10, <1>11 DEF PutPlan, BlankPlan, AppendPlan
<1>13. Plan(a, p, n)
  BY <1>8, <1>9, <1>12 DEF Plan
<1> QED
  BY <1>10, <1>13 DEF p, u, r

\* Calls that move in the table.
LEMMA GoActs ==
    ASSUME IInv, HotInv, NEW s \in Stations,
           NEW x \in StepNames \X Nat, x[1] \in {"goTo", "goBottom", "unlock"},
           x[1] = "goTo" => x[2] \in RecNos, NEW how \in Nat,
           Begin(s, Cold(area[s], how) \o <<x>>)
    PROVE  Acts(s)
<1> DEFINE q == <<x>>
           p == Cold(area[s], how) \o q
           a == area[s]
<1>1. area[s].fRecordChanged \in BOOLEAN /\ ~area[s].fAppend
  BY IdleFacts, IdleHot DEF Begin
<1>2. Callable(a, q) /\ q[1] = x /\ Names(q) = {x[1]} /\ Steps(q) = {x}
  BY OneCall, NamesOfOne, StepsOfOne
<1>3. IsCold(p, a, how, q) /\ Begin(s, p)
  BY DEF IsCold
<1> HIDE DEF p, q, a
<1>4. q[1][1] \in Onward /\ Good(q)
  BY <1>2 DEF Onward, Callable
<1>5. a.fRecordChanged \in BOOLEAN /\ ~a.fAppend
  BY <1>1 DEF a
<1>6. Callable(a, p)
  BY <1>2, <1>3, <1>4, <1>5, ColdCall
<1>7. /\ \A y \in Steps(q) : y[1] = "goTo" => y[2] \in RecNos
      /\ Names(q) \cap {"lock", "blank"} = {}
      /\ ~Begins(q, "newRecord")
  BY <1>2 DEF Begins
<1>8. Plan(a, p, Len(recs)) /\ "blank" \notin Names(p)
  BY <1>2, <1>3, <1>4, <1>5, <1>7, ColdPlan
<1> QED
  BY <1>3, <1>6, <1>8, CallActs DEF a

\* Calls of one or two steps.
LEMMA OneCallActs ==
    ASSUME IInv, HotInv, NEW s \in Stations,
           NEW x \in StepNames \X Nat, x[1] \in {"read", "put", "rollback", "count", "write"},
           x[1] = "put" => area[s].fValidBuffer, Begin(s, <<x>>)
    PROVE  Acts(s)
<1> DEFINE q == <<x>>
<1>1. ~area[s].fAppend
  BY IdleHot DEF Begin
<1>2. Callable(area[s], q) /\ Begin(s, q)
  BY OneCall
<1>3. Plan(area[s], q, Len(recs))
  BY <1>1, OnePlan DEF Risky
<1>4. "blank" \notin Names(q)
  BY NamesOfOne
<1> HIDE DEF q
<1> QED
  BY <1>2, <1>3, <1>4, CallActs

LEMMA PutValueActs ==
    ASSUME IInv, HotInv, NEW s \in Stations, PutValue(s)
    PROVE  Acts(s)
<1> DEFINE x == <<"read", 0>>
           y == <<"put", 0>>
           q == <<x, y>>
<1>1. x \in StepNames \X Nat /\ y \in StepNames \X Nat /\ x[1] = "read" /\ y[1] = "put"
  BY DEF StepNames
<1>2. (area[s].fValidBuffer /\ Begin(s, <<y>>)) \/ Begin(s, q)
  BY DEF PutValue
<1> HIDE DEF x, y
<1>3. CASE area[s].fValidBuffer /\ Begin(s, <<y>>)
  BY <1>1, <1>3, OneCallActs
<1>4. CASE Begin(s, q)
  <2> DEFINE r == <<y>>
  <2>1. q = <<x>> \o r /\ Good(r) /\ r[1] = y /\ Names(r) = {"put"}
    BY <1>1, PairIsConcat, GoodOne
  <2> HIDE DEF q, r
  <2>2. MayFollow(x[1], r[1][1]) /\ r[1][1] # "count" /\ x[1] # "blank"
    BY <1>1, <2>1 DEF MayFollow
  <2>3. Good(q) /\ q[1] = x /\ Names(q) = {x[1]} \cup Names(r)
    BY <1>1, <2>1, <2>2, GoodCons
  <2>4. Callable(area[s], q)
    BY <1>1, <2>1, <2>3 DEF Callable, LockShape, Begins
  <2>5. ~area[s].fAppend
    BY <1>4, IdleHot DEF Begin
  <2>6. q \in Lists /\ Names(q) = {"read", "put"} /\ ~Begins(q, "put") /\ ~Begins(q, "newRecord")
    BY <1>1, <2>1, <2>3 DEF Good, Begins
  <2>7. Plan(area[s], q, Len(recs))
    BY <2>5, <2>6, PlainPlan DEF Risky
  <2> QED
    BY <1>4, <2>4, <2>6, <2>7, CallActs
<1> QED
  BY <1>2, <1>3, <1>4

\* RLOCK(), DBRLOCK() and FLOCK().
LEMMA LocksActs ==
    ASSUME IInv, HotInv, NEW s \in Stations,
           \/ LockExclusive(s) \/ LockFile(s) \/ \E r \in RecNos : LockMultiple(s, r)
    PROVE  Acts(s)
<1> DEFINE a == area[s]
<1>1. /\ a.fRecordChanged \in BOOLEAN /\ ~a.fFLocked /\ ~a.fAppend /\ a.ulRecNo \in RecNos
      /\ a.ulRecNo \in Nat
  BY IdleFacts, IdleHot DEF Begin, LockExclusive, LockMultiple, LockFile
<1>2. ASSUME NEW x \in StepNames \X Nat, x[1] \in {"lock", "fileLock"},
             x[1] = "lock" => x[2] \in RecNos,
             \/ Begin(s, UnlockAllRecords(a) \o <<x>>)
             \/ Begin(s, <<>> \o <<x>>) /\ x[1] = "lock"
      PROVE  Acts(s)
  <2> DEFINE p == UnlockAllRecords(a) \o <<x>>
             q == <<x>>
  <2>1. Callable(a, p)
    BY <1>1, <1>2, LockCall
  <2>2. x[1] = "lock" => Callable(a, q)
    BY <1>1, <1>2, LockCall
  <2>3. Begin(s, p) \/ (Begin(s, q) /\ x[1] = "lock")
    <3>1. q \in Lists
      BY NamesOfOne
    <3> DEFINE r == <<>> \o q
    <3>2. Begin(s, p) \/ (Begin(s, r) /\ x[1] = "lock")
      BY <1>2
    <3> HIDE DEF p, q
    <3>3. r = q
      BY <3>1, ConcatNone
    <3> HIDE DEF r
    <3> QED
      BY <3>2, <3>3
  <2>4. Plan(a, p, Len(recs)) /\ "blank" \notin Names(p)
    BY <1>1, <1>2, LockPlanned
  <2>5. x[1] = "lock" => Plan(a, q, Len(recs)) /\ "blank" \notin Names(q)
    <3>1. Names(q) = {x[1]}
      BY NamesOfOne
    <3>2. x[1] = "lock" => Plan(a, q, Len(recs))
      BY <1>1, <1>2, OnePlan DEF Risky
    <3> QED
      BY <3>1, <3>2
  <2> HIDE DEF p, q
  <2> QED
    BY <2>1, <2>2, <2>3, <2>4, <2>5, CallActs
<1>3. CASE LockExclusive(s)
  <2> DEFINE x == <<"lock", a.ulRecNo>>
  <2>1. x \in StepNames \X Nat /\ x[1] = "lock" /\ x[2] \in RecNos
    BY <1>1 DEF StepNames
  <2>2. Begin(s, UnlockAllRecords(a) \o <<x>>)
    BY <1>3 DEF LockExclusive, LockRecord
  <2> HIDE DEF x
  <2> QED
    BY <1>2, <2>1, <2>2
<1>4. CASE LockFile(s)
  <2> DEFINE x == <<"fileLock", 0>>
  <2>1. x \in StepNames \X Nat /\ x[1] = "fileLock"
    BY <1>1 DEF StepNames
  <2>2. Begin(s, UnlockAllRecords(a) \o <<x>>)
    BY <1>4 DEF LockFile
  <2> HIDE DEF x
  <2> QED
    BY <1>2, <2>1, <2>2
<1>5. ASSUME NEW r \in RecNos, LockMultiple(s, r)
      PROVE  Acts(s)
  <2> DEFINE x == <<"lock", r>>
  <2>1. x \in StepNames \X Nat /\ x[1] = "lock" /\ x[2] \in RecNos
    BY <1>1, TopAssumption DEF StepNames, RecNos
  <2>2. Begin(s, <<>> \o <<x>>)
    BY <1>5 DEF LockMultiple, LockRecord
  <2> HIDE DEF x
  <2> QED
    BY <1>2, <2>1, <2>2
<1> QED
  BY <1>3, <1>4, <1>5

\* DBUNLOCK() and the end of the work area.
LEMMA UnlocksActs ==
    ASSUME IInv, HotInv, NEW s \in Stations, UnLock(s) \/ Close(s)
    PROVE  Acts(s)
<1> DEFINE a == area[s]
           z == <<"close", 0>>
           U == UnlockAllRecords(a)
           F == UnlockFile(a)
           C == Cold(a, may)
           Z == <<z>>
           q == U \o F
           p == ((C \o U) \o F) \o Z
           S == {"write", "unlockAll", "fileUnlock", "close"}
<1>1. /\ a.fRecordChanged \in BOOLEAN /\ (a.fFLocked => a.pLocksPos = {})
      /\ ~a.fAppend
  BY IdleFacts, IdleHot DEF Begin, UnLock, Close
<1>2. (q # <<>> => Callable(a, q)) /\ Callable(a, p)
  BY <1>1, UnlockCall
<1>3. Begin(s, q) \/ Begin(s, p)
  BY DEF UnLock, Close
<1>4. /\ Safe(a, U, {"write", "unlockAll"}) /\ Safe(a, F, {"write", "fileUnlock"})
      /\ Safe(a, C, {"write"}) /\ (a.fRecordChanged => C # <<>>)
  BY UnlockSafe, ColdSafe
<1>5. Z \in Lists /\ Names(Z) = {"close"} /\ z[1] = "close"
  <2>1. z \in StepNames \X Nat /\ z[1] = "close"
    BY DEF StepNames
  <2> HIDE DEF z
  <2> QED
    BY <2>1, NamesOfOne
<1> HIDE DEF a, U, F, C, Z
<1>6. Plan(a, q, Len(recs)) /\ "blank" \notin Names(q)
  <2>1. Safe(a, q, {"write", "unlockAll"} \cup {"write", "fileUnlock"})
    BY <1>4, SafeConcat
  <2> HIDE DEF q
  <2>2. Safe(a, q, S)
    BY <2>1 DEF Safe
  <2> QED
    BY <1>1, <2>2, SafePlan
<1>7. Plan(a, p, Len(recs)) /\ "blank" \notin Names(p)
  <2> DEFINE c == C \o U
             d == c \o F
             e == d \o Z
  <2>1. Safe(a, c, {"write"} \cup {"write", "unlockAll"})
    BY <1>4, SafeConcat
  <2>2. a.fRecordChanged => c # <<>>
    BY <1>4, FirstOfConcat DEF Safe
  <2> HIDE DEF c
  <2>3. Safe(a, d, ({"write"} \cup {"write", "unlockAll"}) \cup {"write", "fileUnlock"})
    BY <1>4, <2>1, SafeConcat
  <2>4. a.fRecordChanged => d # <<>>
    BY <1>4, <2>1, <2>2, FirstOfConcat DEF Safe
  <2> HIDE DEF d
  <2>5. d \in Lists
    BY <2>3 DEF Safe
  <2>6. e \in Lists
    BY <1>5, <2>5, ConcatFacts
  <2>7. Names(e) = Names(d) \cup {"close"}
    BY <1>5, <2>5, NamesOfConcat
  <2>8. d # <<>> => e[1] = d[1]
    BY <1>5, <2>5, FirstOfConcat
  <2>9. e = p
    BY DEF c, d
  <2> HIDE DEF e, p
  <2>10. Safe(a, e, S)
    BY <2>3, <2>4, <2>6, <2>7, <2>8 DEF Safe
  <2> QED
    BY <1>1, <2>9, <2>10, SafePlan
<1> HIDE DEF p, q
<1>8. Begin(s, q) => q # <<>>
  BY DEF Begin, Take
<1> QED
  BY <1>2, <1>3, <1>6, <1>7, <1>8, CallActs DEF a

\* What has changed goes to the file.
LEMMA FlushActs ==
    ASSUME IInv, HotInv, NEW s \in Stations, Flush(s)
    PROVE  Acts(s)
<1> DEFINE a == area[s]
           q == WriteDBHeader(a, must)
           x == <<"write", must>>
<1>1. ~a.fHeaderLocked /\ must \in Nat /\ ~a.fAppend
  BY IdleFacts, IdleHot, StepsAreNamed DEF Begin, Flush
<1>2. Begin(s, <<x>>) \/ (Begin(s, q) /\ ~a.fRecordChanged)
  <2>1. ~Begin(s, <<>>)
    BY DEF Begin, Take
  <2> QED
    BY <2>1 DEF Flush, Cold
<1>3. x \in StepNames \X Nat /\ x[1] = "write"
  BY <1>1 DEF StepNames
<1>4. CASE Begin(s, <<x>>)
  <2> HIDE DEF x
  <2> QED
    BY <1>3, <1>4, OneCallActs
<1>5. CASE Begin(s, q) /\ ~a.fRecordChanged
  <2>1. /\ Callable(a, q) /\ q[1][1] = "headerLock"
        /\ Names(q) = {"headerLock", "count", "headerWrite", "headerUnlock"}
    BY <1>1, HeaderCall
  <2> HIDE DEF a, q
  <2>2. Plan(a, q, Len(recs))
    BY <1>1, <2>1, <1>5, PlainPlan DEF Callable, Good, Begins
  <2> QED
    BY <1>5, <2>1, <2>2, CallActs DEF a
<1> QED
  BY <1>2, <1>4, <1>5

\* What hb_dbfAppend begins with is as planned.
LEMMA AppendCall ==
    ASSUME NEW a, ~a.fAppend, a.fRecordChanged \in BOOLEAN, NEW n, NEW k \in Nat,
           NEW p, IsCold(p, a, must, <<<<"headerLock", 0>>, <<"newRecord", k>>>>)
    PROVE  Plan(a, p, n) /\ ~Owes(p)
<1> DEFINE q == <<<<"headerLock", 0>>, <<"newRecord", k>>>>
<1>1. Good(q) /\ q[1][1] = "headerLock" /\ Names(q) = {"headerLock", "newRecord"}
  BY AppendPair
<1>2. IsCold(p, a, must, q) /\ must \in Nat
  BY StepsAreNamed
<1> HIDE DEF q
<1>3. q[1][1] \in Onward /\ ~Begins(q, "newRecord")
  BY <1>1 DEF Onward, Begins
<1>4. \A z \in Steps(q) : z[1] # "goTo"
  BY <1>1, NamesAreOfSteps DEF Good
<1>5. Plan(a, p, n)
  BY <1>1, <1>2, <1>3, <1>4, ColdPlan
<1>6. p[1][1] \in Onward
  BY <1>1, <1>2, <1>3, ColdList
<1> QED
  BY <1>5, <1>6 DEF Owes, Begins, Onward

\* A record is appended, and there is room for it.
LEMMA AppendActs ==
    ASSUME IInv, HotInv, NEW s \in Stations,
           NEW bUnLockAll \in BOOLEAN, AppendRecord(s, bUnLockAll)
    PROVE  Acts(s)
<1> DEFINE a == area[s]
           k == IF bUnLockAll THEN 1 ELSE 0
           p == Cold(a, must) \o <<<<"headerLock", 0>>, <<"newRecord", k>>>>
           S == {t \in Stations : Appending(t)}
<1>1. ~a.fHeaderLocked /\ a.fRecordChanged \in BOOLEAN /\ ~a.fAppend /\ Len(recs) \in Nat
      /\ Top \in Nat
  BY IdleFacts, IdleHot, TopAssumption DEF Begin, AppendRecord
<1>2. Begin(s, p) /\ Len(recs) + Cardinality(S) < Top
  BY DEF AppendRecord
<1>3. k \in Nat
  OBVIOUS
<1>4. p \in Lists /\ Shape(a, p, Len(recs)) /\ Plan(a, p, Len(recs)) /\ ~Owes(p)
  <2>1. IsCold(p, a, must, <<<<"headerLock", 0>>, <<"newRecord", k>>>>)
    BY DEF IsCold
  <2> HIDE DEF p, a, k
  <2> QED
    BY <1>1, <1>3, <2>1, AppendShape, AppendCall
<1> HIDE DEF p
<1>5. Take(s, p) /\ p # <<>> /\ Idle(s)
  BY <1>2 DEF Begin, Take
<1>6. Len(recs) + Cardinality(Appenders(s, p)) <= Top
  <2>1. \A t \in Stations : Appends(area[t], area[t].todo) => Appending(t)
    <3> SUFFICES ASSUME NEW t \in Stations, Appends(area[t], area[t].todo), ~area[t].fAppend
                 PROVE  Appending(t)
      BY DEF Appending
    <3> DEFINE q == area[t].todo
    <3>1. q \in Lists
      BY DEF IInv, TypeOK, Area, Lists
    <3> HIDE DEF q
    <3>2. DOMAIN q = 1..Len(q)
      BY <3>1 DEF Lists
    <3>3. {"newRecord", "blank"} \cap Names(q) # {}
      BY DEF Appends, q
    <3>4. \E i \in DOMAIN q : q[i][1] \in {"newRecord", "blank"}
      BY <3>2, <3>3 DEF Names
    <3> QED
      BY <3>4 DEF Appending, q
  <2>2. Appenders(s, p) \subseteq S \cup {s}
    BY <2>1 DEF Appenders
  <2> HIDE DEF S
  <2>3. IsFiniteSet(S) /\ Cardinality(S) \in Nat
    BY StationsAssumption, FS_Subset, FS_CardinalityType DEF S
  <2>4. /\ IsFiniteSet(S \cup {s}) /\ Cardinality(S \cup {s}) \in Nat
        /\ Cardinality(S \cup {s}) <= Cardinality(S) + 1
    <3>1. /\ IsFiniteSet(S \cup {s})
          /\ Cardinality(S \cup {s}) = IF s \in S THEN Cardinality(S) ELSE Cardinality(S) + 1
      BY <2>3, FS_AddElement
    <3> QED
      BY <2>3, <3>1
  <2>5. Cardinality(Appenders(s, p)) <= Cardinality(S \cup {s})
    BY <2>2, <2>4, FS_Subset
  <2>6. Cardinality(Appenders(s, p)) \in Nat
    BY AppendersFinite
  <2> QED
    BY <1>1, <1>2, <2>3, <2>4, <2>5, <2>6
<1>7. Ready(s, p, p[1][1])
  BY <1>4, <1>5, <1>6 DEF Ready, Taken
<1> HIDE DEF a
<1> QED
  BY <1>4, <1>5, <1>7 DEF Acts

\* Whichever call is made.
LEMMA CallsActs ==
    ASSUME IInv, HotInv, NEW s \in Stations, Call(s)
    PROVE  Acts(s)
<1>1. /\ \A x \in {"goBottom", "read", "rollback", "count"} : <<x, 0>> \in StepNames \X Nat
      /\ \A x \in {"goTo", "unlock"} : \A r \in RecNos : <<x, r>> \in StepNames \X Nat
      /\ must \in Nat /\ may \in Nat
  BY TopAssumption, StepsAreNamed DEF StepNames, RecNos
<1>2. CASE GoBottom(s)
  <2> DEFINE x == <<"goBottom", 0>>
  <2>1. /\ x \in StepNames \X Nat /\ x[1] = "goBottom"
        /\ Begin(s, Cold(area[s], must) \o <<x>>)
    BY <1>1, <1>2 DEF GoBottom
  <2> HIDE DEF x
  <2> QED
    BY <1>1, <2>1, GoActs
<1>3. ASSUME NEW r \in RecNos, GoTo(s, r)
      PROVE  Acts(s)
  <2> DEFINE x == <<"goTo", r>>
  <2>1. /\ x \in StepNames \X Nat /\ x[1] = "goTo" /\ x[2] \in RecNos
        /\ Begin(s, Cold(area[s], must) \o <<x>>)
    BY <1>1, <1>3 DEF GoTo
  <2> HIDE DEF x
  <2> QED
    BY <1>1, <2>1, GoActs
<1>4. ASSUME NEW r \in RecNos, UnLockOne(s, r)
      PROVE  Acts(s)
  <2> DEFINE x == <<"unlock", r>>
  <2>1. /\ x \in StepNames \X Nat /\ x[1] = "unlock"
        /\ Begin(s, Cold(area[s], may) \o <<x>>)
    BY <1>1, <1>4 DEF UnLockOne
  <2> HIDE DEF x
  <2> QED
    BY <1>1, <2>1, GoActs
<1>5. ASSUME NEW y \in {"read", "rollback", "count"}, Begin(s, <<<<y, 0>>>>)
      PROVE  Acts(s)
  <2> DEFINE x == <<y, 0>>
  <2>1. x \in StepNames \X Nat /\ x[1] = y /\ Begin(s, <<x>>)
    BY <1>1, <1>5
  <2> HIDE DEF x
  <2> QED
    BY <2>1, OneCallActs
<1>6. CASE GetValue(s) \/ RollbackRecord(s) \/ RecCount(s)
  BY <1>5, <1>6 DEF GetValue, RollbackRecord, RecCount
<1>7. CASE \/ LockExclusive(s) \/ LockFile(s) \/ \E r \in RecNos : LockMultiple(s, r)
  BY <1>7, LocksActs
<1>8. CASE UnLock(s) \/ Close(s)
  BY <1>8, UnlocksActs
<1>9. CASE PutValue(s) \/ Flush(s) \/ \E bUnLockAll \in BOOLEAN : AppendRecord(s, bUnLockAll)
  BY <1>9, PutValueActs, FlushActs, AppendActs
<1> QED
  BY <1>2, <1>3, <1>4, <1>6, <1>7, <1>8, <1>9 DEF Call

\* A station crashes, and another one takes its place.
LEMMA CrashHot ==
    ASSUME IInv, HotInv, NEW s \in Stations, Crash(s)
    PROVE  HotInv'
<1> DEFINE b == Opened(Len(recs))
<1>1. recs' = recs /\ area' = [area EXCEPT ![s] = b]
  BY DEF Crash, Leaves
<1>2. Len(recs) \in Nat /\ area \in [Stations -> Area] /\ Top \in Nat
  BY TopAssumption DEF IInv, TypeOK
<1>3. /\ Plan(b, b.todo, Len(recs)) /\ Buffer(s, b, recs) /\ ~Appends(b, b.todo)
  BY <1>2, OpenedSound
<1> HIDE DEF b
<1>4. area'[s] = b /\ \A t \in Stations \ {s} : area'[t] = area[t]
  BY <1>1, <1>2
<1>5. PlanInv' /\ BufferInv'
  BY <1>1, <1>3, <1>4 DEF HotInv, PlanInv, BufferInv
<1>6. Room'
  <2> DEFINE S == {t \in Stations : Appends(area[t], area[t].todo)}
             T == {t \in Stations : Appends(area'[t], area'[t].todo)}
  <2>1. T \subseteq S
    BY <1>3, <1>4
  <2>2. S \subseteq Stations
    OBVIOUS
  <2>3. Len(recs) + Cardinality(S) <= Top
    BY DEF HotInv, Room
  <2> HIDE DEF S, T
  <2>4. IsFiniteSet(S) /\ Cardinality(S) \in Nat
    BY <2>2, StationsAssumption, FS_Subset, FS_CardinalityType
  <2>5. IsFiniteSet(T) /\ Cardinality(T) <= Cardinality(S)
    BY <2>1, <2>4, FS_Subset
  <2>6. Cardinality(T) \in Nat
    BY <2>5, FS_CardinalityType
  <2>7. Len(recs) + Cardinality(T) <= Top
    BY <1>2, <2>3, <2>4, <2>5, <2>6
  <2> QED
    BY <1>1, <2>7 DEF Room, T
<1> QED
  BY <1>5, <1>6 DEF HotInv

LEMMA InitHot == Init => HotInv
<1> SUFFICES ASSUME Init
             PROVE  HotInv
  OBVIOUS
<1> DEFINE b == Opened(Len(recs))
<1>1. Len(recs) = 0 /\ Top \in Nat
  BY TopAssumption DEF Init
<1>2. \A s \in Stations : /\ Plan(b, b.todo, Len(recs)) /\ Buffer(s, b, recs)
                          /\ ~Appends(b, b.todo)
  BY <1>1, OpenedSound
<1>3. \A s \in Stations : area[s] = b
  BY <1>1 DEF Init
<1> HIDE DEF b
<1>4. PlanInv /\ BufferInv
  BY <1>2, <1>3 DEF PlanInv, BufferInv
<1>5. Room
  <2> DEFINE S == {t \in Stations : Appends(area[t], area[t].todo)}
  <2>1. S = {}
    BY <1>2, <1>3
  <2>2. Cardinality(S) = 0
    BY <2>1, FS_EmptySet
  <2> HIDE DEF S
  <2>3. Len(recs) + Cardinality(S) <= Top
    BY <1>1, <2>2
  <2> QED
    BY <2>3 DEF Room, S
<1> QED
  BY <1>4, <1>5 DEF HotInv

\* Every step of the system but a crash is one of a list that is as planned.
LEMMA NextActs ==
    ASSUME IInv, HotInv, Next
    PROVE  \E s \in Stations : Acts(s) \/ Crash(s)
<1>1. ASSUME NEW s \in Stations, Step(s)
      PROVE  Acts(s)
  <2> DEFINE q == area[s].todo
  <2>1. q \in Lists /\ Shape(area[s], q, Len(recs)) /\ Plan(area[s], q, Len(recs))
    BY DEF IInv, TypeOK, Area, Lists, ShapeInv, HotInv, PlanInv
  <2>2. q # <<>> /\ Take(s, q)
    BY <1>1 DEF Step, Take
  <2>3. Len(recs) + Cardinality(Appenders(s, q)) <= Top
    <3>1. Appenders(s, q) = {t \in Stations : Appends(area[t], area[t].todo)}
      BY DEF Appenders
    <3> QED
      BY <3>1 DEF HotInv, Room
  <2>4. q = area[s].todo
    OBVIOUS
  <2> HIDE DEF q
  <2>5. Ready(s, q, q[1][1])
    BY <2>1, <2>2, <2>3 DEF Ready, Taken
  <2> QED
    BY <2>2, <2>4, <2>5 DEF Acts
<1> QED
  BY <1>1, CallsActs DEF Next

LEMMA NextHot ==
    ASSUME "writeError" \notin Cases
    PROVE  IInv /\ HotInv /\ [Next]_vars => HotInv'
<1> SUFFICES ASSUME IInv, HotInv, [Next]_vars
             PROVE  HotInv'
  OBVIOUS
<1>1. ASSUME NEW s, Acts(s)
      PROVE  HotInv'
  BY <1>1, TakeHot DEF Acts
<1>2. ASSUME NEW s \in Stations, Crash(s)
      PROVE  HotInv'
  BY <1>2, CrashHot
<1>3. CASE UNCHANGED vars
  BY <1>3 DEF vars, HotInv, PlanInv, BufferInv, Room
<1> QED
  BY <1>1, <1>2, <1>3, NextActs

\* When records can be written, no changed buffer is ever without its lock, and
\* none misses an update of another station.
THEOREM HotIsHeld ==
    ASSUME "writeError" \notin Cases
    PROVE  Spec => []HotHeld
<1>1. IInv /\ HotInv => HotHeld
  <2> SUFFICES ASSUME IInv, HotInv, NEW s \in Stations, area[s].fRecordChanged
               PROVE  /\ area[s].ulRecNo \in Held(s)
                      /\ area[s].ulRecNo \in DOMAIN recs =>
                             recs[area[s].ulRecNo] \subseteq area[s].pRecord
    BY DEF HotHeld
  <2>1. Buffer(s, area[s], recs) /\ LocksKnown /\ DOMAIN recs = 1..Len(recs)
    BY DEF IInv, TypeOK, HotInv, BufferInv
  <2>2. osRecs[s] = area[s].pLocksPos /\ (osFile = s <=> area[s].fFLocked)
    BY <2>1 DEF LocksKnown
  <2> QED
    BY <2>1, <2>2 DEF Buffer, Hot, MayGoHot, Fresh, Held
<1>2. Init => IInv /\ HotInv
  BY InitInv, InitHot
<1>3. IInv /\ HotInv /\ [Next]_vars => (IInv /\ HotInv)'
  BY NextInv, NextHot
<1> QED
  BY <1>1, <1>2, <1>3, PTL DEF Spec

-----------------------------------------------------------------------------
(* The table keeps the promise of SharedTable.                             *)

\* The abstract step of a step of station s.
Stays == recs' = recs /\ \A t \in Stations : Held(t)' = Held(t)

Gives(s) == /\ recs' = recs /\ Held(s)' \subseteq Held(s)
            /\ \A t \in Stations \ {s} : Held(t)' = Held(t)

Gets(s, more) == /\ recs' = recs /\ Held(s)' = Held(s) \cup more
                 /\ more \subseteq RecNos
                 /\ \A t \in Stations \ {s} : Held(t)' = Held(t) /\ more \cap Held(t) = {}

held == [s \in Stations |-> Held(s)]

LEMMA StaysKeeps ==
    ASSUME Stays
    PROVE  UNCHANGED <<recs, held>>
  BY DEF Stays, held

LEMMA GivesReleases ==
    ASSUME NEW s \in Stations, Gives(s)
    PROVE  Table!Next
<1> DEFINE less == Held(s) \ Held(s)'
<1>1. less \in SUBSET held[s]
  BY DEF held
<1>2. held' = [held EXCEPT ![s] = @ \ less]
  BY DEF Gives, held
<1>3. Table!Release(s)
  BY <1>1, <1>2 DEF Gives, Table!Release, held
<1> QED
  BY <1>3 DEF Table!Next

LEMMA GetsAcquires ==
    ASSUME NEW s \in Stations, NEW more, Gets(s, more)
    PROVE  Table!Next
<1>1. more \in SUBSET RecNos
  BY DEF Gets
<1>2. held' = [held EXCEPT ![s] = @ \cup more]
  BY DEF Gets, held
<1>3. \A r \in more : Table!Free(s, r)
  BY DEF Gets, Table!Free
<1>4. Table!Acquire(s)
  BY <1>1, <1>2, <1>3 DEF Gets, Table!Acquire, held
<1> QED
  BY <1>4 DEF Table!Next

\* Steps that leave the records and their locks alone.
LEMMA QuietStays ==
    ASSUME recs' = recs, osRecs' = osRecs, osFile' = osFile
    PROVE  Stays
  BY DEF Stays, Held

\* The locks of a station go.
LEMMA LocksGoneGives ==
    ASSUME IInv, NEW s \in Stations, LocksGone(s), recs' = recs
    PROVE  Gives(s)
<1>1. osRecs \in [Stations -> SUBSET Nat]
  BY DEF IInv, TypeOK
<1> QED
  BY <1>1, StationsAssumption DEF Gives, Held, LocksGone

LEMMA UnlockGives ==
    ASSUME IInv, NEW s \in Stations, NEW r, osRecs' = [osRecs EXCEPT ![s] = @ \ {r}],
           osFile' = osFile, recs' = recs
    PROVE  Gives(s)
<1>1. osRecs \in [Stations -> SUBSET Nat]
  BY DEF IInv, TypeOK
<1> QED
  BY <1>1 DEF Gives, Held

\* Who may write the record of its buffer holds it.
LEMMA HotIsMine ==
    ASSUME IInv, NEW s \in Stations, MayGoHot(area[s]), area[s].ulRecNo \in RecNos
    PROVE  area[s].ulRecNo \in Held(s)
<1>1. osRecs[s] = area[s].pLocksPos /\ (osFile = s <=> area[s].fFLocked)
  BY DEF IInv, LocksKnown
<1> QED
  BY <1>1 DEF MayGoHot, Held

\* hb_dbfGoCold updates the record or adds one.
LEMMA WriteMaps ==
    ASSUME NEW s, NEW q, Ready(s, q, "write"), area[s].fRecordChanged, PutRec(area[s]),
           UNCHANGED <<osRecs, osFile>>
    PROVE  Table!Next \/ UNCHANGED <<recs, held>>
<1> DEFINE a == area[s]
           no == a.ulRecNo
           n == Len(recs)
<1>1. /\ a \in Area /\ Buffer(s, a, recs) /\ s \in Stations /\ n \in Nat
  BY ReadyFacts
<1>2. IInv /\ recs \in Seq(SUBSET Stations)
  BY TakenFacts DEF Ready, Taken
<1>3. /\ recs' \in Seq(SUBSET Stations)
      /\ Len(recs') = IF no > n THEN no ELSE n
      /\ \A i \in 1..Len(recs') : recs'[i] = IF i = no THEN a.pRecord
                                             ELSE IF i <= n THEN recs[i] ELSE {}
  BY <1>1, <1>2, PutRecFacts
<1>4. Hot(a) /\ no \in RecNos /\ Place(a, n) /\ Fresh(s, a, recs) /\ no \in Nat /\ no > 0
  BY <1>1 DEF Buffer, RecNos, Area
<1>5. no \in Held(s)
  BY <1>1, <1>2, <1>4, HotIsMine DEF Hot
<1>6. UNCHANGED held
  BY DEF held, Held
<1> HIDE DEF a, n, no
<1>7. CASE a.fAppend
  <2>1. no = n + 1 /\ a.pRecord = {} /\ Len(recs') = n + 1
    BY <1>1, <1>3, <1>4, <1>7 DEF Place, no
  <2>2. recs' = Append(recs, {})
    <3> DEFINE e == Append(recs, {})
    <3>1. e \in Seq(SUBSET Stations) /\ Len(e) = n + 1 /\ e[n + 1] = {}
          /\ \A i \in 1..n : e[i] = recs[i]
      BY <1>2 DEF n
    <3> HIDE DEF e
    <3>2. ASSUME NEW i \in 1..n + 1
          PROVE  recs'[i] = e[i]
      <4>1. CASE i = n + 1
        BY <1>3, <2>1, <3>1, <4>1
      <4>2. CASE i \in 1..n
        <5>1. i # no /\ i <= n /\ i \in 1..Len(recs')
          BY <1>1, <2>1, <4>2
        <5> QED
          BY <1>3, <3>1, <4>2, <5>1
      <4> QED
        BY <1>1, <4>1, <4>2
    <3>3. recs' = e
      BY <1>3, <2>1, <3>1, <3>2
    <3> QED
      BY <3>3 DEF e
  <2>3. n + 1 \in held[s]
    BY <1>1, <1>5, <2>1 DEF held
  <2>4. Table!Extend(s)
    BY <1>6, <2>2, <2>3 DEF Table!Extend, held, n
  <2> QED
    BY <1>1, <2>4 DEF Table!Next
<1>8. CASE ~a.fAppend
  <2>1. no \in 1..n /\ Len(recs') = n
    BY <1>1, <1>3, <1>4, <1>8 DEF Place, Hot, no
  <2>2. recs[no] \subseteq a.pRecord /\ a.pRecord \subseteq recs[no] \cup {s}
    BY <1>4, <2>1 DEF Fresh, no, n
  <2>3. ASSUME NEW i \in 1..n
        PROVE  recs'[i] = IF i = no THEN a.pRecord ELSE recs[i]
    BY <1>1, <1>3, <2>1
  <2> DEFINE e == [recs EXCEPT ![no] = @ \cup {s}]
  <2>4. e \in Seq(SUBSET Stations) /\ Len(e) = n
        /\ \A i \in 1..n : e[i] = IF i = no THEN recs[i] \cup {s} ELSE recs[i]
    <3>1. recs[no] \cup {s} \in SUBSET Stations
      BY <1>1, <1>2, <2>1 DEF n
    <3> DEFINE v == recs[no] \cup {s}
    <3>2. e = [recs EXCEPT ![no] = v]
      OBVIOUS
    <3>3. DOMAIN recs = 1..n
      BY <1>2 DEF n
    <3>4. \A i \in 1..n : e[i] = IF i = no THEN v ELSE recs[i]
      BY <3>2, <3>3
    <3>5. e \in Seq(SUBSET Stations) /\ Len(e) = n
      <4> HIDE DEF v
      <4> QED
        BY <1>2, <2>1, <3>1, <3>2 DEF n, v
    <3> QED
      BY <3>4, <3>5
  <2> HIDE DEF e
  <2>5. CASE s \in a.pRecord
    <3>1. \A i \in 1..n : recs'[i] = e[i]
      BY <2>2, <2>3, <2>4, <2>5
    <3>2. recs' = e
      BY <1>3, <2>1, <2>4, <3>1
    <3>3. no \in DOMAIN recs /\ no \in held[s]
      BY <1>1, <1>2, <1>5, <2>1 DEF held, n
    <3>4. Table!Update(s, no)
      BY <1>6, <3>2, <3>3 DEF Table!Update, held, e
    <3> QED
      BY <1>1, <3>3, <3>4 DEF Table!Next
  <2>6. CASE s \notin a.pRecord
    <3>1. a.pRecord = recs[no]
      BY <2>2, <2>6
    <3>2. \A i \in 1..n : recs'[i] = recs[i]
      BY <2>3, <3>1
    <3>3. recs' = recs
      BY <1>2, <1>3, <2>1, <3>2 DEF n
    <3> QED
      BY <1>6, <3>3
  <2> QED
    BY <2>5, <2>6
<1> QED
  BY <1>7, <1>8

\* A lock is given when nobody else holds the record.
LEMMA LockMaps ==
    ASSUME NEW s, NEW q, Ready(s, q, "lock"), LockStep(s, q)
    PROVE  Stays \/ \E more : Gets(s, more)
<1> DEFINE r == Arg(q)
<1>1. IInv /\ s \in Stations /\ r = q[1][2] /\ q[1][1] = "lock" /\ q \in Lists /\ q # <<>>
  BY TakenFacts DEF Ready, Taken
<1>2. r \in RecNos
  BY <1>1, StepsOfTail DEF Ready, Plan, LockPlan
<1>3. osRecs \in [Stations -> SUBSET Nat]
  BY <1>1 DEF IInv, TypeOK
<1>4. recs' = recs /\ osFile' = osFile
  BY DEF LockStep
<1>5. \/ RecFree(s, r) /\ osRecs' = [osRecs EXCEPT ![s] = @ \cup {r}]
      \/ osRecs' = osRecs
  BY DEF LockStep
<1> HIDE DEF r
<1>6. CASE RecFree(s, r) /\ osRecs' = [osRecs EXCEPT ![s] = @ \cup {r}]
  <2>1. Held(s)' = Held(s) \cup {r}
    BY <1>1, <1>3, <1>4, <1>6 DEF Held
  <2>2. \A t \in Stations \ {s} : Held(t)' = Held(t)
    BY <1>1, <1>3, <1>4, <1>6 DEF Held
  <2>3. \A t \in Stations \ {s} : r \notin Held(t)
    BY <1>6, StationsAssumption DEF Held, RecFree
  <2>4. Gets(s, {r})
    BY <1>2, <1>4, <2>1, <2>2, <2>3 DEF Gets
  <2> QED
    BY <2>4
<1>7. CASE osRecs' = osRecs
  BY <1>4, <1>7, QuietStays
<1> QED
  BY <1>5, <1>6, <1>7

LEMMA FileLockMaps ==
    ASSUME NEW s, NEW q, Ready(s, q, "fileLock"), FileLock(s, q)
    PROVE  Stays \/ \E more : Gets(s, more)
<1>1. IInv /\ s \in Stations
  BY DEF Ready, Taken
<1>2. recs' = recs /\ osRecs' = osRecs /\ osFile' = IF FileFree(s) THEN s ELSE osFile
  BY DEF FileLock
<1>3. CASE FileFree(s)
  <2>1. osFile' = s
    BY <1>2, <1>3
  <2>2. \A t \in Stations \ {s} : Held(t) = {}
    BY <1>3, StationsAssumption DEF Held, FileFree
  <2>3. \A t \in Stations \ {s} : Held(t)' = Held(t)
    BY <1>1, <1>2, <1>3, <2>1, StationsAssumption DEF Held, FileFree
  <2>4. Held(s)' = Held(s) \cup RecNos
    BY <1>2, <2>1 DEF Held
  <2>5. Gets(s, RecNos)
    BY <1>2, <2>2, <2>3, <2>4 DEF Gets
  <2> QED
    BY <2>5
<1>4. CASE ~FileFree(s)
  BY <1>2, <1>4, QuietStays
<1> QED
  BY <1>3, <1>4

LEMMA FileUnlockMaps ==
    ASSUME NEW s, NEW q, Ready(s, q, "fileUnlock"), FileUnlock(s, q)
    PROVE  Gives(s)
<1>1. IInv /\ s \in Stations /\ Shape(area[s], q, Len(recs)) /\ q # <<>>
      /\ q[1][1] = "fileUnlock"
  BY DEF Ready, Taken
<1>2. area[s].fFLocked
  BY <1>1, NamesOfTail, ReadyFacts DEF Shape, LockShape, Begins
<1>3. osFile = s
  BY <1>1, <1>2 DEF IInv, LocksKnown
<1>4. recs' = recs /\ osRecs' = osRecs /\ osFile' = NoStation
  BY DEF FileUnlock
<1> QED
  BY <1>1, <1>3, <1>4, StationsAssumption DEF Gives, Held

\* Each step of a station is a step of the abstract table or leaves it alone.
LEMMA TakeMaps ==
    ASSUME NEW s, NEW q, NEW x, Ready(s, q, x), Take(s, q), "writeError" \notin Cases
    PROVE  Table!Next \/ UNCHANGED <<recs, held>>
<1>1. q # <<>> /\ Head(q) = q[1] /\ q[1][1] = x /\ IInv /\ s \in Stations
  BY TailFacts, ReadyFacts DEF Ready, Taken
<1>2. \/ x = "write" /\ Write(s, q)
      \/ x = "headerLock" /\ HeaderLock(s, q)
      \/ x = "headerUnlock" /\ HeaderUnlock(s, q)
      \/ x = "count" /\ Count(s, q)
      \/ x = "headerWrite" /\ HeaderWrite(s, q)
      \/ x = "unlockAll" /\ UnlockAllStep(s, q)
      \/ x = "unlock" /\ UnlockStep(s, q)
      \/ x = "lock" /\ LockStep(s, q)
      \/ x = "fileLock" /\ FileLock(s, q)
      \/ x = "fileUnlock" /\ FileUnlock(s, q)
      \/ x = "newRecord" /\ NewRecord(s, q)
      \/ x = "blank" /\ Blank(s, q)
      \/ x = "goTo" /\ GoToStep(s, q)
      \/ x = "goBottom" /\ GoBottomStep(s, q)
      \/ x = "read" /\ ReadRecord(s, q)
      \/ x = "put" /\ Put(s, q)
      \/ x = "rollback" /\ Rollback(s, q)
      \/ x = "close" /\ CloseStep(s, q)
  BY <1>1 DEF Take
<1>3. ASSUME Stays \/ Gives(s) \/ \E more : Gets(s, more)
      PROVE  Table!Next \/ UNCHANGED <<recs, held>>
  BY <1>1, <1>3, StaysKeeps, GivesReleases, GetsAcquires
<1>4. ASSUME recs' = recs, osRecs' = osRecs, osFile' = osFile
      PROVE  Stays
  BY <1>4, QuietStays
<1>5. CASE x = "write"
  <2>1. Write(s, q) /\ UNCHANGED <<osRecs, osFile>>
    BY <1>2, <1>5 DEF Write
  <2>2. (area[s].fRecordChanged /\ PutRec(area[s])) \/ recs' = recs
    BY <2>1 DEF Write
  <2> QED
    BY <1>3, <1>4, <1>5, <2>1, <2>2, WriteMaps
<1>6. CASE x \in {"headerLock", "headerUnlock", "count", "headerWrite", "newRecord", "blank"}
  <2>1. recs' = recs /\ osRecs' = osRecs /\ osFile' = osFile
    BY <1>2, <1>6
    DEF HeaderLock, HeaderUnlock, Count, HeaderWrite, NewRecord, Blank
  <2> QED
    BY <1>3, <1>4, <2>1
<1>7. CASE x \in {"goTo", "goBottom", "read", "put", "rollback"}
  <2>1. recs' = recs /\ osRecs' = osRecs /\ osFile' = osFile
    BY <1>2, <1>7 DEF GoToStep, GoBottomStep, ReadRecord, Put, Rollback
  <2> QED
    BY <1>3, <1>4, <2>1
<1>8. CASE x \in {"unlockAll", "unlock"}
  <2>1. /\ \E r : osRecs' = [osRecs EXCEPT ![s] = @ \ {r}]
        /\ recs' = recs /\ osFile' = osFile
    BY <1>2, <1>8 DEF UnlockAllStep, UnlockStep
  <2> QED
    BY <1>1, <1>3, <2>1, UnlockGives
<1>9. CASE x = "lock"
  BY <1>2, <1>3, <1>9, LockMaps
<1>10. CASE x = "fileLock"
  BY <1>2, <1>3, <1>10, FileLockMaps
<1>11. CASE x = "fileUnlock"
  BY <1>2, <1>3, <1>11, FileUnlockMaps
<1>12. CASE x = "close"
  <2>1. recs' = recs /\ (LocksGone(s) \/ (osRecs' = osRecs /\ osFile' = osFile))
    BY <1>2, <1>12 DEF CloseStep
  <2> QED
    BY <1>1, <1>3, <1>4, <2>1, LocksGoneGives
<1> QED
  BY <1>2, <1>5, <1>6, <1>7, <1>8, <1>9, <1>10, <1>11, <1>12

\* When records can be written, the work areas and the locks of the operating
\* system are a table whose records only their holder changes, and no update is
\* lost, whoever crashes and whichever read or header write fails.
THEOREM TableIsShared ==
    ASSUME "writeError" \notin Cases
    PROVE  Spec => TableSpec
<1>1. Init => Table!Init
  BY StationsAssumption DEF Init, Table!Init, Held
<1>2. ASSUME IInv, HotInv, [Next]_vars
      PROVE  Table!Next \/ UNCHANGED <<recs, held>>
  <2>1. ASSUME NEW s, Acts(s)
        PROVE  Table!Next \/ UNCHANGED <<recs, held>>
    BY <2>1, TakeMaps DEF Acts
  <2>2. ASSUME NEW s \in Stations, Crash(s)
        PROVE  Table!Next
    <3>1. LocksGone(s) /\ recs' = recs
      BY <2>2 DEF Crash
    <3> QED
      BY <1>2, <3>1, LocksGoneGives, GivesReleases
  <2>3. CASE UNCHANGED vars
    BY <2>3, QuietStays, StaysKeeps DEF vars
  <2> QED
    BY <1>2, <2>1, <2>2, <2>3, NextActs
<1>3. IInv /\ HotInv /\ [Next]_vars => [Table!Next]_<<recs, [s \in Stations |-> Held(s)]>>
  BY <1>2 DEF held
<1>4. Init => IInv /\ HotInv
  BY InitInv, InitHot
<1>5. IInv /\ HotInv /\ [Next]_vars => (IInv /\ HotInv)'
  BY NextInv, NextHot
<1> QED
  BY <1>1, <1>3, <1>4, <1>5, PTL DEF Spec, TableSpec, Table!Spec

-----------------------------------------------------------------------------
(* What holds besides when the header can be written and nobody crashes:   *)
(* whoever makes the table longer writes the header before the byte goes.  *)

\* The count that goes to the header is the number of records of the file, and
\* the byte is locked.
Stamp(a, q, n) ==
    Owes(q) => a.fHeaderLocked /\ (Begins(q, "headerWrite") => a.ulRecCount = n)

StampInv == \A s \in Stations : Stamp(area[s], area[s].todo, Len(recs))

Told == header = Len(recs) \/ \E s \in Stations : Owes(area[s].todo)

HeaderInv == StampInv /\ Told

\* The same when station s takes the first step of q.
Due(s, q) == /\ Ready(s, q, q[1][1]) /\ StampInv
             /\ Stamp(area[s], q, Len(recs))
             /\ \/ header = Len(recs) \/ Owes(q)
                \/ \E t \in Stations \ {s} : Owes(area[t].todo)

LEMMA DueFacts ==
    ASSUME NEW s, NEW q, Due(s, q)
    PROVE  /\ Ready(s, q, q[1][1]) /\ Taken(s, q, q[1][1]) /\ IInv
           /\ s \in Stations /\ q \in Lists /\ q # <<>> /\ area[s] \in Area
           /\ Begins(q, q[1][1])
  BY ReadyFacts DEF Due, Ready, Taken, Begins

\* The step left the work area b.
LEMMA ToldStep ==
    ASSUME NEW s, NEW q, Due(s, q), NEW b, Leaves(s, b), Stamp(b, b.todo, Len(recs')),
           \A t \in Stations \ {s} : Stamp(area[t], area[t].todo, Len(recs')),
           \/ header' = Len(recs') \/ Owes(b.todo)
           \/ \E t \in Stations \ {s} : Owes(area[t].todo)
    PROVE  HeaderInv'
<1>1. s \in Stations /\ area \in [Stations -> Area]
  BY DueFacts DEF IInv, TypeOK
<1>2. area'[s] = b /\ \A t \in Stations \ {s} : area'[t] = area[t]
  BY <1>1 DEF Leaves
<1>3. StampInv'
  BY <1>1, <1>2 DEF StampInv
<1>4. Told'
  BY <1>1, <1>2 DEF Told
<1> QED
  BY <1>3, <1>4 DEF HeaderInv

\* A step that has nothing to do with the header.
LEMMA ToldCalm ==
    ASSUME NEW s, NEW q, Due(s, q), ~Owes(q), NEW b, Leaves(s, b), ~Owes(b.todo),
           recs' = recs, header' = header
    PROVE  HeaderInv'
<1>1. Stamp(b, b.todo, Len(recs'))
  BY DEF Stamp
<1>2. \A t \in Stations \ {s} : Stamp(area[t], area[t].todo, Len(recs'))
  BY DEF Due, StampInv
<1>3. \/ header' = Len(recs') \/ \E t \in Stations \ {s} : Owes(area[t].todo)
  BY DEF Due
<1> QED
  BY <1>1, <1>2, <1>3, ToldStep

\* Only the header lock and the count come before steps about the header.
LEMMA CalmTail ==
    ASSUME NEW s, NEW q, NEW x, Taken(s, q, x), x \notin {"headerLock", "count"}
    PROVE  ~Owes(Tail(q))
  BY TakenFacts DEF Owes, Begins, MayFollow, Onward

LEMMA CalmLists ==
    /\ ~Owes(<<>>)
    /\ \A n : ~Owes(<<<<"headerUnlock", n>>>>) /\ ~Owes(<<<<"goTo", n>>>>)
    /\ \A x, q : q \in Lists /\ x \in (StepNames \ {"count", "headerWrite"}) \X Nat
                 => ~Owes(<<x>> \o q)
<1>1. ~Owes(<<>>)
  BY DEF Owes, Begins
<1>2. ASSUME NEW n, NEW x \in {"headerUnlock", "goTo"}
      PROVE  ~Owes(<<<<x, n>>>>)
  BY DEF Owes, Begins
<1>3. ASSUME NEW q \in Lists, NEW x \in (StepNames \ {"count", "headerWrite"}) \X Nat
      PROVE  ~Owes(<<x>> \o q)
  <2> DEFINE p == <<x>> \o q
  <2>1. <<x>> \in Lists /\ Len(<<x>>) = 1 /\ <<x>>[1] = x
    BY NamesOfOne
  <2>2. p[1] = x
    BY <2>1, ConcatFacts
  <2> HIDE DEF p
  <2>3. ~Owes(p)
    BY <2>2 DEF Owes, Begins
  <2> QED
    BY <2>3 DEF p
<1> QED
  BY <1>1, <1>2, <1>3

LEMMA HeaderLockTold ==
    ASSUME NEW s, NEW q, Due(s, q), q[1][1] = "headerLock", HeaderLock(s, q)
    PROVE  HeaderInv'
<1> DEFINE b == [area[s] EXCEPT !.fHeaderLocked = TRUE, !.todo = Tail(q)]
<1>1. /\ Leaves(s, b) /\ recs' = recs /\ header' = header
      /\ b.fHeaderLocked /\ b.todo = Tail(q)
  BY DueFacts DEF HeaderLock, Area
<1>2. ~Owes(q)
  BY DEF Owes, Begins
<1>3. ~Begins(Tail(q), "headerWrite")
  BY DueFacts, TakenFacts DEF Begins, MayFollow, Onward
<1> HIDE DEF b
<1>4. Stamp(b, b.todo, Len(recs'))
  BY <1>1, <1>3 DEF Stamp
<1>5. \A t \in Stations \ {s} : Stamp(area[t], area[t].todo, Len(recs'))
  BY <1>1 DEF Due, StampInv
<1>6. \/ header' = Len(recs') \/ \E t \in Stations \ {s} : Owes(area[t].todo)
  BY <1>1, <1>2 DEF Due
<1> QED
  BY <1>1, <1>4, <1>5, <1>6, ToldStep

\* hb_dbfWriteDBHeader counts the records while it has the byte.
LEMMA CountTold ==
    ASSUME NEW s, NEW q, Due(s, q), q[1][1] = "count", Count(s, q)
    PROVE  HeaderInv'
<1> DEFINE b == [area[s] EXCEPT !.ulRecCount = Len(recs), !.todo = Tail(q)]
<1>1. /\ Leaves(s, b) /\ recs' = recs /\ header' = header
      /\ b.ulRecCount = Len(recs) /\ b.todo = Tail(q)
      /\ b.fHeaderLocked = area[s].fHeaderLocked
  BY DueFacts DEF Count, Area
<1>2. Tail(q) # <<>> => Len(q) > 1 /\ Tail(q)[1][1] = "headerWrite"
  BY SMTT(30), DueFacts, TailFacts, TakenFacts DEF MayFollow, Onward
<1> HIDE DEF b
<1>3. CASE Tail(q) # <<>>
  <2>1. Owes(q) /\ Owes(b.todo)
    BY <1>1, <1>2, <1>3, DueFacts DEF Owes, Begins
  <2>2. Stamp(b, b.todo, Len(recs'))
    BY <1>1, <2>1 DEF Stamp, Due
  <2>3. \A t \in Stations \ {s} : Stamp(area[t], area[t].todo, Len(recs'))
    BY <1>1 DEF Due, StampInv
  <2> QED
    BY <1>1, <2>1, <2>2, <2>3, ToldStep
<1>4. CASE Tail(q) = <<>>
  <2>1. Len(q) = 1
    BY <1>4, DueFacts, OneStep
  <2>2. ~Owes(q) /\ ~Owes(b.todo)
    BY <1>1, <1>4, <2>1, CalmLists DEF Owes, Begins
  <2> QED
    BY <1>1, <2>2, ToldCalm
<1> QED
  BY <1>3, <1>4

\* ... and what it writes is true.
LEMMA HeaderWriteTold ==
    ASSUME NEW s, NEW q, Due(s, q), q[1][1] = "headerWrite", HeaderWrite(s, q),
           "headerError" \notin Cases
    PROVE  HeaderInv'
<1> DEFINE b == [area[s] EXCEPT !.fUpdateHeader = FALSE, !.todo = Tail(q)]
<1>1. /\ Leaves(s, b) /\ recs' = recs /\ header' = area[s].ulRecCount /\ b.todo = Tail(q)
  BY DueFacts DEF HeaderWrite, Area
<1>2. header' = Len(recs')
  BY <1>1, DueFacts DEF Due, Stamp, Owes
<1>3. ~Owes(b.todo)
  BY <1>1, DueFacts, CalmTail
<1> HIDE DEF b
<1>4. Stamp(b, b.todo, Len(recs'))
  BY <1>3 DEF Stamp
<1>5. \A t \in Stations \ {s} : Stamp(area[t], area[t].todo, Len(recs'))
  BY <1>1 DEF Due, StampInv
<1> QED
  BY <1>1, <1>2, <1>4, <1>5, ToldStep

\* A list behind the one that writes the header.
LEMMA RestOwes ==
    ASSUME NEW a, NEW how \in Nat, NEW update \in BOOLEAN, NEW q \in Lists, ~Owes(q),
           NEW rest, rest = (IF update THEN WriteDBHeader(a, how) ELSE <<>>) \o q
    PROVE  /\ ~Begins(rest, "headerWrite")
           /\ Owes(rest) => a.fHeaderLocked
           /\ update /\ a.fHeaderLocked => Owes(rest)
<1> DEFINE x == <<"count", 0>>
           y == <<"headerWrite", how>>
           l == <<"headerLock", 0>>
           u == <<"headerUnlock", 0>>
<1>1. /\ x \in StepNames \X Nat /\ y \in StepNames \X Nat
      /\ l \in StepNames \X Nat /\ u \in StepNames \X Nat
      /\ x[1] = "count" /\ l[1] = "headerLock"
  BY DEF StepNames
<1> HIDE DEF x, y, l, u
<1> DEFINE up == <<x, y>>
<1>2. up \in Lists /\ Len(up) = 2 /\ up[1] = x /\ up # <<>>
  BY <1>1 DEF Lists
<1>3. <<l>> \in Lists /\ <<u>> \in Lists /\ Len(<<l>>) = 1 /\ <<l>>[1] = l
  BY <1>1, NamesOfOne
<1> HIDE DEF up
<1>4. CASE ~update
  <2>1. rest = q
    BY <1>4, ConcatNone
  <2> QED
    BY <1>4, <2>1 DEF Owes
<1>5. CASE update /\ a.fHeaderLocked
  <2>1. rest = up \o q
    BY <1>5 DEF WriteDBHeader, up, x, y
  <2> DEFINE p == up \o q
  <2>2. Len(p) = Len(up) + Len(q) /\ Len(q) \in Nat
    BY <1>2, ConcatFacts
  <2>3. p[1] = x
    BY <1>2, FirstOfConcat
  <2>4. rest = p
    BY <2>1
  <2> HIDE DEF p
  <2>5. Len(rest) > 1 /\ rest[1][1] = "count"
    BY <1>1, <1>2, <2>2, <2>3, <2>4
  <2>6. rest # <<>>
    BY <2>5
  <2> QED
    BY <1>5, <2>5, <2>6 DEF Owes, Begins
<1>6. CASE update /\ ~a.fHeaderLocked
  <2>1. rest = ((<<l>> \o up) \o <<u>>) \o q
    BY <1>6 DEF WriteDBHeader, up, x, y, l, u
  <2> DEFINE p == <<l>> \o up
             r == p \o <<u>>
  <2>2. p \in Lists /\ p[1] = l /\ p # <<>>
    BY <1>2, <1>3, ConsFacts, ConcatFacts
  <2> HIDE DEF p
  <2>3. r \in Lists /\ r[1] = l /\ r # <<>>
    BY <1>3, <2>2, FirstOfConcat, ConcatFacts
  <2> HIDE DEF r
  <2>4. rest[1] = l
    BY <2>1, <2>3, FirstOfConcat DEF r, p
  <2>5. rest[1][1] = "headerLock"
    BY <1>1, <2>4
  <2> QED
    BY <1>6, <2>5 DEF Owes, Begins
<1> QED
  BY <1>4, <1>5, <1>6

LEMMA AfterLockOwes ==
    ASSUME NEW a \in Area, NEW t \in Lists, ~Owes(t)
    PROVE  ~Owes(AfterLock(a, t).todo)
<1> DEFINE g == <<"goTo", a.ulRecNo>>
           b == AfterLock(a, t)
<1>1. g \in (StepNames \ {"count", "headerWrite"}) \X Nat
  BY DEF Area, StepNames
<1>2. ~Owes(<<g>> \o t)
  BY <1>1, CalmLists
<1>3. b.todo = t \/ b.todo = <<g>> \o t
  BY DEF AfterLock, Area
<1> HIDE DEF g
<1> QED
  BY <1>2, <1>3

\* What comes behind a record that was written is the header, when the record
\* was a new one or the header waits to be written.
LEMMA WriteTold ==
    ASSUME NEW s, NEW q, Due(s, q), q[1][1] = "write", Write(s, q),
           "writeError" \notin Cases
    PROVE  HeaderInv'
<1> DEFINE a == area[s]
           update == a.fUpdateHeader \/ a.fAppend
           how == Arg(q)
           rest == (IF update THEN WriteDBHeader(a, how) ELSE <<>>) \o Tail(q)
           b == [a EXCEPT !.fRecordChanged = FALSE, !.fAppend = FALSE,
                          !.fUpdateHeader = update, !.todo = rest]
           c == [a EXCEPT !.todo = Tail(q)]
           n == Len(recs)
           m == Len(recs')
<1>1. /\ Ready(s, q, "write") /\ Taken(s, q, "write") /\ a \in Area /\ IInv /\ s \in Stations
      /\ ~Owes(q) /\ Tail(q) \in Lists /\ how \in Nat /\ header' = header
  BY DueFacts, TakenFacts DEF Owes, Begins, Write
<1>2. ~Owes(Tail(q))
  BY <1>1, CalmTail
<1>3. \/ a.fRecordChanged /\ PutRec(a) /\ Leaves(s, b)
      \/ Leaves(s, c) /\ recs' = recs
  BY DEF Write
<1>4. CASE Leaves(s, c) /\ recs' = recs
  <2>1. c.todo = Tail(q)
    BY <1>1 DEF Area
  <2> HIDE DEF c
  <2> QED
    BY <1>1, <1>2, <1>4, <2>1, ToldCalm
<1>5. CASE a.fRecordChanged /\ PutRec(a) /\ Leaves(s, b)
  <2>1. b.todo = rest /\ b.fHeaderLocked = a.fHeaderLocked
    BY <1>1 DEF Area
  <2>2. /\ a.fAppend => a.fHeaderLocked
        /\ ~a.fAppend => m = n
    <3>1. Buffer(s, a, recs) /\ recs \in Seq(SUBSET Stations) /\ n \in Nat
      BY <1>1, ReadyFacts, TakenFacts
    <3>2. m = IF a.ulRecNo > n THEN a.ulRecNo ELSE n
      BY <1>1, <1>5, <3>1, PutRecFacts
    <3>3. Hot(a) /\ Place(a, n) /\ a.ulRecNo \in Nat
      BY <1>1, <1>5, <3>1 DEF Buffer, Area
    <3> QED
      BY <3>1, <3>2, <3>3 DEF Place, Hot
  <2>3. /\ ~Begins(rest, "headerWrite")
        /\ Owes(rest) => a.fHeaderLocked
        /\ a.fAppend => Owes(rest)
    BY <1>1, <1>2, <2>2, RestOwes
  <2> HIDE DEF rest, b
  <2>4. Stamp(b, b.todo, m)
    BY <2>1, <2>3 DEF Stamp
  <2>5. ASSUME NEW t \in Stations \ {s}
        PROVE  Stamp(area[t], area[t].todo, m)
    <3>1. Stamp(area[t], area[t].todo, n)
      BY DEF Due, StampInv
    <3>2. CASE ~a.fAppend
      BY <2>2, <3>1, <3>2
    <3>3. CASE a.fAppend
      <4>1. ~area[t].fHeaderLocked
        BY <1>1, <2>2, <3>3, OneHeader
      <4> QED
        BY <3>1, <4>1 DEF Stamp
    <3> QED
      BY <3>2, <3>3
  <2>6. \/ header' = m \/ Owes(b.todo)
        \/ \E t \in Stations \ {s} : Owes(area[t].todo)
    BY <1>1, <2>1, <2>2, <2>3 DEF Due
  <2> QED
    BY <1>5, <2>4, <2>5, <2>6, ToldStep
<1> QED
  BY <1>3, <1>4, <1>5

\* The steps about the locks.
LEMMA LocksTold ==
    ASSUME NEW s, NEW q, NEW x, Due(s, q), q[1][1] = x,
           \/ x = "headerUnlock" /\ HeaderUnlock(s, q)
           \/ x = "unlockAll" /\ UnlockAllStep(s, q)
           \/ x = "unlock" /\ UnlockStep(s, q)
           \/ x = "lock" /\ LockStep(s, q)
           \/ x = "fileLock" /\ FileLock(s, q)
           \/ x = "fileUnlock" /\ FileUnlock(s, q)
    PROVE  HeaderInv'
<1> DEFINE a == area[s]
           t == Tail(q)
<1>1. /\ Taken(s, q, x) /\ a \in Area /\ ~Owes(q) /\ t \in Lists
      /\ recs' = recs /\ header' = header
  BY DueFacts, TakenFacts
  DEF Owes, Begins, HeaderUnlock, UnlockAllStep, UnlockStep, LockStep, FileLock, FileUnlock
<1>2. ~Owes(t)
  BY <1>1, CalmTail
<1>3. SUFFICES ASSUME TRUE
               PROVE  \E b : Leaves(s, b) /\ ~Owes(b.todo)
  BY <1>1, ToldCalm
<1>4. CASE x = "headerUnlock"
  <2> DEFINE b == [a EXCEPT !.fHeaderLocked = FALSE, !.todo = t]
  <2>1. Leaves(s, b) /\ b.todo = t
    BY <1>1, <1>4 DEF HeaderUnlock, Area
  <2> HIDE DEF b
  <2> QED
    BY <1>2, <2>1
<1>5. CASE x = "unlockAll"
  <2>1. PICK r \in a.pLocksPos :
            Leaves(s, [a EXCEPT !.pLocksPos = @ \ {r},
                                !.todo = IF a.pLocksPos = {r} THEN t ELSE q])
    BY <1>5 DEF UnlockAllStep
  <2> DEFINE b == [a EXCEPT !.pLocksPos = @ \ {r},
                            !.todo = IF a.pLocksPos = {r} THEN t ELSE q]
  <2>2. Leaves(s, b) /\ (b.todo = t \/ b.todo = q)
    BY <1>1, <2>1 DEF Area
  <2> HIDE DEF b
  <2> QED
    BY <1>1, <1>2, <2>2
<1>6. CASE x = "unlock"
  <2> DEFINE b == [a EXCEPT !.pLocksPos = @ \ {Arg(q)}, !.todo = t]
  <2>1. Leaves(s, b) /\ b.todo = t
    BY <1>1, <1>6 DEF UnlockStep, Area
  <2> HIDE DEF b
  <2> QED
    BY <1>2, <2>1
<1>7. CASE x = "fileUnlock"
  <2> DEFINE b == [a EXCEPT !.fFLocked = FALSE, !.todo = t]
  <2>1. Leaves(s, b) /\ b.todo = t
    BY <1>1, <1>7 DEF FileUnlock, Area
  <2> HIDE DEF b
  <2> QED
    BY <1>2, <2>1
<1>8. CASE x = "lock"
  <2> DEFINE r == Arg(q)
             c == [a EXCEPT !.pLocksPos = @ \cup {r}]
             d == [c EXCEPT !.todo = t]
             e == [a EXCEPT !.todo = IF t = <<>> THEN <<>> ELSE <<<<"headerUnlock", 0>>>>]
  <2>1. r \in Nat
    BY <1>1, TakenFacts
  <2>2. c \in Area
    BY <1>1, <2>1 DEF Area
  <2>3. Leaves(s, AfterLock(c, t)) \/ Leaves(s, d) \/ Leaves(s, e)
    BY <1>8 DEF LockStep
  <2>4. ~Owes(AfterLock(c, t).todo)
    BY <1>1, <1>2, <2>2, AfterLockOwes
  <2>5. d.todo = t /\ (e.todo = <<>> \/ e.todo = <<<<"headerUnlock", 0>>>>)
    BY <1>1 DEF Area
  <2> HIDE DEF d, e
  <2> QED
    BY <1>2, <2>3, <2>4, <2>5, CalmLists
<1>9. CASE x = "fileLock"
  <2> DEFINE c == [a EXCEPT !.fFLocked = FileFree(s)]
  <2>1. c \in Area
    BY <1>1 DEF Area, FileFree
  <2>2. Leaves(s, AfterLock(c, t))
    BY <1>9 DEF FileLock
  <2>3. ~Owes(AfterLock(c, t).todo)
    BY <1>1, <1>2, <2>1, AfterLockOwes
  <2> QED
    BY <2>2, <2>3
<1> QED
  BY <1>4, <1>5, <1>6, <1>7, <1>8, <1>9

\* The steps that move in the table, and those about the buffer.
LEMMA BufferTold ==
    ASSUME NEW s, NEW q, NEW x, Due(s, q), q[1][1] = x,
           \/ x = "goTo" /\ GoToStep(s, q)
           \/ x = "goBottom" /\ GoBottomStep(s, q)
           \/ x = "read" /\ ReadRecord(s, q)
           \/ x = "put" /\ Put(s, q)
           \/ x = "rollback" /\ Rollback(s, q)
    PROVE  HeaderInv'
<1> DEFINE a == area[s]
           t == Tail(q)
<1>1. /\ Taken(s, q, x) /\ a \in Area /\ ~Owes(q) /\ t \in Lists
      /\ recs' = recs /\ header' = header
  BY DueFacts, TakenFacts
  DEF Owes, Begins, GoToStep, GoBottomStep, ReadRecord, Put, Rollback
<1>2. ~Owes(t) /\ ~Owes(<<>>) /\ \A n : ~Owes(<<<<"goTo", n>>>>)
  BY <1>1, CalmTail, CalmLists
<1>3. SUFFICES ASSUME TRUE
               PROVE  \E b : Leaves(s, b) /\ ~Owes(b.todo)
  BY <1>1, ToldCalm
<1>4. CASE x = "goTo"
  <2> DEFINE r == Arg(q)
             count == IF r > a.ulRecCount THEN Len(recs) ELSE a.ulRecCount
             there == r \in 1 .. count
             b == [a EXCEPT !.ulRecCount = count, !.ulRecNo = IF there THEN r ELSE count + 1,
                            !.fPositioned = there, !.fValidBuffer = ~there,
                            !.pRecord = {}, !.todo = t]
  <2>1. Leaves(s, b) /\ b.todo = t
    BY <1>1, <1>4 DEF GoToStep, Area
  <2> HIDE DEF b
  <2> QED
    BY <1>2, <2>1
<1>5. CASE x = "goBottom"
  <2> DEFINE b == [a EXCEPT !.ulRecCount = Len(recs), !.todo = <<<<"goTo", Len(recs)>>>>]
  <2>1. Leaves(s, b) /\ b.todo = <<<<"goTo", Len(recs)>>>>
    BY <1>1, <1>5 DEF GoBottomStep, Area
  <2> HIDE DEF b
  <2> QED
    BY <1>2, <2>1
<1>6. CASE x = "read"
  <2> DEFINE behind == a.fPositioned /\ a.ulRecNo > a.ulRecCount
             count == IF behind THEN Len(recs) ELSE a.ulRecCount
             b == [a EXCEPT !.ulRecCount = count, !.fValidBuffer = TRUE, !.todo = t]
             c == [b EXCEPT !.pRecord = recs[a.ulRecNo]]
             d == [a EXCEPT !.ulRecCount = count, !.todo = <<>>]
  <2>1. Leaves(s, b) \/ Leaves(s, c) \/ Leaves(s, d)
    BY <1>6 DEF ReadRecord
  <2>2. b.todo = t /\ c.todo = t /\ d.todo = <<>>
    BY <1>1 DEF Area
  <2> HIDE DEF b, c, d
  <2> QED
    BY <1>2, <2>1, <2>2
<1>7. CASE x = "put"
  <2> DEFINE hot == a.fPositioned /\ (a.fRecordChanged \/ MayGoHot(a))
             b == [a EXCEPT !.fRecordChanged = @ \/ hot,
                            !.pRecord = IF hot THEN @ \cup {s} ELSE @,
                            !.todo = t]
  <2>1. Leaves(s, b) /\ b.todo = t
    BY <1>1, <1>7 DEF Put, Area
  <2> HIDE DEF b
  <2> QED
    BY <1>2, <2>1
<1>8. CASE x = "rollback"
  <2> DEFINE b == [a EXCEPT !.pRecord = {}, !.todo = t]
             c == [a EXCEPT !.fRecordChanged = FALSE, !.fValidBuffer = FALSE,
                            !.pRecord = {}, !.todo = t]
  <2>1. Leaves(s, b) \/ Leaves(s, c)
    BY <1>8 DEF Rollback
  <2>2. b.todo = t /\ c.todo = t
    BY <1>1 DEF Area
  <2> HIDE DEF b, c
  <2> QED
    BY <1>2, <2>1, <2>2
<1> QED
  BY <1>4, <1>5, <1>6, <1>7, <1>8

\* hb_dbfAppend, and hb_dbfClose with a header that waits to be written.
LEMMA AppendTold ==
    ASSUME NEW s, NEW q, NEW x, Due(s, q), q[1][1] = x,
           \/ x = "newRecord" /\ NewRecord(s, q)
           \/ x = "blank" /\ Blank(s, q)
           \/ x = "close" /\ CloseStep(s, q)
    PROVE  HeaderInv'
<1> DEFINE a == area[s]
           t == Tail(q)
<1>1. /\ Ready(s, q, x) /\ Taken(s, q, x) /\ a \in Area /\ ~Owes(q) /\ t \in Lists
      /\ recs' = recs /\ header' = header /\ Len(recs) \in Nat
  BY DueFacts, TakenFacts DEF Owes, Begins, NewRecord, Blank, CloseStep
<1>2. SUFFICES ASSUME TRUE
               PROVE  \E b : Leaves(s, b) /\ ~Owes(b.todo)
  BY <1>1, ToldCalm
<1>3. CASE x = "newRecord"
  <2> DEFINE n == Len(recs) + 1
             excl == Arg(q) = 1
             c == [a EXCEPT !.ulRecCount = n - 1]
             p == (IF c.fFLocked \/ n \in c.pLocksPos THEN <<>> ELSE LockRecord(c, n, excl))
                  \o <<<<"blank", 0>>, <<"headerUnlock", 0>>>>
             b == [c EXCEPT !.todo = p]
  <2>1. Leaves(s, b)
    BY <1>3 DEF NewRecord
  <2>2. b.todo = p /\ n \in Nat /\ excl \in BOOLEAN
    BY <1>1 DEF Area
  <2>3. ~c.fRecordChanged
    <3>1. Names(q) \cap Risky # {} /\ q[1][1] # "write" /\ HotPlan(a, q)
      BY <1>1, <1>3, TakenFacts DEF Risky, Ready, Plan
    <3>2. ~a.fRecordChanged
      BY <3>1 DEF HotPlan
    <3> QED
      BY <1>1, <3>2 DEF Area
  <2> HIDE DEF b, c, n, excl
  <2>4. p[1][1] \in {"blank", "lock", "unlockAll"}
    BY <2>2, <2>3, AppendList
  <2> HIDE DEF p
  <2>5. ~Owes(p)
    BY <2>4 DEF Owes, Begins
  <2> QED
    BY <2>1, <2>2, <2>5
<1>4. CASE x = "blank"
  <2> DEFINE n == a.ulRecCount + 1
             w == <<"write", may>>
             p == <<w>> \o t
             b == [a EXCEPT !.pRecord = {}, !.fValidBuffer = TRUE,
                            !.fUpdateHeader = TRUE, !.fRecordChanged = TRUE, !.fAppend = TRUE,
                            !.fPositioned = TRUE, !.ulRecCount = n, !.ulRecNo = n,
                            !.todo = p]
  <2>1. Leaves(s, b)
    BY <1>4 DEF Blank
  <2>2. b.todo = p
    BY <1>1 DEF Area
  <2>3. w \in (StepNames \ {"count", "headerWrite"}) \X Nat
    BY StepsAreNamed DEF StepNames
  <2>4. ~Owes(p)
    BY <1>1, <2>3, CalmLists
  <2> HIDE DEF b, p
  <2> QED
    BY <2>1, <2>2, <2>4
<1>5. CASE x = "close"
  <2> DEFINE p == WriteDBHeader(a, may) \o q
             b == [a EXCEPT !.todo = p]
             o == Opened(Len(recs))
  <2>1. Leaves(s, b) \/ Leaves(s, o)
    BY <1>5 DEF CloseStep
  <2>2. b.todo = p /\ o.todo = <<>>
    BY <1>1 DEF Area, Opened
  <2>3. ~Owes(p)
    <3>1. ~a.fHeaderLocked
      BY <1>1, <1>5, NothingFollows, LastStep
    <3>2. q \in Lists /\ Chain(q) /\ q[1][1] \in Onward
      BY <1>1, <1>5 DEF Taken, Shape, Onward
    <3>3. IsUpdate(p, a, may, q) /\ may \in Nat
      BY StepsAreNamed DEF IsUpdate
    <3> HIDE DEF p, a
    <3>4. p[1][1] = "headerLock"
      BY <3>1, <3>2, <3>3, HeaderList
    <3> QED
      BY <3>4 DEF Owes, Begins
  <2> HIDE DEF b, o, p
  <2> QED
    BY <2>1, <2>2, <2>3, CalmLists
<1> QED
  BY <1>3, <1>4, <1>5

LEMMA NextTold ==
    ASSUME Cases \cap {"writeError", "headerError", "crash"} = {}
    PROVE  IInv /\ HotInv /\ HeaderInv /\ [Next]_vars => HeaderInv'
<1> SUFFICES ASSUME IInv, HotInv, HeaderInv, [Next]_vars
             PROVE  HeaderInv'
  OBVIOUS
<1>1. ASSUME NEW s, Acts(s)
      PROVE  HeaderInv'
  <2>1. PICK q : /\ Ready(s, q, q[1][1]) /\ Take(s, q)
                 /\ q = area[s].todo \/ (Idle(s) /\ ~Owes(q))
    BY <1>1 DEF Acts
  <2>2. s \in Stations /\ q # <<>> /\ Head(q) = q[1]
    BY <2>1, ReadyFacts, TailFacts
  <2>3. Due(s, q)
    <3>1. Idle(s) => ~Owes(area[s].todo)
      BY CalmLists DEF Idle
    <3>2. Stamp(area[s], area[s].todo, Len(recs)) /\ StampInv
      BY <2>2 DEF HeaderInv, StampInv
    <3>3. \/ header = Len(recs) \/ Owes(area[s].todo)
          \/ \E t \in Stations \ {s} : Owes(area[t].todo)
      BY DEF HeaderInv, Told
    <3>4. Stamp(area[s], q, Len(recs))
      BY <2>1, <3>2 DEF Stamp
    <3>5. \/ header = Len(recs) \/ Owes(q)
          \/ \E t \in Stations \ {s} : Owes(area[t].todo)
      BY <2>1, <3>1, <3>3
    <3> QED
      BY <2>1, <3>2, <3>4, <3>5 DEF Due
  <2> DEFINE x == q[1][1]
  <2>4. \/ x = "write" /\ Write(s, q)
        \/ x = "headerLock" /\ HeaderLock(s, q)
        \/ x = "headerUnlock" /\ HeaderUnlock(s, q)
        \/ x = "count" /\ Count(s, q)
        \/ x = "headerWrite" /\ HeaderWrite(s, q)
        \/ x = "unlockAll" /\ UnlockAllStep(s, q)
        \/ x = "unlock" /\ UnlockStep(s, q)
        \/ x = "lock" /\ LockStep(s, q)
        \/ x = "fileLock" /\ FileLock(s, q)
        \/ x = "fileUnlock" /\ FileUnlock(s, q)
        \/ x = "newRecord" /\ NewRecord(s, q)
        \/ x = "blank" /\ Blank(s, q)
        \/ x = "goTo" /\ GoToStep(s, q)
        \/ x = "goBottom" /\ GoBottomStep(s, q)
        \/ x = "read" /\ ReadRecord(s, q)
        \/ x = "put" /\ Put(s, q)
        \/ x = "rollback" /\ Rollback(s, q)
        \/ x = "close" /\ CloseStep(s, q)
    BY <2>1, <2>2 DEF Take
  <2>5. "writeError" \notin Cases /\ "headerError" \notin Cases
    OBVIOUS
  <2>6. CASE x \in {"write", "headerLock", "count", "headerWrite"}
    BY <2>3, <2>4, <2>5, <2>6, WriteTold, HeaderLockTold, CountTold, HeaderWriteTold
  <2>7. CASE x \in {"headerUnlock", "unlockAll", "unlock", "lock", "fileLock", "fileUnlock"}
    BY <2>3, <2>4, <2>7, LocksTold
  <2>8. CASE x \in {"goTo", "goBottom", "read", "put", "rollback"}
    BY <2>3, <2>4, <2>8, BufferTold
  <2>9. CASE x \in {"newRecord", "blank", "close"}
    BY <2>3, <2>4, <2>9, AppendTold
  <2> QED
    BY <2>4, <2>6, <2>7, <2>8, <2>9
<1>2. \A s \in Stations : ~Crash(s)
  BY DEF Crash
<1>3. CASE UNCHANGED vars
  BY <1>3 DEF vars, HeaderInv, StampInv, Told
<1> QED
  BY <1>1, <1>2, <1>3, NextActs

\* When records and header can be written and nobody crashes in the middle, the
\* header is true whenever its byte is free, however the appends have met and
\* whichever read fails.
THEOREM HeaderIsTrue ==
    ASSUME Cases \cap {"writeError", "headerError", "crash"} = {}
    PROVE  Spec => []HeaderTrue
<1>1. IInv /\ HeaderInv => HeaderTrue
  <2> SUFFICES ASSUME IInv, HeaderInv, osHeader = NoStation, header # Len(recs)
               PROVE  FALSE
    BY DEF HeaderTrue
  <2>1. PICK s \in Stations : Owes(area[s].todo)
    BY DEF HeaderInv, Told
  <2>2. area[s].fHeaderLocked
    BY <2>1 DEF HeaderInv, StampInv, Stamp
  <2>3. osHeader = s
    BY <2>2 DEF IInv, LocksKnown
  <2> QED
    BY <2>3, StationsAssumption
<1>2. Init => IInv /\ HotInv /\ HeaderInv
  <2> SUFFICES ASSUME Init
               PROVE  HeaderInv
    BY InitInv, InitHot
  <2>1. \A s \in Stations : ~Owes(area[s].todo)
    BY CalmLists DEF Init, Opened
  <2>2. header = Len(recs)
    BY DEF Init
  <2> QED
    BY <2>1, <2>2 DEF HeaderInv, StampInv, Stamp, Told
<1>3. IInv /\ HotInv /\ HeaderInv /\ [Next]_vars => (IInv /\ HotInv /\ HeaderInv)'
  <2>1. "writeError" \notin Cases
    OBVIOUS
  <2> QED
    BY <2>1, NextInv, NextHot, NextTold
<1> QED
  BY <1>1, <1>2, <1>3, PTL DEF Spec
=============================================================================
