-------------------------- MODULE LockTable_proofs --------------------------
(***************************************************************************)
(* For files and tables of any size: the array fits into its allocation,   *)
(* and until an unlock cuts an entry in memory given back, it stays sorted *)
(* and joined, the search by halves is right, and every call is answered   *)
(* as the set of the bytes locked says.                                    *)
(***************************************************************************)
EXTENDS LockTable, SequenceTheorems, TLAPS

\* An array of ranges as two arrays of numbers.
Nums(n, st, en) == \A i \in 1 .. n : st[i] \in Nat /\ en[i] \in Nat /\ st[i] < en[i]
Rising(n, st, en) == \A i, j \in 1 .. n : i < j => en[i] < st[j]
Holds(n, st, en, b) == \E i \in 1 .. n : st[i] <= b /\ b < en[i]

\* A byte is in a range, and what the four changes do with the numbers.
In(lo, hi, b) == lo <= b /\ b < hi

IsChange(n, st, en, rs, re, k, a, e) ==
    \A i \in 1 .. n : /\ rs[i] = IF i = k THEN a ELSE st[i]
                      /\ re[i] = IF i = k THEN e ELSE en[i]
IsInsert(n, st, en, rs, re, pos, a, e) ==
    \A i \in 1 .. n + 1 :
       /\ rs[i] = IF i <= pos THEN st[i] ELSE IF i = pos + 1 THEN a ELSE st[i - 1]
       /\ re[i] = IF i <= pos THEN en[i] ELSE IF i = pos + 1 THEN e ELSE en[i - 1]
IsDelete(n, st, en, rs, re, k) ==
    \A i \in 1 .. n - 1 : /\ rs[i] = IF i < k THEN st[i] ELSE st[i + 1]
                          /\ re[i] = IF i < k THEN en[i] ELSE en[i + 1]
IsJoin(n, st, en, rs, re, k) ==
    \A i \in 1 .. n - 1 : /\ rs[i] = IF i <= k THEN st[i] ELSE st[i + 1]
                          /\ re[i] = IF i < k THEN en[i] ELSE en[i + 1]

-----------------------------------------------------------------------------
(* What the changes of the array do to its order and to its bytes.         *)

\* An entry that holds the byte is named.
LEMMA Named ==
    ASSUME NEW n \in Nat, NEW st, NEW en, NEW b \in Nat, NEW i \in 1 .. n,
           st[i] <= b, b < en[i]
    PROVE  Holds(n, st, en, b)
  BY DEF Holds

\* No byte is in two entries.
LEMMA Disjoint ==
    ASSUME NEW n \in Nat, NEW st, NEW en, NEW b \in Nat,
           Nums(n, st, en), Rising(n, st, en),
           NEW i \in 1 .. n, NEW k \in 1 .. n, i # k,
           st[k] <= b, b < en[k]
    PROVE  ~(st[i] <= b /\ b < en[i])
<1>1. CASE i < k
  BY <1>1 DEF Nums, Rising
<1>2. CASE k < i
  BY <1>2 DEF Nums, Rising
<1> QED
  BY <1>1, <1>2

\* An entry takes other bounds, between those of its neighbours.
LEMMA ChangedRising ==
    ASSUME NEW n \in Nat, NEW st, NEW en, NEW rs, NEW re, NEW k \in 1 .. n,
           NEW a \in Nat, NEW e \in Nat, a < e,
           Nums(n, st, en), Rising(n, st, en),
           k > 1 => en[k - 1] < a, k < n => e < st[k + 1],
           IsChange(n, st, en, rs, re, k, a, e)
    PROVE  Nums(n, rs, re) /\ Rising(n, rs, re)
<1> USE DEF IsChange
<1>1. Nums(n, rs, re)
  BY DEF Nums
<1>2. \A i \in 1 .. n : i < k => en[i] < a
  BY DEF Nums, Rising
<1>3. \A i \in 1 .. n : k < i => e < st[i]
  BY DEF Nums, Rising
<1> QED
  BY <1>1, <1>2, <1>3 DEF Rising

\* The bytes then: those of the new bounds, and of the other entries.
LEMMA ChangedHolds ==
    ASSUME NEW n \in Nat, NEW st, NEW en, NEW rs, NEW re, NEW k \in 1 .. n,
           NEW a \in Nat, NEW e \in Nat,
           Nums(n, st, en), Rising(n, st, en),
           IsChange(n, st, en, rs, re, k, a, e),
           NEW b \in Nat
    PROVE  Holds(n, rs, re, b) <=>
              \/ In(a, e, b)
              \/ Holds(n, st, en, b) /\ ~In(st[k], en[k], b)
<1> USE DEF IsChange, In
<1>1. ASSUME NEW i \in 1 .. n, i # k, rs[i] <= b, b < re[i]
      PROVE  Holds(n, st, en, b) /\ ~In(st[k], en[k], b)
  <2>1. st[i] <= b /\ b < en[i]
    BY <1>1
  <2> QED
    BY <1>1, <2>1, Named, Disjoint
<1>2. ASSUME a <= b, b < e PROVE Holds(n, rs, re, b)
  <2>1. rs[k] <= b /\ b < re[k]
    BY <1>2
  <2> QED
    BY <2>1, Named
<1>3. ASSUME NEW i \in 1 .. n, st[i] <= b, b < en[i], ~In(st[k], en[k], b)
      PROVE  Holds(n, rs, re, b)
  <2>1. rs[i] <= b /\ b < re[i]
    BY <1>3
  <2> QED
    BY <2>1, Named
<1>4. Holds(n, rs, re, b) => \/ In(a, e, b)
                             \/ Holds(n, st, en, b) /\ ~In(st[k], en[k], b)
  BY <1>1 DEF Holds
<1>5. Holds(n, st, en, b) /\ ~In(st[k], en[k], b) => Holds(n, rs, re, b)
  BY <1>3 DEF Holds
<1> QED
  BY <1>2, <1>4, <1>5

\* A new entry goes between two others.
LEMMA InsertedRising ==
    ASSUME NEW n \in Nat, NEW st, NEW en, NEW rs, NEW re, NEW pos \in 0 .. n,
           NEW a \in Nat, NEW e \in Nat, a < e,
           Nums(n, st, en), Rising(n, st, en),
           pos > 0 => en[pos] < a, pos < n => e < st[pos + 1],
           IsInsert(n, st, en, rs, re, pos, a, e)
    PROVE  Nums(n + 1, rs, re) /\ Rising(n + 1, rs, re)
<1> USE DEF IsInsert
<1>1. Nums(n + 1, rs, re)
  BY DEF Nums
<1>2. \A i \in 1 .. n : i <= pos => en[i] < a
  BY DEF Nums, Rising
<1>3. \A i \in 1 .. n : pos < i => e < st[i]
  BY DEF Nums, Rising
<1> QED
  BY <1>1, <1>2, <1>3 DEF Rising

\* Its bytes are added.
LEMMA InsertedHolds ==
    ASSUME NEW n \in Nat, NEW st, NEW en, NEW rs, NEW re, NEW pos \in 0 .. n,
           NEW a \in Nat, NEW e \in Nat,
           IsInsert(n, st, en, rs, re, pos, a, e),
           NEW b \in Nat
    PROVE  Holds(n + 1, rs, re, b) <=> In(a, e, b) \/ Holds(n, st, en, b)
<1> USE DEF IsInsert, In
<1>1. ASSUME NEW i \in 1 .. n + 1, rs[i] <= b, b < re[i]
      PROVE  In(a, e, b) \/ Holds(n, st, en, b)
  <2>1. CASE i <= pos
    <3>1. i \in 1 .. n /\ st[i] <= b /\ b < en[i]
      BY <1>1, <2>1
    <3> QED
      BY <3>1, Named
  <2>2. CASE i = pos + 1
    BY <1>1, <2>2
  <2>3. CASE i > pos + 1
    <3>1. i - 1 \in 1 .. n /\ st[i - 1] <= b /\ b < en[i - 1]
      BY <1>1, <2>3
    <3> QED
      BY <3>1, Named
  <2> QED
    BY <2>1, <2>2, <2>3
<1>2. ASSUME a <= b, b < e PROVE Holds(n + 1, rs, re, b)
  <2>1. pos + 1 \in 1 .. n + 1 /\ rs[pos + 1] <= b /\ b < re[pos + 1]
    BY <1>2
  <2> QED
    BY <2>1, Named
<1>3. ASSUME NEW i \in 1 .. n, st[i] <= b, b < en[i] PROVE Holds(n + 1, rs, re, b)
  <2>1. CASE i <= pos
    <3>1. i \in 1 .. n + 1 /\ rs[i] <= b /\ b < re[i]
      BY <1>3, <2>1
    <3> QED
      BY <3>1, Named
  <2>2. CASE i > pos
    <3>1. i + 1 \in 1 .. n + 1 /\ rs[i + 1] <= b /\ b < re[i + 1]
      BY <1>3, <2>2
    <3> QED
      BY <3>1, Named
  <2> QED
    BY <2>1, <2>2
<1>4. Holds(n + 1, rs, re, b) => In(a, e, b) \/ Holds(n, st, en, b)
  BY <1>1 DEF Holds
<1>5. Holds(n, st, en, b) => Holds(n + 1, rs, re, b)
  BY <1>3 DEF Holds
<1> QED
  BY <1>2, <1>4, <1>5

\* An entry is taken out.
LEMMA DeletedRising ==
    ASSUME NEW n \in Nat, NEW st, NEW en, NEW rs, NEW re, NEW k \in 1 .. n,
           Nums(n, st, en), Rising(n, st, en),
           IsDelete(n, st, en, rs, re, k)
    PROVE  Nums(n - 1, rs, re) /\ Rising(n - 1, rs, re)
  BY DEF Nums, Rising, IsDelete

\* Its bytes are gone.
LEMMA DeletedHolds ==
    ASSUME NEW n \in Nat, NEW st, NEW en, NEW rs, NEW re, NEW k \in 1 .. n,
           Nums(n, st, en), Rising(n, st, en),
           IsDelete(n, st, en, rs, re, k),
           NEW b \in Nat
    PROVE  Holds(n - 1, rs, re, b) <=>
              Holds(n, st, en, b) /\ ~In(st[k], en[k], b)
<1> USE DEF IsDelete, In
<1>0. n - 1 \in Nat
  OBVIOUS
<1>1. ASSUME NEW i \in 1 .. n - 1, rs[i] <= b, b < re[i]
      PROVE  Holds(n, st, en, b) /\ ~In(st[k], en[k], b)
  <2>1. CASE i < k
    <3>1. i \in 1 .. n /\ i # k /\ st[i] <= b /\ b < en[i]
      BY <1>1, <2>1
    <3> QED
      BY <3>1, Named, Disjoint
  <2>2. CASE i >= k
    <3>1. i + 1 \in 1 .. n /\ i + 1 # k /\ st[i + 1] <= b /\ b < en[i + 1]
      BY <1>1, <2>2
    <3> QED
      BY <3>1, Named, Disjoint
  <2> QED
    BY <2>1, <2>2
<1>2. ASSUME NEW i \in 1 .. n, st[i] <= b, b < en[i], i # k
      PROVE  Holds(n - 1, rs, re, b)
  <2>1. CASE i < k
    <3>1. i \in 1 .. n - 1 /\ rs[i] <= b /\ b < re[i]
      BY <1>2, <2>1
    <3> QED
      BY <1>0, <3>1, Named
  <2>2. CASE i > k
    <3>1. i - 1 \in 1 .. n - 1 /\ rs[i - 1] <= b /\ b < re[i - 1]
      BY <1>2, <2>2
    <3> QED
      BY <1>0, <3>1, Named
  <2> QED
    BY <1>2, <2>1, <2>2
<1>3. Holds(n - 1, rs, re, b) => Holds(n, st, en, b) /\ ~In(st[k], en[k], b)
  BY <1>1 DEF Holds
<1>4. Holds(n, st, en, b) /\ ~In(st[k], en[k], b) => Holds(n - 1, rs, re, b)
  BY <1>2 DEF Holds
<1> QED
  BY <1>3, <1>4

\* Two neighbours become one, with what was between them.
LEMMA JoinedRising ==
    ASSUME NEW n \in Nat, NEW st, NEW en, NEW rs, NEW re, NEW k \in 1 .. n - 1,
           Nums(n, st, en), Rising(n, st, en),
           IsJoin(n, st, en, rs, re, k)
    PROVE  Nums(n - 1, rs, re) /\ Rising(n - 1, rs, re)
<1> USE DEF IsJoin
<1>1. st[k] < en[k] /\ en[k] < st[k + 1] /\ st[k + 1] < en[k + 1]
  BY DEF Nums, Rising
<1>2. Nums(n - 1, rs, re)
  BY <1>1 DEF Nums
<1>3. ASSUME NEW i \in 1 .. n - 1, NEW j \in 1 .. n - 1, i < j
      PROVE  re[i] < rs[j]
  <2>1. CASE j <= k
    BY <1>3, <2>1 DEF Rising
  <2>2. CASE j > k
    BY <1>3, <2>2 DEF Rising
  <2> QED
    BY <2>1, <2>2
<1> QED
  BY <1>2, <1>3 DEF Rising

\* The bytes of the gap are added.
LEMMA JoinedHolds ==
    ASSUME NEW n \in Nat, NEW st, NEW en, NEW rs, NEW re, NEW k \in 1 .. n - 1,
           Nums(n, st, en), Rising(n, st, en),
           IsJoin(n, st, en, rs, re, k),
           NEW b \in Nat
    PROVE  Holds(n - 1, rs, re, b) <=> \/ In(en[k], st[k + 1], b)
                                       \/ Holds(n, st, en, b)
<1> USE DEF IsJoin, In
<1>0. n - 1 \in Nat /\ k \in 1 .. n /\ k + 1 \in 1 .. n /\ n \in Nat
  OBVIOUS
<1>a. /\ st[k] \in Nat /\ en[k] \in Nat /\ st[k + 1] \in Nat /\ en[k + 1] \in Nat
      /\ st[k] < en[k] /\ en[k] < st[k + 1] /\ st[k + 1] < en[k + 1]
  BY <1>0 DEF Nums, Rising
<1>b. k \in 1 .. n - 1 /\ rs[k] = st[k] /\ re[k] = en[k + 1]
  BY <1>0
<1>1. ASSUME NEW i \in 1 .. n - 1, rs[i] <= b, b < re[i]
      PROVE  In(en[k], st[k + 1], b) \/ Holds(n, st, en, b)
  <2>1. CASE i < k
    <3>1. i \in 1 .. n /\ st[i] <= b /\ b < en[i]
      BY <1>1, <2>1
    <3> QED
      BY <3>1, Named
  <2>2. CASE i > k
    <3>1. i + 1 \in 1 .. n /\ st[i + 1] <= b /\ b < en[i + 1]
      BY <1>1, <2>2
    <3> QED
      BY <3>1, Named
  <2>3. CASE i = k
    <3>1. st[k] <= b /\ b < en[k + 1]
      BY <1>1, <1>b, <2>3
    <3>2. CASE b < en[k]
      BY <1>0, <3>1, <3>2, Named
    <3>3. CASE st[k + 1] <= b
      BY <1>0, <3>1, <3>3, Named
    <3> QED
      BY <1>a, <3>2, <3>3
  <2> QED
    BY <2>1, <2>2, <2>3
<1>2. ASSUME st[k] <= b, b < en[k + 1] PROVE Holds(n - 1, rs, re, b)
  <2>1. rs[k] <= b /\ b < re[k]
    BY <1>b, <1>2
  <2> QED
    BY <1>0, <1>b, <2>1, Named
<1>3. ASSUME NEW i \in 1 .. n, st[i] <= b, b < en[i] PROVE Holds(n - 1, rs, re, b)
  <2>1. CASE i < k
    <3>1. i \in 1 .. n - 1 /\ rs[i] <= b /\ b < re[i]
      BY <1>3, <2>1
    <3> QED
      BY <1>0, <3>1, Named
  <2>2. CASE i > k + 1
    <3>1. i - 1 \in 1 .. n - 1 /\ rs[i - 1] <= b /\ b < re[i - 1]
      BY <1>3, <2>2
    <3> QED
      BY <1>0, <3>1, Named
  <2>3. CASE i = k
    BY <1>2, <1>3, <1>a, <2>3
  <2>4. CASE i = k + 1
    BY <1>2, <1>3, <1>a, <2>4
  <2> QED
    BY <2>1, <2>2, <2>3, <2>4
<1>4. Holds(n - 1, rs, re, b) => In(en[k], st[k + 1], b) \/ Holds(n, st, en, b)
  BY <1>1 DEF Holds
<1>5. Holds(n, st, en, b) => Holds(n - 1, rs, re, b)
  BY <1>3 DEF Holds
<1>6. In(en[k], st[k + 1], b) => Holds(n - 1, rs, re, b)
  BY <1>2, <1>a
<1> QED
  BY <1>4, <1>5, <1>6

-----------------------------------------------------------------------------
(* The array of the code.                                                  *)

\* What an entry is.
LEMMA EntryFacts ==
    ASSUME NEW s \in Seq(Entry)
    PROVE  /\ Len(s) \in Nat
           /\ \A i \in 1 .. Len(s) :
                 /\ s[i] \in Entry /\ s[i].start \in Nat /\ s[i].len \in Nat
                 /\ End(s[i]) \in Nat /\ End(s[i]) = s[i].start + s[i].len
<1>1. \A i \in 1 .. Len(s) : s[i] \in Entry
  OBVIOUS
<1>2. \A e \in Entry : e.start \in Nat /\ e.len \in Nat
  BY DEF Entry
<1> QED
  BY <1>1, <1>2 DEF End

\* A new entry moves those behind it by one.
LEMMA InsertedFacts ==
    ASSUME NEW s \in Seq(Entry), NEW pos \in 0 .. Len(s), NEW lock \in Entry
    PROVE  /\ Inserted(s, pos, lock) \in Seq(Entry)
           /\ Len(Inserted(s, pos, lock)) = Len(s) + 1
           /\ \A i \in 1 .. Len(s) + 1 : Inserted(s, pos, lock)[i] =
                 IF i <= pos THEN s[i] ELSE IF i = pos + 1 THEN lock ELSE s[i - 1]
<1> DEFINE r == Inserted(s, pos, lock)
<1>1. r \in [1 .. Len(s) + 1 -> Entry]
  BY DEF Inserted
<1>2. r \in Seq(Entry) /\ Len(r) = Len(s) + 1
  BY <1>1, SeqDef
<1> QED
  BY <1>2 DEF Inserted

\* An entry less moves those behind it back by one.
LEMMA DeletedFacts ==
    ASSUME NEW s \in Seq(Entry), NEW pos \in 0 .. Len(s) - 1
    PROVE  /\ Deleted(s, pos) \in Seq(Entry)
           /\ Len(Deleted(s, pos)) = Len(s) - 1
           /\ \A i \in 1 .. Len(s) - 1 : Deleted(s, pos)[i] =
                 IF i <= pos THEN s[i] ELSE s[i + 1]
<1> DEFINE r == Deleted(s, pos)
<1>1. r \in [1 .. Len(s) - 1 -> Entry]
  BY DEF Deleted
<1>2. r \in Seq(Entry) /\ Len(r) = Len(s) - 1
  BY <1>1, SeqDef
<1> QED
  BY <1>2 DEF Deleted

\* An entry that is changed stays where it is.
LEMMA ChangedFacts ==
    ASSUME NEW s \in Seq(Entry), NEW k \in 1 .. Len(s), NEW lock \in Entry
    PROVE  /\ [s EXCEPT ![k] = lock] \in Seq(Entry)
           /\ Len([s EXCEPT ![k] = lock]) = Len(s)
           /\ \A i \in 1 .. Len(s) : [s EXCEPT ![k] = lock][i] =
                 IF i = k THEN lock ELSE s[i]
  BY ExceptSeq

\* What a range is.
LEMMA IntervalFacts ==
    ASSUME NEW start \in Nat, NEW len \in Nat
    PROVE  /\ Interval(start, len) \in Entry
           /\ Interval(start, len).start = start
           /\ Interval(start, len).len = len
           /\ End(Interval(start, len)) = start + len
  BY DEF Interval, End, Entry


Starts(s) == [i \in 1 .. Len(s) |-> s[i].start]
Ends(s) == [i \in 1 .. Len(s) |-> End(s[i])]

Good(s) == Nums(Len(s), Starts(s), Ends(s)) /\ Rising(Len(s), Starts(s), Ends(s))
Locked(s, b) == Holds(Len(s), Starts(s), Ends(s), b)

\* What the two arrays of numbers are.
LEMMA BoundsFacts ==
    ASSUME NEW s \in Seq(Entry)
    PROVE  /\ Len(s) \in Nat
           /\ \A i \in 1 .. Len(s) : /\ Starts(s)[i] = s[i].start /\ Starts(s)[i] \in Nat
                                     /\ Ends(s)[i] = End(s[i]) /\ Ends(s)[i] \in Nat
  BY EntryFacts DEF Starts, Ends

\* Sorted and Covered, of any array.
Ordered(s) == /\ \A i \in DOMAIN s : s[i].len > 0
              /\ \A i, j \in DOMAIN s : i < j => End(s[i]) < s[j].start
BytesOf(s) == UNION {Span(s[i].start, s[i].len) : i \in DOMAIN s}

\* The order of the numbers is the order of the entries.
LEMMA GoodIsOrdered ==
    ASSUME NEW s \in Seq(Entry)
    PROVE  Ordered(s) <=> Good(s)
<1>1. DOMAIN s = 1 .. Len(s)
  OBVIOUS
<1>2. \A i \in 1 .. Len(s) : s[i].len > 0 <=> Starts(s)[i] < Ends(s)[i]
  BY EntryFacts, BoundsFacts
<1>3. (\A i \in 1 .. Len(s) : s[i].len > 0) <=> Nums(Len(s), Starts(s), Ends(s))
  BY <1>2, BoundsFacts DEF Nums
<1>4. (\A i, j \in 1 .. Len(s) : i < j => End(s[i]) < s[j].start)
        <=> Rising(Len(s), Starts(s), Ends(s))
  BY BoundsFacts DEF Rising
<1> QED
  BY <1>1, <1>3, <1>4 DEF Ordered, Good

\* The bytes of the numbers are the bytes of the entries.
LEMMA BytesAreLocked ==
    ASSUME NEW s \in Seq(Entry)
    PROVE  BytesOf(s) = {b \in Nat : Locked(s, b)}
<1>1. DOMAIN s = 1 .. Len(s)
  OBVIOUS
<1>2. ASSUME NEW i \in 1 .. Len(s), NEW b
      PROVE  b \in Span(s[i].start, s[i].len)
               <=> b \in Nat /\ Starts(s)[i] <= b /\ b < Ends(s)[i]
  <2>1. /\ s[i].start \in Nat /\ s[i].len \in Nat
        /\ Starts(s)[i] = s[i].start
        /\ Ends(s)[i] = s[i].start + s[i].len
    BY EntryFacts, BoundsFacts
  <2> QED
    BY <2>1, SMTT(60) DEF Span
<1>3. \A b : b \in BytesOf(s) <=> \E i \in 1 .. Len(s) : b \in Span(s[i].start, s[i].len)
  BY <1>1 DEF BytesOf
<1> QED
  BY <1>2, <1>3 DEF Locked, Holds

\* A byte of an entry is locked.
LEMMA EntryLocked ==
    ASSUME NEW s \in Seq(Entry), NEW k \in 1 .. Len(s), NEW b \in Nat,
           Starts(s)[k] <= b, b < Ends(s)[k]
    PROVE  Locked(s, b)
  BY BoundsFacts, Named DEF Locked

\* The four changes of the array, in its terms: an entry changed,
LEMMA Changed ==
    ASSUME NEW s \in Seq(Entry), NEW k \in 1 .. Len(s), NEW a \in Nat, NEW l \in Nat,
           l > 0, Good(s),
           k > 1 => Ends(s)[k - 1] < a, k < Len(s) => a + l < Starts(s)[k + 1]
    PROVE  /\ Good([s EXCEPT ![k] = Interval(a, l)])
           /\ \A b \in Nat : Locked([s EXCEPT ![k] = Interval(a, l)], b) <=>
                 \/ In(a, a + l, b)
                 \/ Locked(s, b) /\ ~In(Starts(s)[k], Ends(s)[k], b)
<1> DEFINE n == Len(s)
           r == [s EXCEPT ![k] = Interval(a, l)]
<1>1. n \in Nat /\ k \in 1 .. n /\ a + l \in Nat /\ a < a + l
  BY BoundsFacts
<1>2. Interval(a, l) \in Entry /\ Interval(a, l).start = a /\ End(Interval(a, l)) = a + l
  BY IntervalFacts
<1>3. r \in Seq(Entry) /\ Len(r) = n
      /\ \A i \in 1 .. n : r[i] = IF i = k THEN Interval(a, l) ELSE s[i]
  BY <1>2, ChangedFacts
<1> HIDE DEF r
<1>4. ASSUME NEW i \in 1 .. n
      PROVE  /\ Starts(r)[i] = IF i = k THEN a ELSE Starts(s)[i]
             /\ Ends(r)[i] = IF i = k THEN a + l ELSE Ends(s)[i]
  <2>1. Starts(r)[i] = r[i].start /\ Ends(r)[i] = End(r[i])
    BY <1>3, BoundsFacts
  <2>2. CASE i = k
    BY <1>2, <1>3, <2>1, <2>2
  <2>3. CASE i # k
    BY <1>3, <2>1, <2>3, BoundsFacts
  <2> QED
    BY <2>2, <2>3
<1> HIDE DEF n
<1>5. Nums(n, Starts(s), Ends(s)) /\ Rising(n, Starts(s), Ends(s))
  BY DEF Good, n
<1>6. k > 1 => Ends(s)[k - 1] < a
  OBVIOUS
<1>7. k < n => a + l < Starts(s)[k + 1]
  BY DEF n
<1>c. IsChange(n, Starts(s), Ends(s), Starts(r), Ends(r), k, a, a + l)
  BY <1>4 DEF IsChange
<1>8. Nums(n, Starts(r), Ends(r)) /\ Rising(n, Starts(r), Ends(r))
  BY <1>1, <1>c, <1>5, <1>6, <1>7, ChangedRising
<1>9. ASSUME NEW b \in Nat
      PROVE  Holds(n, Starts(r), Ends(r), b) <=>
                \/ In(a, a + l, b)
                \/ Holds(n, Starts(s), Ends(s), b)
                   /\ ~In(Starts(s)[k], Ends(s)[k], b)
  BY <1>1, <1>5, <1>c, ChangedHolds
<1>10. Good(r)
  BY <1>3, <1>8 DEF Good
<1>11. \A b \in Nat : Locked(r, b) <=>
                 \/ In(a, a + l, b)
                 \/ Locked(s, b) /\ ~In(Starts(s)[k], Ends(s)[k], b)
  BY <1>3, <1>9 DEF Locked, n
<1> QED
  BY <1>10, <1>11 DEF r

\* ... a new one, in numbers,
LEMMA InsertedNumbers ==
    ASSUME NEW s \in Seq(Entry), NEW pos \in 0 .. Len(s), NEW a \in Nat, NEW l \in Nat, l > 0
    PROVE  LET r == Inserted(s, pos, Interval(a, l))
           IN  /\ r \in Seq(Entry) /\ Len(r) = Len(s) + 1
               /\ IsInsert(Len(s), Starts(s), Ends(s), Starts(r), Ends(r), pos, a, a + l)
<1> DEFINE n == Len(s)
           r == Inserted(s, pos, Interval(a, l))
<1>1. n \in Nat /\ pos \in 0 .. n /\ a + l \in Nat /\ a < a + l
  BY BoundsFacts
<1>2. Interval(a, l) \in Entry /\ Interval(a, l).start = a /\ End(Interval(a, l)) = a + l
  BY IntervalFacts
<1>3. r \in Seq(Entry) /\ Len(r) = n + 1
      /\ \A i \in 1 .. n + 1 : r[i] = IF i <= pos THEN s[i]
                                     ELSE IF i = pos + 1 THEN Interval(a, l) ELSE s[i - 1]
  BY <1>2, InsertedFacts
<1> HIDE DEF r
<1>4. ASSUME NEW i \in 1 .. n + 1
      PROVE  /\ Starts(r)[i] = IF i <= pos THEN Starts(s)[i]
                               ELSE IF i = pos + 1 THEN a ELSE Starts(s)[i - 1]
             /\ Ends(r)[i] = IF i <= pos THEN Ends(s)[i]
                             ELSE IF i = pos + 1 THEN a + l ELSE Ends(s)[i - 1]
  <2>1. Starts(r)[i] = r[i].start /\ Ends(r)[i] = End(r[i])
    BY <1>3, BoundsFacts
  <2>2. CASE i <= pos
    <3>1. i \in 1 .. Len(s) /\ r[i] = s[i]
      BY <1>1, <1>3, <2>2
    <3> QED
      BY <2>1, <2>2, <3>1, BoundsFacts
  <2>3. CASE i = pos + 1
    <3>1. r[i] = Interval(a, l) /\ ~(i <= pos)
      BY <1>1, <1>3, <2>3
    <3> QED
      BY <1>2, <2>1, <2>3, <3>1
  <2>4. CASE i > pos + 1
    <3>1. i - 1 \in 1 .. Len(s) /\ r[i] = s[i - 1] /\ ~(i <= pos) /\ i # pos + 1
      BY <1>1, <1>3, <2>4
    <3> QED
      BY <2>1, <3>1, BoundsFacts
  <2> QED
    BY <1>1, <2>2, <2>3, <2>4
<1> HIDE DEF n
<1>c. IsInsert(n, Starts(s), Ends(s), Starts(r), Ends(r), pos, a, a + l)
  BY <1>4 DEF IsInsert
<1> QED
  BY <1>3, <1>c DEF r, n

\* ... and in bytes,
LEMMA InsertedAdds ==
    ASSUME NEW s \in Seq(Entry), NEW pos \in 0 .. Len(s), NEW a \in Nat, NEW l \in Nat,
           l > 0, Good(s),
           pos > 0 => Ends(s)[pos] < a, pos < Len(s) => a + l < Starts(s)[pos + 1]
    PROVE  /\ Good(Inserted(s, pos, Interval(a, l)))
           /\ \A b \in Nat : Locked(Inserted(s, pos, Interval(a, l)), b) <=>
                 In(a, a + l, b) \/ Locked(s, b)
<1> DEFINE n == Len(s)
           r == Inserted(s, pos, Interval(a, l))
<1>1. n \in Nat /\ pos \in 0 .. n /\ a + l \in Nat /\ a < a + l
  BY BoundsFacts
<1>3. /\ Len(r) = n + 1 /\ r \in Seq(Entry)
      /\ IsInsert(n, Starts(s), Ends(s), Starts(r), Ends(r), pos, a, a + l)
  BY InsertedNumbers
<1> HIDE DEF r, n
<1>5. Nums(n, Starts(s), Ends(s)) /\ Rising(n, Starts(s), Ends(s))
  BY DEF Good, n
<1>6. pos > 0 => Ends(s)[pos] < a
  OBVIOUS
<1>7. pos < n => a + l < Starts(s)[pos + 1]
  BY DEF n
<1>8. Nums(n + 1, Starts(r), Ends(r)) /\ Rising(n + 1, Starts(r), Ends(r))
  BY <1>1, <1>3, <1>5, <1>6, <1>7, InsertedRising
<1>9. ASSUME NEW b \in Nat
      PROVE  Holds(n + 1, Starts(r), Ends(r), b) <=>
                In(a, a + l, b) \/ Holds(n, Starts(s), Ends(s), b)
  BY <1>1, <1>5, <1>3, InsertedHolds
<1>10. Good(r)
  BY <1>3, <1>8 DEF Good
<1>11. \A b \in Nat : Locked(r, b) <=> In(a, a + l, b) \/ Locked(s, b)
  BY <1>3, <1>9 DEF Locked, n
<1> QED
  BY <1>10, <1>11 DEF r

\* ... one less,
LEMMA DeletedDrops ==
    ASSUME NEW s \in Seq(Entry), NEW pos \in 0 .. Len(s) - 1, Good(s)
    PROVE  /\ Good(Deleted(s, pos))
           /\ \A b \in Nat : Locked(Deleted(s, pos), b) <=>
                 /\ Locked(s, b)
                 /\ ~In(Starts(s)[pos + 1], Ends(s)[pos + 1], b)
<1> DEFINE n == Len(s)
           k == pos + 1
           r == Deleted(s, pos)
<1>1. n \in Nat /\ n - 1 \in Nat /\ k \in 1 .. n
  BY BoundsFacts
<1>3. r \in Seq(Entry) /\ Len(r) = n - 1
      /\ \A i \in 1 .. n - 1 : r[i] = IF i <= pos THEN s[i] ELSE s[i + 1]
  BY DeletedFacts
<1> HIDE DEF r
<1>4. ASSUME NEW i \in 1 .. n - 1
      PROVE  /\ Starts(r)[i] = IF i < k THEN Starts(s)[i] ELSE Starts(s)[i + 1]
             /\ Ends(r)[i] = IF i < k THEN Ends(s)[i] ELSE Ends(s)[i + 1]
  <2>1. Starts(r)[i] = r[i].start /\ Ends(r)[i] = End(r[i])
    BY <1>3, BoundsFacts
  <2>2. i \in 1 .. Len(s) /\ i + 1 \in 1 .. Len(s) /\ (i <= pos <=> i < k)
    BY <1>1
  <2>3. r[i] = IF i < k THEN s[i] ELSE s[i + 1]
    BY <1>3, <2>2
  <2> QED
    BY <2>1, <2>2, <2>3, BoundsFacts
<1> HIDE DEF n, k
<1>5. Nums(n, Starts(s), Ends(s)) /\ Rising(n, Starts(s), Ends(s))
  BY DEF Good, n
<1>c. IsDelete(n, Starts(s), Ends(s), Starts(r), Ends(r), k)
  BY <1>4 DEF IsDelete
<1>8. Nums(n - 1, Starts(r), Ends(r)) /\ Rising(n - 1, Starts(r), Ends(r))
  BY <1>1, <1>c, <1>5, DeletedRising
<1>9. ASSUME NEW b \in Nat
      PROVE  Holds(n - 1, Starts(r), Ends(r), b) <=>
                Holds(n, Starts(s), Ends(s), b) /\ ~In(Starts(s)[k], Ends(s)[k], b)
  BY <1>1, <1>5, <1>c, DeletedHolds
<1>10. Good(r)
  BY <1>3, <1>8 DEF Good
<1>11. \A b \in Nat : Locked(r, b) <=>
                 Locked(s, b) /\ ~In(Starts(s)[k], Ends(s)[k], b)
  BY <1>3, <1>9 DEF Locked, n
<1> QED
  BY <1>10, <1>11 DEF r, k

\* ... and two that become one.
LEMMA Joined ==
    ASSUME NEW s \in Seq(Entry), NEW k \in 1 .. Len(s) - 1, NEW l \in Nat, Good(s),
           s[k].start + l = End(s[k + 1])
    PROVE  LET r == Deleted([s EXCEPT ![k] = Interval(s[k].start, l)], k)
           IN  /\ r \in Seq(Entry) /\ Len(r) = Len(s) - 1 /\ Good(r)
               /\ \A b \in Nat : Locked(r, b) <=>
                     In(Ends(s)[k], Starts(s)[k + 1], b) \/ Locked(s, b)
<1> DEFINE n == Len(s)
           new == Interval(s[k].start, l)
           t == [s EXCEPT ![k] = new]
           r == Deleted(t, k)
<1>1. n \in Nat /\ n - 1 \in Nat /\ k \in 1 .. n - 1 /\ k \in 1 .. n /\ k + 1 \in 1 .. n
  BY BoundsFacts
<1>2. new \in Entry /\ new.start = Starts(s)[k] /\ End(new) = Ends(s)[k + 1]
  <2>1. /\ Starts(s)[k] = s[k].start /\ s[k].start \in Nat
        /\ Ends(s)[k + 1] = End(s[k + 1])
    BY <1>1, BoundsFacts
  <2> QED
    BY <2>1, IntervalFacts
<1>3. t \in Seq(Entry) /\ Len(t) = n
      /\ \A i \in 1 .. n : t[i] = IF i = k THEN new ELSE s[i]
  BY <1>1, <1>2, ChangedFacts
<1> HIDE DEF t, new
<1>4. r \in Seq(Entry) /\ Len(r) = n - 1
      /\ \A i \in 1 .. n - 1 : r[i] = IF i <= k THEN t[i] ELSE t[i + 1]
  BY <1>1, <1>3, DeletedFacts
<1> HIDE DEF r
<1>5. ASSUME NEW i \in 1 .. n - 1
      PROVE  /\ Starts(r)[i] = IF i <= k THEN Starts(s)[i] ELSE Starts(s)[i + 1]
             /\ Ends(r)[i] = IF i < k THEN Ends(s)[i] ELSE Ends(s)[i + 1]
  <2>1. Starts(r)[i] = r[i].start /\ Ends(r)[i] = End(r[i])
    BY <1>4, BoundsFacts
  <2>2. i \in 1 .. n /\ i + 1 \in 1 .. n /\ i \in 1 .. Len(s) /\ i + 1 \in 1 .. Len(s)
    BY <1>1
  <2>3. CASE i < k
    <3>1. r[i] = s[i] /\ i <= k
      BY <1>1, <1>3, <1>4, <2>2, <2>3
    <3> QED
      BY <2>1, <2>2, <2>3, <3>1, BoundsFacts
  <2>4. CASE i = k
    <3>1. r[i] = new /\ i <= k /\ ~(i < k)
      BY <1>1, <1>3, <1>4, <2>2, <2>4, SMTT(60)
    <3> QED
      BY <1>2, <2>1, <2>4, <3>1
  <2>5. CASE i > k
    <3>1. r[i] = s[i + 1] /\ ~(i <= k) /\ ~(i < k)
      BY <1>1, <1>3, <1>4, <2>2, <2>5
    <3> QED
      BY <2>1, <2>2, <3>1, BoundsFacts
  <2> QED
    BY <1>1, <2>3, <2>4, <2>5
<1> HIDE DEF n
<1>6. Nums(n, Starts(s), Ends(s)) /\ Rising(n, Starts(s), Ends(s))
  BY DEF Good, n
<1>c. IsJoin(n, Starts(s), Ends(s), Starts(r), Ends(r), k)
  BY <1>5 DEF IsJoin
<1>7. Nums(n - 1, Starts(r), Ends(r)) /\ Rising(n - 1, Starts(r), Ends(r))
  BY <1>1, <1>c, <1>6, JoinedRising
<1>8. ASSUME NEW b \in Nat
      PROVE  Holds(n - 1, Starts(r), Ends(r), b) <=>
                In(Ends(s)[k], Starts(s)[k + 1], b) \/ Holds(n, Starts(s), Ends(s), b)
  BY <1>1, <1>6, <1>c, JoinedHolds
<1>9. Good(r)
  BY <1>4, <1>7 DEF Good
<1>10. \A b \in Nat : Locked(r, b) <=>
                In(Ends(s)[k], Starts(s)[k + 1], b) \/ Locked(s, b)
  BY <1>4, <1>8 DEF Locked, n
<1>11. Len(r) = Len(s) - 1
  BY <1>4 DEF n
<1> QED
  BY <1>4, <1>9, <1>10, <1>11 DEF r, t, new

-----------------------------------------------------------------------------
(* Where the search ends.                                                  *)

\* The search has passed what ends at a or earlier, and nothing else.
Parted(n, en, p, a) == /\ \A i \in 1 .. p : en[i] <= a
                       /\ \A i \in p + 1 .. n : a < en[i]

\* The range meets the first entry behind or none.
LEMMA FirstConflict ==
    ASSUME NEW n \in Nat, NEW st, NEW en, NEW p \in 0 .. n, NEW a \in Nat, NEW e \in Nat,
           a < e, Nums(n, st, en), Rising(n, st, en), Parted(n, en, p, a)
    PROVE  (p < n /\ st[p + 1] < e) <=> \E b \in Nat : In(a, e, b) /\ Holds(n, st, en, b)
<1>1. ASSUME p < n, st[p + 1] < e
      PROVE  \E b \in Nat : In(a, e, b) /\ Holds(n, st, en, b)
  <2>1. p + 1 \in 1 .. n /\ st[p + 1] \in Nat /\ en[p + 1] \in Nat
        /\ st[p + 1] < en[p + 1] /\ a < en[p + 1]
    BY <1>1 DEF Nums, Parted
  <2>2. CASE st[p + 1] <= a
    <3>1. Holds(n, st, en, a)
      BY <2>1, <2>2, Named
    <3> QED
      BY <3>1 DEF In
  <2>3. CASE a <= st[p + 1]
    <3>1. Holds(n, st, en, st[p + 1]) /\ In(a, e, st[p + 1])
      BY <1>1, <2>1, <2>3, Named DEF In
    <3> QED
      BY <2>1, <3>1
  <2> QED
    BY <2>1, <2>2, <2>3
<1>2. ASSUME NEW b \in Nat, a <= b, b < e, NEW i \in 1 .. n, st[i] <= b, b < en[i]
      PROVE  p < n /\ st[p + 1] < e
  <2>1. i > p
    BY <1>2 DEF Nums, Parted
  <2>2. CASE i = p + 1
    BY <1>2, <2>1, <2>2 DEF Nums
  <2>3. CASE i > p + 1
    BY <1>2, <2>3 DEF Nums, Rising
  <2> QED
    BY <2>1, <2>2, <2>3
<1> QED
  BY <1>1, <1>2 DEF In, Holds

\* The range is in the first entry behind or in none.
LEMMA FirstInside ==
    ASSUME NEW n \in Nat, NEW st, NEW en, NEW p \in 0 .. n, NEW a \in Nat, NEW e \in Nat,
           a < e, Nums(n, st, en), Rising(n, st, en), Parted(n, en, p, a)
    PROVE  (p < n /\ st[p + 1] <= a /\ e <= en[p + 1])
             <=> \A b \in Nat : In(a, e, b) => Holds(n, st, en, b)
<1>1. ASSUME p < n, st[p + 1] <= a, e <= en[p + 1], NEW b \in Nat, a <= b, b < e
      PROVE  Holds(n, st, en, b)
  <2>1. p + 1 \in 1 .. n /\ st[p + 1] <= b /\ b < en[p + 1]
    BY <1>1 DEF Nums
  <2> QED
    BY <2>1, Named
<1>2. ASSUME NEW i \in 1 .. n, st[i] <= a, a < en[i] PROVE i = p + 1
  <2>1. i > p
    BY <1>2 DEF Nums, Parted
  <2>2. CASE i > p + 1
    <3>1. p + 1 \in p + 1 .. n /\ p + 1 \in 1 .. n
      BY <2>2
    <3>2. a < en[p + 1] /\ en[p + 1] < st[i] /\ en[p + 1] \in Nat /\ st[i] \in Nat
      BY <2>2, <3>1 DEF Nums, Rising, Parted
    <3> QED
      BY <1>2, <3>2
  <2> QED
    BY <2>1, <2>2
<1>3. ASSUME NEW k \in 1 .. n PROVE ~Holds(n, st, en, en[k])
  <2> SUFFICES ASSUME NEW j \in 1 .. n, st[j] <= en[k], en[k] < en[j] PROVE FALSE
    BY DEF Holds
  <2>1. CASE j < k
    BY <2>1 DEF Nums, Rising
  <2>2. CASE j = k
    BY <2>2 DEF Nums
  <2>3. CASE j > k
    BY <2>3 DEF Nums, Rising
  <2> QED
    BY <2>1, <2>2, <2>3
<1>4. ASSUME \A b \in Nat : In(a, e, b) => Holds(n, st, en, b)
      PROVE  p < n /\ st[p + 1] <= a /\ e <= en[p + 1]
  <2>1. Holds(n, st, en, a)
    BY <1>4 DEF In
  <2>2. PICK i \in 1 .. n : st[i] <= a /\ a < en[i]
    BY <2>1 DEF Holds
  <2>3. i = p + 1
    BY <1>2, <2>2
  <2>4. en[i] \in Nat
    BY DEF Nums
  <2>5. ~In(a, e, en[i])
    BY <1>3, <1>4, <2>4
  <2> QED
    BY <2>2, <2>3, <2>4, <2>5 DEF In
<1> QED
  BY <1>1, <1>4 DEF In

-----------------------------------------------------------------------------
(* The types and the allocation.                                           *)

TInv == /\ TypeOK /\ Capacity
        /\ call # "none" => <<ulStart, ulLen>> \in Requests

\* What the length and the allocation do together.
Sized(n) == \/ n = uiLocks /\ UNCHANGED uiSize
            \/ n = uiLocks + 1 /\ Grow
            \/ n = uiLocks - 1 /\ uiPos < uiLocks /\ Shrink

\* The allocation follows the length.
LEMMA SizedCapacity ==
    ASSUME TypeOK, Capacity, pLocks' \in Seq(Entry), Sized(Len(pLocks'))
    PROVE  uiSize' \in Nat /\ Capacity'
<1>1. uiLocks \in Nat /\ uiSize \in Nat /\ HB_FLOCK_RESIZE \in Nat /\ HB_FLOCK_RESIZE > 0
  BY SizeAssumption DEF TypeOK, uiLocks
<1>2. uiLocks' = Len(pLocks')
  BY DEF uiLocks
<1> HIDE DEF uiLocks
<1>3. CASE Len(pLocks') = uiLocks /\ UNCHANGED uiSize
  BY <1>1, <1>2, <1>3 DEF Capacity
<1>4. CASE Len(pLocks') = uiLocks + 1 /\ Grow
  BY <1>1, <1>2, <1>4 DEF Capacity, Grow, Full
<1>5. CASE Len(pLocks') = uiLocks - 1 /\ Shrink
  BY <1>1, <1>2, <1>5 DEF Capacity, Shrink
<1> QED
  BY <1>3, <1>4, <1>5 DEF Sized

\* The search has ended: its bounds have met.
LEMMA Met ==
    ASSUME TypeOK, uiFirst >= uiLast
    PROVE  /\ uiPos = uiFirst /\ uiPos = uiLast
           /\ uiPos \in Nat /\ uiPos <= uiLocks /\ uiLocks \in Nat
           /\ ulStart \in Nat /\ ulLen \in Nat /\ ulEnd \in Nat /\ ulEnd = ulStart + ulLen
           /\ pLocks \in Seq(Entry) /\ Len(pLocks) = uiLocks
  BY DEF TypeOK, uiPos, uiMiddle, uiLocks, ulEnd

\* What is known of the entries beside the place of the search.
LEMMA Beside ==
    ASSUME TypeOK, uiFirst >= uiLast
    PROVE  /\ uiPos < uiLocks => /\ uiPos + 1 \in 1 .. Len(pLocks)
                                 /\ Here.start \in Nat /\ Here.len \in Nat
                                 /\ End(Here) = Here.start + Here.len
                                 /\ Starts(pLocks)[uiPos + 1] = Here.start
                                 /\ Ends(pLocks)[uiPos + 1] = End(Here)
           /\ uiPos > 0 => /\ uiPos \in 1 .. Len(pLocks)
                           /\ Before.start \in Nat /\ Before.len \in Nat
                           /\ End(Before) = Before.start + Before.len
                           /\ Starts(pLocks)[uiPos] = Before.start
                           /\ Ends(pLocks)[uiPos] = End(Before)
<1>1. /\ uiPos \in Nat /\ uiPos <= uiLocks /\ uiLocks \in Nat
      /\ pLocks \in Seq(Entry) /\ Len(pLocks) = uiLocks
  BY Met
<1>2. uiPos < uiLocks => uiPos + 1 \in 1 .. Len(pLocks)
  BY <1>1
<1>3. uiPos > 0 => uiPos \in 1 .. Len(pLocks)
  BY <1>1
<1> HIDE DEF uiPos, uiLocks
<1> QED
  BY <1>1, <1>2, <1>3, EntryFacts, BoundsFacts DEF Here, Before

\* hb_fileSetLock leaves an array of entries that fits.
LEMMA SetLockTyped ==
    ASSUME TypeOK, SetLock
    PROVE  pLocks' \in Seq(Entry) /\ Sized(Len(pLocks'))
<1>1. uiFirst >= uiLast
  BY DEF SetLock, Found
<1>2. /\ uiPos \in Nat /\ uiPos <= uiLocks /\ uiLocks \in Nat
      /\ ulStart \in Nat /\ ulLen \in Nat /\ ulEnd = ulStart + ulLen
      /\ pLocks \in Seq(Entry) /\ Len(pLocks) = uiLocks
  BY <1>1, Met
<1>3. /\ uiPos < uiLocks => /\ uiPos + 1 \in 1 .. Len(pLocks)
                            /\ Here.start \in Nat /\ Here.len \in Nat
      /\ uiPos > 0 => /\ uiPos \in 1 .. Len(pLocks)
                      /\ Before.start \in Nat /\ Before.len \in Nat
  BY <1>1, Beside
<1> HIDE DEF uiPos, uiLocks, ulEnd, Here, Before
<1>4. CASE UNCHANGED table
  BY <1>2, <1>4 DEF table, Sized, uiLocks
<1>5. CASE JoinBoth
  <2>1. uiPos > 0 /\ uiPos < uiLocks
    BY <1>5 DEF JoinBoth, LJoin, RJoin
  <2>2. Both \in Entry
    <3>1. Before.start \in Nat /\ Before.len + ulLen + Here.len \in Nat
      BY <1>2, <1>3, <2>1
    <3> QED
      BY <3>1, IntervalFacts DEF Both
  <2> DEFINE t == [pLocks EXCEPT ![uiPos] = Both]
  <2>3. t \in Seq(Entry) /\ Len(t) = Len(pLocks)
    BY <1>2, <1>3, <2>1, <2>2, ChangedFacts
  <2>4. pLocks' = Deleted(t, uiPos) /\ Shrink
    BY <1>5 DEF JoinBoth
  <2> HIDE DEF t
  <2>5. uiPos \in 0 .. Len(t) - 1
    BY <1>2, <2>1, <2>3
  <2>6. Deleted(t, uiPos) \in Seq(Entry) /\ Len(Deleted(t, uiPos)) = Len(t) - 1
    BY <2>3, <2>5, DeletedFacts
  <2> QED
    BY <1>2, <2>1, <2>3, <2>4, <2>6 DEF Sized
<1>6. CASE JoinLeft
  <2>1. uiPos > 0 /\ UNCHANGED uiSize
    BY <1>6 DEF JoinLeft, LJoin
  <2>2. Interval(Before.start, Before.len + ulLen) \in Entry
    <3>1. Before.start \in Nat /\ Before.len + ulLen \in Nat
      BY <1>2, <1>3, <2>1
    <3> QED
      BY <3>1, IntervalFacts
  <2>3. pLocks' = [pLocks EXCEPT ![uiPos] = Interval(Before.start, Before.len + ulLen)]
    BY <1>6 DEF JoinLeft
  <2>4. pLocks' \in Seq(Entry) /\ Len(pLocks') = Len(pLocks)
    BY <1>2, <1>3, <2>1, <2>2, <2>3, ChangedFacts
  <2> QED
    BY <1>2, <2>1, <2>4 DEF Sized
<1>7. CASE JoinRight
  <2>1. uiPos < uiLocks /\ ulEnd = Here.start /\ UNCHANGED uiSize
    BY <1>7 DEF JoinRight, RJoin
  <2>2. Interval(Here.start - ulLen, Here.len + ulLen) \in Entry
    <3>1. Here.start - ulLen \in Nat /\ Here.len + ulLen \in Nat
      BY <1>2, <1>3, <2>1
    <3> QED
      BY <3>1, IntervalFacts
  <2>3. pLocks' = [pLocks EXCEPT ![uiPos + 1] =
                       Interval(Here.start - ulLen, Here.len + ulLen)]
    BY <1>7 DEF JoinRight
  <2>4. pLocks' \in Seq(Entry) /\ Len(pLocks') = Len(pLocks)
    BY <1>2, <1>3, <2>1, <2>2, <2>3, ChangedFacts
  <2> QED
    BY <1>2, <2>1, <2>4 DEF Sized
<1>8. CASE JoinNone
  <2>1. Interval(ulStart, ulLen) \in Entry /\ uiPos \in 0 .. Len(pLocks)
    BY <1>2, IntervalFacts
  <2>2. pLocks' = Inserted(pLocks, uiPos, Interval(ulStart, ulLen)) /\ Grow
    BY <1>8 DEF JoinNone
  <2>3. pLocks' \in Seq(Entry) /\ Len(pLocks') = Len(pLocks) + 1
    BY <1>2, <2>1, <2>2, InsertedFacts
  <2> QED
    BY <1>2, <2>2, <2>3 DEF Sized
<1> QED
  BY <1>4, <1>5, <1>6, <1>7, <1>8 DEF SetLock

\* hb_fileUnlock leaves an array of entries that fits.
LEMMA UnlockTyped ==
    ASSUME TypeOK, Unlock
    PROVE  pLocks' \in Seq(Entry) /\ Sized(Len(pLocks'))
<1>1. uiFirst >= uiLast
  BY DEF Unlock, Found
<1>2. /\ uiPos \in Nat /\ uiPos <= uiLocks /\ uiLocks \in Nat
      /\ ulStart \in Nat /\ ulLen \in Nat /\ ulEnd = ulStart + ulLen /\ ulEnd \in Nat
      /\ pLocks \in Seq(Entry) /\ Len(pLocks) = uiLocks
  BY <1>1, Met
<1>3. uiPos < uiLocks => /\ uiPos + 1 \in 1 .. Len(pLocks)
                         /\ Here.start \in Nat /\ Here.len \in Nat
                         /\ End(Here) = Here.start + Here.len
  BY <1>1, Beside
<1> HIDE DEF uiPos, uiLocks, ulEnd, Here
<1>4. CASE UNCHANGED table
  BY <1>2, <1>4 DEF table, Sized, uiLocks
<1>5. ASSUME Inside, CutAll \/ CutLeft \/ CutRight \/ Split
      PROVE  pLocks' \in Seq(Entry) /\ Sized(Len(pLocks'))
  <2>1. /\ uiPos < uiLocks /\ uiPos + 1 \in 1 .. Len(pLocks)
        /\ Here.start \in Nat /\ Here.len \in Nat
        /\ End(Here) = Here.start + Here.len
        /\ ulStart >= Here.start /\ ulEnd <= End(Here)
    BY <1>3, <1>5 DEF Inside
  <2>2. CASE CutAll
    <3>1. uiPos \in 0 .. Len(pLocks) - 1 /\ uiPos < uiLocks
      BY <1>2, <2>1
    <3>2. pLocks' = Deleted(pLocks, uiPos) /\ Shrink
      BY <2>2 DEF CutAll
    <3>3. pLocks' \in Seq(Entry) /\ Len(pLocks') = Len(pLocks) - 1
      BY <1>2, <3>1, <3>2, DeletedFacts
    <3> QED
      BY <1>2, <3>1, <3>2, <3>3 DEF Sized
  <2>3. CASE CutLeft
    <3>1. Here.start + ulLen \in Nat /\ Here.len - ulLen \in Nat
      BY <1>2, <2>1, <2>3, SMTT(60) DEF CutLeft
    <3>2. Interval(Here.start + ulLen, Here.len - ulLen) \in Entry
      BY <3>1, IntervalFacts
    <3>3. pLocks' = [pLocks EXCEPT ![uiPos + 1] =
                         Interval(Here.start + ulLen, Here.len - ulLen)] /\ UNCHANGED uiSize
      BY <2>3 DEF CutLeft
    <3>4. pLocks' \in Seq(Entry) /\ Len(pLocks') = Len(pLocks)
      BY <1>2, <2>1, <3>2, <3>3, ChangedFacts
    <3> QED
      BY <1>2, <3>3, <3>4 DEF Sized
  <2>4. CASE CutRight
    <3>1. Here.len - ulLen \in Nat
      BY <1>2, <2>1, <2>4, SMTT(60) DEF CutRight
    <3>2. Interval(Here.start, Here.len - ulLen) \in Entry
      BY <2>1, <3>1, IntervalFacts
    <3>3. pLocks' = [pLocks EXCEPT ![uiPos + 1] =
                         Interval(Here.start, Here.len - ulLen)] /\ UNCHANGED uiSize
      BY <2>4 DEF CutRight
    <3>4. pLocks' \in Seq(Entry) /\ Len(pLocks') = Len(pLocks)
      BY <1>2, <2>1, <3>2, <3>3, ChangedFacts
    <3> QED
      BY <1>2, <3>3, <3>4 DEF Sized
  <2>5. CASE Split
    <3> DEFINE rest == Interval(ulEnd, End(Here) - ulEnd)
               cut  == [pLocks EXCEPT ![uiPos + 1] = Interval(Here.start, ulStart - Here.start)]
    <3>0. ulEnd \in Nat /\ End(Here) - ulEnd \in Nat /\ ulStart - Here.start \in Nat
      BY <1>2, <2>1, SMTT(60)
    <3>1. rest \in Entry /\ Interval(Here.start, ulStart - Here.start) \in Entry
      BY <2>1, <3>0, IntervalFacts
    <3>2. cut \in Seq(Entry) /\ Len(cut) = Len(pLocks)
      BY <1>2, <2>1, <3>1, ChangedFacts
    <3>3. /\ pLocks' = Inserted(cut, uiPos + 1, rest) \/ pLocks' = Inserted(pLocks, uiPos + 1, rest)
          /\ Grow
      BY <2>5 DEF Split
    <3> HIDE DEF rest, cut
    <3>4. uiPos + 1 \in 0 .. Len(pLocks) /\ uiPos + 1 \in 0 .. Len(cut)
      BY <1>2, <2>1, <3>2
    <3>5. pLocks' \in Seq(Entry) /\ Len(pLocks') = Len(pLocks) + 1
      <4>1. CASE pLocks' = Inserted(cut, uiPos + 1, rest)
        BY <3>1, <3>2, <3>4, <4>1, InsertedFacts
      <4>2. CASE pLocks' = Inserted(pLocks, uiPos + 1, rest)
        BY <1>2, <3>1, <3>4, <4>2, InsertedFacts
      <4> QED
        BY <3>3, <4>1, <4>2
    <3> QED
      BY <1>2, <3>3, <3>5 DEF Sized
  <2> QED
    BY <1>5, <2>2, <2>3, <2>4, <2>5
<1> QED
  BY <1>4, <1>5 DEF Unlock

\* Every step keeps the types and the allocation.
LEMMA TInvNext ==
    ASSUME TInv, [Next]_vars
    PROVE  TInv'
<1> USE DEF TInv
<1>1. CASE UNCHANGED vars
  BY <1>1 DEF vars, TypeOK, Capacity, uiLocks, Requests
<1>2. ASSUME NEW name \in {"lock", "unlock"}, Call(name) PROVE TInv'
  <2>1. <<ulStart', ulLen'>> \in Requests /\ ulStart' \in Nat /\ ulLen' \in Nat
    BY <1>2, SizeAssumption DEF Call, Requests
  <2>2. Len(pLocks) \in Nat
    BY DEF TypeOK
  <2> QED
    BY <1>2, <2>1, <2>2 DEF Call, table, TypeOK, Capacity, uiLocks, Requests
<1>3. CASE FindStep
  <2>1. uiMiddle \in Nat /\ uiFirst <= uiMiddle /\ uiMiddle < uiLast
    BY <1>3 DEF FindStep, TypeOK, uiMiddle, uiLocks
  <2> QED
    BY <1>3, <2>1, SMTT(60) DEF FindStep, TypeOK, Capacity, table, args, uiLocks, Requests
<1>4. CASE SetLock \/ Unlock
  <2>1. pLocks' \in Seq(Entry) /\ Sized(Len(pLocks'))
    BY <1>4, SetLockTyped, UnlockTyped
  <2>2. uiSize' \in Nat /\ Capacity'
    BY <2>1, SizedCapacity
  <2>3. call' = "none" /\ UNCHANGED <<args, uiFirst, uiLast>> /\ fResult' \in BOOLEAN
    BY <1>4 DEF SetLock, Unlock, Found, Conflict, Inside
  <2>6. intact' \in BOOLEAN
    BY <1>4 DEF SetLock, Unlock, Split, TypeOK
  <2>4. uiFirst >= uiLast
    BY <1>4 DEF SetLock, Unlock, Found
  <2>5. uiLast' \in 0 .. Len(pLocks') /\ uiFirst' \in 0 .. uiLast'
    BY <2>1, <2>3, <2>4, Met DEF Sized, TypeOK
  <2> QED
    BY <2>1, <2>2, <2>3, <2>5, <2>6 DEF TypeOK, args, uiLocks
<1> QED
  BY <1>1, <1>2, <1>3, <1>4 DEF Next

-----------------------------------------------------------------------------
(* The bytes.                                                              *)

\* The inductive invariant: Sorted needs the search, the search needs Sorted.
\* A table that is not intact is not asked.
LInv == TInv /\ Sorted /\ SearchOK /\ (~intact => call = "none")

\* What the search, the order and the place of a call say in numbers.
LEMMA AtThePlace ==
    ASSUME LInv, call # "none", uiFirst >= uiLast
    PROVE  /\ Good(pLocks) /\ pLocks \in Seq(Entry) /\ ulLen > 0
           /\ Nums(uiLocks, Starts(pLocks), Ends(pLocks))
           /\ Rising(uiLocks, Starts(pLocks), Ends(pLocks))
           /\ Parted(uiLocks, Ends(pLocks), uiPos, ulStart)
<1>1. uiPos = uiFirst /\ uiPos = uiLast /\ pLocks \in Seq(Entry) /\ uiPos <= uiLocks
      /\ uiPos \in Nat /\ uiLocks \in Nat
  BY Met DEF LInv, TInv
<1>2. Good(pLocks)
  BY <1>1, GoodIsOrdered DEF LInv, Sorted, Ordered
<1>3. ulLen > 0
  BY SizeAssumption DEF LInv, TInv, Requests
<1>4. Parted(uiLocks, Ends(pLocks), uiPos, ulStart)
  <2>1. \A i \in 1 .. uiLocks : Ends(pLocks)[i] = End(pLocks[i]) /\ Ends(pLocks)[i] \in Nat
    BY <1>1, BoundsFacts DEF uiLocks
  <2>2. /\ \A i \in 1 .. uiPos : End(pLocks[i]) <= ulStart
        /\ \A i \in uiPos + 1 .. uiLocks : End(pLocks[i]) > ulStart
    BY <1>1 DEF LInv, SearchOK
  <2>3. ulStart \in Nat
    BY DEF LInv, TInv, TypeOK
  <2> HIDE DEF uiPos, uiLocks
  <2> QED
    BY <1>1, <2>1, <2>2, <2>3 DEF Parted
<1> QED
  BY <1>1, <1>2, <1>3, <1>4 DEF Good, uiLocks

\* Nothing but the range is added.
Adds == Good(pLocks') /\ \A b \in Nat : Locked(pLocks', b) <=>
                                           In(ulStart, ulEnd, b) \/ Locked(pLocks, b)

\* Nothing but the range is dropped.
Drops == Good(pLocks') /\ \A b \in Nat : Locked(pLocks', b) <=>
                                            ~In(ulStart, ulEnd, b) /\ Locked(pLocks, b)

\* A range that meets no entry is added, whichever way it is joined.
LEMMA SetLockAdds ==
    ASSUME LInv, SetLock
    PROVE  /\ Conflict => UNCHANGED pLocks
           /\ ~Conflict => Adds
<1>1. call = "lock" /\ uiFirst >= uiLast
  BY DEF SetLock, Found
<1>2. /\ uiPos \in Nat /\ uiPos <= uiLocks /\ uiLocks \in Nat
      /\ ulStart \in Nat /\ ulLen \in Nat /\ ulEnd = ulStart + ulLen /\ ulEnd \in Nat
      /\ pLocks \in Seq(Entry) /\ Len(pLocks) = uiLocks
  BY <1>1, Met DEF LInv, TInv
<1>3. /\ uiPos < uiLocks => /\ uiPos + 1 \in 1 .. Len(pLocks)
                            /\ Here.start \in Nat /\ Here.len \in Nat
                            /\ End(Here) = Here.start + Here.len
                            /\ Starts(pLocks)[uiPos + 1] = Here.start
                            /\ Ends(pLocks)[uiPos + 1] = End(Here)
      /\ uiPos > 0 => /\ uiPos \in 1 .. Len(pLocks)
                      /\ Before.start \in Nat /\ Before.len \in Nat
                      /\ End(Before) = Before.start + Before.len
                      /\ Starts(pLocks)[uiPos] = Before.start
                      /\ Ends(pLocks)[uiPos] = End(Before)
  BY <1>1, Beside DEF LInv, TInv
<1>4. /\ Good(pLocks) /\ ulLen > 0
      /\ Nums(uiLocks, Starts(pLocks), Ends(pLocks))
      /\ Rising(uiLocks, Starts(pLocks), Ends(pLocks))
      /\ Parted(uiLocks, Ends(pLocks), uiPos, ulStart)
  BY <1>1, AtThePlace
<1>5. Conflict => UNCHANGED pLocks
  BY DEF SetLock, table
<1>6. uiPos < uiLocks /\ ~Conflict => ulEnd <= Here.start
  BY <1>2, <1>3 DEF Conflict
<1>7. uiPos > 0 => End(Before) <= ulStart
  BY <1>2, <1>3, <1>4 DEF Parted
<1>8. uiPos < uiLocks => Here.start < End(Here)
  BY <1>2, <1>3, <1>4 DEF Nums
<1>9. uiPos > 0 => Before.start < End(Before)
  BY <1>2, <1>3, <1>4 DEF Nums
<1>10. uiPos > 0 /\ uiPos < uiLocks => End(Before) < Here.start
  BY <1>2, <1>3, <1>4 DEF Rising
<1>11. \A b \in Nat, k \in 1 .. Len(pLocks) :
          In(Starts(pLocks)[k], Ends(pLocks)[k], b) => Locked(pLocks, b)
  BY <1>2, EntryLocked DEF In
<1> HIDE DEF uiPos, uiLocks, ulEnd, Here, Before
<1>12. ASSUME ~Conflict, JoinBoth PROVE Adds
  <2>1. uiPos > 0 /\ uiPos < uiLocks /\ ulEnd = Here.start /\ End(Before) = ulStart
    BY <1>12 DEF JoinBoth, LJoin, RJoin
  <2> DEFINE l == Before.len + ulLen + Here.len
             r == Deleted([pLocks EXCEPT ![uiPos] = Interval(pLocks[uiPos].start, l)], uiPos)
  <2>2. Before = pLocks[uiPos] /\ Here = pLocks[uiPos + 1]
    BY DEF Before, Here
  <2>3. pLocks' = r
    BY <1>12, <2>2 DEF JoinBoth, Both
  <2>4. uiPos \in 1 .. Len(pLocks) - 1 /\ l \in Nat
        /\ pLocks[uiPos].start + l = End(pLocks[uiPos + 1])
    <3>1. Before.start + l = End(Here) /\ l \in Nat
      <4>1. /\ Before.start \in Nat /\ Before.len \in Nat /\ Here.start \in Nat /\ Here.len \in Nat
            /\ Before.start + Before.len = ulStart /\ End(Here) = Here.start + Here.len
            /\ ulStart + ulLen = Here.start /\ ulLen \in Nat
        BY <1>2, <1>3, <2>1
      <4>2. \A x, y, u, v \in Nat : x + (y + u + v) = (x + y) + u + v /\ y + u + v \in Nat
        OBVIOUS
      <4>3. Before.start + l = (Before.start + Before.len) + ulLen + Here.len /\ l \in Nat
        BY <4>1, <4>2
      <4> QED
        BY <4>1, <4>3
    <3>2. uiPos \in 1 .. Len(pLocks) - 1
      BY <1>2, <2>1
    <3> QED
      BY <2>2, <3>1, <3>2
  <2> HIDE DEF l
  <2>5. /\ Good(r)
        /\ \A b \in Nat : Locked(r, b) <=>
              In(Ends(pLocks)[uiPos], Starts(pLocks)[uiPos + 1], b) \/ Locked(pLocks, b)
    BY <1>2, <1>4, <2>4, Joined
  <2> QED
    BY <1>3, <2>1, <2>3, <2>5 DEF Adds
<1>13. ASSUME ~Conflict, JoinLeft PROVE Adds
  <2>1. uiPos > 0 /\ End(Before) = ulStart /\ (uiPos < uiLocks => ulEnd # Here.start)
    BY <1>13 DEF JoinLeft, LJoin, RJoin
  <2> DEFINE a == Before.start
             l == Before.len + ulLen
             r == [pLocks EXCEPT ![uiPos] = Interval(a, l)]
  <2>2. pLocks' = r
    BY <1>13 DEF JoinLeft
  <2>3. /\ a \in Nat /\ l \in Nat /\ l > 0 /\ uiPos \in 1 .. Len(pLocks) /\ a + l = ulEnd
        /\ a < ulStart /\ ulStart < ulEnd
        /\ Starts(pLocks)[uiPos] = a /\ Ends(pLocks)[uiPos] = ulStart
    BY <1>2, <1>3, <1>4, <1>9, <2>1, SMTT(60)
  <2>4. uiPos < Len(pLocks) => a + l < Starts(pLocks)[uiPos + 1]
    BY <1>2, <1>3, <1>6, <1>13, <2>1, <2>3, SMTT(60)
  <2>5. uiPos > 1 => Ends(pLocks)[uiPos - 1] < a
    BY <1>2, <1>4, <2>3 DEF Rising
  <2> HIDE DEF a, l
  <2>6. /\ Good(r)
        /\ \A b \in Nat : Locked(r, b) <=>
              \/ In(a, a + l, b)
              \/ Locked(pLocks, b) /\ ~In(Starts(pLocks)[uiPos], Ends(pLocks)[uiPos], b)
    BY <1>2, <1>4, <2>3, <2>4, <2>5, Changed
  <2>7. ASSUME NEW b \in Nat
        PROVE  Locked(r, b) <=> In(ulStart, ulEnd, b) \/ Locked(pLocks, b)
    <3>1. In(a, ulStart, b) => Locked(pLocks, b)
      BY <1>11, <2>3
    <3>2. In(a, ulEnd, b) <=> In(a, ulStart, b) \/ In(ulStart, ulEnd, b)
      BY <1>2, <2>3 DEF In
    <3> QED
      BY <2>3, <2>6, <3>1, <3>2
  <2> QED
    BY <2>2, <2>6, <2>7 DEF Adds
<1>14. ASSUME ~Conflict, JoinRight PROVE Adds
  <2>1. uiPos < uiLocks /\ ulEnd = Here.start /\ (uiPos > 0 => End(Before) # ulStart)
    BY <1>14 DEF JoinRight, LJoin, RJoin
  <2> DEFINE k == uiPos + 1
             a == Here.start - ulLen
             l == Here.len + ulLen
             r == [pLocks EXCEPT ![k] = Interval(a, l)]
  <2>2. pLocks' = r
    BY <1>14 DEF JoinRight
  <2>3. /\ a \in Nat /\ l \in Nat /\ l > 0 /\ k \in 1 .. Len(pLocks)
        /\ a = ulStart /\ a + l = End(Here) /\ ulStart < ulEnd /\ ulEnd < End(Here)
        /\ Starts(pLocks)[k] = ulEnd /\ Ends(pLocks)[k] = End(Here) /\ End(Here) \in Nat
    BY <1>2, <1>3, <1>4, <1>8, <2>1, SMTT(60)
  <2>4. k > 1 => Ends(pLocks)[k - 1] < a
    <3>1. k > 1 => uiPos > 0 /\ k - 1 = uiPos
      BY <1>2
    <3>2. uiPos > 0 => Ends(pLocks)[uiPos] < ulStart
      BY <1>2, <1>3, <1>7, <2>1, SMTT(60)
    <3> QED
      BY <2>3, <3>1, <3>2
  <2>5. k < Len(pLocks) => a + l < Starts(pLocks)[k + 1]
    BY <1>2, <1>4, <2>3 DEF Rising
  <2> HIDE DEF a, l, k
  <2>6. /\ Good(r)
        /\ \A b \in Nat : Locked(r, b) <=>
              \/ In(a, a + l, b)
              \/ Locked(pLocks, b) /\ ~In(Starts(pLocks)[k], Ends(pLocks)[k], b)
    BY <1>2, <1>4, <2>3, <2>4, <2>5, Changed
  <2>7. ASSUME NEW b \in Nat
        PROVE  Locked(r, b) <=> In(ulStart, ulEnd, b) \/ Locked(pLocks, b)
    <3>1. In(ulEnd, End(Here), b) => Locked(pLocks, b)
      BY <1>11, <2>3
    <3>2. In(ulStart, End(Here), b) <=> In(ulStart, ulEnd, b) \/ In(ulEnd, End(Here), b)
      BY <1>2, <2>3 DEF In
    <3> QED
      BY <2>3, <2>6, <3>1, <3>2
  <2> QED
    BY <2>2, <2>6, <2>7 DEF Adds
<1>15. ASSUME ~Conflict, JoinNone PROVE Adds
  <2>1. /\ uiPos > 0 => End(Before) # ulStart
        /\ uiPos < uiLocks => ulEnd # Here.start
    BY <1>15 DEF JoinNone, LJoin, RJoin
  <2>2. pLocks' = Inserted(pLocks, uiPos, Interval(ulStart, ulLen))
    BY <1>15 DEF JoinNone
  <2>3. uiPos \in 0 .. Len(pLocks)
    BY <1>2
  <2>4. uiPos > 0 => Ends(pLocks)[uiPos] < ulStart
    BY <1>2, <1>3, <1>7, <2>1
  <2>5. uiPos < Len(pLocks) => ulStart + ulLen < Starts(pLocks)[uiPos + 1]
    BY <1>2, <1>3, <1>6, <1>15, <2>1
  <2>6. /\ Good(Inserted(pLocks, uiPos, Interval(ulStart, ulLen)))
        /\ \A b \in Nat : Locked(Inserted(pLocks, uiPos, Interval(ulStart, ulLen)), b) <=>
              In(ulStart, ulStart + ulLen, b) \/ Locked(pLocks, b)
    BY <1>2, <1>4, <2>3, <2>4, <2>5, InsertedAdds
  <2> QED
    BY <1>2, <2>2, <2>6 DEF Adds
<1> QED
  BY <1>5, <1>12, <1>13, <1>14, <1>15 DEF SetLock

\* What an unlock leaves as it was, though the array has changed; it was from
\* the middle of an entry.
Spoils == /\ ReallocMoves
          /\ \A b \in Nat : Locked(pLocks', b) <=> Locked(pLocks, b)
          /\ Here.start \in Nat /\ End(Here) \in Nat
          /\ Here.start < ulStart /\ ulEnd < End(Here)
          /\ \A b \in Nat : In(Here.start, End(Here), b) => Locked(pLocks, b)

\* A range that is inside an entry is dropped, wherever in it, unless the
\* array moves under the cut of the entry.
LEMMA UnlockDrops ==
    ASSUME LInv, Unlock
    PROVE  /\ ~Inside => UNCHANGED <<pLocks, intact>>
           /\ Inside /\ intact' => Drops /\ UNCHANGED intact
           /\ Inside /\ ~intact' => Spoils
<1>1. call = "unlock" /\ uiFirst >= uiLast
  BY DEF Unlock, Found
<1>2. /\ uiPos \in Nat /\ uiPos <= uiLocks /\ uiLocks \in Nat
      /\ ulStart \in Nat /\ ulLen \in Nat /\ ulEnd = ulStart + ulLen /\ ulEnd \in Nat
      /\ pLocks \in Seq(Entry) /\ Len(pLocks) = uiLocks
  BY <1>1, Met DEF LInv, TInv
<1>3. uiPos < uiLocks => /\ uiPos + 1 \in 1 .. Len(pLocks)
                         /\ Here.start \in Nat /\ Here.len \in Nat
                         /\ End(Here) = Here.start + Here.len
                         /\ Starts(pLocks)[uiPos + 1] = Here.start
                         /\ Ends(pLocks)[uiPos + 1] = End(Here)
  BY <1>1, Beside DEF LInv, TInv
<1>4. /\ Good(pLocks) /\ ulLen > 0
      /\ Nums(uiLocks, Starts(pLocks), Ends(pLocks))
      /\ Rising(uiLocks, Starts(pLocks), Ends(pLocks))
  BY <1>1, AtThePlace
<1>0. intact /\ intact' \in BOOLEAN
  BY <1>1 DEF LInv, TInv, TypeOK, Unlock, Split
<1>5. ~Inside => UNCHANGED <<pLocks, intact>>
  BY DEF Unlock, table
<1> SUFFICES ASSUME Inside
             PROVE  IF intact' THEN Drops ELSE Spoils
  BY <1>0, <1>5
<1> DEFINE k == uiPos + 1
<1>6. /\ k \in 1 .. Len(pLocks) /\ k \in 1 .. uiLocks
      /\ Here.start \in Nat /\ Here.len \in Nat /\ End(Here) \in Nat
      /\ End(Here) = Here.start + Here.len
      /\ Here.start <= ulStart /\ ulStart < ulEnd /\ ulEnd <= End(Here)
      /\ Starts(pLocks)[k] = Here.start /\ Ends(pLocks)[k] = End(Here)
  BY <1>2, <1>3, <1>4 DEF Inside
<1>7. k > 1 => Ends(pLocks)[k - 1] < Here.start
  BY <1>2, <1>4, <1>6 DEF Rising
<1>8. k < uiLocks => End(Here) < Starts(pLocks)[k + 1]
  BY <1>2, <1>4, <1>6 DEF Rising
<1>9. \A b \in Nat : In(Here.start, End(Here), b) => Locked(pLocks, b)
  BY <1>2, <1>6, EntryLocked DEF In
<1>10. /\ uiLocks = Len(pLocks)
       /\ k < uiLocks => Starts(pLocks)[k + 1] \in Nat
       /\ k > 1 => Ends(pLocks)[k - 1] \in Nat
  BY <1>2, <1>4, <1>6 DEF Nums
<1> HIDE DEF uiPos, uiLocks, ulEnd, Here
<1>11. ASSUME CutAll PROVE Drops
  <2>1. ulStart = Here.start /\ ulEnd = End(Here)
    BY <1>2, <1>6, <1>11 DEF CutAll
  <2>2. pLocks' = Deleted(pLocks, uiPos) /\ uiPos \in 0 .. Len(pLocks) - 1
    BY <1>2, <1>6, <1>11 DEF CutAll
  <2>3. /\ Good(Deleted(pLocks, uiPos))
        /\ \A b \in Nat : Locked(Deleted(pLocks, uiPos), b) <=>
              Locked(pLocks, b) /\ ~In(Starts(pLocks)[uiPos + 1], Ends(pLocks)[uiPos + 1], b)
    BY <1>2, <1>4, <2>2, DeletedDrops
  <2> QED
    BY <1>6, <2>1, <2>2, <2>3 DEF Drops
<1>12. ASSUME CutLeft PROVE Drops
  <2>1. ulStart = Here.start /\ ulEnd < End(Here)
    BY <1>2, <1>6, <1>12, SMTT(60) DEF CutLeft
  <2> DEFINE a == Here.start + ulLen
             l == Here.len - ulLen
             r == [pLocks EXCEPT ![k] = Interval(a, l)]
  <2>2. pLocks' = r
    BY <1>12 DEF CutLeft
  <2>3. a \in Nat /\ l \in Nat /\ l > 0 /\ a = ulEnd /\ a + l = End(Here)
    BY <1>2, <1>6, <2>1, SMTT(60)
  <2>4. k < Len(pLocks) => a + l < Starts(pLocks)[k + 1]
    BY <1>8, <1>10, <2>3
  <2>5. k > 1 => Ends(pLocks)[k - 1] < a
    <3>1. Here.start <= a
      BY <1>2, <1>6, <2>3, SMTT(60)
    <3>2. \A x, y, z \in Nat : x < y /\ y <= z => x < z
      OBVIOUS
    <3> HIDE DEF a, k
    <3> QED
      BY <1>6, <1>7, <1>10, <2>3, <3>1, <3>2
  <2> HIDE DEF a, l, k
  <2>6. /\ Good(r)
        /\ \A b \in Nat : Locked(r, b) <=>
              \/ In(a, a + l, b)
              \/ Locked(pLocks, b) /\ ~In(Starts(pLocks)[k], Ends(pLocks)[k], b)
    BY <1>2, <1>4, <1>6, <2>3, <2>4, <2>5, Changed
  <2>7. ASSUME NEW b \in Nat
        PROVE  Locked(r, b) <=> ~In(ulStart, ulEnd, b) /\ Locked(pLocks, b)
    <3>1. In(Here.start, End(Here), b) <=> In(ulStart, ulEnd, b) \/ In(ulEnd, End(Here), b)
      BY <1>2, <1>6, <2>1 DEF In
    <3>2. ~(In(ulStart, ulEnd, b) /\ In(ulEnd, End(Here), b))
      BY <1>2, <1>6 DEF In
    <3> QED
      BY <1>6, <1>9, <2>3, <2>6, <3>1, <3>2
  <2> QED
    BY <2>2, <2>6, <2>7 DEF Drops
<1>13. ASSUME CutRight PROVE Drops
  <2>1. Here.start < ulStart /\ ulEnd = End(Here)
    <3>1. ulStart # Here.start /\ ulEnd = End(Here)
      BY <1>13 DEF CutRight
    <3> QED
      BY <1>2, <1>6, <3>1
  <2> DEFINE a == Here.start
             l == Here.len - ulLen
             r == [pLocks EXCEPT ![k] = Interval(a, l)]
  <2>2. pLocks' = r
    BY <1>13 DEF CutRight
  <2>3. a \in Nat /\ l \in Nat /\ l > 0 /\ a + l = ulStart
    BY <1>2, <1>6, <2>1, SMTT(60)
  <2>4. k < Len(pLocks) => a + l < Starts(pLocks)[k + 1]
    BY <1>2, <1>6, <1>8, <1>10, <2>3
  <2> HIDE DEF l, k
  <2>6. /\ Good(r)
        /\ \A b \in Nat : Locked(r, b) <=>
              \/ In(a, a + l, b)
              \/ Locked(pLocks, b) /\ ~In(Starts(pLocks)[k], Ends(pLocks)[k], b)
    BY <1>2, <1>4, <1>6, <1>7, <2>3, <2>4, Changed
  <2>7. ASSUME NEW b \in Nat
        PROVE  Locked(r, b) <=> ~In(ulStart, ulEnd, b) /\ Locked(pLocks, b)
    <3>1. In(Here.start, End(Here), b) <=> In(Here.start, ulStart, b) \/ In(ulStart, ulEnd, b)
      BY <1>2, <1>6, <2>1 DEF In
    <3>2. ~(In(Here.start, ulStart, b) /\ In(ulStart, ulEnd, b))
      BY <1>2, <1>6 DEF In
    <3> QED
      BY <1>6, <1>9, <2>3, <2>6, <3>1, <3>2
  <2> QED
    BY <2>2, <2>6, <2>7 DEF Drops
<1>14. ASSUME Split, intact' PROVE Drops
  <2>1. Here.start < ulStart /\ ulEnd < End(Here)
    BY SMTT(30), <1>2, <1>6, <1>14 DEF Split
  <2> DEFINE first == ulStart - Here.start
             last  == End(Here) - ulEnd
             cut   == [pLocks EXCEPT ![k] = Interval(Here.start, first)]
             r     == Inserted(cut, k, Interval(ulEnd, last))
  <2>2. pLocks' = r
    BY <1>14 DEF Split
  <2>3. /\ first \in Nat /\ first > 0 /\ Here.start + first = ulStart
        /\ last \in Nat /\ last > 0 /\ ulEnd + last = End(Here)
    BY <1>2, <1>6, <2>1, SMTT(60)
  <2>4. k < Len(pLocks) => Here.start + first < Starts(pLocks)[k + 1]
    BY <1>2, <1>6, <1>8, <1>10, <2>3
  <2>5. Interval(Here.start, first) \in Entry /\ End(Interval(Here.start, first)) = ulStart
    BY <1>6, <2>3, IntervalFacts
  <2> HIDE DEF first, last, k
  <2>6. /\ cut \in Seq(Entry) /\ Len(cut) = Len(pLocks)
        /\ \A i \in 1 .. Len(pLocks) : cut[i] =
              IF i = k THEN Interval(Here.start, first) ELSE pLocks[i]
    BY <1>2, <1>6, <2>5, ChangedFacts
  <2>7. /\ Good(cut)
        /\ \A b \in Nat : Locked(cut, b) <=>
              \/ In(Here.start, Here.start + first, b)
              \/ Locked(pLocks, b) /\ ~In(Starts(pLocks)[k], Ends(pLocks)[k], b)
    BY <1>2, <1>4, <1>6, <1>7, <2>3, <2>4, Changed
  <2> HIDE DEF cut
  <2>8. k \in 0 .. Len(cut) /\ Ends(cut)[k] = ulStart
    <3>1. k \in 1 .. Len(cut) /\ cut[k] = Interval(Here.start, first) /\ k \in 0 .. Len(cut)
      BY <1>2, <1>6, <2>6
    <3> QED
      BY <2>5, <2>6, <3>1, BoundsFacts
  <2>9. k < Len(cut) => ulEnd + last < Starts(cut)[k + 1]
    <3> SUFFICES ASSUME k < Len(cut) PROVE End(Here) < Starts(cut)[k + 1]
      BY <2>3
    <3>1. k + 1 \in 1 .. Len(cut) /\ k + 1 \in 1 .. Len(pLocks) /\ k + 1 # k
      BY <1>2, <1>6, <2>6
    <3>2. cut[k + 1] = pLocks[k + 1]
      BY <2>6, <3>1
    <3>3. Starts(cut)[k + 1] = Starts(pLocks)[k + 1]
      BY <1>2, <2>6, <3>1, <3>2, BoundsFacts
    <3> QED
      BY <1>8, <1>10, <2>6, <3>3
  <2>10. k > 0 => Ends(cut)[k] < ulEnd
    BY <1>2, <1>6, <2>8
  <2>11. /\ Good(r)
         /\ \A b \in Nat : Locked(r, b) <=> In(ulEnd, ulEnd + last, b) \/ Locked(cut, b)
    BY <1>2, <2>3, <2>6, <2>7, <2>8, <2>9, <2>10, InsertedAdds
  <2>12. ASSUME NEW b \in Nat
         PROVE  Locked(r, b) <=> ~In(ulStart, ulEnd, b) /\ Locked(pLocks, b)
    <3>1. In(Here.start, End(Here), b) <=>
             In(Here.start, ulStart, b) \/ In(ulStart, ulEnd, b) \/ In(ulEnd, End(Here), b)
      BY <1>2, <1>6, <2>1 DEF In
    <3>2. /\ ~(In(Here.start, ulStart, b) /\ In(ulStart, ulEnd, b))
          /\ ~(In(ulEnd, End(Here), b) /\ In(ulStart, ulEnd, b))
      BY <1>2, <1>6 DEF In
    <3> QED
      BY <1>6, <1>9, <2>3, <2>7, <2>11, <3>1, <3>2
  <2> QED
    BY <2>2, <2>11, <2>12 DEF Drops
<1>15. ASSUME Split, ~intact' PROVE Spoils
  <2>1. Here.start < ulStart /\ ulEnd < End(Here)
    BY SMTT(30), <1>2, <1>6, <1>15 DEF Split
  <2> DEFINE last == End(Here) - ulEnd
             r    == Inserted(pLocks, k, Interval(ulEnd, last))
  <2>2. ReallocMoves /\ pLocks' = r
    BY <1>15 DEF Split
  <2>3. last \in Nat /\ last > 0 /\ ulEnd + last = End(Here) /\ k \in 0 .. Len(pLocks)
    BY <1>2, <1>6, <2>1, SMTT(60)
  <2> HIDE DEF last, k
  <2>4. /\ Len(r) = Len(pLocks) + 1
        /\ IsInsert(Len(pLocks), Starts(pLocks), Ends(pLocks), Starts(r), Ends(r),
                    k, ulEnd, ulEnd + last)
    BY <1>2, <2>3, InsertedNumbers
  <2> HIDE DEF r
  <2>5. ASSUME NEW b \in Nat
        PROVE  Locked(r, b) <=> In(ulEnd, End(Here), b) \/ Locked(pLocks, b)
    <3>1. Len(pLocks) \in Nat /\ ulEnd + last \in Nat
      BY <1>2, <1>6, <2>3
    <3>2. Holds(Len(pLocks) + 1, Starts(r), Ends(r), b) <=>
             In(ulEnd, ulEnd + last, b) \/ Holds(Len(pLocks), Starts(pLocks), Ends(pLocks), b)
      BY <1>2, <2>3, <2>4, <3>1, InsertedHolds
    <3> QED
      BY <2>3, <2>4, <3>2 DEF Locked
  <2>6. \A b \in Nat : In(ulEnd, End(Here), b) => In(Here.start, End(Here), b)
    BY <1>2, <1>6, <2>1 DEF In
  <2> QED
    BY <1>6, <1>9, <2>1, <2>2, <2>5, <2>6 DEF Spoils
<1> QED
  BY <1>0, <1>11, <1>12, <1>13, <1>14, <1>15 DEF Unlock

-----------------------------------------------------------------------------
(* The invariants.                                                         *)

\* The table is empty at first.
LEMMA TInvInit ==
    ASSUME Init
    PROVE  TInv
<1>1. pLocks = <<>> /\ Len(pLocks) = 0 /\ pLocks \in Seq(Entry)
  BY DEF Init
<1>2. TypeOK
  <2>1. /\ uiSize = 0 /\ call = "none" /\ ulStart = 0 /\ ulLen = 0
        /\ uiFirst = 0 /\ uiLast = 0 /\ fResult = FALSE /\ intact = TRUE
    BY DEF Init
  <2>2. uiSize \in Nat /\ ulStart \in Nat /\ ulLen \in Nat
        /\ uiLast \in 0 .. uiLocks /\ uiFirst \in 0 .. uiLast
    <3>1. uiLocks = 0
      BY <1>1 DEF uiLocks
    <3> HIDE DEF uiLocks
    <3> QED
      BY <2>1, <3>1
  <2> QED
    BY <1>1, <2>1, <2>2, Zenon DEF TypeOK
<1>3. Capacity
  BY <1>1, SizeAssumption DEF Init, Capacity, uiLocks
<1> QED
  BY <1>2, <1>3 DEF Init, TInv

\* The variables of the table have their types, whatever the allocator does.
THEOREM TypeCorrect == Spec => []TypeOK
<1>1. TInv => TypeOK
  BY DEF TInv
<1> QED
  BY <1>1, TInvInit, TInvNext, PTL DEF Spec

\* The entries fit into the allocation, and no more than two steps of it are
\* free: hb_fileInsertLock and hb_fileDeleteLock agree on when to move it.
THEOREM CapacityAlways == Spec => []Capacity
<1>1. TInv => Capacity
  BY DEF TInv
<1> QED
  BY <1>1, TInvInit, TInvNext, PTL DEF Spec

\* The table is empty at first.
LEMMA LInvInit ==
    ASSUME Init
    PROVE  LInv
<1>1. pLocks = <<>> /\ call = "none" /\ DOMAIN pLocks = {}
  BY DEF Init
<1> QED
  BY <1>1, TInvInit DEF LInv, Sorted, SearchOK

\* Every step keeps the order, and the search right.
LEMMA LInvNext ==
    ASSUME LInv, [Next]_vars
    PROVE  LInv'
<1>1. TInv'
  BY TInvNext DEF LInv
<1>2. TypeOK /\ TypeOK' /\ Sorted /\ SearchOK /\ (~intact => call = "none")
  BY <1>1 DEF LInv, TInv
<1>3. CASE UNCHANGED vars
  BY <1>1, <1>2, <1>3 DEF LInv, vars, Sorted, SearchOK, uiLocks
<1>4. ASSUME NEW name \in {"lock", "unlock"}, Call(name) PROVE LInv'
  BY <1>1, <1>2, <1>4 DEF LInv, Call, table, Sorted, SearchOK, uiLocks, TypeOK
<1>5. CASE FindStep
  <2>1. Sorted' /\ intact /\ intact'
    BY <1>2, <1>5 DEF FindStep, table, Sorted
  <2>2. pLocks' = pLocks /\ call # "none" /\ ulStart' = ulStart
    BY <1>5 DEF FindStep, table, args
  <2>3. /\ uiMiddle \in Nat /\ uiFirst <= uiMiddle /\ uiMiddle < uiLast
        /\ uiFirst \in Nat /\ uiLast \in Nat /\ uiLast <= Len(pLocks) /\ Len(pLocks) \in Nat
        /\ ulStart \in Nat
    BY <1>2, <1>5 DEF FindStep, TypeOK, uiMiddle, uiLocks
  <2>4. \A i \in 1 .. Len(pLocks) : End(pLocks[i]) \in Nat
    BY <1>2, EntryFacts DEF TypeOK
  <2>5. \A i, j \in 1 .. Len(pLocks) : i < j => End(pLocks[i]) < End(pLocks[j])
    <3>1. \A i \in 1 .. Len(pLocks) : /\ pLocks[i].start \in Nat /\ pLocks[i].len \in Nat
                                       /\ End(pLocks[i]) = pLocks[i].start + pLocks[i].len
      BY <1>2, EntryFacts DEF TypeOK
    <3>2. \A i, j \in 1 .. Len(pLocks) : i < j => End(pLocks[i]) < pLocks[j].start
      BY <1>2, <2>1, <2>2, SMTT(60) DEF TypeOK, Sorted
    <3>3. \A i \in 1 .. Len(pLocks) : pLocks[i].start <= End(pLocks[i])
      BY <3>1
    <3>4. \A x, y, z \in Nat : x < y /\ y <= z => x < z
      OBVIOUS
    <3> QED
      BY <2>4, <3>1, <3>2, <3>3, <3>4, SMTT(60)
  <2>6. /\ \A i \in 1 .. uiFirst : End(pLocks[i]) <= ulStart
        /\ \A i \in uiLast + 1 .. Len(pLocks) : End(pLocks[i]) > ulStart
    BY <1>2, <2>2 DEF SearchOK, uiLocks
  <2> HIDE DEF uiMiddle
  <2>7. CASE End(pLocks[uiMiddle + 1]) <= ulStart
    <3>1. uiFirst' = uiMiddle + 1 /\ uiLast' = uiLast
      BY <1>5, <2>7 DEF FindStep
    <3>2. \A i \in 1 .. uiMiddle + 1 : End(pLocks[i]) <= ulStart
      BY <2>3, <2>4, <2>5, <2>7, SMTT(60)
    <3> QED
      BY <1>1, <2>1, <2>2, <2>6, <3>1, <3>2 DEF LInv, SearchOK, uiLocks
  <2>8. CASE ~(End(pLocks[uiMiddle + 1]) <= ulStart)
    <3>1. uiFirst' = uiFirst /\ uiLast' = uiMiddle
      BY <1>5, <2>8 DEF FindStep
    <3>2. \A i \in uiMiddle + 1 .. Len(pLocks) : End(pLocks[i]) > ulStart
      BY <2>3, <2>4, <2>5, <2>8
    <3> QED
      BY <1>1, <2>1, <2>2, <2>6, <3>1, <3>2 DEF LInv, SearchOK, uiLocks
  <2> QED
    BY <2>7, <2>8
<1>6. CASE SetLock \/ Unlock
  <2>1. call' = "none"
    BY <1>6 DEF SetLock, Unlock, Found
  <2>2. ~intact' \/ UNCHANGED <<pLocks, intact>> \/ Good(pLocks')
    BY <1>6, SetLockAdds, UnlockDrops DEF Adds, Drops, SetLock
  <2>3. Sorted'
    <3>0. CASE ~intact'
      BY <3>0 DEF Sorted
    <3>1. CASE UNCHANGED <<pLocks, intact>>
      BY <1>2, <3>1 DEF Sorted
    <3>2. CASE Good(pLocks')
      <4>1. pLocks' \in Seq(Entry)
        BY <1>2 DEF TypeOK
      <4>2. Ordered(pLocks')
        BY <3>2, <4>1, GoodIsOrdered
      <4> QED
        BY <4>2 DEF Sorted, Ordered
    <3> QED
      BY <2>2, <3>0, <3>1, <3>2
  <2> QED
    BY <1>1, <2>1, <2>3 DEF LInv, SearchOK
<1> QED
  BY <1>3, <1>4, <1>5, <1>6 DEF Next

\* The array stays sorted and joined, until an entry is cut in memory that
\* hb_xrealloc has given back.
THEOREM SortedAlways == Spec => []Sorted
<1>1. LInv => Sorted
  BY DEF LInv
<1>2. LInv /\ [Next]_vars => LInv'
  BY LInvNext
<1> QED
  BY <1>1, <1>2, LInvInit, PTL DEF Spec

\* The search by halves is right at every step of it.
THEOREM SearchCorrect == Spec => []SearchOK
<1>1. LInv => SearchOK
  BY DEF LInv
<1>2. LInv /\ [Next]_vars => LInv'
  BY LInvNext
<1> QED
  BY <1>1, <1>2, LInvInit, PTL DEF Spec

-----------------------------------------------------------------------------
(* The table is the set of the bytes locked.                               *)

\* The numbers of the range are its bytes.
LEMMA SpanIs ==
    ASSUME TInv, call # "none"
    PROVE  /\ Span(ulStart, ulLen) = {b \in Nat : In(ulStart, ulEnd, b)}
           /\ Span(ulStart, ulLen) \in {Span(r[1], r[2]) : r \in Requests}
<1>1. <<ulStart, ulLen>> \in Requests /\ ulStart \in Nat /\ ulLen \in Nat
  BY DEF TInv, TypeOK
<1>2. Span(ulStart, ulLen) = {b \in Nat : In(ulStart, ulEnd, b)}
  BY <1>1 DEF Span, In, ulEnd
<1>3. /\ <<ulStart, ulLen>>[1] = ulStart
      /\ <<ulStart, ulLen>>[2] = ulLen
  OBVIOUS
<1> QED
  BY <1>1, <1>2, <1>3

\* The answers: a range is refused when a byte of it is locked, and released
\* when all of them are.
LEMMA Answers ==
    ASSUME LInv, call # "none", uiFirst >= uiLast
    PROVE  /\ Conflict <=> Span(ulStart, ulLen) \cap Covered # {}
           /\ Inside <=> Span(ulStart, ulLen) \subseteq Covered
<1>1. /\ Good(pLocks) /\ pLocks \in Seq(Entry) /\ ulLen > 0
      /\ Nums(uiLocks, Starts(pLocks), Ends(pLocks))
      /\ Rising(uiLocks, Starts(pLocks), Ends(pLocks))
      /\ Parted(uiLocks, Ends(pLocks), uiPos, ulStart)
  BY AtThePlace
<1>2. /\ uiPos \in 0 .. uiLocks /\ uiPos \in Nat /\ uiLocks \in Nat
      /\ ulStart \in Nat /\ ulEnd \in Nat /\ ulStart < ulEnd
  BY <1>1, Met DEF LInv, TInv
<1>3. uiPos < uiLocks => /\ Here.start \in Nat /\ End(Here) \in Nat
                         /\ Starts(pLocks)[uiPos + 1] = Here.start
                         /\ Ends(pLocks)[uiPos + 1] = End(Here)
  BY Beside DEF LInv, TInv
<1>4. Span(ulStart, ulLen) = {b \in Nat : In(ulStart, ulEnd, b)}
  BY SpanIs DEF LInv
<1>5. Covered = {b \in Nat : Locked(pLocks, b)}
  BY <1>1, BytesAreLocked DEF Covered, BytesOf
<1>6. \A b : Locked(pLocks, b) <=> Holds(uiLocks, Starts(pLocks), Ends(pLocks), b)
  BY DEF Locked, uiLocks
<1> HIDE DEF uiPos, uiLocks, ulEnd, Here
<1>7. (uiPos < uiLocks /\ Starts(pLocks)[uiPos + 1] < ulEnd) <=>
         \E b \in Nat : In(ulStart, ulEnd, b) /\ Holds(uiLocks, Starts(pLocks), Ends(pLocks), b)
  BY <1>1, <1>2, FirstConflict
<1>8. (/\ uiPos < uiLocks /\ Starts(pLocks)[uiPos + 1] <= ulStart
       /\ ulEnd <= Ends(pLocks)[uiPos + 1]) <=>
         \A b \in Nat : In(ulStart, ulEnd, b) => Holds(uiLocks, Starts(pLocks), Ends(pLocks), b)
  BY <1>1, <1>2, FirstInside
<1>9. Conflict <=> (uiPos < uiLocks /\ Starts(pLocks)[uiPos + 1] < ulEnd)
  BY <1>2, <1>3 DEF Conflict
<1>10. Inside <=> (/\ uiPos < uiLocks /\ Starts(pLocks)[uiPos + 1] <= ulStart
                   /\ ulEnd <= Ends(pLocks)[uiPos + 1])
  BY <1>2, <1>3 DEF Inside
<1>11. Conflict <=> Span(ulStart, ulLen) \cap Covered # {}
  BY <1>4, <1>5, <1>6, <1>7, <1>9
<1>12. Inside <=> Span(ulStart, ulLen) \subseteq Covered
  BY <1>4, <1>5, <1>6, <1>8, <1>10
<1> QED
  BY <1>11, <1>12

\* The bytes after a step, from those of the array.
LEMMA CoveredNext ==
    ASSUME LInv, LInv', call # "none"
    PROVE  /\ Adds => Covered' = Covered \cup Span(ulStart, ulLen)
           /\ Drops => Covered' = Covered \ Span(ulStart, ulLen)
<1>1. pLocks \in Seq(Entry) /\ pLocks' \in Seq(Entry)
  BY DEF LInv, TInv, TypeOK
<1>2. Covered = {b \in Nat : Locked(pLocks, b)}
  BY <1>1, BytesAreLocked DEF Covered, BytesOf
<1>3. Covered' = {b \in Nat : Locked(pLocks', b)}
  BY <1>1, BytesAreLocked DEF Covered, BytesOf
<1>4. Span(ulStart, ulLen) = {b \in Nat : In(ulStart, ulEnd, b)}
  BY SpanIs DEF LInv
<1>5. Adds => Covered' = Covered \cup Span(ulStart, ulLen)
  BY <1>2, <1>3, <1>4 DEF Adds
<1>6. Drops => Covered' = Covered \ Span(ulStart, ulLen)
  BY <1>2, <1>3, <1>4 DEF Drops
<1> QED
  BY <1>5, <1>6

\* A range spoilt is in the middle of what is locked.
LEMMA SpoiltBytes ==
    ASSUME LInv, LInv', call # "none", uiFirst >= uiLast, Spoils
    PROVE  /\ Covered' = Covered
           /\ \E b \in Span(ulStart, ulLen) : b - 1 \in Covered \ Span(ulStart, ulLen)
           /\ \E b \in Span(ulStart, ulLen) : b + 1 \in Covered \ Span(ulStart, ulLen)
<1>1. pLocks \in Seq(Entry) /\ pLocks' \in Seq(Entry)
  BY DEF LInv, TInv, TypeOK
<1>2. Covered = {b \in Nat : Locked(pLocks, b)}
  BY <1>1, BytesAreLocked DEF Covered, BytesOf
<1>3. Covered' = {b \in Nat : Locked(pLocks', b)}
  BY <1>1, BytesAreLocked DEF Covered, BytesOf
<1>4. Span(ulStart, ulLen) = {b \in Nat : In(ulStart, ulEnd, b)}
  BY SpanIs DEF LInv
<1>5. ulStart \in Nat /\ ulEnd \in Nat /\ ulStart < ulEnd
  BY AtThePlace DEF LInv, TInv, TypeOK, ulEnd
<1>6. Covered' = Covered
  BY <1>2, <1>3 DEF Spoils
<1> HIDE DEF ulEnd, Here
<1>7. ulStart \in Span(ulStart, ulLen) /\ ulEnd - 1 \in Span(ulStart, ulLen)
  BY <1>4, <1>5 DEF In
<1>8. ulStart - 1 \in Covered \ Span(ulStart, ulLen)
  <2>1. ulStart - 1 \in Nat /\ In(Here.start, End(Here), ulStart - 1)
        /\ ~In(ulStart, ulEnd, ulStart - 1)
    BY <1>5 DEF Spoils, In
  <2> QED
    BY <1>2, <1>4, <2>1 DEF Spoils
<1>9. (ulEnd - 1) + 1 \in Covered \ Span(ulStart, ulLen)
  <2>1. ulEnd \in Nat /\ In(Here.start, End(Here), ulEnd) /\ ~In(ulStart, ulEnd, ulEnd)
    BY <1>5 DEF Spoils, In
  <2>2. ulEnd \in Covered \ Span(ulStart, ulLen)
    BY <1>2, <1>4, <2>1 DEF Spoils
  <2>3. (ulEnd - 1) + 1 = ulEnd
    BY <1>5
  <2> QED
    BY <2>2, <2>3
<1> QED
  BY <1>6, <1>7, <1>8, <1>9

\* What is asked of the set of bytes.
LEMMA AskedIs ==
    /\ call = "none" => Asked = Bytes!NoRequest
    /\ call # "none" => Asked.op = call /\ Asked.range = Span(ulStart, ulLen)
  BY DEF Asked, Bytes!NoRequest

\* Every step of the table is a step of the set of bytes, or none.
LEMMA StepsRefine ==
    ASSUME LInv, [Next]_vars
    PROVE  [Bytes!Next]_(Bytes!byteVars)
<1>1. LInv'
  BY LInvNext
<1>2. UNCHANGED pLocks => UNCHANGED Covered
  BY DEF Covered
<1>3. CASE UNCHANGED vars
  BY <1>2, <1>3 DEF vars, Bytes!byteVars, Asked
<1>4. ASSUME NEW name \in {"lock", "unlock"}, Call(name) PROVE Bytes!Next
  <2>1. call' = name /\ call' # "none"
    BY <1>4 DEF Call
  <2>2. Span(ulStart, ulLen)' \in {Span(r[1], r[2]) : r \in Requests}
    <3>1. <<ulStart, ulLen>>' \in Requests
      BY <1>1, <2>1 DEF LInv, TInv, Requests
    <3>2. Span(ulStart, ulLen)' = Span(<<ulStart, ulLen>>'[1], <<ulStart, ulLen>>'[2])
      BY DEF Span
    <3> QED
      BY <3>1, <3>2
  <2>3. /\ intact /\ Asked = Bytes!NoRequest
        /\ Asked' = [op |-> name, range |-> Span(ulStart, ulLen)']
        /\ UNCHANGED <<Covered, fResult, intact>>
    BY <1>2, <1>4, <2>1, AskedIs DEF Call, table, Asked
  <2>4. Bytes!Ask(name, Span(ulStart, ulLen)')
    BY <2>3 DEF Bytes!Ask
  <2> QED
    BY <2>2, <2>4 DEF Bytes!Next
<1>5. CASE FindStep
  BY <1>2, <1>5 DEF FindStep, table, args, Bytes!byteVars, Asked, Span
<1>6. CASE SetLock
  <2>1. /\ call = "lock" /\ uiFirst >= uiLast /\ fResult' = ~Conflict
        /\ call' = "none" /\ UNCHANGED intact
    BY <1>6 DEF SetLock, Found
  <2>2. Asked.op = "lock" /\ Asked.range = Span(ulStart, ulLen) /\ Asked' = Bytes!NoRequest
    BY <2>1, AskedIs DEF Asked, Bytes!NoRequest
  <2>3. Conflict <=> Asked.range \cap Covered # {}
    BY <2>1, <2>2, Answers
  <2>4. /\ Conflict => Covered' = Covered
        /\ ~Conflict => Covered' = Covered \cup Asked.range
    BY <1>1, <1>2, <1>6, <2>1, <2>2, SetLockAdds, CoveredNext
  <2>5. Bytes!Lock
    BY <2>1, <2>2, <2>3, <2>4 DEF Bytes!Lock, Conflict
  <2> QED
    BY <2>5 DEF Bytes!Next
<1>7. CASE Unlock
  <2>1. /\ call = "unlock" /\ uiFirst >= uiLast /\ fResult' = Inside /\ call' = "none"
    BY <1>7 DEF Unlock, Found
  <2>2. Asked.op = "unlock" /\ Asked.range = Span(ulStart, ulLen) /\ Asked' = Bytes!NoRequest
    BY <2>1, AskedIs DEF Asked, Bytes!NoRequest
  <2>3. Inside <=> Asked.range \subseteq Covered
    BY <2>1, <2>2, Answers
  <2>4. CASE Inside /\ ~intact'
    <3>1. Spoils
      BY <1>7, <2>4, UnlockDrops
    <3>2. /\ Covered' = Covered
          /\ \E b \in Asked.range : b - 1 \in Covered \ Asked.range
          /\ \E b \in Asked.range : b + 1 \in Covered \ Asked.range
      BY <1>1, <2>1, <2>2, <3>1, SpoiltBytes
    <3>3. fResult' = TRUE /\ intact' = FALSE
      BY <1>1, <2>1, <2>4 DEF LInv, TInv, TypeOK
    <3>4. Bytes!Break
      BY <2>2, <2>3, <2>4, <3>1, <3>2, <3>3 DEF Bytes!Break, Spoils
    <3> QED
      BY <3>4 DEF Bytes!Next
  <2>5. CASE ~Inside \/ intact'
    <3>1. UNCHANGED intact
      BY <1>7, <2>5, UnlockDrops
    <3>2. /\ ~Inside => Covered' = Covered
          /\ Inside => Covered' = Covered \ Asked.range
      BY <1>1, <1>2, <1>7, <2>1, <2>2, <2>5, UnlockDrops, CoveredNext
    <3>3. Bytes!Unlock
      BY <2>1, <2>2, <2>3, <3>1, <3>2 DEF Bytes!Unlock, Inside
    <3> QED
      BY <3>3 DEF Bytes!Next
  <2> QED
    BY <2>4, <2>5
<1> QED
  BY <1>3, <1>4, <1>5, <1>6, <1>7 DEF Next

\* The table implements the set of the bytes locked: a lock of a range is
\* refused exactly when a byte of that range is locked, an unlock exactly when
\* one is not, and joining, cutting and splitting the entries loses and gains
\* no byte.  Only an unlock from the middle of an entry can fail, by leaving
\* the range locked when hb_xrealloc moves the array, and nothing is said of
\* what follows.
THEOREM TableIsByteLocks == Spec => IsByteLocks
<1>1. Init => Bytes!Init
  BY DEF Init, Bytes!Init, Covered, Asked, Bytes!NoRequest
<1>2. LInv /\ [Next]_vars => LInv'
  BY LInvNext
<1>3. LInv /\ [Next]_vars => [Bytes!Next]_(Bytes!byteVars)
  BY StepsRefine
<1> QED
  BY <1>1, <1>2, <1>3, LInvInit, PTL DEF Spec, IsByteLocks, Bytes!Spec
=============================================================================
