--------------------------- MODULE SheetRowsProofs ---------------------------
(***************************************************************************)
(* Theorems about SheetRows, for any sheet and any finite set of runs.     *)
(*                                                                         *)
(* OldRowsKept is not inductive: a rollback deletes row 2 whatever it is.  *)
(* It is safe because each insert of an empty row pushes the old rows      *)
(* down by one, and a run deletes at most once for each insert: below the  *)
(* heading there are at least as many rows that are not old as there are   *)
(* runs that may still delete one (Debtors).                               *)
(*                                                                         *)
(* RowOnce and FailureIsUndone need more (LInv): the row that a call under *)
(* way or given up on would bring is not in the sheet, and an append_top   *)
(* that met no other write still has its empty row at 2.                   *)
(***************************************************************************)
EXTENDS SheetRows, FiniteSetTheorems, SequenceTheorems, TLAPS

\* The runs that may still delete row 2: their empty row is in the sheet.
Debtors == {r \in Run : pc[r] \in {"put", "undo"} \/ <<"undo", r>> \in late}

Fresh(s, d) == Len(s) >= 1 + d /\ \A i \in 2..(1 + d) : s[i] \notin Old

Kept(s, gone) ==
    /\ \A o \in Old \ gone : \E i \in 1..Len(s) : s[i] = o
    /\ \A i, j \in 1..Len(s), a, b \in 1..Len(Initial) :
         i < j /\ s[i] = Initial[a] /\ s[j] = Initial[b] => a < b

DebtInv == Fresh(rows, Cardinality(Debtors))

\* A rollback that is still under way belongs to a run that has returned, and a
\* run that reads the sheet has a tool.
RunInv ==
    \A r \in Run : /\ <<"undo", r>> \in late => pc[r] = "done"
                   /\ pc[r] = "open" => job[r] \in Jobs

IInv == TypeOK /\ RunInv /\ DebtInv /\ OldRowsKept

------------------------------------------------------------------------------
(* Sequences *)

\* What InsertAt returns, element by element.
LEMMA InsertAtIs ==
    ASSUME NEW s \in Seq(Content), NEW i \in 1..(Len(s) + 1), NEW e \in Content
    PROVE  /\ InsertAt(s, i, e) \in Seq(Content)
           /\ Len(InsertAt(s, i, e)) = Len(s) + 1
           /\ \A j \in 1..(i - 1) : InsertAt(s, i, e)[j] = s[j]
           /\ InsertAt(s, i, e)[i] = e
           /\ \A j \in i..Len(s) : InsertAt(s, i, e)[j + 1] = s[j]
<1> DEFINE p == SubSeq(s, 1, i - 1)
           q == SubSeq(s, i, Len(s))
           t == p \o <<e>>
<1>1. p \in Seq(Content) /\ Len(p) = i - 1 /\ \A j \in 1..(i - 1) : p[j] = s[j]
  OBVIOUS
<1>2. q \in Seq(Content) /\ Len(q) = Len(s) + 1 - i
      /\ \A j \in 1..(Len(s) + 1 - i) : q[j] = s[i + j - 1]
  OBVIOUS
<1> HIDE DEF p, q
<1>3. <<e>> \in Seq(Content) /\ Len(<<e>>) = 1 /\ <<e>>[1] = e
  OBVIOUS
<1>4. t \in Seq(Content) /\ Len(t) = i /\ t[i] = e /\ \A j \in 1..(i - 1) : t[j] = s[j]
  <2>1. /\ t \in Seq(Content) /\ Len(t) = Len(p) + Len(<<e>>)
        /\ \A j \in 1..(Len(p) + Len(<<e>>)) : t[j] = IF j <= Len(p) THEN p[j] ELSE <<e>>[j - Len(p)]
    BY <1>1, <1>3, ConcatProperties
  <2>2. Len(t) = i /\ i - Len(p) = 1
    BY <1>1, <1>3, <2>1
  <2>3. t[i] = e
    BY <1>1, <1>3, <2>1, <2>2
  <2>4. ASSUME NEW j \in 1..(i - 1) PROVE t[j] = s[j]
    BY <1>1, <1>3, <2>1
  <2> QED
    BY <2>1, <2>2, <2>3, <2>4
<1> HIDE DEF t
<1>5. /\ t \o q \in Seq(Content)
      /\ Len(t \o q) = Len(s) + 1
      /\ \A j \in 1..i : (t \o q)[j] = t[j]
      /\ \A j \in (i + 1)..(Len(s) + 1) : (t \o q)[j] = q[j - i]
  <2>1. /\ t \o q \in Seq(Content) /\ Len(t \o q) = Len(t) + Len(q)
        /\ \A j \in 1..(Len(t) + Len(q)) : (t \o q)[j] = IF j <= Len(t) THEN t[j] ELSE q[j - Len(t)]
    BY <1>2, <1>4, ConcatProperties
  <2> QED
    BY <1>2, <1>4, <2>1
<1>6. ASSUME NEW j \in i..Len(s) PROVE (t \o q)[j + 1] = s[j]
  <2>1. PICK k \in 1..(Len(s) + 1 - i) : k = j + 1 - i
    OBVIOUS
  <2>2. (t \o q)[j + 1] = q[k]
    BY <1>5, <2>1
  <2>3. q[k] = s[i + k - 1] /\ i + k - 1 = j
    BY <1>2, <2>1
  <2> QED
    BY <2>2, <2>3
<1>7. InsertAt(s, i, e) = t \o q
  BY DEF InsertAt, t, p, q
<1>8. (t \o q)[i] = e /\ \A j \in 1..(i - 1) : (t \o q)[j] = s[j]
  BY <1>4, <1>5
<1> QED
  BY <1>5, <1>6, <1>7, <1>8

\* What RemoveAt returns, element by element.
LEMMA RemoveAtIs ==
    ASSUME NEW s \in Seq(Content), NEW i \in 1..Len(s)
    PROVE  /\ RemoveAt(s, i) \in Seq(Content)
           /\ Len(RemoveAt(s, i)) = Len(s) - 1
           /\ \A j \in 1..(i - 1) : RemoveAt(s, i)[j] = s[j]
           /\ \A j \in i..(Len(s) - 1) : RemoveAt(s, i)[j] = s[j + 1]
<1> DEFINE p == SubSeq(s, 1, i - 1)
           q == SubSeq(s, i + 1, Len(s))
<1>1. p \in Seq(Content) /\ Len(p) = i - 1 /\ \A j \in 1..(i - 1) : p[j] = s[j]
  OBVIOUS
<1>2. q \in Seq(Content) /\ Len(q) = Len(s) - i /\ \A j \in 1..(Len(s) - i) : q[j] = s[i + j]
  OBVIOUS
<1> HIDE DEF p, q
<1>3. /\ p \o q \in Seq(Content)
      /\ Len(p \o q) = Len(s) - 1
      /\ \A j \in 1..(i - 1) : (p \o q)[j] = s[j]
      /\ \A j \in i..(Len(s) - 1) : (p \o q)[j] = q[j - i + 1]
  <2>1. /\ p \o q \in Seq(Content) /\ Len(p \o q) = Len(p) + Len(q)
        /\ \A j \in 1..(Len(p) + Len(q)) : (p \o q)[j] = IF j <= Len(p) THEN p[j] ELSE q[j - Len(p)]
    BY <1>1, <1>2, ConcatProperties
  <2>2. Len(p \o q) = Len(s) - 1
    BY <1>1, <1>2, <2>1
  <2>3. ASSUME NEW j \in 1..(i - 1) PROVE (p \o q)[j] = s[j]
    BY <1>1, <1>2, <2>1
  <2>4. ASSUME NEW j \in i..(Len(s) - 1) PROVE (p \o q)[j] = q[j - i + 1]
    <3>1. j - Len(p) = j - i + 1 /\ j \in 1..(Len(p) + Len(q)) /\ ~(j <= Len(p))
      BY <1>1, <1>2
    <3> QED
      BY <2>1, <3>1
  <2> QED
    BY <2>1, <2>2, <2>3, <2>4
<1>4. ASSUME NEW j \in i..(Len(s) - 1) PROVE (p \o q)[j] = s[j + 1]
  <2>1. PICK k \in 1..(Len(s) - i) : k = j - i + 1
    OBVIOUS
  <2>2. (p \o q)[j] = q[k]
    BY <1>3, <2>1
  <2>3. q[k] = s[i + k] /\ i + k = j + 1
    BY <1>2, <2>1
  <2> QED
    BY <2>2, <2>3
<1> QED
  BY <1>3, <1>4 DEF RemoveAt, p, q

\* What ReplaceAt returns, element by element.
LEMMA ReplaceAtIs ==
    ASSUME NEW s \in Seq(Content), NEW i \in 1..Len(s), NEW e \in Content
    PROVE  /\ ReplaceAt(s, i, e) \in Seq(Content)
           /\ Len(ReplaceAt(s, i, e)) = Len(s)
           /\ ReplaceAt(s, i, e)[i] = e
           /\ \A j \in 1..Len(s) : j # i => ReplaceAt(s, i, e)[j] = s[j]
BY DEF ReplaceAt

\* An old row is a row of the initial sheet, and no run's row is one.
LEMMA OldRow ==
    /\ \A o \in Old : \E a \in 1..Len(Initial) : o = Initial[a]
    /\ \A a \in 1..Len(Initial) : Initial[a] \in Old
    /\ \A e \in Rows : e \in Content /\ e \notin Old
BY SheetAssumption DEF Old, Range, Content

------------------------------------------------------------------------------
(* What a write does to the old rows, and to the rows below the heading *)

\* Fewer debtors need fewer fresh rows.
LEMMA FreshLess ==
    ASSUME NEW s, NEW d \in Nat, NEW n \in Nat, n <= d, Len(s) \in Nat, Fresh(s, d)
    PROVE  Fresh(s, n)
BY DEF Fresh

\* Where an element of a sequence with one more element at p + 1 comes from.
LEMMA ShiftBack ==
    ASSUME NEW s \in Seq(Content), NEW t \in Seq(Content), NEW p \in 1..Len(s),
           Len(t) = Len(s) + 1,
           \A j \in 1..p : t[j] = s[j],
           \A j \in (p + 1)..Len(s) : t[j + 1] = s[j],
           NEW i \in 1..Len(t), i # p + 1
    PROVE  \E k \in 1..Len(s) : t[i] = s[k] /\ k = IF i <= p THEN i ELSE i - 1
<1>1. CASE i <= p
  BY <1>1
<1>2. CASE i > p + 1
  <2>1. i - 1 \in (p + 1)..Len(s) /\ i - 1 \in 1..Len(s) /\ (i - 1) + 1 = i /\ ~(i <= p)
    BY <1>2
  <2>2. t[i] = s[i - 1]
    BY <2>1
  <2> QED
    BY <2>1, <2>2
<1> QED
  BY <1>1, <1>2

\* An inserted row disturbs no old row.
LEMMA InsertKeeps ==
    ASSUME NEW s \in Seq(Content), NEW p \in 1..Len(s), NEW e \in Rows, NEW gone, NEW d \in Nat,
           Kept(s, gone), Fresh(s, d)
    PROVE  /\ InsertAt(s, p + 1, e) \in Seq(Content)
           /\ Kept(InsertAt(s, p + 1, e), gone)
           /\ Fresh(InsertAt(s, p + 1, e), d)
           /\ p = 1 => Fresh(InsertAt(s, p + 1, e), d + 1)
<1> DEFINE t == InsertAt(s, p + 1, e)
<1>1. e \in Content /\ e \notin Old /\ p + 1 \in 1..(Len(s) + 1)
  BY OldRow
<1>2. /\ t \in Seq(Content)
      /\ Len(t) = Len(s) + 1
      /\ \A j \in 1..p : t[j] = s[j]
      /\ t[p + 1] = e
      /\ \A j \in (p + 1)..Len(s) : t[j + 1] = s[j]
  <2>1. PICK k \in 1..(Len(s) + 1) : k = p + 1 /\ k - 1 = p
    BY <1>1
  <2>2. /\ InsertAt(s, k, e) \in Seq(Content)
        /\ Len(InsertAt(s, k, e)) = Len(s) + 1
        /\ \A j \in 1..(k - 1) : InsertAt(s, k, e)[j] = s[j]
        /\ InsertAt(s, k, e)[k] = e
        /\ \A j \in k..Len(s) : InsertAt(s, k, e)[j + 1] = s[j]
    BY <1>1, InsertAtIs
  <2> QED
    BY <2>1, <2>2
<1> HIDE DEF t
<1>3. Kept(t, gone)
  <2>1. ASSUME NEW o \in Old \ gone PROVE \E i \in 1..Len(t) : t[i] = o
    <3>1. PICK i \in 1..Len(s) : s[i] = o
      BY DEF Kept
    <3>2. CASE i < p + 1
      BY <1>2, <3>1, <3>2
    <3>3. CASE i >= p + 1
      <4>1. i + 1 \in 1..Len(t) /\ t[i + 1] = s[i]
        BY <1>2, <3>3
      <4> QED
        BY <3>1, <4>1
    <3> QED
      BY <3>2, <3>3
  <2>2. ASSUME NEW i \in 1..Len(t), NEW j \in 1..Len(t),
               NEW a \in 1..Len(Initial), NEW b \in 1..Len(Initial),
               i < j, t[i] = Initial[a], t[j] = Initial[b]
        PROVE  a < b
    <3>1. i # p + 1 /\ j # p + 1
      BY <1>1, <1>2, <2>2, OldRow
    <3>2. PICK k \in 1..Len(s) : t[i] = s[k] /\ k = IF i <= p THEN i ELSE i - 1
      BY <1>2, <3>1, ShiftBack
    <3>3. PICK l \in 1..Len(s) : t[j] = s[l] /\ l = IF j <= p THEN j ELSE j - 1
      BY <1>2, <3>1, ShiftBack
    <3>4. k < l
      BY <2>2, <3>1, <3>2, <3>3
    <3>5. s[k] = Initial[a] /\ s[l] = Initial[b]
      BY <2>2, <3>2, <3>3
    <3> QED
      BY <3>4, <3>5 DEF Kept
  <2> QED
    BY <2>1, <2>2 DEF Kept
<1>4. Fresh(t, d)
  <2>1. ASSUME NEW i \in 2..(1 + d) PROVE t[i] \notin Old
    <3>1. CASE i = p + 1
      BY <1>1, <1>2, <3>1
    <3>2. CASE i # p + 1
      <4>1. i \in 1..Len(t)
        BY <1>2 DEF Fresh
      <4>2. PICK k \in 1..Len(s) : t[i] = s[k] /\ k = IF i <= p THEN i ELSE i - 1
        BY <1>2, <3>2, <4>1, ShiftBack
      <4>3. k \in 2..(1 + d)
        BY <3>2, <4>2
      <4> QED
        BY <4>2, <4>3 DEF Fresh
    <3> QED
      BY <3>1, <3>2
  <2> QED
    BY <1>2, <2>1 DEF Fresh
<1>5. ASSUME p = 1 PROVE Fresh(t, d + 1)
  <2>1. ASSUME NEW i \in 2..(1 + (d + 1)) PROVE t[i] \notin Old
    <3>1. CASE i = 2
      BY <1>1, <1>2, <1>5, <3>1
    <3>2. CASE i > 2
      <4>1. PICK k \in 2..(1 + d) : k + 1 = i
        BY <3>2
      <4>2. k \in (p + 1)..Len(s)
        BY <1>5 DEF Fresh
      <4> QED
        BY <1>2, <4>1, <4>2 DEF Fresh
    <3> QED
      BY <3>1, <3>2
  <2> QED
    BY <1>2, <2>1 DEF Fresh
<1> QED
  BY <1>2, <1>3, <1>4, <1>5 DEF t

\* Deleting row 2 disturbs no old row, as long as there is a fresh one.
LEMMA RemoveKeeps ==
    ASSUME NEW s \in Seq(Content), NEW gone, NEW d \in Nat \ {0}, Kept(s, gone), Fresh(s, d)
    PROVE  /\ RemoveAt(s, 2) \in Seq(Content)
           /\ Kept(RemoveAt(s, 2), gone)
           /\ Fresh(RemoveAt(s, 2), d - 1)
<1> DEFINE t == RemoveAt(s, 2)
<1>1. 2 \in 1..Len(s) /\ s[2] \notin Old
  BY DEF Fresh
<1>2. /\ t \in Seq(Content)
      /\ Len(t) = Len(s) - 1
      /\ t[1] = s[1]
      /\ \A j \in 2..(Len(s) - 1) : t[j] = s[j + 1]
  BY <1>1, RemoveAtIs
<1> HIDE DEF t
<1>3. Kept(t, gone)
  <2>1. ASSUME NEW o \in Old \ gone PROVE \E i \in 1..Len(t) : t[i] = o
    <3>1. PICK i \in 1..Len(s) : s[i] = o
      BY DEF Kept
    <3>2. CASE i = 1
      BY <1>1, <1>2, <3>1, <3>2
    <3>3. CASE i > 2
      <4>1. i - 1 \in 1..Len(t) /\ t[i - 1] = s[i]
        BY <1>2, <3>3
      <4> QED
        BY <3>1, <4>1
    <3> QED
      BY <1>1, <3>1, <3>2, <3>3
  <2>2. ASSUME NEW i \in 1..Len(t), NEW j \in 1..Len(t),
               NEW a \in 1..Len(Initial), NEW b \in 1..Len(Initial),
               i < j, t[i] = Initial[a], t[j] = Initial[b]
        PROVE  a < b
    <3>1. j \in 2..(Len(s) - 1) /\ j + 1 \in 1..Len(s)
      BY <1>2, <2>2
    <3>2. t[j] = s[j + 1] /\ s[j + 1] = Initial[b]
      BY <1>2, <2>2, <3>1
    <3>3. PICK k \in 1..Len(s) : k < j + 1 /\ t[i] = s[k]
      <4>1. CASE i = 1
        BY <1>2, <3>1, <4>1
      <4>2. CASE i > 1
        <5>1. i \in 2..(Len(s) - 1) /\ i + 1 \in 1..Len(s) /\ i + 1 < j + 1
          BY <1>2, <2>2, <4>2
        <5>2. t[i] = s[i + 1]
          BY <1>2, <5>1
        <5> QED
          BY <5>1, <5>2
      <4> QED
        BY <4>1, <4>2
    <3>4. s[k] = Initial[a]
      BY <2>2, <3>3
    <3> QED
      BY <3>1, <3>2, <3>3, <3>4 DEF Kept
  <2> QED
    BY <2>1, <2>2 DEF Kept
<1>4. Fresh(t, d - 1)
  BY <1>1, <1>2 DEF Fresh
<1> QED
  BY <1>2, <1>3, <1>4 DEF t

\* Overwriting a row loses at most that row.
LEMMA ReplaceKeeps ==
    ASSUME NEW s \in Seq(Content), NEW n \in 1..Len(s), NEW e \in Rows, NEW gone, NEW lostNow,
           NEW d \in Nat, Kept(s, gone), Fresh(s, d),
           gone \subseteq lostNow, s[n] \in Old => s[n] \in lostNow
    PROVE  /\ ReplaceAt(s, n, e) \in Seq(Content)
           /\ Kept(ReplaceAt(s, n, e), lostNow)
           /\ Fresh(ReplaceAt(s, n, e), d)
<1> DEFINE t == ReplaceAt(s, n, e)
<1>1. e \in Content /\ e \notin Old
  BY OldRow
<1>2. /\ t \in Seq(Content)
      /\ Len(t) = Len(s)
      /\ t[n] = e
      /\ \A j \in 1..Len(s) : j # n => t[j] = s[j]
  BY <1>1, ReplaceAtIs
<1> HIDE DEF t
<1>3. Kept(t, lostNow)
  <2>1. ASSUME NEW o \in Old \ lostNow PROVE \E i \in 1..Len(t) : t[i] = o
    <3>1. PICK i \in 1..Len(s) : s[i] = o
      BY DEF Kept
    <3> QED
      BY <1>2, <3>1
  <2>2. ASSUME NEW i \in 1..Len(t), NEW j \in 1..Len(t),
               NEW a \in 1..Len(Initial), NEW b \in 1..Len(Initial),
               i < j, t[i] = Initial[a], t[j] = Initial[b]
        PROVE  a < b
    <3>1. i # n /\ j # n
      BY <1>1, <1>2, <2>2, OldRow
    <3> QED
      BY <1>2, <2>2, <3>1 DEF Kept
  <2> QED
    BY <2>1, <2>2 DEF Kept
<1>4. Fresh(t, d)
  BY <1>1, <1>2 DEF Fresh
<1> QED
  BY <1>2, <1>3, <1>4 DEF t

------------------------------------------------------------------------------
(* The steps *)

\* The debtors are finitely many.
LEMMA DebtFinite == IsFiniteSet(Debtors) /\ Cardinality(Debtors) \in Nat
BY RunAssumption, FS_Subset, FS_CardinalityType DEF Debtors

\* A write that is applied keeps the old rows, and changes the fresh rows by
\* one when it is an insert or a delete.
LEMMA AppliedKeeps ==
    ASSUME IInv, NEW r \in Run, NEW c \in Writes, Applied(c, r), c = "undo" => r \in Debtors
    PROVE  /\ rows' \in Seq(Content)
           /\ lost' \subseteq Content
           /\ Kept(rows', lost')
           /\ c \in Writes \ {"insert", "undo"} => Fresh(rows', Cardinality(Debtors))
           /\ c = "insert" => Fresh(rows', Cardinality(Debtors) + 1)
           /\ c = "undo" => Fresh(rows', Cardinality(Debtors) - 1)
<1> DEFINE d == Cardinality(Debtors)
<1>1. d \in Nat
  BY DebtFinite
<1>2. rows \in Seq(Content) /\ lost \subseteq Content /\ Kept(rows, lost) /\ Fresh(rows, d)
  BY DEF IInv, TypeOK, DebtInv, OldRowsKept, Kept
<1>3. RowOf(r) \in Rows /\ BlankOf(r) \in Rows
  BY DEF RowOf, BlankOf, Rows
<1>4. r \in Debtors => d # 0
  BY DebtFinite, FS_EmptySet
<1>5. Len(rows) \in Nat \ {0} /\ 1 \in 1..Len(rows)
  BY <1>1, <1>2 DEF Fresh
<1> HIDE DEF d
<1>6. CASE c = "insert" /\ InsertBlank(r)
  <2>1. rows' = InsertAt(rows, 1 + 1, BlankOf(r)) /\ lost' = lost
    BY <1>6 DEF InsertBlank
  <2>2. Kept(rows', lost') /\ rows' \in Seq(Content) /\ Fresh(rows', d + 1)
    BY <1>1, <1>2, <1>3, <1>5, <2>1, InsertKeeps
  <2> QED
    BY <1>2, <1>6, <2>1, <2>2 DEF d
<1>7. CASE c = "put" /\ PutSecond(r)
  <2>1. 2 \in 1..Len(rows) /\ rows' = ReplaceAt(rows, 2, RowOf(r)) /\ rows[2] \in Content
    BY <1>2, <1>7 DEF PutSecond, WriteRow
  <2>2. lost \subseteq lost' /\ lost' \subseteq Content
    BY <1>2, <1>7, <2>1 DEF PutSecond
  <2>3. rows[2] \in Old => rows[2] \in lost'
    <3>1. CASE r \in Owing
      <4>1. d >= 1
        BY <1>1, <1>4, <3>1 DEF Owing, Debtors
      <4> QED
        BY <1>1, <1>2, <4>1 DEF Fresh
    <3>2. CASE r \notin Owing
      BY <1>7, <3>2 DEF PutSecond
    <3> QED
      BY <3>1, <3>2
  <2>4. Kept(rows', lost') /\ rows' \in Seq(Content) /\ Fresh(rows', d)
    BY <1>1, <1>2, <1>3, <2>1, <2>2, <2>3, ReplaceKeeps
  <2> QED
    BY <1>7, <2>2, <2>4 DEF d
<1>8. CASE c = "undo" /\ DeleteSecond(r)
  <2>1. rows' = RemoveAt(rows, 2) /\ lost' = lost /\ d \in Nat \ {0}
    BY <1>1, <1>4, <1>8 DEF DeleteSecond
  <2>2. Kept(rows', lost') /\ rows' \in Seq(Content) /\ Fresh(rows', d - 1)
    BY <1>2, <2>1, RemoveKeeps
  <2> QED
    BY <1>2, <1>8, <2>1, <2>2 DEF d
<1>9. CASE c = "append" /\ AppendToTable(r)
  <2>1. PICK p \in 1..Len(rows) : rows' = InsertAt(rows, p + 1, RowOf(r))
    BY <1>9 DEF AppendToTable, TableEnds
  <2>2. lost' = lost
    BY <1>9 DEF AppendToTable
  <2>3. Kept(rows', lost') /\ rows' \in Seq(Content) /\ Fresh(rows', d)
    BY <1>1, <1>2, <1>3, <2>1, <2>2, InsertKeeps
  <2> QED
    BY <1>2, <1>9, <2>2, <2>3 DEF d
<1>10. CASE c = "update" /\ PutNumbered(r)
  <2>1. PICK n \in 1..Len(rows) : rows' = ReplaceAt(rows, n, RowOf(r)) /\ lost' = lost \cup {rows[n]}
    BY <1>10 DEF PutNumbered, WriteRow
  <2>2. lost \subseteq lost' /\ lost' \subseteq Content /\ rows[n] \in lost'
    BY <1>2, <2>1
  <2>3. Kept(rows', lost') /\ rows' \in Seq(Content) /\ Fresh(rows', d)
    BY <1>1, <1>2, <1>3, <2>1, <2>2, ReplaceKeeps
  <2> QED
    BY <1>10, <2>2, <2>3 DEF d
<1> QED
  BY <1>6, <1>7, <1>8, <1>9, <1>10 DEF Applied

\* Fewer debtors, and unchanged rows: the invariant's second half stays.
LEMMA LessDebt ==
    ASSUME IInv, Debtors' \subseteq Debtors, UNCHANGED <<rows, lost>>
    PROVE  Fresh(rows', Cardinality(Debtors')) /\ Kept(rows', lost')
<1>1. Cardinality(Debtors') \in Nat /\ Cardinality(Debtors') <= Cardinality(Debtors)
  BY DebtFinite, FS_Subset, FS_CardinalityType
<1>2. Len(rows) \in Nat
  BY DEF IInv, TypeOK
<1>3. Fresh(rows, Cardinality(Debtors'))
  BY <1>1, <1>2, DebtFinite, FreshLess DEF IInv, DebtInv
<1> QED
  BY <1>3 DEF IInv, OldRowsKept, Kept, Fresh

\* An applied write that is no insert and no delete, with no more debtors than before.
LEMMA WrittenDebt ==
    ASSUME IInv, NEW r \in Run, NEW c \in Writes \ {"insert", "undo"}, Applied(c, r),
           Debtors' \subseteq Debtors
    PROVE  Fresh(rows', Cardinality(Debtors')) /\ Kept(rows', lost')
<1>1. Cardinality(Debtors') \in Nat /\ Cardinality(Debtors') <= Cardinality(Debtors)
  BY DebtFinite, FS_Subset, FS_CardinalityType
<1>2. Fresh(rows', Cardinality(Debtors)) /\ Kept(rows', lost') /\ rows' \in Seq(Content)
  BY AppliedKeeps
<1> QED
  BY <1>1, <1>2, DebtFinite, FreshLess

\* A delete that is applied, with one debtor less.
LEMMA DeletedDebt ==
    ASSUME IInv, NEW r \in Run, r \in Debtors, Applied("undo", r), Debtors' = Debtors \ {r}
    PROVE  Fresh(rows', Cardinality(Debtors')) /\ Kept(rows', lost')
<1>1. Cardinality(Debtors') = Cardinality(Debtors) - 1
  BY DebtFinite, FS_RemoveElement
<1>2. "undo" \in Writes
  BY DEF Writes
<1> QED
  BY <1>1, <1>2, AppliedKeeps

\* An insert that is applied, with at most one debtor more.
LEMMA InsertedDebt ==
    ASSUME IInv, NEW r \in Run, Applied("insert", r), Debtors' \in {Debtors, Debtors \cup {r}}
    PROVE  Fresh(rows', Cardinality(Debtors')) /\ Kept(rows', lost')
<1>1. /\ Cardinality(Debtors') \in Nat
      /\ Cardinality(Debtors') <= Cardinality(Debtors) + 1
  BY DebtFinite, FS_AddElement
<1>2. "insert" \in Writes
  BY DEF Writes
<1>3. Fresh(rows', Cardinality(Debtors) + 1) /\ Kept(rows', lost') /\ rows' \in Seq(Content)
  BY <1>2, AppliedKeeps
<1> QED
  BY <1>1, <1>3, DebtFinite, FreshLess

\* The old rows are kept by every step.
LEMMA KeepStep == IInv /\ [Next]_vars => DebtInv' /\ OldRowsKept'
<1> SUFFICES ASSUME IInv, [Next]_vars
             PROVE  Fresh(rows', Cardinality(Debtors')) /\ Kept(rows', lost')
  BY DEF DebtInv, OldRowsKept, Kept, Fresh
<1>1. ASSUME NEW r \in Run, Start(r) \/ Open(r) \/ LookUp(r) \/ Refuse(r)
      PROVE  Debtors' \subseteq Debtors /\ UNCHANGED <<rows, lost>>
  <2>1. /\ UNCHANGED <<rows, late, lost>>
        /\ pc'[r] \notin {"put", "undo"}
        /\ \A q \in Run \ {r} : pc'[q] = pc[q]
    <3>1. CASE Start(r)
      BY <3>1 DEF Start, Goto, IInv, TypeOK
    <3>2. CASE Open(r)
      <4>1. job[r] \notin {"put", "undo"}
        BY SheetAssumption DEF IInv, TypeOK
      <4> QED
        BY <3>2, <4>1 DEF Open, Goto, IInv, TypeOK
    <3>3. CASE LookUp(r)
      BY <3>3 DEF LookUp, Goto, Return, IInv, TypeOK
    <3>4. CASE Refuse(r)
      BY <3>4 DEF Refuse, Return, IInv, TypeOK
    <3> QED
      BY <1>1, <3>1, <3>2, <3>3, <3>4
  <2> QED
    BY <2>1 DEF Debtors, IInv, TypeOK
<1>2. ASSUME NEW r \in Run, InsertRow(r) PROVE Fresh(rows', Cardinality(Debtors')) /\ Kept(rows', lost')
  <2>1. CASE Answered(r) /\ Goto(r, "put")
    <3>1. Debtors' = Debtors \cup {r}
      BY <1>2, <2>1 DEF InsertRow, Answered, Goto, Debtors, IInv, TypeOK
    <3> QED
      BY <1>2, <2>1, <3>1, InsertedDebt DEF InsertRow, Answered
  <2>2. CASE Failed(r) /\ Return(r, "error")
    <3>1. Debtors' \subseteq Debtors
      BY <1>2, <2>2 DEF InsertRow, Failed, Return, Debtors, IInv, TypeOK
    <3> QED
      BY <2>2, <3>1, LessDebt DEF Failed
  <2> QED
    BY <1>2, <2>1, <2>2 DEF InsertRow
<1>3. ASSUME NEW r \in Run, PutRow(r) PROVE Fresh(rows', Cardinality(Debtors')) /\ Kept(rows', lost')
  <2>1. CASE Answered(r) /\ Return(r, "success")
    <3>1. Debtors' \subseteq Debtors
      BY <1>3, <2>1 DEF PutRow, Answered, Return, Debtors, IInv, TypeOK
    <3>2. Applied("put", r) /\ "put" \in Writes \ {"insert", "undo"}
      BY <1>3, <2>1 DEF PutRow, Answered, Writes
    <3> QED
      BY <3>1, <3>2, WrittenDebt
  <2>2. CASE Failed(r) /\ Goto(r, "undo")
    <3>1. Debtors' \subseteq Debtors
      BY <1>3, <2>2 DEF PutRow, Failed, Goto, Debtors, IInv, TypeOK
    <3> QED
      BY <2>2, <3>1, LessDebt DEF Failed
  <2> QED
    BY <1>3, <2>1, <2>2 DEF PutRow
<1>4. ASSUME NEW r \in Run, UndoInsert(r) PROVE Fresh(rows', Cardinality(Debtors')) /\ Kept(rows', lost')
  <2>1. CASE Answered(r) /\ Return(r, "error")
    <3>1. Debtors' = Debtors \ {r} /\ r \in Debtors
      BY <1>4, <2>1 DEF UndoInsert, Answered, Return, Debtors, IInv, RunInv, TypeOK
    <3>2. Applied("undo", r)
      BY <1>4, <2>1 DEF UndoInsert, Answered
    <3> QED
      BY <3>1, <3>2, DeletedDebt
  <2>2. CASE Failed(r) /\ Return(r, "warned")
    <3>1. Debtors' \subseteq Debtors
      BY <1>4, <2>2 DEF UndoInsert, Failed, Return, Debtors, IInv, TypeOK
    <3> QED
      BY <2>2, <3>1, LessDebt DEF Failed
  <2> QED
    BY <1>4, <2>1, <2>2 DEF UndoInsert
<1>5. ASSUME NEW r \in Run, AppendRow(r) \/ UpdateRow(r)
      PROVE  Fresh(rows', Cardinality(Debtors')) /\ Kept(rows', lost')
  <2>1. CASE Answered(r) /\ Return(r, "success")
    <3>1. Debtors' \subseteq Debtors
      BY <1>5, <2>1 DEF AppendRow, UpdateRow, Answered, Return, Debtors, IInv, TypeOK
    <3>2. PICK c \in Writes \ {"insert", "undo"} : Applied(c, r)
      BY <1>5, <2>1 DEF AppendRow, UpdateRow, Answered, Writes
    <3> QED
      BY <3>1, <3>2, WrittenDebt
  <2>2. CASE Failed(r) /\ Return(r, "error")
    <3>1. Debtors' \subseteq Debtors
      BY <1>5, <2>2 DEF AppendRow, UpdateRow, Failed, Return, Debtors, IInv, TypeOK
    <3> QED
      BY <2>2, <3>1, LessDebt DEF Failed
  <2> QED
    BY <1>5, <2>1, <2>2 DEF AppendRow, UpdateRow
<1>6. ASSUME NEW r \in Run, TimeOut(r) PROVE Fresh(rows', Cardinality(Debtors')) /\ Kept(rows', lost')
  <2>1. Debtors' \subseteq Debtors
    BY <1>6 DEF TimeOut, Return, Debtors, IInv, TypeOK, Writes
  <2> QED
    BY <1>6, <2>1, LessDebt DEF TimeOut
<1>7. ASSUME NEW r \in Run, NEW c \in Writes, Arrive(c, r)
      PROVE  Fresh(rows', Cardinality(Debtors')) /\ Kept(rows', lost')
  <2>1. CASE c = "undo"
    <3>1. Debtors' = Debtors \ {r} /\ r \in Debtors
      BY <1>7, <2>1 DEF Arrive, Debtors, IInv, RunInv, TypeOK
    <3> QED
      BY <1>7, <2>1, <3>1, DeletedDebt DEF Arrive
  <2>2. CASE c # "undo"
    <3>1. Debtors' = Debtors
      BY <1>7, <2>2 DEF Arrive, Debtors, IInv, TypeOK
    <3>2. CASE c = "insert"
      BY <1>7, <3>1, <3>2, InsertedDebt DEF Arrive
    <3>3. CASE c # "insert"
      BY <1>7, <2>2, <3>1, <3>3, WrittenDebt DEF Arrive
    <3> QED
      BY <3>2, <3>3
  <2> QED
    BY <2>1, <2>2
<1>8. CASE UNCHANGED vars
  <2>1. Debtors' \subseteq Debtors /\ UNCHANGED <<rows, lost>>
    BY <1>8 DEF vars, Debtors
  <2> QED
    BY <2>1, LessDebt
<1> QED
  BY <1>1, <1>2, <1>3, <1>4, <1>5, <1>6, <1>7, <1>8, LessDebt DEF Next, Writing

\* Each step keeps the types.
LEMMA TypeStep == IInv /\ [Next]_vars => TypeOK'
<1> SUFFICES ASSUME IInv, [Next]_vars PROVE TypeOK'
  OBVIOUS
<1>1. ASSUME NEW r \in Run, NEW k \in {"success", "found", "error", "warned", "timeout"}, Return(r, k)
      PROVE  pc' \in [Run -> Places] /\ answer' \in [Run -> Answer]
  <2>1. [kind |-> k, at |-> pc[r]] \in Answer
    BY DEF IInv, TypeOK, Answer
  <2> QED
    BY <1>1, <2>1 DEF Return, IInv, TypeOK, Places
<1>2. ASSUME NEW r \in Run, NEW p \in Places, Goto(r, p)
      PROVE  pc' \in [Run -> Places] /\ answer' \in [Run -> Answer]
  BY <1>2 DEF Goto, IInv, TypeOK
<1>3. ASSUME NEW r \in Run, NEW c \in Writes, Applied(c, r), c = "undo" => r \in Debtors
      PROVE  rows' \in Seq(Content) /\ lost' \subseteq Content /\ mixed' \subseteq Run
  <2>1. mixed' \subseteq Run
    BY <1>3 DEF Applied, Owing, IInv, TypeOK
  <2> QED
    BY <1>3, <2>1, AppliedKeeps
<1>4. ASSUME NEW r \in Run, Start(r) PROVE TypeOK'
  <2>1. "open" \in Places
    BY DEF Places
  <2>2. PICK j \in Jobs : job' = [job EXCEPT ![r] = j]
    BY <1>4 DEF Start
  <2>3. PICK n \in 1..MaxNumber : number' = [number EXCEPT ![r] = IF job'[r] = "update" THEN n ELSE 0]
    BY <1>4 DEF Start
  <2>4. job' \in [Run -> Jobs \cup {"none"}]
    BY <2>2 DEF IInv, TypeOK
  <2>5. number' \in [Run -> Nat]
    BY <2>3, SheetAssumption DEF IInv, TypeOK
  <2> QED
    BY <1>2, <1>4, <2>1, <2>4, <2>5 DEF Start, IInv, TypeOK
<1>5. ASSUME NEW r \in Run, Open(r) PROVE TypeOK'
  <2>1. (IF job[r] = "top" THEN "insert" ELSE job[r]) \in Places
    BY <1>5, SheetAssumption DEF Open, IInv, RunInv, Places, Writes
  <2> QED
    BY <1>2, <1>5, <2>1 DEF Open, IInv, TypeOK
<1>6. ASSUME NEW r \in Run, LookUp(r) PROVE TypeOK'
  <2>1. "append" \in Places
    BY DEF Places, Writes
  <2> QED
    BY <1>1, <1>2, <1>6, <2>1 DEF LookUp, IInv, TypeOK
<1>7. ASSUME NEW r \in Run, Refuse(r) PROVE TypeOK'
  BY <1>1, <1>7 DEF Refuse, IInv, TypeOK
<1>8. ASSUME NEW r \in Run, Writing(r) PROVE TypeOK'
  <2>1. pc[r] \in Writes
    BY <1>8 DEF Writing, InsertRow, PutRow, UndoInsert, AppendRow, UpdateRow, Writes
  <2>2. pc' \in [Run -> Places] /\ answer' \in [Run -> Answer]
    <3>1. (\E k \in {"success", "error", "warned"} : Return(r, k)) \/ (\E p \in {"put", "undo"} : Goto(r, p))
      BY <1>8 DEF Writing, InsertRow, PutRow, UndoInsert, AppendRow, UpdateRow
    <3>2. {"put", "undo"} \subseteq Places
      BY DEF Places, Writes
    <3> QED
      BY <1>1, <1>2, <3>1, <3>2
  <2>3. CASE Answered(r)
    <3>1. pc[r] = "undo" => r \in Debtors
      BY DEF Debtors
    <3>2. rows' \in Seq(Content) /\ lost' \subseteq Content /\ mixed' \subseteq Run
      BY <1>3, <2>1, <2>3, <3>1 DEF Answered
    <3> QED
      BY <2>2, <2>3, <3>2 DEF Answered, IInv, TypeOK
  <2>4. CASE Failed(r)
    BY <2>1, <2>2, <2>4 DEF Failed, IInv, TypeOK
  <2> QED
    BY <1>8, <2>3, <2>4 DEF Writing, InsertRow, PutRow, UndoInsert, AppendRow, UpdateRow
<1>9. ASSUME NEW r \in Run, TimeOut(r) PROVE TypeOK'
  BY <1>1, <1>9 DEF TimeOut, IInv, TypeOK
<1>10. ASSUME NEW r \in Run, NEW c \in Writes, Arrive(c, r) PROVE TypeOK'
  <2>1. c = "undo" => r \in Debtors
    BY <1>10 DEF Arrive, Debtors
  <2> QED
    BY <1>3, <1>10, <2>1 DEF Arrive, IInv, TypeOK
<1>11. CASE UNCHANGED vars
  BY <1>11 DEF vars, IInv, TypeOK
<1> QED
  BY <1>4, <1>5, <1>6, <1>7, <1>8, <1>9, <1>10, <1>11 DEF Next

\* A rollback is left under way only by a run that returns.
LEMMA RunStep == IInv /\ [Next]_vars => RunInv'
<1> SUFFICES ASSUME IInv, [Next]_vars PROVE RunInv'
  OBVIOUS
<1> USE DEF IInv, TypeOK, RunInv
<1>1. ASSUME NEW r \in Run, Start(r) PROVE RunInv'
  BY <1>1 DEF Start, Goto
<1>2. ASSUME NEW r \in Run, Open(r) \/ LookUp(r) \/ Refuse(r) PROVE RunInv'
  <2>1. CASE Open(r)
    BY <2>1, SheetAssumption DEF Open, Goto
  <2>2. CASE LookUp(r)
    BY <2>2 DEF LookUp, Goto, Return
  <2>3. CASE Refuse(r)
    BY <2>3 DEF Refuse, Return
  <2> QED
    BY <1>2, <2>1, <2>2, <2>3
<1>3. ASSUME NEW r \in Run, Writing(r) \/ TimeOut(r) PROVE RunInv'
  <2>1. /\ UNCHANGED job
        /\ pc[r] # "done" /\ pc'[r] # "open"
        /\ pc[r] = "undo" => pc'[r] = "done"
        /\ \A q \in Run \ {r} : pc'[q] = pc[q]
    <3>1. CASE InsertRow(r)
      BY <3>1 DEF InsertRow, Answered, Failed, Goto, Return
    <3>2. CASE PutRow(r)
      BY <3>2 DEF PutRow, Answered, Failed, Goto, Return
    <3>3. CASE UndoInsert(r)
      BY <3>3 DEF UndoInsert, Answered, Failed, Return
    <3>4. CASE AppendRow(r)
      BY <3>4 DEF AppendRow, Answered, Failed, Return
    <3>5. CASE UpdateRow(r)
      BY <3>5 DEF UpdateRow, Answered, Failed, Return
    <3>6. CASE TimeOut(r)
      BY <3>6 DEF TimeOut, Return, Writes
    <3> QED
      BY <1>3, <3>1, <3>2, <3>3, <3>4, <3>5, <3>6 DEF Writing
  <2>2. late' \subseteq late \cup {<<pc[r], r>>}
    <3>1. CASE Writing(r)
      BY <3>1 DEF Writing, InsertRow, PutRow, UndoInsert, AppendRow, UpdateRow, Answered, Failed
    <3>2. CASE TimeOut(r)
      BY <3>2 DEF TimeOut
    <3> QED
      BY <1>3, <3>1, <3>2
  <2>3. ASSUME NEW q \in Run, <<"undo", q>> \in late' PROVE pc'[q] = "done"
    <3>1. CASE <<"undo", q>> \in late
      BY <2>1, <3>1
    <3>2. CASE q = r /\ pc[r] = "undo"
      BY <2>1, <3>2
    <3> QED
      BY <2>2, <2>3, <3>1, <3>2
  <2> QED
    BY <2>1, <2>3
<1>4. ASSUME NEW r \in Run, NEW c \in Writes, Arrive(c, r) PROVE RunInv'
  BY <1>4 DEF Arrive
<1>5. CASE UNCHANGED vars
  BY <1>5 DEF vars
<1> QED
  BY <1>1, <1>2, <1>3, <1>4, <1>5 DEF Next

------------------------------------------------------------------------------
(* The theorems *)

LEMMA InitIInv == Init => IInv
<1> SUFFICES ASSUME Init PROVE IInv
  OBVIOUS
<1>1. TypeOK /\ RunInv
  BY SheetAssumption DEF Init, TypeOK, RunInv, Content, Places, Answer
<1>2. Debtors = {}
  BY DEF Init, Debtors
<1>3. DebtInv
  BY <1>2, FS_EmptySet, SheetAssumption DEF Init, DebtInv, Fresh
<1>4. OldRowsKept
  <2>1. ASSUME NEW o \in Old \ lost PROVE \E i \in 1..Len(rows) : rows[i] = o
    BY OldRow DEF Init
  <2>2. ASSUME NEW i \in 1..Len(rows), NEW j \in 1..Len(rows),
               NEW a \in 1..Len(Initial), NEW b \in 1..Len(Initial),
               i < j, rows[i] = Initial[a], rows[j] = Initial[b]
        PROVE  a < b
    <3>1. i = a /\ j = b
      BY <2>2, SheetAssumption DEF Init
    <3> QED
      BY <2>2, <3>1
  <2> QED
    BY <2>1, <2>2 DEF OldRowsKept
<1> QED
  BY <1>1, <1>3, <1>4 DEF IInv

LEMMA StepIInv == IInv /\ [Next]_vars => IInv'
BY TypeStep, RunStep, KeepStep DEF IInv

LEMMA SpecIInv == Spec => []IInv
BY InitIInv, StepIInv, PTL DEF Spec

\* The state keeps its types, for any sheet, any runs and any answers of the API.
THEOREM TypeCorrect == Spec => []TypeOK
<1>1. IInv => TypeOK
  BY DEF IInv
<1> QED
  BY SpecIInv, <1>1, PTL

\* The rows that were in the sheet survive, in their order, any number of
\* concurrent runs and any failure of their calls, except those overwritten by
\* update_row or by a write of row 2 that the service had given up on.
THEOREM OldRowsSurvive == Spec => []OldRowsKept
<1>1. IInv => OldRowsKept
  BY DEF IInv
<1> QED
  BY SpecIInv, <1>1, PTL

------------------------------------------------------------------------------
(* What a run leaves                                                        *)
(*                                                                          *)
(* A run inserts at most one empty row and writes at most one: as long as a *)
(* write is to come (Inserts, Puts), what it brings is not in the sheet.    *)
(* A run of append_top that met no other write finds its own row at 2.      *)

\* The empty row, or the row, of a run may still come.
Inserts(r) == pc[r] \in {"idle", "open", "insert"} \/ <<"insert", r>> \in late

Puts(r) ==
    \/ pc[r] \in {"idle", "open", "insert", "put", "append", "update"}
    \/ \E c \in {"put", "append", "update"} : <<c, r>> \in late

\* The calls of each tool, and those of them that were given up on.
CallInv(r) ==
    /\ pc[r] \in {"insert", "put", "undo"} => job[r] = "top"
    /\ pc[r] = "append" => job[r] \in {"append", "find"}
    /\ pc[r] = "update" => job[r] = "update"
    /\ <<"insert", r>> \in late => job[r] = "top" /\ pc[r] = "done" /\ <<"put", r>> \notin late
    /\ <<"put", r>> \in late => job[r] = "top" /\ pc[r] \in {"undo", "done"}
    /\ <<"append", r>> \in late => job[r] \in {"append", "find"} /\ pc[r] = "done"
    /\ <<"update", r>> \in late => job[r] = "update" /\ pc[r] = "done"
    /\ pc[r] # "done" => answer[r].kind = "none"

\* What is to come is not there.
NewInv(r) ==
    /\ Inserts(r) => BlankOf(r) \notin Range(rows)
    /\ Puts(r) => RowOf(r) \notin Range(rows)

\* An append_top that met no other write has its empty row at 2.
TopInv(r) ==
    pc[r] \in {"put", "undo"} /\ r \notin mixed =>
        Len(rows) >= 2 /\ rows[2] = BlankOf(r) /\ RowOf(r) \notin Range(rows)

\* FailureIsUndone, of one run.
EndInv(r) ==
    answer[r].kind = "error" /\ answer[r].at \in {"put", "undo"} /\ r \notin mixed =>
        BlankOf(r) \notin Range(rows) /\ RowOf(r) \notin Range(rows)

LeftInv(r) == CallInv(r) /\ NewInv(r) /\ TopInv(r) /\ EndInv(r)

LInv == IInv /\ RowOnce /\ \A r \in Run : LeftInv(r)

\* No run's row is there twice.
Single(s) == \A i, j \in 1..Len(s) : s[i] \in Rows /\ s[j] = s[i] => i = j

\* The rows of runs are all different.
LEMMA RowsApart ==
    ASSUME NEW r \in Run
    PROVE  /\ BlankOf(r) \in Rows /\ RowOf(r) \in Rows /\ BlankOf(r) # RowOf(r)
           /\ \A u \in Run : u # r => {BlankOf(u), RowOf(u)} \cap {BlankOf(r), RowOf(r)} = {}
BY DEF BlankOf, RowOf, Rows

\* The elements of a sequence of rows.
LEMMA RangeIs ==
    ASSUME NEW s \in Seq(Content)
    PROVE  /\ \A i \in 1..Len(s) : s[i] \in Range(s)
           /\ \A e \in Range(s) : \E i \in 1..Len(s) : s[i] = e
BY DEF Range

\* A row that is inserted where it was not.
LEMMA InsertSingle ==
    ASSUME NEW s \in Seq(Content), NEW p \in 1..Len(s), NEW e \in Rows, e \notin Range(s), Single(s)
    PROVE  /\ Single(InsertAt(s, p + 1, e))
           /\ Range(InsertAt(s, p + 1, e)) \subseteq Range(s) \cup {e}
           /\ Len(InsertAt(s, p + 1, e)) = Len(s) + 1 /\ InsertAt(s, p + 1, e)[p + 1] = e
<1> DEFINE t == InsertAt(s, p + 1, e)
<1>1. e \in Content /\ p + 1 \in 1..(Len(s) + 1)
  BY OldRow
<1>2. /\ t \in Seq(Content)
      /\ Len(t) = Len(s) + 1
      /\ \A j \in 1..p : t[j] = s[j]
      /\ t[p + 1] = e
      /\ \A j \in (p + 1)..Len(s) : t[j + 1] = s[j]
  <2>1. PICK k \in 1..(Len(s) + 1) : k = p + 1 /\ k - 1 = p
    BY <1>1
  <2>2. /\ InsertAt(s, k, e) \in Seq(Content)
        /\ Len(InsertAt(s, k, e)) = Len(s) + 1
        /\ \A j \in 1..(k - 1) : InsertAt(s, k, e)[j] = s[j]
        /\ InsertAt(s, k, e)[k] = e
        /\ \A j \in k..Len(s) : InsertAt(s, k, e)[j + 1] = s[j]
    BY <1>1, InsertAtIs
  <2> QED
    BY <2>1, <2>2
<1> HIDE DEF t
<1>3. \A i \in 1..Len(t) : i # p + 1 => \E k \in 1..Len(s) : t[i] = s[k] /\ k = IF i <= p THEN i ELSE i - 1
  BY <1>2, ShiftBack
<1>4. Range(t) \subseteq Range(s) \cup {e}
  <2> SUFFICES ASSUME NEW x \in Range(t), x # e PROVE x \in Range(s)
    OBVIOUS
  <2>1. PICK i \in 1..Len(t) : t[i] = x
    BY <1>2, RangeIs
  <2>2. PICK k \in 1..Len(s) : t[i] = s[k]
    BY <1>2, <1>3, <2>1
  <2> QED
    BY <2>1, <2>2, RangeIs
<1>5. Single(t)
  <2> SUFFICES ASSUME NEW i \in 1..Len(t), NEW j \in 1..Len(t), t[i] \in Rows, t[j] = t[i] PROVE i = j
    BY DEF Single
  <2>1. \A k \in 1..Len(s) : s[k] # e
    BY RangeIs
  <2>2. CASE i = p + 1 \/ j = p + 1
    BY <1>2, <1>3, <2>1, <2>2
  <2>3. CASE i # p + 1 /\ j # p + 1
    <3>1. PICK k \in 1..Len(s) : t[i] = s[k] /\ k = IF i <= p THEN i ELSE i - 1
      BY <1>3, <2>3
    <3>2. PICK l \in 1..Len(s) : t[j] = s[l] /\ l = IF j <= p THEN j ELSE j - 1
      BY <1>3, <2>3
    <3>3. k = l
      BY <3>1, <3>2 DEF Single
    <3> QED
      BY <1>2, <2>3, <3>1, <3>2, <3>3
  <2> QED
    BY <2>2, <2>3
<1> QED
  BY <1>2, <1>4, <1>5 DEF t

\* A row that is deleted is gone, if it is some run's.
LEMMA RemoveSingle ==
    ASSUME NEW s \in Seq(Content), NEW n \in 1..Len(s), Single(s)
    PROVE  /\ Single(RemoveAt(s, n))
           /\ Range(RemoveAt(s, n)) \subseteq Range(s)
           /\ s[n] \in Rows => s[n] \notin Range(RemoveAt(s, n))
<1> DEFINE t == RemoveAt(s, n)
<1>1. /\ t \in Seq(Content)
      /\ Len(t) = Len(s) - 1
      /\ \A j \in 1..(n - 1) : t[j] = s[j]
      /\ \A j \in n..(Len(s) - 1) : t[j] = s[j + 1]
  BY RemoveAtIs
<1> HIDE DEF t
<1>2. \A i \in 1..Len(t) : \E k \in 1..Len(s) : k # n /\ t[i] = s[k] /\ k = IF i < n THEN i ELSE i + 1
  BY <1>1
<1>3. Single(t)
  <2> SUFFICES ASSUME NEW i \in 1..Len(t), NEW j \in 1..Len(t), t[i] \in Rows, t[j] = t[i] PROVE i = j
    BY DEF Single
  <2>1. PICK k \in 1..Len(s) : t[i] = s[k] /\ k = IF i < n THEN i ELSE i + 1
    BY <1>2
  <2>2. PICK l \in 1..Len(s) : t[j] = s[l] /\ l = IF j < n THEN j ELSE j + 1
    BY <1>2
  <2>3. k = l
    BY <2>1, <2>2 DEF Single
  <2> QED
    BY <1>1, <2>1, <2>2, <2>3
<1>4. ASSUME NEW e \in Range(t) PROVE e \in Range(s) /\ (s[n] \in Rows => e # s[n])
  <2>1. PICK i \in 1..Len(t) : t[i] = e
    BY <1>1, RangeIs
  <2>2. PICK k \in 1..Len(s) : k # n /\ e = s[k]
    BY <1>2, <2>1
  <2> QED
    BY <2>2, RangeIs DEF Single
<1> QED
  BY <1>3, <1>4 DEF t

\* A row that overwrites another and was not there.
LEMMA ReplaceSingle ==
    ASSUME NEW s \in Seq(Content), NEW n \in 1..Len(s), NEW e \in Rows, e \notin Range(s), Single(s)
    PROVE  /\ Single(ReplaceAt(s, n, e))
           /\ Range(ReplaceAt(s, n, e)) \subseteq Range(s) \cup {e}
<1> DEFINE t == ReplaceAt(s, n, e)
<1>1. /\ t \in Seq(Content)
      /\ Len(t) = Len(s)
      /\ t[n] = e
      /\ \A j \in 1..Len(s) : j # n => t[j] = s[j]
  BY OldRow, ReplaceAtIs
<1> HIDE DEF t
<1>2. \A k \in 1..Len(s) : s[k] # e
  BY RangeIs
<1>3. Single(t)
  BY <1>1, <1>2 DEF Single
<1>4. ASSUME NEW x \in Range(t) PROVE x \in Range(s) \cup {e}
  <2>1. PICK i \in 1..Len(t) : t[i] = x
    BY <1>1, RangeIs
  <2> QED
    BY <1>1, <2>1, RangeIs
<1> QED
  BY <1>3, <1>4 DEF t

\* What a write adds to the sheet.
Brings(c, r) ==
    IF c = "insert" THEN {BlankOf(r)} ELSE IF c = "undo" THEN {} ELSE {RowOf(r)}

\* What a write does to the rows of the runs.
LEMMA AppliedLeaves ==
    ASSUME IInv, RowOnce, NEW r \in Run, NEW c \in Writes, Applied(c, r),
           c = "undo" => r \in Debtors, Brings(c, r) \cap Range(rows) = {}
    PROVE  /\ Single(rows')
           /\ Range(rows') \subseteq Range(rows) \cup Brings(c, r)
           /\ c = "insert" => Len(rows') >= 2 /\ rows'[2] = BlankOf(r)
           /\ c = "undo" /\ rows[2] = BlankOf(r) => BlankOf(r) \notin Range(rows')
           /\ mixed' = mixed \cup (Owing \ {r}) \cup (IF pc[r] = c THEN {} ELSE {r})
<1>1. rows \in Seq(Content) /\ Single(rows)
  BY DEF IInv, TypeOK, RowOnce, Single
<1>2. 1 \in 1..Len(rows)
  BY <1>1, DebtFinite DEF IInv, DebtInv, Fresh
<1>3. RowOf(r) \in Rows /\ BlankOf(r) \in Rows
  BY RowsApart
<1>4. mixed' = mixed \cup (Owing \ {r}) \cup (IF pc[r] = c THEN {} ELSE {r})
  BY DEF Applied
<1>5. CASE c = "insert" /\ InsertBlank(r)
  <2>1. BlankOf(r) \notin Range(rows)
    BY <1>5 DEF Brings
  <2>2. rows' = InsertAt(rows, 1 + 1, BlankOf(r))
    BY <1>5 DEF InsertBlank
  <2>3. /\ Single(rows')
        /\ Range(rows') \subseteq Range(rows) \cup {BlankOf(r)}
        /\ Len(rows') = Len(rows) + 1 /\ rows'[1 + 1] = BlankOf(r)
    BY <1>1, <1>2, <1>3, <2>1, <2>2, InsertSingle
  <2>4. Len(rows') >= 2
    BY <1>1, <1>2, <2>3
  <2> QED
    BY <1>4, <1>5, <2>3, <2>4 DEF Brings
<1>6. CASE c = "put" /\ PutSecond(r)
  <2>1. RowOf(r) \notin Range(rows)
    BY <1>6 DEF Brings
  <2>2. 2 \in 1..Len(rows) /\ rows' = ReplaceAt(rows, 2, RowOf(r))
    BY <1>1, <1>6 DEF PutSecond, WriteRow
  <2>3. Single(rows') /\ Range(rows') \subseteq Range(rows) \cup {RowOf(r)}
    BY <1>1, <1>3, <2>1, <2>2, ReplaceSingle
  <2> QED
    BY <1>4, <1>6, <2>3 DEF Brings
<1>7. CASE c = "undo" /\ DeleteSecond(r)
  <2>1. 2 \in 1..Len(rows) /\ rows' = RemoveAt(rows, 2)
    BY <1>1, <1>7 DEF DeleteSecond
  <2>2. /\ Single(rows')
        /\ Range(rows') \subseteq Range(rows)
        /\ rows[2] \in Rows => rows[2] \notin Range(rows')
    BY <1>1, <2>1, RemoveSingle
  <2> QED
    BY <1>3, <1>4, <1>7, <2>2 DEF Brings
<1>8. CASE c = "append" /\ AppendToTable(r)
  <2>1. RowOf(r) \notin Range(rows)
    BY <1>8 DEF Brings
  <2>2. PICK q \in 1..Len(rows) : rows' = InsertAt(rows, q + 1, RowOf(r))
    BY <1>8 DEF AppendToTable, TableEnds
  <2>3. Single(rows') /\ Range(rows') \subseteq Range(rows) \cup {RowOf(r)}
    BY <1>1, <1>3, <2>1, <2>2, InsertSingle
  <2> QED
    BY <1>4, <1>8, <2>3 DEF Brings
<1>9. CASE c = "update" /\ PutNumbered(r)
  <2>1. RowOf(r) \notin Range(rows)
    BY <1>9 DEF Brings
  <2>2. number[r] \in 1..Len(rows) /\ rows' = ReplaceAt(rows, number[r], RowOf(r))
    BY <1>9 DEF PutNumbered, WriteRow
  <2>3. Single(rows') /\ Range(rows') \subseteq Range(rows) \cup {RowOf(r)}
    BY <1>1, <1>3, <2>1, <2>2, ReplaceSingle
  <2> QED
    BY <1>4, <1>9, <2>3 DEF Brings
<1> QED
  BY <1>5, <1>6, <1>7, <1>8, <1>9 DEF Applied

\* RowOnce says that the sheet's rows are Single.
LEMMA OnceSingle == ASSUME Single(rows') PROVE RowOnce'
BY DEF RowOnce, Single

\* A write that a run waits for, or has given up on, brings what is not there.
LEMMA BringsNew ==
    ASSUME NEW r \in Run, LeftInv(r), NEW c \in Writes, pc[r] = c \/ <<c, r>> \in late
    PROVE  Brings(c, r) \cap Range(rows) = {}
BY DEF LeftInv, NewInv, Inserts, Puts, Brings, Writes

\* A run that does not step, while nothing is written.
LEMMA OtherQuiet ==
    ASSUME NEW u \in Run, LeftInv(u), UNCHANGED <<rows, mixed>>,
           pc'[u] = pc[u], job'[u] = job[u], answer'[u] = answer[u],
           \A c \in Writes : <<c, u>> \in late' <=> <<c, u>> \in late
    PROVE  LeftInv(u)'
<1>1. /\ CallInv(u)' <=> CallInv(u)
      /\ Inserts(u)' <=> Inserts(u)
      /\ Puts(u)' <=> Puts(u)
  BY DEF CallInv, Inserts, Puts, Writes
<1> QED
  BY <1>1 DEF LeftInv, NewInv, TopInv, EndInv

\* A run that does not step, while another writes.
LEMMA OtherWrites ==
    ASSUME NEW r \in Run, NEW u \in Run \ {r}, LeftInv(u), NEW c \in Writes,
           Range(rows') \subseteq Range(rows) \cup Brings(c, r),
           mixed \cup (Owing \ {r}) \subseteq mixed',
           pc'[u] = pc[u], job'[u] = job[u], answer'[u] = answer[u],
           \A d \in Writes : <<d, u>> \in late' <=> <<d, u>> \in late
    PROVE  LeftInv(u)'
<1>1. /\ CallInv(u)' <=> CallInv(u)
      /\ Inserts(u)' <=> Inserts(u)
      /\ Puts(u)' <=> Puts(u)
  BY DEF CallInv, Inserts, Puts, Writes
<1>2. BlankOf(u) \notin Brings(c, r) /\ RowOf(u) \notin Brings(c, r)
  BY RowsApart DEF Brings
<1>3. NewInv(u)'
  BY <1>1, <1>2 DEF LeftInv, NewInv
<1>4. TopInv(u)'
  BY DEF TopInv, Owing
<1>5. EndInv(u)'
  BY <1>2 DEF LeftInv, EndInv
<1> QED
  BY <1>1, <1>3, <1>4, <1>5 DEF LeftInv

\* The two outcomes of the call of a run.
Succeeds(r) ==
    /\ pc[r] \in Writes /\ Answered(r)
    /\ IF pc[r] = "insert" THEN Goto(r, "put")
         ELSE Return(r, IF pc[r] = "undo" THEN "error" ELSE "success")

Fails(r) ==
    /\ pc[r] \in Writes /\ Failed(r)
    /\ IF pc[r] = "put" THEN Goto(r, "undo")
         ELSE Return(r, IF pc[r] = "undo" THEN "warned" ELSE "error")

LEMMA CallEnds == ASSUME NEW r \in Run, Writing(r) PROVE Succeeds(r) \/ Fails(r)
<1>1. CASE InsertRow(r)
  BY <1>1 DEF InsertRow, Succeeds, Fails, Writes
<1>2. CASE PutRow(r)
  BY <1>2 DEF PutRow, Succeeds, Fails, Writes
<1>3. CASE UndoInsert(r)
  BY <1>3 DEF UndoInsert, Succeeds, Fails, Writes
<1>4. CASE AppendRow(r)
  BY <1>4 DEF AppendRow, Succeeds, Fails, Writes
<1>5. CASE UpdateRow(r)
  BY <1>5 DEF UpdateRow, Succeeds, Fails, Writes
<1> QED
  BY <1>1, <1>2, <1>3, <1>4, <1>5 DEF Writing

\* A run that returns or goes on without writing.
LEMMA OwnQuiet ==
    ASSUME LInv, NEW r \in Run,
           \/ Start(r) \/ Open(r) \/ LookUp(r) \/ Refuse(r) \/ TimeOut(r)
           \/ Fails(r)
    PROVE  LeftInv(r)' /\ UNCHANGED <<rows, mixed>>
<1> USE DEF LInv, IInv, TypeOK, LeftInv, CallInv, NewInv, TopInv, EndInv, Inserts, Puts
<1>1. CASE Start(r)
  BY <1>1 DEF Start, Goto
<1>2. CASE Open(r)
  <2>1. job[r] \in {"append", "top", "update"}
    BY <1>2, SheetAssumption DEF Open, RunInv
  <2>2. pc'[r] = (IF job[r] = "top" THEN "insert" ELSE job[r])
    BY <1>2 DEF Open, Goto
  <2>3. UNCHANGED <<rows, job, late, mixed, answer>> /\ pc[r] = "open"
    BY <1>2 DEF Open, Goto
  <2> QED
    BY <2>1, <2>2, <2>3
<1>3. CASE LookUp(r)
  <2>1. UNCHANGED <<rows, job, late, mixed>> /\ pc[r] = "open" /\ job[r] = "find"
    BY <1>3 DEF LookUp
  <2>2. CASE Return(r, "found")
    BY <2>1, <2>2 DEF Return
  <2>3. CASE Goto(r, "append")
    BY <2>1, <2>3 DEF Goto
  <2> QED
    BY <1>3, <2>2, <2>3 DEF LookUp
<1>4. CASE Refuse(r)
  BY <1>4 DEF Refuse, Return
<1>5. CASE TimeOut(r)
  <2>1. UNCHANGED <<rows, job, mixed>> /\ pc[r] \in Writes \cup {"open"}
    BY <1>5 DEF TimeOut
  <2>2. pc'[r] = "done" /\ answer'[r].kind = "timeout"
    BY <1>5 DEF TimeOut, Return
  <2>3. \A c \in Writes : <<c, r>> \in late' => <<c, r>> \in late \/ c = pc[r]
    BY <1>5 DEF TimeOut
  <2> QED
    BY <2>1, <2>2, <2>3 DEF Writes
<1>6. CASE Fails(r)
  <2>1. UNCHANGED <<rows, job, mixed>>
    BY <1>6 DEF Fails, Failed
  <2>2. \A c \in Writes : <<c, r>> \in late' => <<c, r>> \in late \/ c = pc[r]
    BY <1>6 DEF Fails, Failed
  <2>3. CASE pc[r] = "put"
    <3>1. pc'[r] = "undo" /\ UNCHANGED answer
      BY <1>6, <2>3 DEF Fails, Goto, Return, Writes
    <3> QED
      BY <2>1, <2>2, <2>3, <3>1 DEF Writes
  <2>4. CASE pc[r] # "put"
    <3>1. pc'[r] = "done" /\ pc[r] \in {"insert", "undo", "append", "update"}
      BY <1>6, <2>4 DEF Fails, Goto, Return, Writes
    <3>2. \E k \in {"error", "warned"} : answer'[r] = [kind |-> k, at |-> pc[r]] /\ (pc[r] = "undo" => k = "warned")
      BY <1>6, <2>4 DEF Fails, Goto, Return, Writes
    <3> QED
      BY <2>1, <2>2, <2>4, <3>1, <3>2 DEF Writes
  <2> QED
    BY <2>3, <2>4
<1> QED
  BY <1>1, <1>2, <1>3, <1>4, <1>5, <1>6

\* A run whose call is answered.
LEMMA OwnAnswered ==
    ASSUME LInv, NEW r \in Run, Succeeds(r)
    PROVE  /\ LeftInv(r)' /\ Single(rows')
           /\ Range(rows') \subseteq Range(rows) \cup Brings(pc[r], r)
           /\ mixed \cup (Owing \ {r}) \subseteq mixed'
<1>1. pc[r] \in Writes /\ Applied(pc[r], r) /\ UNCHANGED <<job, late>>
  BY DEF Succeeds, Answered
<1>2. LeftInv(r) /\ IInv /\ RowOnce
  BY DEF LInv
<1>3. pc[r] = "undo" => r \in Debtors
  BY DEF Debtors
<1>4. Brings(pc[r], r) \cap Range(rows) = {}
  BY <1>1, <1>2, BringsNew
<1>5. /\ Single(rows')
      /\ Range(rows') \subseteq Range(rows) \cup Brings(pc[r], r)
      /\ pc[r] = "insert" => Len(rows') >= 2 /\ rows'[2] = BlankOf(r)
      /\ pc[r] = "undo" /\ rows[2] = BlankOf(r) => BlankOf(r) \notin Range(rows')
      /\ mixed' = mixed \cup (Owing \ {r})
  BY <1>1, <1>2, <1>3, <1>4, AppliedLeaves
<1>6. BlankOf(r) # RowOf(r)
  BY RowsApart
<1> USE DEF IInv, TypeOK, LeftInv, CallInv, NewInv, TopInv, EndInv, Inserts, Puts
<1>7. CASE pc[r] = "insert"
  <2>1. pc'[r] = "put" /\ UNCHANGED answer
    BY <1>2, <1>7 DEF Succeeds, Goto
  <2>2. RowOf(r) \notin Range(rows')
    BY <1>2, <1>5, <1>6, <1>7 DEF Brings
  <2>3. LeftInv(r)'
    BY <1>1, <1>2, <1>5, <1>7, <2>1, <2>2
  <2> QED
    BY <1>5, <2>3
<1>8. CASE pc[r] = "undo"
  <2>1. pc'[r] = "done" /\ answer'[r] = [kind |-> "error", at |-> "undo"]
    BY <1>2, <1>8 DEF Succeeds, Return
  <2>2. Range(rows') \subseteq Range(rows)
    BY <1>5, <1>8 DEF Brings
  <2>3. r \notin mixed' => BlankOf(r) \notin Range(rows') /\ RowOf(r) \notin Range(rows')
    BY <1>2, <1>5, <1>8, <2>2
  <2>4. CallInv(r)' /\ TopInv(r)' /\ EndInv(r)'
    BY <1>1, <1>2, <1>8, <2>1, <2>3
  <2>5. NewInv(r)'
    BY <1>1, <1>2, <1>8, <2>1, <2>2
  <2> QED
    BY <1>5, <2>4, <2>5
<1>9. CASE pc[r] \in {"put", "append", "update"}
  <2>1. pc'[r] = "done" /\ answer'[r].kind = "success"
    BY <1>2, <1>9 DEF Succeeds, Return
  <2>2. LeftInv(r)'
    BY <1>1, <1>2, <1>9, <2>1
  <2> QED
    BY <1>5, <2>2
<1> QED
  BY <1>1, <1>7, <1>8, <1>9 DEF Writes

\* A run whose call is applied after the run has given up on it.
LEMMA OwnArrived ==
    ASSUME LInv, NEW r \in Run, NEW c \in Writes, Arrive(c, r)
    PROVE  /\ LeftInv(r)' /\ Single(rows')
           /\ Range(rows') \subseteq Range(rows) \cup Brings(c, r)
           /\ mixed \cup (Owing \ {r}) \subseteq mixed'
<1>1. <<c, r>> \in late /\ Applied(c, r) /\ late' = late \ {<<c, r>>} /\ UNCHANGED <<pc, job, answer>>
  BY DEF Arrive
<1>2. LeftInv(r) /\ IInv /\ RowOnce
  BY DEF LInv
<1>3. c = "undo" => r \in Debtors
  BY <1>1 DEF Debtors
<1>4. Brings(c, r) \cap Range(rows) = {}
  BY <1>1, <1>2, BringsNew
<1>5. pc[r] # c
  BY <1>1, <1>2 DEF LeftInv, CallInv, IInv, RunInv, Writes
<1>6. /\ Single(rows')
      /\ Range(rows') \subseteq Range(rows) \cup Brings(c, r)
      /\ mixed' = mixed \cup (Owing \ {r}) \cup {r}
  BY <1>1, <1>2, <1>3, <1>4, <1>5, AppliedLeaves
<1>7. TopInv(r)' /\ EndInv(r)'
  BY <1>6 DEF TopInv, EndInv
<1>8. CallInv(r)'
  BY <1>1, <1>2 DEF LeftInv, CallInv
<1>9. NewInv(r)'
  <2>1. Inserts(r)' => Inserts(r) /\ c # "insert"
    BY <1>1, <1>2 DEF Inserts, LeftInv, CallInv
  <2>2. Puts(r)' => Puts(r) /\ c \in {"insert", "undo"}
    BY <1>1, <1>2 DEF Puts, LeftInv, CallInv, IInv, RunInv, Writes
  <2>3. BlankOf(r) # RowOf(r)
    BY RowsApart
  <2> QED
    BY <1>2, <1>6, <2>1, <2>2, <2>3 DEF LeftInv, NewInv, Brings
<1> QED
  BY <1>6, <1>7, <1>8, <1>9 DEF LeftInv

\* The other runs keep their place, their tool, their answer and their calls.
Still(r) ==
    \A u \in Run \ {r} :
        /\ pc'[u] = pc[u] /\ job'[u] = job[u] /\ answer'[u] = answer[u]
        /\ \A c \in Writes : <<c, u>> \in late' <=> <<c, u>> \in late

LEMMA OthersStill ==
    ASSUME IInv, NEW r \in Run,
           \/ Start(r) \/ Open(r) \/ LookUp(r) \/ Refuse(r) \/ TimeOut(r) \/ Fails(r) \/ Succeeds(r)
           \/ \E c \in Writes : Arrive(c, r)
    PROVE  Still(r)
<1> USE DEF IInv, TypeOK, Still, Goto, Return
<1>1. CASE Start(r)
  BY <1>1 DEF Start
<1>2. CASE Open(r) \/ LookUp(r) \/ Refuse(r)
  BY <1>2 DEF Open, LookUp, Refuse
<1>3. CASE TimeOut(r)
  BY <1>3 DEF TimeOut
<1>4. CASE Fails(r)
  BY <1>4 DEF Fails, Failed
<1>5. CASE Succeeds(r)
  BY <1>5 DEF Succeeds, Answered
<1>6. CASE \E c \in Writes : Arrive(c, r)
  BY <1>6 DEF Arrive
<1> QED
  BY <1>1, <1>2, <1>3, <1>4, <1>5, <1>6

LEMMA InitLInv == Init => LInv
<1> SUFFICES ASSUME Init PROVE LInv
  OBVIOUS
<1>1. IInv
  BY InitIInv
<1>2. \A i \in 1..Len(rows) : rows[i] \notin Rows
  BY SheetAssumption, OldRow DEF Init
<1>3. RowOnce
  BY <1>2 DEF RowOnce
<1>4. ASSUME NEW r \in Run PROVE BlankOf(r) \notin Range(rows) /\ RowOf(r) \notin Range(rows)
  <2>1. \A e \in Range(rows) : \E i \in 1..Len(rows) : rows[i] = e
    BY <1>1, RangeIs DEF IInv, TypeOK
  <2>2. BlankOf(r) \in Rows /\ RowOf(r) \in Rows
    BY RowsApart
  <2> QED
    BY <1>2, <2>1, <2>2
<1>5. ASSUME NEW r \in Run PROVE LeftInv(r)
  BY <1>4 DEF Init, LeftInv, CallInv, NewInv, TopInv, EndInv
<1> QED
  BY <1>1, <1>3, <1>5 DEF LInv

LEMMA StepLInv == LInv /\ [Next]_vars => LInv'
<1> SUFFICES ASSUME LInv, [Next]_vars PROVE LInv'
  OBVIOUS
<1>1. IInv'
  BY StepIInv DEF LInv
<1>2. IInv /\ RowOnce /\ \A u \in Run : LeftInv(u)
  BY DEF LInv
<1>3. ASSUME NEW r \in Run, Start(r) \/ Open(r) \/ LookUp(r) \/ Refuse(r) \/ TimeOut(r) \/ Fails(r)
      PROVE  LInv'
  <2>1. LeftInv(r)' /\ UNCHANGED <<rows, mixed>>
    BY <1>3, OwnQuiet
  <2>2. Still(r)
    BY <1>2, <1>3, OthersStill
  <2>3. ASSUME NEW u \in Run \ {r} PROVE LeftInv(u)'
    BY <1>2, <2>1, <2>2, OtherQuiet DEF Still
  <2>4. RowOnce'
    BY <1>2, <2>1 DEF RowOnce
  <2> QED
    BY <1>1, <2>1, <2>3, <2>4 DEF LInv
<1>4. ASSUME NEW r \in Run, NEW c \in Writes, (Succeeds(r) /\ c = pc[r]) \/ Arrive(c, r)
      PROVE  LInv'
  <2>1. /\ LeftInv(r)' /\ Single(rows')
        /\ Range(rows') \subseteq Range(rows) \cup Brings(c, r)
        /\ mixed \cup (Owing \ {r}) \subseteq mixed'
    BY <1>4, OwnAnswered, OwnArrived
  <2>2. Still(r)
    BY <1>2, <1>4, OthersStill
  <2>3. ASSUME NEW u \in Run \ {r} PROVE LeftInv(u)'
    BY <1>2, <2>1, <2>2, OtherWrites DEF Still
  <2>4. RowOnce'
    BY <2>1, OnceSingle
  <2> QED
    BY <1>1, <2>1, <2>3, <2>4 DEF LInv
<1>5. CASE UNCHANGED vars
  <2>1. RowOnce'
    BY <1>2, <1>5 DEF vars, RowOnce
  <2>2. ASSUME NEW u \in Run PROVE LeftInv(u)'
    BY <1>2, <1>5, OtherQuiet DEF vars
  <2> QED
    BY <1>1, <2>1, <2>2 DEF LInv
<1>6. ASSUME NEW r \in Run, Writing(r) PROVE LInv'
  <2>1. CASE Succeeds(r)
    BY <1>4, <2>1 DEF Succeeds
  <2>2. CASE Fails(r)
    BY <1>3, <2>2
  <2> QED
    BY <1>6, <2>1, <2>2, CallEnds
<1> QED
  BY <1>3, <1>4, <1>5, <1>6 DEF Next

LEMMA SpecLInv == Spec => []LInv
BY InitLInv, StepLInv, PTL DEF Spec

\* Whatever calls fail, are given up on or arrive late, and however the runs
\* interleave, no run's row is in the sheet twice: no tool sends a write again.
THEOREM WrittenOnce == Spec => []RowOnce
<1>1. LInv => RowOnce
  BY DEF LInv
<1> QED
  BY SpecLInv, <1>1, PTL

\* An append_top that answers with an error after its write, and met no other
\* write, leaves neither its empty row nor its row: the row 2 that its rollback
\* deletes is the one that it inserted.
THEOREM FailureLeavesNothing == Spec => []FailureIsUndone
<1>1. ASSUME LInv PROVE FailureIsUndone
  <2> SUFFICES ASSUME NEW r \in Run, EndInv(r),
                      answer[r].kind = "error", answer[r].at \in {"put", "undo"}, r \notin mixed,
                      NEW i \in 1..Len(rows)
               PROVE  rows[i] \notin {BlankOf(r), RowOf(r)}
    BY <1>1 DEF LInv, LeftInv, FailureIsUndone
  <2>1. rows[i] \in Range(rows)
    BY <1>1, RangeIs DEF LInv, IInv, TypeOK
  <2> QED
    BY <2>1 DEF EndInv
<1> QED
  BY SpecLInv, <1>1, PTL

=============================================================================
