--------------------------- MODULE NotionPageProofs ---------------------------
(***************************************************************************)
(* The body of a page, for any number of runs and calls that fail or come  *)
(* late, any page, and replies of any length.                              *)
(*                                                                         *)
(* The properties rest on one fact about blocks: a run's blocks are        *)
(* nowhere until they are written (WriteInv), and they are written once.   *)
(* So what a run has read before it writes cannot hold what is written     *)
(* later, and what it deletes is never the newest content (KeepInv), and   *)
(* what it has deleted does not come back (GoneInv).                       *)
(***************************************************************************)
EXTENDS NotionPage, SequenceTheorems, TLAPS

\* The blocks of a run's content.
Own(r) == {b \in New : b.by = r}

Distinct(s) == \A i, j \in 1..Len(s) : s[i] = s[j] => i = j

\* The content of a run may still be written, or may be now.
May(r) ==
    \/ pc[r] \in {"idle", "page", "schema", "head", "fetch", "append", "markdown"}
    \/ <<"append", r, NoBlock>> \in late \/ <<"markdown", r, NoBlock>> \in late

\* The places of each tool, and what a run has read there.
PlaceInv(u) ==
    /\ pc[u] = "page" => job[u] \in {"row", "read"}
    /\ pc[u] \in {"schema", "markdown"} => job[u] = "row"
    /\ pc[u] = "head" => job[u] \in {"update", "row"} /\ "head" \in want[u]
    /\ pc[u] = "fetch" => job[u] \in {"update", "read"}
    /\ pc[u] = "append" => job[u] \in {"update", "append"}
    /\ pc[u] \in {"delete", "final"} => job[u] = "update"
    /\ pc[u] \in {"idle", "page", "schema", "head"} => got[u] = <<>> /\ cursor[u] = NoBlock
    /\ pc[u] \notin {"delete", "final", "done"} => deleted[u] = 0
    /\ pc[u] = "delete" => deleted[u] < Len(got[u])
    /\ pc[u] # "done" => answer[u] = "none"

\* The calls that may still be carried out.
LateInv(u) ==
    \A c \in Calls, b \in Block \cup {NoBlock} : <<c, u, b>> \in late =>
      /\ c # "delete" => pc[u] = "done" /\ b = NoBlock
      /\ c = "head" => <<u, "head">> \in failed
      /\ c = "append" => job[u] \in {"update", "append"}
      /\ c = "markdown" => job[u] = "row"
      /\ c = "delete" => /\ pc[u] \in {"delete", "final", "done"}
                         /\ b \in Range(got[u]) /\ b \notin Range(newest)

\* Until a run has written, its blocks are nowhere.
WriteInv(u) ==
    May(u) => /\ Own(u) \cap Range(body) = {}
              /\ \A s \in Run : Own(u) \cap Range(got[s]) = {}

\* What is still to be deleted is not the newest content.
KeepInv(u) ==
    pc[u] = "delete" => \A i \in 1..Len(got[u]) : i > deleted[u] => got[u][i] \notin Range(newest)

\* What was read is the beginning of the body, up to the cursor.
WholeInv(u) ==
    pc[u] = "fetch" /\ u \notin moved =>
      \/ cursor[u] = NoBlock /\ got[u] = <<>>
      \/ \E k \in 1..Len(body) : k < Len(body) /\ cursor[u] = body[k + 1] /\ got[u] = SubSeq(body, 1, k)

\* What has been deleted is gone.
GoneInv(u) ==
    job[u] = "update" /\ <<u, "delete">> \notin failed
      /\ (pc[u] \in {"delete", "final"} \/ answer[u] = "success") =>
         \A i \in 1..Len(got[u]) : (pc[u] = "delete" => i \leq deleted[u]) => got[u][i] \notin Range(body)

\* Whether the properties of a row have been written.
HeadInv(u) ==
    /\ pc[u] \in {"idle", "page", "schema", "head"} => u \notin headed
    /\ pc[u] = "markdown" => ("head" \in want[u] <=> u \in headed)
    /\ job[u] = "row" => /\ answer[u] = "prefixed" => u \in headed
                         /\ answer[u] = "error" /\ <<u, "head">> \notin failed => u \notin headed

RunInv(u) ==
    PlaceInv(u) /\ LateInv(u) /\ WriteInv(u) /\ KeepInv(u) /\ WholeInv(u) /\ GoneInv(u) /\ HeadInv(u)

IInv == TypeOK /\ NewestSurvives /\ \A u \in Run : RunInv(u)

------------------------------------------------------------------------------
(* Sequences *)

\* The elements of a sequence of blocks.
LEMMA RangeIs ==
  ASSUME NEW s \in Seq(Block)
  PROVE  /\ Range(s) \subseteq Block
         /\ \A i \in 1..Len(s) : s[i] \in Range(s)
         /\ \A b \in Range(s) : \E i \in 1..Len(s) : s[i] = b
BY DEF Range

\* What a suffix is, element by element.
LEMMA SuffixIs ==
  ASSUME NEW s \in Seq(Block), NEW t \in Seq(Block)
  PROVE  IsSuffix(s, t) <=>
           Len(s) \leq Len(t) /\ \A i \in 1..Len(s) : s[i] = t[Len(t) - Len(s) + i]
<1> DEFINE a == Reverse(s)
           b == Reverse(t)
<1>1. /\ a \in Seq(Block) /\ Len(a) = Len(s) /\ \A i \in 1..Len(s) : a[i] = s[Len(s) - i + 1]
      /\ b \in Seq(Block) /\ Len(b) = Len(t) /\ \A i \in 1..Len(t) : b[i] = t[Len(t) - i + 1]
  BY DEF Reverse
<1> HIDE DEF a, b
<1>2. CASE Len(s) \leq Len(t)
  <2> DEFINE x == SubSeq(a, 1, Len(a))
             y == SubSeq(b, 1, Len(a))
  <2>1. /\ x \in Seq(Block) /\ Len(x) = Len(s) /\ \A i \in 1..Len(s) : x[i] = s[Len(s) - i + 1]
        /\ y \in Seq(Block) /\ Len(y) = Len(s) /\ \A i \in 1..Len(s) : y[i] = t[Len(t) - i + 1]
    BY <1>1, <1>2
  <2> HIDE DEF x, y
  <2>2. x = y <=> \A i \in 1..Len(s) : x[i] = y[i]
    BY <2>1, SeqEqual
  <2>3. (\A i \in 1..Len(s) : x[i] = y[i]) <=> \A i \in 1..Len(s) : s[i] = t[Len(t) - Len(s) + i]
    <3>1. ASSUME \A i \in 1..Len(s) : x[i] = y[i], NEW i \in 1..Len(s)
          PROVE  s[i] = t[Len(t) - Len(s) + i]
      <4>1. PICK j \in 1..Len(s) : j = Len(s) - i + 1
        <5>1. Len(s) - i + 1 \in 1..Len(s)
          OBVIOUS
        <5> QED
          BY <5>1
      <4>2. x[j] = s[i] /\ y[j] = t[Len(t) - Len(s) + i]
        <5>1. Len(s) - j + 1 = i /\ Len(t) - j + 1 = Len(t) - Len(s) + i
          BY <4>1
        <5> QED
          BY <2>1, <5>1
      <4> QED
        BY <3>1, <4>2
    <3>2. ASSUME \A i \in 1..Len(s) : s[i] = t[Len(t) - Len(s) + i], NEW i \in 1..Len(s)
          PROVE  x[i] = y[i]
      <4>1. PICK j \in 1..Len(s) : j = Len(s) - i + 1
        <5>1. Len(s) - i + 1 \in 1..Len(s)
          OBVIOUS
        <5> QED
          BY <5>1
      <4>2. Len(t) - Len(s) + j = Len(t) - i + 1
        BY <4>1
      <4>3. s[j] = t[Len(t) - i + 1]
        BY <3>2, <4>2
      <4> QED
        BY <2>1, <4>1, <4>3
    <3> QED
      BY <3>1, <3>2
  <2>4. IsSuffix(s, t) <=> x = y
    BY <1>1, <1>2 DEF IsSuffix, IsPrefix, a, b, x, y
  <2> QED
    BY <1>2, <2>2, <2>3, <2>4
<1>3. CASE ~(Len(s) \leq Len(t))
  BY <1>1, <1>3 DEF IsSuffix, IsPrefix, a, b
<1> QED
  BY <1>2, <1>3

\* What RemoveAt returns, element by element.
LEMMA RemoveAtIs ==
    ASSUME NEW s \in Seq(Block), NEW i \in 1..Len(s)
    PROVE  /\ RemoveAt(s, i) \in Seq(Block)
           /\ Len(RemoveAt(s, i)) = Len(s) - 1
           /\ \A j \in 1..(Len(s) - 1) : RemoveAt(s, i)[j] = IF j < i THEN s[j] ELSE s[j + 1]
<1> DEFINE p == SubSeq(s, 1, i - 1)
           q == SubSeq(s, i + 1, Len(s))
<1>1. p \in Seq(Block) /\ Len(p) = i - 1 /\ \A j \in 1..(i - 1) : p[j] = s[j]
  OBVIOUS
<1>2. q \in Seq(Block) /\ Len(q) = Len(s) - i /\ \A j \in 1..(Len(s) - i) : q[j] = s[i + j]
  OBVIOUS
<1> HIDE DEF p, q
<1>3. /\ p \o q \in Seq(Block) /\ Len(p \o q) = Len(s) - 1
      /\ \A j \in 1..(Len(p) + Len(q)) : (p \o q)[j] = IF j \leq Len(p) THEN p[j] ELSE q[j - Len(p)]
  <2>1. Len(p) + Len(q) = Len(s) - 1
    BY <1>1, <1>2
  <2>2. p \in Seq(Block) /\ q \in Seq(Block)
    BY <1>1, <1>2
  <2> QED
    BY <2>1, <2>2, ConcatProperties
<1>4. ASSUME NEW j \in 1..(Len(s) - 1) PROVE (p \o q)[j] = IF j < i THEN s[j] ELSE s[j + 1]
  <2>1. CASE j < i
    BY <1>1, <1>2, <1>3, <2>1
  <2>2. CASE ~(j < i)
    <3>1. PICK k \in 1..(Len(s) - i) : k = j - Len(p)
      BY <1>1, <2>2
    <3>2. q[k] = s[i + k] /\ i + k = j + 1
      BY <1>1, <1>2, <3>1
    <3> QED
      BY <1>1, <1>2, <1>3, <2>2, <3>1, <3>2
  <2> QED
    BY <2>1, <2>2
<1> QED
  BY <1>3, <1>4 DEF RemoveAt, p, q

\* A block taken out of a body: it is gone, and an end without it stays.
LEMMA TakenOut ==
  ASSUME NEW t \in Seq(Block), Distinct(t), NEW i \in 1..Len(t)
  PROVE  LET u == RemoveAt(t, i) IN
           /\ u \in Seq(Block) /\ Distinct(u)
           /\ Range(u) \subseteq Range(t) /\ t[i] \notin Range(u)
           /\ \A s \in Seq(Block) : IsSuffix(s, t) /\ t[i] \notin Range(s) => IsSuffix(s, u)
<1> DEFINE u == RemoveAt(t, i)
<1>1. /\ u \in Seq(Block) /\ Len(u) = Len(t) - 1
      /\ \A j \in 1..(Len(t) - 1) : u[j] = IF j < i THEN t[j] ELSE t[j + 1]
  BY RemoveAtIs
<1> HIDE DEF u
<1>2. \A j \in 1..Len(u) : \E k \in 1..Len(t) : k # i /\ u[j] = t[k] /\ k = IF j < i THEN j ELSE j + 1
  BY <1>1
<1>3. Distinct(u)
  <2> SUFFICES ASSUME NEW j \in 1..Len(u), NEW k \in 1..Len(u), u[j] = u[k] PROVE j = k
    BY DEF Distinct
  <2>1. PICK m \in 1..Len(t) : u[j] = t[m] /\ m = IF j < i THEN j ELSE j + 1
    BY <1>2
  <2>2. PICK n \in 1..Len(t) : u[k] = t[n] /\ n = IF k < i THEN k ELSE k + 1
    BY <1>2
  <2>3. m = n
    BY <2>1, <2>2 DEF Distinct
  <2> QED
    BY <1>1, <2>1, <2>2, <2>3
<1>4. Range(u) \subseteq Range(t) /\ t[i] \notin Range(u)
  <2> SUFFICES ASSUME NEW b \in Range(u) PROVE b \in Range(t) /\ b # t[i]
    OBVIOUS
  <2>1. PICK j \in 1..Len(u) : u[j] = b
    BY <1>1, RangeIs
  <2>2. PICK k \in 1..Len(t) : k # i /\ b = t[k]
    BY <1>2, <2>1
  <2> QED
    BY <2>2, RangeIs DEF Distinct
<1>5. ASSUME NEW s \in Seq(Block), IsSuffix(s, t), t[i] \notin Range(s)
      PROVE  IsSuffix(s, u)
  <2>1. Len(s) \leq Len(t) /\ \A j \in 1..Len(s) : s[j] = t[Len(t) - Len(s) + j]
    BY <1>5, SuffixIs
  <2>2. i \leq Len(t) - Len(s)
    <3> SUFFICES ASSUME i > Len(t) - Len(s) PROVE FALSE
      OBVIOUS
    <3>1. PICK j \in 1..Len(s) : i = Len(t) - Len(s) + j
      <4> DEFINE j == i - (Len(t) - Len(s))
      <4>1. j \in 1..Len(s) /\ i = Len(t) - Len(s) + j
        BY <2>1
      <4> HIDE DEF j
      <4> QED
        BY <4>1
    <3> QED
      BY <1>5, <2>1, <3>1, RangeIs
  <2>3. ASSUME NEW j \in 1..Len(s) PROVE s[j] = u[Len(u) - Len(s) + j]
    <3>1. PICK m \in 1..(Len(t) - 1) : m = Len(u) - Len(s) + j /\ m >= i
      <4>1. Len(u) - Len(s) + j \in 1..(Len(t) - 1) /\ Len(u) - Len(s) + j >= i
        BY <1>1, <2>1, <2>2
      <4> QED
        BY <4>1
    <3>2. u[m] = t[m + 1] /\ m + 1 = Len(t) - Len(s) + j
      BY <1>1, <3>1
    <3> QED
      BY <2>1, <3>1, <3>2
  <2>4. IsSuffix(s, u) <=> Len(s) \leq Len(u) /\ \A j \in 1..Len(s) : s[j] = u[Len(u) - Len(s) + j]
    BY <1>1, SuffixIs
  <2>5. Len(s) \leq Len(u)
    BY <1>1, <2>1, <2>2
  <2> QED
    BY <2>3, <2>4, <2>5
<1> QED
  BY <1>1, <1>3, <1>4, <1>5 DEF u

\* A content put behind a body that has none of its blocks.
LEMMA PutBehind ==
  ASSUME NEW s \in Seq(Block), NEW t \in Seq(Block), Distinct(s), Distinct(t), Range(s) \cap Range(t) = {}
  PROVE  /\ s \o t \in Seq(Block) /\ Distinct(s \o t)
         /\ Range(s \o t) = Range(s) \cup Range(t)
         /\ IsSuffix(t, s \o t)
<1> DEFINE u == s \o t
<1>1. /\ u \in Seq(Block) /\ Len(u) = Len(s) + Len(t)
      /\ \A i \in 1..(Len(s) + Len(t)) : u[i] = IF i \leq Len(s) THEN s[i] ELSE t[i - Len(s)]
  BY ConcatProperties
<1>2. Range(u) = Range(s) \cup Range(t)
  BY RangeConcatenation
<1> HIDE DEF u
<1>3. Distinct(u)
  <2> SUFFICES ASSUME NEW i \in 1..Len(u), NEW j \in 1..Len(u), u[i] = u[j] PROVE i = j
    BY DEF Distinct
  <2>1. \A k \in 1..Len(u) : \/ k \in 1..Len(s) /\ u[k] = s[k] /\ u[k] \in Range(s)
                             \/ k - Len(s) \in 1..Len(t) /\ u[k] = t[k - Len(s)] /\ u[k] \in Range(t)
    BY <1>1, RangeIs
  <2>2. CASE i \in 1..Len(s) /\ u[i] = s[i] /\ u[i] \in Range(s)
    <3>1. j \in 1..Len(s) /\ u[j] = s[j]
      BY <2>1, <2>2
    <3> QED
      BY <2>2, <3>1 DEF Distinct
  <2>3. CASE i - Len(s) \in 1..Len(t) /\ u[i] = t[i - Len(s)] /\ u[i] \in Range(t)
    <3>1. j - Len(s) \in 1..Len(t) /\ u[j] = t[j - Len(s)]
      BY <2>1, <2>3
    <3>2. i - Len(s) = j - Len(s)
      BY <2>3, <3>1 DEF Distinct
    <3> QED
      BY <1>1, <3>2
  <2> QED
    BY <2>1, <2>2, <2>3
<1>4. IsSuffix(t, u)
  <2>1. ASSUME NEW i \in 1..Len(t) PROVE t[i] = u[Len(u) - Len(t) + i]
    <3>1. PICK m \in 1..(Len(s) + Len(t)) : m = Len(u) - Len(t) + i
      BY <1>1
    <3>2. ~(m \leq Len(s)) /\ m - Len(s) = i
      BY <1>1, <3>1
    <3> QED
      BY <1>1, <3>1, <3>2
  <2>2. IsSuffix(t, u) <=> Len(t) \leq Len(u) /\ \A i \in 1..Len(t) : t[i] = u[Len(u) - Len(t) + i]
    BY <1>1, SuffixIs
  <2>3. Len(t) \leq Len(u)
    BY <1>1
  <2> QED
    BY <2>1, <2>2, <2>3
<1> QED
  BY <1>1, <1>2, <1>3, <1>4 DEF u

\* The blocks that a content is made of.
LEMMA WrittenIs ==
  ASSUME NEW r \in Run
  PROVE  /\ Written(r) \in Seq(Block) /\ Distinct(Written(r)) /\ Range(Written(r)) = Own(r)
         /\ IsSuffix(Written(r), Written(r))
         /\ \A s \in Run : s # r => Own(s) \cap Own(r) = {}
<1>1. Size \in Nat
  BY PageAssumption
<1>2. \A n \in 1..Size : [by |-> r, n |-> n] \in Block
  BY DEF Block, New
<1>3. Written(r) \in Seq(Block) /\ Len(Written(r)) = Size /\ \A n \in 1..Size : Written(r)[n] = [by |-> r, n |-> n]
  BY <1>1, <1>2 DEF Written
<1>4. Distinct(Written(r))
  <2> SUFFICES ASSUME NEW i \in 1..Size, NEW j \in 1..Size, Written(r)[i] = Written(r)[j] PROVE i = j
    BY <1>3 DEF Distinct
  <2> DEFINE a == [by |-> r, n |-> i]
             b == [by |-> r, n |-> j]
  <2>1. a = b /\ a.n = i /\ b.n = j
    BY <1>3
  <2> HIDE DEF a, b
  <2> QED
    BY <2>1
<1>5. Range(Written(r)) = Own(r)
  <2>1. ASSUME NEW b \in Range(Written(r)) PROVE b \in Own(r)
    <3>1. PICK i \in 1..Size : Written(r)[i] = b
      BY <1>3, RangeIs
    <3> QED
      BY <1>3, <3>1 DEF Own, New
  <2>2. ASSUME NEW b \in Own(r) PROVE b \in Range(Written(r))
    <3>1. PICK n \in 1..Size : b = [by |-> r, n |-> n]
      BY DEF Own, New
    <3> QED
      BY <1>3, <3>1, RangeIs
  <2> QED
    BY <2>1, <2>2
<1>6. IsSuffix(Written(r), Written(r))
  <2>1. \A i \in 1..Size : Size - Size + i = i
    BY <1>1
  <2> QED
    BY <1>1, <1>3, <2>1, SuffixIs
<1> QED
  BY <1>3, <1>4, <1>5, <1>6 DEF Own

------------------------------------------------------------------------------
(* What happens to the page *)

\* TypeOK of the page, and of the runs.
PageOK ==
    /\ body \in Seq(Block) /\ Distinct(body)
    /\ late \subseteq Calls \X Run \X (Block \cup {NoBlock})
    /\ headed \subseteq Run
    /\ newest \in Seq(Block)
    /\ failed \subseteq Run \X Places
    /\ moved \subseteq Run

RunsOK ==
    /\ pc \in [Run -> Places]
    /\ job \in [Run -> Jobs \cup {"none"}]
    /\ want \in [Run -> SUBSET {"head", "content"}]
    /\ got \in [Run -> Seq(Block)]
    /\ cursor \in [Run -> Block \cup {NoBlock}]
    /\ deleted \in [Run -> Nat]
    /\ answer \in [Run -> {"none", "success", "error", "prefixed", "cut"}]

\* A run is left alone.
Same(u) ==
    /\ pc'[u] = pc[u] /\ job'[u] = job[u] /\ want'[u] = want[u] /\ got'[u] = got[u]
    /\ cursor'[u] = cursor[u] /\ deleted'[u] = deleted[u] /\ answer'[u] = answer[u]

\* No call of a run is left behind by the step.
NoCallOf(u) ==
    \A c \in Calls, b \in Block \cup {NoBlock} : <<c, u, b>> \in late' => <<c, u, b>> \in late

\* What a step of r, or a call of r, does to the page: blocks go, or r's content
\* comes, which was nowhere.
Shift(r) ==
    /\ \/ Range(body') \subseteq Range(body) /\ newest' = newest
       \/ Range(body') \subseteq Range(body) \cup Own(r) /\ newest' = Written(r) /\ May(r)
    /\ body' = body \/ \A s \in Run : pc[s] = "fetch" => s \in moved'
    /\ moved \subseteq moved'
    /\ failed \subseteq failed'
    /\ \A s \in Run : s # r => NoCallOf(s) /\ (s \in headed' <=> s \in headed)

\* Runs read what the body holds.
GotGrows == \A s \in Run : Range(got'[s]) \subseteq Range(got[s]) \cup Range(body)

\* The type invariant is about the page and about the runs.
LEMMA TypeParts == TypeOK <=> PageOK /\ RunsOK
BY DEF TypeOK, PageOK, RunsOK, Distinct

\* What the API makes of a call.
LEMMA AppliedIs ==
  ASSUME PageOK, NewestSurvives, NEW c \in Calls, NEW r \in Run, NEW b \in Block \cup {NoBlock},
         Applied(c, r, b),
         c \in {"append", "markdown"} => Own(r) \cap Range(body) = {},
         c = "delete" => b \notin Range(newest)
  PROVE  /\ body' \in Seq(Block) /\ Distinct(body') /\ newest' \in Seq(Block) /\ NewestSurvives'
         /\ headed' = (IF c = "head" THEN headed \cup {r} ELSE headed)
         /\ moved \subseteq moved' /\ moved' \subseteq Run
         /\ body' = body \/ \A s \in Run : pc[s] = "fetch" => s \in moved'
         /\ c \in {"append", "markdown"} =>
              Range(body') \subseteq Range(body) \cup Own(r) /\ newest' = Written(r)
         /\ c \notin {"append", "markdown"} => Range(body') \subseteq Range(body) /\ newest' = newest
         /\ c = "delete" => b \notin Range(body')
<1>1. /\ headed' = (IF c = "head" THEN headed \cup {r} ELSE headed)
      /\ moved \subseteq moved' /\ moved' \subseteq Run
      /\ body' = body \/ \A s \in Run : pc[s] = "fetch" => s \in moved'
  BY DEF Applied, PageOK
<1> USE DEF NewestSurvives
<1>2. CASE c = "head"
  BY <1>2 DEF Applied, PageOK
<1>3. CASE c = "append"
  <2>1. body' = body \o Written(r) /\ newest' = Written(r)
    BY <1>3 DEF Applied
  <2>2. /\ body \o Written(r) \in Seq(Block) /\ Distinct(body \o Written(r))
        /\ Range(body \o Written(r)) = Range(body) \cup Own(r)
        /\ IsSuffix(Written(r), body \o Written(r))
    BY <1>3, WrittenIs, PutBehind DEF PageOK
  <2> QED
    BY <1>1, <1>3, <2>1, <2>2, WrittenIs
<1>4. CASE c = "markdown"
  <2>1. body' = Written(r) /\ newest' = Written(r)
    BY <1>4 DEF Applied
  <2> QED
    BY <1>1, <1>4, <2>1, WrittenIs
<1>5. CASE c = "delete"
  <2>1. newest' = newest
    BY <1>5 DEF Applied
  <2>2. CASE \E i \in 1..Len(body) : body[i] = b /\ body' = RemoveAt(body, i)
    <3>1. PICK i \in 1..Len(body) : body[i] = b /\ body' = RemoveAt(body, i)
      BY <2>2
    <3>2. /\ RemoveAt(body, i) \in Seq(Block) /\ Distinct(RemoveAt(body, i))
          /\ Range(RemoveAt(body, i)) \subseteq Range(body) /\ body[i] \notin Range(RemoveAt(body, i))
          /\ IsSuffix(newest, RemoveAt(body, i))
      BY <1>5, <3>1, TakenOut DEF PageOK
    <3> QED
      BY <1>1, <1>5, <2>1, <3>1, <3>2 DEF PageOK
  <2>3. CASE body' = body /\ b \notin Range(body)
    BY <1>1, <1>5, <2>1, <2>3 DEF PageOK
  <2> QED
    BY <1>5, <2>2, <2>3 DEF Applied, Without
<1> QED
  BY <1>2, <1>3, <1>4, <1>5 DEF Calls

\* The call of a run is carried out and answered.
LEMMA GoodIs ==
  ASSUME IInv, NEW r \in Run, pc[r] \in Calls, Good(r)
  PROVE  /\ PageOK' /\ NewestSurvives' /\ Shift(r) /\ NoCallOf(r)
         /\ late' = late /\ failed' = failed
         /\ headed' = (IF pc[r] = "head" THEN headed \cup {r} ELSE headed)
         /\ newest' = (IF pc[r] \in {"append", "markdown"} THEN Written(r) ELSE newest)
         /\ pc[r] = "delete" => Subject(r) \notin Range(body') /\ Range(body') \subseteq Range(body)
<1>1. PageOK /\ RunsOK /\ NewestSurvives /\ PlaceInv(r) /\ WriteInv(r) /\ KeepInv(r)
  BY TypeParts DEF IInv, RunInv
<1>2. /\ Subject(r) \in Block \cup {NoBlock}
      /\ pc[r] = "delete" => Subject(r) \notin Range(newest)
  <2>1. CASE pc[r] = "delete"
    <3>1. deleted[r] + 1 \in 1..Len(got[r]) /\ got[r] \in Seq(Block) /\ deleted[r] + 1 > deleted[r]
      BY <1>1, <2>1 DEF RunsOK, PlaceInv
    <3>2. Subject(r) = got[r][deleted[r] + 1]
      BY <2>1 DEF Subject
    <3> QED
      BY <1>1, <2>1, <3>1, <3>2 DEF KeepInv
  <2>2. CASE pc[r] # "delete"
    BY <2>2 DEF Subject
  <2> QED
    BY <2>1, <2>2
<1>3. pc[r] \in {"append", "markdown"} => May(r) /\ Own(r) \cap Range(body) = {}
  BY <1>1 DEF WriteInv, May
<1>4. Applied(pc[r], r, Subject(r)) /\ late' = late /\ failed' = failed
  BY DEF Good
<1>5. /\ body' \in Seq(Block) /\ Distinct(body') /\ newest' \in Seq(Block) /\ NewestSurvives'
      /\ headed' = (IF pc[r] = "head" THEN headed \cup {r} ELSE headed)
      /\ moved \subseteq moved' /\ moved' \subseteq Run
      /\ body' = body \/ \A s \in Run : pc[s] = "fetch" => s \in moved'
      /\ pc[r] \in {"append", "markdown"} =>
           Range(body') \subseteq Range(body) \cup Own(r) /\ newest' = Written(r)
      /\ pc[r] \notin {"append", "markdown"} => Range(body') \subseteq Range(body) /\ newest' = newest
      /\ pc[r] = "delete" => Subject(r) \notin Range(body')
  BY <1>1, <1>2, <1>3, <1>4, AppliedIs
<1>6. PageOK'
  BY <1>1, <1>4, <1>5 DEF PageOK, Distinct
<1> QED
  BY <1>3, <1>4, <1>5, <1>6 DEF Shift, NoCallOf

\* A call is not answered: it may come late.
LEMMA BadIs ==
  ASSUME IInv, NEW r \in Run, pc[r] \in Calls, Bad(r)
  PROVE  /\ PageOK' /\ NewestSurvives' /\ Shift(r)
         /\ body' = body /\ headed' = headed /\ newest' = newest /\ moved' = moved
         /\ failed' = failed \cup {<<r, pc[r]>>}
         /\ late' \in {late, late \cup {<<pc[r], r, Subject(r)>>}}
<1>1. PageOK /\ RunsOK /\ NewestSurvives /\ PlaceInv(r)
  BY TypeParts DEF IInv, RunInv
<1>2. Subject(r) \in Block \cup {NoBlock}
  <2>1. CASE pc[r] = "delete"
    <3>1. deleted[r] + 1 \in 1..Len(got[r]) /\ got[r] \in Seq(Block)
      BY <1>1, <2>1 DEF RunsOK, PlaceInv
    <3> QED
      BY <2>1, <3>1 DEF Subject
  <2>2. CASE pc[r] # "delete"
    BY <2>2 DEF Subject
  <2> QED
    BY <2>1, <2>2
<1>3. /\ body' = body /\ headed' = headed /\ newest' = newest /\ moved' = moved
      /\ failed' = failed \cup {<<r, pc[r]>>}
      /\ late' \in {late, late \cup {<<pc[r], r, Subject(r)>>}}
  BY DEF Bad
<1>4. <<r, pc[r]>> \in Run \X Places
  BY <1>1 DEF RunsOK
<1>5. PageOK'
  BY <1>1, <1>2, <1>3, <1>4 DEF PageOK, Distinct
<1>6. ASSUME NEW s \in Run, s # r PROVE NoCallOf(s)
  BY <1>3, <1>6 DEF NoCallOf
<1> QED
  BY <1>1, <1>3, <1>5, <1>6 DEF Shift, NewestSurvives

\* A call that only reads.
LEMMA ReadIs ==
  ASSUME IInv, NEW r \in Run, Read \/ Unread(r)
  PROVE  /\ PageOK' /\ NewestSurvives' /\ Shift(r) /\ NoCallOf(r)
         /\ body' = body /\ headed' = headed /\ newest' = newest /\ moved' = moved /\ late' = late
         /\ failed \subseteq failed' /\ failed' \subseteq failed \cup {<<r, pc[r]>>}
         /\ Unread(r) => <<r, pc[r]>> \in failed'
<1>1. PageOK /\ RunsOK /\ NewestSurvives
  BY TypeParts DEF IInv
<1>2. /\ body' = body /\ headed' = headed /\ newest' = newest /\ moved' = moved /\ late' = late
      /\ failed' \in {failed, failed \cup {<<r, pc[r]>>}}
      /\ Unread(r) => <<r, pc[r]>> \in failed'
  BY DEF Read, Unread
<1>3. <<r, pc[r]>> \in Run \X Places
  BY <1>1 DEF RunsOK
<1>4. PageOK'
  BY <1>1, <1>2, <1>3 DEF PageOK, Distinct
<1> QED
  BY <1>1, <1>2, <1>4 DEF Shift, NewestSurvives, NoCallOf

------------------------------------------------------------------------------
(* What the others notice *)

\* A run that is left alone keeps what it relies on, whatever happens to the page.
LEMMA Steady ==
  ASSUME IInv, PageOK', NEW r \in Run, NEW u \in Run, Shift(r), Same(u), NoCallOf(u)
  PROVE  PlaceInv(u)' /\ LateInv(u)' /\ KeepInv(u)' /\ WholeInv(u)' /\ GoneInv(u)'
<1>1. PageOK /\ RunsOK /\ RunInv(u) /\ WriteInv(r)
  BY TypeParts DEF IInv, RunInv
<1>2. /\ pc'[u] = pc[u] /\ job'[u] = job[u] /\ want'[u] = want[u] /\ got'[u] = got[u]
      /\ cursor'[u] = cursor[u] /\ deleted'[u] = deleted[u] /\ answer'[u] = answer[u]
  BY DEF Same
<1>3. got[u] \in Seq(Block) /\ \A i \in 1..Len(got[u]) : got[u][i] \in Range(got[u])
  BY <1>1, RangeIs DEF RunsOK
<1>4. \A b \in Range(got[u]) : /\ b \notin Range(newest) => b \notin Range(newest')
                               /\ b \notin Range(body) => b \notin Range(body')
  <2>1. CASE Range(body') \subseteq Range(body) /\ newest' = newest
    BY <2>1
  <2>2. CASE Range(body') \subseteq Range(body) \cup Own(r) /\ newest' = Written(r) /\ May(r)
    BY <1>1, <2>2, WrittenIs DEF WriteInv
  <2> QED
    BY <2>1, <2>2 DEF Shift
<1>5. failed \subseteq failed' /\ moved \subseteq moved' /\ (body' = body \/ (pc[u] = "fetch" => u \in moved'))
  BY DEF Shift
<1>6. PlaceInv(u)'
  BY <1>1, <1>2 DEF RunInv, PlaceInv
<1>7. LateInv(u)'
  <2> SUFFICES ASSUME NEW c \in Calls, NEW b \in Block \cup {NoBlock}, <<c, u, b>> \in late'
               PROVE  /\ c # "delete" => pc'[u] = "done" /\ b = NoBlock
                      /\ c = "head" => <<u, "head">> \in failed'
                      /\ c = "append" => job'[u] \in {"update", "append"}
                      /\ c = "markdown" => job'[u] = "row"
                      /\ c = "delete" => /\ pc'[u] \in {"delete", "final", "done"}
                                         /\ b \in Range(got'[u]) /\ b \notin Range(newest')
    BY DEF LateInv
  <2>1. <<c, u, b>> \in late
    BY DEF NoCallOf
  <2> QED
    BY <1>1, <1>2, <1>4, <1>5, <2>1 DEF RunInv, LateInv
<1>8. KeepInv(u)'
  BY <1>1, <1>2, <1>3, <1>4 DEF RunInv, KeepInv
<1>9. WholeInv(u)'
  BY <1>1, <1>2, <1>5 DEF RunInv, WholeInv
<1>10. GoneInv(u)'
  BY <1>1, <1>2, <1>3, <1>4, <1>5 DEF RunInv, GoneInv
<1> QED
  BY <1>6, <1>7, <1>8, <1>9, <1>10

\* What is nowhere stays nowhere, unless it is written now.
LEMMA Nowhere ==
  ASSUME IInv, PageOK', NEW r \in Run, NEW u \in Run, Shift(r), May(u),
         GotGrows,
         u # r \/ (newest' = newest /\ Range(body') \subseteq Range(body))
  PROVE  Own(u) \cap Range(body') = {} /\ \A s \in Run : Own(u) \cap Range(got'[s]) = {}
<1>1. Own(u) \cap Range(body) = {} /\ \A s \in Run : Own(u) \cap Range(got[s]) = {}
  BY DEF IInv, RunInv, WriteInv
<1>2. u # r => Own(u) \cap Own(r) = {}
  BY WrittenIs
<1> QED
  BY <1>1, <1>2 DEF Shift, GotGrows

\* The other runs at a step of r.
LEMMA Others ==
  ASSUME IInv, PageOK', NEW r \in Run, NEW u \in Run, u # r, Shift(r), Same(u),
         GotGrows
  PROVE  RunInv(u)'
<1>1. RunInv(u)
  BY DEF IInv
<1>2. /\ pc'[u] = pc[u] /\ job'[u] = job[u] /\ want'[u] = want[u] /\ answer'[u] = answer[u]
      /\ NoCallOf(u) /\ (u \in headed' <=> u \in headed) /\ failed \subseteq failed'
  BY DEF Same, Shift
<1>3. PlaceInv(u)' /\ LateInv(u)' /\ KeepInv(u)' /\ WholeInv(u)' /\ GoneInv(u)'
  BY <1>2, Steady
<1>4. WriteInv(u)'
  <2>1. May(u)' => May(u)
    BY <1>2 DEF May, NoCallOf, Calls
  <2>2. May(u) => Own(u) \cap Range(body') = {} /\ \A s \in Run : Own(u) \cap Range(got'[s]) = {}
    BY Nowhere
  <2> QED
    BY <2>1, <2>2 DEF WriteInv
<1>5. HeadInv(u)'
  BY <1>1, <1>2 DEF RunInv, HeadInv
<1> QED
  BY <1>3, <1>4, <1>5 DEF RunInv

\* So a step of r is about r alone.
LEMMA Together ==
  ASSUME IInv, NEW r \in Run, PageOK', RunsOK', NewestSurvives', Shift(r), GotGrows,
         \A u \in Run : u # r => Same(u), RunInv(r)'
  PROVE  IInv'
<1>1. \A u \in Run : u # r => RunInv(u)'
  BY Others
<1>2. TypeOK'
  BY TypeParts, PTL
<1> QED
  BY <1>1, <1>2 DEF IInv

\* Where a run goes on.
LEMMA AfterIs ==
  ASSUME NEW r \in Run
  PROVE  /\ pc[r] = "page" => After(r) = IF job[r] = "row" THEN "schema" ELSE "fetch"
         /\ pc[r] = "schema" => After(r) = IF "head" \in want[r] THEN "head" ELSE "markdown"
         /\ pc[r] = "head" /\ job[r] = "update" => After(r) \in {"fetch", "final"}
         /\ pc[r] = "head" /\ job[r] = "row" => After(r) \in {"markdown", "done"}
         /\ pc[r] = "fetch" => After(r) = IF job[r] = "read" THEN "done" ELSE "append"
         /\ pc[r] = "append" /\ job[r] = "append" => After(r) = "done"
         /\ pc[r] = "append" /\ job[r] = "update" => After(r) = IF got[r] = <<>> THEN "final" ELSE "delete"
         /\ pc[r] = "delete" => After(r) = "final"
         /\ pc[r] \in {"markdown", "final"} => After(r) = "done"
BY DEF After, Content

\* A run that gives up, or is cut off, with its call perhaps still under way.
LEMMA Stopped ==
  ASSUME IInv, PageOK', NEW r \in Run, pc[r] # "idle", pc'[r] = "done",
         job'[r] = job[r], got'[r] = got[r], GotGrows,
         answer'[r] \in {"error", "prefixed", "cut"},
         body' = body, newest' = newest, failed \subseteq failed',
         \/ late' = late
         \/ pc[r] \in Calls /\ <<r, pc[r]>> \in failed' /\ late' = late \cup {<<pc[r], r, Subject(r)>>}
  PROVE  PlaceInv(r)' /\ LateInv(r)' /\ WriteInv(r)' /\ KeepInv(r)' /\ WholeInv(r)' /\ GoneInv(r)'
<1>1. PageOK /\ RunsOK /\ PlaceInv(r) /\ LateInv(r) /\ WriteInv(r) /\ KeepInv(r)
  BY TypeParts DEF IInv, RunInv
<1>2. PlaceInv(r)' /\ KeepInv(r)' /\ WholeInv(r)' /\ GoneInv(r)'
  BY DEF PlaceInv, KeepInv, WholeInv, GoneInv
<1>3. LateInv(r)'
  <2> SUFFICES ASSUME NEW c \in Calls, NEW b \in Block \cup {NoBlock}, <<c, r, b>> \in late'
               PROVE  /\ c # "delete" => b = NoBlock
                      /\ c = "head" => <<r, "head">> \in failed'
                      /\ c = "append" => job[r] \in {"update", "append"}
                      /\ c = "markdown" => job[r] = "row"
                      /\ c = "delete" => b \in Range(got[r]) /\ b \notin Range(newest)
    BY DEF LateInv
  <2>1. CASE <<c, r, b>> \in late
    BY <1>1, <2>1 DEF LateInv
  <2>2. CASE pc[r] = c /\ b = Subject(r) /\ <<r, c>> \in failed'
    <3>1. CASE c = "delete"
      <4>1. deleted[r] + 1 \in 1..Len(got[r]) /\ got[r] \in Seq(Block) /\ deleted[r] + 1 > deleted[r]
        BY <1>1, <2>2, <3>1 DEF RunsOK, PlaceInv
      <4>2. b = got[r][deleted[r] + 1]
        BY <2>2, <3>1 DEF Subject
      <4> QED
        BY <1>1, <2>2, <3>1, <4>1, <4>2, RangeIs DEF KeepInv
    <3>2. CASE c # "delete"
      BY <1>1, <2>2, <3>2 DEF Subject, PlaceInv
    <3> QED
      BY <3>1, <3>2
  <2> QED
    BY <2>1, <2>2
<1>4. WriteInv(r)'
  <2>1. May(r)' => May(r)
    <3>1. \A c \in {"append", "markdown"} : <<c, r, NoBlock>> \in late' => <<c, r, NoBlock>> \in late \/ pc[r] = c
      OBVIOUS
    <3> QED
      BY <3>1 DEF May
  <2>2. Own(r) \cap Range(body) = {} => \A s \in Run :
          Own(r) \cap Range(got[s]) = {} => Own(r) \cap Range(got'[s]) = {}
    BY DEF GotGrows
  <2> QED
    BY <1>1, <2>1, <2>2 DEF WriteInv
<1> QED
  BY <1>2, <1>3, <1>4

\* So the invariant survives that.
LEMMA GivesUp ==
  ASSUME IInv, NEW r \in Run, NEW k \in {"error", "prefixed", "cut"}, pc[r] # "idle",
         Read \/ Unread(r) \/ (pc[r] \in Calls /\ Bad(r)),
         job' = job, want' = want, got' = got, cursor' = cursor,
         deleted' \in [Run -> Nat], \A u \in Run : u # r => deleted'[u] = deleted[u],
         Return(r, k),
         k = "prefixed" => r \in headed,
         k = "error" /\ job[r] = "row" => r \notin headed \/ <<r, "head">> \in failed'
  PROVE  IInv'
<1>1. PageOK /\ RunsOK /\ RunInv(r)
  BY TypeParts DEF IInv
<1>2. /\ PageOK' /\ NewestSurvives' /\ Shift(r)
      /\ body' = body /\ headed' = headed /\ newest' = newest /\ failed \subseteq failed'
      /\ \/ late' = late
         \/ pc[r] \in Calls /\ <<r, pc[r]>> \in failed' /\ late' = late \cup {<<pc[r], r, Subject(r)>>}
  <2>1. CASE Read \/ Unread(r)
    BY <2>1, ReadIs
  <2>2. CASE pc[r] \in Calls /\ Bad(r)
    BY <2>2, BadIs
  <2> QED
    BY <2>1, <2>2
<1>3. pc' = [pc EXCEPT ![r] = "done"] /\ answer' = [answer EXCEPT ![r] = k]
  BY DEF Return
<1>4. GotGrows
  BY DEF GotGrows
<1>5. RunsOK' /\ (\A u \in Run : u # r => Same(u)) /\ pc'[r] = "done" /\ answer'[r] = k
  BY <1>1, <1>3 DEF RunsOK, Same, Places
<1>6. PlaceInv(r)' /\ LateInv(r)' /\ WriteInv(r)' /\ KeepInv(r)' /\ WholeInv(r)' /\ GoneInv(r)'
  BY <1>2, <1>4, <1>5, Stopped
<1>7. HeadInv(r)'
  BY <1>2, <1>5 DEF HeadInv
<1> QED
  BY <1>2, <1>4, <1>5, <1>6, <1>7, Together DEF RunInv

\* A run that has yet to write has no call left behind, and its content is nowhere.
LEMMA Early ==
  ASSUME IInv, PageOK', NEW r \in Run, Shift(r), NoCallOf(r), GotGrows,
         newest' = newest, Range(body') \subseteq Range(body),
         pc[r] \in {"idle", "page", "schema", "head", "fetch"}
  PROVE  LateInv(r)' /\ WriteInv(r)'
<1>1. LateInv(r)
  BY DEF IInv, RunInv
<1>2. LateInv(r)'
  BY <1>1 DEF LateInv, NoCallOf
<1>3. May(r)
  BY DEF May
<1>4. Own(r) \cap Range(body') = {} /\ \A s \in Run : Own(r) \cap Range(got'[s]) = {}
  BY <1>3, Nowhere
<1> QED
  BY <1>2, <1>4 DEF WriteInv

------------------------------------------------------------------------------
(* The steps *)

\* A run that starts has read nothing.
LEMMA StartKeeps ==
  ASSUME IInv, NEW r \in Run, Start(r)
  PROVE  IInv'
<1>1. PageOK /\ RunsOK /\ RunInv(r)
  BY TypeParts DEF IInv
<1>2. PICK j \in Jobs, w \in SUBSET {"head", "content"} :
         /\ job' = [job EXCEPT ![r] = j]
         /\ want' = [want EXCEPT ![r] = w]
         /\ Go(r, CASE j = "append" -> "append"
                    [] j = "update" -> IF "head" \in w THEN "head" ELSE IF "content" \in w THEN "fetch" ELSE "final"
                    [] OTHER -> "page")
  BY DEF Start
<1>3. j \in {"update", "append", "row", "read"}
  BY PageAssumption
<1>4. PICK p \in {"append", "head", "fetch", "final", "page"} :
         /\ Go(r, p)
         /\ p = "append" => j = "append"
         /\ p = "head" => j = "update" /\ "head" \in w
         /\ p \in {"fetch", "final"} => j = "update"
         /\ p = "page" => j \in {"row", "read"}
  BY <1>2, <1>3
<1>5. /\ pc' = [pc EXCEPT ![r] = p] /\ answer' = [answer EXCEPT ![r] = answer[r]]
      /\ got' = got /\ cursor' = cursor /\ deleted' = deleted /\ pc[r] = "idle" /\ Read
  BY <1>4 DEF Go, Start
<1>6. RunsOK' /\ \A u \in Run : u # r => Same(u)
  BY <1>1, <1>2, <1>5 DEF RunsOK, Same, Places
<1>7. /\ PageOK' /\ NewestSurvives' /\ Shift(r) /\ NoCallOf(r)
      /\ body' = body /\ headed' = headed /\ newest' = newest
  BY <1>5, ReadIs
<1>8. GotGrows
  BY <1>5 DEF GotGrows
<1>9. /\ pc'[r] = p /\ job'[r] = j /\ want'[r] = w /\ answer'[r] = "none" /\ got'[r] = <<>>
      /\ cursor'[r] = NoBlock /\ deleted'[r] = 0 /\ r \notin headed
  BY <1>1, <1>2, <1>5 DEF RunsOK, RunInv, PlaceInv, HeadInv
<1>10. LateInv(r)' /\ WriteInv(r)'
  BY <1>5, <1>7, <1>8, Early
<1>11. PlaceInv(r)' /\ KeepInv(r)' /\ WholeInv(r)' /\ GoneInv(r)' /\ HeadInv(r)'
  BY <1>4, <1>7, <1>9 DEF PlaceInv, KeepInv, WholeInv, GoneInv, HeadInv
<1> QED
  BY <1>6, <1>7, <1>8, <1>10, <1>11, Together DEF RunInv

\* The page or the schema is read before anything is written.
LEMMA LookKeeps ==
  ASSUME IInv, NEW r \in Run, Look(r)
  PROVE  IInv'
<1>1. PageOK /\ RunsOK /\ RunInv(r)
  BY TypeParts DEF IInv
<1>2. /\ job' = job /\ want' = want /\ got' = got /\ cursor' = cursor /\ deleted' = deleted
      /\ pc[r] \in {"page", "schema"} /\ (Read \/ Unread(r))
  BY DEF Look
<1>3. /\ PageOK' /\ NewestSurvives' /\ Shift(r) /\ NoCallOf(r)
      /\ body' = body /\ headed' = headed /\ newest' = newest /\ late' = late /\ failed \subseteq failed'
  BY <1>2, ReadIs
<1>4. GotGrows
  BY <1>2 DEF GotGrows
<1>5. /\ got[r] = <<>> /\ cursor[r] = NoBlock /\ deleted[r] = 0 /\ r \notin headed /\ answer[r] = "none"
      /\ job[r] \in {"row", "read"} /\ (pc[r] = "schema" => job[r] = "row")
  BY <1>1, <1>2 DEF RunInv, PlaceInv, HeadInv
<1>6. CASE Onwards(r)
  <2>1. PICK p \in {"schema", "fetch", "head", "markdown"} :
          /\ p = After(r)
          /\ p = "schema" => job[r] = "row"
          /\ p = "fetch" => job[r] = "read"
          /\ p = "head" => job[r] = "row" /\ "head" \in want[r]
          /\ p = "markdown" => job[r] = "row" /\ "head" \notin want[r]
    BY <1>2, <1>5, AfterIs
  <2>2. pc' = [pc EXCEPT ![r] = p] /\ answer' = [answer EXCEPT ![r] = answer[r]]
    BY <1>6, <2>1 DEF Onwards, Go
  <2>3. RunsOK' /\ \A u \in Run : u # r => Same(u)
    BY <1>1, <1>2, <2>2 DEF RunsOK, Same, Places
  <2>4. pc'[r] = p /\ answer'[r] = "none"
    BY <1>1, <1>5, <2>2 DEF RunsOK
  <2>5. LateInv(r)' /\ WriteInv(r)'
    BY <1>2, <1>3, <1>4, Early
  <2>6. PlaceInv(r)' /\ KeepInv(r)' /\ WholeInv(r)' /\ GoneInv(r)' /\ HeadInv(r)'
    BY <1>2, <1>3, <1>5, <2>1, <2>4 DEF PlaceInv, KeepInv, WholeInv, GoneInv, HeadInv
  <2> QED
    BY <1>3, <1>4, <2>3, <2>5, <2>6, Together DEF RunInv
<1>7. CASE Return(r, "error")
  <2>1. deleted' \in [Run -> Nat]
    BY <1>1, <1>2 DEF RunsOK
  <2> QED
    BY <1>2, <1>5, <1>7, <2>1, GivesUp
<1> QED
  BY <1>6, <1>7 DEF Look, Unfit

\* The title or the properties are written, and the blocks stay.
LEMMA WriteHeadKeeps ==
  ASSUME IInv, NEW r \in Run, WriteHead(r)
  PROVE  IInv'
<1>1. PageOK /\ RunsOK /\ RunInv(r)
  BY TypeParts DEF IInv
<1>2. /\ job' = job /\ want' = want /\ got' = got /\ cursor' = cursor /\ deleted' = deleted
      /\ pc[r] = "head" /\ pc[r] \in Calls
  BY DEF WriteHead, Calls
<1>3. GotGrows
  BY <1>2 DEF GotGrows
<1>4. /\ got[r] = <<>> /\ cursor[r] = NoBlock /\ deleted[r] = 0 /\ r \notin headed /\ answer[r] = "none"
      /\ job[r] \in {"row", "update"} /\ "head" \in want[r]
  BY <1>1, <1>2 DEF RunInv, PlaceInv, HeadInv
<1>5. CASE Good(r) /\ Onwards(r)
  <2>1. /\ PageOK' /\ NewestSurvives' /\ Shift(r) /\ NoCallOf(r)
        /\ headed' = headed \cup {r} /\ newest' = newest /\ failed' = failed
    BY <1>2, <1>5, GoodIs
  <2>2. Range(body') \subseteq Range(body)
    BY <1>2, <1>5 DEF Good, Applied
  <2>3. PICK p \in {"fetch", "final", "markdown", "done"} :
          /\ p = After(r)
          /\ p \in {"fetch", "final"} => job[r] = "update"
          /\ p = "markdown" => job[r] = "row"
          /\ p = "done" => job[r] = "row"
    BY <1>2, <1>4, AfterIs
  <2>4. pc' = [pc EXCEPT ![r] = p] /\ answer' = [answer EXCEPT ![r] = IF p = "done" THEN "success" ELSE answer[r]]
    BY <1>5, <2>3 DEF Onwards, Go
  <2>5. RunsOK' /\ \A u \in Run : u # r => Same(u)
    BY <1>1, <1>2, <2>4 DEF RunsOK, Same, Places
  <2>6. pc'[r] = p /\ answer'[r] = IF p = "done" THEN "success" ELSE "none"
    BY <1>1, <1>4, <2>4 DEF RunsOK
  <2>7. LateInv(r)' /\ WriteInv(r)'
    BY <1>2, <1>3, <2>1, <2>2, Early
  <2>8. PlaceInv(r)' /\ KeepInv(r)' /\ WholeInv(r)' /\ GoneInv(r)' /\ HeadInv(r)'
    BY <1>2, <1>4, <2>1, <2>3, <2>6 DEF PlaceInv, KeepInv, WholeInv, GoneInv, HeadInv
  <2> QED
    BY <1>3, <2>1, <2>5, <2>7, <2>8, Together DEF RunInv
<1>6. CASE Bad(r) /\ Return(r, "error")
  <2>1. deleted' \in [Run -> Nat]
    BY <1>1, <1>2 DEF RunsOK
  <2> QED
    BY <1>2, <1>4, <1>6, <2>1, GivesUp
<1> QED
  BY <1>5, <1>6 DEF WriteHead

\* What a reply holds, and what it leaves.
LEMMA FetchIs ==
  ASSUME PageOK, RunsOK, NEW r \in Run, cursor[r] \in Range(body) \cup {NoBlock}
  PROVE  /\ Page(r) \in Seq(Block) /\ Range(Page(r)) \subseteq Range(body)
         /\ Behind(r) \in Block \cup {NoBlock}
         /\ \E f \in Nat \ {0}, m \in Nat :
              /\ IF cursor[r] = NoBlock THEN f = 1 ELSE f \in 1..Len(body) /\ body[f] = cursor[r]
              /\ f \leq m + 1 /\ m \leq Len(body) /\ Page(r) = SubSeq(body, f, m)
              /\ Behind(r) = NoBlock => m = Len(body)
              /\ Behind(r) # NoBlock => f \leq m /\ m < Len(body) /\ Behind(r) = body[m + 1]
<1> DEFINE f == From(r)
           m == Min({f + PageSize - 1, Len(body)})
<1>1. body \in Seq(Block) /\ Len(body) \in Nat /\ PageSize \in Nat \ {0} /\ NoBlock \notin Block
  BY PageAssumption DEF PageOK
<1>2. IF cursor[r] = NoBlock THEN f = 1 ELSE f \in 1..Len(body) /\ body[f] = cursor[r]
  <2>1. CASE cursor[r] = NoBlock
    BY <2>1 DEF From
  <2>2. CASE cursor[r] # NoBlock
    <3>1. \E i \in 1..Len(body) : body[i] = cursor[r]
      BY <1>1, <2>2, RangeIs
    <3> QED
      BY <2>2, <3>1 DEF From
  <2> QED
    BY <2>1, <2>2
<1>3. f \in Nat \ {0} /\ f \leq Len(body) + 1
  BY <1>1, <1>2
<1> HIDE DEF f
<1>4. m = IF f + PageSize - 1 \leq Len(body) THEN f + PageSize - 1 ELSE Len(body)
  <2> DEFINE x == f + PageSize - 1
             y == Len(body)
  <2>1. x \in Int /\ y \in Int
    BY <1>1, <1>3
  <2> HIDE DEF x, y
  <2>2. Min({x, y}) = IF x \leq y THEN x ELSE y
    BY <2>1 DEF Min
  <2> QED
    BY <2>2 DEF x, y
<1>5. m \in Nat /\ f \leq m + 1 /\ m \leq Len(body)
  BY <1>1, <1>3, <1>4
<1>6. Page(r) = SubSeq(body, f, m)
  BY DEF Page, f
<1>7. Behind(r) = IF f + PageSize \leq Len(body) THEN body[f + PageSize] ELSE NoBlock
  BY DEF Behind, f
<1> HIDE DEF m
<1>8. /\ Behind(r) \in Block \cup {NoBlock}
      /\ Behind(r) = NoBlock => m = Len(body)
      /\ Behind(r) # NoBlock => f \leq m /\ m < Len(body) /\ Behind(r) = body[m + 1]
  <2>1. CASE f + PageSize \leq Len(body)
    <3>1. f + PageSize \in 1..Len(body) /\ f + PageSize = m + 1 /\ f \leq m /\ m < Len(body)
      BY <1>1, <1>3, <1>4, <2>1
    <3>2. Behind(r) = body[m + 1] /\ body[m + 1] \in Block
      BY <1>1, <1>7, <2>1, <3>1
    <3> QED
      BY <1>1, <3>1, <3>2
  <2>2. CASE ~(f + PageSize \leq Len(body))
    <3>1. m = Len(body)
      BY <1>1, <1>3, <1>4, <2>2
    <3> QED
      BY <1>7, <2>2, <3>1
  <2> QED
    BY <2>1, <2>2
<1>9. Page(r) \in Seq(Block) /\ Range(Page(r)) \subseteq Range(body)
  <2>1. /\ Page(r) \in Seq(Block) /\ Len(Page(r)) = m + 1 - f
        /\ \A i \in 1..(m + 1 - f) : Page(r)[i] = body[f + i - 1]
    BY <1>1, <1>3, <1>5, <1>6
  <2>2. ASSUME NEW b \in Range(Page(r)) PROVE b \in Range(body)
    <3>1. PICK i \in 1..(m + 1 - f) : b = body[f + i - 1]
      BY <2>1, RangeIs
    <3>2. f + i - 1 \in 1..Len(body)
      BY <1>3, <1>5
    <3> QED
      BY <1>1, <3>1, <3>2, RangeIs
  <2> QED
    BY <2>1, <2>2
<1> QED
  BY <1>2, <1>3, <1>5, <1>6, <1>8, <1>9

\* What was read and what follows it are read together.
LEMMA Joined ==
  ASSUME NEW s \in Seq(Block), NEW k \in Nat, NEW m \in Nat, k \leq m, m \leq Len(s)
  PROVE  /\ SubSeq(s, 1, k) \o SubSeq(s, k + 1, m) = SubSeq(s, 1, m)
         /\ SubSeq(s, 1, Len(s)) = s
         /\ <<>> \o SubSeq(s, 1, m) = SubSeq(s, 1, m)
<1> DEFINE a == SubSeq(s, 1, k)
           b == SubSeq(s, k + 1, m)
           c == SubSeq(s, 1, m)
<1>1. /\ a \in Seq(Block) /\ Len(a) = k /\ \A i \in 1..k : a[i] = s[i]
      /\ b \in Seq(Block) /\ Len(b) = m - k /\ \A i \in 1..(m - k) : b[i] = s[k + i]
      /\ c \in Seq(Block) /\ Len(c) = m /\ \A i \in 1..m : c[i] = s[i]
  OBVIOUS
<1>2. SubSeq(s, 1, Len(s)) = s
  OBVIOUS
<1> HIDE DEF a, b, c
<1>3. <<>> \o c = c
  BY <1>1, ConcatEmptySeq
<1>4. /\ a \o b \in Seq(Block) /\ Len(a \o b) = m
      /\ \A i \in 1..m : (a \o b)[i] = IF i \leq k THEN a[i] ELSE b[i - k]
  <2>1. Len(a) + Len(b) = m
    BY <1>1
  <2>2. /\ a \o b \in Seq(Block) /\ Len(a \o b) = Len(a) + Len(b)
        /\ \A i \in 1..(Len(a) + Len(b)) : (a \o b)[i] = IF i \leq Len(a) THEN a[i] ELSE b[i - Len(a)]
    <3>1. a \in Seq(Block) /\ b \in Seq(Block)
      BY <1>1
    <3> QED
      BY <3>1, ConcatProperties
  <2> QED
    BY <1>1, <2>1, <2>2
<1>5. ASSUME NEW i \in 1..m PROVE (a \o b)[i] = c[i]
  <2>1. CASE i \leq k
    BY <1>1, <1>4, <2>1
  <2>2. CASE ~(i \leq k)
    <3>1. PICK j \in 1..(m - k) : j = i - k
      <4>1. i - k \in 1..(m - k)
        BY <2>2
      <4> QED
        BY <4>1
    <3>2. b[j] = s[k + j] /\ k + j = i
      BY <1>1, <3>1
    <3> QED
      BY <1>1, <1>4, <2>2, <3>1, <3>2
  <2> QED
    BY <2>1, <2>2
<1>6. a \o b = c
  BY <1>1, <1>4, <1>5, SeqEqual
<1> QED
  BY <1>2, <1>3, <1>6 DEF a, b, c

\* One reply more: what has been read is still the beginning of the body, all of
\* it if nothing follows.
LEMMA FetchedIs ==
  ASSUME IInv, NEW r \in Run, pc[r] = "fetch", cursor[r] \in Range(body) \cup {NoBlock}, r \notin moved
  PROVE  /\ Behind(r) = NoBlock => got[r] \o Page(r) = body
         /\ Behind(r) # NoBlock => \E k \in 1..Len(body) :
              k < Len(body) /\ Behind(r) = body[k + 1] /\ got[r] \o Page(r) = SubSeq(body, 1, k)
<1>1. PageOK /\ RunsOK /\ WholeInv(r)
  BY TypeParts DEF IInv, RunInv
<1>2. PICK f \in Nat \ {0}, m \in Nat :
        /\ IF cursor[r] = NoBlock THEN f = 1 ELSE f \in 1..Len(body) /\ body[f] = cursor[r]
        /\ f \leq m + 1 /\ m \leq Len(body) /\ Page(r) = SubSeq(body, f, m)
        /\ Behind(r) = NoBlock => m = Len(body)
        /\ Behind(r) # NoBlock => f \leq m /\ m < Len(body) /\ Behind(r) = body[m + 1]
  BY <1>1, FetchIs
<1>3. body \in Seq(Block) /\ Distinct(body) /\ NoBlock \notin Block
  BY <1>1, PageAssumption DEF PageOK
<1>4. got[r] \o Page(r) = SubSeq(body, 1, m)
  <2>1. CASE cursor[r] = NoBlock /\ got[r] = <<>>
    <3>1. <<>> \o SubSeq(body, 1, m) = SubSeq(body, 1, m)
      BY <1>2, <1>3, Joined
    <3> QED
      BY <1>2, <2>1, <3>1
  <2>2. CASE \E k \in 1..Len(body) : k < Len(body) /\ cursor[r] = body[k + 1] /\ got[r] = SubSeq(body, 1, k)
    <3>1. PICK k \in 1..Len(body) : k < Len(body) /\ cursor[r] = body[k + 1] /\ got[r] = SubSeq(body, 1, k)
      BY <2>2
    <3>2. k + 1 \in 1..Len(body) /\ body[k + 1] \in Block
      BY <1>3, <3>1
    <3>3. f = k + 1
      BY <1>2, <1>3, <3>1, <3>2 DEF Distinct
    <3>4. k \in Nat /\ k \leq m
      BY <1>2, <3>1, <3>3
    <3>5. SubSeq(body, 1, k) \o SubSeq(body, k + 1, m) = SubSeq(body, 1, m)
      BY <1>2, <1>3, <3>4, Joined
    <3> QED
      BY <1>2, <3>1, <3>3, <3>5
  <2> QED
    BY <1>1, <2>1, <2>2 DEF WholeInv
<1>5. SubSeq(body, 1, Len(body)) = body
  BY <1>3
<1>6. Behind(r) # NoBlock => m \in 1..Len(body)
  BY <1>2
<1> QED
  BY <1>2, <1>4, <1>5, <1>6

\* A reply more, or none: what was read without a change is the beginning of the body.
LEMMA FetchPageKeeps ==
  ASSUME IInv, NEW r \in Run, FetchPage(r)
  PROVE  IInv'
<1>1. PageOK /\ RunsOK /\ RunInv(r)
  BY TypeParts DEF IInv
<1>2. job' = job /\ want' = want /\ deleted' = deleted /\ pc[r] = "fetch" /\ (Read \/ Unread(r))
  BY DEF FetchPage
<1>3. /\ PageOK' /\ NewestSurvives' /\ Shift(r) /\ NoCallOf(r) /\ moved' = moved
      /\ body' = body /\ headed' = headed /\ newest' = newest /\ late' = late /\ failed \subseteq failed'
  BY <1>2, ReadIs
<1>4. job[r] \in {"update", "read"} /\ deleted[r] = 0 /\ answer[r] = "none" /\ got[r] \in Seq(Block)
  BY <1>1, <1>2 DEF RunInv, PlaceInv, RunsOK
<1>5. PICK p \in {"append", "done"} :
        /\ p = After(r)
        /\ p = "append" => job[r] = "update"
        /\ p = "done" => job[r] = "read"
  BY <1>2, <1>4, AfterIs
<1>6. ASSUME NEW q \in {"fetch", p},
             pc' = [pc EXCEPT ![r] = q],
             answer' = [answer EXCEPT ![r] = IF q = "done" THEN "success" ELSE answer[r]],
             got' = [got EXCEPT ![r] = got'[r]], got'[r] \in Seq(Block),
             Range(got'[r]) \subseteq Range(got[r]) \cup Range(body),
             cursor' = [cursor EXCEPT ![r] = cursor'[r]], cursor'[r] \in Block \cup {NoBlock},
             q = "fetch" => WholeInv(r)'
      PROVE  IInv'
  <2>1. RunsOK' /\ \A u \in Run : u # r => Same(u)
    BY <1>1, <1>2, <1>4, <1>6 DEF RunsOK, Same, Places
  <2>2. pc'[r] = q /\ answer'[r] = IF q = "done" THEN "success" ELSE "none"
    BY <1>1, <1>4, <1>6 DEF RunsOK
  <2>3. GotGrows
    BY <1>1, <1>6 DEF GotGrows, RunsOK
  <2>4. LateInv(r)' /\ WriteInv(r)'
    BY <1>2, <1>3, <2>3, Early
  <2>5. PlaceInv(r)' /\ KeepInv(r)' /\ GoneInv(r)' /\ HeadInv(r)'
    BY <1>2, <1>3, <1>4, <1>5, <1>6, <2>2 DEF PlaceInv, KeepInv, GoneInv, HeadInv
  <2>6. WholeInv(r)'
    BY <1>6, <2>2 DEF WholeInv
  <2> QED
    BY <1>3, <2>1, <2>3, <2>4, <2>5, <2>6, Together DEF RunInv
<1>7. CASE /\ cursor[r] \in Range(body) \cup {NoBlock}
           /\ Read
           /\ got' = [got EXCEPT ![r] = @ \o Page(r)]
           /\ cursor' = [cursor EXCEPT ![r] = Behind(r)]
           /\ IF Behind(r) = NoBlock THEN Onwards(r) ELSE UNCHANGED <<pc, answer>>
  <2>1. /\ Page(r) \in Seq(Block) /\ Range(Page(r)) \subseteq Range(body)
        /\ Behind(r) \in Block \cup {NoBlock}
    BY <1>1, <1>7, FetchIs
  <2>2. /\ got'[r] = got[r] \o Page(r) /\ got' = [got EXCEPT ![r] = got'[r]]
        /\ cursor'[r] = Behind(r) /\ cursor' = [cursor EXCEPT ![r] = cursor'[r]]
    BY <1>1, <1>7 DEF RunsOK
  <2>3. /\ got[r] \o Page(r) \in Seq(Block)
        /\ Range(got[r] \o Page(r)) \subseteq Range(got[r]) \cup Range(body)
    BY <1>4, <2>1, RangeConcatenation
  <2>4. CASE Behind(r) = NoBlock
    <3>1. /\ pc' = [pc EXCEPT ![r] = p]
          /\ answer' = [answer EXCEPT ![r] = IF p = "done" THEN "success" ELSE answer[r]]
      BY <1>5, <1>7, <2>4 DEF Onwards, Go
    <3> QED
      BY <1>5, <1>6, <2>1, <2>2, <2>3, <3>1
  <2>5. CASE Behind(r) # NoBlock
    <3>1. /\ pc' = [pc EXCEPT ![r] = "fetch"] /\ pc'[r] = "fetch"
          /\ answer' = [answer EXCEPT ![r] = IF "fetch" = "done" THEN "success" ELSE answer[r]]
      BY <1>1, <1>2, <1>7, <2>5 DEF RunsOK
    <3>2. r \notin moved => \E k \in 1..Len(body) :
            k < Len(body) /\ Behind(r) = body[k + 1] /\ got[r] \o Page(r) = SubSeq(body, 1, k)
      BY <1>2, <1>7, <2>5, FetchedIs
    <3>3. WholeInv(r)'
      BY <1>3, <2>2, <3>1, <3>2 DEF WholeInv
    <3> QED
      BY <1>6, <2>1, <2>2, <2>3, <3>1, <3>3
  <2> QED
    BY <2>4, <2>5
<1>8. ASSUME Unread(r), got' = got, cursor' = cursor
      PROVE  /\ got' = [got EXCEPT ![r] = got'[r]] /\ got'[r] \in Seq(Block)
             /\ Range(got'[r]) \subseteq Range(got[r]) \cup Range(body)
             /\ cursor' = [cursor EXCEPT ![r] = cursor'[r]] /\ cursor'[r] \in Block \cup {NoBlock}
  BY <1>1, <1>4, <1>8 DEF RunsOK
<1>9. CASE Unread(r) /\ Onwards(r) /\ got' = got /\ cursor' = cursor
  <2>1. /\ pc' = [pc EXCEPT ![r] = p]
        /\ answer' = [answer EXCEPT ![r] = IF p = "done" THEN "success" ELSE answer[r]]
    BY <1>5, <1>9 DEF Onwards, Go
  <2> QED
    BY <1>5, <1>6, <1>8, <1>9, <2>1
<1>10. CASE Unread(r) /\ Return(r, "error") /\ got' = got /\ cursor' = cursor
  <2>1. deleted' \in [Run -> Nat]
    BY <1>1, <1>2 DEF RunsOK
  <2> QED
    BY <1>2, <1>4, <1>10, <2>1, GivesUp
<1> QED
  BY <1>7, <1>9, <1>10 DEF FetchPage

\* The content comes, and nobody has read it yet.
LEMMA AppendBlocksKeeps ==
  ASSUME IInv, NEW r \in Run, AppendBlocks(r)
  PROVE  IInv'
<1>1. PageOK /\ RunsOK /\ RunInv(r)
  BY TypeParts DEF IInv
<1>2. /\ job' = job /\ want' = want /\ got' = got /\ cursor' = cursor /\ deleted' = deleted
      /\ pc[r] = "append" /\ pc[r] \in Calls
  BY DEF AppendBlocks, Calls
<1>3. GotGrows
  BY <1>2 DEF GotGrows
<1>4. /\ deleted[r] = 0 /\ answer[r] = "none" /\ job[r] \in {"update", "append"} /\ got[r] \in Seq(Block)
      /\ Own(r) \cap Range(got[r]) = {}
  BY <1>1, <1>2 DEF RunInv, PlaceInv, WriteInv, May, RunsOK
<1>5. CASE Good(r) /\ (Onwards(r) \/ (job[r] = "append" /\ Return(r, "error")))
  <2>1. /\ PageOK' /\ NewestSurvives' /\ Shift(r) /\ NoCallOf(r)
        /\ newest' = Written(r) /\ late' = late /\ failed' = failed
    BY <1>2, <1>5, GoodIs
  <2>2. ASSUME NEW p \in {"final", "delete", "done"}, NEW k \in {"none", "success", "error"},
               pc' = [pc EXCEPT ![r] = p], answer' = [answer EXCEPT ![r] = k],
               p \in {"final", "delete"} => job[r] = "update" /\ k = "none",
               p = "done" => job[r] = "append",
               p = "delete" => got[r] # <<>>,
               p = "final" => got[r] = <<>>
        PROVE  IInv'
    <3>1. RunsOK' /\ (\A u \in Run : u # r => Same(u)) /\ pc'[r] = p /\ answer'[r] = k
      BY <1>1, <1>2, <2>2 DEF RunsOK, Same, Places
    <3>2. \A c \in Calls, b \in Block \cup {NoBlock} : <<c, r, b>> \notin late'
      BY <1>1, <1>2, <2>1 DEF RunInv, LateInv
    <3>3. LateInv(r)'
      BY <3>2 DEF LateInv
    <3>4. WriteInv(r)'
      BY <2>2, <3>1, <3>2 DEF WriteInv, May, Calls
    <3>5. p = "delete" => 0 < Len(got[r])
      BY <1>4, <2>2
    <3>6. PlaceInv(r)'
      BY <1>2, <1>4, <2>2, <3>1, <3>5 DEF PlaceInv
    <3>7. KeepInv(r)'
      <4>1. \A i \in 1..Len(got[r]) : got[r][i] \notin Range(newest')
        BY <1>4, <2>1, RangeIs, WrittenIs
      <4> QED
        BY <1>2, <4>1 DEF KeepInv
    <3>8. GoneInv(r)'
      <4>1. p = "final" => Len(got[r]) = 0
        BY <2>2
      <4>2. \A i \in 1..Len(got[r]) : p = "delete" => ~(i \leq 0)
        OBVIOUS
      <4> QED
        BY <1>2, <1>4, <2>2, <3>1, <4>1, <4>2 DEF GoneInv
    <3>9. WholeInv(r)' /\ HeadInv(r)'
      BY <1>2, <1>4, <2>2, <3>1 DEF WholeInv, HeadInv
    <3> QED
      BY <1>3, <2>1, <3>1, <3>3, <3>4, <3>6, <3>7, <3>8, <3>9, Together DEF RunInv
  <2>3. CASE Onwards(r)
    <3>1. PICK p \in {"final", "delete", "done"} :
            /\ p = After(r)
            /\ p \in {"final", "delete"} => job[r] = "update"
            /\ p = "done" => job[r] = "append"
            /\ p = "delete" => got[r] # <<>>
            /\ p = "final" => got[r] = <<>>
      BY <1>2, <1>4, AfterIs
    <3>2. PICK k \in {"none", "success"} : k = IF p = "done" THEN "success" ELSE "none"
      OBVIOUS
    <3>3. pc' = [pc EXCEPT ![r] = p] /\ answer' = [answer EXCEPT ![r] = k]
      BY <1>4, <2>3, <3>1, <3>2 DEF Onwards, Go
    <3>4. p \in {"final", "delete"} => k = "none"
      BY <3>2
    <3> QED
      BY <2>2, <3>1, <3>3, <3>4
  <2>4. CASE job[r] = "append" /\ Return(r, "error")
    <3>1. pc' = [pc EXCEPT ![r] = "done"] /\ answer' = [answer EXCEPT ![r] = "error"]
      BY <2>4 DEF Return
    <3> QED
      BY <2>2, <2>4, <3>1
  <2> QED
    BY <1>5, <2>3, <2>4
<1>6. CASE Bad(r) /\ Return(r, "error")
  <2>1. deleted' \in [Run -> Nat]
    BY <1>1, <1>2 DEF RunsOK
  <2> QED
    BY <1>2, <1>4, <1>6, <2>1, GivesUp
<1> QED
  BY <1>5, <1>6 DEF AppendBlocks

\* What is deleted was read before, so it is not the newest content.
LEMMA DeleteBlockKeeps ==
  ASSUME IInv, NEW r \in Run, DeleteBlock(r)
  PROVE  IInv'
<1>1. PageOK /\ RunsOK /\ RunInv(r)
  BY TypeParts DEF IInv
<1>2. /\ job' = job /\ want' = want /\ got' = got /\ cursor' = cursor
      /\ pc[r] = "delete" /\ pc[r] \in Calls
  BY DEF DeleteBlock, Calls
<1>3. GotGrows
  BY <1>2 DEF GotGrows
<1>4. /\ answer[r] = "none" /\ job[r] = "update" /\ got[r] \in Seq(Block) /\ deleted[r] \in Nat
      /\ deleted[r] + 1 \in 1..Len(got[r]) /\ Subject(r) = got[r][deleted[r] + 1]
  BY <1>1, <1>2 DEF RunInv, PlaceInv, RunsOK, Subject
<1>5. /\ Subject(r) \in Range(got[r]) /\ Subject(r) \notin Range(newest)
  <2>1. deleted[r] + 1 > deleted[r]
    BY <1>4
  <2> QED
    BY <1>1, <1>2, <1>4, <2>1, RangeIs DEF RunInv, KeepInv
<1>6. CASE /\ Good(r) \/ Bad(r)
           /\ deleted' = [deleted EXCEPT ![r] = @ + 1]
           /\ IF deleted[r] + 1 = Len(got[r]) THEN Onwards(r) ELSE UNCHANGED <<pc, answer>>
  <2>1. /\ PageOK' /\ NewestSurvives' /\ Shift(r) /\ newest' = newest /\ failed \subseteq failed'
        /\ \/ late' = late /\ Subject(r) \notin Range(body') /\ Range(body') \subseteq Range(body)
           \/ /\ late' \in {late, late \cup {<<"delete", r, Subject(r)>>}} /\ <<r, "delete">> \in failed'
              /\ Range(body') \subseteq Range(body)
    <3>1. CASE Good(r)
      BY <1>2, <3>1, GoodIs
    <3>2. CASE Bad(r)
      BY <1>2, <3>2, BadIs
    <3> QED
      BY <1>6, <3>1, <3>2
  <2>2. PICK p \in {"delete", "final"} :
          /\ pc' = [pc EXCEPT ![r] = p]
          /\ p = "delete" <=> deleted[r] + 1 # Len(got[r])
    <3>1. CASE deleted[r] + 1 = Len(got[r])
      <4>1. pc' = [pc EXCEPT ![r] = "final"]
        BY <1>2, <1>6, <3>1, AfterIs DEF Onwards, Go
      <4> QED
        BY <3>1, <4>1
    <3>2. CASE deleted[r] + 1 # Len(got[r])
      <4>1. pc' = [pc EXCEPT ![r] = "delete"]
        BY <1>1, <1>2, <1>6, <3>2 DEF RunsOK
      <4> QED
        BY <3>2, <4>1
    <3> QED
      BY <3>1, <3>2
  <2>3. answer' = [answer EXCEPT ![r] = "none"]
    BY <1>1, <1>2, <1>4, <1>6, AfterIs DEF RunsOK, Onwards, Go
  <2>4. RunsOK' /\ (\A u \in Run : u # r => Same(u))
    BY <1>1, <1>2, <1>4, <1>6, <2>2, <2>3 DEF RunsOK, Same, Places
  <2>5. pc'[r] = p /\ answer'[r] = "none" /\ deleted'[r] = deleted[r] + 1
    BY <1>1, <1>6, <2>2, <2>3 DEF RunsOK
  <2>6. PlaceInv(r)'
    BY <1>2, <1>4, <2>2, <2>5 DEF PlaceInv
  <2>7. LateInv(r)'
    <3> SUFFICES ASSUME NEW c \in Calls, NEW b \in Block \cup {NoBlock}, <<c, r, b>> \in late'
                 PROVE  c = "delete" /\ b \in Range(got[r]) /\ b \notin Range(newest)
      BY <1>2, <2>1, <2>5 DEF LateInv
    <3>1. CASE <<c, r, b>> \in late
      BY <1>1, <1>2, <3>1 DEF RunInv, LateInv
    <3>2. CASE c = "delete" /\ b = Subject(r)
      BY <1>5, <3>2
    <3> QED
      BY <2>1, <3>1, <3>2
  <2>8. WriteInv(r)'
    <3>1. ~May(r)'
      BY <1>1, <1>2, <2>1, <2>5 DEF May, RunInv, LateInv, Calls
    <3> QED
      BY <3>1 DEF WriteInv
  <2>9. KeepInv(r)'
    <3>1. \A i \in 1..Len(got[r]) : i > deleted[r] + 1 => i > deleted[r]
      BY <1>4
    <3> QED
      BY <1>1, <1>2, <2>1, <2>5, <3>1 DEF RunInv, KeepInv
  <2>10. GoneInv(r)'
    <3> SUFFICES ASSUME <<r, "delete">> \notin failed',
                        NEW i \in 1..Len(got[r]), p = "delete" => i \leq deleted[r] + 1
                 PROVE  got[r][i] \notin Range(body')
      BY <1>2, <2>5 DEF GoneInv
    <3>1. i \leq deleted[r] \/ i = deleted[r] + 1
      BY <1>4, <2>2
    <3>2. Subject(r) \notin Range(body') /\ Range(body') \subseteq Range(body) /\ <<r, "delete">> \notin failed
      BY <2>1
    <3>3. CASE i \leq deleted[r]
      BY <1>1, <1>2, <1>4, <3>2, <3>3 DEF RunInv, GoneInv
    <3>4. CASE i = deleted[r] + 1
      BY <1>4, <3>2, <3>4
    <3> QED
      BY <3>1, <3>3, <3>4
  <2>11. WholeInv(r)' /\ HeadInv(r)'
    BY <1>2, <1>4, <2>5 DEF WholeInv, HeadInv
  <2> QED
    BY <1>3, <2>1, <2>4, <2>6, <2>7, <2>8, <2>9, <2>10, <2>11, Together DEF RunInv
<1>7. CASE Bad(r) /\ Return(r, "error") /\ deleted' = deleted
  <2>1. deleted' \in [Run -> Nat]
    BY <1>1, <1>7 DEF RunsOK
  <2> QED
    BY <1>2, <1>4, <1>7, <2>1, GivesUp
<1> QED
  BY <1>6, <1>7 DEF DeleteBlock

\* The body is replaced in one call.
LEMMA ReplaceBodyKeeps ==
  ASSUME IInv, NEW r \in Run, ReplaceBody(r)
  PROVE  IInv'
<1>1. PageOK /\ RunsOK /\ RunInv(r)
  BY TypeParts DEF IInv
<1>2. /\ job' = job /\ want' = want /\ got' = got /\ cursor' = cursor /\ deleted' = deleted
      /\ pc[r] = "markdown" /\ pc[r] \in Calls
  BY DEF ReplaceBody, Calls
<1>3. GotGrows
  BY <1>2 DEF GotGrows
<1>4. answer[r] = "none" /\ job[r] = "row" /\ ("head" \in want[r] <=> r \in headed)
  BY <1>1, <1>2 DEF RunInv, PlaceInv, HeadInv
<1>5. CASE Good(r) /\ Onwards(r)
  <2>1. /\ PageOK' /\ NewestSurvives' /\ Shift(r) /\ newest' = Written(r) /\ late' = late
    BY <1>2, <1>5, GoodIs
  <2>2. pc' = [pc EXCEPT ![r] = "done"] /\ answer' = [answer EXCEPT ![r] = "success"]
    BY <1>2, <1>5, AfterIs DEF Onwards, Go
  <2>3. RunsOK' /\ (\A u \in Run : u # r => Same(u)) /\ pc'[r] = "done" /\ answer'[r] = "success"
    BY <1>1, <1>2, <2>2 DEF RunsOK, Same, Places
  <2>4. \A c \in Calls, b \in Block \cup {NoBlock} : <<c, r, b>> \notin late'
    BY <1>1, <1>2, <2>1 DEF RunInv, LateInv
  <2>5. LateInv(r)'
    BY <2>4 DEF LateInv
  <2>6. WriteInv(r)'
    BY <2>3, <2>4 DEF WriteInv, May, Calls
  <2>7. PlaceInv(r)' /\ KeepInv(r)' /\ WholeInv(r)' /\ GoneInv(r)' /\ HeadInv(r)'
    BY <1>2, <1>4, <2>3 DEF PlaceInv, KeepInv, WholeInv, GoneInv, HeadInv
  <2> QED
    BY <1>3, <2>1, <2>3, <2>5, <2>6, <2>7, Together DEF RunInv
<1>6. CASE Bad(r) /\ Return(r, IF "head" \in want[r] THEN "prefixed" ELSE "error")
  <2>1. deleted' \in [Run -> Nat]
    BY <1>1, <1>2 DEF RunsOK
  <2>2. CASE "head" \in want[r]
    BY <1>2, <1>4, <1>6, <2>1, <2>2, GivesUp
  <2>3. CASE "head" \notin want[r]
    BY <1>2, <1>4, <1>6, <2>1, <2>3, GivesUp
  <2> QED
    BY <2>2, <2>3
<1> QED
  BY <1>5, <1>6 DEF ReplaceBody

\* The last call only reads.
LEMMA FinishKeeps ==
  ASSUME IInv, NEW r \in Run, Finish(r)
  PROVE  IInv'
<1>1. PageOK /\ RunsOK /\ RunInv(r)
  BY TypeParts DEF IInv
<1>2. /\ job' = job /\ want' = want /\ got' = got /\ cursor' = cursor /\ deleted' = deleted
      /\ pc[r] = "final" /\ (Read \/ Unread(r))
  BY DEF Finish
<1>3. GotGrows
  BY <1>2 DEF GotGrows
<1>4. answer[r] = "none" /\ job[r] = "update"
  BY <1>1, <1>2 DEF RunInv, PlaceInv
<1>5. CASE Onwards(r)
  <2>1. /\ PageOK' /\ NewestSurvives' /\ Shift(r) /\ body' = body /\ newest' = newest /\ late' = late
        /\ failed \subseteq failed'
    BY <1>2, ReadIs
  <2>2. pc' = [pc EXCEPT ![r] = "done"] /\ answer' = [answer EXCEPT ![r] = "success"]
    BY <1>2, <1>5, AfterIs DEF Onwards, Go
  <2>3. RunsOK' /\ (\A u \in Run : u # r => Same(u)) /\ pc'[r] = "done" /\ answer'[r] = "success"
    BY <1>1, <1>2, <2>2 DEF RunsOK, Same, Places
  <2>4. LateInv(r)'
    BY <1>1, <1>2, <2>1, <2>3 DEF RunInv, LateInv
  <2>5. WriteInv(r)'
    BY <1>1, <1>2, <2>1, <2>3 DEF RunInv, WriteInv, May
  <2>6. GoneInv(r)'
    BY <1>1, <1>2, <2>1, <2>3 DEF RunInv, GoneInv
  <2>7. PlaceInv(r)' /\ KeepInv(r)' /\ WholeInv(r)' /\ HeadInv(r)'
    BY <1>2, <1>4, <2>3 DEF PlaceInv, KeepInv, WholeInv, HeadInv
  <2> QED
    BY <1>3, <2>1, <2>3, <2>4, <2>5, <2>6, <2>7, Together DEF RunInv
<1>6. CASE Return(r, "error")
  <2>1. deleted' \in [Run -> Nat]
    BY <1>1, <1>2 DEF RunsOK
  <2> QED
    BY <1>2, <1>4, <1>6, <2>1, GivesUp
<1> QED
  BY <1>5, <1>6 DEF Finish

\* A run that is cut off leaves its call behind.
LEMMA CutKeeps ==
  ASSUME IInv, NEW r \in Run, Cut(r)
  PROVE  IInv'
<1>1. /\ pc[r] # "idle" /\ (Unread(r) \/ (pc[r] \in Calls /\ Bad(r))) /\ Return(r, "cut")
      /\ job' = job /\ want' = want /\ got' = got /\ cursor' = cursor /\ deleted' = deleted
  BY DEF Cut
<1>2. deleted' \in [Run -> Nat]
  BY <1>1, TypeParts DEF IInv, RunsOK
<1> QED
  BY <1>1, <1>2, GivesUp

\* A call that comes late does what it would have done in time.
LEMMA ArriveKeeps ==
  ASSUME IInv, Arrive
  PROVE  IInv'
<1>1. PICK c \in Calls, r \in Run, b \in Block \cup {NoBlock} :
        <<c, r, b>> \in late /\ Applied(c, r, b) /\ late' = late \ {<<c, r, b>>}
  BY DEF Arrive
<1>2. PageOK /\ RunsOK /\ RunInv(r) /\ NewestSurvives
  BY TypeParts DEF IInv
<1>3. /\ pc' = pc /\ job' = job /\ want' = want /\ got' = got /\ cursor' = cursor
      /\ deleted' = deleted /\ answer' = answer /\ failed' = failed
  BY DEF Arrive
<1>4. RunsOK' /\ (\A u \in Run : Same(u)) /\ GotGrows
  BY <1>2, <1>3 DEF RunsOK, Same, GotGrows
<1>5. /\ c # "delete" => pc[r] = "done" /\ b = NoBlock
      /\ c = "head" => <<r, "head">> \in failed
      /\ c = "append" => job[r] \in {"update", "append"}
      /\ c = "markdown" => job[r] = "row"
      /\ c = "delete" => pc[r] \in {"delete", "final", "done"} /\ b \notin Range(newest)
  BY <1>1, <1>2 DEF RunInv, LateInv
<1>6. c \in {"append", "markdown"} => May(r) /\ Own(r) \cap Range(body) = {}
  BY <1>1, <1>2, <1>5 DEF May, RunInv, WriteInv
<1>7. /\ body' \in Seq(Block) /\ Distinct(body') /\ newest' \in Seq(Block) /\ NewestSurvives'
      /\ headed' = (IF c = "head" THEN headed \cup {r} ELSE headed)
      /\ moved \subseteq moved' /\ moved' \subseteq Run
      /\ body' = body \/ \A s \in Run : pc[s] = "fetch" => s \in moved'
      /\ c \in {"append", "markdown"} =>
           Range(body') \subseteq Range(body) \cup Own(r) /\ newest' = Written(r)
      /\ c \notin {"append", "markdown"} => Range(body') \subseteq Range(body) /\ newest' = newest
  BY <1>1, <1>2, <1>5, <1>6, AppliedIs
<1>8. PageOK'
  BY <1>1, <1>2, <1>3, <1>7 DEF PageOK, Distinct
<1>9. \A u \in Run : NoCallOf(u)
  BY <1>1 DEF NoCallOf
<1>10. Shift(r)
  BY <1>3, <1>6, <1>7, <1>9 DEF Shift
<1>11. PlaceInv(r)' /\ LateInv(r)' /\ KeepInv(r)' /\ WholeInv(r)' /\ GoneInv(r)'
  BY <1>4, <1>8, <1>9, <1>10, Steady
<1>12. WriteInv(r)'
  <2>1. May(r)' => May(r)
    BY <1>3, <1>9 DEF May, NoCallOf, Calls
  <2>2. CASE c \in {"append", "markdown"}
    <3>1. ~May(r)'
      BY <1>1, <1>2, <1>3, <1>5, <2>2 DEF May, RunInv, LateInv, Calls
    <3> QED
      BY <3>1 DEF WriteInv
  <2>3. CASE c \notin {"append", "markdown"}
    <3>1. newest' = newest /\ Range(body') \subseteq Range(body)
      BY <1>7, <2>3
    <3>2. May(r) => Own(r) \cap Range(body') = {} /\ \A s \in Run : Own(r) \cap Range(got'[s]) = {}
      BY <1>4, <1>8, <1>10, <3>1, Nowhere
    <3> QED
      BY <2>1, <3>2 DEF WriteInv
  <2> QED
    BY <2>2, <2>3
<1>13. HeadInv(r)'
  <2>1. CASE c = "head"
    BY <1>3, <1>5, <1>7, <2>1 DEF HeadInv
  <2>2. CASE c # "head"
    BY <1>2, <1>3, <1>7, <2>2 DEF RunInv, HeadInv
  <2> QED
    BY <2>1, <2>2
<1> QED
  BY <1>4, <1>7, <1>8, <1>10, <1>11, <1>12, <1>13, Together DEF RunInv

------------------------------------------------------------------------------
(* The invariant *)

\* The invariant holds at first.
LEMMA InitIInv == Init => IInv
<1> SUFFICES ASSUME Init PROVE IInv
  OBVIOUS
<1>1. Old \subseteq Block
  BY DEF Block
<1>2. /\ Initial \in Seq(Old)
      /\ \A i \in 1..Len(Initial) : Initial[i] \in Old
  BY PageAssumption
<1>3. Initial \in Seq(Block)
  BY <1>1, <1>2
<1>4. Range(Initial) \subseteq Old
  BY DEF Old
<1>5. RunsOK
  BY DEF Init, RunsOK, Places
<1>6. PageOK
  BY <1>3, PageAssumption DEF Init, PageOK, Distinct
<1>7. NewestSurvives
  <2>1. Len(Initial) \in Nat
    BY <1>3
  <2>2. \A i \in 1..Len(Initial) : Len(Initial) - Len(Initial) + i = i
    BY <2>1
  <2>3. IsSuffix(Initial, Initial)
    BY <1>3, <2>1, <2>2, SuffixIs
  <2> QED
    BY <2>3 DEF Init, NewestSurvives
<1>8. ASSUME NEW u \in Run PROVE RunInv(u)
  <2>1. /\ pc[u] = "idle" /\ job[u] = "none" /\ got[u] = <<>> /\ cursor[u] = NoBlock /\ deleted[u] = 0
        /\ answer[u] = "none" /\ late = {} /\ headed = {}
    BY DEF Init
  <2>2. WriteInv(u)
    <3>1. Own(u) \cap Range(body) = {}
      BY <1>4, PageAssumption DEF Init, Own
    <3>2. \A s \in Run : Own(u) \cap Range(got[s]) = {}
      <4>1. Range(<<>>) = {}
        BY DEF Range
      <4> QED
        BY <4>1 DEF Init
    <3> QED
      BY <3>1, <3>2 DEF WriteInv
  <2> QED
    BY <2>1, <2>2 DEF RunInv, PlaceInv, LateInv, KeepInv, WholeInv, GoneInv, HeadInv
<1> QED
  BY <1>5, <1>6, <1>7, <1>8, TypeParts DEF IInv

\* Every step keeps the invariant.
LEMMA StepIInv == IInv /\ [Next]_vars => IInv'
<1> SUFFICES ASSUME IInv, [Next]_vars PROVE IInv'
  OBVIOUS
<1>1. ASSUME NEW r \in Run, Step(r) PROVE IInv'
  BY <1>1, StartKeeps, LookKeeps, WriteHeadKeeps, FetchPageKeeps, AppendBlocksKeeps, DeleteBlockKeeps,
     ReplaceBodyKeeps, FinishKeeps, CutKeeps DEF Step
<1>2. CASE Arrive
  BY <1>2, ArriveKeeps
<1>3. CASE UNCHANGED vars
  <2>1. /\ body' = body /\ pc' = pc /\ job' = job /\ want' = want /\ got' = got /\ cursor' = cursor
        /\ deleted' = deleted /\ late' = late /\ answer' = answer /\ headed' = headed /\ newest' = newest
        /\ failed' = failed /\ moved' = moved
    BY <1>3 DEF vars
  <2>2. TypeOK' /\ NewestSurvives'
    BY <2>1 DEF IInv, TypeOK, NewestSurvives
  <2>3. ASSUME NEW u \in Run PROVE RunInv(u)'
    <3>1. PlaceInv(u) /\ LateInv(u) /\ WriteInv(u) /\ KeepInv(u) /\ WholeInv(u) /\ GoneInv(u) /\ HeadInv(u)
      BY DEF IInv, RunInv
    <3>2. PlaceInv(u)' /\ LateInv(u)'
      BY <2>1, <3>1 DEF PlaceInv, LateInv
    <3>3. WriteInv(u)' /\ KeepInv(u)'
      BY <2>1, <3>1 DEF WriteInv, May, KeepInv
    <3>4. WholeInv(u)' /\ GoneInv(u)' /\ HeadInv(u)'
      BY <2>1, <3>1 DEF WholeInv, GoneInv, HeadInv
    <3> QED
      BY <3>2, <3>3, <3>4 DEF RunInv
  <2> QED
    BY <2>2, <2>3 DEF IInv
<1> QED
  BY <1>1, <1>2, <1>3 DEF Next

\* The inductive invariant holds always: what every run relies on while others read, write,
\* fail and come late.
THEOREM Invariance == Spec => []IInv
BY InitIInv, StepIInv, PTL DEF Spec

\* The variables have their types, and no block is twice on the page.
THEOREM TypeCorrect == Spec => []TypeOK
BY Invariance, PTL DEF IInv

\* The page always ends with the content that was written last, whole: no run
\* deletes what was written after it read, and none deletes before it has
\* written (notion.py:487).
THEOREM NewestContentSurvives == Spec => []NewestSurvives
BY Invariance, PTL DEF IInv

\* A success of update_page, without an unanswered deletion, is a body from
\* which all that had been read is gone (notion.py:487).
THEOREM UpdateReplaces == Spec => []ReplacedWhole
<1>1. IInv => ReplacedWhole
  <2> SUFFICES ASSUME IInv, NEW r \in Run, answer[r] = "success", job[r] = "update",
                      <<r, "delete">> \notin failed,
                      NEW b \in Range(got[r])
               PROVE  b \notin Range(body)
    BY DEF ReplacedWhole
  <2>1. pc[r] = "done" /\ GoneInv(r) /\ got[r] \in Seq(Block)
    BY TypeParts DEF IInv, RunInv, PlaceInv, RunsOK
  <2>2. PICK i \in 1..Len(got[r]) : got[r][i] = b
    BY <2>1, RangeIs
  <2> QED
    BY <2>1, <2>2 DEF GoneInv
<1> QED
  BY <1>1, Invariance, PTL

\* The prefix of update_row's error says whether the properties were written,
\* unless their own call went unanswered (notion_rows.py:322).
THEOREM HonestPrefix == Spec => []PrefixIsHonest
<1>1. IInv => PrefixIsHonest
  BY DEF IInv, RunInv, HeadInv, PrefixIsHonest
<1> QED
  BY <1>1, Invariance, PTL

\* A run reads the whole body, reply by reply, if the body stays as it is and
\* every reply comes (notion.py:234).
THEOREM ReadWhole == Spec => FetchIsWhole
<1> DEFINE Whole(r) == pc[r] = "fetch" /\ pc'[r] # "fetch" /\ r \notin moved /\ <<r, "fetch">> \notin failed' =>
                         got'[r] = body
<1>1. IInv /\ Next => \A r \in Run : Whole(r)
  <2> SUFFICES ASSUME IInv, Next, NEW r \in Run, pc[r] = "fetch", pc'[r] # "fetch", r \notin moved,
                      <<r, "fetch">> \notin failed'
               PROVE  got'[r] = body
    OBVIOUS
  <2>1. pc \in [Run -> Places] /\ got \in [Run -> Seq(Block)]
    BY TypeParts DEF IInv, RunsOK
  <2>2. PICK u \in Run : Step(u)
    BY DEF Next, Arrive
  <2>3. u = r
    BY <2>1, <2>2 DEF Step, Start, Look, WriteHead, FetchPage, AppendBlocks, DeleteBlock, ReplaceBody, Finish,
       Cut, Onwards, Go, Return, Unfit
  <2>4. FetchPage(r)
    BY <2>2, <2>3 DEF Step, Start, Look, WriteHead, AppendBlocks, DeleteBlock, ReplaceBody, Finish, Cut, Calls,
       Unread
  <2>5. /\ cursor[r] \in Range(body) \cup {NoBlock}
        /\ got' = [got EXCEPT ![r] = @ \o Page(r)]
        /\ Behind(r) = NoBlock
    BY <2>4 DEF FetchPage, Unread
  <2>6. got[r] \o Page(r) = body
    BY <2>5, FetchedIs
  <2> QED
    BY <2>1, <2>5, <2>6
<1>2. IInv /\ [Next]_vars => [\A r \in Run : Whole(r)]_vars
  BY <1>1
<1> QED
  BY <1>2, Invariance, PTL DEF Spec, FetchIsWhole

=============================================================================
