--------------------------- MODULE BranchKeysProofs ---------------------------
(***************************************************************************)
(* Branches keep their keys, and a workflow that finish() accepts can be   *)
(* run, for lists of any length and any number of nodes, keys and names.   *)
(*                                                                         *)
(* TypeOK is inductive.  It says among others that every key in use has    *)
(* been used (InUse), so that a new key is none of them; the rest of       *)
(* KeysStay is about one call of _keyed_branches (module BranchKeys, Keyed)*)
(* and needs that of the branches that say one key, one is the first.      *)
(***************************************************************************)
EXTENDS BranchKeys, WellFoundedInduction, TLAPS

\* A set of numbers that is not empty has a least one.
LEMMA LeastNumber == ASSUME NEW T, T \subseteq Nat, T # {} PROVE \E m \in T : \A n \in T : m \leq n
<1> DEFINE R == OpToRel(<, Nat)
<1>1. IsWellFoundedOn(R, Nat)
  BY NatLessThanWellFounded
<1>2. \A m, n \in Nat : n < m => <<n, m>> \in R
  BY DEF OpToRel
<1> HIDE DEF R
<1>3. PICK m \in T : \A n \in T : ~ (<<n, m>> \in R)
  BY <1>1, WFMin
<1>4. ASSUME NEW n \in T PROVE m \leq n
  <2>1. m \in Nat /\ n \in Nat
    BY <1>4
  <2>2. ~ (<<n, m>> \in R)
    BY <1>3, <1>4
  <2>3. ~ (n < m)
    BY <1>2, <2>1, <2>2
  <2> QED
    BY <2>1, <2>3
<1> QED
  BY <1>4

------------------------------------------------------------------------------
(* _keyed_branches *)

\* The keys that can be kept are keys of the builder.
LEMMA ExistingType ==
  ASSUME NEW old \in Seq(Branch)
  PROVE  Existing(old) \subseteq Key /\ Existing(old) = KeysOf(old) \cap Key
<1>1. \A i \in 1..Len(old) : old[i] \in Branch
  OBVIOUS
<1>2. KeysOf(old) \subseteq Key \cup Reserved \cup {""}
  BY <1>1 DEF KeysOf, Branch
<1> QED
  BY <1>2, BranchAssumption DEF Existing

\* A name stands for one key at most, and for one of a branch of that name.
LEMMA NameOfKey ==
  ASSUME NEW old \in Seq(Branch), NEW name, NEW k \in KeyOfName(old, name)
  PROVE  /\ k \in Existing(old)
         /\ \E j \in 1..Len(old) : old[j].key = k /\ old[j].name = name
         /\ \A l \in KeyOfName(old, name) : l = k
<1> DEFINE First(j) == j \in 1..Len(old) /\ Named(old, j, name) /\ \A i \in 1..(j - 1) : ~Named(old, i, name)
<1>1. PICK j \in 1..Len(old) : First(j) /\ old[j].key = k
  BY DEF KeyOfName
<1>2. k \in Existing(old) /\ old[j].name = name
  BY <1>1 DEF Named
<1>3. ASSUME NEW l \in KeyOfName(old, name) PROVE l = k
  <2>1. PICK i \in 1..Len(old) : First(i) /\ old[i].key = l
    BY DEF KeyOfName
  <2>2. i \in Nat /\ j \in Nat /\ i >= 1 /\ j >= 1
    OBVIOUS
  <2>3. ~(i < j) /\ ~(j < i)
    <3>1. ASSUME i < j PROVE FALSE
      <4>1. i \in 1..(j - 1)
        BY <2>2, <3>1
      <4> QED
        BY <1>1, <2>1, <4>1
    <3>2. ASSUME j < i PROVE FALSE
      <4>1. j \in 1..(i - 1)
        BY <2>2, <3>2
      <4> QED
        BY <1>1, <2>1, <4>1
    <3> QED
      BY <3>1, <3>2
  <2>4. i = j
    BY <2>2, <2>3
  <2> QED
    BY <1>1, <2>1, <2>4
<1> QED
  BY <1>1, <1>2, <1>3

\* What an element inherits: the key of its name, which nobody says and no
\* earlier element has inherited.
LEMMA Inherited ==
  \A old, said \in Seq(Branch) : \A made, i :
    ~Says(old, said, i) /\ Inherits(old, said, i) =>
      /\ KeyFor(old, said, made, i) \in KeyOfName(old, said[i].name)
      /\ Silent(said, i)
      /\ KeyFor(old, said, made, i) \notin KeysOf(said)
      /\ \A j \in 1..(i - 1) :
           ~(Silent(said, j) /\ KeyFor(old, said, made, i) \in KeyOfName(old, said[j].name))
<1> TAKE old, said \in Seq(Branch)
<1> TAKE made, i
<1> HAVE ~Says(old, said, i) /\ Inherits(old, said, i)
<1>1. PICK k \in KeyOfName(old, said[i].name) :
        /\ Silent(said, i)
        /\ k \notin KeysOf(said)
        /\ \A j \in 1..(i - 1) : ~(Silent(said, j) /\ k \in KeyOfName(old, said[j].name))
  BY DEF Inherits
<1>2. KeyFor(old, said, made, i) \in KeyOfName(old, said[i].name)
  BY <1>1 DEF KeyFor
<1>3. KeyFor(old, said, made, i) = k
  BY <1>1, <1>2, NameOfKey
<1> QED
  BY <1>1, <1>3

\* The new keys are the builder's, unused, and all different.
LEMMA MadeType ==
  ASSUME NEW old, NEW said, NEW made \in Made(old, said),
         NEW i \in 1..Len(said), ~Says(old, said, i), ~Inherits(old, said, i)
  PROVE  /\ made[i] \in Key \ spent
         /\ \A j \in 1..Len(said) : ~Says(old, said, j) /\ ~Inherits(old, said, j) /\ made[j] = made[i] => j = i
  BY DEF Made

\* Two elements do not get one key.
LEMMA KeysDiffer ==
  ASSUME NEW old \in Seq(Branch), NEW said \in Seq(Branch), NEW made \in Made(old, said),
         Existing(old) \subseteq spent,
         NEW i \in 1..Len(said), NEW j \in 1..Len(said), i < j
  PROVE  KeyFor(old, said, made, i) # KeyFor(old, said, made, j)
<1> DEFINE k == KeyFor(old, said, made, i)
           l == KeyFor(old, said, made, j)
<1>1. i \in 1..(j - 1)
  OBVIOUS
<1>2. CASE Says(old, said, i)
  <2>1. k = said[i].key /\ k \in Existing(old) /\ k \in KeysOf(said)
    BY <1>2 DEF Says, KeyFor, KeysOf
  <2>2. CASE Says(old, said, j)
    <3>1. l = said[j].key /\ said[i].key # said[j].key
      BY <1>1, <2>2 DEF Says, KeyFor
    <3> QED
      BY <2>1, <3>1
  <2>3. CASE ~Says(old, said, j) /\ Inherits(old, said, j)
    BY <2>1, <2>3, Inherited
  <2>4. CASE ~Says(old, said, j) /\ ~Inherits(old, said, j)
    BY <2>1, <2>4, MadeType DEF KeyFor
  <2> QED
    BY <2>2, <2>3, <2>4
<1>3. CASE ~Says(old, said, i) /\ Inherits(old, said, i)
  <2>1. k \in KeyOfName(old, said[i].name) /\ Silent(said, i) /\ k \notin KeysOf(said)
    BY <1>3, Inherited
  <2>2. k \in Existing(old)
    BY <2>1, NameOfKey
  <2>3. CASE Says(old, said, j)
    BY <2>1, <2>3 DEF Says, KeyFor, KeysOf
  <2>4. CASE ~Says(old, said, j) /\ Inherits(old, said, j)
    <3>1. ~(Silent(said, i) /\ l \in KeyOfName(old, said[i].name))
      BY <1>1, <2>4, Inherited
    <3> QED
      BY <2>1, <3>1
  <2>5. CASE ~Says(old, said, j) /\ ~Inherits(old, said, j)
    BY <2>2, <2>5, MadeType DEF KeyFor
  <2> QED
    BY <2>3, <2>4, <2>5
<1>4. CASE ~Says(old, said, i) /\ ~Inherits(old, said, i)
  <2>1. k = made[i] /\ k \notin Existing(old)
    BY <1>4, MadeType DEF KeyFor
  <2>2. CASE Says(old, said, j)
    BY <2>1, <2>2 DEF Says, KeyFor
  <2>3. CASE ~Says(old, said, j) /\ Inherits(old, said, j)
    <3>1. l \in Existing(old)
      BY <2>3, Inherited, NameOfKey
    <3> QED
      BY <2>1, <3>1
  <2>4. CASE ~Says(old, said, j) /\ ~Inherits(old, said, j)
    <3>1. l = made[j]
      BY <2>4 DEF KeyFor
    <3>2. made[i] = made[j] => i = j
      BY <1>4, <2>4, MadeType
    <3> QED
      BY <2>1, <3>1, <3>2
  <2> QED
    BY <2>2, <2>3, <2>4
<1> QED
  BY <1>2, <1>3, <1>4

\* What _keyed_branches does to keys.
LEMMA KeyedKeeps ==
  ASSUME NEW old \in Seq(Branch), NEW said \in Seq(Branch), NEW made \in Made(old, said),
         Existing(old) \subseteq spent
  PROVE  LET new == Keyed(old, said, made) IN
         /\ KeysKept(old, new, said)
         /\ \A k \in KeysOf(new) \ KeysOf(old) : k \notin spent
         /\ new \in Seq(Branch)
<1> DEFINE new == Keyed(old, said, made)
           n == Len(said)
<1>1. /\ n \in Nat /\ Len(new) = n /\ DOMAIN new = 1..n
      /\ \A i \in 1..n : new[i] = [key |-> KeyFor(old, said, made, i), name |-> said[i].name]
  BY DEF Keyed
<1>2. \A i \in 1..n : said[i] \in Branch
  OBVIOUS
<1>3. ASSUME NEW i \in 1..n
      PROVE  /\ KeyFor(old, said, made, i) \in Key
             /\ \/ KeyFor(old, said, made, i) \in Existing(old) /\ Means(old, said, i, KeyFor(old, said, made, i))
                \/ KeyFor(old, said, made, i) \notin spent
  <2>1. CASE Says(old, said, i)
    BY <2>1, ExistingType DEF Says, KeyFor, Means
  <2>2. CASE ~Says(old, said, i) /\ Inherits(old, said, i)
    <3>1. KeyFor(old, said, made, i) \in KeyOfName(old, said[i].name) /\ Silent(said, i)
      BY <2>2, Inherited
    <3> QED
      BY <3>1, NameOfKey, ExistingType DEF Means
  <2>3. CASE ~Says(old, said, i) /\ ~Inherits(old, said, i)
    BY <2>3, MadeType DEF KeyFor
  <2> QED
    BY <2>1, <2>2, <2>3
<1>4. ASSUME NEW i \in 1..n, NEW j \in 1..n, new[i].key = new[j].key PROVE i = j
  <2>1. KeyFor(old, said, made, i) = KeyFor(old, said, made, j)
    BY <1>1, <1>4
  <2>2. ~(i < j) /\ ~(j < i)
    BY <2>1, KeysDiffer
  <2> QED
    BY <2>2
<1>5. ASSUME NEW i \in 1..n, said[i].key \in Existing(old)
      PROVE  \E j \in 1..n : said[j].key = said[i].key /\ new[j].key = said[i].key
  <2> DEFINE T == {j \in 1..n : said[j].key = said[i].key}
  <2>0. T \subseteq Nat /\ T # {}
    BY <1>5
  <2>1. PICK j \in T : \A m \in T : j \leq m
    BY <2>0, LeastNumber
  <2>2. \A m \in 1..(j - 1) : said[m].key # said[j].key
    BY <2>1
  <2>3. Says(old, said, j)
    BY <1>5, <2>1, <2>2 DEF Says
  <2> QED
    BY <1>1, <2>1, <2>3 DEF KeyFor
<1>6. ASSUME NEW i \in 1..n, new[i].key \in KeysOf(old) PROVE Means(old, said, i, new[i].key)
  <2>1. new[i].key = KeyFor(old, said, made, i)
    BY <1>1
  <2>2. new[i].key \in Existing(old)
    BY <1>3, <1>6, <2>1, ExistingType
  <2> QED
    BY <1>3, <2>1, <2>2
<1>7. KeysKept(old, new, said)
  <2>1. \A i \in 1..n : new[i].name = said[i].name /\ new[i].key \in Key
    BY <1>1, <1>3
  <2> QED
    BY <1>1, <1>4, <1>5, <1>6, <2>1 DEF KeysKept
<1>8. \A k \in KeysOf(new) \ KeysOf(old) : k \notin spent
  BY <1>1, <1>3, ExistingType DEF KeysOf
<1>9. new \in Seq(Branch)
  <2>1. ASSUME NEW i \in 1..n PROVE new[i] \in Branch
    <3>1. KeyFor(old, said, made, i) \in Key
      BY <1>3
    <3>2. said[i].name \in Name \cup {""}
      BY <1>2 DEF Branch
    <3>3. new[i] = [key |-> KeyFor(old, said, made, i), name |-> said[i].name]
      BY <1>1
    <3>4. \A k \in Key, m \in Name \cup {""} : [key |-> k, name |-> m] \in Branch
      BY DEF Branch
    <3> QED
      BY <3>1, <3>2, <3>3, <3>4
  <2>2. new = [i \in 1..n |-> new[i]]
    BY <1>1 DEF Keyed
  <2> QED
    BY <1>1, <2>1, <2>2
<1> QED
  BY <1>7, <1>8, <1>9

------------------------------------------------------------------------------
(* The types *)

\* The keys of the connections that may be drawn are in use.
LEMMA AllowedType ==
  ASSUME NEW w \in Workflow
  PROVE  /\ Allowed(w) \subseteq Key \cup Reserved
         /\ Allowed(w) \ Reserved \subseteq Existing(w.branches)
<1>1. w.branches \in Seq(Branch)
  BY DEF Workflow
<1>2. \A i \in 1..Len(w.branches) : w.branches[i].key \in Key \cup Reserved \cup {""}
  <2>1. \A i \in 1..Len(w.branches) : w.branches[i] \in Branch
    BY <1>1
  <2> QED
    BY <2>1 DEF Branch
<1>3. KeysOf(w.branches) \subseteq Key \cup Reserved \cup {""}
  BY <1>2 DEF KeysOf
<1> QED
  BY <1>3 DEF Allowed, Existing, Reserved

\* The keys in use are the builder's.
LEMMA InUseType ==
  ASSUME NEW w \in Workflow
  PROVE  InUse(w) \subseteq Key
<1>1. \A e \in w.edges : e.by \in Key \cup Reserved
  BY DEF Workflow, Edge
<1>2. w.branches \in Seq(Branch)
  BY DEF Workflow
<1> QED
  BY <1>1, <1>2, ExistingType DEF InUse

\* The connections of a workflow are changed.
LEMMA EdgesType ==
  ASSUME NEW w \in Workflow, NEW edges \in SUBSET Edge
  PROVE  /\ [w EXCEPT !.edges = edges] \in Workflow
         /\ [w EXCEPT !.edges = edges].branches = w.branches
         /\ [w EXCEPT !.edges = edges].nodes = w.nodes
         /\ [w EXCEPT !.edges = edges].edges = edges
  BY DEF Workflow

\* What a step has to show.
LEMMA TypeFrom ==
  ASSUME flow' \in Workflow, \A e \in flow'.edges : e.to \in flow'.nodes,
         adding' \in [Node -> Key \cup Reserved \cup {""}], \A n \in flow'.nodes : adding'[n] = "",
         spent' \subseteq Key, InUse(flow') \subseteq spent',
         sent' \in Seq(Branch), accepted' \in BOOLEAN
  PROVE  TypeOK'
  BY DEF TypeOK

\* Steps other than set_fields and finish() leave the histories empty.
LEMMA PlainType == Plain => sent' \in Seq(Branch) /\ accepted' \in BOOLEAN
<1>1. <<>> \in Seq(Branch) /\ FALSE \in BOOLEAN
  OBVIOUS
<1> QED
  BY <1>1 DEF Plain

\* What set_fields leaves is a workflow with the same nodes and some of the connections.
LEMMA WriteType ==
  ASSUME TypeOK, NEW list \in Seq(Branch), NEW new \in Seq(Branch), NEW stop \in BOOLEAN, Write(list, new, stop)
  PROVE  /\ TypeOK'
         /\ flow'.branches = list
         /\ \A e \in flow.edges \ flow'.edges : e.by \notin Allowed(flow')
<1> DEFINE w == [flow EXCEPT !.branches = list, !.stop = stop]
           kept == {e \in flow.edges : e.by \in Allowed(w)}
<1>1. /\ flow \in Workflow /\ \A e \in flow.edges : e.to \in flow.nodes
      /\ adding \in [Node -> Key \cup Reserved \cup {""}] /\ \A n \in flow.nodes : adding[n] = ""
      /\ spent \subseteq Key
  BY DEF TypeOK
<1>2. /\ w \in Workflow /\ w.branches = list /\ w.stop = stop /\ w.nodes = flow.nodes /\ w.edges = flow.edges
  <2>1. flow \in Workflow
    BY <1>1
  <2> QED
    BY <2>1 DEF Workflow
<1>3. kept \in SUBSET Edge
  BY <1>1 DEF Workflow
<1>4. flow' = [w EXCEPT !.edges = kept]
  BY <1>2 DEF Write, Pruned
<1> HIDE DEF w, kept
<1>5. flow' \in Workflow /\ flow'.branches = list /\ flow'.stop = stop /\ flow'.nodes = flow.nodes /\ flow'.edges = kept
  <2>1. flow'.stop = w.stop
    BY <1>2, <1>4 DEF Workflow
  <2> QED
    BY <1>2, <1>3, <1>4, <2>1, EdgesType
<1>6. /\ InUse(flow') \subseteq Key /\ spent' = spent \cup InUse(flow')
      /\ adding' = adding /\ sent' = new /\ accepted' = FALSE
  BY <1>5, InUseType DEF Write
<1>7. Allowed(flow') = Allowed(w)
  BY <1>2, <1>5 DEF Allowed
<1>8. TypeOK'
  <2>1. \A e \in kept : e \in flow.edges
    BY DEF kept
  <2> QED
    BY <1>1, <1>5, <1>6, <2>1, TypeFrom
<1> QED
  BY <1>5, <1>7, <1>8 DEF kept

\* What a step of set_fields writes.
LEMMA SetFieldsWrites ==
  ASSUME TypeOK, SetFields
  PROVE  /\ TypeOK'
         /\ \A e \in flow.edges \ flow'.edges : e.by \notin Allowed(flow')
         /\ \/ flow'.branches = flow.branches
            \/ flow'.branches = <<>> /\ sent' = <<>>
            \/ \E new \in Lists : \E made \in Made(flow.branches, new) :
                 flow'.branches = Keyed(flow.branches, new, made) /\ sent' = new
<1>1. PICK stop \in BOOLEAN :
        \/ Write(flow.branches, <<>>, stop)
        \/ Write(<<>>, <<>>, stop)
        \/ \E new \in Lists : \E made \in Made(flow.branches, new) :
             Write(Keyed(flow.branches, new, made), new, stop)
  BY DEF SetFields
<1>2. <<>> \in Seq(Branch) /\ flow.branches \in Seq(Branch)
  <2>1. flow \in Workflow
    BY DEF TypeOK
  <2>2. flow.branches \in Seq(Branch)
    BY <2>1 DEF Workflow
  <2> QED
    BY <2>2
<1>3. CASE Write(flow.branches, <<>>, stop)
  BY <1>2, <1>3, WriteType
<1>4. CASE Write(<<>>, <<>>, stop)
  <2>1. sent' = <<>>
    BY <1>4 DEF Write
  <2> QED
    BY <1>2, <1>4, <2>1, WriteType
<1>5. ASSUME NEW new \in Lists, NEW made \in Made(flow.branches, new),
             Write(Keyed(flow.branches, new, made), new, stop)
      PROVE  /\ TypeOK'
             /\ \A e \in flow.edges \ flow'.edges : e.by \notin Allowed(flow')
             /\ flow'.branches = Keyed(flow.branches, new, made)
             /\ sent' = new
  <2>1. new \in Seq(Branch)
    BY BranchAssumption
  <2>2. Existing(flow.branches) \subseteq spent
    BY DEF TypeOK, InUse
  <2>3. Keyed(flow.branches, new, made) \in Seq(Branch)
    BY <1>2, <2>1, <2>2, KeyedKeeps
  <2>4. sent' = new
    BY <1>5 DEF Write
  <2> QED
    BY <1>5, <2>1, <2>3, <2>4, WriteType
<1> QED
  BY <1>1, <1>3, <1>4, <1>5

\* The initial states have the types.
LEMMA InitType == Init => TypeOK
<1> SUFFICES ASSUME Init PROVE TypeOK
  OBVIOUS
<1>1. flow \in Workflow /\ \A e \in flow.edges : e.to \in flow.nodes
  BY BranchAssumption DEF Init
<1>2. spent \subseteq Key /\ InUse(flow) \subseteq spent
  BY <1>1, InUseType DEF Init
<1>3. adding \in [Node -> Key \cup Reserved \cup {""}] /\ \A n \in Node : adding[n] = ""
  BY DEF Init
<1>4. flow.nodes \subseteq Node
  BY <1>1 DEF Workflow
<1>5. sent \in Seq(Branch) /\ accepted \in BOOLEAN
  <2>1. <<>> \in Seq(Branch) /\ FALSE \in BOOLEAN
    OBVIOUS
  <2>2. sent = <<>> /\ accepted = FALSE
    BY DEF Init
  <2> QED
    BY <2>1, <2>2
<1> QED
  BY <1>1, <1>2, <1>3, <1>4, <1>5 DEF TypeOK

\* Every step keeps the types.
LEMMA TypeStep == TypeOK /\ [Next]_vars => TypeOK'
<1> SUFFICES ASSUME TypeOK, [Next]_vars PROVE TypeOK'
  OBVIOUS
<1>1. /\ flow \in Workflow /\ \A e \in flow.edges : e.to \in flow.nodes
      /\ adding \in [Node -> Key \cup Reserved \cup {""}] /\ \A n \in flow.nodes : adding[n] = ""
      /\ spent \subseteq Key /\ InUse(flow) \subseteq spent
      /\ flow.nodes \subseteq Node /\ flow.edges \subseteq Edge
  BY DEF TypeOK, Workflow
<1>2. CASE SetFields
  BY <1>2, SetFieldsWrites
<1>3. ASSUME NEW n \in Node, NEW by \in Key \cup Reserved, AddNode(n, by) PROVE TypeOK'
  <2>1. flow' = flow /\ spent' = spent /\ adding' = [adding EXCEPT ![n] = by] /\ n \notin flow.nodes
    BY <1>3 DEF AddNode
  <2>2. sent' \in Seq(Branch) /\ accepted' \in BOOLEAN
    BY <1>3, PlainType DEF AddNode
  <2>3. adding' \in [Node -> Key \cup Reserved \cup {""}] /\ \A m \in flow.nodes : adding'[m] = ""
    BY <1>1, <2>1
  <2> QED
    BY <1>1, <2>1, <2>2, <2>3, TypeFrom
<1>4. ASSUME NEW n \in Node, NEW by \in Key \cup Reserved, Connect(n, by) PROVE TypeOK'
  <2> DEFINE edge == [to |-> n, by |-> by]
             edges == flow.edges \cup {edge}
  <2>1. edge \in Edge /\ edge.to = n /\ edge.by = by
    BY DEF Edge
  <2>2. /\ flow' = [flow EXCEPT !.edges = edges] /\ n \in flow.nodes /\ by \in Allowed(flow)
        /\ spent' = spent /\ adding' = adding
    BY <1>4 DEF Connect
  <2>3. sent' \in Seq(Branch) /\ accepted' \in BOOLEAN
    BY <1>4, PlainType DEF Connect
  <2>4. by \in Reserved \/ by \in spent
    BY <1>1, <2>2, AllowedType DEF InUse
  <2> HIDE DEF edge
  <2>5. edges \in SUBSET Edge /\ \A e \in edges : e.to \in flow.nodes
    BY <1>1, <2>1, <2>2
  <2>6. \A e \in edges : e \in flow.edges \/ e.by = by
    BY <2>1
  <2> HIDE DEF edges
  <2>7. flow' \in Workflow /\ flow'.branches = flow.branches /\ flow'.nodes = flow.nodes /\ flow'.edges = edges
    BY <1>1, <2>2, <2>5, EdgesType
  <2>8. InUse(flow') \subseteq spent
    BY <1>1, <2>4, <2>6, <2>7 DEF InUse
  <2> QED
    BY <1>1, <2>2, <2>3, <2>5, <2>7, <2>8, TypeFrom
<1>5. ASSUME NEW n \in Node, NodeAdded(n) PROVE TypeOK'
  <2> DEFINE by == adding[n]
             edge == [to |-> n, by |-> by]
             nodes == flow.nodes \cup {n}
             edges == flow.edges \cup {edge}
  <2>1. by \in Key \cup Reserved
    BY <1>1, <1>5 DEF NodeAdded
  <2>2. edge \in Edge /\ edge.to = n /\ edge.by = by
    BY <2>1 DEF Edge
  <2>3. /\ flow' = [flow EXCEPT !.nodes = nodes, !.edges = edges]
        /\ spent' = spent \cup ({by} \ Reserved) /\ adding' = [adding EXCEPT ![n] = ""]
    <3>1. /\ flow' = [flow EXCEPT !.nodes = flow.nodes \cup {n}, !.edges = flow.edges \cup {[to |-> n, by |-> adding[n]]}]
      BY <1>5 DEF NodeAdded
    <3> QED
      BY <1>5, <3>1 DEF NodeAdded
  <2>4. sent' \in Seq(Branch) /\ accepted' \in BOOLEAN
    BY <1>5, PlainType DEF NodeAdded
  <2>5. adding' \in [Node -> Key \cup Reserved \cup {""}] /\ \A m \in nodes : adding'[m] = ""
    BY <1>1, <2>3
  <2> HIDE DEF edge, by
  <2>6. edges \in SUBSET Edge /\ nodes \in SUBSET Node /\ \A e \in edges : e.to \in nodes
    BY <1>1, <2>2
  <2>7. \A e \in edges : e \in flow.edges \/ e.by = by
    BY <2>2
  <2> HIDE DEF edges, nodes
  <2>8. flow' \in Workflow /\ flow'.branches = flow.branches /\ flow'.nodes = nodes /\ flow'.edges = edges
    <3>1. nodes \in SUBSET Node /\ edges \in SUBSET Edge /\ flow \in Workflow
      BY <1>1, <2>6
    <3> QED
      BY <2>3, <3>1 DEF Workflow
  <2>9. InUse(flow') \subseteq spent' /\ spent' \subseteq Key
    BY <1>1, <2>1, <2>3, <2>7, <2>8 DEF InUse
  <2> QED
    BY <2>4, <2>5, <2>6, <2>8, <2>9, TypeFrom
<1>6. ASSUME NEW n \in Node, NodeRefused(n) PROVE TypeOK'
  <2>1. flow' = flow /\ spent' = spent /\ adding' = [adding EXCEPT ![n] = ""]
    BY <1>6 DEF NodeRefused
  <2>2. sent' \in Seq(Branch) /\ accepted' \in BOOLEAN
    BY <1>6, PlainType DEF NodeRefused
  <2>3. adding' \in [Node -> Key \cup Reserved \cup {""}] /\ \A m \in flow.nodes : adding'[m] = ""
    BY <1>1, <2>1
  <2> QED
    BY <1>1, <2>1, <2>2, <2>3, TypeFrom
<1>7. ASSUME NEW n \in Node, RemoveNode(n) PROVE TypeOK'
  <2> DEFINE nodes == flow.nodes \ {n}
             edges == {e \in flow.edges : e.to # n}
  <2>1. edges \in SUBSET Edge /\ nodes \in SUBSET Node /\ \A e \in edges : e \in flow.edges /\ e.to \in nodes
    BY <1>1
  <2>2. flow' = [flow EXCEPT !.nodes = nodes, !.edges = edges] /\ spent' = spent /\ adding' = adding
    BY <1>7 DEF RemoveNode
  <2>3. sent' \in Seq(Branch) /\ accepted' \in BOOLEAN
    BY <1>7, PlainType DEF RemoveNode
  <2>4. \A m \in nodes : adding[m] = ""
    BY <1>1
  <2> HIDE DEF nodes, edges
  <2>5. flow' \in Workflow /\ flow'.branches = flow.branches /\ flow'.nodes = nodes /\ flow'.edges = edges
    <3>1. nodes \in SUBSET Node /\ edges \in SUBSET Edge /\ flow \in Workflow
      BY <1>1, <2>1
    <3> QED
      BY <2>2, <3>1 DEF Workflow
  <2>6. InUse(flow') \subseteq spent
    BY <1>1, <2>1, <2>5 DEF InUse
  <2> QED
    BY <1>1, <2>1, <2>2, <2>3, <2>4, <2>5, <2>6, TypeFrom
<1>8. CASE Finish
  <2>1. flow' = flow /\ spent' = spent /\ adding' = adding /\ sent' = <<>> /\ accepted' = TRUE
    BY <1>8 DEF Finish
  <2>2. sent' \in Seq(Branch) /\ accepted' \in BOOLEAN
    BY <2>1
  <2> QED
    BY <1>1, <2>1, <2>2, TypeFrom
<1>9. CASE UNCHANGED vars
  BY <1>9 DEF vars, TypeOK, InUse
<1> QED
  BY <1>2, <1>3, <1>4, <1>5, <1>6, <1>7, <1>8, <1>9 DEF Next

------------------------------------------------------------------------------
(* The theorems *)

\* The variables keep their types, every connection leads to a node, and every
\* key in use is one that is never handed out again.
THEOREM TypeCorrect == Spec => []TypeOK
  BY InitType, TypeStep, PTL DEF Spec

\* A step that changes the branches is one of set_fields.
LEMMA OnlySetFields == TypeOK /\ [Next]_vars /\ flow'.branches # flow.branches => SetFields
<1> SUFFICES ASSUME TypeOK, [Next]_vars, flow'.branches # flow.branches PROVE SetFields
  OBVIOUS
<1>1. flow \in Workflow
  BY DEF TypeOK
<1>2. ASSUME NEW nodes, NEW edges
      PROVE  /\ [flow EXCEPT !.nodes = nodes, !.edges = edges].branches = flow.branches
             /\ [flow EXCEPT !.edges = edges].branches = flow.branches
  BY <1>1 DEF Workflow
<1>3. ~ Finish /\ ~ UNCHANGED vars
  BY DEF Finish, vars
<1>4. ASSUME NEW n \in Node, NodeAdded(n) \/ RemoveNode(n) \/ NodeRefused(n) PROVE FALSE
  <2>1. CASE NodeAdded(n)
    <3>1. flow' = [flow EXCEPT !.nodes = flow.nodes \cup {n}, !.edges = flow.edges \cup {[to |-> n, by |-> adding[n]]}]
      BY <2>1 DEF NodeAdded
    <3>2. flow'.branches = flow.branches
      BY <1>2, <3>1
    <3> QED
      BY <3>2
  <2>2. CASE RemoveNode(n)
    <3>1. flow' = [flow EXCEPT !.nodes = flow.nodes \ {n}, !.edges = {e \in flow.edges : e.to # n}]
      BY <2>2 DEF RemoveNode
    <3>2. flow'.branches = flow.branches
      BY <1>2, <3>1
    <3> QED
      BY <3>2
  <2>3. CASE NodeRefused(n)
    BY <2>3 DEF NodeRefused
  <2> QED
    BY <1>4, <2>1, <2>2, <2>3
<1>5. ASSUME NEW n \in Node, NEW by \in Key \cup Reserved, AddNode(n, by) \/ Connect(n, by) PROVE FALSE
  BY <1>2, <1>5 DEF AddNode, Connect, Plain
<1> QED
  BY <1>3, <1>4, <1>5 DEF Next

\* One step keeps the keys.
LEMMA KeysStayStep ==
  ASSUME TypeOK, [Next]_vars, flow'.branches # flow.branches
  PROVE  /\ KeysKept(flow.branches, flow'.branches, sent')
         /\ \A k \in KeysOf(flow'.branches) \ KeysOf(flow.branches) : \A e \in flow.edges : e.by # k
         /\ \A e \in flow.edges \ flow'.edges : e.by \notin KeysOf(flow'.branches)
<1>1. SetFields
  BY OnlySetFields
<1>2. /\ TypeOK'
      /\ \A e \in flow.edges \ flow'.edges : e.by \notin Allowed(flow')
      /\ \/ flow'.branches = <<>> /\ sent' = <<>>
         \/ \E new \in Lists : \E made \in Made(flow.branches, new) :
              flow'.branches = Keyed(flow.branches, new, made) /\ sent' = new
  BY <1>1, SetFieldsWrites
<1>3. /\ flow.branches \in Seq(Branch) /\ flow.edges \subseteq Edge
      /\ Existing(flow.branches) \subseteq spent /\ \A e \in flow.edges : e.by \in Reserved \cup spent
      /\ \A e \in flow.edges : e.by \in Key \cup Reserved
  BY DEF TypeOK, Workflow, InUse, Edge
<1>4. \A e \in flow.edges \ flow'.edges : e.by \notin KeysOf(flow'.branches)
  <2> SUFFICES ASSUME NEW e \in flow.edges, e \notin flow'.edges, e.by \in KeysOf(flow'.branches) PROVE FALSE
    OBVIOUS
  <2>1. flow'.branches # <<>>
    BY DEF KeysOf
  <2>2. e.by # ""
    BY <1>3, BranchAssumption DEF Reserved
  <2>3. e.by \in Allowed(flow')
    BY <2>1, <2>2 DEF Allowed
  <2> QED
    BY <1>2, <2>3
<1>5. CASE flow'.branches = <<>> /\ sent' = <<>>
  BY <1>4, <1>5 DEF KeysKept, KeysOf
<1>6. ASSUME NEW new \in Lists, NEW made \in Made(flow.branches, new),
             flow'.branches = Keyed(flow.branches, new, made), sent' = new
      PROVE  /\ KeysKept(flow.branches, flow'.branches, sent')
             /\ \A k \in KeysOf(flow'.branches) \ KeysOf(flow.branches) : \A e \in flow.edges : e.by # k
  <2>1. new \in Seq(Branch)
    BY BranchAssumption
  <2>2. /\ KeysKept(flow.branches, flow'.branches, sent')
        /\ \A k \in KeysOf(flow'.branches) \ KeysOf(flow.branches) : k \notin spent
    BY <1>3, <1>6, <2>1, KeyedKeeps
  <2>3. \A k \in KeysOf(flow'.branches) : k \in Key
    BY <2>2 DEF KeysKept, KeysOf
  <2> QED
    BY <1>3, <2>2, <2>3, BranchAssumption
<1> QED
  BY <1>2, <1>4, <1>5, <1>6

\* Branches keep their keys and their connections, whatever lists are sent.
THEOREM BranchesKeepKeys == Spec => KeysStay
<1>1. TypeOK /\ [Next]_vars =>
        [flow'.branches # flow.branches =>
           /\ KeysKept(flow.branches, flow'.branches, sent')
           /\ \A k \in KeysOf(flow'.branches) \ KeysOf(flow.branches) : \A e \in flow.edges : e.by # k
           /\ \A e \in flow.edges \ flow'.edges : e.by \notin KeysOf(flow'.branches)]_vars
  BY KeysStayStep
<1> QED
  BY <1>1, TypeCorrect, PTL DEF Spec, KeysStay

\* What finish() accepted is complete.
LEMMA AcceptedStep == (accepted => Complete(flow)) /\ [Next]_vars => (accepted => Complete(flow))'
<1> SUFFICES ASSUME accepted => Complete(flow), [Next]_vars PROVE (accepted => Complete(flow))'
  OBVIOUS
<1>1. CASE Finish
  BY <1>1 DEF Finish
<1>2. CASE UNCHANGED vars
  BY <1>2 DEF vars
<1>3. CASE SetFields
  BY <1>3 DEF SetFields, Write
<1>4. ASSUME NEW n \in Node, NodeAdded(n) \/ RemoveNode(n) \/ NodeRefused(n) PROVE ~accepted'
  BY <1>4 DEF NodeAdded, RemoveNode, NodeRefused, Plain
<1>5. ASSUME NEW n \in Node, NEW by \in Key \cup Reserved, AddNode(n, by) \/ Connect(n, by) PROVE ~accepted'
  BY <1>5 DEF AddNode, Connect, Plain
<1> QED
  BY <1>1, <1>2, <1>3, <1>4, <1>5 DEF Next

\* A workflow that the checks pass can be run.
LEMMA CompleteRoutes == TypeOK /\ (accepted => Complete(flow)) => FinishedRoutes
<1> SUFFICES ASSUME TypeOK, accepted, Complete(flow) PROVE FinishedRoutes
  BY DEF FinishedRoutes
<1> DEFINE list == flow.branches
<1>1. list \in Seq(Branch) /\ Len(list) \in Nat
  <2>1. flow \in Workflow
    BY DEF TypeOK
  <2>2. list \in Seq(Branch)
    BY <2>1 DEF Workflow
  <2> QED
    BY <2>2
<1>2. \A i, j \in 1..Len(list) : list[i].key = list[j].key => i = j
  <2> SUFFICES ASSUME NEW i \in 1..Len(list), NEW j \in 1..Len(list), list[i].key = list[j].key, i < j PROVE FALSE
    OBVIOUS
  <2>1. i \in 1..(j - 1)
    OBVIOUS
  <2> QED
    BY <2>1 DEF Complete, Faulty
<1>3. ASSUME NEW e \in flow.edges
      PROVE  IF list = <<>> THEN e.by \in {"true", "false"}
             ELSE IF e.by = "else" THEN ~flow.stop
             ELSE \E i \in 1..Len(list) :
                    /\ list[i].key = e.by
                    /\ \A j \in 1..Len(list) : list[j].key = e.by => j = i
  <2>1. e.by \in Allowed(flow)
    BY <1>3 DEF Complete, Stray
  <2>2. CASE list = <<>>
    BY <2>1, <2>2 DEF Allowed
  <2>3. CASE list # <<>> /\ e.by = "else"
    <3>1. "else" \notin KeysOf(list)
      BY DEF Complete, Faulty, KeysOf, Reserved
    <3> QED
      BY <2>1, <2>3, <3>1 DEF Allowed
  <2>4. CASE list # <<>> /\ e.by # "else"
    <3>1. PICK i \in 1..Len(list) : list[i].key = e.by
      BY <2>1, <2>4 DEF Allowed, KeysOf
    <3> QED
      BY <1>2, <2>4, <3>1
  <2> QED
    BY <2>2, <2>3, <2>4
<1>4. \A n \in flow.nodes : \E e \in flow.edges : e.to = n
  BY DEF Complete, Orphans
<1>5. Len(list) <= MaxBranches
  <2>1. ~(Len(list) > MaxBranches)
    BY DEF Complete, Faulty
  <2>2. MaxBranches \in Nat
    BY BranchAssumption
  <2> QED
    BY <1>1, <2>1, <2>2
<1> QED
  BY <1>3, <1>4, <1>5 DEF FinishedRoutes

\* A workflow that finish() accepts can be run, in every state.
THEOREM FinishedCanRun == Spec => []FinishedRoutes
<1>1. Init => (accepted => Complete(flow))
  BY DEF Init
<1> QED
  BY <1>1, AcceptedStep, CompleteRoutes, TypeCorrect, PTL DEF Spec

=============================================================================
