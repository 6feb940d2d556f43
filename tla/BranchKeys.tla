------------------------------ MODULE BranchKeys ------------------------------
(***************************************************************************)
(* The branches of one condition node (branch.if) and the connections that *)
(* leave it, under the builder's tools set_fields, add_node, connect,      *)
(* remove_node and finish (core/builder/tools.py, fields.py) and the       *)
(* checks of core/validators/static_validator.py.                          *)
(*                                                                         *)
(* A connection names its branch by the branch's key, which the builder    *)
(* hands out; at run time the one connection is followed whose name is the *)
(* outcome.  The LLM calls tools in parallel: set_fields, connect and      *)
(* remove_node are carried out at once, add_node looks at the branches,    *)
(* waits for the back end, and then connects.                              *)
(*                                                                         *)
(* The nodes behind the condition are connected to nothing else here.      *)
(***************************************************************************)
EXTENDS Integers, Sequences, FiniteSets

CONSTANTS
    Node,           \* the nodes that may be behind the condition
    Key,            \* keys that the builder hands out
    Name,           \* names of branches
    Lists,          \* bound: the lists of branches that the LLM sends
    Canvases,       \* the states in which the user brings the workflow
    MaxBranches,    \* MAX_BRANCHES
    MaxEdges        \* bound: connections in an instance

\* _RESERVED_BRANCH_KEYS
Reserved == {"else", "true", "false"}

\* A branch as it is sent or stored: its key may be empty, or nobody's.
Branch == [key : Key \cup Reserved \cup {""}, name : Name \cup {""}]

Edge == [to : Node, by : Key \cup Reserved]

Workflow == [branches : Seq(Branch), stop : BOOLEAN, nodes : SUBSET Node, edges : SUBSET Edge]

ASSUME BranchAssumption ==
    /\ Key \cap (Reserved \cup {""}) = {}
    /\ Lists \subseteq Seq(Branch)
    /\ MaxBranches \in Nat
    /\ \A w \in Canvases : w \in Workflow /\ \A e \in w.edges : e.to \in w.nodes

VARIABLES
    flow,       \* the workflow as the turn has it
    adding,     \* calls of add_node that wait: the branch each has been checked for
    spent,      \* keys that have been in use: uuid4 makes none of them again
    sent,       \* history: the list that the last step has sent, if it was a set_fields
    accepted    \* history: the last step was a finish() that found nothing to complain about

vars == <<flow, adding, spent, sent, accepted>>

------------------------------------------------------------------------------
KeysOf(list) == {list[i].key : i \in 1..Len(list)}

\* condition_branches: the names that a connection from the node may have.  An
\* old condition, without branches, has two outcomes whatever "otherwise" says.
Allowed(w) ==
    IF w.branches = <<>> THEN {"true", "false"}
    ELSE (KeysOf(w.branches) \ {""}) \cup (IF w.stop THEN {} ELSE {"else"})

(* _keyed_branches *)

\* Keys that a new list can keep.
Existing(old) == KeysOf(old) \ (Reserved \cup {""})

Named(old, j, name) == name # "" /\ old[j].name = name /\ old[j].key \in Existing(old)

\* The key of the first branch of that name, if there is one (by_name).
KeyOfName(old, name) ==
    {old[j].key : j \in {j \in 1..Len(old) : /\ Named(old, j, name)
                                            /\ \A i \in 1..(j - 1) : ~Named(old, i, name)}}

\* Element i is the first to say a key that exists.
Says(old, new, i) ==
    new[i].key \in Existing(old) /\ \A j \in 1..(i - 1) : new[j].key # new[i].key

\* Element i says no key.
Silent(new, i) == new[i].key = ""

\* Mutant of Inherits: names are looked at before the keys that are said later.
InheritsFirst(old, new, i) ==
    \E k \in KeyOfName(old, new[i].name) :
      /\ Silent(new, i)
      /\ \A j \in 1..(i - 1) : new[j].key # k /\ ~(Silent(new, j) /\ k \in KeyOfName(old, new[j].name))

\* Element i says no key and has the name of a branch whose key nobody says, and
\* is the first to have it.
Inherits(old, new, i) ==
    \E k \in KeyOfName(old, new[i].name) :
      /\ Silent(new, i)
      /\ k \notin KeysOf(new)
      /\ \A j \in 1..(i - 1) : ~(Silent(new, j) /\ k \in KeyOfName(old, new[j].name))

\* The keys of the new list: said, inherited, or new ones, each its own.
KeyFor(old, new, made, i) ==
    IF Says(old, new, i) THEN new[i].key
    ELSE IF Inherits(old, new, i) THEN CHOOSE k \in KeyOfName(old, new[i].name) : TRUE
    ELSE made[i]

Keyed(old, new, made) ==
    [i \in 1..Len(new) |-> [key |-> KeyFor(old, new, made, i), name |-> new[i].name]]

\* uuid4: keys that nobody has had.
Made(old, new) ==
    LET need == {i \in 1..Len(new) : ~Says(old, new, i) /\ ~Inherits(old, new, i)}
    IN {f \in [need -> Key \ spent] : \A i, j \in need : f[i] = f[j] => i = j}

------------------------------------------------------------------------------
(* static_validator.py *)

\* Mutant of Stray: "else" is always a way out.
StrayKeys(w) == {e \in w.edges : e.by \notin Allowed(w) \cup {"else"}}

\* _branch_edge_errors: connections that are never followed.
Stray(w) == {e \in w.edges : e.by \notin Allowed(w)}

\* _graph_errors: nodes that nothing leads to.
Orphans(w) == {n \in w.nodes : \A e \in w.edges : e.to # n}

\* _condition_errors, and _check for what is empty.
Faulty(list) ==
    \/ Len(list) > MaxBranches
    \/ \E i \in 1..Len(list) :
         \/ list[i].name = "" \/ list[i].key \in Reserved \cup {""}
         \/ \E j \in 1..(i - 1) : list[i].key = list[j].key \/ list[i].name = list[j].name

Complete(w) == Stray(w) = {} /\ Orphans(w) = {} /\ ~Faulty(w.branches)

------------------------------------------------------------------------------
InUse(w) == Existing(w.branches) \cup ({e.by : e \in w.edges} \ Reserved)

TypeOK ==
    /\ flow \in Workflow
    /\ \A e \in flow.edges : e.to \in flow.nodes
    /\ adding \in [Node -> Key \cup Reserved \cup {""}]
    /\ \A n \in flow.nodes : adding[n] = ""
    /\ sent \in Seq(Branch)
    /\ spent \subseteq Key
    /\ InUse(flow) \subseteq spent
    /\ accepted \in BOOLEAN

Init ==
    /\ flow \in Canvases
    /\ adding = [n \in Node |-> ""]
    /\ spent = InUse(flow)
    /\ sent = <<>>
    /\ accepted = FALSE

\* _prune_branch_edges
Pruned(w) == [w EXCEPT !.edges = {e \in @ : e.by \in Allowed(w)}]

Write(list, new, stop) ==
    LET w == Pruned([flow EXCEPT !.branches = list, !.stop = stop])
    IN /\ flow' = w
       /\ spent' = spent \cup InUse(w)
       /\ sent' = new
       /\ accepted' = FALSE
       /\ UNCHANGED adding

\* set_fields: the branches are left, or emptied, or replaced; "otherwise" is
\* set or left; then the connections are pruned.
SetFields ==
    \E stop \in BOOLEAN :
      \/ Write(flow.branches, <<>>, stop)
      \/ Write(<<>>, <<>>, stop)
      \/ \E new \in Lists : \E made \in Made(flow.branches, new) :
           Write(Keyed(flow.branches, new, made), new, stop)

\* What a step that is neither leaves of the histories.
Plain == sent' = <<>> /\ accepted' = FALSE

\* add_node up to its first await.
AddNode(n, by) ==
    /\ n \notin flow.nodes /\ adding[n] = ""
    /\ by \in Allowed(flow)
    /\ adding' = [adding EXCEPT ![n] = by]
    /\ Plain
    /\ UNCHANGED <<flow, spent>>

\* The rest of it: the branch is not looked at again.
NodeAdded(n) ==
    /\ adding[n] # "" /\ Cardinality(flow.edges) < MaxEdges
    /\ flow' = [flow EXCEPT !.nodes = @ \cup {n}, !.edges = @ \cup {[to |-> n, by |-> adding[n]]}]
    /\ adding' = [adding EXCEPT ![n] = ""]
    /\ spent' = spent \cup ({adding[n]} \ Reserved)
    /\ Plain

\* The service is not connected, or the back end does not answer.
NodeRefused(n) ==
    /\ adding[n] # ""
    /\ adding' = [adding EXCEPT ![n] = ""]
    /\ Plain
    /\ UNCHANGED <<flow, spent>>

Connect(n, by) ==
    /\ n \in flow.nodes /\ by \in Allowed(flow)
    /\ Cardinality(flow.edges) < MaxEdges
    /\ flow' = [flow EXCEPT !.edges = @ \cup {[to |-> n, by |-> by]}]
    /\ Plain
    /\ UNCHANGED <<adding, spent>>

\* Mutant of RemoveNode: the node's connections stay.
RemoveNodeOnly(n) ==
    /\ n \in flow.nodes
    /\ flow' = [flow EXCEPT !.nodes = @ \ {n}]
    /\ Plain
    /\ UNCHANGED <<adding, spent>>

RemoveNode(n) ==
    /\ n \in flow.nodes
    /\ flow' = [flow EXCEPT !.nodes = @ \ {n}, !.edges = {e \in @ : e.to # n}]
    /\ Plain
    /\ UNCHANGED <<adding, spent>>

\* finish() with nothing to complain about in this part of the workflow.
Finish ==
    /\ Complete(flow)
    /\ accepted' = TRUE
    /\ sent' = <<>>
    /\ UNCHANGED <<flow, adding, spent>>

Next ==
    \/ SetFields
    \/ \E n \in Node : \/ \E by \in Key \cup Reserved : AddNode(n, by) \/ Connect(n, by)
                       \/ NodeAdded(n) \/ NodeRefused(n) \/ RemoveNode(n)
    \/ Finish

Spec == Init /\ [][Next]_vars

------------------------------------------------------------------------------
(* Properties *)

\* Element i of a list that is sent means the old branch with the key k.
Means(old, said, i, k) ==
    \/ said[i].key = k
    \/ Silent(said, i) /\ \E j \in 1..Len(old) : old[j].key = k /\ old[j].name = said[i].name

\* The list new keeps the keys of the old one, as the list that was sent says.
KeysKept(old, new, said) ==
    /\ Len(new) = Len(said)
    /\ \A i \in 1..Len(new) : new[i].name = said[i].name /\ new[i].key \in Key
    /\ \A i, j \in 1..Len(new) : new[i].key = new[j].key => i = j
    /\ \A i \in 1..Len(new) : new[i].key \in KeysOf(old) => Means(old, said, i, new[i].key)
    /\ \A i \in 1..Len(new) : said[i].key \in Existing(old) =>
         \E j \in 1..Len(new) : said[j].key = said[i].key /\ new[j].key = said[i].key

\* When the branches are replaced, every one of them has a key of its own; a
\* branch that is sent with an old key keeps it; no branch gets an old key that
\* it does not mean by that key or its name; a new key is on no connection; and
\* no connection is lost whose branch is still there (fields.py:131).
KeysStay ==
    [][flow'.branches # flow.branches =>
         /\ KeysKept(flow.branches, flow'.branches, sent')
         /\ \A k \in KeysOf(flow'.branches) \ KeysOf(flow.branches) : \A e \in flow.edges : e.by # k
         /\ \A e \in flow.edges \ flow'.edges : e.by \notin KeysOf(flow'.branches)]_vars

\* A workflow that finish() accepts can be run: every connection of the condition
\* is the outcome of exactly one branch, or of "else" where that is not a stop,
\* and every node is behind one, although add_node may connect with a branch
\* that was replaced while it waited (tools.py:233, static_validator.py:184).
FinishedRoutes ==
    accepted => LET w == flow IN
        /\ \A e \in w.edges :
             IF w.branches = <<>> THEN e.by \in {"true", "false"}
             ELSE IF e.by = "else" THEN ~w.stop
             ELSE \E i \in 1..Len(w.branches) :
                    /\ w.branches[i].key = e.by
                    /\ \A j \in 1..Len(w.branches) : w.branches[j].key = e.by => j = i
        /\ \A n \in w.nodes : \E e \in w.edges : e.to = n
        /\ Len(w.branches) <= MaxBranches

==============================================================================
