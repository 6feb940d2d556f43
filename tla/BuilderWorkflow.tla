---------------------------- MODULE BuilderWorkflow ----------------------------
(***************************************************************************)
(* A workflow as the conversational builder sees it: the configuration of  *)
(* every node and the connections, the checks of                           *)
(* core/validators/static_validator.py, the hashes and the test status of  *)
(* core/builder/state.py.  No state of its own.                            *)
(*                                                                         *)
(* A configuration is what node_hash() covers: the filled fields and, for  *)
(* an AI node, the model key.  Two configurations have the same hash       *)
(* exactly when they are equal, so the configuration stands for its hash.  *)
(***************************************************************************)
CONSTANTS
    Node,       \* node ids
    Kind,       \* Kind[n]: how_to_test(), with the AI node and the manual trigger told apart
    Field,      \* contents of the fields that pass the static checks
    Blank,      \* contents that do not: a required field is empty
    Key,        \* model choices (credential, provider, model)
    NoKey,      \* credentialId is empty
    Gone,       \* the node is not in the workflow
    NoTest,     \* no entry in state["tests"]
    Unset       \* state["baseline"] is missing

Kinds == {"manual", "app_trigger", "listen", "read", "write", "ai"}

TriggerKinds == {"manual", "app_trigger", "listen"}

ASSUME WorkflowAssumption ==
    /\ Kind \in [Node -> Kinds]
    /\ Field # {} /\ Blank \notin Field
    /\ NoKey \notin Key

Config == [f : Field \cup {Blank}, key : Key \cup {NoKey}]

Workflow == [cfg : [Node -> Config \cup {Gone}], edges : SUBSET (Node \X Node)]

Nodes(w) == {n \in Node : w.cfg[n] # Gone}

IsTrigger(n) == Kind[n] \in TriggerKinds

\* An AI node without a credential: it cannot be tested, nor the workflow finished.
Unkeyed(w, n) == Kind[n] = "ai" /\ w.cfg[n] # Gone /\ w.cfg[n].key = NoKey

------------------------------------------------------------------------------
(* static_validator.py *)

Dangling(w) == {e \in w.edges : e[1] \notin Nodes(w) \/ e[2] \notin Nodes(w)}

\* The nodes before n: the least set that holds n's sources and is closed under sources.
Sources(w, S) == {m \in Nodes(w) : \E n \in S : <<m, n>> \in w.edges}

Ancestors(w, n) ==
    {m \in Nodes(w) : \A S \in SUBSET Nodes(w) : Sources(w, S \cup {n}) \subseteq S => m \in S}

\* Errors of one node's fields (node_errors keeps these and drops the graph's).
FaultyNodes(w) == {n \in Nodes(w) : w.cfg[n].f = Blank}

Triggers(w) == {n \in Nodes(w) : IsTrigger(n)}

Orphans(w) == {n \in Nodes(w) \ Triggers(w) : Ancestors(w, n) \cap Triggers(w) = {}}

\* validate_workflow() finds nothing.
Valid(w) ==
    /\ \E t \in Node : Triggers(w) = {t}
    /\ Dangling(w) = {}
    /\ \A e \in w.edges : ~IsTrigger(e[2])
    /\ Orphans(w) = {}
    /\ FaultyNodes(w) = {}

------------------------------------------------------------------------------
(* state.py *)

TestRecord == [status : {"success", "failed", "skipped"}, hash : Config \cup {Gone}]

Tests == [Node -> TestRecord \cup {NoTest}]

NoTests == [n \in Node |-> NoTest]

\* baseline_of()
BaselineOf(w) == w.cfg

\* prune(): entries of nodes that left the workflow are dropped.
Prune(tests, w) == [n \in Node |-> IF n \in Nodes(w) THEN tests[n] ELSE NoTest]

\* node_status()
NodeStatus(w, n, tests, baseline) ==
    CASE tests[n] # NoTest /\ tests[n].hash = w.cfg[n] -> tests[n].status
      [] tests[n] # NoTest /\ tests[n].hash # w.cfg[n] -> "untested"
      [] tests[n] = NoTest /\ baseline # Unset /\ baseline[n] = w.cfg[n] -> "passed"
      [] OTHER -> "untested"

DoneStatuses == {"success", "skipped", "passed"}

==============================================================================
