----------------------------- MODULE BuilderTurn -----------------------------
(***************************************************************************)
(* One conversation with the workflow builder: core/builder/engine.py (the *)
(* turn), core/builder/tools.py (the tools the LLM calls),                 *)
(* core/builder/hitl.py (the user's confirmations) and the session         *)
(* document of db/session_service.py.                                      *)
(*                                                                         *)
(* A turn is a coroutine that answers one message.  The LLM calls the      *)
(* tools in any order; the calls of one LLM response run as parallel       *)
(* tasks, so a tool that awaits the back end leaves its call in a slot     *)
(* while others run.  The session's state is read and written whole: a     *)
(* turn works on its copy and each event it appends stores all of it.      *)
(* Turns of one conversation may overlap: nothing in the service stops     *)
(* a second message.                                                       *)
(***************************************************************************)
EXTENDS BuilderWorkflow, Naturals, FiniteSets

CONSTANTS
    Turn,           \* turns that may run at the same time
    Slot,           \* tool calls of one turn that may wait at the same time
    None,
    NoDoc,          \* the session document does not exist
    Start,          \* workflows the conversation may start from
    MaxTurns,       \* bound: messages of the conversation
    MaxSteps,       \* bound: tool calls of a turn (MAX_LLM_CALLS)
    MaxEdits,       \* bound: changes the user makes in the editor
    MaxTests,       \* MAX_TESTS_PER_TURN
    Edited,         \* bound: the nodes that the user edits or adds and whose fields the LLM sets
    Typed,          \* bound: what the user makes of a node
    Tools,          \* bound: the tools the LLM calls in an instance
    Lossy           \* whether a response may fail to reach the user, or the store's the turn

ASSUME TurnAssumption ==
    /\ Tools \subseteq {"add", "connect", "remove", "set", "model", "test", "finish"}
    /\ MaxTurns \in Nat /\ MaxSteps \in Nat /\ MaxEdits \in Nat /\ MaxTests \in Nat
    /\ Typed \subseteq Config
    /\ Start \subseteq Workflow /\ Edited \subseteq Node
    /\ Lossy \in BOOLEAN

VARIABLES
    canvas,     \* the workflow in the user's editor
    screen,     \* the question at the end of the last response, and the node it showed
    doc,        \* the session document in MongoDB
    pc,         \* where a turn is suspended
    req,        \* the message a turn answers, and the question the user saw when sending it
    work,       \* the turn's working copy of the workflow
    copy,       \* the turn's copy of the session state
    turn,       \* the turn's locals (class Turn)
    calls,      \* calls[t][c]: a tool call that awaits the back end
    born,       \* node ids handed out so far
    clock,      \* [msgs, edits]: messages sent and editor changes made so far
    earned,     \* history: what the back end or the user said of a node's configuration
    ran         \* history: ran[i] counts write tests run on the answer to the question of turn i

vars == <<canvas, screen, doc, pc, req, work, copy, turn, calls, born, clock, earned, ran>>

------------------------------------------------------------------------------
Number == 1..MaxTurns

TestQuestion == [kind : {"test"}, node : Node, hash : Config, skipOnly : BOOLEAN, no : Number]
CardQuestion == [kind : {"card"}, node : Node, hash : Config \cup {Gone}, no : Number]
FinishQuestion == [kind : {"finish"}, hash : Workflow, no : Number]

\* state["pending"]: the question the next message answers.
Question == TestQuestion \cup CardQuestion \cup FinishQuestion

Session == [tests : Tests, baseline : [Node -> Config \cup {Gone}] \cup {Unset},
            pending : Question \cup {None}]

Fresh == [tests |-> NoTests, baseline |-> Unset, pending |-> None]

\* What a message is to the pending question: a yes, a no, a model choice, or anything else.
Replies == {"yes", "no", "other"} \cup Key

Silence == [q |-> None, shown |-> Gone]

Idle == [reply |-> "other", q |-> None, shown |-> Gone, before |-> None, tests |-> 0, no |-> 0]

NewTurn == [confirmed |-> None, used |-> FALSE, runs |-> 0, pending |-> None,
            choices |-> "unknown", steps |-> 0, dirty |-> FALSE, done |-> FALSE]

NoWork == [cfg |-> [n \in Node |-> Gone], edges |-> {}]

NoCalls == [c \in Slot |-> None]

Call == [tool : {"test"}, node : Node, sent : Config]
          \cup [tool : {"card"}, node : Node]
          \cup [tool : {"add"}, node : Node, after : Node \cup {None}]

Places == {"idle", "load", "recreate", "close", "begin", "llm", "end", "save", "reply"}

\* The message of a turn, with what its sender saw.
Message == [reply : Replies, q : Question \cup {None}, shown : Config \cup {Gone},
            before : Workflow \cup {None}, tests : Nat, no : 0..MaxTurns]

\* The object Turn, the state of the LLM run, and whether the answer is DONE.
Locals == [confirmed : TestQuestion \cup {None}, used : BOOLEAN, runs : Nat,
           pending : Question \cup {None}, choices : {"unknown", "some", "none"},
           steps : 0..MaxSteps, dirty : BOOLEAN, done : BOOLEAN]

\* The values the state can have; the limit on a turn's calls is one of them.
TypeOK ==
    /\ canvas \in Workflow
    /\ screen \in [q : Question \cup {None}, shown : Config \cup {Gone}]
    /\ doc \in Session \cup {NoDoc}
    /\ pc \in [Turn -> Places]
    /\ req \in [Turn -> Message]
    /\ work \in [Turn -> Workflow]
    /\ copy \in [Turn -> Session \cup {NoDoc}]
    /\ turn \in [Turn -> Locals]
    /\ calls \in [Turn -> [Slot -> Call \cup {None}]]
    /\ born \subseteq Node
    /\ clock \in [msgs : 0..MaxTurns, edits : 0..MaxEdits]
    /\ ran \in [Number -> Nat]

\* The marks of an absent session and an absent question are neither.
ASSUME MarkAssumption == NoDoc \notin Session /\ None \notin Question

Init ==
    /\ canvas \in Start
    /\ screen = Silence
    /\ doc = NoDoc
    /\ pc = [t \in Turn |-> "idle"]
    /\ req = [t \in Turn |-> Idle]
    /\ work = [t \in Turn |-> NoWork]
    /\ copy = [t \in Turn |-> NoDoc]
    /\ turn = [t \in Turn |-> NewTurn]
    /\ calls = [t \in Turn |-> NoCalls]
    /\ born = Nodes(canvas)
    /\ clock = [msgs |-> 0, edits |-> 0]
    /\ earned = {}
    /\ ran = [i \in Number |-> 0]

------------------------------------------------------------------------------
(* The user *)

\* The locals of a turn that has ended are forgotten.
Ended(t) ==
    /\ pc' = [pc EXCEPT ![t] = "idle"]
    /\ req' = [req EXCEPT ![t] = Idle]
    /\ work' = [work EXCEPT ![t] = NoWork]
    /\ copy' = [copy EXCEPT ![t] = NoDoc]
    /\ turn' = [turn EXCEPT ![t] = NewTurn]
    /\ calls' = [calls EXCEPT ![t] = NoCalls]

\* A message, with the workflow as the editor has it.
Send(t, reply) ==
    /\ pc[t] = "idle"
    /\ clock.msgs < MaxTurns
    /\ clock' = [clock EXCEPT !.msgs = @ + 1]
    /\ pc' = [pc EXCEPT ![t] = "load"]
    /\ work' = [work EXCEPT ![t] = canvas]
    /\ req' = [req EXCEPT ![t] =
                 [reply |-> reply, q |-> screen.q, shown |-> screen.shown,
                  before |-> canvas, tests |-> 0, no |-> clock'.msgs]]
    /\ UNCHANGED <<canvas, screen, doc, copy, turn, calls, born, earned, ran>>

\* An edit counts when a message is sent or a response arrives: one made
\* earlier in the turns that run is the same to them, they work on copies.
Noticed == \E t \in Turn : pc[t] \in {"idle", "reply"}

\* The user changes, deletes or adds a node in the editor, between turns or
\* while one runs; only an AI node has a model to choose.
EditCanvas(n, c) ==
    /\ Noticed
    /\ clock.edits < MaxEdits
    /\ n \in Edited
    /\ canvas.cfg[n] # c /\ (canvas.cfg[n] = Gone => n \notin born)
    /\ c # Gone /\ Kind[n] # "ai" => c.key = NoKey
    /\ clock' = [clock EXCEPT !.edits = @ + 1]
    /\ born' = born \cup {n}
    /\ canvas' = [cfg |-> [canvas.cfg EXCEPT ![n] = c],
                  edges |-> {e \in canvas.edges : c = Gone => n \notin {e[1], e[2]}}]
    /\ UNCHANGED <<screen, doc, pc, req, work, copy, turn, calls, earned, ran>>

\* He makes or removes a connection.
EditConnection(m, n) ==
    /\ Noticed
    /\ clock.edits < MaxEdits
    /\ n \in Edited
    /\ {m, n} \subseteq Nodes(canvas) /\ m # n
    /\ clock' = [clock EXCEPT !.edits = @ + 1]
    /\ canvas' = [canvas EXCEPT !.edges = IF <<m, n>> \in @ THEN @ \ {<<m, n>>} ELSE @ \cup {<<m, n>>}]
    /\ UNCHANGED <<screen, doc, pc, req, work, copy, turn, calls, born, earned, ran>>

\* Seven days without activity: the TTL index drops the session.
ExpireSession ==
    /\ \A t \in Turn : pc[t] = "idle"
    /\ doc # NoDoc
    /\ clock.edits < MaxEdits
    /\ clock' = [clock EXCEPT !.edits = @ + 1]
    /\ doc' = NoDoc
    /\ UNCHANGED <<canvas, screen, pc, req, work, copy, turn, calls, born, earned, ran>>

\* The response reaches the user: the editor takes its workflow in the place of
\* what it has, the chat shows its question.
Deliver(t) ==
    /\ pc[t] = "reply"
    /\ LET q == turn[t].pending IN
         screen' = [q |-> q, shown |-> IF q # None /\ q.kind # "finish" THEN work[t].cfg[q.node] ELSE Gone]
    /\ canvas' = IF work[t] # req[t].before \/ turn[t].done THEN work[t] ELSE canvas
    /\ Ended(t)
    /\ UNCHANGED <<doc, born, clock, earned, ran>>

\* The connection breaks after the turn has been stored, or the store took the
\* last write and did not say so.
Drop(t) ==
    /\ Lossy
    /\ pc[t] = "reply"
    /\ Ended(t)
    /\ UNCHANGED <<canvas, screen, doc, born, clock, earned, ran>>

\* The process dies, the client disconnects or the store fails: an error event
\* or nothing is sent.  A write that the store took although its call failed
\* is the step that writes, followed by Abort or, after the last one, by Drop.
Abort(t) ==
    /\ pc[t] \notin {"idle", "reply"}
    /\ Ended(t)
    /\ UNCHANGED <<canvas, screen, doc, born, clock, earned, ran>>

------------------------------------------------------------------------------
(* The start of a turn: _load_session() and judge_turn_start() *)

SetTurn(t, r) == turn' = [turn EXCEPT ![t] = r]

SkippedBy(q, reply) == q # None /\ q.kind = "test" /\ (reply = "no" \/ (reply = "yes" /\ q.skipOnly))

\* History: what the user's words mean for a question, as the user reads it.
Declined(q, reply) ==
    q # None /\ q.kind = "test" /\ reply \in {"no"} \cup (IF q.skipOnly THEN {"yes"} ELSE {})

ConfirmedBy(q, reply) == q # None /\ q.kind = "test" /\ reply = "yes" /\ ~q.skipOnly

\* Mutant of ChosenBy: the node is not compared with the one the card was made for.
ChosenByNode(q, reply, w) == q # None /\ q.kind = "card" /\ reply \in Key /\ w.cfg[q.node] # Gone

\* The choice goes only into the node whose configuration the card was stored with.
ChosenBy(q, reply, w) ==
    q # None /\ q.kind = "card" /\ reply \in Key /\ w.cfg[q.node] # Gone /\ w.cfg[q.node] = q.hash

\* Mutant of FinishedBy: the workflow is not compared with the one that was asked about.
FinishedByYes(q, reply, w) == q # None /\ q.kind = "finish" /\ reply = "yes"

FinishedBy(q, reply, w) == q # None /\ q.kind = "finish" /\ reply = "yes" /\ q.hash = w

\* The verdict on the message, given the stored state; copy becomes what the
\* turn is going to store (every key of the state is overwritten).
Judge(t, st) ==
    LET q == st.pending
        reply == req[t].reply
        kept == Prune(st.tests, work[t])
        skipped == SkippedBy(q, reply)
        done == FinishedBy(q, reply, work[t])
        first == st.baseline = Unset
    IN
      /\ copy' = [copy EXCEPT ![t] =
                    [tests |-> IF skipped
                                 THEN [kept EXCEPT ![q.node] = [status |-> "skipped", hash |-> q.hash]]
                                 ELSE kept,
                     baseline |-> IF first THEN BaselineOf(work[t]) ELSE st.baseline,
                     pending |-> None]]
      /\ work' = IF ChosenBy(q, reply, work[t])
                   THEN [work EXCEPT ![t].cfg[q.node].key = reply]
                   ELSE work
      /\ SetTurn(t, [turn[t] EXCEPT !.confirmed = IF ConfirmedBy(q, reply) THEN q ELSE None,
                                    !.done = done])
      /\ pc' = [pc EXCEPT ![t] = IF done THEN "close" ELSE "begin"]
      /\ earned' = earned
           \cup (IF Declined(q, reply) THEN {<<q.node, q.hash, "skipped">>} ELSE {})
           \cup (IF first THEN {<<n, work[t].cfg[n], "passed">> : n \in Nodes(work[t])} ELSE {})

\* get_session(), or create_session() when there is none.
LoadSession(t) ==
    /\ pc[t] = "load"
    /\ LET st == IF doc = NoDoc THEN Fresh ELSE doc IN doc' = st /\ Judge(t, st)
    /\ UNCHANGED <<canvas, screen, req, calls, born, clock, ran>>

\* More than MAX_SESSION_EVENTS events: the document is deleted ...
RotateSession(t) ==
    /\ pc[t] = "load"
    /\ doc # NoDoc
    /\ doc' = NoDoc
    /\ copy' = [copy EXCEPT ![t] = doc]
    /\ pc' = [pc EXCEPT ![t] = "recreate"]
    /\ UNCHANGED <<canvas, screen, req, work, turn, calls, born, clock, earned, ran>>

\* ... and created anew with its state, unless another turn has created one meanwhile.
RecreateSession(t) ==
    /\ pc[t] = "recreate"
    /\ LET st == IF doc = NoDoc THEN copy[t] ELSE doc IN doc' = st /\ Judge(t, st)
    /\ UNCHANGED <<canvas, screen, req, calls, born, clock, ran>>

\* append_event(): the whole state is stored, if the document is still there.
Store(st) == doc' = IF doc = NoDoc THEN NoDoc ELSE st

\* The user agreed to finish exactly this workflow: DONE without the LLM.
CloseDone(t) ==
    /\ pc[t] = "close"
    /\ Store([copy[t] EXCEPT !.baseline = BaselineOf(work[t])])
    /\ pc' = [pc EXCEPT ![t] = "reply"]
    /\ UNCHANGED <<canvas, screen, req, work, copy, turn, calls, born, clock, earned, ran>>

\* run_async() stores the message and the delta before the first LLM call.
BeginTurn(t) ==
    /\ pc[t] = "begin"
    /\ doc # NoDoc
    /\ Store(copy[t])
    /\ pc' = [pc EXCEPT ![t] = "llm"]
    /\ UNCHANGED <<canvas, screen, req, work, copy, turn, calls, born, clock, earned, ran>>

------------------------------------------------------------------------------
(* Tools: helpers *)

Busy(t) == \E c \in Slot : calls[t][c] # None

\* A tool call starts: the first of an LLM response, after the events of the
\* last response were appended, or one that runs beside the waiting ones.
StepGuard(t, tool) == pc[t] = "llm" /\ tool \in Tools

\* Mutant of Step: the limit on the calls of a turn is off by one.
StepOver(t, tool) == StepGuard(t, tool) /\ turn[t].steps <= MaxSteps /\ (Busy(t) \/ ~turn[t].dirty)

Step(t, tool) ==
    /\ StepGuard(t, tool)
    /\ turn[t].steps < MaxSteps
    /\ Busy(t) \/ ~turn[t].dirty

Stepped(t) == [turn[t] EXCEPT !.steps = @ + 1]

\* The call waits for the back end in a free slot.
Wait(t, c, call) ==
    /\ calls[t][c] = None
    /\ calls' = [calls EXCEPT ![t][c] = call]

Return(t, c) == calls' = [calls EXCEPT ![t][c] = None]

\* _hold(): one question per response, and a model card is not displaced.
Hold(r, q) == IF r.pending # None /\ r.pending.kind = "card" THEN r ELSE [r EXCEPT !.pending = q]

\* _ask_model() once the choices are there: a card for node n.
Card(t, n) == [kind |-> "card", node |-> n, hash |-> work[t].cfg[n], no |-> req[t].no]

\* _record()
Record(t, n, status, hash) ==
    copy' = [copy EXCEPT ![t].tests[n] = [status |-> status, hash |-> hash]]

Earn(n, status, hash) == earned' = earned \cup {<<n, hash, status>>}

StatusIn(t, n) == NodeStatus(work[t], n, copy[t].tests, copy[t].baseline)

------------------------------------------------------------------------------
(* Tools that change the working copy *)

\* add_node(): the place is checked, then the connection and the model keys are awaited.
AddNode(t, c, n, after) ==
    /\ Step(t, "add")
    /\ n \notin born
    /\ after # None => after \in Nodes(work[t]) /\ ~IsTrigger(n)
    /\ Wait(t, c, [tool |-> "add", node |-> n, after |-> after])
    /\ born' = born \cup {n}
    /\ SetTurn(t, Stepped(t))
    /\ UNCHANGED <<canvas, screen, doc, pc, req, work, copy, clock, earned, ran>>

\* fixed.config of the catalog entry: the manual and the webhook trigger have no field to fill.
InitialConfig(n) ==
    [f |-> IF Kind[n] \in {"manual", "listen"} THEN CHOOSE f \in Field : TRUE ELSE Blank, key |-> NoKey]

\* The node and its connection are made, whatever happened to `after' meanwhile.
NodeAdded(t, c) ==
    /\ pc[t] = "llm" /\ calls[t][c] # None /\ calls[t][c].tool = "add"
    /\ Return(t, c)
    /\ LET n == calls[t][c].node
           after == calls[t][c].after
       IN /\ Kind[n] = "ai" => turn[t].choices # "none"
          /\ work' = [work EXCEPT ![t] =
                        [cfg |-> [work[t].cfg EXCEPT ![n] = InitialConfig(n)],
                         edges |-> work[t].edges \cup (IF after = None THEN {} ELSE {<<after, n>>})]]
          /\ IF Kind[n] = "ai"
               THEN SetTurn(t, Hold([turn[t] EXCEPT !.choices = "some"],
                                    [Card(t, n) EXCEPT !.hash = InitialConfig(n)]))
               ELSE UNCHANGED turn
    /\ UNCHANGED <<canvas, screen, doc, pc, req, copy, born, clock, earned, ran>>

\* The application is not connected, there is no model key, or the look-up failed.
NodeRefused(t, c) ==
    /\ pc[t] = "llm" /\ calls[t][c] # None /\ calls[t][c].tool = "add"
    /\ Return(t, c)
    /\ \/ UNCHANGED turn
       \/ /\ Kind[calls[t][c].node] = "ai" /\ turn[t].choices = "unknown"
          /\ SetTurn(t, [turn[t] EXCEPT !.choices = "none"])
    /\ UNCHANGED <<canvas, screen, doc, pc, req, work, copy, born, clock, earned, ran>>

Connect(t, m, n) ==
    /\ Step(t, "connect")
    /\ {m, n} \subseteq Nodes(work[t]) /\ m # n /\ ~IsTrigger(n)
    /\ <<m, n>> \notin work[t].edges
    /\ work' = [work EXCEPT ![t].edges = @ \cup {<<m, n>>}]
    /\ SetTurn(t, Stepped(t))
    /\ UNCHANGED <<canvas, screen, doc, pc, req, copy, calls, born, clock, earned, ran>>

RemoveNode(t, n) ==
    /\ Step(t, "remove")
    /\ n \in Nodes(work[t])
    /\ Cardinality(Nodes(work[t])) > 1
    /\ work' = [work EXCEPT ![t] =
                  [cfg |-> [work[t].cfg EXCEPT ![n] = Gone],
                   edges |-> {e \in work[t].edges : n \notin {e[1], e[2]}}]]
    /\ SetTurn(t, Stepped(t))
    /\ UNCHANGED <<canvas, screen, doc, pc, req, copy, calls, born, clock, earned, ran>>

\* set_fields() never writes the model's key.
SetFields(t, n, f) ==
    /\ Step(t, "set")
    /\ n \in Nodes(work[t]) \cap Edited
    /\ work[t].cfg[n].f # f
    /\ work' = [work EXCEPT ![t].cfg[n].f = f]
    /\ SetTurn(t, Stepped(t))
    /\ UNCHANGED <<canvas, screen, doc, pc, req, copy, calls, born, clock, earned, ran>>

------------------------------------------------------------------------------
(* The model card *)

\* pick_model(), and test_node() and finish() on a node without a key: the
\* choices of the turn are used at once when they are there, awaited otherwise.
AskModel(t, c, n) ==
    /\ Step(t, "model")
    /\ n \in Nodes(work[t]) /\ Kind[n] = "ai"
    /\ \/ /\ turn[t].choices = "some"
          /\ SetTurn(t, Hold(Stepped(t), Card(t, n)))
          /\ UNCHANGED calls
       \/ /\ turn[t].choices = "unknown"
          /\ Wait(t, c, [tool |-> "card", node |-> n])
          /\ SetTurn(t, Stepped(t))
    /\ UNCHANGED <<canvas, screen, doc, pc, req, work, copy, born, clock, earned, ran>>

\* load_choices() answers with choices, with none, or fails (which is not remembered).
ChoicesLoaded(t, c) ==
    /\ pc[t] = "llm" /\ calls[t][c] # None /\ calls[t][c].tool = "card"
    /\ Return(t, c)
    /\ \/ SetTurn(t, Hold([turn[t] EXCEPT !.choices = "some"], Card(t, calls[t][c].node)))
       \/ SetTurn(t, [turn[t] EXCEPT !.choices = "none"])
       \/ UNCHANGED turn
    /\ UNCHANGED <<canvas, screen, doc, pc, req, work, copy, born, clock, earned, ran>>

------------------------------------------------------------------------------
(* test_node() *)

Testable(t, n) == n \in Nodes(work[t]) \ FaultyNodes(work[t]) /\ Kind[n] # "listen"

\* Mutant of Confirmed: the confirmation is taken for the node, whatever its configuration.
ConfirmedNode(t, n) == turn[t].confirmed # None /\ turn[t].confirmed.node = n

Confirmed(t, n) ==
    LET q == turn[t].confirmed IN q # None /\ q.node = n /\ q.hash = work[t].cfg[n]

\* A webhook trigger cannot be tried before it is live.
TestListen(t, n) ==
    /\ Step(t, "test")
    /\ n \in Nodes(work[t]) /\ Kind[n] = "listen"
    /\ Record(t, n, "skipped", work[t].cfg[n])
    /\ Earn(n, "skipped", work[t].cfg[n])
    /\ SetTurn(t, [Stepped(t) EXCEPT !.dirty = TRUE])
    /\ UNCHANGED <<canvas, screen, doc, pc, req, work, calls, born, clock, ran>>

\* A write node without the user's consent to this configuration: ask.
TestAsks(t, n) ==
    /\ Step(t, "test")
    /\ Testable(t, n) /\ Kind[n] = "write" /\ ~Confirmed(t, n)
    /\ SetTurn(t, Hold(Stepped(t),
         [kind |-> "test", node |-> n, hash |-> work[t].cfg[n], no |-> req[t].no,
          skipOnly |-> \E m \in Ancestors(work[t], n) : StatusIn(t, m) = "skipped"]))
    /\ UNCHANGED <<canvas, screen, doc, pc, req, work, copy, calls, born, clock, earned, ran>>

\* Mutant of UnderBudget: one test too many.
UnderBudgetByOne(t) == turn[t].runs <= MaxTests

UnderBudget(t) == turn[t].runs < MaxTests

\* Mutant of Started: the confirmation is not marked as used before the await.
StartedUnmarked(t, n) == [Stepped(t) EXCEPT !.runs = @ + 1]

\* Run counter and confirmation are settled before the await.
Started(t, n) == [Stepped(t) EXCEPT !.runs = @ + 1, !.used = @ \/ Kind[n] = "write"]

\* The back end is asked to run the node with the configuration that was hashed.
TestSent(t, c, n) ==
    /\ Step(t, "test")
    /\ Testable(t, n) /\ ~Unkeyed(work[t], n)
    /\ Kind[n] = "write" => Confirmed(t, n) /\ ~turn[t].used
    /\ UnderBudget(t)
    /\ Wait(t, c, [tool |-> "test", node |-> n, sent |-> work[t].cfg[n]])
    /\ SetTurn(t, Started(t, n))
    /\ req' = [req EXCEPT ![t].tests = @ + 1]
    /\ ran' = IF Kind[n] = "write" /\ turn[t].confirmed # None
                THEN [ran EXCEPT ![turn[t].confirmed.no] = @ + 1] ELSE ran
    /\ UNCHANGED <<canvas, screen, doc, pc, work, copy, born, clock, earned>>

Testing(t, c) == pc[t] = "llm" /\ calls[t][c] # None /\ calls[t][c].tool = "test"

\* Mutant of TestedHash: the node is hashed when the answer is there.
HashNow(t, c) == work[t].cfg[calls[t][c].node]

\* The hash of a result is that of the copy which was sent.
TestedHash(t, c) == calls[t][c].sent

TestPassed(t, c) ==
    /\ Testing(t, c)
    /\ Return(t, c)
    /\ Record(t, calls[t][c].node, "success", TestedHash(t, c))
    /\ Earn(calls[t][c].node, "success", calls[t][c].sent)
    /\ SetTurn(t, [turn[t] EXCEPT !.dirty = TRUE])
    /\ UNCHANGED <<canvas, screen, doc, pc, req, work, born, clock, ran>>

\* A failing app trigger may be tried again or skipped: the user is asked.
TestFailed(t, c) ==
    /\ Testing(t, c)
    /\ Return(t, c)
    /\ LET n == calls[t][c].node
           h == TestedHash(t, c)
           r == [turn[t] EXCEPT !.dirty = TRUE]
       IN /\ Record(t, n, "failed", h)
          /\ SetTurn(t, IF Kind[n] = "app_trigger"
                          THEN Hold(r, [kind |-> "test", node |-> n, hash |-> h,
                                        skipOnly |-> FALSE, no |-> req[t].no])
                          ELSE r)
    /\ UNCHANGED <<canvas, screen, doc, pc, req, work, born, clock, earned, ran>>

Skipped(t, m) == m \in Nodes(work[t]) /\ StatusIn(t, m) = "skipped"

Cascades(t, missing) == missing # {} /\ \A m \in missing : Skipped(t, m)

\* The back end has no sample of the nodes in `missing': a node that writes
\* nothing is skipped when all of those are skipped.
TestCascades(t, c, missing) ==
    /\ Testing(t, c)
    /\ Return(t, c)
    /\ LET n == calls[t][c].node IN
         /\ Kind[n] # "write" /\ n \notin missing
         /\ Cascades(t, missing)
         /\ Record(t, n, "skipped", TestedHash(t, c))
         /\ Earn(n, "skipped", calls[t][c].sent)
    /\ SetTurn(t, [turn[t] EXCEPT !.dirty = TRUE])
    /\ UNCHANGED <<canvas, screen, doc, pc, req, work, born, clock, ran>>

\* Any other error of the back end leaves no record.
TestErrs(t, c) ==
    /\ Testing(t, c)
    /\ Return(t, c)
    /\ UNCHANGED <<canvas, screen, doc, pc, req, work, copy, turn, born, clock, earned, ran>>

\* Mutant of Finishable: the workflow's own checks are left out.
FinishableByTests(t) ==
    \A n \in Nodes(work[t]) : ~Unkeyed(work[t], n) /\ StatusIn(t, n) \in DoneStatuses

Finishable(t) ==
    /\ \A n \in Nodes(work[t]) : ~Unkeyed(work[t], n) /\ StatusIn(t, n) \in DoneStatuses
    /\ Valid(work[t])

\* finish(): every node is keyed and done and the workflow is valid; ask the user.
Finish(t) ==
    /\ Step(t, "finish")
    /\ Finishable(t)
    /\ SetTurn(t, Hold(Stepped(t), [kind |-> "finish", hash |-> work[t], no |-> req[t].no]))
    /\ UNCHANGED <<canvas, screen, doc, pc, req, work, copy, calls, born, clock, earned, ran>>

------------------------------------------------------------------------------
(* The end of a turn *)

\* Mutant of AppendEvents: the question is stored before the response that carries it.
AppendEventsAndAsk(t) ==
    /\ pc[t] = "llm" /\ ~Busy(t)
    /\ Store([copy[t] EXCEPT !.pending = turn[t].pending])
    /\ SetTurn(t, [turn[t] EXCEPT !.dirty = FALSE])
    /\ UNCHANGED <<canvas, screen, pc, req, work, copy, calls, born, clock, earned, ran>>

\* The events of an LLM response are appended when its calls have returned;
\* with each of them the whole state is stored, changed (dirty) or not.
AppendEvents(t) ==
    /\ pc[t] = "llm" /\ ~Busy(t)
    /\ Store(copy[t])
    /\ SetTurn(t, [turn[t] EXCEPT !.dirty = FALSE])
    /\ UNCHANGED <<canvas, screen, pc, req, work, copy, calls, born, clock, earned, ran>>

\* The LLM is done with: what only its tools use is forgotten.
Leave(t, pending) ==
    /\ pc' = [pc EXCEPT ![t] = "end"]
    /\ req' = [req EXCEPT ![t] = [Idle EXCEPT !.before = req[t].before, !.no = req[t].no]]
    /\ copy' = [copy EXCEPT ![t] = NoDoc]
    /\ SetTurn(t, [NewTurn EXCEPT !.pending = pending])
    /\ calls' = [calls EXCEPT ![t] = NoCalls]
    /\ UNCHANGED <<canvas, screen, doc, work, born, clock, earned, ran>>

\* The LLM's final text.
StopTurn(t) ==
    /\ pc[t] = "llm" /\ ~Busy(t) /\ ~turn[t].dirty
    /\ Leave(t, turn[t].pending)

\* The turn's time is up: waiting calls are cancelled, the question stays.
CutTurn(t) ==
    /\ pc[t] \in {"begin", "llm"}
    /\ Leave(t, turn[t].pending)

\* Another exception while the LLM runs: changed nodes are returned without a
\* question (when nothing has changed the exception goes on: Abort).
FailTurn(t) ==
    /\ pc[t] \in {"begin", "llm"} /\ ~Busy(t)
    /\ work[t] # req[t].before
    /\ Leave(t, None)

\* A card is stored with the configuration the response shows, or dropped with its node.
AsShown(t, q) ==
    IF q = None \/ q.kind # "card" THEN q
    ELSE IF work[t].cfg[q.node] = Gone THEN None
    ELSE [q EXCEPT !.hash = work[t].cfg[q.node]]

\* The session is read again.
EndTurn(t) ==
    /\ pc[t] = "end"
    /\ copy' = [copy EXCEPT ![t] = doc]
    /\ SetTurn(t, [turn[t] EXCEPT !.pending = AsShown(t, @)])
    /\ pc' = [pc EXCEPT ![t] = "save"]
    /\ UNCHANGED <<canvas, screen, doc, req, work, calls, born, clock, earned, ran>>

\* The question is stored, then the response is sent.
SaveTurn(t) ==
    /\ pc[t] = "save"
    /\ IF copy[t] = NoDoc THEN UNCHANGED doc
                          ELSE Store([copy[t] EXCEPT !.pending = turn[t].pending])
    /\ pc' = [pc EXCEPT ![t] = "reply"]
    /\ UNCHANGED <<canvas, screen, req, work, copy, turn, calls, born, clock, earned, ran>>

------------------------------------------------------------------------------
Edits ==
    \/ \E n \in Node, c \in Typed \cup {Gone} : EditCanvas(n, c)
    \/ \E m, n \in Node : EditConnection(m, n)

Opening(t) == LoadSession(t) \/ RotateSession(t) \/ RecreateSession(t) \/ CloseDone(t) \/ BeginTurn(t)

Editing(t) ==
    \/ \E n \in Node : \/ \E c \in Slot, after \in Node \cup {None} : AddNode(t, c, n, after)
                       \/ \E m \in Node : Connect(t, m, n)
                       \/ RemoveNode(t, n)
                       \/ \E f \in Field \cup {Blank} : SetFields(t, n, f)
    \/ \E c \in Slot : NodeAdded(t, c) \/ NodeRefused(t, c)

Trying(t) ==
    \/ \E n \in Node : TestListen(t, n) \/ TestAsks(t, n)
    \/ \E n \in Node, c \in Slot : AskModel(t, c, n) \/ TestSent(t, c, n)
    \/ \E c \in Slot : \/ ChoicesLoaded(t, c)
                       \/ TestPassed(t, c) \/ TestFailed(t, c) \/ TestErrs(t, c)
                       \/ \E missing \in SUBSET Node : TestCascades(t, c, missing)
    \/ Finish(t)

Closing(t) ==
    AppendEvents(t) \/ StopTurn(t) \/ CutTurn(t) \/ FailTurn(t) \/ EndTurn(t) \/ SaveTurn(t)

Next ==
    \/ \E t \in Turn :
         \/ \E reply \in Replies : Send(t, reply)
         \/ Opening(t) \/ Editing(t) \/ Trying(t) \/ Closing(t)
         \/ Deliver(t) \/ Drop(t) \/ Abort(t)
    \/ Edits
    \/ ExpireSession

Spec == Init /\ [][Next]_vars

------------------------------------------------------------------------------
(* Properties *)

\* The test that a step of turn t sends to the back end from slot c.
Sends(t, c) ==
    /\ calls[t][c] = None
    /\ calls'[t][c] # None
    /\ calls'[t][c].tool = "test"

\* A node that writes to an outside service is run only when the message being
\* answered is a yes to the question the user saw, and that question was about
\* this node with exactly the configuration that is sent (tools.py:524-551,
\* engine.py:139-145): whatever the LLM does in between, whatever the user edits.
WritesAreConfirmed ==
    [][\A t \in Turn, c \in Slot :
         Sends(t, c) /\ Kind[calls'[t][c].node] = "write" =>
           /\ req[t].reply = "yes"
           /\ req[t].q # None
           /\ req[t].q.kind = "test"
           /\ req[t].q.node = calls'[t][c].node
           /\ req[t].q.hash = calls'[t][c].sent
           /\ ~req[t].q.skipOnly]_vars

\* "One confirmation, one run" (tools.py:546-549): the answer to one question
\* runs at most one write test, also when calls run in parallel, a turn breaks
\* off half-way, or the session is rotated.
OneRunPerQuestion == \A i \in Number : ran[i] <= 1

\* No turn has more than MAX_TESTS_PER_TURN nodes run, however many of its
\* calls wait at the same time (tools.py:542-550).
TestBudget == \A t \in Turn : req[t].tests <= MaxTests

\* A recorded result belongs to the configuration it was obtained for: the back
\* end passed it, or the user (or the trigger's kind, or skipped
\* predecessors) skipped it.  Editing a node while its test runs forges nothing.
ResultsAreEarned ==
    \A st \in {doc} \cup {copy[t] : t \in Turn} : st # NoDoc =>
        \A n \in Node : st.tests[n] # NoTest /\ st.tests[n].status # "failed" =>
            <<n, st.tests[n].hash, st.tests[n].status>> \in earned

\* A workflow reported as DONE is complete: valid, no AI node without a model,
\* and each node, with the configuration it has now, once passed its test, was
\* skipped, or was there before the conversation changed anything.
DoneIsComplete ==
    \A t \in Turn : turn[t].done =>
        /\ Valid(work[t])
        /\ \A n \in Nodes(work[t]) :
             /\ ~Unkeyed(work[t], n)
             /\ \E s \in DoneStatuses : <<n, work[t].cfg[n], s>> \in earned

\* A DONE answers the finish question the user saw, and nothing has changed since.
DoneIsWhatWasAsked ==
    \A t \in Turn : turn[t].done =>
        /\ req[t].reply = "yes"
        /\ req[t].q # None /\ req[t].q.kind = "finish"
        /\ req[t].q.hash = work[t] /\ work[t] = req[t].before

\* A model choice goes into the node of the card exactly when the node is still
\* the one the response with the card showed (engine.py:117-128, 239-244).
ChoiceFitsCard ==
    [][\A t \in Turn :
         LET st == IF pc[t] = "recreate" /\ doc = NoDoc THEN copy[t] ELSE doc
             q  == req[t].q
             n  == q.node
         IN  (pc[t] \in {"load", "recreate"} /\ pc'[t] = "begin" /\ st # NoDoc /\ q # None
                /\ q.kind = "card" /\ st.pending = q /\ req[t].reply \in Key) =>
             IF work[t].cfg[n] # Gone /\ work[t].cfg[n] = req[t].shown
               THEN work'[t].cfg[n] = [req[t].shown EXCEPT !.key = req[t].reply]
               ELSE work'[t] = work[t]]_vars

\* What the session waits for is the question the user sees (tools.py:509: a
\* question that does not go out is not waited for).
PendingIsOnScreen ==
    (doc # NoDoc /\ \A t \in Turn : pc[t] = "idle") => doc.pending \in {None, screen.q}

\* "Reports whether all node tests (or skips) and checks have ended" (the finish
\* tool, tools.py:659): when the user agrees, no node is left failed or untested.
DoneMeansTested ==
    \A t \in Turn : turn[t].done =>
        \A n \in Nodes(work[t]) : StatusIn(t, n) \in DoneStatuses

==============================================================================
