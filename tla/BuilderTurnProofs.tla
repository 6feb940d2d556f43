--------------------------- MODULE BuilderTurnProofs ---------------------------
(***************************************************************************)
(* What holds of every conversation with the builder, for any number of    *)
(* nodes, turns and parallel calls, also when turns overlap and responses  *)
(* get lost.                                                               *)
(*                                                                         *)
(* The inductive invariant has a part per concern: the places of a turn    *)
(* (ShapeInv), the budget of tests (BudgetInv), what results, baselines    *)
(* and finish questions rest on (EarnInv), and the node of a model card    *)
(* (CardInv).  The steps of the tools are summarised once (Works), so that *)
(* only their types and summary are proved tool by tool.                   *)
(*                                                                         *)
(* The second part is about consent, for turns that do not overlap.        *)
(***************************************************************************)
EXTENDS BuilderTurn, TLAPS

\* What the place of a turn says of its message, its copy and its locals.
ShapeInv ==
    \A t \in Turn :
      /\ pc[t] \in {"idle", "load", "recreate"} => turn[t] = NewTurn
      /\ pc[t] # "idle" => req[t].no \in Number
      /\ pc[t] = "recreate" => copy[t] \in Session
      /\ pc[t] \in {"close", "begin", "llm"} => copy[t] \in Session /\ copy[t].pending = None
      /\ turn[t].pending # None => pc[t] \in {"llm", "end", "save", "reply"}
      /\ turn[t].done => pc[t] \in {"close", "reply"}
      /\ pc[t] = "close" => turn[t].done

\* The tests that were sent are those that were counted.
BudgetInv == \A t \in Turn : req[t].tests = turn[t].runs /\ turn[t].runs \leq MaxTests

\* w may be finished, as far as E says what was earned.
Complete(w, E) ==
    /\ Valid(w)
    /\ \A n \in Nodes(w) : ~Unkeyed(w, n) /\ \E s \in DoneStatuses : <<n, w.cfg[n], s>> \in E

\* Every result, baseline and finish question of the state st is earned.
Earned(st, E) ==
    /\ \A n \in Node : st.tests[n] # NoTest /\ st.tests[n].status # "failed" =>
         <<n, st.tests[n].hash, st.tests[n].status>> \in E
    /\ st.baseline # Unset =>
         \A n \in Node : st.baseline[n] # Gone =>
           \E s \in DoneStatuses : <<n, st.baseline[n], s>> \in E
    /\ st.pending # None /\ st.pending.kind = "finish" => Complete(st.pending.hash, E)

EarnInv ==
    /\ doc # NoDoc => Earned(doc, earned)
    /\ \A t \in Turn :
         /\ copy[t] # NoDoc => Earned(copy[t], earned)
         /\ turn[t].pending # None /\ turn[t].pending.kind = "finish" =>
              Complete(turn[t].pending.hash, earned)
         /\ turn[t].done => Complete(work[t], earned)

\* A card is asked about the node as it is shown.
IsShown(q, shown) == q # None /\ q.kind = "card" => shown = q.hash

CardInv ==
    /\ IsShown(screen.q, screen.shown)
    /\ \A t \in Turn :
         /\ IsShown(req[t].q, req[t].shown)
         /\ pc[t] \in {"save", "reply"} /\ turn[t].pending # None /\ turn[t].pending.kind = "card" =>
              work[t].cfg[turn[t].pending.node] = turn[t].pending.hash

IInv == TypeOK /\ ShapeInv /\ BudgetInv /\ EarnInv /\ CardInv

------------------------------------------------------------------------------
(* What the definitions return *)

\* The kind of a question says what it is.
LEMMA QuestionShape ==
  ASSUME NEW q \in Question
  PROVE  /\ q.kind \in {"test", "card", "finish"} /\ q.no \in Number
         /\ q.kind = "test" => q \in TestQuestion /\ q.node \in Node /\ q.hash \in Config
                                /\ q.skipOnly \in BOOLEAN
         /\ q.kind = "card" => q \in CardQuestion /\ q.node \in Node /\ q.hash \in Config \cup {Gone}
         /\ q.kind = "finish" => q \in FinishQuestion /\ q.hash \in Workflow
BY DEF Question, TestQuestion, CardQuestion, FinishQuestion

\* The tool of a call says what it is.
LEMMA CallShape ==
  ASSUME NEW k \in Call
  PROVE  /\ k.tool \in {"test", "card", "add"} /\ k.node \in Node
         /\ k.tool = "test" => k.sent \in Config
         /\ k.tool = "add" => k.after \in Node \cup {None}
BY DEF Call

\* One node's configuration and the connections are exchanged.
LEMMA PutConfig ==
  ASSUME NEW w \in Workflow, NEW n \in Node, NEW c \in Config \cup {Gone}, NEW E \in SUBSET (Node \X Node)
  PROVE  /\ [cfg |-> [w.cfg EXCEPT ![n] = c], edges |-> E] \in Workflow
         /\ [w EXCEPT !.cfg[n] = c] \in Workflow
         /\ [w EXCEPT !.edges = E] \in Workflow
BY DEF Workflow

\* A field or the key of a node of the workflow is exchanged.
LEMMA PutField ==
  ASSUME NEW w \in Workflow, NEW n \in Nodes(w)
  PROVE  /\ n \in Node /\ w.cfg[n] \in Config
         /\ \A f \in Field \cup {Blank} : [w EXCEPT !.cfg[n].f = f] \in Workflow
         /\ \A k \in Key : [w EXCEPT !.cfg[n].key = k] \in Workflow
<1>1. n \in Node /\ w.cfg[n] \in Config
  BY DEF Nodes, Workflow
<1>2. \A f \in Field \cup {Blank} : [w.cfg[n] EXCEPT !.f = f] \in Config
  BY <1>1 DEF Config
<1>3. \A k \in Key : [w.cfg[n] EXCEPT !.key = k] \in Config
  BY <1>1 DEF Config
<1> QED
  BY <1>1, <1>2, <1>3 DEF Workflow

\* The session of a new conversation.
LEMMA FreshShape == Fresh \in Session
BY DEF Fresh, Session, Tests, NoTests

\* A state with other tests, another baseline or another question.
LEMMA SessionShape ==
  ASSUME NEW st \in Session
  PROVE  /\ st.tests \in Tests /\ st.pending \in Question \cup {None}
         /\ st.baseline \in [Node -> Config \cup {Gone}] \cup {Unset}
         /\ \A q \in Question \cup {None} : [st EXCEPT !.pending = q] \in Session
         /\ \A n \in Node, r \in TestRecord : [st EXCEPT !.tests[n] = r] \in Session
         /\ \A w \in Workflow : [st EXCEPT !.baseline = BaselineOf(w)] \in Session
BY DEF Session, Tests, BaselineOf, Workflow

\* Storing a state leaves a state or nothing.
LEMMA StoreShape ==
  ASSUME doc \in Session \cup {NoDoc}, NEW st \in Session, Store(st)
  PROVE  doc' \in Session \cup {NoDoc} /\ (doc' # NoDoc => doc # NoDoc /\ doc' = st)
BY MarkAssumption DEF Store

\* A held question is a question.
LEMMA HoldShape ==
  ASSUME NEW r \in Locals, NEW q \in Question
  PROVE  /\ Hold(r, q) \in Locals
         /\ Hold(r, q).pending \in {r.pending, q}
         /\ Hold(r, q) = [r EXCEPT !.pending = Hold(r, q).pending]
BY DEF Hold, Locals

\* A turn at rest.
LEMMA RestShape ==
  /\ Idle \in Message /\ NewTurn \in Locals /\ NoWork \in Workflow
  /\ NoCalls \in [Slot -> Call \cup {None}]
BY TurnAssumption DEF Idle, Message, Replies, NewTurn, Locals, NoWork, Workflow, NoCalls

\* What the verdict on a message leaves of the turn.
LEMMA JudgeShape ==
  ASSUME TypeOK, NEW t \in Turn, NEW st \in Session, Judge(t, st), turn[t] = NewTurn
  PROVE  /\ copy' \in [Turn -> Session \cup {NoDoc}] /\ work' \in [Turn -> Workflow]
         /\ turn' \in [Turn -> Locals] /\ pc' \in [Turn -> Places]
         /\ copy'[t] \in Session /\ copy'[t].pending = None
         /\ \A n \in Node : \/ copy'[t].tests[n] = NoTest
                            \/ copy'[t].tests[n] = st.tests[n]
                            \/ /\ SkippedBy(st.pending, req[t].reply) /\ n = st.pending.node
                               /\ copy'[t].tests[n] = [status |-> "skipped", hash |-> st.pending.hash]
         /\ copy'[t].baseline = IF st.baseline = Unset THEN BaselineOf(work[t]) ELSE st.baseline
         /\ work'[t] = IF ChosenBy(st.pending, req[t].reply, work[t])
                         THEN [work[t] EXCEPT !.cfg[st.pending.node].key = req[t].reply]
                         ELSE work[t]
         /\ turn'[t] = [turn[t] EXCEPT
                          !.confirmed = IF ConfirmedBy(st.pending, req[t].reply) THEN st.pending ELSE None,
                          !.done = FinishedBy(st.pending, req[t].reply, work[t])]
         /\ pc'[t] = IF FinishedBy(st.pending, req[t].reply, work[t]) THEN "close" ELSE "begin"
         /\ \A u \in Turn : u # t => /\ copy'[u] = copy[u] /\ work'[u] = work[u]
                                     /\ turn'[u] = turn[u] /\ pc'[u] = pc[u]
<1> DEFINE q == st.pending
           reply == req[t].reply
           w == work[t]
           skipped == [status |-> "skipped", hash |-> q.hash]
           kept == Prune(st.tests, w)
           tests == IF SkippedBy(q, reply) THEN [kept EXCEPT ![q.node] = skipped] ELSE kept
           baseline == IF st.baseline = Unset THEN BaselineOf(w) ELSE st.baseline
           chosen == IF ChosenBy(q, reply, w) THEN [w EXCEPT !.cfg[q.node].key = reply] ELSE w
           confirmed == IF ConfirmedBy(q, reply) THEN q ELSE None
           done == FinishedBy(q, reply, w)
<1>1. /\ copy' = [copy EXCEPT ![t] = [tests |-> tests, baseline |-> baseline, pending |-> None]]
      /\ work' = [work EXCEPT ![t] = chosen]
      /\ turn' = [turn EXCEPT ![t] = [turn[t] EXCEPT !.confirmed = confirmed, !.done = done]]
      /\ pc' = [pc EXCEPT ![t] = IF done THEN "close" ELSE "begin"]
  <2>1. work' = [work EXCEPT ![t] = chosen]
    BY DEF Judge, TypeOK
  <2> QED
    BY <2>1 DEF Judge, SetTurn
<1>2. w \in Workflow /\ st.tests \in Tests /\ q \in Question \cup {None} /\ turn[t] \in Locals /\ reply \in Replies
  BY SessionShape DEF TypeOK, Message
<1>3. kept \in Tests /\ \A n \in Node : kept[n] \in {NoTest, st.tests[n]}
  BY <1>2 DEF Prune, Tests
<1>4. SkippedBy(q, reply) => q.node \in Node /\ skipped \in TestRecord
  BY <1>2, QuestionShape DEF SkippedBy, TestRecord
<1>5. /\ tests \in Tests
      /\ \A n \in Node : \/ tests[n] = NoTest
                         \/ tests[n] = st.tests[n]
                         \/ SkippedBy(q, reply) /\ n = q.node /\ tests[n] = skipped
  <2>1. CASE SkippedBy(q, reply)
    <3>1. [kept EXCEPT ![q.node] = skipped] \in Tests
      BY <1>3, <1>4, <2>1 DEF Tests
    <3> QED
      BY <1>3, <1>4, <2>1, <3>1 DEF Tests
  <2>2. CASE ~SkippedBy(q, reply)
    BY <1>3, <2>2
  <2> QED
    BY <2>1, <2>2
<1>6. baseline \in [Node -> Config \cup {Gone}] \cup {Unset}
  BY <1>2, SessionShape DEF BaselineOf, Workflow
<1>7. [tests |-> tests, baseline |-> baseline, pending |-> None] \in Session
  BY <1>5, <1>6 DEF Session
<1>8. chosen \in Workflow
  <2>1. CASE ChosenBy(q, reply, w)
    <3>1. q.node \in Nodes(w) /\ reply \in Key
      BY <1>2, <2>1, QuestionShape DEF ChosenBy, Nodes
    <3> QED
      BY <1>2, <2>1, <3>1, PutField
  <2> QED
    BY <1>2, <2>1
<1>9. confirmed \in TestQuestion \cup {None} /\ done \in BOOLEAN
  <2>1. ConfirmedBy(q, reply) => q \in TestQuestion
    BY <1>2, QuestionShape DEF ConfirmedBy
  <2>2. done \in BOOLEAN
    BY DEF FinishedBy
  <2> QED
    BY <2>1, <2>2
<1>10. [turn[t] EXCEPT !.confirmed = confirmed, !.done = done] \in Locals
  BY <1>2, <1>9 DEF Locals
<1> HIDE DEF tests, baseline, chosen, confirmed, done
<1>11. /\ copy' \in [Turn -> Session \cup {NoDoc}] /\ work' \in [Turn -> Workflow]
       /\ turn' \in [Turn -> Locals] /\ pc' \in [Turn -> Places]
  BY <1>1, <1>7, <1>8, <1>10 DEF TypeOK, Places
<1>12. /\ copy'[t] = [tests |-> tests, baseline |-> baseline, pending |-> None]
       /\ work'[t] = chosen
       /\ turn'[t] = [turn[t] EXCEPT !.confirmed = confirmed, !.done = done]
       /\ pc'[t] = IF done THEN "close" ELSE "begin"
       /\ \A u \in Turn : u # t => /\ copy'[u] = copy[u] /\ work'[u] = work[u]
                                   /\ turn'[u] = turn[u] /\ pc'[u] = pc[u]
  BY <1>1 DEF TypeOK
<1>13. copy'[t] \in Session /\ copy'[t].tests = tests /\ copy'[t].baseline = baseline /\ copy'[t].pending = None
  BY <1>7, <1>12
<1> QED
  BY <1>5, <1>11, <1>12, <1>13 DEF baseline, chosen, confirmed, done

------------------------------------------------------------------------------
(* What the tools of an LLM response leave alone *)

\* The finish question that a turn may ask.
MayAsk(t, q) ==
    /\ q \in Question /\ q.no = req[t].no
    /\ q.kind = "finish" => Finishable(t) /\ q.hash = work[t]

\* r are the locals of turn t, further on in its work.
Follows(t, r) ==
    /\ r \in Locals
    /\ r.confirmed = turn[t].confirmed /\ r.done = turn[t].done
    /\ r.pending = turn[t].pending \/ MayAsk(t, r.pending)

\* At most one test is started, and counted; a write test uses the confirmation up.
Counts(t) ==
    \/ /\ turn'[t].runs = turn[t].runs /\ req'[t].tests = req[t].tests
       /\ turn'[t].used = turn[t].used /\ ran' = ran
    \/ /\ UnderBudget(t)
       /\ turn'[t].runs = turn[t].runs + 1 /\ req'[t].tests = req[t].tests + 1
       /\ turn[t].used => turn'[t].used
       /\ \/ ran' = ran
          \/ /\ turn[t].confirmed # None /\ ~turn[t].used /\ turn'[t].used
             /\ ran' = [ran EXCEPT ![turn[t].confirmed.no] = @ + 1]

\* Only earned results are recorded.
Records(t) ==
    /\ copy'[t] \in Session
    /\ copy'[t].pending = copy[t].pending /\ copy'[t].baseline = copy[t].baseline
    /\ earned \subseteq earned'
    /\ \A n \in Node :
         \/ copy'[t].tests[n] = copy[t].tests[n]
         \/ copy'[t].tests[n].status = "failed"
         \/ <<n, copy'[t].tests[n].hash, copy'[t].tests[n].status>> \in earned'

\* A step of a tool of turn t.
Works(t) ==
    /\ pc[t] = "llm"
    /\ UNCHANGED <<canvas, screen, doc, pc, clock>>
    /\ req' \in [Turn -> Message] /\ work' \in [Turn -> Workflow] /\ copy' \in [Turn -> Session \cup {NoDoc}]
    /\ turn' \in [Turn -> Locals] /\ calls' \in [Turn -> [Slot -> Call \cup {None}]]
    /\ born' \subseteq Node /\ ran' \in [Number -> Nat]
    /\ \A u \in Turn : u # t => /\ req'[u] = req[u] /\ work'[u] = work[u]
                                /\ copy'[u] = copy[u] /\ turn'[u] = turn[u]
    /\ /\ req'[t].reply = req[t].reply /\ req'[t].q = req[t].q /\ req'[t].shown = req[t].shown
       /\ req'[t].before = req[t].before /\ req'[t].no = req[t].no
    /\ Follows(t, turn'[t])
    /\ Counts(t)
    /\ Records(t)

\* The locals after one more call.
LEMMA SteppedFollows ==
  ASSUME TypeOK, NEW t \in Turn, NEW tool, Step(t, tool)
  PROVE  /\ pc[t] = "llm" /\ Follows(t, Stepped(t))
         /\ Stepped(t).runs = turn[t].runs /\ Stepped(t).used = turn[t].used
         /\ Stepped(t).pending = turn[t].pending
<1>1. turn[t] \in Locals
  BY DEF TypeOK
<1>2. turn[t].steps \in 0..MaxSteps /\ turn[t].steps < MaxSteps /\ pc[t] = "llm"
  BY <1>1 DEF Locals, Step, StepGuard
<1>3. turn[t].steps + 1 \in 0..MaxSteps
  BY <1>2, TurnAssumption
<1>4. Stepped(t) = [turn[t] EXCEPT !.steps = turn[t].steps + 1]
  BY DEF Stepped
<1>5. Stepped(t) \in Locals
  BY <1>1, <1>3, <1>4 DEF Locals
<1> QED
  BY <1>1, <1>2, <1>4, <1>5 DEF Locals, Follows

\* A question that may be asked may be held.
LEMMA HoldFollows ==
  ASSUME TypeOK, NEW t \in Turn, NEW r, Follows(t, r), NEW q, MayAsk(t, q)
  PROVE  /\ Follows(t, Hold(r, q))
         /\ Hold(r, q).runs = r.runs /\ Hold(r, q).used = r.used
<1>1. r \in Locals /\ q \in Question
  BY DEF Follows, MayAsk
<1>2. Hold(r, q) \in Locals /\ Hold(r, q).pending \in {r.pending, q}
  BY <1>1, HoldShape
<1>3. /\ Hold(r, q).confirmed = r.confirmed /\ Hold(r, q).done = r.done
      /\ Hold(r, q).runs = r.runs /\ Hold(r, q).used = r.used
  BY <1>1 DEF Hold, Locals
<1> QED
  BY <1>2, <1>3 DEF Follows

\* A turn that has a place has a number for its questions.
LEMMA NumberShape ==
  ASSUME TypeOK, ShapeInv, NEW t \in Turn, pc[t] = "llm"
  PROVE  req[t].no \in Number /\ copy[t] \in Session /\ turn[t] \in Locals /\ work[t] \in Workflow
BY DEF TypeOK, ShapeInv

\* A card may be asked about any node.
LEMMA CardMayAsk ==
  ASSUME TypeOK, ShapeInv, NEW t \in Turn, pc[t] = "llm", NEW n \in Node
  PROVE  /\ MayAsk(t, Card(t, n))
         /\ \A c \in Config : MayAsk(t, [Card(t, n) EXCEPT !.hash = c])
<1>1. req[t].no \in Number /\ work[t].cfg[n] \in Config \cup {Gone}
  BY NumberShape DEF Workflow
<1>2. Card(t, n) \in CardQuestion /\ Card(t, n).kind = "card" /\ Card(t, n).no = req[t].no
  BY <1>1 DEF Card, CardQuestion
<1>3. ASSUME NEW c \in Config
      PROVE  /\ [Card(t, n) EXCEPT !.hash = c] \in CardQuestion
             /\ [Card(t, n) EXCEPT !.hash = c].kind = "card"
             /\ [Card(t, n) EXCEPT !.hash = c].no = req[t].no
  BY <1>1 DEF Card, CardQuestion
<1> QED
  BY <1>2, <1>3 DEF MayAsk, Question

\* A call that waits, and one that returns.
LEMMA CallsShape ==
  ASSUME TypeOK, NEW t \in Turn, NEW c \in Slot
  PROVE  /\ \A k \in Call : Wait(t, c, k) => calls' \in [Turn -> [Slot -> Call \cup {None}]]
         /\ Return(t, c) => calls' \in [Turn -> [Slot -> Call \cup {None}]]
         /\ calls[t][c] # None => calls[t][c] \in Call
<1>1. calls \in [Turn -> [Slot -> Call \cup {None}]] /\ calls[t] \in [Slot -> Call \cup {None}]
  BY DEF TypeOK
<1>2. \A k \in Call \cup {None} : [calls[t] EXCEPT ![c] = k] \in [Slot -> Call \cup {None}]
  BY <1>1
<1> QED
  BY <1>1, <1>2 DEF Wait, Return

\* A recorded result is one, and the others stay.
LEMMA RecordShape ==
  ASSUME TypeOK, ShapeInv, NEW t \in Turn, pc[t] = "llm", NEW n \in Node,
         NEW s \in {"success", "failed", "skipped"}, NEW h \in Config \cup {Gone}, Record(t, n, s, h),
         earned \subseteq earned', s = "failed" \/ <<n, h, s>> \in earned'
  PROVE  Records(t) /\ copy' \in [Turn -> Session \cup {NoDoc}] /\ \A u \in Turn : u # t => copy'[u] = copy[u]
<1> DEFINE r == [status |-> s, hash |-> h]
<1>1. copy[t] \in Session /\ copy \in [Turn -> Session \cup {NoDoc}]
  BY NumberShape DEF TypeOK
<1>2. r \in TestRecord
  BY DEF TestRecord
<1>3. [copy[t] EXCEPT !.tests[n] = r] \in Session
  BY <1>1, <1>2, SessionShape
<1>4. copy' = [copy EXCEPT ![t] = [copy[t] EXCEPT !.tests[n] = r]]
  BY <1>1 DEF Record
<1>5. copy'[t] = [copy[t] EXCEPT !.tests[n] = r] /\ copy' \in [Turn -> Session \cup {NoDoc}]
      /\ \A u \in Turn : u # t => copy'[u] = copy[u]
  BY <1>1, <1>3, <1>4
<1>6. /\ copy'[t].pending = copy[t].pending /\ copy'[t].baseline = copy[t].baseline
      /\ \A m \in Node : copy'[t].tests[m] = IF m = n THEN r ELSE copy[t].tests[m]
  BY <1>1, <1>5 DEF Session, Tests
<1> QED
  BY <1>3, <1>5, <1>6 DEF Records

\* A tool that records nothing.
LEMMA NothingRecorded ==
  ASSUME TypeOK, ShapeInv, NEW t \in Turn, pc[t] = "llm", copy' = copy, earned' = earned
  PROVE  Records(t)
BY NumberShape DEF Records

\* The locals of turn t are exchanged for ones that follow, and no test is sent.
LEMMA LocalsFollow ==
  ASSUME TypeOK, NEW t \in Turn, NEW r, Follows(t, r), r.runs = turn[t].runs, r.used = turn[t].used,
         SetTurn(t, r), UNCHANGED <<req, ran>>
  PROVE  /\ turn' \in [Turn -> Locals] /\ Follows(t, turn'[t]) /\ Counts(t)
         /\ \A u \in Turn : u # t => turn'[u] = turn[u]
<1>1. turn' = [turn EXCEPT ![t] = r] /\ r \in Locals /\ turn \in [Turn -> Locals]
  BY DEF SetTurn, Follows, TypeOK
<1>2. turn'[t] = r /\ turn' \in [Turn -> Locals] /\ \A u \in Turn : u # t => turn'[u] = turn[u]
  BY <1>1
<1> QED
  BY <1>2 DEF Counts

\* The locals stay.
LEMMA LocalsStay ==
  ASSUME TypeOK, NEW t \in Turn, UNCHANGED <<turn, req, ran>>
  PROVE  turn' \in [Turn -> Locals] /\ Follows(t, turn'[t]) /\ Counts(t)
BY DEF TypeOK, Follows, Counts

\* The copy of the workflow is exchanged.
LEMMA WorkPut ==
  ASSUME TypeOK, NEW t \in Turn, NEW w \in Workflow, work' = [work EXCEPT ![t] = w]
  PROVE  work' \in [Turn -> Workflow] /\ work'[t] = w /\ \A u \in Turn : u # t => work'[u] = work[u]
BY DEF TypeOK

\* Adding, connecting, removing and filling in nodes.
LEMMA EditingWorks ==
  ASSUME TypeOK, ShapeInv, NEW t \in Turn, Editing(t)
  PROVE  Works(t)
<1> USE DEF Works
<1>0. /\ req \in [Turn -> Message] /\ work \in [Turn -> Workflow] /\ work[t] \in Workflow
      /\ copy \in [Turn -> Session \cup {NoDoc}] /\ turn[t] \in Locals
      /\ calls \in [Turn -> [Slot -> Call \cup {None}]] /\ born \subseteq Node /\ ran \in [Number -> Nat]
  BY DEF TypeOK
<1>1. ASSUME NEW n \in Node, NEW c \in Slot, NEW after \in Node \cup {None}, AddNode(t, c, n, after)
      PROVE  Works(t)
  <2>1. pc[t] = "llm" /\ Follows(t, Stepped(t)) /\ Stepped(t).runs = turn[t].runs /\ Stepped(t).used = turn[t].used
    BY <1>1, SteppedFollows DEF AddNode
  <2>2. turn' \in [Turn -> Locals] /\ Follows(t, turn'[t]) /\ Counts(t) /\ \A u \in Turn : u # t => turn'[u] = turn[u]
    BY <1>1, <2>1, LocalsFollow DEF AddNode
  <2>3. [tool |-> "add", node |-> n, after |-> after] \in Call
    BY DEF Call
  <2>4. calls' \in [Turn -> [Slot -> Call \cup {None}]]
    BY <1>1, <2>3, CallsShape DEF AddNode
  <2>5. Records(t)
    BY <1>1, <2>1, NothingRecorded DEF AddNode
  <2>6. born' \subseteq Node
    BY <1>0, <1>1 DEF AddNode
  <2>7. UNCHANGED <<canvas, screen, doc, pc, req, work, copy, clock, ran>>
    BY <1>1 DEF AddNode
  <2> QED
    BY <1>0, <2>1, <2>2, <2>4, <2>5, <2>6, <2>7
<1>2. ASSUME NEW m \in Node, NEW n \in Node, Connect(t, m, n)
      PROVE  Works(t)
  <2>1. pc[t] = "llm" /\ Follows(t, Stepped(t)) /\ Stepped(t).runs = turn[t].runs /\ Stepped(t).used = turn[t].used
    BY <1>2, SteppedFollows DEF Connect
  <2>2. turn' \in [Turn -> Locals] /\ Follows(t, turn'[t]) /\ Counts(t) /\ \A u \in Turn : u # t => turn'[u] = turn[u]
    BY <1>2, <2>1, LocalsFollow DEF Connect
  <2>3. work[t].edges \cup {<<m, n>>} \in SUBSET (Node \X Node)
    BY <1>0 DEF Workflow
  <2>4. work' = [work EXCEPT ![t] = [work[t] EXCEPT !.edges = work[t].edges \cup {<<m, n>>}]]
    BY <1>0, <1>2 DEF Connect
  <2>5. work' \in [Turn -> Workflow] /\ \A u \in Turn : u # t => work'[u] = work[u]
    BY <1>0, <2>3, <2>4, PutConfig, WorkPut
  <2>6. Records(t)
    BY <1>2, <2>1, NothingRecorded DEF Connect
  <2>7. UNCHANGED <<canvas, screen, doc, pc, req, copy, calls, born, clock, ran>>
    BY <1>2 DEF Connect
  <2> QED
    BY <1>0, <2>1, <2>2, <2>5, <2>6, <2>7
<1>3. ASSUME NEW n \in Node, RemoveNode(t, n)
      PROVE  Works(t)
  <2>1. pc[t] = "llm" /\ Follows(t, Stepped(t)) /\ Stepped(t).runs = turn[t].runs /\ Stepped(t).used = turn[t].used
    BY <1>3, SteppedFollows DEF RemoveNode
  <2>2. turn' \in [Turn -> Locals] /\ Follows(t, turn'[t]) /\ Counts(t) /\ \A u \in Turn : u # t => turn'[u] = turn[u]
    BY <1>3, <2>1, LocalsFollow DEF RemoveNode
  <2>3. {e \in work[t].edges : n \notin {e[1], e[2]}} \in SUBSET (Node \X Node)
    BY <1>0 DEF Workflow
  <2>4. work' = [work EXCEPT ![t] = [cfg |-> [work[t].cfg EXCEPT ![n] = Gone],
                                     edges |-> {e \in work[t].edges : n \notin {e[1], e[2]}}]]
    BY <1>3 DEF RemoveNode
  <2>5. work' \in [Turn -> Workflow] /\ \A u \in Turn : u # t => work'[u] = work[u]
    BY <1>0, <2>3, <2>4, PutConfig, WorkPut
  <2>6. Records(t)
    BY <1>3, <2>1, NothingRecorded DEF RemoveNode
  <2>7. UNCHANGED <<canvas, screen, doc, pc, req, copy, calls, born, clock, ran>>
    BY <1>3 DEF RemoveNode
  <2> QED
    BY <1>0, <2>1, <2>2, <2>5, <2>6, <2>7
<1>4. ASSUME NEW n \in Node, NEW f \in Field \cup {Blank}, SetFields(t, n, f)
      PROVE  Works(t)
  <2>1. pc[t] = "llm" /\ Follows(t, Stepped(t)) /\ Stepped(t).runs = turn[t].runs /\ Stepped(t).used = turn[t].used
    BY <1>4, SteppedFollows DEF SetFields
  <2>2. turn' \in [Turn -> Locals] /\ Follows(t, turn'[t]) /\ Counts(t) /\ \A u \in Turn : u # t => turn'[u] = turn[u]
    BY <1>4, <2>1, LocalsFollow DEF SetFields
  <2>3. work' = [work EXCEPT ![t] = [work[t] EXCEPT !.cfg[n].f = f]] /\ n \in Nodes(work[t])
    BY <1>4 DEF SetFields
  <2>4. work' \in [Turn -> Workflow] /\ \A u \in Turn : u # t => work'[u] = work[u]
    BY <1>0, <2>3, PutField, WorkPut
  <2>5. Records(t)
    BY <1>4, <2>1, NothingRecorded DEF SetFields
  <2>6. UNCHANGED <<canvas, screen, doc, pc, req, copy, calls, born, clock, ran>>
    BY <1>4 DEF SetFields
  <2> QED
    BY <1>0, <2>1, <2>2, <2>4, <2>5, <2>6
<1>5. ASSUME NEW c \in Slot, NodeAdded(t, c)
      PROVE  Works(t)
  <2> DEFINE n == calls[t][c].node
             after == calls[t][c].after
             E == work[t].edges \cup (IF after = None THEN {} ELSE {<<after, n>>})
             r == [turn[t] EXCEPT !.choices = "some"]
             q == [Card(t, n) EXCEPT !.hash = InitialConfig(n)]
  <2>1. pc[t] = "llm" /\ calls[t][c] \in Call /\ calls[t][c].tool = "add"
    BY <1>5, CallsShape DEF NodeAdded
  <2>2. n \in Node /\ after \in Node \cup {None}
    BY <2>1, CallShape
  <2>3. InitialConfig(n) \in Config
    <3>1. (CHOOSE f \in Field : TRUE) \in Field
      BY WorkflowAssumption
    <3> QED
      BY <3>1 DEF InitialConfig, Config
  <2>4. r \in Locals /\ Follows(t, r) /\ r.runs = turn[t].runs /\ r.used = turn[t].used
    BY <1>0 DEF Locals, Follows
  <2>5. MayAsk(t, q)
    BY <2>1, <2>2, <2>3, CardMayAsk
  <2> HIDE DEF n, q, r
  <2>6. Follows(t, Hold(r, q)) /\ Hold(r, q).runs = turn[t].runs /\ Hold(r, q).used = turn[t].used
    BY <2>4, <2>5, HoldFollows
  <2>7. turn' \in [Turn -> Locals] /\ Follows(t, turn'[t]) /\ Counts(t) /\ \A u \in Turn : u # t => turn'[u] = turn[u]
    <3>1. SetTurn(t, Hold(r, q)) \/ UNCHANGED turn
      BY <1>5 DEF NodeAdded, n, q, r
    <3>2. UNCHANGED <<req, ran>>
      BY <1>5 DEF NodeAdded
    <3> QED
      BY <2>6, <3>1, <3>2, LocalsFollow, LocalsStay
  <2>8. E \in SUBSET (Node \X Node)
    BY <1>0, <2>2 DEF Workflow
  <2>9. work' = [work EXCEPT ![t] = [cfg |-> [work[t].cfg EXCEPT ![n] = InitialConfig(n)], edges |-> E]]
    BY <1>5 DEF NodeAdded, n
  <2> HIDE DEF E
  <2>10. work' \in [Turn -> Workflow] /\ \A u \in Turn : u # t => work'[u] = work[u]
    BY <1>0, <2>2, <2>3, <2>8, <2>9, PutConfig, WorkPut
  <2>11. Records(t)
    BY <1>5, <2>1, NothingRecorded DEF NodeAdded
  <2>12. UNCHANGED <<canvas, screen, doc, pc, req, copy, born, clock, ran>>
    BY <1>5 DEF NodeAdded
  <2>13. calls' \in [Turn -> [Slot -> Call \cup {None}]]
    BY <1>5, CallsShape DEF NodeAdded
  <2> QED
    BY <1>0, <2>1, <2>7, <2>10, <2>11, <2>12, <2>13
<1>6. ASSUME NEW c \in Slot, NodeRefused(t, c)
      PROVE  Works(t)
  <2> DEFINE r == [turn[t] EXCEPT !.choices = "none"]
  <2>1. pc[t] = "llm" /\ UNCHANGED <<canvas, screen, doc, pc, req, work, copy, born, clock, earned, ran>>
    BY <1>6 DEF NodeRefused
  <2>2. r \in Locals /\ Follows(t, r) /\ r.runs = turn[t].runs /\ r.used = turn[t].used
    BY <1>0 DEF Locals, Follows
  <2>3. SetTurn(t, r) \/ UNCHANGED turn
    BY <1>6 DEF NodeRefused
  <2>4. turn' \in [Turn -> Locals] /\ Follows(t, turn'[t]) /\ Counts(t) /\ \A u \in Turn : u # t => turn'[u] = turn[u]
    BY <2>1, <2>2, <2>3, LocalsFollow, LocalsStay
  <2>5. calls' \in [Turn -> [Slot -> Call \cup {None}]]
    BY <1>6, CallsShape DEF NodeRefused
  <2>6. Records(t)
    BY <2>1, NothingRecorded
  <2> QED
    BY <1>0, <2>1, <2>4, <2>5, <2>6
<1> QED
  BY <1>1, <1>2, <1>3, <1>4, <1>5, <1>6 DEF Editing

\* Marking the copy as changed, or remembering the choices, changes no more.
LEMMA MarkFollows ==
  ASSUME TypeOK, NEW t \in Turn, NEW r, Follows(t, r)
  PROVE  /\ LET s == [r EXCEPT !.dirty = TRUE] IN
              Follows(t, s) /\ s.runs = r.runs /\ s.used = r.used
         /\ \A x \in {"unknown", "some", "none"} :
              LET s == [r EXCEPT !.choices = x] IN
                Follows(t, s) /\ s.runs = r.runs /\ s.used = r.used
BY DEF Follows, Locals

\* The locals follow themselves.
LEMMA SelfFollows ==
  ASSUME TypeOK, NEW t \in Turn
  PROVE  Follows(t, turn[t])
BY DEF TypeOK, Follows

\* A question about a test may be asked.
LEMMA TestMayAsk ==
  ASSUME TypeOK, ShapeInv, NEW t \in Turn, pc[t] = "llm", NEW n \in Node, NEW h \in Config, NEW b \in BOOLEAN
  PROVE  MayAsk(t, [kind |-> "test", node |-> n, hash |-> h, skipOnly |-> b, no |-> req[t].no])
<1>1. req[t].no \in Number
  BY NumberShape
<1> QED
  BY <1>1 DEF MayAsk, Question, TestQuestion

\* Trying nodes out, asking for a model, and finishing.
LEMMA TryingWorks ==
  ASSUME TypeOK, ShapeInv, NEW t \in Turn, Trying(t)
  PROVE  Works(t)
<1> USE DEF Works
<1>0. /\ req \in [Turn -> Message] /\ work \in [Turn -> Workflow] /\ work[t] \in Workflow
      /\ copy \in [Turn -> Session \cup {NoDoc}] /\ turn[t] \in Locals
      /\ calls \in [Turn -> [Slot -> Call \cup {None}]] /\ born \subseteq Node /\ ran \in [Number -> Nat]
  BY DEF TypeOK
<1>1. ASSUME NEW n \in Node, TestListen(t, n)
      PROVE  Works(t)
  <2>1. pc[t] = "llm" /\ Follows(t, Stepped(t)) /\ Stepped(t).runs = turn[t].runs /\ Stepped(t).used = turn[t].used
    BY <1>1, SteppedFollows DEF TestListen
  <2> DEFINE r == [Stepped(t) EXCEPT !.dirty = TRUE]
  <2>2. Follows(t, r) /\ r.runs = turn[t].runs /\ r.used = turn[t].used
    BY <2>1, MarkFollows
  <2>3. SetTurn(t, r) /\ UNCHANGED <<canvas, screen, doc, pc, req, work, calls, born, clock, ran>>
    BY <1>1 DEF TestListen
  <2> HIDE DEF r
  <2>4. turn' \in [Turn -> Locals] /\ Follows(t, turn'[t]) /\ Counts(t) /\ \A u \in Turn : u # t => turn'[u] = turn[u]
    BY <2>2, <2>3, LocalsFollow
  <2>5. work[t].cfg[n] \in Config \cup {Gone}
    BY <1>0 DEF Workflow
  <2>6. Record(t, n, "skipped", work[t].cfg[n]) /\ earned' = earned \cup {<<n, work[t].cfg[n], "skipped">>}
    BY <1>1 DEF TestListen, Earn
  <2>7. Records(t) /\ copy' \in [Turn -> Session \cup {NoDoc}] /\ \A u \in Turn : u # t => copy'[u] = copy[u]
    BY <2>1, <2>5, <2>6, RecordShape
  <2> QED
    BY <1>0, <2>1, <2>3, <2>4, <2>7
<1>2. ASSUME NEW n \in Node, TestAsks(t, n)
      PROVE  Works(t)
  <2> DEFINE b == \E m \in Ancestors(work[t], n) : StatusIn(t, m) = "skipped"
             q == [kind |-> "test", node |-> n, hash |-> work[t].cfg[n], skipOnly |-> b, no |-> req[t].no]
  <2>1. pc[t] = "llm" /\ Follows(t, Stepped(t)) /\ Stepped(t).runs = turn[t].runs /\ Stepped(t).used = turn[t].used
    BY <1>2, SteppedFollows DEF TestAsks
  <2>2. work[t].cfg[n] \in Config
    BY <1>0, <1>2, PutField DEF TestAsks, Testable
  <2>3. b \in BOOLEAN
    OBVIOUS
  <2>4. SetTurn(t, Hold(Stepped(t), q))
        /\ UNCHANGED <<canvas, screen, doc, pc, req, work, copy, calls, born, clock, earned, ran>>
    BY <1>2 DEF TestAsks
  <2> HIDE DEF b
  <2>5. MayAsk(t, q)
    BY <2>1, <2>2, <2>3, TestMayAsk
  <2> HIDE DEF q
  <2>6. Follows(t, Hold(Stepped(t), q)) /\ Hold(Stepped(t), q).runs = turn[t].runs
        /\ Hold(Stepped(t), q).used = turn[t].used
    BY <2>1, <2>5, HoldFollows
  <2>7. turn' \in [Turn -> Locals] /\ Follows(t, turn'[t]) /\ Counts(t) /\ \A u \in Turn : u # t => turn'[u] = turn[u]
    BY <2>4, <2>6, LocalsFollow
  <2>8. Records(t)
    BY <2>1, <2>4, NothingRecorded
  <2> QED
    BY <1>0, <2>1, <2>4, <2>7, <2>8
<1>3. ASSUME NEW n \in Node, NEW c \in Slot, AskModel(t, c, n)
      PROVE  Works(t)
  <2>1. pc[t] = "llm" /\ Follows(t, Stepped(t)) /\ Stepped(t).runs = turn[t].runs /\ Stepped(t).used = turn[t].used
    BY <1>3, SteppedFollows DEF AskModel
  <2>2. UNCHANGED <<canvas, screen, doc, pc, req, work, copy, born, clock, earned, ran>>
    BY <1>3 DEF AskModel
  <2>3. MayAsk(t, Card(t, n))
    BY <2>1, CardMayAsk
  <2>4. Follows(t, Hold(Stepped(t), Card(t, n))) /\ Hold(Stepped(t), Card(t, n)).runs = turn[t].runs
        /\ Hold(Stepped(t), Card(t, n)).used = turn[t].used
    BY <2>1, <2>3, HoldFollows
  <2>5. SetTurn(t, Hold(Stepped(t), Card(t, n))) \/ SetTurn(t, Stepped(t))
    BY <1>3 DEF AskModel
  <2>6. turn' \in [Turn -> Locals] /\ Follows(t, turn'[t]) /\ Counts(t) /\ \A u \in Turn : u # t => turn'[u] = turn[u]
    BY <2>1, <2>2, <2>4, <2>5, LocalsFollow
  <2>7. [tool |-> "card", node |-> n] \in Call
    BY DEF Call
  <2>8. calls' \in [Turn -> [Slot -> Call \cup {None}]]
    BY <1>0, <1>3, <2>7, CallsShape DEF AskModel
  <2>9. Records(t)
    BY <2>1, <2>2, NothingRecorded
  <2> QED
    BY <1>0, <2>1, <2>2, <2>6, <2>8, <2>9
<1>4. ASSUME NEW n \in Node, NEW c \in Slot, TestSent(t, c, n)
      PROVE  Works(t)
  <2>1. pc[t] = "llm" /\ Follows(t, Stepped(t)) /\ Stepped(t).runs = turn[t].runs /\ Stepped(t).used = turn[t].used
    BY <1>4, SteppedFollows DEF TestSent
  <2>2. UNCHANGED <<canvas, screen, doc, pc, work, copy, born, clock, earned>> /\ UnderBudget(t)
        /\ turn' = [turn EXCEPT ![t] = Started(t, n)] /\ req' = [req EXCEPT ![t].tests = @ + 1]
    BY <1>4 DEF TestSent, SetTurn
  <2>3. Stepped(t) \in Locals
    BY <2>1 DEF Follows
  <2>4. /\ Started(t, n) \in Locals
        /\ Started(t, n).runs = turn[t].runs + 1
        /\ Started(t, n).confirmed = turn[t].confirmed /\ Started(t, n).done = turn[t].done
        /\ Started(t, n).pending = turn[t].pending
        /\ turn[t].used \/ Kind[n] = "write" => Started(t, n).used
    <3>1. Stepped(t).pending = turn[t].pending
      BY <1>0 DEF Stepped, Locals
    <3>2. Started(t, n) = [Stepped(t) EXCEPT !.runs = turn[t].runs + 1, !.used = turn[t].used \/ Kind[n] = "write"]
      BY <2>1, <2>3 DEF Started, Locals
    <3>3. turn[t].runs + 1 \in Nat /\ (turn[t].used \/ Kind[n] = "write") \in BOOLEAN
      BY <1>0 DEF Locals
    <3> QED
      BY <2>1, <2>3, <3>1, <3>2, <3>3 DEF Locals, Follows
  <2>5. Follows(t, Started(t, n))
    BY <2>4 DEF Follows
  <2>6. turn' \in [Turn -> Locals] /\ turn'[t] = Started(t, n) /\ \A u \in Turn : u # t => turn'[u] = turn[u]
    BY <2>2, <2>4 DEF TypeOK
  <2>7. /\ req' \in [Turn -> Message] /\ req'[t].tests = req[t].tests + 1
        /\ req'[t].reply = req[t].reply /\ req'[t].q = req[t].q /\ req'[t].shown = req[t].shown
        /\ req'[t].before = req[t].before /\ req'[t].no = req[t].no
        /\ \A u \in Turn : u # t => req'[u] = req[u]
    <3>1. [req[t] EXCEPT !.tests = req[t].tests + 1] \in Message
      <4>1. req[t] \in Message
        BY <1>0
      <4>2. req[t].tests + 1 \in Nat
        BY <4>1 DEF Message
      <4> QED
        BY <4>1, <4>2 DEF Message
    <3>2. req' = [req EXCEPT ![t] = [req[t] EXCEPT !.tests = req[t].tests + 1]]
      BY <1>0, <2>2
    <3> QED
      BY <1>0, <3>1, <3>2 DEF Message
  <2>8. [tool |-> "test", node |-> n, sent |-> work[t].cfg[n]] \in Call
    <3>1. work[t].cfg[n] \in Config
      BY <1>0, <1>4, PutField DEF TestSent, Testable
    <3> QED
      BY <3>1 DEF Call
  <2>9. calls' \in [Turn -> [Slot -> Call \cup {None}]]
    BY <1>4, <2>8, CallsShape DEF TestSent
  <2>10. \/ ran' = ran
         \/ /\ turn[t].confirmed # None /\ ~turn[t].used /\ Kind[n] = "write"
            /\ ran' = [ran EXCEPT ![turn[t].confirmed.no] = @ + 1]
    BY <1>4 DEF TestSent
  <2>11. turn[t].confirmed # None => turn[t].confirmed.no \in Number
    BY <1>0 DEF Locals, TestQuestion
  <2>12. ran' \in [Number -> Nat]
    BY <1>0, <2>10, <2>11
  <2>13. Counts(t)
    BY <2>2, <2>4, <2>6, <2>7, <2>10 DEF Counts
  <2>14. Records(t)
    BY <2>1, <2>2, NothingRecorded
  <2> QED
    BY <1>0, <2>1, <2>2, <2>5, <2>6, <2>7, <2>9, <2>12, <2>13, <2>14
<1>5. ASSUME NEW c \in Slot, ChoicesLoaded(t, c)
      PROVE  Works(t)
  <2> DEFINE n == calls[t][c].node
             some == [turn[t] EXCEPT !.choices = "some"]
             none == [turn[t] EXCEPT !.choices = "none"]
  <2>1. pc[t] = "llm" /\ calls[t][c] \in Call
        /\ UNCHANGED <<canvas, screen, doc, pc, req, work, copy, born, clock, earned, ran>>
    BY <1>5, CallsShape DEF ChoicesLoaded
  <2>2. n \in Node
    BY <2>1, CallShape
  <2>3. Follows(t, some) /\ some.runs = turn[t].runs /\ some.used = turn[t].used
        /\ Follows(t, none) /\ none.runs = turn[t].runs /\ none.used = turn[t].used
    BY SelfFollows, MarkFollows
  <2>4. SetTurn(t, Hold(some, Card(t, n))) \/ SetTurn(t, none) \/ UNCHANGED turn
    BY <1>5 DEF ChoicesLoaded
  <2> HIDE DEF n, some, none
  <2>5. Follows(t, Hold(some, Card(t, n))) /\ Hold(some, Card(t, n)).runs = turn[t].runs
        /\ Hold(some, Card(t, n)).used = turn[t].used
    BY <2>1, <2>2, <2>3, CardMayAsk, HoldFollows
  <2>6. turn' \in [Turn -> Locals] /\ Follows(t, turn'[t]) /\ Counts(t) /\ \A u \in Turn : u # t => turn'[u] = turn[u]
    BY <2>1, <2>3, <2>4, <2>5, LocalsFollow, LocalsStay
  <2>7. calls' \in [Turn -> [Slot -> Call \cup {None}]]
    BY <1>5, CallsShape DEF ChoicesLoaded
  <2>8. Records(t)
    BY <2>1, NothingRecorded
  <2> QED
    BY <1>0, <2>1, <2>6, <2>7, <2>8
<1>6. ASSUME NEW c \in Slot, Testing(t, c), Return(t, c)
      PROVE  /\ pc[t] = "llm" /\ calls[t][c].node \in Node /\ calls[t][c].sent \in Config
             /\ calls' \in [Turn -> [Slot -> Call \cup {None}]]
  BY <1>6, CallsShape, CallShape DEF Testing
<1> DEFINE dirty == [turn[t] EXCEPT !.dirty = TRUE]
<1>7. Follows(t, dirty) /\ dirty.runs = turn[t].runs /\ dirty.used = turn[t].used
  BY SelfFollows, MarkFollows
<1>8. ASSUME NEW c \in Slot, TestPassed(t, c)
      PROVE  Works(t)
  <2>1. /\ pc[t] = "llm" /\ calls[t][c].node \in Node /\ calls[t][c].sent \in Config
        /\ calls' \in [Turn -> [Slot -> Call \cup {None}]]
    BY <1>6, <1>8 DEF TestPassed
  <2>2. SetTurn(t, dirty) /\ UNCHANGED <<canvas, screen, doc, pc, req, work, born, clock, ran>>
    BY <1>8 DEF TestPassed
  <2> HIDE DEF dirty
  <2>3. turn' \in [Turn -> Locals] /\ Follows(t, turn'[t]) /\ Counts(t) /\ \A u \in Turn : u # t => turn'[u] = turn[u]
    BY <1>7, <2>2, LocalsFollow
  <2>4. Record(t, calls[t][c].node, "success", calls[t][c].sent)
        /\ earned' = earned \cup {<<calls[t][c].node, calls[t][c].sent, "success">>}
    BY <1>8 DEF TestPassed, TestedHash, Earn
  <2>5. Records(t) /\ copy' \in [Turn -> Session \cup {NoDoc}] /\ \A u \in Turn : u # t => copy'[u] = copy[u]
    BY <2>1, <2>4, RecordShape
  <2> QED
    BY <1>0, <2>1, <2>2, <2>3, <2>5
<1>9. ASSUME NEW c \in Slot, TestFailed(t, c)
      PROVE  Works(t)
  <2> DEFINE n == calls[t][c].node
             h == calls[t][c].sent
             q == [kind |-> "test", node |-> n, hash |-> h, skipOnly |-> FALSE, no |-> req[t].no]
  <2>1. /\ pc[t] = "llm" /\ n \in Node /\ h \in Config
        /\ calls' \in [Turn -> [Slot -> Call \cup {None}]]
    BY <1>6, <1>9 DEF TestFailed
  <2>2. /\ SetTurn(t, Hold(dirty, q)) \/ SetTurn(t, dirty)
        /\ UNCHANGED <<canvas, screen, doc, pc, req, work, born, clock, earned, ran>>
        /\ Record(t, n, "failed", h)
    BY <1>9 DEF TestFailed, TestedHash
  <2> HIDE DEF dirty, n, h
  <2>3. MayAsk(t, q)
    BY <2>1, TestMayAsk
  <2> HIDE DEF q
  <2>4. Follows(t, Hold(dirty, q)) /\ Hold(dirty, q).runs = turn[t].runs /\ Hold(dirty, q).used = turn[t].used
    BY <1>7, <2>3, HoldFollows
  <2>5. turn' \in [Turn -> Locals] /\ Follows(t, turn'[t]) /\ Counts(t) /\ \A u \in Turn : u # t => turn'[u] = turn[u]
    BY <1>7, <2>2, <2>4, LocalsFollow
  <2>6. Records(t) /\ copy' \in [Turn -> Session \cup {NoDoc}] /\ \A u \in Turn : u # t => copy'[u] = copy[u]
    BY <2>1, <2>2, RecordShape
  <2> QED
    BY <1>0, <2>1, <2>2, <2>5, <2>6
<1>10. ASSUME NEW c \in Slot, NEW missing \in SUBSET Node, TestCascades(t, c, missing)
       PROVE  Works(t)
  <2>1. /\ pc[t] = "llm" /\ calls[t][c].node \in Node /\ calls[t][c].sent \in Config
        /\ calls' \in [Turn -> [Slot -> Call \cup {None}]]
    BY <1>6, <1>10 DEF TestCascades
  <2>2. SetTurn(t, dirty) /\ UNCHANGED <<canvas, screen, doc, pc, req, work, born, clock, ran>>
    BY <1>10 DEF TestCascades
  <2> HIDE DEF dirty
  <2>3. turn' \in [Turn -> Locals] /\ Follows(t, turn'[t]) /\ Counts(t) /\ \A u \in Turn : u # t => turn'[u] = turn[u]
    BY <1>7, <2>2, LocalsFollow
  <2>4. Record(t, calls[t][c].node, "skipped", calls[t][c].sent)
        /\ earned' = earned \cup {<<calls[t][c].node, calls[t][c].sent, "skipped">>}
    BY <1>10 DEF TestCascades, TestedHash, Earn
  <2>5. Records(t) /\ copy' \in [Turn -> Session \cup {NoDoc}] /\ \A u \in Turn : u # t => copy'[u] = copy[u]
    BY <2>1, <2>4, RecordShape
  <2> QED
    BY <1>0, <2>1, <2>2, <2>3, <2>5
<1>11. ASSUME NEW c \in Slot, TestErrs(t, c)
       PROVE  Works(t)
  <2>1. pc[t] = "llm" /\ calls' \in [Turn -> [Slot -> Call \cup {None}]]
        /\ UNCHANGED <<canvas, screen, doc, pc, req, work, copy, turn, born, clock, earned, ran>>
    BY <1>6, <1>11 DEF TestErrs
  <2>2. turn' \in [Turn -> Locals] /\ Follows(t, turn'[t]) /\ Counts(t)
    BY <2>1, LocalsStay
  <2>3. Records(t)
    BY <2>1, NothingRecorded
  <2> QED
    BY <1>0, <2>1, <2>2, <2>3
<1>12. ASSUME Finish(t)
       PROVE  Works(t)
  <2> DEFINE q == [kind |-> "finish", hash |-> work[t], no |-> req[t].no]
  <2>1. pc[t] = "llm" /\ Follows(t, Stepped(t)) /\ Stepped(t).runs = turn[t].runs /\ Stepped(t).used = turn[t].used
    BY <1>12, SteppedFollows DEF Finish
  <2>2. SetTurn(t, Hold(Stepped(t), q)) /\ Finishable(t)
        /\ UNCHANGED <<canvas, screen, doc, pc, req, work, copy, calls, born, clock, earned, ran>>
    BY <1>12 DEF Finish
  <2>3. MayAsk(t, q)
    <3>1. req[t].no \in Number
      BY <2>1, NumberShape
    <3>2. q \in FinishQuestion /\ q.no = req[t].no /\ q.hash = work[t]
      BY <1>0, <3>1 DEF FinishQuestion
    <3> QED
      BY <2>2, <3>2 DEF MayAsk, Question
  <2> HIDE DEF q
  <2>4. Follows(t, Hold(Stepped(t), q)) /\ Hold(Stepped(t), q).runs = turn[t].runs
        /\ Hold(Stepped(t), q).used = turn[t].used
    BY <2>1, <2>3, HoldFollows
  <2>5. turn' \in [Turn -> Locals] /\ Follows(t, turn'[t]) /\ Counts(t) /\ \A u \in Turn : u # t => turn'[u] = turn[u]
    BY <2>2, <2>4, LocalsFollow
  <2>6. Records(t)
    BY <2>1, <2>2, NothingRecorded
  <2> QED
    BY <1>0, <2>1, <2>2, <2>5, <2>6
<1> QED
  BY <1>1, <1>2, <1>3, <1>4, <1>5, <1>8, <1>9, <1>10, <1>11, <1>12 DEF Trying

------------------------------------------------------------------------------
(* Types and places *)

\* The verdict of turn t on its message, given the stored state st.
Opens(t, st) ==
    /\ pc[t] \in {"load", "recreate"} /\ turn[t] = NewTurn
    /\ st \in Session /\ doc' = st
    /\ st = IF doc # NoDoc THEN doc ELSE IF pc[t] = "load" THEN Fresh ELSE copy[t]
    /\ Judge(t, st)
    /\ UNCHANGED <<canvas, screen, req, calls, born, clock, ran>>

\* Loading and recreating the session both end in the verdict.
LEMMA OpeningJudges ==
  ASSUME TypeOK, ShapeInv, NEW t \in Turn, LoadSession(t) \/ RecreateSession(t)
  PROVE  \E st : Opens(t, st)
<1>1. doc \in Session \cup {NoDoc} /\ (pc[t] = "recreate" => copy[t] \in Session)
      /\ (pc[t] \in {"load", "recreate"} => turn[t] = NewTurn)
  BY DEF TypeOK, ShapeInv
<1>2. CASE LoadSession(t)
  BY <1>1, <1>2, FreshShape DEF LoadSession, Opens
<1>3. CASE RecreateSession(t)
  BY <1>1, <1>3 DEF RecreateSession, Opens
<1> QED
  BY <1>2, <1>3

\* Forgetting a turn's locals.
LEMMA EndedShape ==
  ASSUME TypeOK, NEW t \in Turn, Ended(t)
  PROVE  /\ pc' \in [Turn -> Places] /\ req' \in [Turn -> Message] /\ work' \in [Turn -> Workflow]
         /\ copy' \in [Turn -> Session \cup {NoDoc}] /\ turn' \in [Turn -> Locals]
         /\ calls' \in [Turn -> [Slot -> Call \cup {None}]]
         /\ pc'[t] = "idle" /\ req'[t] = Idle /\ work'[t] = NoWork /\ copy'[t] = NoDoc /\ turn'[t] = NewTurn
         /\ \A u \in Turn : u # t => /\ pc'[u] = pc[u] /\ req'[u] = req[u] /\ work'[u] = work[u]
                                     /\ copy'[u] = copy[u] /\ turn'[u] = turn[u]
<1> USE RestShape DEF TypeOK, Ended
<1>1. pc' \in [Turn -> Places] /\ pc'[t] = "idle" /\ \A u \in Turn : u # t => pc'[u] = pc[u]
  BY DEF Places
<1>2. req' \in [Turn -> Message] /\ req'[t] = Idle /\ \A u \in Turn : u # t => req'[u] = req[u]
  OBVIOUS
<1>3. work' \in [Turn -> Workflow] /\ work'[t] = NoWork /\ \A u \in Turn : u # t => work'[u] = work[u]
  OBVIOUS
<1>4. copy' \in [Turn -> Session \cup {NoDoc}] /\ copy'[t] = NoDoc /\ \A u \in Turn : u # t => copy'[u] = copy[u]
  OBVIOUS
<1>5. turn' \in [Turn -> Locals] /\ turn'[t] = NewTurn /\ \A u \in Turn : u # t => turn'[u] = turn[u]
  OBVIOUS
<1>6. calls' \in [Turn -> [Slot -> Call \cup {None}]]
  OBVIOUS
<1> QED
  BY <1>1, <1>2, <1>3, <1>4, <1>5, <1>6

\* The LLM is left: what remains is the question, if any.
LEMMA LeaveShape ==
  ASSUME TypeOK, NEW t \in Turn, NEW q \in {turn[t].pending, None}, Leave(t, q)
  PROVE  /\ pc' \in [Turn -> Places] /\ req' \in [Turn -> Message]
         /\ copy' \in [Turn -> Session \cup {NoDoc}] /\ turn' \in [Turn -> Locals]
         /\ calls' \in [Turn -> [Slot -> Call \cup {None}]]
         /\ pc'[t] = "end" /\ copy'[t] = NoDoc
         /\ req'[t] = [Idle EXCEPT !.before = req[t].before, !.no = req[t].no]
         /\ req'[t].q = None /\ req'[t].no = req[t].no /\ req'[t].tests = 0
         /\ turn'[t] = [NewTurn EXCEPT !.pending = q]
         /\ turn'[t].pending = q /\ turn'[t].runs = 0 /\ ~turn'[t].done /\ turn'[t].confirmed = None
         /\ \A u \in Turn : u # t => /\ pc'[u] = pc[u] /\ req'[u] = req[u]
                                     /\ copy'[u] = copy[u] /\ turn'[u] = turn[u]
         /\ UNCHANGED <<canvas, screen, doc, work, born, clock, earned, ran>>
<1> DEFINE m == [Idle EXCEPT !.before = req[t].before, !.no = req[t].no]
           r == [NewTurn EXCEPT !.pending = q]
<1>1. req[t] \in Message /\ turn[t] \in Locals
  BY DEF TypeOK
<1>2. m \in Message /\ m.q = None /\ m.no = req[t].no /\ m.tests = 0
  <2>1. req[t].before \in Workflow \cup {None} /\ req[t].no \in 0..MaxTurns
    BY <1>1 DEF Message
  <2> QED
    BY <2>1, RestShape DEF Message, Idle
<1>3. r \in Locals /\ r.pending = q /\ r.runs = 0 /\ ~r.done /\ r.confirmed = None
  <2>1. q \in Question \cup {None}
    BY <1>1 DEF Locals
  <2> QED
    BY <2>1, RestShape DEF Locals, NewTurn
<1>4. pc' = [pc EXCEPT ![t] = "end"] /\ req' = [req EXCEPT ![t] = m]
      /\ copy' = [copy EXCEPT ![t] = NoDoc] /\ turn' = [turn EXCEPT ![t] = r]
      /\ calls' = [calls EXCEPT ![t] = NoCalls] /\ UNCHANGED <<canvas, screen, doc, work, born, clock, earned, ran>>
  BY DEF Leave, SetTurn
<1> HIDE DEF m, r
<1>5. pc' \in [Turn -> Places] /\ pc'[t] = "end" /\ \A u \in Turn : u # t => pc'[u] = pc[u]
  BY <1>4 DEF TypeOK, Places
<1>6. req' \in [Turn -> Message] /\ req'[t] = m /\ \A u \in Turn : u # t => req'[u] = req[u]
  BY <1>2, <1>4 DEF TypeOK
<1>7. turn' \in [Turn -> Locals] /\ turn'[t] = r /\ \A u \in Turn : u # t => turn'[u] = turn[u]
  BY <1>3, <1>4 DEF TypeOK
<1>8. copy' \in [Turn -> Session \cup {NoDoc}] /\ copy'[t] = NoDoc /\ \A u \in Turn : u # t => copy'[u] = copy[u]
  BY <1>4 DEF TypeOK
<1>9. calls' \in [Turn -> [Slot -> Call \cup {None}]]
  BY <1>4, RestShape DEF TypeOK
<1> QED
  BY <1>2, <1>3, <1>4, <1>5, <1>6, <1>7, <1>8, <1>9 DEF m, r

\* A message that is sent.
LEMMA SendShape ==
  ASSUME TypeOK, NEW t \in Turn, NEW reply \in Replies, Send(t, reply)
  PROVE  /\ pc[t] = "idle" /\ clock.msgs \in 0..MaxTurns /\ clock.msgs + 1 \in Number
         /\ clock' = [clock EXCEPT !.msgs = clock.msgs + 1]
         /\ clock'.msgs = clock.msgs + 1 /\ clock' \in [msgs : 0..MaxTurns, edits : 0..MaxEdits]
         /\ pc' \in [Turn -> Places] /\ req' \in [Turn -> Message] /\ work' \in [Turn -> Workflow]
         /\ pc'[t] = "load" /\ work'[t] = canvas
         /\ req'[t].reply = reply /\ req'[t].q = screen.q /\ req'[t].shown = screen.shown
         /\ req'[t].before = canvas /\ req'[t].tests = 0 /\ req'[t].no = clock.msgs + 1
         /\ \A u \in Turn : u # t => pc'[u] = pc[u] /\ req'[u] = req[u] /\ work'[u] = work[u]
         /\ UNCHANGED <<canvas, screen, doc, copy, turn, calls, born, earned, ran>>
<1> DEFINE m == [reply |-> reply, q |-> screen.q, shown |-> screen.shown, before |-> canvas,
                 tests |-> 0, no |-> clock.msgs + 1]
<1>1. clock.msgs \in 0..MaxTurns /\ clock.msgs < MaxTurns /\ clock' = [clock EXCEPT !.msgs = clock.msgs + 1]
  BY DEF TypeOK, Send
<1>2. clock.msgs + 1 \in Number /\ clock.msgs + 1 \in 0..MaxTurns
  BY <1>1, TurnAssumption DEF Number
<1>3. clock'.msgs = clock.msgs + 1 /\ clock' \in [msgs : 0..MaxTurns, edits : 0..MaxEdits]
  BY <1>1, <1>2 DEF TypeOK
<1>4. pc[t] = "idle" /\ pc' = [pc EXCEPT ![t] = "load"] /\ req' = [req EXCEPT ![t] = m]
      /\ work' = [work EXCEPT ![t] = canvas]
      /\ UNCHANGED <<canvas, screen, doc, copy, turn, calls, born, earned, ran>>
  BY <1>3 DEF Send
<1>5. m \in Message
  BY <1>2 DEF TypeOK, Message
<1>6. req'[t] = m /\ req' \in [Turn -> Message] /\ \A u \in Turn : u # t => req'[u] = req[u]
  BY <1>4, <1>5 DEF TypeOK
<1>7. pc' \in [Turn -> Places] /\ pc'[t] = "load" /\ \A u \in Turn : u # t => pc'[u] = pc[u]
  BY <1>4 DEF TypeOK, Places
<1>8. work' \in [Turn -> Workflow] /\ work'[t] = canvas /\ \A u \in Turn : u # t => work'[u] = work[u]
  BY <1>4 DEF TypeOK
<1> QED
  BY <1>1, <1>2, <1>3, <1>4, <1>6, <1>7, <1>8

\* The turn goes on to another place.
LEMMA PlaceShape ==
  ASSUME TypeOK, NEW t \in Turn, NEW p \in Places, pc' = [pc EXCEPT ![t] = p]
  PROVE  pc' \in [Turn -> Places] /\ pc'[t] = p /\ \A u \in Turn : u # t => pc'[u] = pc[u]
BY DEF TypeOK

\* The question of the turn, as the response shows its card.
LEMMA ShownShape ==
  ASSUME TypeOK, NEW t \in Turn, NEW q \in Question \cup {None}
  PROVE  /\ AsShown(t, q) \in Question \cup {None}
         /\ AsShown(t, q) # None => q # None /\ AsShown(t, q).no = q.no /\ AsShown(t, q).kind = q.kind
         /\ AsShown(t, q) # None /\ q.kind # "card" => AsShown(t, q) = q
         /\ AsShown(t, q) # None /\ q.kind = "card" => work[t].cfg[AsShown(t, q).node] = AsShown(t, q).hash
<1>1. CASE q = None \/ q.kind # "card"
  BY <1>1 DEF AsShown
<1>2. CASE q # None /\ q.kind = "card" /\ work[t].cfg[q.node] = Gone
  BY <1>2 DEF AsShown
<1>3. CASE q # None /\ q.kind = "card" /\ work[t].cfg[q.node] # Gone
  <2> DEFINE r == [q EXCEPT !.hash = work[t].cfg[q.node]]
  <2>1. q \in CardQuestion /\ q.node \in Node /\ work[t] \in Workflow
    BY <1>3, QuestionShape DEF TypeOK
  <2>2. r \in CardQuestion /\ r.no = q.no /\ r.kind = q.kind /\ r.node = q.node /\ r.hash = work[t].cfg[q.node]
    BY <2>1 DEF CardQuestion, Workflow
  <2>3. AsShown(t, q) = r
    BY <1>3 DEF AsShown
  <2> QED
    BY <1>3, <2>2, <2>3 DEF Question
<1> QED
  BY <1>1, <1>2, <1>3

\* The session is read again and the card is brought up to date.
LEMMA EndShape ==
  ASSUME TypeOK, ShapeInv, NEW t \in Turn, EndTurn(t)
  PROVE  /\ pc[t] = "end" /\ pc' \in [Turn -> Places] /\ pc'[t] = "save"
         /\ copy' \in [Turn -> Session \cup {NoDoc}] /\ copy'[t] = doc
         /\ turn' \in [Turn -> Locals]
         /\ turn'[t].pending = AsShown(t, turn[t].pending)
         /\ turn'[t].runs = turn[t].runs /\ turn'[t].confirmed = turn[t].confirmed
         /\ turn'[t].done = turn[t].done /\ turn'[t].used = turn[t].used
         /\ \A u \in Turn : u # t => pc'[u] = pc[u] /\ copy'[u] = copy[u] /\ turn'[u] = turn[u]
         /\ UNCHANGED <<canvas, screen, doc, req, work, calls, born, clock, earned, ran>>
<1> DEFINE q == AsShown(t, turn[t].pending)
           r == [turn[t] EXCEPT !.pending = q]
<1>1. turn[t] \in Locals /\ turn[t].pending \in Question \cup {None}
  BY DEF TypeOK, Locals
<1>2. q \in Question \cup {None}
  BY <1>1, ShownShape
<1>3. pc[t] = "end" /\ pc' = [pc EXCEPT ![t] = "save"] /\ copy' = [copy EXCEPT ![t] = doc]
      /\ turn' = [turn EXCEPT ![t] = r]
      /\ UNCHANGED <<canvas, screen, doc, req, work, calls, born, clock, earned, ran>>
  BY <1>1 DEF EndTurn, SetTurn
<1> HIDE DEF q
<1>4. r \in Locals /\ r.pending = q /\ r.runs = turn[t].runs /\ r.confirmed = turn[t].confirmed
      /\ r.done = turn[t].done /\ r.used = turn[t].used
  BY <1>1, <1>2 DEF Locals
<1> HIDE DEF r
<1>5. turn' \in [Turn -> Locals] /\ turn'[t] = r /\ \A u \in Turn : u # t => turn'[u] = turn[u]
  BY <1>3, <1>4 DEF TypeOK
<1>6. copy' \in [Turn -> Session \cup {NoDoc}] /\ copy'[t] = doc /\ \A u \in Turn : u # t => copy'[u] = copy[u]
  BY <1>3 DEF TypeOK
<1>7. pc' \in [Turn -> Places] /\ pc'[t] = "save" /\ \A u \in Turn : u # t => pc'[u] = pc[u]
  BY <1>3, PlaceShape DEF Places
<1> QED
  BY <1>3, <1>4, <1>5, <1>6, <1>7 DEF q

\* The question is stored.
LEMMA SaveShape ==
  ASSUME TypeOK, NEW t \in Turn, SaveTurn(t)
  PROVE  /\ pc[t] = "save" /\ pc' \in [Turn -> Places] /\ pc'[t] = "reply"
         /\ \A u \in Turn : u # t => pc'[u] = pc[u]
         /\ doc' \in Session \cup {NoDoc}
         /\ \/ copy[t] = NoDoc /\ doc' = doc
            \/ doc' = NoDoc
            \/ /\ copy[t] \in Session /\ doc # NoDoc
               /\ doc' = [copy[t] EXCEPT !.pending = turn[t].pending]
               /\ doc'.pending = turn[t].pending /\ doc'.tests = copy[t].tests /\ doc'.baseline = copy[t].baseline
         /\ UNCHANGED <<canvas, screen, req, work, copy, turn, calls, born, clock, earned, ran>>
<1> DEFINE st == [copy[t] EXCEPT !.pending = turn[t].pending]
<1>1. pc[t] = "save" /\ pc' = [pc EXCEPT ![t] = "reply"]
      /\ UNCHANGED <<canvas, screen, req, work, copy, turn, calls, born, clock, earned, ran>>
  BY DEF SaveTurn
<1>5. IF copy[t] = NoDoc THEN doc' = doc ELSE Store(st)
  BY DEF SaveTurn
<1>2. pc' \in [Turn -> Places] /\ pc'[t] = "reply" /\ \A u \in Turn : u # t => pc'[u] = pc[u]
  BY <1>1, PlaceShape DEF Places
<1>3. CASE copy[t] = NoDoc
  <2>1. doc' = doc
    BY <1>3, <1>5
  <2>2. doc' \in Session \cup {NoDoc}
    BY <2>1 DEF TypeOK
  <2> HIDE DEF st
  <2> QED
    BY <1>1, <1>2, <1>3, <2>1, <2>2
<1>4. CASE copy[t] # NoDoc
  <2>1. copy[t] \in Session /\ turn[t].pending \in Question \cup {None} /\ doc \in Session \cup {NoDoc}
    BY <1>4 DEF TypeOK, Locals
  <2>2. st \in Session /\ st.pending = turn[t].pending /\ st.tests = copy[t].tests /\ st.baseline = copy[t].baseline
    BY <2>1, SessionShape DEF Session
  <2>3. doc' \in Session \cup {NoDoc} /\ (doc' # NoDoc => doc # NoDoc /\ doc' = st)
    BY <1>4, <1>5, <2>1, <2>2, StoreShape
  <2>4. doc' # NoDoc =>
          /\ copy[t] \in Session /\ doc # NoDoc /\ doc' = st
          /\ doc'.pending = turn[t].pending /\ doc'.tests = copy[t].tests /\ doc'.baseline = copy[t].baseline
    BY <2>1, <2>2, <2>3
  <2> QED
    BY <1>1, <1>2, <2>3, <2>4
<1> QED
  BY <1>3, <1>4

\* The answer "done" is stored.
LEMMA CloseShape ==
  ASSUME TypeOK, ShapeInv, NEW t \in Turn, CloseDone(t)
  PROVE  /\ pc[t] = "close" /\ pc' \in [Turn -> Places] /\ pc'[t] = "reply"
         /\ \A u \in Turn : u # t => pc'[u] = pc[u]
         /\ copy[t] \in Session /\ copy[t].pending = None
         /\ doc' \in Session \cup {NoDoc}
         /\ doc' # NoDoc => /\ doc' = [copy[t] EXCEPT !.baseline = BaselineOf(work[t])]
                            /\ doc'.pending = None /\ doc'.tests = copy[t].tests
                            /\ doc'.baseline = BaselineOf(work[t])
         /\ UNCHANGED <<canvas, screen, req, work, copy, turn, calls, born, clock, earned, ran>>
<1> DEFINE st == [copy[t] EXCEPT !.baseline = BaselineOf(work[t])]
<1>1. pc[t] = "close" /\ pc' = [pc EXCEPT ![t] = "reply"] /\ Store(st)
      /\ UNCHANGED <<canvas, screen, req, work, copy, turn, calls, born, clock, earned, ran>>
  BY DEF CloseDone
<1>2. pc' \in [Turn -> Places] /\ pc'[t] = "reply" /\ \A u \in Turn : u # t => pc'[u] = pc[u]
  BY <1>1, PlaceShape DEF Places
<1>3. copy[t] \in Session /\ copy[t].pending = None /\ work[t] \in Workflow /\ doc \in Session \cup {NoDoc}
  BY <1>1 DEF TypeOK, ShapeInv
<1>4. st \in Session /\ st.pending = None /\ st.tests = copy[t].tests /\ st.baseline = BaselineOf(work[t])
  BY <1>3, SessionShape DEF Session
<1>5. doc' \in Session \cup {NoDoc} /\ (doc' # NoDoc => doc' = st)
  BY <1>1, <1>3, <1>4, StoreShape
<1> QED
  BY <1>1, <1>2, <1>3, <1>4, <1>5

\* The turn's state is stored before the LLM and after each of its responses.
LEMMA StoreCopyShape ==
  ASSUME TypeOK, ShapeInv, NEW t \in Turn, BeginTurn(t) \/ AppendEvents(t)
  PROVE  /\ pc[t] \in {"begin", "llm"} /\ pc' \in [Turn -> Places] /\ pc'[t] = "llm"
         /\ \A u \in Turn : u # t => pc'[u] = pc[u] /\ turn'[u] = turn[u]
         /\ copy[t] \in Session /\ copy[t].pending = None
         /\ doc' \in Session \cup {NoDoc} /\ (doc' # NoDoc => doc' = copy[t])
         /\ turn' \in [Turn -> Locals]
         /\ turn'[t].pending = turn[t].pending /\ turn'[t].runs = turn[t].runs
         /\ turn'[t].confirmed = turn[t].confirmed /\ turn'[t].used = turn[t].used
         /\ turn'[t].done = turn[t].done
         /\ UNCHANGED <<canvas, screen, req, work, copy, calls, born, clock, earned, ran>>
<1>1. turn[t] \in Locals /\ turn \in [Turn -> Locals] /\ doc \in Session \cup {NoDoc} /\ pc \in [Turn -> Places]
  BY DEF TypeOK
<1>2. CASE BeginTurn(t)
  <2>1. pc[t] = "begin" /\ pc' = [pc EXCEPT ![t] = "llm"] /\ Store(copy[t])
        /\ UNCHANGED <<canvas, screen, req, work, copy, turn, calls, born, clock, earned, ran>>
    BY <1>2 DEF BeginTurn
  <2>2. pc' \in [Turn -> Places] /\ pc'[t] = "llm" /\ \A u \in Turn : u # t => pc'[u] = pc[u]
    BY <2>1, PlaceShape DEF Places
  <2>3. copy[t] \in Session /\ copy[t].pending = None
    BY <2>1 DEF ShapeInv
  <2> QED
    BY <1>1, <2>1, <2>2, <2>3, StoreShape
<1>3. CASE AppendEvents(t)
  <2> DEFINE r == [turn[t] EXCEPT !.dirty = FALSE]
  <2>1. pc[t] = "llm" /\ Store(copy[t]) /\ turn' = [turn EXCEPT ![t] = r]
        /\ UNCHANGED <<canvas, screen, pc, req, work, copy, calls, born, clock, earned, ran>>
    BY <1>3 DEF AppendEvents, SetTurn
  <2>2. copy[t] \in Session /\ copy[t].pending = None
    BY <2>1 DEF ShapeInv
  <2>3. r \in Locals /\ r.pending = turn[t].pending /\ r.runs = turn[t].runs
        /\ r.confirmed = turn[t].confirmed /\ r.used = turn[t].used /\ r.done = turn[t].done
    BY <1>1 DEF Locals
  <2> HIDE DEF r
  <2>4. turn' \in [Turn -> Locals] /\ turn'[t] = r /\ \A u \in Turn : u # t => turn'[u] = turn[u]
    BY <1>1, <2>1, <2>3
  <2> QED
    BY <1>1, <2>1, <2>2, <2>3, <2>4, StoreShape
<1> QED
  BY <1>2, <1>3

\* The actions of the next-state relation, with those of the tools in one.
LEMMA StepCases ==
  ASSUME TypeOK, ShapeInv, [Next]_vars
  PROVE  \/ \E t \in Turn :
              \/ \E reply \in Replies : Send(t, reply)
              \/ \E st : Opens(t, st)
              \/ RotateSession(t) \/ CloseDone(t) \/ BeginTurn(t) \/ AppendEvents(t)
              \/ Works(t)
              \/ pc[t] \in {"begin", "llm"} /\ \E q \in {turn[t].pending, None} : Leave(t, q)
              \/ EndTurn(t) \/ SaveTurn(t) \/ Deliver(t) \/ Drop(t) \/ Abort(t)
         \/ Edits
         \/ ExpireSession \/ UNCHANGED vars
<1>1. ASSUME NEW t \in Turn, Opening(t)
      PROVE  (\E st : Opens(t, st)) \/ RotateSession(t) \/ CloseDone(t) \/ BeginTurn(t)
  BY <1>1, OpeningJudges DEF Opening
<1>2. ASSUME NEW t \in Turn, Editing(t) \/ Trying(t) PROVE Works(t)
  BY <1>2, EditingWorks, TryingWorks
<1>3. ASSUME NEW t \in Turn, Closing(t)
      PROVE  \/ AppendEvents(t) \/ EndTurn(t) \/ SaveTurn(t)
             \/ pc[t] \in {"begin", "llm"} /\ \E q \in {turn[t].pending, None} : Leave(t, q)
  BY <1>3 DEF Closing, StopTurn, CutTurn, FailTurn
<1> QED
  BY <1>1, <1>2, <1>3 DEF Next

\* Places and values go together in every step.
LEMMA ShapeStep == TypeOK /\ ShapeInv /\ [Next]_vars => TypeOK' /\ ShapeInv'
<1> SUFFICES ASSUME TypeOK, ShapeInv, [Next]_vars PROVE TypeOK' /\ ShapeInv'
  OBVIOUS
<1>0. /\ canvas \in Workflow /\ screen \in [q : Question \cup {None}, shown : Config \cup {Gone}]
      /\ doc \in Session \cup {NoDoc} /\ pc \in [Turn -> Places] /\ req \in [Turn -> Message]
      /\ work \in [Turn -> Workflow] /\ copy \in [Turn -> Session \cup {NoDoc}]
      /\ turn \in [Turn -> Locals] /\ calls \in [Turn -> [Slot -> Call \cup {None}]]
      /\ born \subseteq Node /\ clock \in [msgs : 0..MaxTurns, edits : 0..MaxEdits]
      /\ ran \in [Number -> Nat]
  BY DEF TypeOK
<1>n. NewTurn.pending = None /\ ~NewTurn.done
  BY DEF NewTurn
<1>1. ASSUME NEW t \in Turn, NEW reply \in Replies, Send(t, reply) PROVE TypeOK' /\ ShapeInv'
  <2>1. TypeOK'
    BY <1>0, <1>1, SendShape DEF TypeOK
  <2>2. ShapeInv'
    BY <1>1, SendShape DEF ShapeInv
  <2> QED
    BY <2>1, <2>2
<1>2. ASSUME NEW t \in Turn, NEW st, Opens(t, st) PROVE TypeOK' /\ ShapeInv'
  <2>1. /\ st \in Session /\ doc' = st /\ Judge(t, st) /\ turn[t] = NewTurn /\ pc[t] \in {"load", "recreate"}
        /\ UNCHANGED <<canvas, screen, req, calls, born, clock, ran>>
    BY <1>2 DEF Opens
  <2>2. TypeOK'
    BY <1>0, <2>1, JudgeShape DEF TypeOK
  <2>3. /\ pc'[t] \in {"close", "begin"} /\ copy'[t] \in Session /\ copy'[t].pending = None
        /\ turn'[t].pending = None /\ (turn'[t].done <=> pc'[t] = "close")
    <3>1. /\ copy'[t] \in Session /\ copy'[t].pending = None
          /\ turn'[t] = [turn[t] EXCEPT
                          !.confirmed = IF ConfirmedBy(st.pending, req[t].reply) THEN st.pending ELSE None,
                          !.done = FinishedBy(st.pending, req[t].reply, work[t])]
          /\ pc'[t] = IF FinishedBy(st.pending, req[t].reply, work[t]) THEN "close" ELSE "begin"
      BY <2>1, JudgeShape
    <3>2. turn'[t].pending = None /\ turn'[t].done = FinishedBy(st.pending, req[t].reply, work[t])
      BY <2>1, <3>1 DEF NewTurn
    <3> QED
      BY <3>1, <3>2
  <2>4. \A u \in Turn : u # t => copy'[u] = copy[u] /\ turn'[u] = turn[u] /\ pc'[u] = pc[u]
    BY <2>1, JudgeShape
  <2>5. ShapeInv'
    BY <2>1, <2>3, <2>4 DEF ShapeInv
  <2> QED
    BY <2>2, <2>5
<1>3. ASSUME NEW t \in Turn, RotateSession(t) PROVE TypeOK' /\ ShapeInv'
  <2>1. /\ pc[t] = "load" /\ doc \in Session /\ doc' = NoDoc /\ copy' = [copy EXCEPT ![t] = doc]
        /\ pc' = [pc EXCEPT ![t] = "recreate"]
        /\ UNCHANGED <<canvas, screen, req, work, turn, calls, born, clock, earned, ran>>
    BY <1>0, <1>3 DEF RotateSession
  <2>2. pc' \in [Turn -> Places] /\ pc'[t] = "recreate" /\ \A u \in Turn : u # t => pc'[u] = pc[u]
    BY <2>1, PlaceShape DEF Places
  <2>3. /\ copy' \in [Turn -> Session \cup {NoDoc}] /\ copy'[t] = doc
        /\ \A u \in Turn : u # t => copy'[u] = copy[u]
    BY <1>0, <2>1
  <2>4. TypeOK'
    BY <1>0, <2>1, <2>2, <2>3 DEF TypeOK
  <2>5. ShapeInv'
    BY <2>1, <2>2, <2>3 DEF ShapeInv
  <2> QED
    BY <2>4, <2>5
<1>4. ASSUME NEW t \in Turn, CloseDone(t) PROVE TypeOK' /\ ShapeInv'
  <2>1. TypeOK'
    BY <1>0, <1>4, CloseShape DEF TypeOK
  <2>2. ShapeInv'
    BY <1>4, CloseShape DEF ShapeInv
  <2> QED
    BY <2>1, <2>2
<1>5. ASSUME NEW t \in Turn, BeginTurn(t) \/ AppendEvents(t) PROVE TypeOK' /\ ShapeInv'
  <2>1. TypeOK'
    BY <1>0, <1>5, StoreCopyShape DEF TypeOK
  <2>2. /\ pc[t] \in {"begin", "llm"} /\ pc'[t] = "llm" /\ copy[t] \in Session /\ copy[t].pending = None
        /\ turn'[t].pending = turn[t].pending /\ turn'[t].done = turn[t].done
        /\ \A u \in Turn : u # t => pc'[u] = pc[u] /\ turn'[u] = turn[u]
        /\ req' = req /\ copy' = copy
    BY <1>5, StoreCopyShape
  <2>3. ShapeInv'
    BY <2>2 DEF ShapeInv
  <2> QED
    BY <2>1, <2>3
<1>6. ASSUME NEW t \in Turn, Works(t) PROVE TypeOK' /\ ShapeInv'
  <2>1. TypeOK'
    BY <1>0, <1>6 DEF TypeOK, Works
  <2>2. /\ pc[t] = "llm" /\ pc' = pc /\ req'[t].no = req[t].no /\ copy'[t] \in Session
        /\ copy'[t].pending = copy[t].pending /\ turn'[t].done = turn[t].done
        /\ \A u \in Turn : u # t => req'[u] = req[u] /\ copy'[u] = copy[u] /\ turn'[u] = turn[u]
    BY <1>6 DEF Works, Records, Follows
  <2>3. ShapeInv'
    BY <2>2 DEF ShapeInv
  <2> QED
    BY <2>1, <2>3
<1>7. ASSUME NEW t \in Turn, pc[t] \in {"begin", "llm"}, NEW q \in {turn[t].pending, None}, Leave(t, q)
      PROVE  TypeOK' /\ ShapeInv'
  <2>0. /\ pc' \in [Turn -> Places] /\ req' \in [Turn -> Message]
        /\ copy' \in [Turn -> Session \cup {NoDoc}] /\ turn' \in [Turn -> Locals]
        /\ calls' \in [Turn -> [Slot -> Call \cup {None}]]
        /\ UNCHANGED <<canvas, screen, doc, work, born, clock, earned, ran>>
    BY <1>7, LeaveShape
  <2>1. TypeOK'
    BY <1>0, <2>0 DEF TypeOK
  <2>2. /\ pc'[t] = "end" /\ req'[t].no = req[t].no /\ ~turn'[t].done
        /\ \A u \in Turn : u # t => pc'[u] = pc[u] /\ req'[u] = req[u] /\ copy'[u] = copy[u] /\ turn'[u] = turn[u]
    BY <1>7, LeaveShape
  <2>3. ShapeInv'
    BY <1>7, <2>2 DEF ShapeInv
  <2> QED
    BY <2>1, <2>3
<1>8. ASSUME NEW t \in Turn, EndTurn(t) PROVE TypeOK' /\ ShapeInv'
  <2>1. TypeOK'
    BY <1>0, <1>8, EndShape DEF TypeOK
  <2>2. ShapeInv'
    BY <1>8, EndShape DEF ShapeInv
  <2> QED
    BY <2>1, <2>2
<1>9. ASSUME NEW t \in Turn, SaveTurn(t) PROVE TypeOK' /\ ShapeInv'
  <2>1. /\ pc[t] = "save" /\ pc' \in [Turn -> Places] /\ pc'[t] = "reply" /\ doc' \in Session \cup {NoDoc}
        /\ \A u \in Turn : u # t => pc'[u] = pc[u]
        /\ UNCHANGED <<canvas, screen, req, work, copy, turn, calls, born, clock, earned, ran>>
    BY <1>9, SaveShape
  <2>2. TypeOK'
    BY <1>0, <2>1 DEF TypeOK
  <2>3. ShapeInv'
    BY <2>1 DEF ShapeInv
  <2> QED
    BY <2>2, <2>3
<1>10. ASSUME NEW t \in Turn, Deliver(t) \/ Drop(t) \/ Abort(t) PROVE TypeOK' /\ ShapeInv'
  <2>1. Ended(t) /\ UNCHANGED <<doc, born, clock, earned, ran>>
    BY <1>10 DEF Deliver, Drop, Abort
  <2>2. /\ canvas' \in Workflow
        /\ screen' \in [q : Question \cup {None}, shown : Config \cup {Gone}]
    <3>1. CASE Deliver(t)
      <4> DEFINE q == turn[t].pending
                 shown == IF q # None /\ q.kind # "finish" THEN work[t].cfg[q.node] ELSE Gone
      <4>1. screen' = [q |-> q, shown |-> shown] /\ canvas' \in {work[t], canvas}
        BY <3>1 DEF Deliver
      <4>2. q \in Question \cup {None} /\ work[t] \in Workflow
        BY <1>0 DEF Locals
      <4>3. shown \in Config \cup {Gone}
        BY <4>2, QuestionShape DEF Workflow
      <4> HIDE DEF q, shown
      <4> QED
        BY <1>0, <4>1, <4>2, <4>3
    <3>2. CASE Drop(t) \/ Abort(t)
      BY <1>0, <3>2 DEF Drop, Abort
    <3> QED
      BY <1>10, <3>1, <3>2
  <2>3. TypeOK'
    BY <1>0, <2>1, <2>2, EndedShape DEF TypeOK
  <2>4. ShapeInv'
    BY <1>n, <2>1, EndedShape DEF ShapeInv
  <2> QED
    BY <2>3, <2>4
<1>11. ASSUME Edits PROVE TypeOK' /\ ShapeInv'
  <2>1. UNCHANGED <<screen, doc, pc, req, work, copy, turn, calls, earned, ran>>
    BY <1>11 DEF Edits, EditCanvas, EditConnection
  <2>2. clock' \in [msgs : 0..MaxTurns, edits : 0..MaxEdits]
    <3>1. clock.edits < MaxEdits /\ clock' = [clock EXCEPT !.edits = @ + 1]
      BY <1>11 DEF Edits, EditCanvas, EditConnection
    <3> QED
      BY <1>0, <3>1, TurnAssumption
  <2>3. canvas' \in Workflow /\ born' \subseteq Node
    <3>1. ASSUME NEW n \in Node, NEW c \in Typed \cup {Gone}, EditCanvas(n, c)
          PROVE  canvas' \in Workflow /\ born' \subseteq Node
      <4>1. c \in Config \cup {Gone}
        BY TurnAssumption
      <4> DEFINE left == {e \in canvas.edges : c = Gone => n \notin {e[1], e[2]}}
      <4>2. left \in SUBSET (Node \X Node)
        BY <1>0 DEF Workflow
      <4>3. canvas' = [cfg |-> [canvas.cfg EXCEPT ![n] = c], edges |-> left] /\ born' = born \cup {n}
        BY <3>1 DEF EditCanvas
      <4> HIDE DEF left
      <4> QED
        BY <1>0, <4>1, <4>2, <4>3 DEF Workflow
    <3>2. ASSUME NEW m \in Node, NEW n \in Node, EditConnection(m, n)
          PROVE  canvas' \in Workflow /\ born' \subseteq Node
      <4> DEFINE now == IF <<m, n>> \in canvas.edges THEN canvas.edges \ {<<m, n>>}
                                                   ELSE canvas.edges \cup {<<m, n>>}
      <4>1. now \in SUBSET (Node \X Node)
        BY <1>0 DEF Workflow
      <4>2. canvas' = [canvas EXCEPT !.edges = now] /\ born' = born
        BY <3>2 DEF EditConnection
      <4> HIDE DEF now
      <4> QED
        BY <1>0, <4>1, <4>2 DEF Workflow
    <3> QED
      BY <1>11, <3>1, <3>2 DEF Edits
  <2>4. TypeOK'
    BY <1>0, <2>1, <2>2, <2>3 DEF TypeOK
  <2>5. ShapeInv'
    BY <2>1 DEF ShapeInv
  <2> QED
    BY <2>4, <2>5
<1>12. ASSUME ExpireSession PROVE TypeOK' /\ ShapeInv'
  <2>1. clock' \in [msgs : 0..MaxTurns, edits : 0..MaxEdits]
    BY <1>0, <1>12, TurnAssumption DEF ExpireSession
  <2>2. TypeOK'
    BY <1>0, <1>12, <2>1 DEF TypeOK, ExpireSession
  <2>3. ShapeInv'
    BY <1>12 DEF ShapeInv, ExpireSession
  <2> QED
    BY <2>2, <2>3
<1>13. ASSUME UNCHANGED vars PROVE TypeOK' /\ ShapeInv'
  BY <1>13 DEF vars, TypeOK, ShapeInv
<1> QED
  BY <1>1, <1>2, <1>3, <1>4, <1>5, <1>6, <1>7, <1>8, <1>9, <1>10, <1>11, <1>12, <1>13, StepCases

------------------------------------------------------------------------------
(* The test budget *)

SameTests(t) == req'[t].tests = req[t].tests /\ turn'[t].runs = turn[t].runs

ResetTests(t) == req'[t].tests = 0 /\ turn'[t].runs = 0

MoreTests(t) ==
    /\ UnderBudget(t)
    /\ req'[t].tests = req[t].tests + 1 /\ turn'[t].runs = turn[t].runs + 1

\* Every turn keeps its count, but for one that may add a test within the
\* budget or start from zero.
Budgets ==
    \/ \A u \in Turn : SameTests(u)
    \/ \E t \in Turn : /\ \A u \in Turn : u # t => SameTests(u)
                       /\ SameTests(t) \/ ResetTests(t) \/ MoreTests(t)

\* Tests are counted where they are sent, and only below the budget.
LEMMA BudgetStep == TypeOK /\ ShapeInv /\ BudgetInv /\ [Next]_vars => BudgetInv'
<1> SUFFICES ASSUME TypeOK, ShapeInv, BudgetInv, [Next]_vars PROVE BudgetInv'
  OBVIOUS
<1>0. /\ \A t \in Turn : turn[t].runs \in Nat
      /\ NewTurn.runs = 0 /\ Idle.tests = 0 /\ MaxTests \in Nat
  BY TurnAssumption DEF TypeOK, Locals, NewTurn, Idle
<1> SUFFICES Budgets
  BY <1>0 DEF BudgetInv, Budgets, SameTests, ResetTests, MoreTests, UnderBudget
<1> USE DEF SameTests, ResetTests, MoreTests
<1>2. ASSUME NEW t \in Turn, NEW reply \in Replies, Send(t, reply)
      PROVE  Budgets
  <2>1. pc[t] = "idle" /\ req'[t].tests = 0 /\ turn' = turn /\ \A u \in Turn : u # t => req'[u] = req[u]
    BY <1>2, SendShape
  <2> QED
    BY <1>0, <2>1 DEF ShapeInv, Budgets
<1>3. ASSUME NEW t \in Turn, NEW st, Opens(t, st)
      PROVE  Budgets
  <2>1. Judge(t, st) /\ st \in Session /\ turn[t] = NewTurn /\ req' = req
    BY <1>3 DEF Opens
  <2>2. /\ turn'[t] = [turn[t] EXCEPT
                          !.confirmed = IF ConfirmedBy(st.pending, req[t].reply) THEN st.pending ELSE None,
                          !.done = FinishedBy(st.pending, req[t].reply, work[t])]
        /\ \A u \in Turn : u # t => turn'[u] = turn[u]
    BY <2>1, JudgeShape
  <2>3. turn'[t].runs = turn[t].runs
    BY <2>1, <2>2 DEF NewTurn
  <2> QED
    BY <2>1, <2>2, <2>3 DEF Budgets
<1>4. ASSUME NEW t \in Turn, RotateSession(t) \/ CloseDone(t) \/ SaveTurn(t)
      PROVE  Budgets
  BY <1>4 DEF RotateSession, CloseDone, SaveTurn, Budgets
<1>5. ASSUME NEW t \in Turn, BeginTurn(t) \/ AppendEvents(t)
      PROVE  Budgets
  BY <1>5, StoreCopyShape DEF Budgets
<1>6. ASSUME NEW t \in Turn, Works(t)
      PROVE  Budgets
  BY <1>6 DEF Works, Counts, Budgets
<1>7. ASSUME NEW t \in Turn, NEW q \in {turn[t].pending, None}, Leave(t, q)
      PROVE  Budgets
  BY <1>7, LeaveShape DEF Budgets
<1>8. ASSUME NEW t \in Turn, EndTurn(t)
      PROVE  Budgets
  BY <1>8, EndShape DEF Budgets
<1>9. ASSUME NEW t \in Turn, Deliver(t) \/ Drop(t) \/ Abort(t)
      PROVE  Budgets
  <2>1. Ended(t)
    BY <1>9 DEF Deliver, Drop, Abort
  <2> QED
    BY <1>0, <2>1, EndedShape DEF Budgets
<1>10. ASSUME \/ Edits
              \/ ExpireSession \/ UNCHANGED vars
       PROVE  Budgets
  BY <1>10 DEF Edits, EditCanvas, EditConnection, ExpireSession, vars, Budgets
<1> QED
  BY <1>2, <1>3, <1>4, <1>5, <1>6, <1>7, <1>8, <1>9, <1>10, StepCases

------------------------------------------------------------------------------
(* Results *)

\* What was earned stays earned.
LEMMA EarnedStays ==
  ASSUME NEW E, NEW F, E \subseteq F
  PROVE  /\ \A st : Earned(st, E) => Earned(st, F)
         /\ \A w : Complete(w, E) => Complete(w, F)
<1>1. \A w : Complete(w, E) => Complete(w, F)
  BY DEF Complete
<1> QED
  BY <1>1 DEF Earned

\* finish() asks for a workflow only when it is complete.
LEMMA FinishableIsComplete ==
  ASSUME TypeOK, NEW t \in Turn, copy[t] \in Session, Earned(copy[t], earned), Finishable(t)
  PROVE  Complete(work[t], earned)
<1> SUFFICES ASSUME NEW n \in Nodes(work[t])
             PROVE  ~Unkeyed(work[t], n) /\ \E s \in DoneStatuses : <<n, work[t].cfg[n], s>> \in earned
  BY DEF Complete, Finishable
<1>1. n \in Node /\ work[t].cfg[n] # Gone
  BY DEF Nodes
<1>2. ~Unkeyed(work[t], n) /\ StatusIn(t, n) \in DoneStatuses
  BY DEF Finishable
<1> DEFINE r == copy[t].tests[n]
<1>3. CASE r # NoTest /\ r.hash = work[t].cfg[n]
  <2>1. StatusIn(t, n) = r.status
    BY <1>3 DEF StatusIn, NodeStatus
  <2>2. r.status # "failed"
    BY <1>2, <2>1 DEF DoneStatuses
  <2> QED
    BY <1>1, <1>2, <1>3, <2>1, <2>2 DEF Earned
<1>4. CASE r # NoTest /\ r.hash # work[t].cfg[n]
  <2>1. StatusIn(t, n) = "untested"
    BY <1>4 DEF StatusIn, NodeStatus
  <2> QED
    BY <1>2, <2>1 DEF DoneStatuses
<1>5. CASE r = NoTest /\ copy[t].baseline # Unset /\ copy[t].baseline[n] = work[t].cfg[n]
  BY <1>1, <1>2, <1>5 DEF Earned
<1>6. CASE r = NoTest /\ ~(copy[t].baseline # Unset /\ copy[t].baseline[n] = work[t].cfg[n])
  <2>1. StatusIn(t, n) = "untested"
    BY <1>6 DEF StatusIn, NodeStatus
  <2> QED
    BY <1>2, <2>1 DEF DoneStatuses
<1> QED
  BY <1>3, <1>4, <1>5, <1>6

\* The part of EarnInv about one turn.
EarnAt(t) ==
    /\ copy[t] # NoDoc => Earned(copy[t], earned)
    /\ turn[t].pending # None /\ turn[t].pending.kind = "finish" =>
         Complete(turn[t].pending.hash, earned)
    /\ turn[t].done => Complete(work[t], earned)

\* A turn on which nothing changes keeps what it has.
LEMMA EarnFrame ==
  ASSUME EarnInv, earned \subseteq earned', NEW u \in Turn,
         copy'[u] = copy[u], turn'[u] = turn[u], work'[u] = work[u]
  PROVE  EarnAt(u)'
<1>1. EarnAt(u)
  BY DEF EarnInv, EarnAt
<1> QED
  BY <1>1, EarnedStays DEF EarnAt

\* The verdict keeps only results that were earned, or earns them.
LEMMA JudgeEarns ==
  ASSUME TypeOK, NEW t \in Turn, NEW st \in Session, Earned(st, earned), Judge(t, st), turn[t] = NewTurn
  PROVE  earned \subseteq earned' /\ EarnAt(t)'
<1> DEFINE q == st.pending
           reply == req[t].reply
           first == st.baseline = Unset
<1>1. earned' = earned
           \cup (IF Declined(q, reply) THEN {<<q.node, q.hash, "skipped">>} ELSE {})
           \cup (IF first THEN {<<n, work[t].cfg[n], "passed">> : n \in Nodes(work[t])} ELSE {})
  BY DEF Judge
<1>2. earned \subseteq earned'
  BY <1>1
<1>3. /\ copy'[t] \in Session /\ copy'[t].pending = None
      /\ \A n \in Node : \/ copy'[t].tests[n] = NoTest
                         \/ copy'[t].tests[n] = st.tests[n]
                         \/ /\ SkippedBy(q, reply) /\ n = q.node
                            /\ copy'[t].tests[n] = [status |-> "skipped", hash |-> q.hash]
      /\ copy'[t].baseline = IF first THEN BaselineOf(work[t]) ELSE st.baseline
      /\ work'[t] = IF ChosenBy(q, reply, work[t])
                      THEN [work[t] EXCEPT !.cfg[q.node].key = reply]
                      ELSE work[t]
      /\ turn'[t] = [turn[t] EXCEPT
                          !.confirmed = IF ConfirmedBy(q, reply) THEN q ELSE None,
                          !.done = FinishedBy(q, reply, work[t])]
  BY JudgeShape
<1>4. turn'[t].pending = None /\ turn'[t].done = FinishedBy(q, reply, work[t])
  BY <1>3 DEF NewTurn
<1>5. \A n \in Node : copy'[t].tests[n] # NoTest /\ copy'[t].tests[n].status # "failed" =>
         <<n, copy'[t].tests[n].hash, copy'[t].tests[n].status>> \in earned'
  <2> SUFFICES ASSUME NEW n \in Node, copy'[t].tests[n] # NoTest, copy'[t].tests[n].status # "failed"
               PROVE  <<n, copy'[t].tests[n].hash, copy'[t].tests[n].status>> \in earned'
    OBVIOUS
  <2>1. CASE copy'[t].tests[n] = st.tests[n]
    BY <1>2, <2>1 DEF Earned
  <2>2. CASE SkippedBy(q, reply) /\ n = q.node /\ copy'[t].tests[n] = [status |-> "skipped", hash |-> q.hash]
    <3>1. Declined(q, reply)
      BY <2>2 DEF SkippedBy, Declined
    <3>2. <<n, q.hash, "skipped">> \in earned'
      BY <1>1, <2>2, <3>1
    <3> QED
      BY <2>2, <3>2
  <2> QED
    BY <1>3, <2>1, <2>2
<1>6. \A n \in Node : copy'[t].baseline # Unset /\ copy'[t].baseline[n] # Gone =>
         \E s \in DoneStatuses : <<n, copy'[t].baseline[n], s>> \in earned'
  <2> SUFFICES ASSUME NEW n \in Node, copy'[t].baseline # Unset, copy'[t].baseline[n] # Gone
               PROVE  \E s \in DoneStatuses : <<n, copy'[t].baseline[n], s>> \in earned'
    OBVIOUS
  <2>1. CASE first
    <3>1. copy'[t].baseline[n] = work[t].cfg[n] /\ n \in Nodes(work[t])
      BY <1>3, <2>1 DEF BaselineOf, Nodes
    <3>2. <<n, work[t].cfg[n], "passed">> \in earned'
      BY <1>1, <2>1, <3>1
    <3> QED
      BY <3>1, <3>2 DEF DoneStatuses
  <2>2. CASE ~first
    <3>1. copy'[t].baseline = st.baseline
      BY <1>3, <2>2
    <3> QED
      BY <1>2, <2>2, <3>1 DEF Earned
  <2> QED
    BY <2>1, <2>2
<1>7. turn'[t].done => Complete(work'[t], earned')
  <2> SUFFICES ASSUME FinishedBy(q, reply, work[t]) PROVE Complete(work'[t], earned')
    BY <1>4
  <2>1. q # None /\ q.kind = "finish" /\ q.hash = work[t]
    BY DEF FinishedBy
  <2>2. work'[t] = work[t]
    BY <1>3, <2>1 DEF ChosenBy
  <2>3. Complete(work[t], earned)
    BY <2>1 DEF Earned
  <2> QED
    BY <1>2, <2>2, <2>3, EarnedStays
<1>8. Earned(copy'[t], earned')
  BY <1>3, <1>5, <1>6 DEF Earned
<1> QED
  BY <1>2, <1>4, <1>7, <1>8 DEF EarnAt

\* No step forges a result.
LEMMA EarnStep == TypeOK /\ ShapeInv /\ EarnInv /\ [Next]_vars => EarnInv'
<1> SUFFICES ASSUME TypeOK, ShapeInv, EarnInv, [Next]_vars PROVE EarnInv'
  OBVIOUS
<1> DEFINE DocEarned == doc # NoDoc => Earned(doc, earned)
<1>0. DocEarned /\ \A u \in Turn : EarnAt(u)
  BY DEF EarnInv, EarnAt
<1>i. (\A u \in Turn : EarnAt(u)') /\ DocEarned' => EarnInv'
  BY DEF EarnInv, EarnAt
<1>d. doc' = doc /\ earned \subseteq earned' => DocEarned'
  BY <1>0, EarnedStays
<1>1. ASSUME NEW t \in Turn, NEW reply \in Replies, Send(t, reply) PROVE EarnInv'
  <2>1. /\ pc[t] = "idle" /\ UNCHANGED <<doc, copy, turn, earned>>
        /\ \A u \in Turn : u # t => work'[u] = work[u]
    BY <1>1, SendShape
  <2>2. \A u \in Turn : u # t => EarnAt(u)'
    BY <2>1, EarnFrame
  <2>3. ~turn[t].done
    BY <2>1 DEF ShapeInv, NewTurn
  <2>4. EarnAt(t)'
    BY <1>0, <2>1, <2>3 DEF EarnAt
  <2> QED
    BY <1>d, <1>i, <2>1, <2>2, <2>4
<1>2. ASSUME NEW t \in Turn, NEW st, Opens(t, st) PROVE EarnInv'
  <2>1. /\ st \in Session /\ doc' = st /\ Judge(t, st) /\ turn[t] = NewTurn
        /\ st = IF doc # NoDoc THEN doc ELSE IF pc[t] = "load" THEN Fresh ELSE copy[t]
        /\ pc[t] \in {"load", "recreate"}
    BY <1>2 DEF Opens
  <2>2. Earned(Fresh, earned)
    BY DEF Earned, Fresh, NoTests
  <2>3. pc[t] = "recreate" => copy[t] # NoDoc
    BY MarkAssumption DEF ShapeInv
  <2>4. Earned(st, earned)
    BY <1>0, <2>1, <2>2, <2>3 DEF EarnAt
  <2>5. earned \subseteq earned' /\ EarnAt(t)'
    BY <2>1, <2>4, JudgeEarns
  <2>6. \A u \in Turn : u # t => copy'[u] = copy[u] /\ turn'[u] = turn[u] /\ work'[u] = work[u]
    BY <2>1, JudgeShape
  <2>7. \A u \in Turn : u # t => EarnAt(u)'
    BY <2>5, <2>6, EarnFrame
  <2>8. DocEarned'
    BY <2>1, <2>4, <2>5, EarnedStays
  <2> QED
    BY <1>i, <2>5, <2>7, <2>8
<1>3. ASSUME NEW t \in Turn, RotateSession(t) PROVE EarnInv'
  <2>1. /\ doc # NoDoc /\ doc' = NoDoc /\ copy' = [copy EXCEPT ![t] = doc] /\ UNCHANGED <<work, turn, earned>>
    BY <1>3 DEF RotateSession
  <2>2. copy'[t] = doc /\ \A u \in Turn : u # t => copy'[u] = copy[u]
    BY <2>1 DEF TypeOK
  <2>3. \A u \in Turn : u # t => EarnAt(u)'
    BY <2>1, <2>2, EarnFrame
  <2>4. EarnAt(t)'
    BY <1>0, <2>1, <2>2 DEF EarnAt
  <2> QED
    BY <1>i, <2>1, <2>3, <2>4
<1>4. ASSUME NEW t \in Turn, CloseDone(t) PROVE EarnInv'
  <2>1. /\ pc[t] = "close" /\ copy[t] \in Session /\ UNCHANGED <<work, copy, turn, earned>>
        /\ doc' # NoDoc => /\ doc'.pending = None /\ doc'.tests = copy[t].tests
                           /\ doc'.baseline = BaselineOf(work[t])
    BY <1>4, CloseShape
  <2>2. turn[t].done
    BY <2>1 DEF ShapeInv
  <2>4. Complete(work[t], earned) /\ Earned(copy[t], earned)
    BY <1>0, <2>1, <2>2, MarkAssumption DEF EarnAt
  <2>5. doc' # NoDoc => Earned(doc', earned')
    <3> SUFFICES ASSUME doc' # NoDoc PROVE Earned(doc', earned')
      OBVIOUS
    <3>1. ASSUME NEW n \in Node, doc'.baseline[n] # Gone
          PROVE  \E s \in DoneStatuses : <<n, doc'.baseline[n], s>> \in earned
      <4>1. doc'.baseline[n] = work[t].cfg[n]
        BY <2>1 DEF BaselineOf
      <4>2. n \in Nodes(work[t])
        BY <3>1, <4>1 DEF Nodes
      <4> QED
        BY <2>4, <4>1, <4>2 DEF Complete
    <3> QED
      BY <2>1, <2>4, <3>1 DEF Earned
  <2>6. \A u \in Turn : EarnAt(u)'
    BY <2>1, EarnFrame
  <2> QED
    BY <1>i, <2>5, <2>6
<1>5. ASSUME NEW t \in Turn, BeginTurn(t) \/ AppendEvents(t) PROVE EarnInv'
  <2>1. /\ pc[t] \in {"begin", "llm"} /\ copy[t] \in Session /\ (doc' # NoDoc => doc' = copy[t])
        /\ \A u \in Turn : u # t => turn'[u] = turn[u]
        /\ turn'[t].pending = turn[t].pending /\ turn'[t].done = turn[t].done
        /\ UNCHANGED <<work, copy, earned>>
    BY <1>5, StoreCopyShape
  <2>2. Earned(copy[t], earned)
    BY <1>0, <2>1, MarkAssumption DEF EarnAt
  <2>3. \A u \in Turn : u # t => EarnAt(u)'
    BY <2>1, EarnFrame
  <2>4. EarnAt(t)'
    BY <1>0, <2>1 DEF EarnAt
  <2> QED
    BY <1>i, <2>1, <2>2, <2>3, <2>4
<1>6. ASSUME NEW t \in Turn, Works(t) PROVE EarnInv'
  <2>1. /\ pc[t] = "llm" /\ doc' = doc /\ earned \subseteq earned'
        /\ \A u \in Turn : u # t => copy'[u] = copy[u] /\ turn'[u] = turn[u] /\ work'[u] = work[u]
        /\ copy'[t] \in Session /\ copy'[t].pending = copy[t].pending /\ copy'[t].baseline = copy[t].baseline
        /\ \A n \in Node :
             \/ copy'[t].tests[n] = copy[t].tests[n]
             \/ copy'[t].tests[n].status = "failed"
             \/ <<n, copy'[t].tests[n].hash, copy'[t].tests[n].status>> \in earned'
        /\ turn'[t].done = turn[t].done
        /\ turn'[t].pending = turn[t].pending \/ MayAsk(t, turn'[t].pending)
    BY <1>6 DEF Works, Records, Follows
  <2>2. /\ copy[t] \in Session /\ copy[t].pending = None /\ ~turn[t].done
    BY <2>1 DEF ShapeInv
  <2>3. Earned(copy[t], earned)
    BY <1>0, <2>2, MarkAssumption DEF EarnAt
  <2>4. Earned(copy[t], earned')
    BY <2>1, <2>3, EarnedStays
  <2>5. Earned(copy'[t], earned')
    BY <2>1, <2>2, <2>4 DEF Earned
  <2>6. turn'[t].pending # None /\ turn'[t].pending.kind = "finish" => Complete(turn'[t].pending.hash, earned')
    <3>1. CASE turn'[t].pending = turn[t].pending
      BY <1>0, <2>1, <3>1, EarnedStays DEF EarnAt
    <3>2. CASE MayAsk(t, turn'[t].pending)
      <4>1. turn'[t].pending.kind = "finish" => Finishable(t) /\ turn'[t].pending.hash = work[t]
        BY <3>2 DEF MayAsk
      <4>2. Finishable(t) => Complete(work[t], earned)
        BY <2>2, <2>3, FinishableIsComplete
      <4> QED
        BY <2>1, <4>1, <4>2, EarnedStays
    <3> QED
      BY <2>1, <3>1, <3>2
  <2>7. EarnAt(t)'
    BY <2>1, <2>2, <2>5, <2>6 DEF EarnAt
  <2>8. \A u \in Turn : u # t => EarnAt(u)'
    BY <2>1, EarnFrame
  <2> QED
    BY <1>d, <1>i, <2>1, <2>7, <2>8
<1>7. ASSUME NEW t \in Turn, NEW q \in {turn[t].pending, None}, Leave(t, q) PROVE EarnInv'
  <2>1. /\ copy'[t] = NoDoc /\ turn'[t].pending = q /\ ~turn'[t].done /\ UNCHANGED <<doc, work, earned>>
        /\ \A u \in Turn : u # t => copy'[u] = copy[u] /\ turn'[u] = turn[u]
    BY <1>7, LeaveShape
  <2>2. EarnAt(t)'
    BY <1>0, <2>1 DEF EarnAt
  <2>3. \A u \in Turn : u # t => EarnAt(u)'
    BY <2>1, EarnFrame
  <2> QED
    BY <1>d, <1>i, <2>1, <2>2, <2>3
<1>8. ASSUME NEW t \in Turn, EndTurn(t) PROVE EarnInv'
  <2>1. /\ copy'[t] = doc /\ turn'[t].pending = AsShown(t, turn[t].pending) /\ turn'[t].done = turn[t].done
        /\ UNCHANGED <<doc, work, earned>>
        /\ \A u \in Turn : u # t => copy'[u] = copy[u] /\ turn'[u] = turn[u]
    BY <1>8, EndShape
  <2>2. turn[t].pending \in Question \cup {None}
    BY DEF TypeOK, Locals
  <2>3. turn'[t].pending # None /\ turn'[t].pending.kind = "finish" =>
          turn[t].pending # None /\ turn[t].pending.kind = "finish" /\ turn'[t].pending = turn[t].pending
    BY <2>1, <2>2, ShownShape
  <2>4. EarnAt(t)'
    BY <1>0, <2>1, <2>3 DEF EarnAt
  <2>5. \A u \in Turn : u # t => EarnAt(u)'
    BY <2>1, EarnFrame
  <2> QED
    BY <1>d, <1>i, <2>1, <2>4, <2>5
<1>9. ASSUME NEW t \in Turn, SaveTurn(t) PROVE EarnInv'
  <2>1. /\ \/ doc' = doc
           \/ doc' = NoDoc
           \/ /\ copy[t] \in Session
              /\ doc'.pending = turn[t].pending /\ doc'.tests = copy[t].tests /\ doc'.baseline = copy[t].baseline
        /\ UNCHANGED <<work, copy, turn, earned>>
    BY <1>9, SaveShape
  <2>2. copy[t] \in Session => Earned(copy[t], earned)
    BY <1>0, MarkAssumption DEF EarnAt
  <2>3. DocEarned'
    BY <1>0, <2>1, <2>2 DEF EarnAt, Earned
  <2>4. \A u \in Turn : EarnAt(u)'
    BY <2>1, EarnFrame
  <2> QED
    BY <1>i, <2>3, <2>4
<1>10. ASSUME NEW t \in Turn, Deliver(t) \/ Drop(t) \/ Abort(t) PROVE EarnInv'
  <2>1. Ended(t) /\ UNCHANGED <<doc, earned>>
    BY <1>10 DEF Deliver, Drop, Abort
  <2>2. /\ copy'[t] = NoDoc /\ turn'[t] = NewTurn
        /\ \A u \in Turn : u # t => copy'[u] = copy[u] /\ turn'[u] = turn[u] /\ work'[u] = work[u]
    BY <2>1, EndedShape
  <2>3. EarnAt(t)'
    BY <2>2 DEF EarnAt, NewTurn
  <2>4. \A u \in Turn : u # t => EarnAt(u)'
    BY <2>1, <2>2, EarnFrame
  <2> QED
    BY <1>d, <1>i, <2>1, <2>3, <2>4
<1>11. ASSUME Edits PROVE EarnInv'
  <2>1. UNCHANGED <<doc, work, copy, turn, earned>>
    BY <1>11 DEF Edits, EditCanvas, EditConnection
  <2> QED
    BY <1>d, <1>i, <2>1, EarnFrame
<1>12. ASSUME ExpireSession PROVE EarnInv'
  <2>1. doc' = NoDoc /\ UNCHANGED <<work, copy, turn, earned>>
    BY <1>12 DEF ExpireSession
  <2> QED
    BY <1>i, <2>1, EarnFrame
<1>13. ASSUME UNCHANGED vars PROVE EarnInv'
  <2>1. UNCHANGED <<doc, work, copy, turn, earned>>
    BY <1>13 DEF vars
  <2> QED
    BY <1>d, <1>i, <2>1, EarnFrame
<1> QED
  BY <1>1, <1>2, <1>3, <1>4, <1>5, <1>6, <1>7, <1>8, <1>9, <1>10, <1>11, <1>12, <1>13, StepCases

------------------------------------------------------------------------------
(* Model cards *)

\* The part of CardInv about one turn.
CardAt(t) ==
    /\ IsShown(req[t].q, req[t].shown)
    /\ pc[t] \in {"save", "reply"} /\ turn[t].pending # None /\ turn[t].pending.kind = "card" =>
         work[t].cfg[turn[t].pending.node] = turn[t].pending.hash

\* A turn on which nothing changes keeps its card.
LEMMA CardFrame ==
  ASSUME CardInv, NEW u \in Turn, pc'[u] = pc[u], req'[u] = req[u], turn'[u] = turn[u], work'[u] = work[u]
  PROVE  CardAt(u)'
BY DEF CardInv, CardAt

\* The node of a card is shown as the card was stored.
LEMMA CardStep == TypeOK /\ ShapeInv /\ CardInv /\ [Next]_vars => CardInv'
<1> SUFFICES ASSUME TypeOK, ShapeInv, CardInv, [Next]_vars PROVE CardInv'
  OBVIOUS
<1>0. IsShown(screen.q, screen.shown) /\ \A u \in Turn : CardAt(u)
  BY DEF CardInv, CardAt
<1>i. IsShown(screen.q, screen.shown)' /\ (\A u \in Turn : CardAt(u)') => CardInv'
  BY DEF CardInv, CardAt
<1>s. screen' = screen => IsShown(screen.q, screen.shown)'
  BY <1>0
<1>1. ASSUME NEW t \in Turn, NEW reply \in Replies, Send(t, reply) PROVE CardInv'
  <2>1. /\ pc'[t] = "load" /\ req'[t].q = screen.q /\ req'[t].shown = screen.shown /\ UNCHANGED <<screen, turn>>
        /\ \A u \in Turn : u # t => pc'[u] = pc[u] /\ req'[u] = req[u] /\ work'[u] = work[u]
    BY <1>1, SendShape
  <2>2. CardAt(t)'
    BY <1>0, <2>1 DEF CardAt
  <2>3. \A u \in Turn : u # t => CardAt(u)'
    BY <2>1, CardFrame
  <2> QED
    BY <1>i, <1>s, <2>1, <2>2, <2>3
<1>2. ASSUME NEW t \in Turn, NEW st, Opens(t, st) PROVE CardInv'
  <2>1. /\ st \in Session /\ Judge(t, st) /\ turn[t] = NewTurn /\ UNCHANGED <<screen, req>>
    BY <1>2 DEF Opens
  <2>2. pc'[t] = IF FinishedBy(st.pending, req[t].reply, work[t]) THEN "close" ELSE "begin"
    BY <2>1, JudgeShape
  <2>3. pc'[t] \notin {"save", "reply"}
    BY <2>2
  <2>4. \A u \in Turn : u # t => pc'[u] = pc[u] /\ turn'[u] = turn[u] /\ work'[u] = work[u]
    BY <2>1, JudgeShape
  <2>5. CardAt(t)'
    BY <1>0, <2>1, <2>3 DEF CardAt
  <2>6. \A u \in Turn : u # t => CardAt(u)'
    BY <2>1, <2>4, CardFrame
  <2> QED
    BY <1>i, <1>s, <2>1, <2>5, <2>6
<1>3. ASSUME NEW t \in Turn, RotateSession(t) PROVE CardInv'
  <2>1. pc' = [pc EXCEPT ![t] = "recreate"] /\ UNCHANGED <<screen, req, work, turn>>
    BY <1>3 DEF RotateSession
  <2>2. pc'[t] = "recreate" /\ \A u \in Turn : u # t => pc'[u] = pc[u]
    BY <2>1, PlaceShape DEF Places
  <2>3. CardAt(t)'
    BY <1>0, <2>1, <2>2 DEF CardAt
  <2>4. \A u \in Turn : u # t => CardAt(u)'
    BY <2>1, <2>2, CardFrame
  <2> QED
    BY <1>i, <1>s, <2>1, <2>3, <2>4
<1>4. ASSUME NEW t \in Turn, CloseDone(t) PROVE CardInv'
  <2>1. /\ pc[t] = "close" /\ UNCHANGED <<screen, req, work, turn>>
        /\ \A u \in Turn : u # t => pc'[u] = pc[u]
    BY <1>4, CloseShape
  <2>2. turn[t].pending = None
    BY <2>1 DEF ShapeInv
  <2>3. CardAt(t)'
    BY <1>0, <2>1, <2>2 DEF CardAt
  <2>4. \A u \in Turn : u # t => CardAt(u)'
    BY <2>1, CardFrame
  <2> QED
    BY <1>i, <1>s, <2>1, <2>3, <2>4
<1>5. ASSUME NEW t \in Turn, BeginTurn(t) \/ AppendEvents(t) PROVE CardInv'
  <2>1. /\ pc'[t] = "llm" /\ UNCHANGED <<screen, req, work>>
        /\ \A u \in Turn : u # t => pc'[u] = pc[u] /\ turn'[u] = turn[u]
    BY <1>5, StoreCopyShape
  <2>2. CardAt(t)'
    BY <1>0, <2>1 DEF CardAt
  <2>3. \A u \in Turn : u # t => CardAt(u)'
    BY <2>1, CardFrame
  <2> QED
    BY <1>i, <1>s, <2>1, <2>2, <2>3
<1>6. ASSUME NEW t \in Turn, Works(t) PROVE CardInv'
  <2>1. /\ pc[t] = "llm" /\ pc' = pc /\ screen' = screen /\ req'[t].q = req[t].q /\ req'[t].shown = req[t].shown
        /\ \A u \in Turn : u # t => req'[u] = req[u] /\ turn'[u] = turn[u] /\ work'[u] = work[u]
    BY <1>6 DEF Works
  <2>2. CardAt(t)'
    BY <1>0, <2>1 DEF CardAt
  <2>3. \A u \in Turn : u # t => CardAt(u)'
    BY <2>1, CardFrame
  <2> QED
    BY <1>i, <1>s, <2>1, <2>2, <2>3
<1>7. ASSUME NEW t \in Turn, NEW q \in {turn[t].pending, None}, Leave(t, q) PROVE CardInv'
  <2>1. /\ pc'[t] = "end" /\ req'[t].q = None /\ UNCHANGED <<screen, work>>
        /\ \A u \in Turn : u # t => pc'[u] = pc[u] /\ req'[u] = req[u] /\ turn'[u] = turn[u]
    BY <1>7, LeaveShape
  <2>2. CardAt(t)'
    BY <2>1 DEF CardAt, IsShown
  <2>3. \A u \in Turn : u # t => CardAt(u)'
    BY <2>1, CardFrame
  <2> QED
    BY <1>i, <1>s, <2>1, <2>2, <2>3
<1>8. ASSUME NEW t \in Turn, EndTurn(t) PROVE CardInv'
  <2>1. /\ turn'[t].pending = AsShown(t, turn[t].pending) /\ UNCHANGED <<screen, req, work>>
        /\ \A u \in Turn : u # t => pc'[u] = pc[u] /\ turn'[u] = turn[u]
    BY <1>8, EndShape
  <2>2. turn[t].pending \in Question \cup {None}
    BY DEF TypeOK, Locals
  <2>3. turn'[t].pending # None /\ turn'[t].pending.kind = "card" =>
          work[t].cfg[turn'[t].pending.node] = turn'[t].pending.hash
    BY <2>1, <2>2, ShownShape
  <2>4. CardAt(t)'
    BY <1>0, <2>1, <2>3 DEF CardAt
  <2>5. \A u \in Turn : u # t => CardAt(u)'
    BY <2>1, CardFrame
  <2> QED
    BY <1>i, <1>s, <2>1, <2>4, <2>5
<1>9. ASSUME NEW t \in Turn, SaveTurn(t) PROVE CardInv'
  <2>1. /\ pc[t] = "save" /\ UNCHANGED <<screen, req, work, turn>>
        /\ \A u \in Turn : u # t => pc'[u] = pc[u]
    BY <1>9, SaveShape
  <2>2. CardAt(t)'
    BY <1>0, <2>1 DEF CardAt
  <2>3. \A u \in Turn : u # t => CardAt(u)'
    BY <2>1, CardFrame
  <2> QED
    BY <1>i, <1>s, <2>1, <2>2, <2>3
<1>10. ASSUME NEW t \in Turn, Deliver(t) \/ Drop(t) \/ Abort(t) PROVE CardInv'
  <2>1. Ended(t)
    BY <1>10 DEF Deliver, Drop, Abort
  <2>2. /\ pc'[t] = "idle" /\ req'[t] = Idle
        /\ \A u \in Turn : u # t => pc'[u] = pc[u] /\ req'[u] = req[u] /\ turn'[u] = turn[u] /\ work'[u] = work[u]
    BY <2>1, EndedShape
  <2>3. CardAt(t)'
    BY <2>2 DEF CardAt, Idle, IsShown
  <2>4. \A u \in Turn : u # t => CardAt(u)'
    BY <2>2, CardFrame
  <2>5. IsShown(screen.q, screen.shown)'
    <3>1. CASE Deliver(t)
      <4> DEFINE q == turn[t].pending
      <4>1. /\ pc[t] = "reply" /\ screen'.q = q
            /\ q # None /\ q.kind # "finish" => screen'.shown = work[t].cfg[q.node]
        BY <3>1 DEF Deliver
      <4>2. q # None /\ q.kind = "card" => work[t].cfg[q.node] = q.hash
        BY <1>0, <4>1 DEF CardAt
      <4> QED
        BY <4>1, <4>2 DEF IsShown
    <3>2. CASE Drop(t) \/ Abort(t)
      BY <1>s, <3>2 DEF Drop, Abort
    <3> QED
      BY <1>10, <3>1, <3>2
  <2> QED
    BY <1>i, <2>3, <2>4, <2>5
<1>11. ASSUME \/ Edits
              \/ ExpireSession \/ UNCHANGED vars
       PROVE  CardInv'
  <2>1. UNCHANGED <<screen, pc, req, work, turn>>
    BY <1>11 DEF Edits, EditCanvas, EditConnection, ExpireSession, vars
  <2>2. \A u \in Turn : CardAt(u)'
    BY <2>1, CardFrame
  <2> QED
    BY <1>i, <1>s, <2>1, <2>2
<1> QED
  BY <1>1, <1>2, <1>3, <1>4, <1>5, <1>6, <1>7, <1>8, <1>9, <1>10, <1>11, StepCases

------------------------------------------------------------------------------
(* Theorems about every conversation, with overlapping turns and lost responses *)

\* Only the verdict takes a turn from its beginning to the LLM.
LEMMA OnlyTheVerdict ==
  ASSUME TypeOK, ShapeInv, [Next]_vars, NEW t \in Turn, pc[t] \in {"load", "recreate"}, pc'[t] = "begin"
  PROVE  \E st : Opens(t, st)
<1>1. ASSUME NEW u \in Turn, NEW reply \in Replies, Send(u, reply) PROVE FALSE
  BY <1>1, SendShape
<1>2. ASSUME NEW u \in Turn, NEW st, Opens(u, st) PROVE u = t
  BY <1>2, JudgeShape DEF Opens
<1>3. ASSUME NEW u \in Turn, RotateSession(u) PROVE FALSE
  BY <1>3 DEF RotateSession, TypeOK
<1>4. ASSUME NEW u \in Turn, CloseDone(u) PROVE FALSE
  BY <1>4, CloseShape
<1>5. ASSUME NEW u \in Turn, BeginTurn(u) \/ AppendEvents(u) PROVE FALSE
  BY <1>5, StoreCopyShape
<1>6. ASSUME NEW u \in Turn, Works(u) PROVE FALSE
  BY <1>6 DEF Works
<1>7. ASSUME NEW u \in Turn, NEW q \in {turn[u].pending, None}, Leave(u, q) PROVE FALSE
  BY <1>7, LeaveShape
<1>8. ASSUME NEW u \in Turn, EndTurn(u) PROVE FALSE
  BY <1>8, EndShape
<1>9. ASSUME NEW u \in Turn, SaveTurn(u) PROVE FALSE
  BY <1>9, SaveShape
<1>10. ASSUME NEW u \in Turn, Deliver(u) \/ Drop(u) \/ Abort(u) PROVE FALSE
  <2>1. Ended(u)
    BY <1>10 DEF Deliver, Drop, Abort
  <2> QED
    BY <2>1, EndedShape
<1>11. ASSUME \/ Edits
              \/ ExpireSession \/ UNCHANGED vars
       PROVE  FALSE
  BY <1>11 DEF Edits, EditCanvas, EditConnection, ExpireSession, vars
<1> QED
  BY <1>1, <1>2, <1>3, <1>4, <1>5, <1>6, <1>7, <1>8, <1>9, <1>10, <1>11, StepCases

\* A conversation starts with nothing but a workflow.
LEMMA InitIInv == Init => IInv
<1> SUFFICES ASSUME Init PROVE IInv
  OBVIOUS
<1> USE DEF Init
<1>1. TypeOK
  <2>1. screen \in [q : Question \cup {None}, shown : Config \cup {Gone}]
    BY DEF Silence
  <2>2. canvas \in Workflow /\ born \subseteq Node
    BY TurnAssumption DEF Nodes
  <2>3. clock \in [msgs : 0..MaxTurns, edits : 0..MaxEdits]
    BY TurnAssumption
  <2>4. pc \in [Turn -> Places] /\ ran \in [Number -> Nat]
    BY DEF Places
  <2> QED
    BY <2>1, <2>2, <2>3, <2>4, RestShape DEF TypeOK
<1>2. ShapeInv
  BY DEF ShapeInv, NewTurn
<1>3. BudgetInv
  BY TurnAssumption DEF BudgetInv, Idle, NewTurn
<1>4. EarnInv
  BY DEF EarnInv, NewTurn
<1>5. CardInv
  BY DEF CardInv, IsShown, Silence, Idle
<1> QED
  BY <1>1, <1>2, <1>3, <1>4, <1>5 DEF IInv

\* The invariant is inductive.
LEMMA StepIInv == IInv /\ [Next]_vars => IInv'
BY ShapeStep, BudgetStep, EarnStep, CardStep DEF IInv

\* Every reachable state satisfies the invariant.
THEOREM Invariance == Spec => []IInv
<1>1. Init => IInv
  BY InitIInv
<1>2. IInv /\ [Next]_vars => IInv'
  BY StepIInv
<1> QED
  BY <1>1, <1>2, PTL DEF Spec

\* The variables have their types, whatever the users and the LLM do.
THEOREM TypeCorrect == Spec => []TypeOK
<1>1. IInv => TypeOK
  BY DEF IInv
<1> QED
  BY <1>1, Invariance, PTL

\* No turn sends more tests than MAX_TESTS_PER_TURN, however many of its calls
\* run in parallel.
THEOREM WithinBudget == Spec => []TestBudget
<1>1. IInv => TestBudget
  BY DEF IInv, BudgetInv, TestBudget
<1> QED
  BY <1>1, Invariance, PTL

\* A result that the session or a turn holds was obtained for exactly the
\* configuration it is kept for, also when turns overlap, sessions are rotated
\* and responses are lost.
THEOREM EarnedResults == Spec => []ResultsAreEarned
<1>1. IInv => ResultsAreEarned
  <2> SUFFICES ASSUME IInv PROVE ResultsAreEarned
    OBVIOUS
  <2>1. /\ doc # NoDoc => Earned(doc, earned)
        /\ \A t \in Turn : copy[t] # NoDoc => Earned(copy[t], earned)
    BY DEF IInv, EarnInv
  <2>2. \A st \in {doc} \cup {copy[t] : t \in Turn} : st # NoDoc => Earned(st, earned)
    BY <2>1
  <2> QED
    BY <2>2 DEF ResultsAreEarned, Earned
<1> QED
  BY <1>1, Invariance, PTL

\* A workflow that is reported as DONE is valid, its AI nodes have models, and
\* each node with the configuration it has now was tested, skipped or there before.
THEOREM CompleteWhenDone == Spec => []DoneIsComplete
<1>1. IInv => DoneIsComplete
  BY DEF IInv, EarnInv, DoneIsComplete, Complete
<1> QED
  BY <1>1, Invariance, PTL

\* A model choice goes into the node of the card exactly when the node is still
\* the one that was shown.
THEOREM ChoicesFit == Spec => ChoiceFitsCard
<1> DEFINE Fits(t) ==
         LET st == IF pc[t] = "recreate" /\ doc = NoDoc THEN copy[t] ELSE doc
             q  == req[t].q
             n  == q.node
         IN  (pc[t] \in {"load", "recreate"} /\ pc'[t] = "begin" /\ st # NoDoc /\ q # None
                /\ q.kind = "card" /\ st.pending = q /\ req[t].reply \in Key) =>
             IF work[t].cfg[n] # Gone /\ work[t].cfg[n] = req[t].shown
               THEN work'[t].cfg[n] = [req[t].shown EXCEPT !.key = req[t].reply]
               ELSE work'[t] = work[t]
<1>1. IInv /\ [Next]_vars => [\A t \in Turn : Fits(t)]_vars
  <2> SUFFICES ASSUME IInv, [Next]_vars, NEW t \in Turn,
                      pc[t] \in {"load", "recreate"}, pc'[t] = "begin",
                      NEW s, s = IF pc[t] = "recreate" /\ doc = NoDoc THEN copy[t] ELSE doc,
                      s # NoDoc, req[t].q # None, req[t].q.kind = "card",
                      s.pending = req[t].q, req[t].reply \in Key
               PROVE  IF work[t].cfg[req[t].q.node] # Gone /\ work[t].cfg[req[t].q.node] = req[t].shown
                        THEN work'[t].cfg[req[t].q.node] = [req[t].shown EXCEPT !.key = req[t].reply]
                        ELSE work'[t] = work[t]
    OBVIOUS
  <2>1. TypeOK /\ ShapeInv /\ CardInv
    BY DEF IInv
  <2>2. PICK st : Opens(t, st)
    BY <2>1, OnlyTheVerdict
  <2>3. /\ st = s /\ st \in Session /\ Judge(t, st) /\ turn[t] = NewTurn
    BY <2>2 DEF Opens
  <2> DEFINE q == req[t].q
             n == q.node
             w == work[t]
  <2>4. w \in Workflow /\ q \in Question /\ req[t].shown = q.hash
    BY <2>1 DEF TypeOK, Message, CardInv, IsShown
  <2>5. n \in Node
    BY <2>4, QuestionShape
  <2>6. work'[t] = IF ChosenBy(q, req[t].reply, w) THEN [w EXCEPT !.cfg[n].key = req[t].reply] ELSE w
    <3>1. work'[t] = IF ChosenBy(st.pending, req[t].reply, work[t])
                       THEN [work[t] EXCEPT !.cfg[st.pending.node].key = req[t].reply]
                       ELSE work[t]
      BY <2>1, <2>3, JudgeShape
    <3>2. st.pending = q
      BY <2>3
    <3> QED
      BY <3>1, <3>2
  <2>7. ChosenBy(q, req[t].reply, w) <=> w.cfg[n] # Gone /\ w.cfg[n] = req[t].shown
    BY <2>4 DEF ChosenBy
  <2>8. [w EXCEPT !.cfg[n].key = req[t].reply].cfg[n] = [w.cfg[n] EXCEPT !.key = req[t].reply]
    BY <2>4, <2>5 DEF Workflow
  <2> QED
    BY <2>6, <2>7, <2>8
<1> QED
  BY <1>1, Invariance, PTL DEF ChoiceFitsCard, Spec
------------------------------------------------------------------------------
(* Consent, for conversations whose turns do not overlap: one answer is     *)
(* used once (OnceInv), also when responses get lost; and when none gets    *)
(* lost, the session waits for the question on the screen and acts only on  *)
(* an answer to that question (SeenInv).  With overlapping turns an answer  *)
(* may be used twice.                                                       *)

\* Turns do not overlap.
OneTurn == \E t : Turn = {t}

\* The question of the state st is older than the turn with number i and no
\* write test has been run on it.
Unused(st, i) == st.pending # None => st.pending.no < i /\ ran[st.pending.no] = 0

\* Questions are numbered by the messages that lead to them, and an answer is
\* used once.
OnceInv ==
    /\ \A i \in Number : ran[i] \leq 1 /\ (i \geq clock.msgs => ran[i] = 0)
    /\ doc # NoDoc => Unused(doc, clock.msgs + 1)
    /\ \A t \in Turn :
         /\ pc[t] # "idle" => req[t].no = clock.msgs
         /\ pc[t] \notin {"idle", "reply"} /\ doc # NoDoc => Unused(doc, clock.msgs)
         /\ pc[t] = "llm" /\ doc # NoDoc => doc.pending = None
         /\ pc[t] = "recreate" => doc = NoDoc /\ Unused(copy[t], clock.msgs)
         /\ turn[t].pending # None => turn[t].pending.no = clock.msgs
         /\ turn[t].confirmed # None =>
              /\ turn[t].confirmed.no < clock.msgs
              /\ ~turn[t].used => ran[turn[t].confirmed.no] = 0
              /\ pc[t] \in {"begin", "llm"}

\* With one turn at a time and no lost response, the session's question is the
\* one on the screen, and a turn acts on what its message answers.
SeenInv ==
    \A t \in Turn :
      /\ pc[t] # "reply" /\ doc # NoDoc => doc.pending \in {None, screen.q}
      /\ pc[t] = "reply" /\ doc # NoDoc => doc.pending \in {None, turn[t].pending}
      /\ pc[t] = "save" => copy[t] = doc
      /\ pc[t] = "recreate" => copy[t].pending \in {None, screen.q}
      /\ pc[t] \in {"load", "recreate", "begin", "close", "llm"} => req[t].q = screen.q
      /\ pc[t] \in {"load", "recreate"} => work[t] = req[t].before
      /\ turn[t].confirmed # None =>
           /\ req[t].reply = "yes" /\ req[t].q = turn[t].confirmed
           /\ ~turn[t].confirmed.skipOnly
      /\ turn[t].done =>
           /\ req[t].reply = "yes" /\ req[t].q # None /\ req[t].q.kind = "finish"
           /\ req[t].q.hash = work[t] /\ work[t] = req[t].before

------------------------------------------------------------------------------
(* One answer, one run *)

\* The numbers of messages and questions.
LEMMA NumbersShape ==
  ASSUME TypeOK
  PROVE  /\ clock.msgs \in Nat /\ ran \in [Number -> Nat] /\ Number \subseteq Nat
         /\ \A t \in Turn : /\ turn[t].pending # None => turn[t].pending \in Question
                            /\ turn[t].confirmed # None =>
                                 turn[t].confirmed \in TestQuestion /\ turn[t].confirmed.no \in Number
         /\ \A st \in Session : st.pending # None => st.pending.no \in Number
         /\ doc # NoDoc => doc \in Session
<1>1. clock.msgs \in Nat /\ ran \in [Number -> Nat] /\ Number \subseteq Nat
  BY TurnAssumption DEF TypeOK, Number
<1>2. \A q \in Question : q.no \in Number
  BY QuestionShape
<1>3. ASSUME NEW t \in Turn
      PROVE  /\ turn[t].pending # None => turn[t].pending \in Question
             /\ turn[t].confirmed # None =>
                  turn[t].confirmed \in TestQuestion /\ turn[t].confirmed.no \in Number
  BY DEF TypeOK, Locals, TestQuestion
<1>4. \A st \in Session : st.pending # None => st.pending.no \in Number
  BY <1>2, SessionShape
<1> QED
  BY <1>1, <1>3, <1>4 DEF TypeOK

\* Every answer is used once.
LEMMA OnceStep == OneTurn /\ TypeOK /\ ShapeInv /\ OnceInv /\ [Next]_vars => OnceInv'
<1> SUFFICES ASSUME OneTurn, TypeOK, ShapeInv, OnceInv, [Next]_vars PROVE OnceInv'
  OBVIOUS
<1>0. /\ clock.msgs \in Nat /\ ran \in [Number -> Nat] /\ Number \subseteq Nat
      /\ \A t, u \in Turn : t = u
      /\ doc # NoDoc /\ doc.pending # None => doc.pending.no \in Nat
  BY NumbersShape DEF OneTurn
<1>n. NewTurn.pending = None /\ NewTurn.confirmed = None
  BY DEF NewTurn
<1>1. ASSUME NEW t \in Turn, NEW reply \in Replies, Send(t, reply) PROVE OnceInv'
  <2>1. /\ pc[t] = "idle" /\ clock'.msgs = clock.msgs + 1 /\ pc'[t] = "load" /\ req'[t].no = clock.msgs + 1
        /\ UNCHANGED <<doc, copy, turn, ran>>
    BY <1>1, SendShape
  <2>2. turn[t] = NewTurn
    BY <2>1 DEF ShapeInv
  <2> QED
    BY <1>0, <1>n, <2>1, <2>2 DEF OnceInv, Unused
<1>2. ASSUME NEW t \in Turn, NEW st, Opens(t, st) PROVE OnceInv'
  <2>1. /\ st \in Session /\ doc' = st /\ Judge(t, st) /\ turn[t] = NewTurn /\ pc[t] \in {"load", "recreate"}
        /\ st = IF doc # NoDoc THEN doc ELSE IF pc[t] = "load" THEN Fresh ELSE copy[t]
        /\ UNCHANGED <<req, clock, ran>>
    BY <1>2 DEF Opens
  <2>2. Unused(st, clock.msgs)
    BY <2>1 DEF OnceInv, Unused, Fresh
  <2>3. st.pending # None => st.pending.no \in Nat
    BY <1>0, <2>1, NumbersShape
  <2>4. /\ turn'[t] = [turn[t] EXCEPT
                          !.confirmed = IF ConfirmedBy(st.pending, req[t].reply) THEN st.pending ELSE None,
                          !.done = FinishedBy(st.pending, req[t].reply, work[t])]
        /\ pc'[t] = IF FinishedBy(st.pending, req[t].reply, work[t]) THEN "close" ELSE "begin"
    BY <2>1, JudgeShape
  <2>5. /\ turn'[t].confirmed \in {None, st.pending} /\ ~turn'[t].used /\ turn'[t].pending = None
        /\ pc'[t] \in {"close", "begin"}
        /\ turn'[t].confirmed # None => pc'[t] = "begin"
    BY <2>1, <2>4 DEF NewTurn, ConfirmedBy, FinishedBy
  <2> QED
    BY <1>0, <2>1, <2>2, <2>3, <2>5 DEF OnceInv, Unused
<1>3. ASSUME NEW t \in Turn, RotateSession(t) PROVE OnceInv'
  <2>1. /\ pc[t] = "load" /\ doc # NoDoc /\ doc' = NoDoc /\ copy'[t] = doc /\ pc'[t] = "recreate"
        /\ UNCHANGED <<req, turn, clock, ran>>
    BY <1>3 DEF RotateSession, TypeOK
  <2> QED
    BY <1>0, <2>1 DEF OnceInv, Unused
<1>4. ASSUME NEW t \in Turn, CloseDone(t) PROVE OnceInv'
  <2>1. /\ pc[t] = "close" /\ pc'[t] = "reply" /\ (doc' # NoDoc => doc'.pending = None)
        /\ UNCHANGED <<req, copy, turn, clock, ran>>
    BY <1>4, CloseShape
  <2> QED
    BY <1>0, <2>1 DEF OnceInv, Unused
<1>5. ASSUME NEW t \in Turn, BeginTurn(t) \/ AppendEvents(t) PROVE OnceInv'
  <2>1. /\ pc[t] \in {"begin", "llm"} /\ pc'[t] = "llm" /\ copy[t].pending = None
        /\ (doc' # NoDoc => doc' = copy[t])
        /\ turn'[t].pending = turn[t].pending /\ turn'[t].confirmed = turn[t].confirmed
        /\ turn'[t].used = turn[t].used /\ UNCHANGED <<req, copy, clock, ran>>
    BY <1>5, StoreCopyShape
  <2> QED
    BY <1>0, <2>1 DEF OnceInv, Unused
<1>6. ASSUME NEW t \in Turn, Works(t) PROVE OnceInv'
  <2>1. /\ pc[t] = "llm" /\ UNCHANGED <<doc, pc, clock>> /\ req'[t].no = req[t].no
        /\ turn'[t].confirmed = turn[t].confirmed
        /\ turn'[t].pending = turn[t].pending \/ turn'[t].pending.no = req[t].no
    BY <1>6 DEF Works, Follows, MayAsk
  <2>2. /\ req[t].no = clock.msgs /\ (doc # NoDoc => doc.pending = None)
    BY <2>1 DEF OnceInv
  <2>3. CASE ran' = ran /\ (turn[t].used => turn'[t].used)
    <3>1. turn[t].confirmed # None =>
            /\ turn[t].confirmed.no < clock.msgs
            /\ ~turn'[t].used => ran[turn[t].confirmed.no] = 0
      BY <2>3 DEF OnceInv
    <3>2. turn'[t].pending # None => turn'[t].pending.no = clock.msgs
      BY <2>1, <2>2 DEF OnceInv
    <3> QED
      BY <1>0, <2>1, <2>2, <2>3, <3>1, <3>2 DEF OnceInv, Unused
  <2>4. CASE /\ turn[t].confirmed # None /\ ~turn[t].used /\ turn'[t].used
             /\ ran' = [ran EXCEPT ![turn[t].confirmed.no] = @ + 1]
    <3>1. turn[t].confirmed.no \in Number /\ turn[t].confirmed.no < clock.msgs /\ ran[turn[t].confirmed.no] = 0
      BY <2>4, NumbersShape DEF OnceInv
    <3>2. \A i \in Number : ran'[i] = IF i = turn[t].confirmed.no THEN 1 ELSE ran[i]
      BY <1>0, <2>4, <3>1
    <3> QED
      BY <1>0, <2>1, <2>2, <2>4, <3>1, <3>2 DEF OnceInv, Unused
  <2> QED
    BY <1>6, <2>3, <2>4 DEF Works, Counts
<1>7. ASSUME NEW t \in Turn, pc[t] \in {"begin", "llm"}, NEW q \in {turn[t].pending, None}, Leave(t, q)
      PROVE  OnceInv'
  <2>1. /\ pc'[t] = "end" /\ req'[t].no = req[t].no /\ turn'[t].pending = q /\ turn'[t].confirmed = None
        /\ copy'[t] = NoDoc /\ UNCHANGED <<doc, clock, ran>>
    BY <1>7, LeaveShape
  <2> QED
    BY <1>0, <1>7, <2>1 DEF OnceInv, Unused
<1>8. ASSUME NEW t \in Turn, EndTurn(t) PROVE OnceInv'
  <2>1. /\ pc[t] = "end" /\ pc'[t] = "save" /\ turn'[t].pending = AsShown(t, turn[t].pending)
        /\ turn'[t].confirmed = turn[t].confirmed /\ UNCHANGED <<doc, req, clock, ran>>
    BY <1>8, EndShape
  <2>2. turn[t].pending \in Question \cup {None}
    BY DEF TypeOK, Locals
  <2>3. turn'[t].pending # None => turn[t].pending # None /\ turn'[t].pending.no = turn[t].pending.no
    BY <2>1, <2>2, ShownShape
  <2> QED
    BY <1>0, <2>1, <2>3 DEF OnceInv, Unused
<1>9. ASSUME NEW t \in Turn, SaveTurn(t) PROVE OnceInv'
  <2>1. /\ pc[t] = "save" /\ pc'[t] = "reply" /\ UNCHANGED <<req, copy, turn, clock, ran>>
        /\ doc' = doc \/ doc' = NoDoc \/ doc'.pending = turn[t].pending
    BY <1>9, SaveShape
  <2>2. clock.msgs \in Number
    BY <2>1 DEF OnceInv, ShapeInv
  <2>3. doc' # NoDoc => Unused(doc, clock.msgs + 1)'
    BY <1>0, <2>1, <2>2 DEF OnceInv, Unused
  <2> QED
    BY <1>0, <2>1, <2>3 DEF OnceInv
<1>10. ASSUME NEW t \in Turn, Deliver(t) \/ Drop(t) \/ Abort(t) PROVE OnceInv'
  <2>1. Ended(t) /\ UNCHANGED <<doc, clock, ran>>
    BY <1>10 DEF Deliver, Drop, Abort
  <2>2. pc'[t] = "idle" /\ turn'[t] = NewTurn
    BY <2>1, EndedShape
  <2> QED
    BY <1>0, <1>n, <2>1, <2>2 DEF OnceInv, Unused
<1>11. ASSUME Edits PROVE OnceInv'
  <2>1. clock'.msgs = clock.msgs /\ UNCHANGED <<doc, pc, req, copy, turn, ran>>
    BY <1>11 DEF Edits, EditCanvas, EditConnection, TypeOK
  <2> QED
    BY <2>1 DEF OnceInv, Unused
<1>12. ASSUME ExpireSession PROVE OnceInv'
  <2>1. clock'.msgs = clock.msgs /\ doc' = NoDoc /\ UNCHANGED <<pc, req, copy, turn, ran>>
    BY <1>12 DEF ExpireSession, TypeOK
  <2>2. \A t \in Turn : pc[t] = "idle"
    BY <1>12 DEF ExpireSession
  <2> QED
    BY <2>1, <2>2 DEF OnceInv, Unused
<1>13. ASSUME UNCHANGED vars PROVE OnceInv'
  BY <1>13 DEF vars, OnceInv, Unused
<1> QED
  BY <1>1, <1>2, <1>3, <1>4, <1>5, <1>6, <1>7, <1>8, <1>9, <1>10, <1>11, <1>12, <1>13, StepCases

------------------------------------------------------------------------------
(* What the user sees is what the session waits for *)

\* The session and the turns agree with the screen.
LEMMA SeenStep == OneTurn /\ ~Lossy /\ TypeOK /\ ShapeInv /\ SeenInv /\ [Next]_vars => SeenInv'
<1> SUFFICES ASSUME OneTurn, ~Lossy, TypeOK, ShapeInv, SeenInv, [Next]_vars PROVE SeenInv'
  OBVIOUS
<1>0. \A t, u \in Turn : t = u
  BY DEF OneTurn
<1>n. NewTurn.pending = None /\ NewTurn.confirmed = None /\ ~NewTurn.done
  BY DEF NewTurn
<1>1. ASSUME NEW t \in Turn, NEW reply \in Replies, Send(t, reply) PROVE SeenInv'
  <2>1. /\ pc[t] = "idle" /\ pc'[t] = "load" /\ req'[t].q = screen.q
        /\ work'[t] = canvas /\ req'[t].before = canvas
        /\ UNCHANGED <<screen, doc, copy, turn>>
    BY <1>1, SendShape
  <2>2. turn[t] = NewTurn
    BY <2>1 DEF ShapeInv
  <2> QED
    BY <1>0, <1>n, <2>1, <2>2 DEF SeenInv
<1>2. ASSUME NEW t \in Turn, NEW st, Opens(t, st) PROVE SeenInv'
  <2>1. /\ st \in Session /\ doc' = st /\ Judge(t, st) /\ turn[t] = NewTurn /\ pc[t] \in {"load", "recreate"}
        /\ st = IF doc # NoDoc THEN doc ELSE IF pc[t] = "load" THEN Fresh ELSE copy[t]
        /\ UNCHANGED <<screen, req>>
    BY <1>2 DEF Opens
  <2> DEFINE q == st.pending
  <2>2. q \in {None, screen.q}
    BY <2>1 DEF SeenInv, Fresh
  <2>3. req[t].q = screen.q /\ work[t] = req[t].before
    BY <2>1 DEF SeenInv
  <2>4. /\ turn'[t] = [turn[t] EXCEPT
                          !.confirmed = IF ConfirmedBy(q, req[t].reply) THEN q ELSE None,
                          !.done = FinishedBy(q, req[t].reply, work[t])]
        /\ pc'[t] = IF FinishedBy(q, req[t].reply, work[t]) THEN "close" ELSE "begin"
        /\ work'[t] = IF ChosenBy(q, req[t].reply, work[t])
                        THEN [work[t] EXCEPT !.cfg[q.node].key = req[t].reply]
                        ELSE work[t]
    BY <2>1, JudgeShape
  <2>5. /\ turn'[t].confirmed = IF ConfirmedBy(q, req[t].reply) THEN q ELSE None
        /\ turn'[t].done = FinishedBy(q, req[t].reply, work[t])
        /\ pc'[t] \in {"begin", "close"}
    BY <2>1, <2>4 DEF NewTurn
  <2>6. ASSUME turn'[t].confirmed # None
        PROVE  req[t].reply = "yes" /\ req[t].q = turn'[t].confirmed /\ ~turn'[t].confirmed.skipOnly
    BY <2>2, <2>3, <2>5, <2>6 DEF ConfirmedBy
  <2>7. ASSUME turn'[t].done
        PROVE  /\ req[t].reply = "yes" /\ req[t].q # None /\ req[t].q.kind = "finish"
               /\ req[t].q.hash = work'[t] /\ work'[t] = req[t].before
    <3>1. q # None /\ q.kind = "finish" /\ req[t].reply = "yes" /\ q.hash = work[t]
      BY <2>5, <2>7 DEF FinishedBy
    <3>2. work'[t] = work[t]
      BY <2>4, <3>1 DEF ChosenBy
    <3> QED
      BY <2>2, <2>3, <3>1, <3>2
  <2> QED
    BY <1>0, <2>1, <2>2, <2>3, <2>5, <2>6, <2>7 DEF SeenInv
<1>3. ASSUME NEW t \in Turn, RotateSession(t) PROVE SeenInv'
  <2>1. /\ pc[t] = "load" /\ doc # NoDoc /\ doc' = NoDoc /\ copy'[t] = doc /\ pc'[t] = "recreate"
        /\ UNCHANGED <<screen, req, work, turn>>
    BY <1>3 DEF RotateSession, TypeOK
  <2> QED
    BY <1>0, <2>1 DEF SeenInv
<1>4. ASSUME NEW t \in Turn, CloseDone(t) PROVE SeenInv'
  <2>1. /\ pc[t] = "close" /\ pc'[t] = "reply" /\ (doc' # NoDoc => doc'.pending = None)
        /\ UNCHANGED <<screen, req, work, copy, turn>>
    BY <1>4, CloseShape
  <2> QED
    BY <1>0, <2>1 DEF SeenInv
<1>5. ASSUME NEW t \in Turn, BeginTurn(t) \/ AppendEvents(t) PROVE SeenInv'
  <2>1. /\ pc[t] \in {"begin", "llm"} /\ pc'[t] = "llm" /\ copy[t].pending = None
        /\ (doc' # NoDoc => doc' = copy[t])
        /\ turn'[t].confirmed = turn[t].confirmed /\ turn'[t].done = turn[t].done
        /\ UNCHANGED <<screen, req, work, copy>>
    BY <1>5, StoreCopyShape
  <2> QED
    BY <1>0, <2>1 DEF SeenInv
<1>6. ASSUME NEW t \in Turn, Works(t) PROVE SeenInv'
  <2>1. /\ pc[t] = "llm" /\ UNCHANGED <<screen, doc, pc>>
        /\ req'[t].reply = req[t].reply /\ req'[t].q = req[t].q
        /\ turn'[t].confirmed = turn[t].confirmed /\ turn'[t].done = turn[t].done
    BY <1>6 DEF Works, Follows
  <2>2. ~turn[t].done
    BY <2>1 DEF ShapeInv
  <2> QED
    BY <1>0, <2>1, <2>2 DEF SeenInv
<1>7. ASSUME NEW t \in Turn, pc[t] \in {"begin", "llm"}, NEW q \in {turn[t].pending, None}, Leave(t, q)
      PROVE  SeenInv'
  <2>1. /\ pc'[t] = "end" /\ turn'[t].confirmed = None /\ ~turn'[t].done
        /\ UNCHANGED <<screen, doc>>
    BY <1>7, LeaveShape
  <2> QED
    BY <1>0, <1>7, <2>1 DEF SeenInv
<1>8. ASSUME NEW t \in Turn, EndTurn(t) PROVE SeenInv'
  <2>1. /\ pc[t] = "end" /\ pc'[t] = "save" /\ copy'[t] = doc
        /\ turn'[t].confirmed = turn[t].confirmed /\ turn'[t].done = turn[t].done
        /\ UNCHANGED <<screen, doc, req, work>>
    BY <1>8, EndShape
  <2> QED
    BY <1>0, <2>1 DEF SeenInv
<1>9. ASSUME NEW t \in Turn, SaveTurn(t) PROVE SeenInv'
  <2>1. /\ pc[t] = "save" /\ pc'[t] = "reply" /\ UNCHANGED <<screen, req, work, copy, turn>>
        /\ (copy[t] = NoDoc /\ doc' = doc) \/ doc' = NoDoc \/ doc'.pending = turn[t].pending
    BY <1>9, SaveShape
  <2>2. copy[t] = doc
    BY <2>1 DEF SeenInv
  <2> QED
    BY <1>0, <2>1, <2>2 DEF SeenInv
<1>10. ASSUME NEW t \in Turn, Deliver(t) \/ Drop(t) \/ Abort(t) PROVE SeenInv'
  <2>1. pc'[t] = "idle" /\ turn'[t] = NewTurn
    BY <1>10, EndedShape DEF Deliver, Drop, Abort
  <2>2. doc' # NoDoc => doc'.pending \in {None, screen'.q}
    <3>1. CASE Deliver(t)
      <4>1. pc[t] = "reply" /\ screen'.q = turn[t].pending /\ doc' = doc
        BY <3>1 DEF Deliver
      <4> QED
        BY <4>1 DEF SeenInv
    <3>2. CASE Abort(t)
      <4>1. pc[t] # "reply" /\ screen' = screen /\ doc' = doc
        BY <3>2 DEF Abort
      <4> QED
        BY <4>1 DEF SeenInv
    <3> QED
      BY <1>10, <3>1, <3>2 DEF Drop
  <2> QED
    BY <1>0, <1>n, <2>1, <2>2 DEF SeenInv
<1>11. ASSUME Edits PROVE SeenInv'
  <2>1. UNCHANGED <<screen, doc, pc, req, work, copy, turn>>
    BY <1>11 DEF Edits, EditCanvas, EditConnection
  <2> QED
    BY <2>1 DEF SeenInv
<1>12. ASSUME ExpireSession PROVE SeenInv'
  <2>1. doc' = NoDoc /\ UNCHANGED <<screen, pc, req, work, copy, turn>> /\ \A t \in Turn : pc[t] = "idle"
    BY <1>12 DEF ExpireSession
  <2> QED
    BY <2>1 DEF SeenInv
<1>13. ASSUME UNCHANGED vars PROVE SeenInv'
  BY <1>13 DEF vars, SeenInv
<1> QED
  BY <1>1, <1>2, <1>3, <1>4, <1>5, <1>6, <1>7, <1>8, <1>9, <1>10, <1>11, <1>12, <1>13, StepCases

------------------------------------------------------------------------------
(* A write test runs on a confirmation *)

\* A step that sends a test is that of the tool test_node().
LEMMA OnlyTestsSend ==
  ASSUME TypeOK, Next, NEW t \in Turn, NEW c \in Slot, Sends(t, c)
  PROVE  \E n \in Node : TestSent(t, c, n)
<1>0. /\ calls \in [Turn -> [Slot -> Call \cup {None}]]
      /\ calls[t][c] = None /\ calls'[t][c] # None /\ calls'[t][c].tool = "test"
  BY DEF TypeOK, Sends
<1> DEFINE Quiet == calls'[t][c] = None \/ calls'[t][c].tool # "test"
<1>s. UNCHANGED calls => Quiet
  BY <1>0
<1>r. ASSUME NEW u \in Turn, NEW d \in Slot, Return(u, d) PROVE Quiet
  BY <1>0, <1>r DEF Return
<1>w. ASSUME NEW u \in Turn, NEW d \in Slot, NEW k, Wait(u, d, k), k.tool # "test" PROVE Quiet
  BY <1>0, <1>w DEF Wait
<1>e. ASSUME NEW u \in Turn, calls' = [calls EXCEPT ![u] = NoCalls] PROVE Quiet
  BY <1>0, <1>e DEF NoCalls
<1>1. ASSUME NEW u \in Turn, Opening(u) PROVE Quiet
  BY <1>1, <1>s DEF Opening, LoadSession, RotateSession, RecreateSession, CloseDone, BeginTurn
<1>2. ASSUME NEW u \in Turn, Editing(u) PROVE Quiet
  <2>1. ASSUME NEW n \in Node, NEW d \in Slot, NEW after \in Node \cup {None}, AddNode(u, d, n, after) PROVE Quiet
    <3>1. Wait(u, d, [tool |-> "add", node |-> n, after |-> after])
      BY <2>1 DEF AddNode
    <3>2. [tool |-> "add", node |-> n, after |-> after].tool # "test"
      OBVIOUS
    <3> QED
      BY <3>1, <3>2, <1>w
  <2>2. ASSUME NEW n \in Node, NEW m \in Node, Connect(u, m, n) PROVE Quiet
    BY <2>2, <1>s DEF Connect
  <2>3. ASSUME NEW n \in Node, RemoveNode(u, n) PROVE Quiet
    BY <2>3, <1>s DEF RemoveNode
  <2>4. ASSUME NEW n \in Node, NEW f \in Field \cup {Blank}, SetFields(u, n, f) PROVE Quiet
    BY <2>4, <1>s DEF SetFields
  <2>5. ASSUME NEW d \in Slot, NodeAdded(u, d) \/ NodeRefused(u, d) PROVE Quiet
    <3>1. Return(u, d)
      BY <2>5 DEF NodeAdded, NodeRefused
    <3> QED
      BY <3>1, <1>r
  <2> QED
    BY <1>2, <2>1, <2>2, <2>3, <2>4, <2>5 DEF Editing
<1>3. ASSUME NEW u \in Turn, Trying(u), Quiet = FALSE PROVE \E n \in Node : TestSent(t, c, n)
  <2>1. ASSUME NEW n \in Node, TestListen(u, n) \/ TestAsks(u, n) PROVE FALSE
    BY <1>3, <2>1, <1>s DEF TestListen, TestAsks
  <2>2. ASSUME NEW n \in Node, NEW d \in Slot, AskModel(u, d, n) PROVE FALSE
    <3>1. UNCHANGED calls \/ Wait(u, d, [tool |-> "card", node |-> n])
      BY <2>2 DEF AskModel
    <3>2. [tool |-> "card", node |-> n].tool # "test"
      OBVIOUS
    <3> QED
      BY <1>3, <3>1, <3>2, <1>s, <1>w
  <2>3. ASSUME NEW n \in Node, NEW d \in Slot, TestSent(u, d, n) PROVE u = t /\ d = c
    <3>1. calls' = [calls EXCEPT ![u][d] = [tool |-> "test", node |-> n, sent |-> work[u].cfg[n]]]
      BY <2>3 DEF TestSent, Wait
    <3> QED
      BY <1>0, <3>1
  <2>4. ASSUME NEW d \in Slot, ChoicesLoaded(u, d) \/ TestPassed(u, d) \/ TestFailed(u, d) \/ TestErrs(u, d)
        PROVE  FALSE
    <3>1. Return(u, d)
      BY <2>4 DEF ChoicesLoaded, TestPassed, TestFailed, TestErrs
    <3> QED
      BY <1>3, <3>1, <1>r
  <2>5. ASSUME NEW d \in Slot, NEW missing \in SUBSET Node, TestCascades(u, d, missing) PROVE FALSE
    <3>1. Return(u, d)
      BY <2>5 DEF TestCascades
    <3> QED
      BY <1>3, <3>1, <1>r
  <2>6. ASSUME Finish(u) PROVE FALSE
    BY <1>3, <2>6, <1>s DEF Finish
  <2> QED
    BY <1>3, <2>1, <2>2, <2>3, <2>4, <2>5, <2>6 DEF Trying
<1>4. ASSUME NEW u \in Turn, Closing(u) PROVE Quiet
  <2>1. CASE AppendEvents(u) \/ EndTurn(u) \/ SaveTurn(u)
    BY <2>1, <1>s DEF AppendEvents, EndTurn, SaveTurn
  <2>2. CASE StopTurn(u) \/ CutTurn(u) \/ FailTurn(u)
    <3>1. calls' = [calls EXCEPT ![u] = NoCalls]
      BY <2>2 DEF StopTurn, CutTurn, FailTurn, Leave
    <3> QED
      BY <3>1, <1>e
  <2> QED
    BY <1>4, <2>1, <2>2 DEF Closing
<1>5. ASSUME NEW u \in Turn, Deliver(u) \/ Drop(u) \/ Abort(u) PROVE Quiet
  <2>1. calls' = [calls EXCEPT ![u] = NoCalls]
    BY <1>5 DEF Deliver, Drop, Abort, Ended
  <2> QED
    BY <2>1, <1>e
<1>6. ASSUME NEW u \in Turn, NEW reply \in Replies, Send(u, reply) PROVE Quiet
  BY <1>6, <1>s DEF Send
<1>7. ASSUME Edits PROVE Quiet
  BY <1>7, <1>s DEF Edits, EditCanvas, EditConnection
<1>8. ASSUME ExpireSession PROVE Quiet
  BY <1>8, <1>s DEF ExpireSession
<1>9. Quiet = FALSE
  BY <1>0
<1> QED
  BY <1>1, <1>2, <1>3, <1>4, <1>5, <1>6, <1>7, <1>8, <1>9 DEF Next

\* A write test is sent on a yes to the question about this node, as it is sent.
LEMMA ConfirmedStep ==
  ASSUME TypeOK, SeenInv, [Next]_vars, NEW t \in Turn, NEW c \in Slot,
         Sends(t, c), Kind[calls'[t][c].node] = "write"
  PROVE  /\ req[t].reply = "yes" /\ req[t].q # None /\ req[t].q.kind = "test"
         /\ req[t].q.node = calls'[t][c].node /\ req[t].q.hash = calls'[t][c].sent
         /\ ~req[t].q.skipOnly
<1>1. Next
  BY DEF Sends, vars
<1>2. PICK n \in Node : TestSent(t, c, n)
  BY <1>1, OnlyTestsSend
<1>3. calls' = [calls EXCEPT ![t][c] = [tool |-> "test", node |-> n, sent |-> work[t].cfg[n]]]
  BY <1>2 DEF TestSent, Wait
<1>4. calls'[t][c].node = n /\ calls'[t][c].sent = work[t].cfg[n]
  BY <1>3 DEF TypeOK
<1>5. Confirmed(t, n)
  BY <1>2, <1>4 DEF TestSent
<1>6. turn[t].confirmed # None /\ turn[t].confirmed.node = n /\ turn[t].confirmed.hash = work[t].cfg[n]
  BY <1>5 DEF Confirmed
<1>7. turn[t].confirmed \in TestQuestion
  BY <1>6 DEF TypeOK, Locals
<1>8. turn[t].confirmed.kind = "test"
  BY <1>7 DEF TestQuestion
<1> QED
  BY <1>4, <1>6, <1>8 DEF SeenInv

------------------------------------------------------------------------------
(* The theorems *)

\* A new conversation has no questions.
LEMMA ConsentInit == Init => OnceInv /\ SeenInv
BY DEF Init, OnceInv, SeenInv, Unused, NewTurn, Number

\* Both invariants hold of conversations without overlapping turns, the second
\* when no response gets lost.
LEMMA OnceAlways == OneTurn => (Spec => []OnceInv)
<1>1. OneTurn /\ IInv /\ OnceInv /\ [Next]_vars => OnceInv'
  BY OnceStep DEF IInv
<1>2. ASSUME OneTurn PROVE Spec => []OnceInv
  <2>1. IInv /\ OnceInv /\ [Next]_vars => OnceInv'
    BY <1>1, <1>2
  <2> QED
    BY <2>1, ConsentInit, Invariance, PTL DEF Spec
<1> QED
  BY <1>2

LEMMA SeenAlways == OneTurn /\ ~Lossy => (Spec => []SeenInv)
<1>1. ASSUME OneTurn, ~Lossy PROVE Spec => []SeenInv
  <2>1. IInv /\ SeenInv /\ [Next]_vars => SeenInv'
    BY <1>1, SeenStep DEF IInv
  <2> QED
    BY <2>1, ConsentInit, Invariance, PTL DEF Spec
<1> QED
  BY <1>1

\* The answer to one question runs at most one write test, also when responses
\* get lost, turns break off and sessions are rotated or expire (tools.py:546-549).
THEOREM OnceAnswered == OneTurn => (Spec => []OneRunPerQuestion)
<1>1. OnceInv => OneRunPerQuestion
  BY DEF OnceInv, OneRunPerQuestion
<1> QED
  BY <1>1, OnceAlways, PTL

\* Between turns the session waits for nothing but the question on the screen.
THEOREM QuestionOnScreen == OneTurn /\ ~Lossy => (Spec => []PendingIsOnScreen)
<1>1. OneTurn /\ SeenInv => PendingIsOnScreen
  BY DEF OneTurn, SeenInv, PendingIsOnScreen
<1>2. ASSUME OneTurn, ~Lossy PROVE Spec => []PendingIsOnScreen
  <2>1. SeenInv => PendingIsOnScreen
    BY <1>1, <1>2
  <2> QED
    BY <2>1, <1>2, SeenAlways, PTL
<1> QED
  BY <1>2

\* A DONE answers the finish question on the screen, about the workflow in the editor.
THEOREM DoneAsAsked == OneTurn /\ ~Lossy => (Spec => []DoneIsWhatWasAsked)
<1>1. SeenInv => DoneIsWhatWasAsked
  BY DEF SeenInv, DoneIsWhatWasAsked
<1> QED
  BY <1>1, SeenAlways, PTL

\* A write test is sent only on a yes to the question on the screen, about this
\* node with the configuration that is sent.
THEOREM ConsentedWrites == OneTurn /\ ~Lossy => (Spec => WritesAreConfirmed)
<1> DEFINE Asked ==
      \A t \in Turn, c \in Slot :
         Sends(t, c) /\ Kind[calls'[t][c].node] = "write" =>
           /\ req[t].reply = "yes"
           /\ req[t].q # None
           /\ req[t].q.kind = "test"
           /\ req[t].q.node = calls'[t][c].node
           /\ req[t].q.hash = calls'[t][c].sent
           /\ ~req[t].q.skipOnly
<1>1. IInv /\ SeenInv /\ [Next]_vars => [Asked]_vars
  BY ConfirmedStep DEF IInv
<1>2. ASSUME OneTurn, ~Lossy PROVE Spec => WritesAreConfirmed
  <2>1. Spec => [][Asked]_vars
    BY <1>1, <1>2, SeenAlways, Invariance, PTL DEF Spec
  <2> QED
    BY <2>1 DEF WritesAreConfirmed
<1> QED
  BY <1>2

================================================================================
