--------------------------- MODULE NodeExecution ---------------------------
(***************************************************************************)
(* One execution of an AI node: run_agent (core/agent.py) and the task it  *)
(* starts under asyncio.wait_for, run_simple_agent or run_react_agent      *)
(* (agents/execute/factory.py).                                            *)
(*                                                                         *)
(* The task opens the connections it needs, creates a session, lets the    *)
(* model work, and unwinds an AsyncExitStack of clean-up calls.  Each of   *)
(* these awaits may raise, may be struck by the time limit or by a         *)
(* cancellation of the request, and the time limit may come while the      *)
(* clean-up of a successful run is under way.                              *)
(***************************************************************************)
EXTENDS Integers, Sequences

CONSTANTS
    MaxServers  \* bound: custom MCP servers of a request

ASSUME ServersAssumption == MaxServers \in Nat

\* What a request asks for: its type, whether it names tools, its output fields
\* (broken: they violate their own rules), tokens and custom servers.
Request ==
    [react : BOOLEAN, tools : BOOLEAN, fields : {"none", "sound", "broken"},
     notion : BOOLEAN, github : BOOLEAN, servers : 0..MaxServers]

VARIABLES
    request,    \* the request
    pc,         \* the await at which run_agent is suspended
    task,       \* the await at which the task under wait_for is suspended
    stack,      \* the clean-up calls still to come, the next one first
    connected,  \* number of tool sets that are ready
    opened,     \* tool sets whose connection may be open
    stored,     \* is the session's document in agent_sessions?
    error,      \* what the task is raising, and whether a 429 is in its chain
    called,     \* has the model called a tool?
    spent,      \* has the model used tokens?
    limit,      \* has the time limit struck?
    reply,      \* the result, once decided
    logs,       \* the results written to execution_logs
    met         \* history: what went wrong on the way

vars == <<request, pc, task, stack, connected, opened, stored, error, called, spent,
          limit, reply, logs, met>>

------------------------------------------------------------------------------
Session == <<"session", 0>>

When(condition, set) == IF condition THEN <<<<set, 0>>>> ELSE <<>>

\* The tool sets in the order in which they are connected.
Toolsets ==
    IF request.react
      THEN When(request.notion, "notion") \o When(request.github, "github")
             \o [i \in 1..request.servers |-> <<"server", i>>]
      ELSE <<>>

\* Main agent with sub-agents, or one agent for all.
Multi == request.react /\ (request.servers > 0 \/ (request.notion /\ request.github))

ToolSet == ({"notion", "github"} \X {0}) \cup ({"server"} \X (1..MaxServers))

Kind == {"none", "cancelled", "timeout", "tool", "other"}

NoError == [kind |-> "none", rate |-> FALSE]

\* What the model, a server or the store may raise.
Raised == [kind : {"timeout", "other"}, rate : BOOLEAN]

Code == {"ok", "refused", "fields", "mismatch", "timeout", "tool", "rate", "failed"}

Result == [code : Code, usage : BOOLEAN]

NoReply == [code |-> "none", usage |-> FALSE]

TypeOK ==
    /\ request \in Request
    /\ pc \in {"guard", "wait", "cancelling", "log", "returned", "raised"}
    /\ task \in {"none", "connect", "create", "run", "unwind", "ended"}
    /\ stack \in Seq(ToolSet \cup {Session})
    /\ connected \in 0..Len(Toolsets)
    /\ opened \subseteq ToolSet
    /\ stored \in BOOLEAN
    /\ error \in [kind : Kind, rate : BOOLEAN]
    /\ called \in BOOLEAN
    /\ spent \in BOOLEAN
    /\ limit \in BOOLEAN
    /\ reply \in Result \cup {NoReply}
    /\ logs \in Seq(Result)
    /\ met \subseteq {"store", "struck", "rate", "timeout", "close"}

Init ==
    /\ request \in Request
    /\ pc = "guard"
    /\ task = "none"
    /\ stack = <<>>
    /\ connected = 0
    /\ opened = {}
    /\ stored = FALSE
    /\ error = NoError
    /\ called = FALSE
    /\ spent = FALSE
    /\ limit = FALSE
    /\ reply = NoReply
    /\ logs = <<>>
    /\ met = {}

------------------------------------------------------------------------------
(* The task *)

outer == <<request, pc, limit, reply, logs>>

work == <<called, spent>>

\* Mutant of Reach: a tool set is put on the stack once it is connected.
ReachLate(k) ==
    /\ connected' = k
    /\ IF k < Len(Toolsets)
         THEN /\ task' = "connect"
              /\ stack' = IF k = 0 THEN stack ELSE <<Toolsets[k]>> \o stack
              /\ opened' = opened \cup {Toolsets[k + 1]}
         ELSE /\ task' = "create"
              /\ stack' = IF k = 0 THEN stack ELSE <<Toolsets[k]>> \o stack
              /\ UNCHANGED opened

\* k tool sets are ready: the next one is put on the stack and connected, or
\* the session is created.
Reach(k) ==
    /\ connected' = k
    /\ IF k < Len(Toolsets)
         THEN /\ task' = "connect"
              /\ stack' = <<Toolsets[k + 1]>> \o stack
              /\ opened' = opened \cup {Toolsets[k + 1]}
         ELSE task' = "create" /\ UNCHANGED <<stack, opened>>

\* The task raises e and leaves the block of the stack.
Leave(e) == task' = "unwind" /\ error' = e

\* What a raised exception leaves in the history.
Noted(e) == met' = met \cup (IF e.rate THEN {"rate"} ELSE {})
                       \cup (IF e.kind = "timeout" THEN {"timeout"} ELSE {})

\* Tools or agents cannot be built: before connecting, or after it.
BuildFails ==
    /\ \/ task = "connect" /\ connected = 0 /\ request.tools /\ ~Multi
       \/ task = "create"
    /\ Leave([kind |-> "other", rate |-> FALSE])
    /\ UNCHANGED <<stack, connected, opened, stored, work, met, outer>>

ConnectTools ==
    /\ task = "connect"
    /\ Reach(connected + 1)
    /\ UNCHANGED <<stored, error, work, met, outer>>

\* Without its server, GitHub falls back to local tools; the others fail.
ConnectFails ==
    /\ task = "connect"
    /\ IF Toolsets[connected + 1][1] = "github"
         THEN Reach(connected + 1) /\ UNCHANGED <<error, met>>
         ELSE \E e \in Raised : Leave(e) /\ Noted(e) /\ UNCHANGED <<stack, connected, opened>>
    /\ UNCHANGED <<stored, work, outer>>

\* Mutant of CreateSession: the session is deleted after the connections are closed.
CreateSessionLast ==
    /\ task = "create"
    /\ task' = "run"
    /\ stored' = TRUE
    /\ stack' = stack \o <<Session>>
    /\ UNCHANGED <<connected, opened, error, work, met, outer>>

CreateSession ==
    /\ task = "create"
    /\ task' = "run"
    /\ stored' = TRUE
    /\ stack' = <<Session>> \o stack
    /\ UNCHANGED <<connected, opened, error, work, met, outer>>

\* The store raises; the document may have been written.
CreateFails ==
    /\ task = "create"
    /\ Leave([kind |-> "other", rate |-> FALSE])
    /\ stored' \in BOOLEAN
    /\ met' = met \cup {"store"}
    /\ UNCHANGED <<stack, connected, opened, work, outer>>

\* The model answers, with or without a call of a tool; the simple agent has
\* the tools of the request only.
ModelAnswers ==
    /\ task = "run"
    /\ spent' = TRUE
    /\ called' \in IF request.tools \/ request.react THEN {called, TRUE} ELSE {called}
    /\ UNCHANGED <<task, stack, connected, opened, stored, error, met, outer>>

\* _assert_tool_called, made by the react agents.
Idle == request.react /\ request.tools /\ ~called

RunEnds ==
    /\ task = "run" /\ spent
    /\ Leave(IF Idle THEN [kind |-> "tool", rate |-> FALSE] ELSE NoError)
    /\ UNCHANGED <<stack, connected, opened, stored, work, met, outer>>

\* The model, a tool or the store raises, or the limit of model calls is reached.
RunFails ==
    /\ task = "run"
    /\ \E e \in Raised : Leave(e) /\ Noted(e)
    /\ UNCHANGED <<stack, connected, opened, stored, work, outer>>

\* _safe_delete_session: an error of the store is ignored.
DeleteSession ==
    /\ task = "unwind" /\ stack # <<>> /\ Head(stack) = Session
    /\ stack' = Tail(stack)
    /\ \/ stored' = FALSE /\ UNCHANGED met
       \/ stored' \in {stored, FALSE} /\ met' = met \cup {"store"}
    /\ UNCHANGED <<task, connected, opened, error, work, outer>>

\* Mutant of Chained: the exception that was in flight is lost.
Replaced(e) == e

\* An exception e of a clean-up call replaces the one in flight, which stays
\* in its chain.
Chained(e) == [kind |-> e.kind, rate |-> e.rate \/ error.rate]

\* _safe_close_mcp
CloseTools ==
    /\ task = "unwind" /\ stack # <<>> /\ Head(stack) # Session
    /\ stack' = Tail(stack)
    /\ opened' = opened \ {Head(stack)}
    /\ \/ UNCHANGED <<error, met>>
       \/ \E e \in Raised :
            /\ error' = Chained(e)
            /\ met' = met \cup {"close"} \cup (IF e.rate THEN {"rate"} ELSE {})
                          \cup (IF e.kind = "timeout" THEN {"timeout"} ELSE {})
    /\ UNCHANGED <<task, connected, stored, work, outer>>

TaskEnds ==
    /\ task = "unwind" /\ stack = <<>>
    /\ task' = "ended"
    /\ UNCHANGED <<stack, connected, opened, stored, error, work, met, outer>>

Live == task \in {"connect", "create", "run", "unwind"}

\* CancelledError is raised at the task's await, also in a clean-up call; the
\* rest of the stack is unwound.  A call of the store that is cut may be applied.
Struck ==
    /\ met' = met \cup {"struck"}
    /\ error' = [kind |-> "cancelled", rate |-> error.rate]
    /\ \/ /\ task # "unwind"
          /\ task' = "unwind"
          /\ stored' \in IF task = "create" THEN BOOLEAN ELSE {stored}
          /\ UNCHANGED <<stack, opened>>
       \/ /\ task = "unwind" /\ stack # <<>>
          /\ stack' = Tail(stack)
          /\ opened' = opened \ {Head(stack)}
          /\ stored' \in IF Head(stack) = Session THEN {stored, FALSE} ELSE {stored}
          /\ UNCHANGED task

------------------------------------------------------------------------------
(* run_agent *)

\* Mutant of Decide: a branch that forgets to set the result.
DecideNothing(code, usage) == UNCHANGED reply /\ pc' = "log"

Decide(code, usage) == reply' = [code |-> code, usage |-> usage] /\ pc' = "log"

\* ExecutionGuard rejects the request.
Refuse ==
    /\ pc = "guard"
    /\ Decide("refused", FALSE)
    /\ UNCHANGED <<request, task, stack, connected, opened, stored, error, work, limit, logs, met>>

\* validate_output_fields
FieldsAllowed ==
    request.fields = "sound" => ~request.tools /\ ~request.react

RejectFields ==
    /\ pc = "guard"
    /\ request.fields = "broken" \/ ~FieldsAllowed
    /\ Decide("fields", FALSE)
    /\ UNCHANGED <<request, task, stack, connected, opened, stored, error, work, limit, logs, met>>

\* The request passes, and the task starts.
Launch ==
    /\ pc = "guard"
    /\ request.fields # "broken" /\ FieldsAllowed
    /\ pc' = "wait"
    /\ Reach(0)
    /\ UNCHANGED <<request, stored, error, work, limit, reply, logs, met>>

\* Mutant of TimeOut: only the model's work is limited.
TimeOutOfRun ==
    /\ pc = "wait" /\ task = "run" /\ ~limit
    /\ limit' = TRUE
    /\ Struck
    /\ UNCHANGED <<request, pc, connected, work, reply, logs>>

\* wait_for's limit: the task is cancelled, and awaited.
TimeOut ==
    /\ pc = "wait" /\ Live /\ ~limit
    /\ limit' = TRUE
    /\ Struck
    /\ UNCHANGED <<request, pc, connected, work, reply, logs>>

Succeed ==
    /\ pc = "wait" /\ task = "ended" /\ error.kind = "none"
    /\ \/ Decide("ok", TRUE)
       \/ request.fields = "sound" /\ Decide("mismatch", TRUE)
    /\ UNCHANGED <<request, task, stack, connected, opened, stored, error, work, limit, logs, met>>

\* The order of the except clauses; is_rate_limit_error walks the chain.
CodeOf ==
    CASE error.kind \in {"cancelled", "timeout"} -> "timeout"
      [] error.kind = "tool" -> "tool"
      [] error.kind = "other" /\ error.rate -> "rate"
      [] OTHER -> "failed"

Fail ==
    /\ pc = "wait" /\ task = "ended" /\ error.kind # "none"
    /\ Decide(CodeOf, FALSE)
    /\ UNCHANGED <<request, task, stack, connected, opened, stored, error, work, limit, logs, met>>

\* save_execution_log; a failure is ignored, and the entry may be there.
SaveLog ==
    /\ pc = "log"
    /\ pc' = "returned"
    /\ \/ logs' = Append(logs, reply) /\ UNCHANGED met
       \/ logs' \in {logs, Append(logs, reply)} /\ met' = met \cup {"store"}
    /\ UNCHANGED <<request, task, stack, connected, opened, stored, error, work, limit, reply>>

\* The request is cancelled while run_agent waits: for the guard or the log...
Cancel ==
    /\ pc \in {"guard", "log"}
    /\ pc' = "raised"
    /\ logs' \in IF pc = "log" THEN {logs, Append(logs, reply)} ELSE {logs}
    /\ UNCHANGED <<request, task, stack, connected, opened, stored, error, work, limit, reply, met>>

\* ... or for the task, which is cancelled and awaited.  A cancellation that
\* finds the task ended is swallowed by wait_for.
CancelTask ==
    /\ pc = "wait" /\ Live /\ ~limit
    /\ pc' = "cancelling"
    /\ Struck
    /\ UNCHANGED <<request, connected, work, limit, reply, logs>>

\* Once the task has been cancelled, a cancellation ends the waiting for it: its
\* clean-up goes on alone.
Abandon ==
    /\ pc = "cancelling" \/ (pc = "wait" /\ limit)
    /\ pc' = "raised"
    /\ UNCHANGED <<request, task, stack, connected, opened, stored, error, work, limit, reply, logs, met>>

Cancelled ==
    /\ pc = "cancelling" /\ task = "ended"
    /\ pc' = "raised"
    /\ UNCHANGED <<request, task, stack, connected, opened, stored, error, work, limit, reply, logs, met>>

------------------------------------------------------------------------------
Unwinding == DeleteSession \/ CloseTools \/ TaskEnds

TaskStep ==
    \/ BuildFails \/ ConnectTools \/ ConnectFails \/ CreateSession \/ CreateFails
    \/ ModelAnswers \/ RunEnds \/ RunFails \/ Unwinding

Deciding == Refuse \/ RejectFields \/ Launch \/ Succeed \/ Fail

Cancelling == Cancel \/ CancelTask \/ Abandon \/ Cancelled

Next == TaskStep \/ Deciding \/ TimeOut \/ SaveLog \/ Cancelling

\* The guard, the store and the closing of a connection come to an end, and the
\* clock runs; the model and the servers may keep a run waiting.
Fairness ==
    /\ WF_vars(Deciding)
    /\ WF_vars(TimeOut)
    /\ WF_vars(Unwinding)
    /\ WF_vars(SaveLog)
    /\ WF_vars(Cancelled)

Spec == Init /\ [][Next]_vars /\ Fairness

------------------------------------------------------------------------------
(* Properties *)

Decided == reply # NoReply

\* However a task ends (an error while connecting, in the model or in another
\* clean-up call, the time limit, a cancellation), each connection has been
\* told to close and the session is deleted; its document stays only when the
\* store failed or was cut (factory.py:78-87, 163-165, 199, 278, 307, 369).
NothingLeft ==
    task = "ended" =>
        /\ opened = {}
        /\ stored => met \cap {"store", "struck"} # {}

\* A connection is not closed while the model may use it, and the session is
\* deleted before the connections are closed (the order of the stack).
OpenWhileNeeded ==
    task \in {"create", "run"} \/ (stack # <<>> /\ Head(stack) = Session) =>
        \A i \in 1..Len(Toolsets) : Toolsets[i] \in opened

\* A run that is reported as a success was not cut by the time limit, raised
\* nothing in its clean-up, and called a tool if it is a react node that names
\* some (agent.py:181-203, factory.py:34-48).
SuccessIsEarned ==
    reply.code = "ok" =>
        /\ ~limit /\ "close" \notin met
        /\ request.react /\ request.tools => called

\* A run that its limit has cut is reported as a time-out, unless closing a
\* connection raised something after it (agent.py:228-238).
TimeOutIsReported ==
    Decided /\ limit /\ "close" \notin met => reply.code = "timeout"

\* A 429 is reported as RATE_LIMITED, so that the BE tries again, also when the
\* clean-up raises something else after it (common/exception.py:59-93).
RateLimitIsReported ==
    Decided /\ "rate" \in met /\ met \cap {"timeout", "struck"} = {} =>
        reply.code = "rate"

\* What is returned tells what happened: a success is one, a run cut by its
\* limit is a time-out, and a 429 stays a 429 through the clean-up of the stack.
ReportIsHonest == SuccessIsEarned /\ TimeOutIsReported /\ RateLimitIsReported

\* A request that must not be tried again, because it was refused or its output
\* fields are invalid, has used no tokens, called no tool and opened nothing
\* (agent.py:114-140, 205-212).
RefusedIsHarmless ==
    reply.code \in {"refused", "fields"} => task = "none" /\ ~spent /\ ~stored /\ opened = {}

\* An execution is logged once, with the result that it returns; the entry is
\* missing only when the store failed (agent.py:124-140, 261-286).
LoggedOnce ==
    /\ Len(logs) <= 1
    /\ \A i \in 1..Len(logs) : logs[i] = reply
    /\ pc = "returned" => logs # <<>> \/ "store" \in met

\* Every execution ends, also when the model or a server never answers, and its
\* clean-up is finished then or later.
EveryRunEnds == <>(pc \in {"returned", "raised"} /\ ~Live)

==============================================================================
