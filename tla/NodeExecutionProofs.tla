------------------------ MODULE NodeExecutionProofs ------------------------
(***************************************************************************)
(* Theorems about NodeExecution, for requests with any number of servers.  *)
(***************************************************************************)
EXTENDS NodeExecution, TLAPS

------------------------------------------------------------------------------
(* The inductive invariant *)

Early == {"none", "connect", "create", "run"}

\* What run_agent waits for, and what it has decided, fit the task.
StageInv ==
    /\ pc = "guard" => task = "none"
    /\ pc \in {"wait", "cancelling"} => task # "none"
    /\ pc \in {"guard", "wait", "cancelling"} <=> reply = NoReply /\ pc # "raised"
    /\ pc \in {"log", "returned"} => task \in {"none", "ended"}
    /\ reply # NoReply => task \in {"none", "ended"}
    /\ pc \in {"guard", "wait", "cancelling", "log"} => logs = <<>>

\* A task that has not started has done nothing.
FreshInv ==
    task = "none" => /\ stack = <<>> /\ opened = {} /\ ~stored /\ ~spent /\ ~limit
                     /\ error = NoError

\* What may be open is on the stack, and so is a stored session that no call of
\* the store has failed on.
StackInv ==
    /\ \A s \in opened : \E i \in 1..Len(stack) : stack[i] = s
    /\ stored => met \cap {"store", "struck"} # {} \/ \E i \in 1..Len(stack) : stack[i] = Session
    /\ task = "ended" => stack = <<>>

\* Until it raises or is cut, a task is clean; an exception stays in the chain.
ErrorInv ==
    /\ task \in Early => error = NoError /\ ~limit /\ met \subseteq {"store"}
    /\ task \in {"unwind", "ended"} /\ error.kind = "none" =>
         /\ ~limit /\ "close" \notin met /\ "rate" \notin met
         /\ request.react /\ request.tools => called
    /\ limit /\ "close" \notin met => error.kind = "cancelled"
    /\ "rate" \in met /\ met \cap {"timeout", "struck"} = {} =>
         error.kind = "other" /\ error.rate

\* The session is the first to go, and goes while everything is still open.
OrderInv ==
    /\ task \in {"connect", "create"} => \A i \in 1..Len(stack) : stack[i] # Session
    /\ \A i \in 1..Len(stack) : stack[i] = Session =>
         i = 1 /\ \A j \in 1..Len(Toolsets) : Toolsets[j] \in opened
    /\ task = "connect" => connected < Len(Toolsets) /\ Toolsets[connected + 1] \in opened
    /\ task \in {"connect", "create", "run"} => \A j \in 1..connected : Toolsets[j] \in opened
    /\ task \in {"create", "run"} => connected = Len(Toolsets)

IInv ==
    /\ TypeOK
    /\ StageInv
    /\ FreshInv
    /\ StackInv
    /\ ErrorInv
    /\ OrderInv
    /\ SuccessIsEarned
    /\ TimeOutIsReported
    /\ RateLimitIsReported
    /\ RefusedIsHarmless
    /\ LoggedOnce

------------------------------------------------------------------------------
(* Sequences used as stacks, and the tool sets *)

\* What pushing an element does to a stack.
LEMMA Push ==
    ASSUME NEW S, NEW s \in Seq(S), NEW x \in S
    PROVE  /\ <<x>> \o s \in Seq(S)
           /\ Len(<<x>> \o s) = Len(s) + 1
           /\ (<<x>> \o s)[1] = x
           /\ \A i \in 1..Len(s) : (<<x>> \o s)[i + 1] = s[i]
           /\ \A i \in 2..(Len(s) + 1) : (<<x>> \o s)[i] = s[i - 1]
  OBVIOUS

\* What popping does.
LEMMA Pop ==
    ASSUME NEW S, NEW s \in Seq(S), s # <<>>
    PROVE  /\ Tail(s) \in Seq(S)
           /\ Len(s) >= 1
           /\ Len(Tail(s)) = Len(s) - 1
           /\ Head(s) = s[1]
           /\ \A i \in 1..(Len(s) - 1) : Tail(s)[i] = s[i + 1]
  OBVIOUS

\* The tool sets of a request are a sequence of tool sets, none of them the session.
LEMMA ToolsetsType ==
    ASSUME request \in Request
    PROVE  Toolsets \in Seq(ToolSet)
<1>1. request.servers \in Nat /\ request.servers <= MaxServers
  BY ServersAssumption DEF Request
<1>2. [i \in 1..request.servers |-> <<"server", i>>] \in Seq(ToolSet)
  BY <1>1, ServersAssumption DEF ToolSet
<1>3. When(request.notion, "notion") \in Seq(ToolSet) /\ When(request.github, "github") \in Seq(ToolSet)
  BY DEF When, ToolSet
<1> QED
  BY <1>2, <1>3 DEF Toolsets

LEMMA SessionApart == Session \notin ToolSet
  BY DEF Session, ToolSet

\* The request does not change.
LEMMA SameRequest ==
    ASSUME [Next]_vars
    PROVE  request' = request /\ Toolsets' = Toolsets
<1>1. request' = request
  BY DEF Next, TaskStep, Unwinding, Deciding, Cancelling, vars, outer, work, BuildFails,
         ConnectTools, ConnectFails, CreateSession, CreateFails, ModelAnswers, RunEnds, RunFails,
         DeleteSession, CloseTools, TaskEnds, Refuse, RejectFields, Launch, TimeOut, Succeed,
         Fail, SaveLog, Cancel, CancelTask, Abandon, Cancelled
<1> QED
  BY <1>1 DEF Toolsets, When

\* The clean-up calls on the stack.
Calls == ToolSet \cup {Session}

LEMMA PopStack ==
    ASSUME stack \in Seq(Calls), stack # <<>>
    PROVE  /\ Tail(stack) \in Seq(Calls)
           /\ Len(stack) \in Nat /\ Len(stack) >= 1
           /\ Len(Tail(stack)) = Len(stack) - 1
           /\ Head(stack) = stack[1]
           /\ \A i \in 1..Len(Tail(stack)) : Tail(stack)[i] = stack[i + 1]
  BY Pop

\* Reach puts the next tool set on the stack, or leaves the stack as it is.
LEMMA ReachStack ==
    ASSUME TypeOK, NEW k \in 0..Len(Toolsets), Reach(k)
    PROVE  /\ connected' = k
           /\ \/ /\ k < Len(Toolsets) /\ task' = "connect"
                 /\ Toolsets[k + 1] \in ToolSet
                 /\ stack' \in Seq(Calls)
                 /\ Len(stack') = Len(stack) + 1
                 /\ stack'[1] = Toolsets[k + 1]
                 /\ \A i \in 1..Len(stack) : stack'[i + 1] = stack[i]
                 /\ \A i \in 2..Len(stack') : stack'[i] = stack[i - 1]
                 /\ opened' = opened \cup {Toolsets[k + 1]}
              \/ /\ k = Len(Toolsets) /\ task' = "create"
                 /\ stack' = stack /\ opened' = opened
<1>1. Toolsets \in Seq(ToolSet) /\ Len(Toolsets) \in Nat
  BY ToolsetsType DEF TypeOK
<1>2. CASE k < Len(Toolsets)
  <2>1. k + 1 \in 1..Len(Toolsets)
    BY <1>1, <1>2
  <2>2. Toolsets[k + 1] \in ToolSet
    BY <1>1, <2>1
  <2>3. stack \in Seq(Calls)
    BY DEF TypeOK, Calls
  <2>4. Toolsets[k + 1] \in Calls
    BY <2>2 DEF Calls
  <2>5. stack' = <<Toolsets[k + 1]>> \o stack
    BY <1>2 DEF Reach
  <2>6. /\ stack' \in Seq(Calls)
        /\ Len(stack') = Len(stack) + 1
        /\ stack'[1] = Toolsets[k + 1]
        /\ \A i \in 1..Len(stack) : stack'[i + 1] = stack[i]
        /\ \A i \in 2..(Len(stack) + 1) : stack'[i] = stack[i - 1]
    BY <2>3, <2>4, <2>5, Push
  <2> QED
    BY <1>2, <2>2, <2>6 DEF Reach
<1>3. CASE k = Len(Toolsets)
  BY <1>1, <1>3 DEF Reach
<1> QED
  BY <1>1, <1>2, <1>3

\* The same facts about the creation of the session.
LEMMA SessionStack ==
    ASSUME TypeOK, CreateSession
    PROVE  /\ stack' \in Seq(Calls)
           /\ Len(stack') = Len(stack) + 1
           /\ stack'[1] = Session
           /\ \A i \in 1..Len(stack) : stack'[i + 1] = stack[i]
           /\ \A i \in 2..(Len(stack) + 1) : stack'[i] = stack[i - 1]
<1>1. stack \in Seq(Calls) /\ Session \in Calls
  BY DEF TypeOK, Calls
<1>2. stack' = <<Session>> \o stack
  BY DEF CreateSession
<1> QED
  BY <1>1, <1>2, Push

LEMMA ReachType ==
    ASSUME TypeOK, NEW k \in 0..Len(Toolsets), Reach(k), request' = request, Toolsets' = Toolsets
    PROVE  /\ connected' \in 0..Len(Toolsets')
           /\ task' \in {"connect", "create"}
           /\ stack' \in Seq(Calls)
           /\ opened' \subseteq ToolSet
<1>1. connected' \in 0..Len(Toolsets')
  BY DEF Reach
<1> QED
  BY <1>1, ReachStack DEF TypeOK, Calls

\* Being cut keeps the types, whatever the task was waiting for.
LEMMA StruckType ==
    ASSUME TypeOK, Struck
    PROVE  /\ met' \subseteq {"store", "struck", "rate", "timeout", "close"}
           /\ error' \in [kind : Kind, rate : BOOLEAN]
           /\ task' = "unwind"
           /\ stack' \in Seq(Calls)
           /\ opened' \subseteq ToolSet
           /\ stored' \in BOOLEAN
<1>1. stack \in Seq(Calls)
  BY DEF TypeOK, Calls
<1>2. met' \subseteq {"store", "struck", "rate", "timeout", "close"}
  BY DEF TypeOK, Struck
<1>3. error' \in [kind : Kind, rate : BOOLEAN]
  BY DEF TypeOK, Struck, Kind
<1>4. task' = "unwind"
  BY DEF Struck
<1>5. stack' \in Seq(Calls) /\ opened' \subseteq ToolSet
  BY <1>1, PopStack DEF Struck, TypeOK
<1>6. stored' \in BOOLEAN
  BY DEF Struck, TypeOK
<1> QED
  BY <1>2, <1>3, <1>4, <1>5, <1>6

------------------------------------------------------------------------------
(* Each step preserves each part *)

\* The types.
LEMMA StepTypeOK ==
    ASSUME TypeOK, StageInv, OrderInv, [Next]_vars
    PROVE  TypeOK'
<1>1. CASE BuildFails
  BY <1>1, SameRequest
     DEF BuildFails, Leave, outer, work, TypeOK, Kind, NoError, Code, Result, NoReply
<1>2. CASE ConnectTools
  <2>1. connected + 1 \in 0..Len(Toolsets)
    BY <1>2 DEF ConnectTools, OrderInv, TypeOK
  <2> QED
    BY <1>2, <2>1, ReachType, SameRequest DEF TypeOK, ConnectTools, outer, work, Calls
<1>3. CASE ConnectFails
  <2>1. connected + 1 \in 0..Len(Toolsets)
    BY <1>3 DEF ConnectFails, OrderInv, TypeOK
  <2>2. CASE Reach(connected + 1) /\ UNCHANGED <<error, met>>
    BY <1>3, <2>1, <2>2, ReachType, SameRequest DEF TypeOK, ConnectFails, outer, work, Calls
  <2>3. CASE \E e \in Raised : Leave(e) /\ Noted(e) /\ UNCHANGED <<stack, connected, opened>>
    BY <1>3, <2>3, SameRequest
       DEF TypeOK, ConnectFails, outer, work, Raised, Leave, Noted, Kind
  <2> QED
    BY <1>3, <2>2, <2>3 DEF ConnectFails
<1>4. CASE CreateSession
  <2>1. stack' \in Seq(Calls)
    BY <1>4, SessionStack
  <2> QED
    BY <1>4, <2>1, SameRequest DEF TypeOK, CreateSession, outer, work, Calls
<1>5. CASE CreateFails
  BY <1>5, SameRequest
     DEF CreateFails, Leave, outer, work, TypeOK, Kind, NoError, Code, Result, NoReply
<1>6. CASE ModelAnswers
  <2>1. called' \in BOOLEAN
    BY <1>6, Zenon DEF TypeOK, ModelAnswers
  <2>2. spent' \in BOOLEAN
    BY <1>6 DEF ModelAnswers
  <2> QED
    BY <1>6, <2>1, <2>2, SameRequest DEF TypeOK, ModelAnswers, outer
<1>7. CASE RunEnds
  BY <1>7, SameRequest
     DEF RunEnds, Leave, Idle, NoError, outer, work, TypeOK, Kind, Code, Result, NoReply
<1>8. CASE RunFails
  BY <1>8, SameRequest
     DEF RunFails, Leave, Raised, Noted, outer, work, TypeOK, Kind, NoError, Code, Result,
         NoReply
<1>9. CASE DeleteSession
  <2>1. stack' \in Seq(Calls)
    BY <1>9, PopStack DEF TypeOK, DeleteSession, Calls
  <2>2. stored' \in BOOLEAN
    BY <1>9 DEF TypeOK, DeleteSession
  <2> QED
    BY <1>9, <2>1, <2>2, SameRequest DEF TypeOK, DeleteSession, outer, work, Calls
<1>10. CASE CloseTools
  <2>1. stack' \in Seq(Calls)
    BY <1>10, PopStack DEF TypeOK, CloseTools, Calls
  <2>2. error' \in [kind : Kind, rate : BOOLEAN]
    BY <1>10 DEF TypeOK, CloseTools, Chained, Raised, Kind
  <2>3. met' \subseteq {"store", "struck", "rate", "timeout", "close"}
    BY <1>10 DEF TypeOK, CloseTools
  <2>4. opened' \subseteq ToolSet
    BY <1>10 DEF TypeOK, CloseTools
  <2> QED
    BY <1>10, <2>1, <2>2, <2>3, <2>4, SameRequest DEF TypeOK, CloseTools, outer, work, Calls
<1>11. CASE TaskEnds
  BY <1>11, SameRequest
     DEF TaskEnds, outer, work, TypeOK, Kind, NoError, Code, Result, NoReply
<1>12. CASE Refuse
  BY <1>12, SameRequest
     DEF Refuse, Decide, outer, work, TypeOK, Kind, NoError, Code, Result, NoReply
<1>13. CASE RejectFields
  BY <1>13, SameRequest
     DEF RejectFields, Decide, outer, work, TypeOK, Kind, NoError, Code, Result, NoReply
<1>14. CASE Launch
  <2>1. 0 \in 0..Len(Toolsets)
    BY ToolsetsType DEF TypeOK
  <2> QED
    BY <1>14, <2>1, ReachType, SameRequest DEF TypeOK, Launch, work, Calls
<1>15. CASE TimeOut
  <2>1. Struck /\ UNCHANGED <<request, connected, called, spent, reply, logs>>
    BY <1>15 DEF TimeOut, work
  <2>2. limit' \in BOOLEAN /\ pc' \in {"wait", "cancelling"}
    BY <1>15 DEF TimeOut, TypeOK
  <2> QED
    BY <2>1, <2>2, StruckType, SameRequest DEF TypeOK, Calls
<1>16. CASE Succeed
  <2>1. reply' \in Result /\ pc' = "log"
    <3>1. CASE Decide("ok", TRUE)
      BY <3>1 DEF Decide, Result, Code
    <3>2. CASE Decide("mismatch", TRUE)
      BY <3>2 DEF Decide, Result, Code
    <3> QED
      BY <1>16, <3>1, <3>2 DEF Succeed
  <2> QED
    BY <1>16, <2>1, SameRequest DEF TypeOK, Succeed, work
<1>17. CASE Fail
  BY <1>17, SameRequest
     DEF Fail, Decide, CodeOf, outer, work, TypeOK, Kind, NoError, Code, Result, NoReply
<1>18. CASE SaveLog
  <2>1. reply \in Result
    BY <1>18 DEF SaveLog, StageInv, TypeOK
  <2>2. Append(logs, reply) \in Seq(Result)
    BY <2>1 DEF TypeOK
  <2>3. logs' \in Seq(Result)
    BY <1>18, <2>2 DEF SaveLog, TypeOK
  <2>4. met' \subseteq {"store", "struck", "rate", "timeout", "close"}
    BY <1>18 DEF TypeOK, SaveLog
  <2> QED
    BY <1>18, <2>3, <2>4, SameRequest DEF TypeOK, SaveLog, work
<1>19. CASE Cancel
  <2>1. logs' \in Seq(Result)
    <3>1. CASE pc = "log"
      <4>1. Append(logs, reply) \in Seq(Result)
        BY <3>1 DEF StageInv, TypeOK
      <4> QED
        BY <1>19, <3>1, <4>1 DEF Cancel, TypeOK
    <3>2. CASE pc # "log"
      BY <1>19, <3>2 DEF Cancel, TypeOK
    <3> QED
      BY <3>1, <3>2
  <2> QED
    BY <1>19, <2>1, SameRequest DEF TypeOK, Cancel, work
<1>20. CASE CancelTask
  <2>1. Struck /\ UNCHANGED <<request, connected, called, spent, reply, logs>>
    BY <1>20 DEF CancelTask, work
  <2>2. limit' \in BOOLEAN /\ pc' \in {"wait", "cancelling"}
    BY <1>20 DEF CancelTask, TypeOK
  <2> QED
    BY <2>1, <2>2, StruckType, SameRequest DEF TypeOK, Calls
<1>21. CASE Abandon
  BY <1>21, SameRequest
     DEF Abandon, outer, work, TypeOK, Kind, NoError, Code, Result, NoReply
<1>22. CASE Cancelled
  BY <1>22, SameRequest
     DEF Cancelled, outer, work, TypeOK, Kind, NoError, Code, Result, NoReply
<1>23. CASE UNCHANGED vars
  BY <1>23, SameRequest
     DEF vars, TypeOK, Kind, NoError, Code, Result, NoReply
<1> QED
  BY <1>1, <1>2, <1>3, <1>4, <1>5, <1>6, <1>7, <1>8, <1>9, <1>10, <1>11, <1>12, <1>13, <1>14,
     <1>15, <1>16, <1>17, <1>18, <1>19, <1>20, <1>21, <1>22, <1>23
     DEF Next, TaskStep, Unwinding, Deciding, Cancelling

\* The places of run_agent and of its task.
LEMMA StepStage ==
    ASSUME IInv, [Next]_vars
    PROVE  StageInv'
<1>1. TypeOK /\ TypeOK'
  BY StepTypeOK DEF IInv
<1>2. CASE BuildFails
  BY <1>2, <1>1, SameRequest
     DEF BuildFails, Leave, outer, work, IInv, StageInv, NoReply, Early, LoggedOnce
<1>3. CASE ConnectTools
  BY <1>3, <1>1, SameRequest
     DEF ConnectTools, Reach, outer, work, IInv, StageInv, NoReply, Early, LoggedOnce
<1>4. CASE ConnectFails
  BY <1>4, <1>1, SameRequest
     DEF ConnectFails, Reach, Leave, Raised, Noted, outer, work, IInv, StageInv, NoReply,
         Early, LoggedOnce
<1>5. CASE CreateSession
  BY <1>5, <1>1, SameRequest
     DEF CreateSession, outer, work, IInv, StageInv, NoReply, Early, LoggedOnce
<1>6. CASE CreateFails
  BY <1>6, <1>1, SameRequest
     DEF CreateFails, Leave, outer, work, IInv, StageInv, NoReply, Early, LoggedOnce
<1>7. CASE ModelAnswers
  BY <1>7, <1>1, SameRequest
     DEF ModelAnswers, outer, work, IInv, StageInv, NoReply, Early, LoggedOnce
<1>8. CASE RunEnds
  BY <1>8, <1>1, SameRequest
     DEF RunEnds, Leave, Idle, NoError, outer, work, IInv, StageInv, NoReply, Early, LoggedOnce
<1>9. CASE RunFails
  BY <1>9, <1>1, SameRequest
     DEF RunFails, Leave, Raised, Noted, outer, work, IInv, StageInv, NoReply, Early,
         LoggedOnce
<1>10. CASE DeleteSession
  BY <1>10, <1>1, SameRequest
     DEF DeleteSession, outer, work, IInv, StageInv, NoReply, Early, LoggedOnce
<1>11. CASE CloseTools
  BY <1>11, <1>1, SameRequest
     DEF CloseTools, Raised, Chained, outer, work, IInv, StageInv, NoReply, Early, LoggedOnce
<1>12. CASE TaskEnds
  BY <1>12, <1>1, SameRequest
     DEF TaskEnds, outer, work, IInv, StageInv, NoReply, Early, LoggedOnce
<1>13. CASE Refuse
  BY <1>13, <1>1, SameRequest
     DEF Refuse, Decide, outer, work, IInv, StageInv, NoReply, Early, LoggedOnce
<1>14. CASE RejectFields
  BY <1>14, <1>1, SameRequest
     DEF RejectFields, Decide, outer, work, IInv, StageInv, NoReply, Early, LoggedOnce
<1>15. CASE Launch
  BY <1>15, <1>1, SameRequest
     DEF Launch, Reach, FieldsAllowed, outer, work, IInv, StageInv, NoReply, Early, LoggedOnce
<1>16. CASE TimeOut
  BY <1>16, <1>1, SameRequest
     DEF TimeOut, Struck, Live, outer, work, IInv, StageInv, NoReply, Early, LoggedOnce
<1>17. CASE Succeed
  BY <1>17, <1>1, SameRequest
     DEF Succeed, Decide, outer, work, IInv, StageInv, NoReply, Early, LoggedOnce
<1>18. CASE Fail
  BY <1>18, <1>1, SameRequest
     DEF Fail, Decide, CodeOf, outer, work, IInv, StageInv, NoReply, Early, LoggedOnce
<1>19. CASE SaveLog
  BY <1>19, <1>1, SameRequest
     DEF SaveLog, outer, work, IInv, StageInv, NoReply, Early, LoggedOnce
<1>20. CASE Cancel
  BY <1>20, <1>1, SameRequest
     DEF Cancel, outer, work, IInv, StageInv, NoReply, Early, LoggedOnce
<1>21. CASE CancelTask
  BY <1>21, <1>1, SameRequest
     DEF CancelTask, Struck, Live, outer, work, IInv, StageInv, NoReply, Early, LoggedOnce
<1>22. CASE Abandon
  BY <1>22, <1>1, SameRequest
     DEF Abandon, outer, work, IInv, StageInv, NoReply, Early, LoggedOnce
<1>23. CASE Cancelled
  BY <1>23, <1>1, SameRequest
     DEF Cancelled, outer, work, IInv, StageInv, NoReply, Early, LoggedOnce
<1>24. CASE UNCHANGED vars
  BY <1>24, <1>1, SameRequest
     DEF vars, IInv, StageInv, NoReply, Early, LoggedOnce
<1> QED
  BY <1>2, <1>3, <1>4, <1>5, <1>6, <1>7, <1>8, <1>9, <1>10, <1>11, <1>12, <1>13, <1>14, <1>15,
     <1>16, <1>17, <1>18, <1>19, <1>20, <1>21, <1>22, <1>23, <1>24
     DEF Next, TaskStep, Unwinding, Deciding, Cancelling

\* Nothing before the start.
LEMMA StepFresh ==
    ASSUME IInv, [Next]_vars
    PROVE  FreshInv'
<1>1. TypeOK /\ TypeOK'
  BY StepTypeOK DEF IInv
<1>2. CASE BuildFails
  BY <1>2, <1>1, SameRequest
     DEF BuildFails, Leave, outer, work, IInv, StageInv, FreshInv, TypeOK, NoError
<1>3. CASE ConnectTools
  BY <1>3, <1>1, SameRequest
     DEF ConnectTools, Reach, outer, work, IInv, StageInv, FreshInv, TypeOK, NoError
<1>4. CASE ConnectFails
  BY <1>4, <1>1, SameRequest
     DEF ConnectFails, Reach, Leave, Raised, Noted, outer, work, IInv, StageInv, FreshInv,
         TypeOK, NoError
<1>5. CASE CreateSession
  BY <1>5, <1>1, SameRequest
     DEF CreateSession, outer, work, IInv, StageInv, FreshInv, TypeOK, NoError
<1>6. CASE CreateFails
  BY <1>6, <1>1, SameRequest
     DEF CreateFails, Leave, outer, work, IInv, StageInv, FreshInv, TypeOK, NoError
<1>7. CASE ModelAnswers
  BY <1>7, <1>1, SameRequest
     DEF ModelAnswers, outer, work, IInv, StageInv, FreshInv, TypeOK, NoError
<1>8. CASE RunEnds
  BY <1>8, <1>1, SameRequest
     DEF RunEnds, Leave, Idle, NoError, outer, work, IInv, StageInv, FreshInv, TypeOK
<1>9. CASE RunFails
  BY <1>9, <1>1, SameRequest
     DEF RunFails, Leave, Raised, Noted, outer, work, IInv, StageInv, FreshInv, TypeOK, NoError
<1>10. CASE DeleteSession
  BY <1>10, <1>1, SameRequest
     DEF DeleteSession, outer, work, IInv, StageInv, FreshInv, TypeOK, NoError
<1>11. CASE CloseTools
  BY <1>11, <1>1, SameRequest
     DEF CloseTools, Raised, Chained, outer, work, IInv, StageInv, FreshInv, TypeOK, NoError
<1>12. CASE TaskEnds
  BY <1>12, <1>1, SameRequest
     DEF TaskEnds, outer, work, IInv, StageInv, FreshInv, TypeOK, NoError
<1>13. CASE Refuse
  BY <1>13, <1>1, SameRequest
     DEF Refuse, Decide, outer, work, IInv, StageInv, FreshInv, TypeOK, NoError
<1>14. CASE RejectFields
  BY <1>14, <1>1, SameRequest
     DEF RejectFields, Decide, outer, work, IInv, StageInv, FreshInv, TypeOK, NoError
<1>15. CASE Launch
  BY <1>15, <1>1, SameRequest
     DEF Launch, Reach, FieldsAllowed, outer, work, IInv, StageInv, FreshInv, TypeOK, NoError
<1>16. CASE TimeOut
  BY <1>16, <1>1, SameRequest
     DEF TimeOut, Struck, Live, outer, work, IInv, StageInv, FreshInv, TypeOK, NoError
<1>17. CASE Succeed
  BY <1>17, <1>1, SameRequest
     DEF Succeed, Decide, outer, work, IInv, StageInv, FreshInv, TypeOK, NoError
<1>18. CASE Fail
  BY <1>18, <1>1, SameRequest
     DEF Fail, Decide, CodeOf, outer, work, IInv, StageInv, FreshInv, TypeOK, NoError
<1>19. CASE SaveLog
  BY <1>19, <1>1, SameRequest
     DEF SaveLog, outer, work, IInv, StageInv, FreshInv, TypeOK, NoError
<1>20. CASE Cancel
  BY <1>20, <1>1, SameRequest
     DEF Cancel, outer, work, IInv, StageInv, FreshInv, TypeOK, NoError
<1>21. CASE CancelTask
  BY <1>21, <1>1, SameRequest
     DEF CancelTask, Struck, Live, outer, work, IInv, StageInv, FreshInv, TypeOK, NoError
<1>22. CASE Abandon
  BY <1>22, <1>1, SameRequest
     DEF Abandon, outer, work, IInv, StageInv, FreshInv, TypeOK, NoError
<1>23. CASE Cancelled
  BY <1>23, <1>1, SameRequest
     DEF Cancelled, outer, work, IInv, StageInv, FreshInv, TypeOK, NoError
<1>24. CASE UNCHANGED vars
  BY <1>24, <1>1, SameRequest
     DEF vars, IInv, StageInv, FreshInv, TypeOK, NoError
<1> QED
  BY <1>2, <1>3, <1>4, <1>5, <1>6, <1>7, <1>8, <1>9, <1>10, <1>11, <1>12, <1>13, <1>14, <1>15,
     <1>16, <1>17, <1>18, <1>19, <1>20, <1>21, <1>22, <1>23, <1>24
     DEF Next, TaskStep, Unwinding, Deciding, Cancelling

\* The exception in flight.
LEMMA StepError ==
    ASSUME IInv, [Next]_vars
    PROVE  ErrorInv'
<1>1. TypeOK /\ TypeOK'
  BY StepTypeOK DEF IInv
<1>2. CASE BuildFails
  BY <1>2, <1>1, SameRequest
     DEF BuildFails, Leave, outer, work, IInv, StageInv, FreshInv, ErrorInv, TypeOK, NoError,
         Early
<1>3. CASE ConnectTools
  BY <1>3, <1>1, SameRequest
     DEF ConnectTools, Reach, outer, work, IInv, StageInv, FreshInv, ErrorInv, TypeOK,
         NoError, Early
<1>4. CASE ConnectFails
  BY <1>4, <1>1, SameRequest
     DEF ConnectFails, Reach, Leave, Raised, Noted, outer, work, IInv, StageInv, FreshInv,
         ErrorInv, TypeOK, NoError, Early
<1>5. CASE CreateSession
  BY <1>5, <1>1, SameRequest
     DEF CreateSession, outer, work, IInv, StageInv, FreshInv, ErrorInv, TypeOK, NoError, Early
<1>6. CASE CreateFails
  BY <1>6, <1>1, SameRequest
     DEF CreateFails, Leave, outer, work, IInv, StageInv, FreshInv, ErrorInv, TypeOK, NoError,
         Early
<1>7. CASE ModelAnswers
  BY <1>7, <1>1, SameRequest
     DEF ModelAnswers, outer, work, IInv, StageInv, FreshInv, ErrorInv, TypeOK, NoError, Early
<1>8. CASE RunEnds
  BY <1>8, <1>1, SameRequest
     DEF RunEnds, Leave, Idle, NoError, outer, work, IInv, StageInv, FreshInv, ErrorInv,
         TypeOK, Early
<1>9. CASE RunFails
  BY <1>9, <1>1, SameRequest
     DEF RunFails, Leave, Raised, Noted, outer, work, IInv, StageInv, FreshInv, ErrorInv,
         TypeOK, NoError, Early
<1>10. CASE DeleteSession
  BY <1>10, <1>1, SameRequest
     DEF DeleteSession, outer, work, IInv, StageInv, FreshInv, ErrorInv, TypeOK, NoError, Early
<1>11. CASE CloseTools
  BY <1>11, <1>1, SameRequest
     DEF CloseTools, Raised, Chained, outer, work, IInv, StageInv, FreshInv, ErrorInv, TypeOK,
         NoError, Early
<1>12. CASE TaskEnds
  BY <1>12, <1>1, SameRequest
     DEF TaskEnds, outer, work, IInv, StageInv, FreshInv, ErrorInv, TypeOK, NoError, Early
<1>13. CASE Refuse
  BY <1>13, <1>1, SameRequest
     DEF Refuse, Decide, outer, work, IInv, StageInv, FreshInv, ErrorInv, TypeOK, NoError,
         Early
<1>14. CASE RejectFields
  BY <1>14, <1>1, SameRequest
     DEF RejectFields, Decide, outer, work, IInv, StageInv, FreshInv, ErrorInv, TypeOK,
         NoError, Early
<1>15. CASE Launch
  BY <1>15, <1>1, SameRequest
     DEF Launch, Reach, FieldsAllowed, outer, work, IInv, StageInv, FreshInv, ErrorInv,
         TypeOK, NoError, Early
<1>16. CASE TimeOut
  BY <1>16, <1>1, SameRequest
     DEF TimeOut, Struck, Live, outer, work, IInv, StageInv, FreshInv, ErrorInv, TypeOK,
         NoError, Early
<1>17. CASE Succeed
  BY <1>17, <1>1, SameRequest
     DEF Succeed, Decide, outer, work, IInv, StageInv, FreshInv, ErrorInv, TypeOK, NoError,
         Early
<1>18. CASE Fail
  BY <1>18, <1>1, SameRequest
     DEF Fail, Decide, CodeOf, outer, work, IInv, StageInv, FreshInv, ErrorInv, TypeOK,
         NoError, Early
<1>19. CASE SaveLog
  BY <1>19, <1>1, SameRequest
     DEF SaveLog, outer, work, IInv, StageInv, FreshInv, ErrorInv, TypeOK, NoError, Early
<1>20. CASE Cancel
  BY <1>20, <1>1, SameRequest
     DEF Cancel, outer, work, IInv, StageInv, FreshInv, ErrorInv, TypeOK, NoError, Early
<1>21. CASE CancelTask
  BY <1>21, <1>1, SameRequest
     DEF CancelTask, Struck, Live, outer, work, IInv, StageInv, FreshInv, ErrorInv, TypeOK,
         NoError, Early
<1>22. CASE Abandon
  BY <1>22, <1>1, SameRequest
     DEF Abandon, outer, work, IInv, StageInv, FreshInv, ErrorInv, TypeOK, NoError, Early
<1>23. CASE Cancelled
  BY <1>23, <1>1, SameRequest
     DEF Cancelled, outer, work, IInv, StageInv, FreshInv, ErrorInv, TypeOK, NoError, Early
<1>24. CASE UNCHANGED vars
  BY <1>24, <1>1, SameRequest
     DEF vars, IInv, StageInv, FreshInv, ErrorInv, TypeOK, NoError, Early
<1> QED
  BY <1>2, <1>3, <1>4, <1>5, <1>6, <1>7, <1>8, <1>9, <1>10, <1>11, <1>12, <1>13, <1>14, <1>15,
     <1>16, <1>17, <1>18, <1>19, <1>20, <1>21, <1>22, <1>23, <1>24
     DEF Next, TaskStep, Unwinding, Deciding, Cancelling

\* What was on the stack stays on it when a tool set is pushed, and so does what is open.
LEMMA ReachOnStack ==
    ASSUME TypeOK, StackInv, NEW k \in 0..Len(Toolsets), Reach(k)
    PROVE  /\ \A s \in opened' : \E i \in 1..Len(stack') : stack'[i] = s
           /\ (\E i \in 1..Len(stack) : stack[i] = Session) =>
                \E i \in 1..Len(stack') : stack'[i] = Session
<1>1. stack \in Seq(Calls) /\ Len(stack) \in Nat
  BY DEF TypeOK, Calls
<1>2. ASSUME NEW i \in 1..Len(stack)
      PROVE  \E j \in 1..Len(stack') : stack'[j] = stack[i]
  BY <1>1, ReachStack
<1>3. ASSUME NEW s \in opened'
      PROVE  \E i \in 1..Len(stack') : stack'[i] = s
  <2>1. CASE s \in opened
    <3>1. PICK i \in 1..Len(stack) : stack[i] = s
      BY <2>1 DEF StackInv
    <3> QED
      BY <3>1, <1>2
  <2>2. CASE s \notin opened
    BY <1>1, <2>2, ReachStack
  <2> QED
    BY <2>1, <2>2
<1> QED
  BY <1>2, <1>3

\* A call other than the first is still there when the first is popped.
LEMMA PopKeeps ==
    ASSUME stack \in Seq(Calls), stack # <<>>, stack' = Tail(stack),
           NEW i \in 1..Len(stack), stack[i] # Head(stack)
    PROVE  \E j \in 1..Len(stack') : stack'[j] = stack[i]
<1>1. i # 1 /\ i - 1 \in 1..Len(stack')
  BY PopStack
<1>2. stack'[i - 1] = stack[i]
  BY <1>1, PopStack
<1> QED
  BY <1>1, <1>2

\* What is open is on the stack.
LEMMA StepStack ==
    ASSUME IInv, [Next]_vars
    PROVE  StackInv'
<1>1. TypeOK /\ TypeOK'
  BY StepTypeOK DEF IInv
<1>2. CASE BuildFails
  BY <1>2, <1>1, SameRequest
     DEF BuildFails, Leave, outer, work, IInv, StageInv, FreshInv, StackInv, TypeOK
<1>3. CASE ConnectTools
  <2>1. connected + 1 \in 0..Len(Toolsets)
    BY <1>1, <1>3, ToolsetsType DEF ConnectTools, IInv, OrderInv, TypeOK
  <2>2. task' # "ended" /\ stored' = stored /\ met' = met
    BY <1>1, <1>3, <2>1, ReachStack DEF ConnectTools
  <2> QED
    BY <1>1, <1>3, <2>1, <2>2, ReachOnStack DEF ConnectTools, IInv, StackInv
<1>4. CASE ConnectFails
  <2>1. connected + 1 \in 0..Len(Toolsets)
    BY <1>1, <1>4, ToolsetsType DEF ConnectFails, IInv, OrderInv, TypeOK
  <2>2. stored' = stored
    BY <1>4 DEF ConnectFails
  <2>3. CASE Reach(connected + 1) /\ UNCHANGED <<error, met>>
    BY <1>1, <2>1, <2>2, <2>3, ReachStack, ReachOnStack DEF IInv, StackInv
  <2>4. CASE \E e \in Raised : Leave(e) /\ Noted(e) /\ UNCHANGED <<stack, connected, opened>>
    BY <2>2, <2>4 DEF IInv, StackInv, Leave, Noted
  <2> QED
    BY <1>4, <2>3, <2>4 DEF ConnectFails
<1>5. CASE CreateSession
  BY <1>5, <1>1, SameRequest
     DEF CreateSession, outer, work, IInv, StageInv, FreshInv, StackInv, TypeOK
<1>6. CASE CreateFails
  BY <1>6, <1>1, SameRequest
     DEF CreateFails, Leave, outer, work, IInv, StageInv, FreshInv, StackInv, TypeOK
<1>7. CASE ModelAnswers
  BY <1>7, <1>1, SameRequest
     DEF ModelAnswers, outer, work, IInv, StageInv, FreshInv, StackInv, TypeOK
<1>8. CASE RunEnds
  BY <1>8, <1>1, SameRequest
     DEF RunEnds, Leave, Idle, NoError, outer, work, IInv, StageInv, FreshInv, StackInv, TypeOK
<1>9. CASE RunFails
  BY <1>9, <1>1, SameRequest
     DEF RunFails, Leave, Raised, Noted, outer, work, IInv, StageInv, FreshInv, StackInv,
         TypeOK
<1>10. CASE DeleteSession
  <2>1. stack \in Seq(Calls) /\ stack # <<>> /\ stack' = Tail(stack) /\ Head(stack) = Session
    BY <1>1, <1>10 DEF TypeOK, Calls, DeleteSession
  <2>2. ASSUME NEW s \in opened'
        PROVE  \E i \in 1..Len(stack') : stack'[i] = s
    <3>1. s \in opened /\ s \in ToolSet
      BY <1>1, <1>10 DEF DeleteSession, TypeOK
    <3>2. PICK i \in 1..Len(stack) : stack[i] = s
      BY <3>1 DEF IInv, StackInv
    <3> QED
      BY <2>1, <3>1, <3>2, SessionApart, PopKeeps
  <2>3. stored' => "store" \in met'
    BY <1>10 DEF DeleteSession
  <2> QED
    BY <1>10, <2>2, <2>3 DEF StackInv, DeleteSession
<1>11. CASE CloseTools
  <2>1. stack \in Seq(Calls) /\ stack # <<>> /\ stack' = Tail(stack) /\ Head(stack) # Session
    BY <1>1, <1>11 DEF TypeOK, Calls, CloseTools
  <2>2. ASSUME NEW s \in opened'
        PROVE  \E i \in 1..Len(stack') : stack'[i] = s
    <3>1. s \in opened /\ s # Head(stack)
      BY <1>11 DEF CloseTools
    <3>2. PICK i \in 1..Len(stack) : stack[i] = s
      BY <3>1 DEF IInv, StackInv
    <3> QED
      BY <2>1, <3>1, <3>2, PopKeeps
  <2>3. (\E i \in 1..Len(stack) : stack[i] = Session) => \E i \in 1..Len(stack') : stack'[i] = Session
    BY <2>1, PopKeeps
  <2>4. met \subseteq met' /\ stored' = stored /\ task' # "ended"
    BY <1>11 DEF CloseTools
  <2> QED
    BY <2>2, <2>3, <2>4 DEF IInv, StackInv
<1>12. CASE TaskEnds
  BY <1>12, <1>1, SameRequest
     DEF TaskEnds, outer, work, IInv, StageInv, FreshInv, StackInv, TypeOK
<1>13. CASE Refuse
  BY <1>13, <1>1, SameRequest
     DEF Refuse, Decide, outer, work, IInv, StageInv, FreshInv, StackInv, TypeOK
<1>14. CASE RejectFields
  BY <1>14, <1>1, SameRequest
     DEF RejectFields, Decide, outer, work, IInv, StageInv, FreshInv, StackInv, TypeOK
<1>15. CASE Launch
  BY <1>15, <1>1, SameRequest
     DEF Launch, Reach, FieldsAllowed, outer, work, IInv, StageInv, FreshInv, StackInv, TypeOK
<1>16. CASE TimeOut
  <2>1. "struck" \in met' /\ task' = "unwind"
    BY <1>16 DEF TimeOut, Struck
  <2>2. stack \in Seq(Calls)
    BY <1>1 DEF TypeOK, Calls
  <2>3. ASSUME NEW s \in opened'
        PROVE  \E i \in 1..Len(stack') : stack'[i] = s
    <3>1. s \in opened
      BY <1>16 DEF TimeOut, Struck
    <3>2. PICK i \in 1..Len(stack) : stack[i] = s
      BY <3>1 DEF IInv, StackInv
    <3>3. CASE stack' = stack
      BY <3>2, <3>3
    <3>4. CASE stack # <<>> /\ stack' = Tail(stack) /\ opened' = opened \ {Head(stack)}
      BY <2>2, <3>2, <3>4, PopKeeps
    <3> QED
      BY <1>16, <3>3, <3>4 DEF TimeOut, Struck
  <2> QED
    BY <2>1, <2>3 DEF StackInv
<1>17. CASE Succeed
  BY <1>17, <1>1, SameRequest
     DEF Succeed, Decide, outer, work, IInv, StageInv, FreshInv, StackInv, TypeOK
<1>18. CASE Fail
  BY <1>18, <1>1, SameRequest
     DEF Fail, Decide, CodeOf, outer, work, IInv, StageInv, FreshInv, StackInv, TypeOK
<1>19. CASE SaveLog
  BY <1>19, <1>1, SameRequest
     DEF SaveLog, outer, work, IInv, StageInv, FreshInv, StackInv, TypeOK
<1>20. CASE Cancel
  BY <1>20, <1>1, SameRequest
     DEF Cancel, outer, work, IInv, StageInv, FreshInv, StackInv, TypeOK
<1>21. CASE CancelTask
  <2>1. "struck" \in met' /\ task' = "unwind"
    BY <1>21 DEF CancelTask, Struck
  <2>2. stack \in Seq(Calls)
    BY <1>1 DEF TypeOK, Calls
  <2>3. ASSUME NEW s \in opened'
        PROVE  \E i \in 1..Len(stack') : stack'[i] = s
    <3>1. s \in opened
      BY <1>21 DEF CancelTask, Struck
    <3>2. PICK i \in 1..Len(stack) : stack[i] = s
      BY <3>1 DEF IInv, StackInv
    <3>3. CASE stack' = stack
      BY <3>2, <3>3
    <3>4. CASE stack # <<>> /\ stack' = Tail(stack) /\ opened' = opened \ {Head(stack)}
      BY <2>2, <3>2, <3>4, PopKeeps
    <3> QED
      BY <1>21, <3>3, <3>4 DEF CancelTask, Struck
  <2> QED
    BY <2>1, <2>3 DEF StackInv
<1>22. CASE Abandon
  BY <1>22, <1>1, SameRequest
     DEF Abandon, outer, work, IInv, StageInv, FreshInv, StackInv, TypeOK
<1>23. CASE Cancelled
  BY <1>23, <1>1, SameRequest
     DEF Cancelled, outer, work, IInv, StageInv, FreshInv, StackInv, TypeOK
<1>24. CASE UNCHANGED vars
  BY <1>24, <1>1, SameRequest
     DEF vars, IInv, StageInv, FreshInv, StackInv, TypeOK
<1> QED
  BY <1>2, <1>3, <1>4, <1>5, <1>6, <1>7, <1>8, <1>9, <1>10, <1>11, <1>12, <1>13, <1>14, <1>15,
     <1>16, <1>17, <1>18, <1>19, <1>20, <1>21, <1>22, <1>23, <1>24
     DEF Next, TaskStep, Unwinding, Deciding, Cancelling

\* Pushing a tool set keeps the order.
LEMMA ReachInOrder ==
    ASSUME TypeOK, NEW k \in 0..Len(Toolsets), Reach(k), Toolsets' = Toolsets,
           \A i \in 1..Len(stack) : stack[i] # Session,
           \A j \in 1..k : Toolsets[j] \in opened
    PROVE  OrderInv'
<1>1. Len(stack) \in Nat /\ Len(Toolsets) \in Nat
  BY ToolsetsType DEF TypeOK
<1>2. ASSUME NEW i \in 1..Len(stack')
      PROVE  stack'[i] # Session
  <2>1. CASE stack' = stack
    BY <2>1
  <2>2. CASE /\ Toolsets[k + 1] \in ToolSet
             /\ Len(stack') = Len(stack) + 1
             /\ stack'[1] = Toolsets[k + 1]
             /\ \A j \in 2..Len(stack') : stack'[j] = stack[j - 1]
    <3>1. CASE i = 1
      BY <2>2, <3>1, SessionApart
    <3>2. CASE i # 1
      <4>1. i \in 2..Len(stack') /\ i - 1 \in 1..Len(stack)
        BY <1>1, <2>2, <3>2
      <4> QED
        BY <2>2, <4>1
    <3> QED
      BY <3>1, <3>2
  <2> QED
    BY <2>1, <2>2, ReachStack
<1>3. opened \subseteq opened'
  BY ReachStack
<1> QED
  BY <1>1, <1>2, <1>3, ReachStack DEF OrderInv

\* The order of the stack.
LEMMA StepOrder ==
    ASSUME IInv, [Next]_vars
    PROVE  OrderInv'
<1>1. TypeOK /\ TypeOK'
  BY StepTypeOK DEF IInv
<1>2. CASE BuildFails
  BY <1>2, <1>1, SameRequest
     DEF BuildFails, Leave, outer, work, IInv, StageInv, FreshInv, OrderInv, TypeOK
<1>3. CASE ConnectTools
  <2>1. connected + 1 \in 0..Len(Toolsets) /\ connected \in Nat
    BY <1>1, <1>3, ToolsetsType DEF ConnectTools, IInv, OrderInv, TypeOK
  <2>2. \A i \in 1..Len(stack) : stack[i] # Session
    BY <1>3 DEF ConnectTools, IInv, OrderInv
  <2>3. \A j \in 1..(connected + 1) : Toolsets[j] \in opened
    BY <1>3, <2>1 DEF ConnectTools, IInv, OrderInv
  <2> QED
    BY <1>1, <1>3, <2>1, <2>2, <2>3, ReachInOrder, SameRequest DEF ConnectTools
<1>4. CASE ConnectFails
  <2>1. connected + 1 \in 0..Len(Toolsets) /\ connected \in Nat
    BY <1>1, <1>4, ToolsetsType DEF ConnectFails, IInv, OrderInv, TypeOK
  <2>2. \A i \in 1..Len(stack) : stack[i] # Session
    BY <1>4 DEF ConnectFails, IInv, OrderInv
  <2>3. \A j \in 1..(connected + 1) : Toolsets[j] \in opened
    BY <1>4, <2>1 DEF ConnectFails, IInv, OrderInv
  <2>4. CASE Reach(connected + 1)
    BY <1>1, <2>1, <2>2, <2>3, <2>4, ReachInOrder, SameRequest
  <2>5. CASE \E e \in Raised : Leave(e) /\ Noted(e) /\ UNCHANGED <<stack, connected, opened>>
    BY <2>2, <2>5, SameRequest DEF OrderInv, Leave
  <2> QED
    BY <1>4, <2>4, <2>5 DEF ConnectFails
<1>5. CASE CreateSession
  BY <1>5, <1>1, SameRequest
     DEF CreateSession, outer, work, IInv, StageInv, FreshInv, OrderInv, TypeOK
<1>6. CASE CreateFails
  BY <1>6, <1>1, SameRequest
     DEF CreateFails, Leave, outer, work, IInv, StageInv, FreshInv, OrderInv, TypeOK
<1>7. CASE ModelAnswers
  BY <1>7, <1>1, SameRequest
     DEF ModelAnswers, outer, work, IInv, StageInv, FreshInv, OrderInv, TypeOK
<1>8. CASE RunEnds
  BY <1>8, <1>1, SameRequest
     DEF RunEnds, Leave, Idle, NoError, outer, work, IInv, StageInv, FreshInv, OrderInv, TypeOK
<1>9. CASE RunFails
  BY <1>9, <1>1, SameRequest
     DEF RunFails, Leave, Raised, Noted, outer, work, IInv, StageInv, FreshInv, OrderInv,
         TypeOK
<1>10. CASE DeleteSession
  BY <1>10, <1>1, PopStack, SameRequest
     DEF DeleteSession, outer, work, IInv, StageInv, FreshInv, OrderInv, TypeOK
<1>11. CASE CloseTools
  BY <1>11, <1>1, PopStack, SameRequest
     DEF CloseTools, Raised, Chained, outer, work, IInv, StageInv, FreshInv, OrderInv, TypeOK
<1>12. CASE TaskEnds
  BY <1>12, <1>1, SameRequest
     DEF TaskEnds, outer, work, IInv, StageInv, FreshInv, OrderInv, TypeOK
<1>13. CASE Refuse
  BY <1>13, <1>1, SameRequest
     DEF Refuse, Decide, outer, work, IInv, StageInv, FreshInv, OrderInv, TypeOK
<1>14. CASE RejectFields
  BY <1>14, <1>1, SameRequest
     DEF RejectFields, Decide, outer, work, IInv, StageInv, FreshInv, OrderInv, TypeOK
<1>15. CASE Launch
  <2>1. 0 \in 0..Len(Toolsets)
    BY <1>1, ToolsetsType DEF TypeOK
  <2>2. stack = <<>>
    BY <1>15 DEF Launch, IInv, StageInv, FreshInv
  <2> QED
    BY <1>1, <1>15, <2>1, <2>2, ReachInOrder, SameRequest DEF Launch
<1>16. CASE TimeOut
  <2>1. task' = "unwind" /\ stack \in Seq(Calls)
    BY <1>1, <1>16 DEF TimeOut, Struck, TypeOK, Calls
  <2>2. CASE stack # <<>> /\ stack' = Tail(stack)
    <3>1. \A i \in 1..Len(stack') : stack'[i] # Session
      BY <2>1, <2>2, PopStack DEF IInv, OrderInv
    <3> QED
      BY <2>1, <3>1 DEF OrderInv
  <2>3. CASE UNCHANGED <<stack, opened>>
    BY <2>1, <2>3, SameRequest DEF IInv, OrderInv
  <2> QED
    BY <1>16, <2>2, <2>3 DEF TimeOut, Struck
<1>17. CASE Succeed
  BY <1>17, <1>1, SameRequest
     DEF Succeed, Decide, outer, work, IInv, StageInv, FreshInv, OrderInv, TypeOK
<1>18. CASE Fail
  BY <1>18, <1>1, SameRequest
     DEF Fail, Decide, CodeOf, outer, work, IInv, StageInv, FreshInv, OrderInv, TypeOK
<1>19. CASE SaveLog
  BY <1>19, <1>1, SameRequest
     DEF SaveLog, outer, work, IInv, StageInv, FreshInv, OrderInv, TypeOK
<1>20. CASE Cancel
  BY <1>20, <1>1, SameRequest
     DEF Cancel, outer, work, IInv, StageInv, FreshInv, OrderInv, TypeOK
<1>21. CASE CancelTask
  <2>1. task' = "unwind" /\ stack \in Seq(Calls)
    BY <1>1, <1>21 DEF CancelTask, Struck, TypeOK, Calls
  <2>2. CASE stack # <<>> /\ stack' = Tail(stack)
    <3>1. \A i \in 1..Len(stack') : stack'[i] # Session
      BY <2>1, <2>2, PopStack DEF IInv, OrderInv
    <3> QED
      BY <2>1, <3>1 DEF OrderInv
  <2>3. CASE UNCHANGED <<stack, opened>>
    BY <2>1, <2>3, SameRequest DEF IInv, OrderInv
  <2> QED
    BY <1>21, <2>2, <2>3 DEF CancelTask, Struck
<1>22. CASE Abandon
  BY <1>22, <1>1, SameRequest
     DEF Abandon, outer, work, IInv, StageInv, FreshInv, OrderInv, TypeOK
<1>23. CASE Cancelled
  BY <1>23, <1>1, SameRequest
     DEF Cancelled, outer, work, IInv, StageInv, FreshInv, OrderInv, TypeOK
<1>24. CASE UNCHANGED vars
  BY <1>24, <1>1, SameRequest
     DEF vars, IInv, StageInv, FreshInv, OrderInv, TypeOK
<1> QED
  BY <1>2, <1>3, <1>4, <1>5, <1>6, <1>7, <1>8, <1>9, <1>10, <1>11, <1>12, <1>13, <1>14, <1>15,
     <1>16, <1>17, <1>18, <1>19, <1>20, <1>21, <1>22, <1>23, <1>24
     DEF Next, TaskStep, Unwinding, Deciding, Cancelling

\* Success.
LEMMA StepSuccess ==
    ASSUME IInv, [Next]_vars
    PROVE  SuccessIsEarned'
<1>1. TypeOK /\ TypeOK'
  BY StepTypeOK DEF IInv
<1>2. CASE BuildFails
  BY <1>2, <1>1, SameRequest
     DEF BuildFails, Leave, outer, work, IInv, StageInv, FreshInv, ErrorInv, TypeOK, NoError,
         Early, SuccessIsEarned, NoReply
<1>3. CASE ConnectTools
  BY <1>3, <1>1, SameRequest
     DEF ConnectTools, Reach, outer, work, IInv, StageInv, FreshInv, ErrorInv, TypeOK,
         NoError, Early, SuccessIsEarned, NoReply
<1>4. CASE ConnectFails
  BY <1>4, <1>1, SameRequest
     DEF ConnectFails, Reach, Leave, Raised, Noted, outer, work, IInv, StageInv, FreshInv,
         ErrorInv, TypeOK, NoError, Early, SuccessIsEarned, NoReply
<1>5. CASE CreateSession
  BY <1>5, <1>1, SameRequest
     DEF CreateSession, outer, work, IInv, StageInv, FreshInv, ErrorInv, TypeOK, NoError,
         Early, SuccessIsEarned, NoReply
<1>6. CASE CreateFails
  BY <1>6, <1>1, SameRequest
     DEF CreateFails, Leave, outer, work, IInv, StageInv, FreshInv, ErrorInv, TypeOK, NoError,
         Early, SuccessIsEarned, NoReply
<1>7. CASE ModelAnswers
  BY <1>7, <1>1, SameRequest
     DEF ModelAnswers, outer, work, IInv, StageInv, FreshInv, ErrorInv, TypeOK, NoError,
         Early, SuccessIsEarned, NoReply
<1>8. CASE RunEnds
  BY <1>8, <1>1, SameRequest
     DEF RunEnds, Leave, Idle, NoError, outer, work, IInv, StageInv, FreshInv, ErrorInv,
         TypeOK, Early, SuccessIsEarned, NoReply
<1>9. CASE RunFails
  BY <1>9, <1>1, SameRequest
     DEF RunFails, Leave, Raised, Noted, outer, work, IInv, StageInv, FreshInv, ErrorInv,
         TypeOK, NoError, Early, SuccessIsEarned, NoReply
<1>10. CASE DeleteSession
  BY <1>10, <1>1, SameRequest
     DEF DeleteSession, outer, work, IInv, StageInv, FreshInv, ErrorInv, TypeOK, NoError,
         Early, SuccessIsEarned, NoReply
<1>11. CASE CloseTools
  BY <1>11, <1>1, SameRequest
     DEF CloseTools, Raised, Chained, outer, work, IInv, StageInv, FreshInv, ErrorInv, TypeOK,
         NoError, Early, SuccessIsEarned, NoReply
<1>12. CASE TaskEnds
  BY <1>12, <1>1, SameRequest
     DEF TaskEnds, outer, work, IInv, StageInv, FreshInv, ErrorInv, TypeOK, NoError, Early,
         SuccessIsEarned, NoReply
<1>13. CASE Refuse
  BY <1>13, <1>1, SameRequest
     DEF Refuse, Decide, outer, work, IInv, StageInv, FreshInv, ErrorInv, TypeOK, NoError,
         Early, SuccessIsEarned, NoReply
<1>14. CASE RejectFields
  BY <1>14, <1>1, SameRequest
     DEF RejectFields, Decide, outer, work, IInv, StageInv, FreshInv, ErrorInv, TypeOK,
         NoError, Early, SuccessIsEarned, NoReply
<1>15. CASE Launch
  BY <1>15, <1>1, SameRequest
     DEF Launch, Reach, FieldsAllowed, outer, work, IInv, StageInv, FreshInv, ErrorInv,
         TypeOK, NoError, Early, SuccessIsEarned, NoReply
<1>16. CASE TimeOut
  BY <1>16, <1>1, SameRequest
     DEF TimeOut, Struck, Live, outer, work, IInv, StageInv, FreshInv, ErrorInv, TypeOK,
         NoError, Early, SuccessIsEarned, NoReply
<1>17. CASE Succeed
  BY <1>17, <1>1, SameRequest
     DEF Succeed, Decide, outer, work, IInv, StageInv, FreshInv, ErrorInv, TypeOK, NoError,
         Early, SuccessIsEarned, NoReply
<1>18. CASE Fail
  BY <1>18, <1>1, SameRequest
     DEF Fail, Decide, CodeOf, outer, work, IInv, StageInv, FreshInv, ErrorInv, TypeOK,
         NoError, Early, SuccessIsEarned, NoReply
<1>19. CASE SaveLog
  BY <1>19, <1>1, SameRequest
     DEF SaveLog, outer, work, IInv, StageInv, FreshInv, ErrorInv, TypeOK, NoError, Early,
         SuccessIsEarned, NoReply
<1>20. CASE Cancel
  BY <1>20, <1>1, SameRequest
     DEF Cancel, outer, work, IInv, StageInv, FreshInv, ErrorInv, TypeOK, NoError, Early,
         SuccessIsEarned, NoReply
<1>21. CASE CancelTask
  BY <1>21, <1>1, SameRequest
     DEF CancelTask, Struck, Live, outer, work, IInv, StageInv, FreshInv, ErrorInv, TypeOK,
         NoError, Early, SuccessIsEarned, NoReply
<1>22. CASE Abandon
  BY <1>22, <1>1, SameRequest
     DEF Abandon, outer, work, IInv, StageInv, FreshInv, ErrorInv, TypeOK, NoError, Early,
         SuccessIsEarned, NoReply
<1>23. CASE Cancelled
  BY <1>23, <1>1, SameRequest
     DEF Cancelled, outer, work, IInv, StageInv, FreshInv, ErrorInv, TypeOK, NoError, Early,
         SuccessIsEarned, NoReply
<1>24. CASE UNCHANGED vars
  BY <1>24, <1>1, SameRequest
     DEF vars, IInv, StageInv, FreshInv, ErrorInv, TypeOK, NoError, Early, SuccessIsEarned,
         NoReply
<1> QED
  BY <1>2, <1>3, <1>4, <1>5, <1>6, <1>7, <1>8, <1>9, <1>10, <1>11, <1>12, <1>13, <1>14, <1>15,
     <1>16, <1>17, <1>18, <1>19, <1>20, <1>21, <1>22, <1>23, <1>24
     DEF Next, TaskStep, Unwinding, Deciding, Cancelling

\* The time limit.
LEMMA StepTimeOut ==
    ASSUME IInv, [Next]_vars
    PROVE  TimeOutIsReported'
<1>1. TypeOK /\ TypeOK'
  BY StepTypeOK DEF IInv
<1>2. CASE BuildFails
  BY <1>2, <1>1, SameRequest
     DEF BuildFails, Leave, outer, work, IInv, StageInv, FreshInv, ErrorInv, TypeOK, NoError,
         Early, TimeOutIsReported, Decided, NoReply
<1>3. CASE ConnectTools
  BY <1>3, <1>1, SameRequest
     DEF ConnectTools, Reach, outer, work, IInv, StageInv, FreshInv, ErrorInv, TypeOK,
         NoError, Early, TimeOutIsReported, Decided, NoReply
<1>4. CASE ConnectFails
  BY <1>4, <1>1, SameRequest
     DEF ConnectFails, Reach, Leave, Raised, Noted, outer, work, IInv, StageInv, FreshInv,
         ErrorInv, TypeOK, NoError, Early, TimeOutIsReported, Decided, NoReply
<1>5. CASE CreateSession
  BY <1>5, <1>1, SameRequest
     DEF CreateSession, outer, work, IInv, StageInv, FreshInv, ErrorInv, TypeOK, NoError,
         Early, TimeOutIsReported, Decided, NoReply
<1>6. CASE CreateFails
  BY <1>6, <1>1, SameRequest
     DEF CreateFails, Leave, outer, work, IInv, StageInv, FreshInv, ErrorInv, TypeOK, NoError,
         Early, TimeOutIsReported, Decided, NoReply
<1>7. CASE ModelAnswers
  BY <1>7, <1>1, SameRequest
     DEF ModelAnswers, outer, work, IInv, StageInv, FreshInv, ErrorInv, TypeOK, NoError,
         Early, TimeOutIsReported, Decided, NoReply
<1>8. CASE RunEnds
  BY <1>8, <1>1, SameRequest
     DEF RunEnds, Leave, Idle, NoError, outer, work, IInv, StageInv, FreshInv, ErrorInv,
         TypeOK, Early, TimeOutIsReported, Decided, NoReply
<1>9. CASE RunFails
  BY <1>9, <1>1, SameRequest
     DEF RunFails, Leave, Raised, Noted, outer, work, IInv, StageInv, FreshInv, ErrorInv,
         TypeOK, NoError, Early, TimeOutIsReported, Decided, NoReply
<1>10. CASE DeleteSession
  BY <1>10, <1>1, SameRequest
     DEF DeleteSession, outer, work, IInv, StageInv, FreshInv, ErrorInv, TypeOK, NoError,
         Early, TimeOutIsReported, Decided, NoReply
<1>11. CASE CloseTools
  BY <1>11, <1>1, SameRequest
     DEF CloseTools, Raised, Chained, outer, work, IInv, StageInv, FreshInv, ErrorInv, TypeOK,
         NoError, Early, TimeOutIsReported, Decided, NoReply
<1>12. CASE TaskEnds
  BY <1>12, <1>1, SameRequest
     DEF TaskEnds, outer, work, IInv, StageInv, FreshInv, ErrorInv, TypeOK, NoError, Early,
         TimeOutIsReported, Decided, NoReply
<1>13. CASE Refuse
  BY <1>13, <1>1, SameRequest
     DEF Refuse, Decide, outer, work, IInv, StageInv, FreshInv, ErrorInv, TypeOK, NoError,
         Early, TimeOutIsReported, Decided, NoReply
<1>14. CASE RejectFields
  BY <1>14, <1>1, SameRequest
     DEF RejectFields, Decide, outer, work, IInv, StageInv, FreshInv, ErrorInv, TypeOK,
         NoError, Early, TimeOutIsReported, Decided, NoReply
<1>15. CASE Launch
  BY <1>15, <1>1, SameRequest
     DEF Launch, Reach, FieldsAllowed, outer, work, IInv, StageInv, FreshInv, ErrorInv,
         TypeOK, NoError, Early, TimeOutIsReported, Decided, NoReply
<1>16. CASE TimeOut
  BY <1>16, <1>1, SameRequest
     DEF TimeOut, Struck, Live, outer, work, IInv, StageInv, FreshInv, ErrorInv, TypeOK,
         NoError, Early, TimeOutIsReported, Decided, NoReply
<1>17. CASE Succeed
  BY <1>17, <1>1, SameRequest
     DEF Succeed, Decide, outer, work, IInv, StageInv, FreshInv, ErrorInv, TypeOK, NoError,
         Early, TimeOutIsReported, Decided, NoReply
<1>18. CASE Fail
  BY <1>18, <1>1, SameRequest
     DEF Fail, Decide, CodeOf, outer, work, IInv, StageInv, FreshInv, ErrorInv, TypeOK,
         NoError, Early, TimeOutIsReported, Decided, NoReply
<1>19. CASE SaveLog
  BY <1>19, <1>1, SameRequest
     DEF SaveLog, outer, work, IInv, StageInv, FreshInv, ErrorInv, TypeOK, NoError, Early,
         TimeOutIsReported, Decided, NoReply
<1>20. CASE Cancel
  BY <1>20, <1>1, SameRequest
     DEF Cancel, outer, work, IInv, StageInv, FreshInv, ErrorInv, TypeOK, NoError, Early,
         TimeOutIsReported, Decided, NoReply
<1>21. CASE CancelTask
  BY <1>21, <1>1, SameRequest
     DEF CancelTask, Struck, Live, outer, work, IInv, StageInv, FreshInv, ErrorInv, TypeOK,
         NoError, Early, TimeOutIsReported, Decided, NoReply
<1>22. CASE Abandon
  BY <1>22, <1>1, SameRequest
     DEF Abandon, outer, work, IInv, StageInv, FreshInv, ErrorInv, TypeOK, NoError, Early,
         TimeOutIsReported, Decided, NoReply
<1>23. CASE Cancelled
  BY <1>23, <1>1, SameRequest
     DEF Cancelled, outer, work, IInv, StageInv, FreshInv, ErrorInv, TypeOK, NoError, Early,
         TimeOutIsReported, Decided, NoReply
<1>24. CASE UNCHANGED vars
  BY <1>24, <1>1, SameRequest
     DEF vars, IInv, StageInv, FreshInv, ErrorInv, TypeOK, NoError, Early, TimeOutIsReported,
         Decided, NoReply
<1> QED
  BY <1>2, <1>3, <1>4, <1>5, <1>6, <1>7, <1>8, <1>9, <1>10, <1>11, <1>12, <1>13, <1>14, <1>15,
     <1>16, <1>17, <1>18, <1>19, <1>20, <1>21, <1>22, <1>23, <1>24
     DEF Next, TaskStep, Unwinding, Deciding, Cancelling

\* 429.
LEMMA StepRate ==
    ASSUME IInv, [Next]_vars
    PROVE  RateLimitIsReported'
<1>1. TypeOK /\ TypeOK'
  BY StepTypeOK DEF IInv
<1>2. CASE BuildFails
  BY <1>2, <1>1, SameRequest
     DEF BuildFails, Leave, outer, work, IInv, StageInv, FreshInv, ErrorInv, TypeOK, NoError,
         Early, RateLimitIsReported, Decided, NoReply
<1>3. CASE ConnectTools
  BY <1>3, <1>1, SameRequest
     DEF ConnectTools, Reach, outer, work, IInv, StageInv, FreshInv, ErrorInv, TypeOK,
         NoError, Early, RateLimitIsReported, Decided, NoReply
<1>4. CASE ConnectFails
  BY <1>4, <1>1, SameRequest
     DEF ConnectFails, Reach, Leave, Raised, Noted, outer, work, IInv, StageInv, FreshInv,
         ErrorInv, TypeOK, NoError, Early, RateLimitIsReported, Decided, NoReply
<1>5. CASE CreateSession
  BY <1>5, <1>1, SameRequest
     DEF CreateSession, outer, work, IInv, StageInv, FreshInv, ErrorInv, TypeOK, NoError,
         Early, RateLimitIsReported, Decided, NoReply
<1>6. CASE CreateFails
  BY <1>6, <1>1, SameRequest
     DEF CreateFails, Leave, outer, work, IInv, StageInv, FreshInv, ErrorInv, TypeOK, NoError,
         Early, RateLimitIsReported, Decided, NoReply
<1>7. CASE ModelAnswers
  BY <1>7, <1>1, SameRequest
     DEF ModelAnswers, outer, work, IInv, StageInv, FreshInv, ErrorInv, TypeOK, NoError,
         Early, RateLimitIsReported, Decided, NoReply
<1>8. CASE RunEnds
  BY <1>8, <1>1, SameRequest
     DEF RunEnds, Leave, Idle, NoError, outer, work, IInv, StageInv, FreshInv, ErrorInv,
         TypeOK, Early, RateLimitIsReported, Decided, NoReply
<1>9. CASE RunFails
  BY <1>9, <1>1, SameRequest
     DEF RunFails, Leave, Raised, Noted, outer, work, IInv, StageInv, FreshInv, ErrorInv,
         TypeOK, NoError, Early, RateLimitIsReported, Decided, NoReply
<1>10. CASE DeleteSession
  BY <1>10, <1>1, SameRequest
     DEF DeleteSession, outer, work, IInv, StageInv, FreshInv, ErrorInv, TypeOK, NoError,
         Early, RateLimitIsReported, Decided, NoReply
<1>11. CASE CloseTools
  BY <1>11, <1>1, SameRequest
     DEF CloseTools, Raised, Chained, outer, work, IInv, StageInv, FreshInv, ErrorInv, TypeOK,
         NoError, Early, RateLimitIsReported, Decided, NoReply
<1>12. CASE TaskEnds
  BY <1>12, <1>1, SameRequest
     DEF TaskEnds, outer, work, IInv, StageInv, FreshInv, ErrorInv, TypeOK, NoError, Early,
         RateLimitIsReported, Decided, NoReply
<1>13. CASE Refuse
  BY <1>13, <1>1, SameRequest
     DEF Refuse, Decide, outer, work, IInv, StageInv, FreshInv, ErrorInv, TypeOK, NoError,
         Early, RateLimitIsReported, Decided, NoReply
<1>14. CASE RejectFields
  BY <1>14, <1>1, SameRequest
     DEF RejectFields, Decide, outer, work, IInv, StageInv, FreshInv, ErrorInv, TypeOK,
         NoError, Early, RateLimitIsReported, Decided, NoReply
<1>15. CASE Launch
  BY <1>15, <1>1, SameRequest
     DEF Launch, Reach, FieldsAllowed, outer, work, IInv, StageInv, FreshInv, ErrorInv,
         TypeOK, NoError, Early, RateLimitIsReported, Decided, NoReply
<1>16. CASE TimeOut
  BY <1>16, <1>1, SameRequest
     DEF TimeOut, Struck, Live, outer, work, IInv, StageInv, FreshInv, ErrorInv, TypeOK,
         NoError, Early, RateLimitIsReported, Decided, NoReply
<1>17. CASE Succeed
  BY <1>17, <1>1, SameRequest
     DEF Succeed, Decide, outer, work, IInv, StageInv, FreshInv, ErrorInv, TypeOK, NoError,
         Early, RateLimitIsReported, Decided, NoReply
<1>18. CASE Fail
  BY <1>18, <1>1, SameRequest
     DEF Fail, Decide, CodeOf, outer, work, IInv, StageInv, FreshInv, ErrorInv, TypeOK,
         NoError, Early, RateLimitIsReported, Decided, NoReply
<1>19. CASE SaveLog
  BY <1>19, <1>1, SameRequest
     DEF SaveLog, outer, work, IInv, StageInv, FreshInv, ErrorInv, TypeOK, NoError, Early,
         RateLimitIsReported, Decided, NoReply
<1>20. CASE Cancel
  BY <1>20, <1>1, SameRequest
     DEF Cancel, outer, work, IInv, StageInv, FreshInv, ErrorInv, TypeOK, NoError, Early,
         RateLimitIsReported, Decided, NoReply
<1>21. CASE CancelTask
  BY <1>21, <1>1, SameRequest
     DEF CancelTask, Struck, Live, outer, work, IInv, StageInv, FreshInv, ErrorInv, TypeOK,
         NoError, Early, RateLimitIsReported, Decided, NoReply
<1>22. CASE Abandon
  BY <1>22, <1>1, SameRequest
     DEF Abandon, outer, work, IInv, StageInv, FreshInv, ErrorInv, TypeOK, NoError, Early,
         RateLimitIsReported, Decided, NoReply
<1>23. CASE Cancelled
  BY <1>23, <1>1, SameRequest
     DEF Cancelled, outer, work, IInv, StageInv, FreshInv, ErrorInv, TypeOK, NoError, Early,
         RateLimitIsReported, Decided, NoReply
<1>24. CASE UNCHANGED vars
  BY <1>24, <1>1, SameRequest
     DEF vars, IInv, StageInv, FreshInv, ErrorInv, TypeOK, NoError, Early,
         RateLimitIsReported, Decided, NoReply
<1> QED
  BY <1>2, <1>3, <1>4, <1>5, <1>6, <1>7, <1>8, <1>9, <1>10, <1>11, <1>12, <1>13, <1>14, <1>15,
     <1>16, <1>17, <1>18, <1>19, <1>20, <1>21, <1>22, <1>23, <1>24
     DEF Next, TaskStep, Unwinding, Deciding, Cancelling

\* Refusals.
LEMMA StepRefused ==
    ASSUME IInv, [Next]_vars
    PROVE  RefusedIsHarmless'
<1>1. TypeOK /\ TypeOK'
  BY StepTypeOK DEF IInv
<1>2. CASE BuildFails
  BY <1>2, <1>1, SameRequest
     DEF BuildFails, Leave, outer, work, IInv, StageInv, FreshInv, ErrorInv, TypeOK, NoError,
         Early, RefusedIsHarmless, NoReply
<1>3. CASE ConnectTools
  BY <1>3, <1>1, SameRequest
     DEF ConnectTools, Reach, outer, work, IInv, StageInv, FreshInv, ErrorInv, TypeOK,
         NoError, Early, RefusedIsHarmless, NoReply
<1>4. CASE ConnectFails
  BY <1>4, <1>1, SameRequest
     DEF ConnectFails, Reach, Leave, Raised, Noted, outer, work, IInv, StageInv, FreshInv,
         ErrorInv, TypeOK, NoError, Early, RefusedIsHarmless, NoReply
<1>5. CASE CreateSession
  BY <1>5, <1>1, SameRequest
     DEF CreateSession, outer, work, IInv, StageInv, FreshInv, ErrorInv, TypeOK, NoError,
         Early, RefusedIsHarmless, NoReply
<1>6. CASE CreateFails
  BY <1>6, <1>1, SameRequest
     DEF CreateFails, Leave, outer, work, IInv, StageInv, FreshInv, ErrorInv, TypeOK, NoError,
         Early, RefusedIsHarmless, NoReply
<1>7. CASE ModelAnswers
  BY <1>7, <1>1, SameRequest
     DEF ModelAnswers, outer, work, IInv, StageInv, FreshInv, ErrorInv, TypeOK, NoError,
         Early, RefusedIsHarmless, NoReply
<1>8. CASE RunEnds
  BY <1>8, <1>1, SameRequest
     DEF RunEnds, Leave, Idle, NoError, outer, work, IInv, StageInv, FreshInv, ErrorInv,
         TypeOK, Early, RefusedIsHarmless, NoReply
<1>9. CASE RunFails
  BY <1>9, <1>1, SameRequest
     DEF RunFails, Leave, Raised, Noted, outer, work, IInv, StageInv, FreshInv, ErrorInv,
         TypeOK, NoError, Early, RefusedIsHarmless, NoReply
<1>10. CASE DeleteSession
  BY <1>10, <1>1, SameRequest
     DEF DeleteSession, outer, work, IInv, StageInv, FreshInv, ErrorInv, TypeOK, NoError,
         Early, RefusedIsHarmless, NoReply
<1>11. CASE CloseTools
  BY <1>11, <1>1, SameRequest
     DEF CloseTools, Raised, Chained, outer, work, IInv, StageInv, FreshInv, ErrorInv, TypeOK,
         NoError, Early, RefusedIsHarmless, NoReply
<1>12. CASE TaskEnds
  BY <1>12, <1>1, SameRequest
     DEF TaskEnds, outer, work, IInv, StageInv, FreshInv, ErrorInv, TypeOK, NoError, Early,
         RefusedIsHarmless, NoReply
<1>13. CASE Refuse
  BY <1>13, <1>1, SameRequest
     DEF Refuse, Decide, outer, work, IInv, StageInv, FreshInv, ErrorInv, TypeOK, NoError,
         Early, RefusedIsHarmless, NoReply
<1>14. CASE RejectFields
  BY <1>14, <1>1, SameRequest
     DEF RejectFields, Decide, outer, work, IInv, StageInv, FreshInv, ErrorInv, TypeOK,
         NoError, Early, RefusedIsHarmless, NoReply
<1>15. CASE Launch
  BY <1>15, <1>1, SameRequest
     DEF Launch, Reach, FieldsAllowed, outer, work, IInv, StageInv, FreshInv, ErrorInv,
         TypeOK, NoError, Early, RefusedIsHarmless, NoReply
<1>16. CASE TimeOut
  BY <1>16, <1>1, SameRequest
     DEF TimeOut, Struck, Live, outer, work, IInv, StageInv, FreshInv, ErrorInv, TypeOK,
         NoError, Early, RefusedIsHarmless, NoReply
<1>17. CASE Succeed
  BY <1>17, <1>1, SameRequest
     DEF Succeed, Decide, outer, work, IInv, StageInv, FreshInv, ErrorInv, TypeOK, NoError,
         Early, RefusedIsHarmless, NoReply
<1>18. CASE Fail
  BY <1>18, <1>1, SameRequest
     DEF Fail, Decide, CodeOf, outer, work, IInv, StageInv, FreshInv, ErrorInv, TypeOK,
         NoError, Early, RefusedIsHarmless, NoReply
<1>19. CASE SaveLog
  BY <1>19, <1>1, SameRequest
     DEF SaveLog, outer, work, IInv, StageInv, FreshInv, ErrorInv, TypeOK, NoError, Early,
         RefusedIsHarmless, NoReply
<1>20. CASE Cancel
  BY <1>20, <1>1, SameRequest
     DEF Cancel, outer, work, IInv, StageInv, FreshInv, ErrorInv, TypeOK, NoError, Early,
         RefusedIsHarmless, NoReply
<1>21. CASE CancelTask
  BY <1>21, <1>1, SameRequest
     DEF CancelTask, Struck, Live, outer, work, IInv, StageInv, FreshInv, ErrorInv, TypeOK,
         NoError, Early, RefusedIsHarmless, NoReply
<1>22. CASE Abandon
  BY <1>22, <1>1, SameRequest
     DEF Abandon, outer, work, IInv, StageInv, FreshInv, ErrorInv, TypeOK, NoError, Early,
         RefusedIsHarmless, NoReply
<1>23. CASE Cancelled
  BY <1>23, <1>1, SameRequest
     DEF Cancelled, outer, work, IInv, StageInv, FreshInv, ErrorInv, TypeOK, NoError, Early,
         RefusedIsHarmless, NoReply
<1>24. CASE UNCHANGED vars
  BY <1>24, <1>1, SameRequest
     DEF vars, IInv, StageInv, FreshInv, ErrorInv, TypeOK, NoError, Early, RefusedIsHarmless,
         NoReply
<1> QED
  BY <1>2, <1>3, <1>4, <1>5, <1>6, <1>7, <1>8, <1>9, <1>10, <1>11, <1>12, <1>13, <1>14, <1>15,
     <1>16, <1>17, <1>18, <1>19, <1>20, <1>21, <1>22, <1>23, <1>24
     DEF Next, TaskStep, Unwinding, Deciding, Cancelling

\* The log.
LEMMA StepLogged ==
    ASSUME IInv, [Next]_vars
    PROVE  LoggedOnce'
<1>1. TypeOK /\ TypeOK'
  BY StepTypeOK DEF IInv
<1>2. CASE BuildFails
  BY <1>2, <1>1, SameRequest
     DEF BuildFails, Leave, outer, work, IInv, StageInv, TypeOK, LoggedOnce, NoReply
<1>3. CASE ConnectTools
  BY <1>3, <1>1, SameRequest
     DEF ConnectTools, Reach, outer, work, IInv, StageInv, TypeOK, LoggedOnce, NoReply
<1>4. CASE ConnectFails
  BY <1>4, <1>1, SameRequest
     DEF ConnectFails, Reach, Leave, Raised, Noted, outer, work, IInv, StageInv, TypeOK,
         LoggedOnce, NoReply
<1>5. CASE CreateSession
  BY <1>5, <1>1, SameRequest
     DEF CreateSession, outer, work, IInv, StageInv, TypeOK, LoggedOnce, NoReply
<1>6. CASE CreateFails
  BY <1>6, <1>1, SameRequest
     DEF CreateFails, Leave, outer, work, IInv, StageInv, TypeOK, LoggedOnce, NoReply
<1>7. CASE ModelAnswers
  BY <1>7, <1>1, SameRequest
     DEF ModelAnswers, outer, work, IInv, StageInv, TypeOK, LoggedOnce, NoReply
<1>8. CASE RunEnds
  BY <1>8, <1>1, SameRequest
     DEF RunEnds, Leave, Idle, NoError, outer, work, IInv, StageInv, TypeOK, LoggedOnce,
         NoReply
<1>9. CASE RunFails
  BY <1>9, <1>1, SameRequest
     DEF RunFails, Leave, Raised, Noted, outer, work, IInv, StageInv, TypeOK, LoggedOnce,
         NoReply
<1>10. CASE DeleteSession
  BY <1>10, <1>1, SameRequest
     DEF DeleteSession, outer, work, IInv, StageInv, TypeOK, LoggedOnce, NoReply
<1>11. CASE CloseTools
  BY <1>11, <1>1, SameRequest
     DEF CloseTools, Raised, Chained, outer, work, IInv, StageInv, TypeOK, LoggedOnce, NoReply
<1>12. CASE TaskEnds
  BY <1>12, <1>1, SameRequest
     DEF TaskEnds, outer, work, IInv, StageInv, TypeOK, LoggedOnce, NoReply
<1>13. CASE Refuse
  BY <1>13, <1>1, SameRequest
     DEF Refuse, Decide, outer, work, IInv, StageInv, TypeOK, LoggedOnce, NoReply
<1>14. CASE RejectFields
  BY <1>14, <1>1, SameRequest
     DEF RejectFields, Decide, outer, work, IInv, StageInv, TypeOK, LoggedOnce, NoReply
<1>15. CASE Launch
  BY <1>15, <1>1, SameRequest
     DEF Launch, Reach, FieldsAllowed, outer, work, IInv, StageInv, TypeOK, LoggedOnce, NoReply
<1>16. CASE TimeOut
  BY <1>16, <1>1, SameRequest
     DEF TimeOut, Struck, Live, outer, work, IInv, StageInv, TypeOK, LoggedOnce, NoReply
<1>17. CASE Succeed
  BY <1>17, <1>1, SameRequest
     DEF Succeed, Decide, outer, work, IInv, StageInv, TypeOK, LoggedOnce, NoReply
<1>18. CASE Fail
  BY <1>18, <1>1, SameRequest
     DEF Fail, Decide, CodeOf, outer, work, IInv, StageInv, TypeOK, LoggedOnce, NoReply
<1>19. CASE SaveLog
  <2>1. logs = <<>> /\ reply' = reply
    BY <1>19 DEF SaveLog, IInv, StageInv
  <2>2. Append(logs, reply) = <<reply>>
    BY <2>1
  <2>3. logs' = Append(logs, reply) \/ (logs' = logs /\ "store" \in met')
    BY <1>19, Zenon DEF SaveLog
  <2>4. CASE logs' = <<reply>>
    <3>1. Len(logs') = 1 /\ logs'[1] = reply /\ logs' # <<>>
      BY <2>4
    <3> QED
      BY <2>1, <3>1 DEF LoggedOnce
  <2>5. CASE logs' = <<>> /\ "store" \in met'
    BY <2>5 DEF LoggedOnce
  <2> QED
    BY <2>1, <2>2, <2>3, <2>4, <2>5
<1>20. CASE Cancel
  BY <1>20, <1>1, SameRequest
     DEF Cancel, outer, work, IInv, StageInv, TypeOK, LoggedOnce, NoReply
<1>21. CASE CancelTask
  BY <1>21, <1>1, SameRequest
     DEF CancelTask, Struck, Live, outer, work, IInv, StageInv, TypeOK, LoggedOnce, NoReply
<1>22. CASE Abandon
  BY <1>22, <1>1, SameRequest
     DEF Abandon, outer, work, IInv, StageInv, TypeOK, LoggedOnce, NoReply
<1>23. CASE Cancelled
  BY <1>23, <1>1, SameRequest
     DEF Cancelled, outer, work, IInv, StageInv, TypeOK, LoggedOnce, NoReply
<1>24. CASE UNCHANGED vars
  BY <1>24, <1>1, SameRequest
     DEF vars, IInv, StageInv, TypeOK, LoggedOnce, NoReply
<1> QED
  BY <1>2, <1>3, <1>4, <1>5, <1>6, <1>7, <1>8, <1>9, <1>10, <1>11, <1>12, <1>13, <1>14, <1>15,
     <1>16, <1>17, <1>18, <1>19, <1>20, <1>21, <1>22, <1>23, <1>24
     DEF Next, TaskStep, Unwinding, Deciding, Cancelling

------------------------------------------------------------------------------
(* The theorems *)

LEMMA Start == Init => IInv
<1> SUFFICES ASSUME Init PROVE IInv
  OBVIOUS
<1>1. TypeOK
  <2>1. 0 \in 0..Len(Toolsets)
    BY ToolsetsType DEF Init
  <2>2. error \in [kind : Kind, rate : BOOLEAN]
    BY DEF Init, NoError, Kind
  <2>3. stack \in Seq(ToolSet \cup {Session}) /\ logs \in Seq(Result)
    BY DEF Init
  <2>4. reply \in Result \cup {NoReply}
    BY DEF Init
  <2>5. opened \subseteq ToolSet /\ met \subseteq {"store", "struck", "rate", "timeout", "close"}
    BY DEF Init
  <2>6. connected \in 0..Len(Toolsets)
    BY <2>1 DEF Init
  <2> QED
    BY <2>2, <2>3, <2>4, <2>5, <2>6 DEF Init, TypeOK
<1> QED
  BY <1>1 DEF Init, IInv, StageInv, FreshInv, StackInv, ErrorInv, OrderInv, SuccessIsEarned,
          TimeOutIsReported, RateLimitIsReported, RefusedIsHarmless, LoggedOnce, Decided,
          NoReply, NoError, Early

\* IInv is inductive.
LEMMA Inductive == Spec => []IInv
<1>1. IInv /\ [Next]_vars => IInv'
  <2> SUFFICES ASSUME IInv, [Next]_vars PROVE IInv'
    OBVIOUS
  <2>1. TypeOK /\ StageInv /\ OrderInv
    BY DEF IInv
  <2>2. TypeOK'
    BY <2>1, StepTypeOK
  <2> QED
    BY <2>2, StepStage, StepFresh, StepStack, StepError, StepOrder, StepSuccess, StepTimeOut,
       StepRate, StepRefused, StepLogged DEF IInv
<1> QED
  BY Start, <1>1, PTL DEF Spec

\* The state of an execution keeps its types.
THEOREM TypeCorrect == Spec => []TypeOK
<1>1. IInv => TypeOK
  BY DEF IInv
<1> QED
  BY Inductive, <1>1, PTL

\* However the task ends, its connections are told to close, and its session is
\* deleted unless the store failed or was cut.
THEOREM CleansUp == Spec => []NothingLeft
<1>1. IInv => NothingLeft
  BY DEF IInv, StackInv, NothingLeft
<1> QED
  BY Inductive, <1>1, PTL

\* The connections stay open until the session is deleted.
THEOREM ClosesLast == Spec => []OpenWhileNeeded
<1>1. IInv => OpenWhileNeeded
  <2> SUFFICES ASSUME IInv PROVE OpenWhileNeeded
    OBVIOUS
  <2>1. CASE task \in {"create", "run"}
    BY <2>1 DEF IInv, OrderInv, OpenWhileNeeded
  <2>2. CASE stack # <<>> /\ Head(stack) = Session
    <3>1. stack \in Seq(Calls)
      BY DEF IInv, TypeOK, Calls
    <3>2. 1 \in 1..Len(stack) /\ stack[1] = Session
      BY <2>2, <3>1, PopStack
    <3> QED
      BY <3>2 DEF IInv, OrderInv, OpenWhileNeeded
  <2> QED
    BY <2>1, <2>2 DEF OpenWhileNeeded
<1> QED
  BY Inductive, <1>1, PTL

\* A success was neither cut nor spoilt by its clean-up, and used its tools.
THEOREM HonestSuccess == Spec => []SuccessIsEarned
<1>1. IInv => SuccessIsEarned
  BY DEF IInv
<1> QED
  BY Inductive, <1>1, PTL

\* What the limit has cut is reported as a time-out.
THEOREM HonestTimeOut == Spec => []TimeOutIsReported
<1>1. IInv => TimeOutIsReported
  BY DEF IInv
<1> QED
  BY Inductive, <1>1, PTL

\* A 429 is reported as such, whatever the clean-up raises after it.
THEOREM HonestRateLimit == Spec => []RateLimitIsReported
<1>1. IInv => RateLimitIsReported
  BY DEF IInv
<1> QED
  BY Inductive, <1>1, PTL

\* The result that is returned tells what happened.
THEOREM HonestReport == Spec => []ReportIsHonest
<1>1. IInv => ReportIsHonest
  BY DEF IInv, ReportIsHonest
<1> QED
  BY Inductive, <1>1, PTL

\* A refused request has had no effect.
THEOREM HarmlessRefusal == Spec => []RefusedIsHarmless
<1>1. IInv => RefusedIsHarmless
  BY DEF IInv
<1> QED
  BY Inductive, <1>1, PTL

\* An execution is logged at most once, with the result it returns.
THEOREM OneLog == Spec => []LoggedOnce
<1>1. IInv => LoggedOnce
  BY DEF IInv
<1> QED
  BY Inductive, <1>1, PTL

=============================================================================
