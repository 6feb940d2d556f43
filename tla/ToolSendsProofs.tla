---------------------------- MODULE ToolSendsProofs ----------------------------
(***************************************************************************)
(* One write per run, and honest answers, for every set of tools and any   *)
(* number of runs.                                                         *)
(*                                                                         *)
(* OneCopyPerRun and AnswersAreHonest are not inductive: that no run sends *)
(* twice rests on there being no copy of the present run while it is about *)
(* to write (Unsent), and none of runs to come; that a failure has sent    *)
(* nothing rests on what the run has learned of its write before it        *)
(* returns (Learned).                                                      *)
(***************************************************************************)
EXTENDS ToolSends, TLAPS

\* Only runs that were begun have copies, and the present one has none before
\* its write is answered.
Unsent ==
    /\ \A c \in sent \cup late : c.run \leq run
    /\ pc \in {"look", "write"} => \A c \in sent \cup late : c.run # run

\* What a run knows at its places.
Learned ==
    /\ pc = "idle" => run = 0
    /\ pc # "idle" => run \in Runs
    /\ pc = "done" <=> answer # "none"
    /\ pc = "tail" => \E c \in sent : c.run = run
    /\ pc = "follow" => seen[run] = "moved" /\ ~tool.status
    /\ tool.status \in BOOLEAN

IInv == TypeOK /\ Unsent /\ Learned /\ OneCopyPerRun /\ AnswersAreHonest

\* The initial states have no copy and no run.
LEMMA InitInvariant == Init => IInv
<1> SUFFICES ASSUME Init PROVE IInv
  OBVIOUS
<1> USE ToolAssumption DEF Init
<1>1. TypeOK
  <2>1. run \in 0..MaxRuns
    OBVIOUS
  <2>2. seen \in [Runs -> Replies \cup {"none", "cut"}]
    OBVIOUS
  <2>3. asleep \in BOOLEAN /\ ~asleep
    OBVIOUS
  <2> QED
    BY <2>1, <2>2, <2>3 DEF TypeOK
<1>2. Unsent /\ OneCopyPerRun
  BY DEF Unsent, OneCopyPerRun
<1>3. Learned
  BY DEF Learned, Tool
<1>4. AnswersAreHonest
  BY DEF AnswersAreHonest, FailedRuns, InDoubt, Runs
<1> QED
  BY <1>1, <1>2, <1>3, <1>4 DEF IInv

\* A copy that the present run makes is one.
LEMMA CopyType == TypeOK /\ run \in Runs => Copy \in Copies /\ Copy.run = run
  BY DEF TypeOK, Copies, Copy

\* The types hold on.
LEMMA TypeStep == IInv /\ [Next]_vars => TypeOK'
<1> SUFFICES ASSUME IInv, [Next]_vars PROVE TypeOK'
  OBVIOUS
<1>1. TypeOK /\ Learned
  BY DEF IInv
<1>2. Copy \in Copies \/ pc = "idle"
  BY <1>1, CopyType DEF Learned
<1>r. {0, 1} \subseteq 0..MaxRedirects
  BY ToolAssumption
<1> USE ToolAssumption DEF TypeOK
<1>3. CASE Start
  <2>1. run' \in 0..MaxRuns
    BY <1>1, <1>3 DEF Start
  <2>2. asleep' \in BOOLEAN /\ ~asleep'
    BY <1>3 DEF Start
  <2>3. pc' \in {"look", "write"} /\ attempt' = 0 /\ answer' = "none"
    BY <1>3 DEF Start
  <2> QED
    BY <1>1, <1>3, <2>1, <2>2, <2>3 DEF Start
<1>4. CASE Refuse
  <2>1. run' \in 0..MaxRuns
    BY <1>1, <1>4 DEF Refuse
  <2>2. asleep' \in BOOLEAN /\ ~asleep'
    BY <1>4 DEF Refuse, Return
  <2> QED
    BY <1>1, <1>4, <2>1, <2>2 DEF Refuse, Return
<1>5. CASE Wake
  BY <1>1, <1>5 DEF Wake
<1>6. CASE Looked
  BY <1>1, <1>r, <1>6 DEF Looked, Sleep, Goto, Return
<1>7. CASE Wrote
  <2>1. PICK reply \in Replies :
          /\ Carried(reply)
          /\ seen' = [seen EXCEPT ![run] = reply]
          /\ \/ Waits(reply) /\ Sleep
             \/ Final(reply) /\ reply = "ok" /\ TRUE \in tool.tail /\ Goto("tail")
             \/ Final(reply) /\ (reply = "ok" => FALSE \in tool.tail) /\ Return(AnswerOf(reply))
    BY <1>7 DEF Wrote
  <2>2. tool' = tool /\ run' = run /\ dropped' = dropped /\ pc = "write" /\ ~asleep
    BY <1>7 DEF Wrote
  <2>3. seen' \in [Runs -> Replies \cup {"none", "cut"}]
    BY <1>1, <2>1
  <2>4. Copy \notin sent \cup late
    BY <1>1, <1>2, <2>2, CopyType DEF IInv, Unsent, Learned
  <2>5. sent' \subseteq Copies /\ late' \subseteq Copies \ sent'
    BY <1>1, <1>2, <2>1, <2>2, <2>4 DEF Carried
  <2>6. AnswerOf(reply) \in {"success", "error"}
    <3>1. tool.unread \in {"success", "error"}
      BY <1>1 DEF Tool
    <3> QED
      BY <3>1, <2>1 DEF AnswerOf, Replies
  <2>7. /\ pc' \in {"idle", "look", "write", "tail", "done"} /\ attempt' \in 0..MaxRedirects /\ asleep' \in BOOLEAN
        /\ answer' \in {"none", "success", "error"}
        /\ asleep' => pc' \in {"look", "write", "tail"} /\ attempt' = 1
    BY <1>1, <1>r, <2>1, <2>2, <2>6 DEF Sleep, Goto, Return
  <2> QED
    BY <1>1, <2>2, <2>3, <2>5, <2>7
<1>8. CASE Tailed
  BY <1>1, <1>r, <1>8 DEF Tailed, Sleep, Return
<1>m. CASE Moved
  <2>1. attempt' \in 0..MaxRedirects /\ pc' \in {"write", "follow", "done"} /\ asleep' = FALSE
        /\ answer' \in {"none", "success", "error"}
    <3>1. \/ attempt < MaxRedirects /\ attempt' = attempt + 1 /\ pc' \in {"write", "follow"}
             /\ asleep' = asleep /\ answer' = answer
          \/ Return("error")
      BY <1>m DEF Moved, Redirect
    <3>2. attempt \in 0..MaxRedirects /\ MaxRedirects \in Nat /\ ~asleep
      BY <1>1, <1>m DEF Moved
    <3> QED
      BY <1>1, <3>1, <3>2 DEF Return
  <2>2. tool' = tool /\ run' = run /\ dropped' = dropped /\ late' = late /\ pc = "write"
        /\ seen' = [seen EXCEPT ![run] = "moved"] /\ sent' \in {sent, sent \cup {Copy}}
    BY <1>m DEF Moved
  <2>3. Copy \notin sent \cup late
    BY <1>1, <1>2, <2>2, CopyType DEF IInv, Unsent, Learned
  <2>4. seen' \in [Runs -> Replies \cup {"none", "cut"}]
    BY <1>1, <2>2 DEF Replies
  <2> QED
    BY <1>1, <1>2, <2>1, <2>2, <2>3, <2>4
<1>f. CASE Followed
  <2>1. attempt' \in 0..MaxRedirects /\ pc' \in {"follow", "done"} /\ asleep' = FALSE
        /\ answer' \in {"none", "success", "error"}
    <3>1. \/ attempt < MaxRedirects /\ attempt' = attempt + 1 /\ pc' = "follow"
             /\ asleep' = asleep /\ answer' = answer
          \/ Return("error")
          \/ \E reply \in Replies \ {"moved"} : Return(AnswerOf(reply))
      BY <1>f DEF Followed, Redirect
    <3>2. attempt \in 0..MaxRedirects /\ MaxRedirects \in Nat /\ ~asleep
      BY <1>1, <1>f DEF Followed
    <3>3. tool.unread \in {"success", "error"}
      BY <1>1 DEF Tool
    <3>4. \A reply \in Replies : AnswerOf(reply) \in {"success", "error"}
      BY <3>3 DEF AnswerOf, Replies
    <3> QED
      BY <1>1, <3>1, <3>2, <3>4 DEF Return
  <2>2. UNCHANGED <<tool, run, seen, dropped, sent, late>>
    BY <1>f DEF Followed
  <2> QED
    BY <1>1, <2>1, <2>2
<1>9. CASE Cut
  <2>1. dropped' \subseteq Runs
    BY <1>1, <1>9 DEF Cut, IInv, Learned
  <2> QED
    BY <1>1, <1>9, <2>1 DEF Cut, Return
<1>10. CASE CutWrite
  <2>1. Copy \notin sent
    BY <1>1, <1>2, <1>10, CopyType DEF CutWrite, IInv, Unsent, Learned
  <2> QED
    BY <1>1, <1>2, <1>10, <2>1 DEF CutWrite, Return
<1>11. CASE Arrive
  BY <1>1, <1>11 DEF Arrive
<1>12. CASE UNCHANGED vars
  BY <1>1, <1>12 DEF vars
<1> QED
  BY <1>3, <1>4, <1>5, <1>6, <1>7, <1>8, <1>m, <1>f, <1>9, <1>10, <1>11, <1>12 DEF Next, Running

\* No step makes a copy of a run to come, or of the present one before its
\* write is answered.
LEMMA UnsentStep == IInv /\ [Next]_vars => Unsent'
<1> SUFFICES ASSUME IInv, [Next]_vars PROVE Unsent'
  OBVIOUS
<1>1. TypeOK /\ Unsent /\ Learned
  BY DEF IInv
<1>2. run \in Nat /\ \A c \in sent \cup late : c.run \in Nat
  BY <1>1, ToolAssumption DEF TypeOK, Copies, Runs
<1>3. pc # "idle" => Copy.run = run
  BY <1>1, CopyType DEF Learned
<1> USE DEF Unsent
<1>4. CASE Start
  BY <1>1, <1>2, <1>4 DEF Start
<1>5. CASE Refuse
  BY <1>1, <1>2, <1>5 DEF Refuse, Return
<1>6. CASE Wake
  BY <1>1, <1>6 DEF Wake
<1>7. CASE Looked
  BY <1>1, <1>7 DEF Looked, Sleep, Goto, Return
<1>8. CASE Wrote
  <2>1. pc = "write" /\ run' = run
    BY <1>8 DEF Wrote
  <2>2. sent' \cup late' \subseteq sent \cup late \cup {Copy}
    BY <1>8 DEF Wrote, Carried
  <2>3. pc' = "write" => sent' = sent /\ late' = late
    BY <1>8, <2>1 DEF Wrote, Carried, Waits, Sleep, Goto, Return
  <2>4. pc' # "look"
    BY <1>8, <2>1 DEF Wrote, Sleep, Goto, Return
  <2> QED
    BY <1>1, <1>2, <1>3, <2>1, <2>2, <2>3, <2>4
<1>9. CASE Tailed
  BY <1>1, <1>9 DEF Tailed, Sleep, Return
<1>m. CASE Moved
  <2>1. pc = "write" /\ run' = run /\ late' = late
    BY <1>m DEF Moved
  <2>2. sent' \subseteq sent \cup {Copy} /\ (pc' \in {"look", "write"} => sent' = sent)
    BY <1>m DEF Moved, Redirect, Return
  <2> QED
    BY <1>1, <1>2, <1>3, <2>1, <2>2
<1>f. CASE Followed
  BY <1>1, <1>f DEF Followed, Redirect, Return
<1>10. CASE Cut
  BY <1>1, <1>10 DEF Cut, Return
<1>11. CASE CutWrite
  BY <1>1, <1>2, <1>3, <1>11 DEF CutWrite, Return
<1>12. CASE Arrive
  BY <1>1, <1>12 DEF Arrive
<1>13. CASE UNCHANGED vars
  BY <1>1, <1>13 DEF vars
<1> QED
  BY <1>4, <1>5, <1>6, <1>7, <1>8, <1>9, <1>m, <1>f, <1>10, <1>11, <1>12, <1>13 DEF Next, Running

\* What a run knows at its places holds on.
LEMMA LearnedStep == IInv /\ [Next]_vars => Learned'
<1> SUFFICES ASSUME IInv, [Next]_vars PROVE Learned'
  OBVIOUS
<1>1. TypeOK /\ Learned
  BY DEF IInv
<1>2. run \in Nat /\ MaxRuns \in Nat
  BY <1>1, ToolAssumption DEF TypeOK
<1>3. pc # "idle" => Copy.run = run
  BY <1>1, CopyType DEF Learned
<1>4. tool' = tool
  BY DEF Next, Running, Start, Refuse, Wake, Looked, Wrote, Moved, Followed, Redirect, Tailed, Cut, CutWrite, Arrive, vars
<1>5. tool'.status \in BOOLEAN
  BY <1>1, <1>4 DEF Learned
<1>6. (pc' = "idle" => run' = 0) /\ (pc' # "idle" => run' \in Runs)
  <2>1. CASE Start \/ Refuse
    <3>1. run' = run + 1 /\ run < MaxRuns
      BY <2>1 DEF Start, Refuse
    <3>2. pc' # "idle"
      BY <2>1 DEF Start, Refuse, Return
    <3> QED
      BY <1>2, <3>1, <3>2 DEF Runs
  <2>2. CASE ~(Start \/ Refuse)
    <3>1. run' = run /\ (pc' = pc \/ (pc # "idle" /\ pc' # "idle"))
      BY <1>1, <2>2
        DEF TypeOK, Next, Running, Wake, Looked, Wrote, Moved, Followed, Redirect, Tailed, Cut, CutWrite, Arrive, vars, Sleep, Goto, Return
    <3> QED
      BY <1>1, <3>1 DEF Learned
  <2> QED
    BY <2>1, <2>2
<1>7. pc' = "done" <=> answer' # "none"
  <2>1. CASE Wrote
    <3>1. PICK reply \in Replies :
            \/ Sleep
            \/ Goto("tail")
            \/ Return(AnswerOf(reply))
      BY <2>1 DEF Wrote
    <3>2. AnswerOf(reply) # "none"
      <4>1. tool.unread # "none"
        BY <1>1, ToolAssumption DEF TypeOK, Tool
      <4> QED
        BY <4>1, <3>1 DEF AnswerOf
    <3>3. pc = "write"
      BY <2>1 DEF Wrote
    <3> QED
      BY <1>1, <3>1, <3>2, <3>3 DEF Learned, Sleep, Goto, Return
  <2>2. CASE Followed
    <3>1. Redirect("follow") \/ \E reply \in Replies : Return(AnswerOf(reply))
      BY <2>2 DEF Followed
    <3>2. \A reply \in Replies : AnswerOf(reply) # "none"
      <4>1. tool.unread # "none"
        BY <1>1, ToolAssumption DEF TypeOK, Tool
      <4> QED
        BY <4>1 DEF AnswerOf
    <3>3. pc = "follow"
      BY <2>2 DEF Followed
    <3> QED
      BY <1>1, <3>1, <3>2, <3>3 DEF Learned, Redirect, Return
  <2>3. CASE ~Wrote /\ ~Followed
    BY <1>1, <2>3
      DEF Learned, Next, Running, Start, Refuse, Wake, Looked, Moved, Redirect, Tailed, Cut, CutWrite, Arrive, vars, Sleep, Goto, Return
  <2> QED
    BY <2>1, <2>2, <2>3
<1>8. pc' = "tail" => \E c \in sent' : c.run = run'
  <2>1. CASE Wrote
    BY <1>1, <1>3, <2>1 DEF Wrote, Carried, Sleep, Goto, Return
  <2>2. CASE ~Wrote
    BY <1>1, <2>2
      DEF Learned, Next, Running, Start, Refuse, Wake, Looked, Moved, Followed, Redirect, Tailed, Cut, CutWrite, Arrive, vars, Sleep, Goto, Return
  <2> QED
    BY <2>1, <2>2
<1>9. pc' = "follow" => seen'[run'] = "moved" /\ ~tool'.status
  <2>1. CASE Moved
    <3>1. run \in Runs /\ run' = run /\ seen' = [seen EXCEPT ![run] = "moved"] /\ ~tool.status
      BY <1>1, <2>1, ToolAssumption DEF Moved, Learned, TypeOK
    <3> QED
      BY <1>1, <1>4, <3>1 DEF TypeOK
  <2>2. CASE ~Moved
    BY <1>1, <1>4, <2>2
      DEF Learned, Next, Running, Start, Refuse, Wake, Looked, Wrote, Followed, Redirect, Tailed, Cut, CutWrite, Arrive, vars, Sleep, Goto, Return
  <2> QED
    BY <2>1, <2>2
<1> QED
  BY <1>5, <1>6, <1>7, <1>8, <1>9 DEF Learned

\* A run that has a copy makes no other one.
LEMMA OneCopyStep == IInv /\ [Next]_vars => OneCopyPerRun'
<1> SUFFICES ASSUME IInv, [Next]_vars PROVE OneCopyPerRun'
  OBVIOUS
<1>1. TypeOK /\ Unsent /\ Learned /\ OneCopyPerRun
  BY DEF IInv
<1>2. \/ sent' \cup late' \subseteq sent \cup late
      \/ pc = "write" /\ sent' \cup late' \subseteq sent \cup late \cup {Copy}
  BY DEF Next, Running, Start, Refuse, Wake, Looked, Wrote, Moved, Followed, Redirect, Tailed, Cut, CutWrite, Arrive, vars, Carried
<1>3. pc # "idle" => Copy.run = run
  BY <1>1, CopyType DEF Learned
<1> QED
  BY <1>1, <1>2, <1>3 DEF Unsent, OneCopyPerRun

\* A failure that leaves a copy is in doubt or dropped, and a success has left one.
LEMMA HonestStep == IInv /\ [Next]_vars => AnswersAreHonest'
<1> SUFFICES ASSUME IInv, [Next]_vars PROVE AnswersAreHonest'
  OBVIOUS
<1>1. TypeOK /\ Unsent /\ Learned /\ AnswersAreHonest
  BY DEF IInv
<1>2. /\ run \in Nat /\ MaxRuns \in Nat
      /\ pc # "idle" => Copy.run = run /\ run \in Runs
      /\ seen \in [Runs -> Replies \cup {"none", "cut"}]
      /\ tool' = tool
  <2>1. run \in Nat /\ MaxRuns \in Nat /\ seen \in [Runs -> Replies \cup {"none", "cut"}]
    BY <1>1, ToolAssumption DEF TypeOK
  <2>2. pc # "idle" => Copy.run = run /\ run \in Runs
    BY <1>1, CopyType DEF Learned
  <2>3. tool' = tool
    BY DEF Next, Running, Start, Refuse, Wake, Looked, Wrote, Moved, Followed, Redirect, Tailed, Cut, CutWrite, Arrive, vars
  <2> QED
    BY <2>1, <2>2, <2>3
\* Steps that leave the copies and what was learned alone, and do not fail the
\* run after its write.
<1>3. ASSUME sent' \cup late' = sent \cup late, sent \subseteq sent', seen' = seen, dropped' = dropped,
             FailedRuns' \subseteq FailedRuns \cup {r \in Runs : \A c \in sent \cup late : c.run # r},
             answer' = "success" /\ tool.status => \E c \in sent' : c.run = run'
      PROVE  AnswersAreHonest'
  BY <1>1, <1>2, <1>3 DEF AnswersAreHonest, InDoubt
<1>4. CASE Start \/ Refuse
  <2>1. sent' = sent /\ late' = late /\ seen' = seen /\ dropped' = dropped /\ run' = run + 1 /\ answer' # "success"
    BY <1>4 DEF Start, Refuse, Return
  <2>2. \A r \in Runs : r \leq run => r \in FailedRuns
    BY <1>1, <1>2, <1>4 DEF Start, Refuse, FailedRuns, Learned, Runs
  <2>3. \A r \in FailedRuns' : r \in FailedRuns \/ \A c \in sent \cup late : c.run # r
    <3> SUFFICES ASSUME NEW r \in FailedRuns', r \notin FailedRuns PROVE \A c \in sent \cup late : c.run # r
      OBVIOUS
    <3>1. r \in Runs /\ r = run + 1
      BY <1>2, <2>1, <2>2 DEF FailedRuns, Runs
    <3>2. \A c \in sent \cup late : c.run \in Nat /\ c.run \leq run
      BY <1>1 DEF Unsent, TypeOK, Copies, Runs
    <3> QED
      BY <1>2, <3>1, <3>2
  <2> QED
    BY <1>3, <2>1, <2>3 DEF FailedRuns
<1>5. CASE Wake \/ Looked
  <2>1. /\ sent' = sent /\ late' = late /\ seen' = seen /\ dropped' = dropped /\ run' = run
        /\ answer' = answer \/ (answer' = "error" /\ pc = "look")
    BY <1>5 DEF Wake, Looked, Sleep, Goto, Return
  <2>2. \A r \in FailedRuns' : r \in FailedRuns \/ \A c \in sent \cup late : c.run # r
    BY <1>1, <2>1 DEF FailedRuns, Unsent
  <2> QED
    BY <1>1, <1>3, <2>1, <2>2 DEF FailedRuns, AnswersAreHonest
<1>6. CASE Wrote
  <2>1. PICK reply \in Replies :
          /\ Carried(reply)
          /\ seen' = [seen EXCEPT ![run] = reply]
          /\ \/ Waits(reply) /\ Sleep
             \/ Final(reply) /\ reply = "ok" /\ TRUE \in tool.tail /\ Goto("tail")
             \/ Final(reply) /\ (reply = "ok" => FALSE \in tool.tail) /\ Return(AnswerOf(reply))
    BY <1>6 DEF Wrote
  <2>2. pc = "write" /\ run' = run /\ answer = "none" /\ dropped' = dropped
    BY <1>1, <1>6 DEF Wrote, Learned
  <2>3. \A c \in sent \cup late : c.run # run
    BY <1>1, <2>2 DEF Unsent
  <2>4. ASSUME NEW r \in FailedRuns' \ (InDoubt' \cup dropped'), NEW c \in sent' \cup late' PROVE c.run # r
    <3>1. CASE r # run
      <4>1. r \in FailedRuns \ (InDoubt \cup dropped)
        BY <1>2, <2>1, <2>2, <2>4, <3>1 DEF FailedRuns, InDoubt
      <4>2. c \in sent \cup late \cup {Copy}
        BY <2>1, <2>4 DEF Carried
      <4> QED
        BY <1>1, <1>2, <2>2, <3>1, <4>1, <4>2 DEF AnswersAreHonest
    <3>2. CASE r = run
      <4>1. answer' = "error" /\ seen'[run] = reply
        BY <1>2, <2>1, <2>2, <2>4, <3>2 DEF FailedRuns, Runs
      <4>2. reply \notin {"silent", "broken"} /\ ~(reply = "unread" /\ tool.unread = "error")
        BY <1>2, <2>4, <3>2, <4>1 DEF InDoubt, FailedRuns
      <4>3. answer' = AnswerOf(reply)
        BY <2>1, <2>2, <4>1 DEF Sleep, Goto, Return
      <4>4. reply \notin {"ok", "unread"}
        <5>1. tool.unread \in {"success", "error"}
          BY <1>1, ToolAssumption DEF TypeOK, Tool
        <5> QED
          BY <4>1, <4>2, <4>3, <5>1 DEF AnswerOf
      <4>5. sent' = sent /\ late' = late
        BY <2>1, <4>2, <4>4 DEF Carried
      <4> QED
        BY <2>3, <2>4, <3>2, <4>5
    <3> QED
      BY <3>1, <3>2
  <2>5. ASSUME answer' = "success", tool.status PROVE \E c \in sent' : c.run = run
    <3>1. answer' = AnswerOf(reply)
      BY <2>1, <2>2, <2>5 DEF Sleep, Goto, Return
    <3>2. reply \in {"ok", "unread"}
      BY <2>1, <2>5, <3>1 DEF AnswerOf, Replies
    <3> QED
      BY <1>2, <2>1, <2>2, <3>2 DEF Carried
  <2> QED
    BY <1>2, <2>2, <2>4, <2>5 DEF AnswersAreHonest
<1>m. CASE Moved
  <2>1. run' = run /\ late' = late /\ sent' \subseteq sent \cup {Copy} /\ dropped' = dropped
        /\ seen' = [seen EXCEPT ![run] = "moved"] /\ pc # "idle" /\ answer' # "success"
    BY <1>1, <1>m DEF Moved, Redirect, Return, Learned
  <2>2. run \in InDoubt'
    BY <1>2, <2>1 DEF InDoubt
  <2>3. ASSUME NEW r \in FailedRuns' \ (InDoubt' \cup dropped'), NEW c \in sent' \cup late' PROVE c.run # r
    <3>1. r # run /\ r \in FailedRuns \ (InDoubt \cup dropped)
      BY <1>2, <2>1, <2>2, <2>3 DEF FailedRuns, InDoubt
    <3> QED
      BY <1>1, <1>2, <2>1, <3>1 DEF AnswersAreHonest
  <2> QED
    BY <2>1, <2>3 DEF AnswersAreHonest
<1>f. CASE Followed
  <2>1. UNCHANGED <<tool, run, seen, dropped, sent, late>> /\ pc = "follow"
    BY <1>f DEF Followed
  <2>2. run \in InDoubt /\ ~tool.status
    BY <1>1, <1>2, <2>1 DEF Learned, InDoubt
  <2> QED
    BY <1>1, <2>1, <2>2 DEF AnswersAreHonest, FailedRuns, InDoubt
<1>7. CASE Tailed
  <2>1. /\ sent' = sent /\ late' = late /\ seen' = seen /\ dropped' = dropped /\ run' = run /\ pc = "tail"
        /\ answer' = answer \/ answer' = "success"
    BY <1>7 DEF Tailed, Sleep, Return
  <2>2. \E c \in sent : c.run = run
    BY <1>1, <2>1 DEF Learned
  <2> QED
    BY <1>3, <2>1, <2>2 DEF FailedRuns
<1>8. CASE Cut \/ CutWrite
  <2>1. /\ sent' = sent /\ run' = run /\ answer' = "error" /\ pc # "idle"
        /\ dropped \subseteq dropped' /\ dropped' \subseteq dropped \cup {run}
        /\ \A r \in Runs : r # run => seen'[r] = seen[r]
        /\ late' = late \/ (late' = late \cup {Copy} /\ run \in InDoubt')
        /\ pc \in {"look", "write"} \/ run \in InDoubt' \cup dropped'
    <3>1. CASE CutWrite
      BY <1>1, <1>2, <3>1 DEF CutWrite, Return, InDoubt
    <3>2. CASE Cut
      <4>1. pc \in {"look", "write", "follow", "tail"} /\ seen' = seen
        BY <1>1, <3>2 DEF Cut, TypeOK
      <4>2. CASE pc = "follow"
        BY <1>1, <1>2, <3>2, <4>1, <4>2 DEF Cut, Return, InDoubt, Learned
      <4>3. CASE pc = "tail"
        BY <3>2, <4>1, <4>3 DEF Cut, Return
      <4>4. CASE pc \in {"look", "write"}
        BY <3>2, <4>1, <4>4 DEF Cut, Return
      <4> QED
        BY <4>1, <4>2, <4>3, <4>4
    <3> QED
      BY <1>8, <3>1, <3>2
  <2>2. ASSUME NEW r \in FailedRuns' \ (InDoubt' \cup dropped'), NEW c \in sent' \cup late' PROVE c.run # r
    <3>1. CASE r # run
      <4>1. r \in FailedRuns \ (InDoubt \cup dropped)
        BY <1>2, <2>1, <2>2, <3>1 DEF FailedRuns, InDoubt
      <4> QED
        BY <1>1, <1>2, <2>1, <3>1, <4>1 DEF AnswersAreHonest
    <3>2. CASE r = run
      <4>1. pc \in {"look", "write"} /\ late' = late
        BY <2>1, <2>2, <3>2
      <4> QED
        BY <1>1, <2>1, <3>2, <4>1 DEF Unsent
    <3> QED
      BY <3>1, <3>2
  <2> QED
    BY <2>1, <2>2 DEF AnswersAreHonest
<1>9. CASE Arrive
  <2>1. sent' \cup late' = sent \cup late /\ sent \subseteq sent' /\ seen' = seen /\ dropped' = dropped /\ run' = run /\ answer' = answer
    BY <1>9 DEF Arrive
  <2> QED
    BY <1>1, <1>3, <2>1 DEF FailedRuns, AnswersAreHonest
<1>10. CASE UNCHANGED vars
  BY <1>1, <1>3, <1>10 DEF vars, FailedRuns, AnswersAreHonest
<1> QED
  BY <1>4, <1>5, <1>6, <1>m, <1>f, <1>7, <1>8, <1>9, <1>10 DEF Next, Running

\* The invariant holds in every state.
THEOREM Invariant == Spec => []IInv
<1>1. IInv /\ [Next]_vars => IInv'
  BY TypeStep, UnsentStep, LearnedStep, OneCopyStep, HonestStep DEF IInv
<1> QED
  BY <1>1, InitInvariant, PTL DEF Spec

\* The variables keep their types, whichever tools there are.
THEOREM TypeCorrect == Spec => []TypeOK
<1>1. IInv => TypeOK
  BY DEF IInv
<1> QED
  BY <1>1, Invariant, PTL

\* A run never has two copies at the service, also when it makes its write again.
THEOREM AtMostOneCopy == Spec => []OneCopyPerRun
<1>1. IInv => OneCopyPerRun
  BY DEF IInv
<1> QED
  BY <1>1, Invariant, PTL

\* A failure that may be followed by another run has sent nothing, unless the
\* run is in doubt about its write, or the time limit or a cancellation dropped
\* it after its write had been accepted; a success has sent its copy.
THEOREM HonestAnswers == Spec => []AnswersAreHonest
<1>1. IInv => AnswersAreHonest
  BY DEF IInv
<1> QED
  BY <1>1, Invariant, PTL

=============================================================================
