------------------------------ MODULE ToolSends ------------------------------
(***************************************************************************)
(* A node that sends something once: the tools that post a message, mail   *)
(* it, or create a page, a row, an event, an issue or a file (tools/), as  *)
(* core/action_executor.py runs them.                                      *)
(*                                                                         *)
(* A run of such a tool makes at most three HTTP calls: it looks at the    *)
(* place it sends to, it writes, and it asks for details of what it wrote. *)
(* Some tools make a call that was answered with 429 again, once, and one  *)
(* follows redirects.  A run that fails is followed by another run of the  *)
(* same node: the back end asks again, and the duplicate guard (module     *)
(* Idempotency) lets it.                                                   *)
(*                                                                         *)
(* The services are external.  A write that is not answered, or answered   *)
(* with a server error, may have been carried out, may still be, or never. *)
(***************************************************************************)
EXTENDS Naturals

CONSTANTS
    Tools,          \* the tools of an instance, by their records
    MaxRuns,        \* bound: runs of the node
    MaxRedirects    \* _MAX_REDIRECTS of http_client.py

------------------------------------------------------------------------------
(* The tools.  looks: may the run look first?  again: may a 429 be waited   *)
(* for, and the call be made again?  tail: may a call follow the write?     *)
(* unread: the answer made of a 2xx reply without a readable body.          *)
(* status: is a reply that is not a success an error?  follows: is a        *)
(* redirect followed?                                                       *)

Tool ==
    [looks : SUBSET BOOLEAN, again : SUBSET BOOLEAN, tail : SUBSET BOOLEAN,
     unread : {"success", "error"}, status : BOOLEAN, follows : BOOLEAN]

\* One POST, whose status and body decide.
Post(unread) ==
    [looks |-> {FALSE}, again |-> {FALSE}, tail |-> {FALSE}, unread |-> unread,
     status |-> TRUE, follows |-> FALSE]

send_slack_message == Post("success")
send_discord_webhook == Post("success")
notion_create_page == Post("error")
notion_append_block == Post("error")
google_calendar_create == Post("error")
google_drive_upload == Post("error")
github_create_issue == Post("error")

\* Redirects are followed; whatever the status then is, the reply is handed on.
http_fetch == [Post("success") EXCEPT !.status = FALSE, !.follows = TRUE]

\* The aliases are read for a sender or a signature, labels are set if there are any.
gmail_send_email == [Post("success") EXCEPT !.looks = BOOLEAN, !.tail = BOOLEAN]

\* The schema is read first; a 429 is waited for if Retry-After is short.
notion_create_row == [Post("error") EXCEPT !.looks = {TRUE}, !.again = BOOLEAN]

\* The channel is read first; a body that is no JSON object counts as {}.
discord_send_channel_message == [Post("success") EXCEPT !.looks = {TRUE}, !.again = BOOLEAN]

\* The channel is read first, the permalink last; a body without "ok" counts as an error.
slack_send_channel_message ==
    [Post("error") EXCEPT !.looks = {TRUE}, !.again = {TRUE}, !.tail = {TRUE}]

AllTools ==
    {send_slack_message, send_discord_webhook, notion_create_page, notion_append_block,
     google_calendar_create, google_drive_upload, github_create_issue, http_fetch,
     gmail_send_email, notion_create_row, discord_send_channel_message, slack_send_channel_message}

\* Only a tool that hands every reply on follows redirects.
ASSUME ToolAssumption ==
    /\ Tools \subseteq Tool /\ \A t \in Tools : t.follows => ~t.status
    /\ MaxRuns \in Nat /\ MaxRedirects \in Nat \ {0}

------------------------------------------------------------------------------
VARIABLES
    tool,       \* the node's tool
    run,        \* the number of the node's present run
    pc,         \* the call the run makes
    attempt,    \* how often the call was made again: after a 429, or for a redirect
    asleep,     \* the run waits before it makes the call again
    answer,     \* what the run returned
    seen,       \* what each run has learned of its write
    dropped,    \* history: the runs that were cut after their write had been accepted
    sent,       \* copies the service has carried out
    late        \* copies the service may still carry out

vars == <<tool, run, pc, attempt, asleep, answer, seen, dropped, sent, late>>

Runs == 1..MaxRuns

\* "moved": a redirect; "silent": no reply before the client gives up.
Replies == {"ok", "unread", "moved", "refused", "busy", "broken", "silent"}

\* A copy is a request to write, made by a run in one of its attempts.
Copies == [run : Runs, attempt : 0..MaxRedirects]

Copy == [run |-> run, attempt |-> attempt]

TypeOK ==
    /\ tool \in Tools
    /\ run \in 0..MaxRuns
    /\ pc \in {"idle", "look", "write", "follow", "tail", "done"}
    /\ attempt \in 0..MaxRedirects
    /\ asleep \in BOOLEAN
    /\ answer \in {"none", "success", "error"}
    /\ seen \in [Runs -> Replies \cup {"none", "cut"}]
    /\ dropped \subseteq Runs
    /\ sent \subseteq Copies
    /\ late \subseteq Copies \ sent
    /\ asleep => pc \in {"look", "write", "tail"} /\ attempt = 1

Init ==
    /\ tool \in Tools
    /\ run = 0
    /\ pc = "idle"
    /\ attempt = 0
    /\ asleep = FALSE
    /\ answer = "none"
    /\ seen = [r \in Runs |-> "none"]
    /\ dropped = {}
    /\ sent = {}
    /\ late = {}

------------------------------------------------------------------------------
(* Steps of a run *)

Goto(place) == pc' = place /\ attempt' = 0 /\ asleep' = FALSE /\ UNCHANGED answer

\* Mutant of Return: the wait for a further attempt outlives the run.
ReturnAsleep(a) == pc' = "done" /\ answer' = a /\ UNCHANGED <<attempt, asleep>>

Return(a) == pc' = "done" /\ answer' = a /\ asleep' = FALSE /\ UNCHANGED attempt

\* The back end runs the node, for the first time or because it failed.
Start ==
    /\ pc = "idle" \/ (pc = "done" /\ answer = "error")
    /\ run < MaxRuns
    /\ run' = run + 1
    /\ answer' = "none"
    /\ attempt' = 0
    /\ asleep' = FALSE
    /\ \E looks \in tool.looks : pc' = IF looks THEN "look" ELSE "write"
    /\ UNCHANGED <<tool, seen, dropped, sent, late>>

\* The tool's checks of its arguments reject the run before it calls anything.
Refuse ==
    /\ pc = "idle" \/ (pc = "done" /\ answer = "error")
    /\ run < MaxRuns
    /\ run' = run + 1
    /\ Return("error")
    /\ UNCHANGED <<tool, seen, dropped, sent, late>>

\* Mutant of Waits: a call is made again and again.
WaitsEver(reply) == reply = "busy" /\ TRUE \in tool.again

\* Mutant of Waits: a server error is also waited for.
WaitsForServer(reply) == reply \in {"busy", "broken"} /\ attempt = 0 /\ TRUE \in tool.again

\* _call goes round once more.
Waits(reply) == reply = "busy" /\ attempt = 0 /\ TRUE \in tool.again

\* _call hands the reply on.
Final(reply) == reply = "busy" => attempt = 1 \/ FALSE \in tool.again

Sleep == asleep' = TRUE /\ attempt' = 1 /\ UNCHANGED <<pc, answer>>

Wake ==
    /\ asleep
    /\ asleep' = FALSE
    /\ UNCHANGED <<tool, run, pc, attempt, answer, seen, dropped, sent, late>>

\* The reply to a look; an acceptable one may still show that the place is not
\* one to send to.
Looked ==
    /\ pc = "look" /\ ~asleep
    /\ \E reply \in Replies :
         \/ Waits(reply) /\ Sleep
         \/ Final(reply) /\ reply = "ok" /\ Goto("write")
         \/ Final(reply) /\ Return("error")
    /\ UNCHANGED <<tool, run, seen, dropped, sent, late>>

\* What the service does with a copy that it replies to in this way.
Carried(reply) ==
    \/ reply \in {"ok", "unread"} /\ sent' = sent \cup {Copy} /\ UNCHANGED late
    \/ reply \in {"broken", "silent"} /\ late' = late \cup {Copy} /\ UNCHANGED sent
    \/ reply \notin {"ok", "unread"} /\ UNCHANGED <<sent, late>>

\* Mutant of AnswerOf: a reply that cannot be read is an error in every tool.
AnswerIfRead(reply) ==
    IF reply = "ok" \/ (~tool.status /\ reply \in {"refused", "busy", "broken"}) THEN "success" ELSE "error"

\* The answer that the tool makes of the reply to its write.
AnswerOf(reply) ==
    CASE reply = "ok" -> "success"
      [] reply = "unread" -> tool.unread
      [] reply \in {"refused", "busy", "broken"} -> IF tool.status THEN "error" ELSE "success"
      [] OTHER -> "error"

Wrote ==
    /\ pc = "write" /\ ~asleep
    /\ \E reply \in Replies \ {"moved"} :
         /\ Carried(reply)
         /\ seen' = [seen EXCEPT ![run] = reply]
         /\ \/ Waits(reply) /\ Sleep
            \/ Final(reply) /\ reply = "ok" /\ TRUE \in tool.tail /\ Goto("tail")
            \/ Final(reply) /\ (reply = "ok" => FALSE \in tool.tail) /\ Return(AnswerOf(reply))
    /\ UNCHANGED <<tool, run, dropped>>

\* httpx goes where the redirect points, or gives up: there were too many.
Redirect(place) ==
    IF attempt < MaxRedirects
      THEN pc' = place /\ attempt' = attempt + 1 /\ UNCHANGED <<asleep, answer>>
      ELSE Return("error")

\* The write is answered with a redirect: sent elsewhere (307, 308: it was not
\* carried out here), or the answer is to be fetched elsewhere (301 to 303: it
\* may have been carried out).
Moved ==
    /\ pc = "write" /\ ~asleep /\ tool.follows
    /\ seen' = [seen EXCEPT ![run] = "moved"]
    /\ \/ Redirect("write") /\ UNCHANGED sent
       \/ Redirect("follow") /\ sent' \in {sent, sent \cup {Copy}}
    /\ UNCHANGED <<tool, run, dropped, late>>

\* The reply to the call that fetches the answer.
Followed ==
    /\ pc = "follow"
    /\ \/ Redirect("follow")
       \/ \E reply \in Replies \ {"moved"} : Return(AnswerOf(reply))
    /\ UNCHANGED <<tool, run, seen, dropped, sent, late>>

\* What was sent was sent: the reply to the call after the write does not matter.
Tailed ==
    /\ pc = "tail" /\ ~asleep
    /\ \E reply \in Replies :
         \/ Waits(reply) /\ Sleep
         \/ Final(reply) /\ Return("success")
    /\ UNCHANGED <<tool, run, seen, dropped, sent, late>>

\* wait_for's limit strikes, or the request is cancelled, while no write is
\* under way.  The tools catch no cancellation, so that the run fails also when
\* its write has been accepted.
Cut ==
    /\ pc \in {"look", "follow", "tail"} \/ asleep
    /\ Return("error")
    /\ dropped' = IF pc = "tail" THEN dropped \cup {run} ELSE dropped
    /\ UNCHANGED <<tool, run, seen, sent, late>>

\* The same while the write is under way: it may be carried out or not.
CutWrite ==
    /\ pc = "write" /\ ~asleep
    /\ Return("error")
    /\ seen' = [seen EXCEPT ![run] = "cut"]
    /\ late' \in {late, late \cup {Copy}}
    /\ UNCHANGED <<tool, run, dropped, sent>>

\* A copy nobody waits for is carried out after all.
Arrive ==
    /\ \E c \in late : sent' = sent \cup {c} /\ late' = late \ {c}
    /\ UNCHANGED <<tool, run, pc, attempt, asleep, answer, seen, dropped>>

Running == Wake \/ Looked \/ Wrote \/ Moved \/ Followed \/ Tailed

Next == Start \/ Refuse \/ Running \/ Cut \/ CutWrite \/ Arrive

\* A run goes on: its calls have a time limit (_TIMEOUT), its sleep an end.
Spec == Init /\ [][Next]_vars /\ WF_vars(Running)

------------------------------------------------------------------------------
(* Properties *)

\* One run sends at most one copy, also when it makes its write again: the
\* service has not carried out what it answered with 429, and nothing else is
\* tried again (notion_rows.py:204).
OneCopyPerRun ==
    \A c, d \in sent \cup late : c.run = d.run => c = d

\* Runs whose node cannot know what became of the write: no reply to it, a
\* server error, a redirect, or a body that a tool which needs it could not read.
InDoubt ==
    {r \in Runs : \/ seen[r] \in {"cut", "silent", "broken", "moved"}
                  \/ seen[r] = "unread" /\ tool.unread = "error"}

\* The runs that returned an error: the present one, and all that were followed by another.
FailedRuns == {r \in Runs : r < run \/ (r = run /\ answer = "error")}

\* A failure that is followed by another run has sent nothing, now or later,
\* unless the run is in doubt or was dropped: no reply to a later call - a body
\* that cannot be read, a label or a link that cannot be had - makes a failure
\* of an accepted write, because the next run would send a second copy
\* (gmail.py:167, discord.py:33, slack_bot.py:77).  The time limit and a
\* cancellation do: a run they drop fails though its write was accepted
\* (action_executor.py:99).  And a success has sent its copy, unless the tool
\* hands every reply on.
AnswersAreHonest ==
    /\ \A r \in FailedRuns \ (InDoubt \cup dropped) : \A c \in sent \cup late : c.run # r
    /\ answer = "success" /\ tool.status => \E c \in sent : c.run = run

\* A service that goes on answering 429 does not hold a run for ever.
EveryRunAnswers == (pc \in {"look", "write", "follow", "tail"}) ~> (pc = "done")

==============================================================================
