----------------------------- MODULE Idempotency -----------------------------
(***************************************************************************)
(* The duplicate-execution guard: db/idempotency.py and the two routes     *)
(* that use it, api/routes/execute.py and api/routes/actions.py.           *)
(*                                                                         *)
(* A request is a coroutine; every await on MongoDB or on the execution is *)
(* a point where other requests run, so each of them is a value of pc.     *)
(* MongoDB is external: an operation is applied atomically or not at all,  *)
(* and it may report an error (PyMongoError) in both cases.  Time is       *)
(* counted in ticks.                                                       *)
(***************************************************************************)
EXTENDS Naturals

CONSTANTS
    Request,        \* requests, each one attempt of one node execution
    Key,            \* values of X-Idempotency-Key
    KeyOf,          \* the key of a request, NoKey when the header is absent
    NoKey,
    Nobody,
    InFlightTTL,    \* IN_FLIGHT_TTL_SECONDS, in ticks
    CompletedTTL,   \* COMPLETED_TTL_SECONDS, in ticks
    HandlerLimit    \* the longest a request lives, in ticks (AGENT_TIMEOUT and the store's own timeouts)

ASSUME KeysAssumption ==
    /\ KeyOf \in [Request -> Key \cup {NoKey}]
    /\ NoKey \notin Key
    /\ Nobody \notin Request

\* "IN_FLIGHT TTL is for process death": a live request finishes well before
\* its record expires (150 s against 600 s).
ASSUME TimingAssumption ==
    /\ InFlightTTL \in Nat /\ CompletedTTL \in Nat /\ HandlerLimit \in Nat
    /\ HandlerLimit < InFlightTTL

VARIABLES
    rec,        \* rec[k]: the document of collection idempotency_records
    pc,         \* where a request is suspended
    claimed,    \* the route's local `claimed'
    success,    \* result.success of a finished execution
    answer,     \* what the caller received
    elapsed,    \* ticks since the request arrived
    effect,     \* requests whose execution has had its side effect
    straggler,  \* requests that were answered while a worker thread still runs
    excuse      \* history: per key, what went wrong so far

vars == <<rec, pc, claimed, success, answer, elapsed, effect, straggler, excuse>>

------------------------------------------------------------------------------
Absent == [status |-> "ABSENT", by |-> Nobody, ttl |-> 0]

Record == [status : {"ABSENT", "IN_PROGRESS", "COMPLETED"},
           by     : Request \cup {Nobody},  \* whose response it is; before that, who inserted it
           ttl    : Nat]                    \* ticks until expiresAt

Silent == [kind |-> "none", from |-> Nobody]

Answer == [kind : {"none", "own", "cached", "duplicate", "raised"},
           from : Request \cup {Nobody}]

Excuse == {"mongo", "unreadable", "expired", "failed"}

Live == {"insert", "find", "run", "complete", "release", "shielded"}

\* The states in which a request that claimed its key still owes complete() or release().
Holding == {"run", "complete", "release", "shielded"}

holders == {r \in Request : claimed[r] /\ pc[r] \in Holding}

TypeOK ==
    /\ rec \in [Key -> Record]
    /\ pc \in [Request -> Live \cup {"idle", "replied", "dead"}]
    /\ claimed \in [Request -> BOOLEAN]
    /\ success \in [Request -> BOOLEAN]
    /\ answer \in [Request -> Answer]
    /\ elapsed \in [Request -> Nat]
    /\ effect \subseteq Request
    /\ straggler \subseteq Request
    /\ excuse \in [Key -> SUBSET Excuse]

Init ==
    /\ rec = [k \in Key |-> Absent]
    /\ pc = [r \in Request |-> "idle"]
    /\ claimed = [r \in Request |-> FALSE]
    /\ success = [r \in Request |-> FALSE]
    /\ answer = [r \in Request |-> Silent]
    /\ elapsed = [r \in Request |-> 0]
    /\ effect = {}
    /\ straggler = {}
    /\ excuse = [k \in Key |-> {}]

------------------------------------------------------------------------------
(* Helpers *)

Goto(r, from, to) == pc[r] = from /\ pc' = [pc EXCEPT ![r] = to]

Reply(r, kind, from) == answer' = [answer EXCEPT ![r] = [kind |-> kind, from |-> from]]

Blame(k, why) == excuse' = [excuse EXCEPT ![k] = @ \cup {why}]

\* Mutant of Inserted: an upsert in the place of the insert.
Upserted(r) ==
    rec' = [rec EXCEPT ![KeyOf[r]] =
              [status |-> "IN_PROGRESS", by |-> r, ttl |-> InFlightTTL - elapsed[r]]]

\* insert_one: the document carries the expiry computed when the request arrived.
Inserted(r) ==
    /\ rec[KeyOf[r]].status = "ABSENT"
    /\ rec' = [rec EXCEPT ![KeyOf[r]] =
                 [status |-> "IN_PROGRESS", by |-> r, ttl |-> InFlightTTL - elapsed[r]]]

\* update_one({_id: key}, {$set: ...}): no upsert, and no check of who inserted the document.
Completed(r) ==
    IF rec[KeyOf[r]].status = "ABSENT"
      THEN UNCHANGED rec
      ELSE rec' = [rec EXCEPT ![KeyOf[r]] =
                     [status |-> "COMPLETED", by |-> r, ttl |-> CompletedTTL]]

\* Mutant of Deleted: the document is kept, marked as failed.
MarkedFailed(r) == rec' = [rec EXCEPT ![KeyOf[r]].status = "FAILED"]

\* delete_one({_id: key}), whoever inserted the document.
Deleted(r) == rec' = [rec EXCEPT ![KeyOf[r]] = Absent]

------------------------------------------------------------------------------
(* claim() *)

\* A request without a key runs unguarded; with a key it tries to insert.
Arrive(r) ==
    /\ Goto(r, "idle", IF KeyOf[r] = NoKey THEN "run" ELSE "insert")
    /\ UNCHANGED <<rec, claimed, success, answer, elapsed, effect, straggler, excuse>>

InsertWins(r) ==
    /\ Goto(r, "insert", "run")
    /\ Inserted(r)
    /\ claimed' = [claimed EXCEPT ![r] = TRUE]
    /\ UNCHANGED <<success, answer, elapsed, effect, straggler, excuse>>

\* Mutant of InsertDuplicate: the duplicate is not looked up.
DuplicateRuns(r) ==
    /\ Goto(r, "insert", "run")
    /\ rec[KeyOf[r]].status # "ABSENT"
    /\ UNCHANGED <<rec, claimed, success, answer, elapsed, effect, straggler, excuse>>

InsertDuplicate(r) ==
    /\ Goto(r, "insert", "find")
    /\ rec[KeyOf[r]].status # "ABSENT"
    /\ UNCHANGED <<rec, claimed, success, answer, elapsed, effect, straggler, excuse>>

\* PyMongoError: the document may have been written all the same.
InsertError(r) ==
    /\ Goto(r, "insert", "run")
    /\ Inserted(r) \/ UNCHANGED rec
    /\ Blame(KeyOf[r], "mongo")
    /\ UNCHANGED <<claimed, success, answer, elapsed, effect, straggler>>

FindError(r) ==
    /\ Goto(r, "find", "run")
    /\ Blame(KeyOf[r], "mongo")
    /\ UNCHANGED <<rec, claimed, success, answer, elapsed, effect, straggler>>

\* The document that refused the insert is gone: run without the guard.
FindNothing(r) ==
    /\ Goto(r, "find", "run")
    /\ rec[KeyOf[r]].status = "ABSENT"
    /\ UNCHANGED <<rec, claimed, success, answer, elapsed, effect, straggler, excuse>>

FindCompleted(r) ==
    /\ Goto(r, "find", "replied")
    /\ rec[KeyOf[r]].status = "COMPLETED"
    /\ Reply(r, "cached", rec[KeyOf[r]].by)
    /\ UNCHANGED <<rec, claimed, success, elapsed, effect, straggler, excuse>>

\* model(**doc["response"]) raises: a damaged or older document.
FindUnreadable(r) ==
    /\ Goto(r, "find", "run")
    /\ rec[KeyOf[r]].status = "COMPLETED"
    /\ Blame(KeyOf[r], "unreadable")
    /\ UNCHANGED <<rec, claimed, success, answer, elapsed, effect, straggler>>

FindInProgress(r) ==
    /\ Goto(r, "find", "replied")
    /\ rec[KeyOf[r]].status = "IN_PROGRESS"
    /\ Reply(r, "duplicate", Nobody)
    /\ UNCHANGED <<rec, claimed, success, elapsed, effect, straggler, excuse>>

------------------------------------------------------------------------------
(* The execution (run_agent, run_action) *)

SideEffect(r) ==
    /\ pc[r] = "run" \/ r \in straggler
    /\ r \notin effect
    /\ effect' = effect \cup {r}
    /\ straggler' = straggler \ {r}
    /\ UNCHANGED <<rec, pc, claimed, success, answer, elapsed, excuse>>

Succeed(r) ==
    /\ r \in effect
    /\ Goto(r, "run", IF claimed[r] THEN "complete" ELSE "replied")
    /\ success' = [success EXCEPT ![r] = TRUE]
    /\ IF claimed[r] THEN UNCHANGED answer ELSE Reply(r, "own", r)
    /\ UNCHANGED <<rec, claimed, elapsed, effect, straggler, excuse>>

\* Mutant of Fail: a failed execution is stored like a successful one.
FailStored(r) ==
    /\ Goto(r, "run", IF claimed[r] THEN "complete" ELSE "replied")
    /\ IF claimed[r] THEN UNCHANGED answer ELSE Reply(r, "own", r)
    /\ straggler' \in {straggler, straggler \cup ({r} \ effect)}
    /\ IF claimed[r] THEN Blame(KeyOf[r], "failed") ELSE UNCHANGED excuse
    /\ UNCHANGED <<rec, claimed, success, elapsed, effect>>

\* A failure, before or after the side effect; a timeout leaves the worker thread behind.
Fail(r) ==
    /\ Goto(r, "run", IF claimed[r] THEN "release" ELSE "replied")
    /\ IF claimed[r] THEN UNCHANGED answer ELSE Reply(r, "own", r)
    /\ straggler' \in {straggler, straggler \cup ({r} \ effect)}
    /\ IF claimed[r] THEN Blame(KeyOf[r], "failed") ELSE UNCHANGED excuse
    /\ UNCHANGED <<rec, claimed, success, elapsed, effect>>

\* CancelledError while the execution is awaited: release() runs under asyncio.shield.
Cancel(r) ==
    /\ Goto(r, "run", IF claimed[r] THEN "shielded" ELSE "dead")
    /\ straggler' \in {straggler, straggler \cup ({r} \ effect)}
    /\ IF claimed[r] THEN Blame(KeyOf[r], "failed") ELSE UNCHANGED excuse
    /\ UNCHANGED <<rec, claimed, success, answer, elapsed, effect>>

------------------------------------------------------------------------------
(* complete() and release() *)

StoreAndReply(r) ==
    /\ Goto(r, "complete", "replied")
    /\ \/ Completed(r) /\ UNCHANGED excuse
       \/ (Completed(r) \/ UNCHANGED rec) /\ Blame(KeyOf[r], "mongo")
    /\ Reply(r, "own", r)
    /\ UNCHANGED <<claimed, success, elapsed, effect, straggler>>

\* The response cannot be encoded (an integer outside int64): the error is not
\* a PyMongoError, leaves complete() and becomes a 500.
StoreRaises(r) ==
    /\ Goto(r, "complete", "replied")
    /\ Reply(r, "raised", Nobody)
    /\ UNCHANGED <<rec, claimed, success, elapsed, effect, straggler, excuse>>

ReleaseAndReply(r) ==
    /\ Goto(r, "release", "replied")
    /\ \/ Deleted(r) /\ UNCHANGED excuse
       \/ (Deleted(r) \/ UNCHANGED rec) /\ Blame(KeyOf[r], "mongo")
    /\ Reply(r, "own", r)
    /\ UNCHANGED <<claimed, success, elapsed, effect, straggler>>

ReleaseAndRaise(r) ==
    /\ Goto(r, "shielded", "replied")
    /\ \/ Deleted(r) /\ UNCHANGED excuse
       \/ (Deleted(r) \/ UNCHANGED rec) /\ Blame(KeyOf[r], "mongo")
    /\ Reply(r, "raised", Nobody)
    /\ UNCHANGED <<claimed, success, elapsed, effect, straggler>>

------------------------------------------------------------------------------
(* The environment: process death, the clock, MongoDB's TTL monitor *)

\* The process dies, or the task is cancelled outside the guarded await: a
\* store operation already sent is applied or lost.
Die(r) ==
    /\ pc[r] \in Live
    /\ pc' = [pc EXCEPT ![r] = "dead"]
    /\ \/ pc[r] = "insert" /\ Inserted(r)
       \/ pc[r] = "complete" /\ Completed(r)
       \/ pc[r] \in {"release", "shielded"} /\ Deleted(r)
       \/ UNCHANGED rec
    /\ IF KeyOf[r] = NoKey THEN UNCHANGED excuse ELSE Blame(KeyOf[r], "failed")
    /\ UNCHANGED <<claimed, success, answer, elapsed, effect, straggler>>

\* No live request outlives HandlerLimit.
Tick ==
    /\ \A r \in Request : pc[r] \in Live => elapsed[r] < HandlerLimit
    /\ \/ \E r \in Request : pc[r] \in Live
       \/ \E k \in Key : rec[k].ttl > 0
    /\ elapsed' = [r \in Request |-> IF pc[r] \in Live THEN elapsed[r] + 1 ELSE elapsed[r]]
    /\ rec' = [k \in Key |-> IF rec[k].ttl > 0 THEN [rec[k] EXCEPT !.ttl = @ - 1] ELSE rec[k]]
    /\ UNCHANGED <<pc, claimed, success, answer, effect, straggler, excuse>>

\* Mutant of Expire: a record in progress may go before its time.
ExpireEarly(k) ==
    /\ rec[k].status # "ABSENT"
    /\ rec' = [rec EXCEPT ![k] = Absent]
    /\ Blame(k, "expired")
    /\ UNCHANGED <<pc, claimed, success, answer, elapsed, effect, straggler>>

\* Mutant of Expire: only completed records carry an expiry.
ExpireCompletedOnly(k) ==
    /\ rec[k].status = "COMPLETED"
    /\ rec[k].ttl = 0
    /\ rec' = [rec EXCEPT ![k] = Absent]
    /\ Blame(k, "expired")
    /\ UNCHANGED <<pc, claimed, success, answer, elapsed, effect, straggler>>

\* The TTL monitor removes a document some time after its expiresAt.
Expire(k) ==
    /\ rec[k].status # "ABSENT"
    /\ rec[k].ttl = 0
    /\ rec' = [rec EXCEPT ![k] = Absent]
    /\ Blame(k, "expired")
    /\ UNCHANGED <<pc, claimed, success, answer, elapsed, effect, straggler>>

------------------------------------------------------------------------------
Claiming(r) ==
    \/ InsertWins(r) \/ InsertDuplicate(r) \/ InsertError(r)
    \/ FindError(r) \/ FindNothing(r) \/ FindCompleted(r)
    \/ FindUnreadable(r) \/ FindInProgress(r)

Closing(r) == StoreAndReply(r) \/ StoreRaises(r) \/ ReleaseAndReply(r) \/ ReleaseAndRaise(r)

Next ==
    \/ \E r \in Request :
         \/ Arrive(r) \/ Claiming(r)
         \/ SideEffect(r) \/ Succeed(r) \/ Fail(r) \/ Cancel(r)
         \/ Closing(r) \/ Die(r)
    \/ Tick
    \/ \E k \in Key : Expire(k)

Spec == Init /\ [][Next]_vars

\* The coroutines and the execution's own timeout make progress, the clock
\* advances and the TTL monitor runs; arrivals, deaths and cancellations need not happen.
Fairness ==
    /\ \A r \in Request : WF_vars(Claiming(r)) /\ WF_vars(Closing(r)) /\ WF_vars(Fail(r))
    /\ WF_vars(Tick)
    /\ \A k \in Key : WF_vars(Expire(k))

FairSpec == Spec /\ Fairness

------------------------------------------------------------------------------
(* Properties *)

\* Whoever executes after winning the insert owns its key's record until it
\* gives it up: the record is neither expired nor replaced under it, so two
\* requests never both hold one key (execute.py:19-60).
ExclusiveClaim ==
    \A r \in holders : /\ rec[KeyOf[r]].status = "IN_PROGRESS"
                       /\ rec[KeyOf[r]].by = r

\* "Same key, same response": a response served from the record is the one a
\* guarded execution of the same key produced, and that execution succeeded
\* (complete(), idempotency.py:107-127).
ReplayIsGenuine ==
    \A r \in Request : answer[r].kind = "cached" =>
        LET s == answer[r].from IN
          /\ s \in Request /\ s # r
          /\ KeyOf[s] = KeyOf[r]
          /\ claimed[s] /\ success[s]

\* A second request of a key repeats the side effect only when something went
\* wrong before: a store error, an unreadable or expired record, or a guarded
\* execution that ended without success.
EffectOnce ==
    \A r, s \in effect : r # s /\ KeyOf[r] = KeyOf[s] /\ KeyOf[r] # NoKey
                           => excuse[KeyOf[r]] # {}

\* A key that is marked in progress is freed or completed some day, whatever
\* dies: no node stays blocked for good (IN_FLIGHT_TTL_SECONDS).
KeyUnblocked ==
    \A k \in Key : (rec[k].status = "IN_PROGRESS") ~> (rec[k].status # "IN_PROGRESS")

SlotOf(status) ==
    IF status = "ABSENT" THEN "free" ELSE IF status = "IN_PROGRESS" THEN "held" ELSE "sealed"

Guard == INSTANCE KeyGuard WITH
    slot   <- [k \in Key |-> SlotOf(rec[k].status)],
    owner  <- [k \in Key |-> rec[k].by],
    active <- holders

\* The store protocol implements the slot discipline of module KeyGuard.
ImplementsGuard == Guard!GuardSpec

==============================================================================
