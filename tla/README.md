# Verification of ieum-agent

ieum-agent is the agent service of a workflow product. A back end (BE, another
repository) calls it over HTTP to execute one node of a workflow at a time, to
hold a conversation in which an LLM builds a workflow, and to validate a
workflow. This directory holds TLA+ modules that model its stateful parts, TLC
configurations that check them on small instances, and TLAPS proofs.

    tlc -workers 2 -config MCIdempotency.cfg MCIdempotency     a run
    tlapm IdempotencyProofs.tla                                the proofs

## 1. The system

Line numbers refer to the files under `src/`.

| Component | Files | State it keeps | Operations | What makes it hard |
|---|---|---|---|---|
| Duplicate-execution guard | `db/idempotency.py`, `api/routes/execute.py`, `api/routes/actions.py`, TTL indexes in `db/mongodb.py` | collection `idempotency_records`: one document per key, IN_PROGRESS or COMPLETED, with an expiry | `claim`, `complete`, `release` | concurrent requests of one key between any two awaits, store errors in which the write may or may not have happened, cancellation, death, time-outs whose thread goes on, the TTL monitor |
| Conversational builder | `core/builder/*`, `api/routes/chat.py` | `agent_sessions` document: `tests`, `baseline`, `pending`; per turn a working copy of the workflow and the locals of `Turn` | `build_turn`, the tools `add_node`, `connect`, `remove_node`, `set_fields`, `pick_model`, `test_node`, `finish` | tool calls of one LLM response run in parallel; overlapping messages of one conversation; the user edits the workflow between turns; confirmations that must fit exactly what is executed |
| Session service | `db/session_service.py` | the same document | create, get, append_event, delete | whole-state writes, rotation by delete and create |
| Static validator | `core/validators/static_validator.py` | none | `validate_workflow`, `node_errors` | graph rules, branch rules |
| Field writes of the builder | `core/builder/fields.py` | the branches of a condition node in the turn's working copy | `write_field`, `_keyed_branches`, the pruning of connections | a branch's key must survive renaming and reordering, because the connections carry it |
| AI node execution | `core/agent.py`, `agents/execute/factory.py`, `agents/base.py`, MCP sub-agents | per run: connections to MCP servers, one session document, one log entry | `run_agent`, `run_simple_agent`, `run_react_agent` | errors, the time limit and cancellations at each await of the work and of its clean-up |
| ACTION node execution | `core/action_executor.py` | none | `run_action` | time-out of a thread that cannot be stopped |
| Senders | `tools/slack*.py`, `discord*.py`, `gmail.py`, `github.py`, `http_fetch.py`, the creating tools of Notion, Calendar, Drive | none here; messages, mails, pages in outside services | one call of a tool: look, write, ask for details | a copy may not be sent twice; what follows the write must not make a failure of it |
| Google Sheets tool | `tools/google_sheets.py` | none here; the rows of a worksheet | append, append at the top, update, find or create | several non-atomic calls; rows addressed by number; concurrent runs |
| Google Calendar tool | `tools/google_calendar.py` | none here; events | update, delete, find | read, then write; series and occurrences; zones and changes of the clock; paging |
| Notion tools | `tools/notion.py`, `notion_rows.py` | none here; the blocks of a page | read, append, replace the body, update a row | replacing is reading, appending and deleting, call by call, with other runs between |
| Structured output, masking, execution guard | `core/output_fields.py`, `core/output_validator.py`, `core/execution_guard.py` | none | pure functions | edge values |
| Catalog and templates | `core/template_registry.py`, `core/node_catalog.py`, `core/node_fields.py` | loaded once at start-up | look-ups | none (static data) |
| Models, agents, telemetry, middleware, HTTP client | `core/model_factory.py` and others, `main.py`, `api/middleware/*` | process-wide configuration | per-request wiring | none that concerns a protocol |
| Deployment scripts | `scripts/bluegreen/agent_env.py`, `scripts/precheck_static_validation.py` | an environment file | one-shot | selection of keys |

How they interact. `execute_agent` and `execute_action` call `claim`, then
`run_agent` or `run_action`, then `complete` or `release`; only MongoDB is shared
between requests. `build_turn` loads the session through the session service,
judges the message against the stored pending question, lets the LLM call tools
on the turn's own copy of the workflow (each LLM event stores the state of the
turn), and at the end stores the question it asks and returns the workflow. The
canvas in the user's browser is sent with every message, so the workflow itself
is not part of the session. `test_node` asks the BE to execute one node, which
comes back to this service as an execution request.

What makes each component correct:

- guard: at most one live guarded execution per key; a replayed response is a
  genuine success of the same key; a side effect is repeated only after
  something went wrong; no key is blocked for ever;
- builder: a node that writes to the outside is run only after a yes to the
  question about exactly this configuration, once per yes; recorded results
  belong to the configuration they were obtained for; DONE means complete, and
  agreed to; a model choice goes into the node it was asked for; the session
  waits only for a question the user sees;
- validator: a workflow that passes has one trigger, no dangling edge, no node
  that cannot be reached;
- field writes: a branch keeps its key and its connections as long as it is meant
  by its key or its name, no two branches get one key, and a condition that
  finish() accepts has an outcome for every connection;
- AI node execution: nothing stays open, the reported result is what happened
  (a success, a time-out, a 429), a refused request has done nothing, one log
  entry per execution;
- senders: a run sends at most one copy; a failure that is reported has sent
  nothing, or the run cannot know;
- sheet: rows the tool did not write are never destroyed; a failed run undoes
  what it did;
- calendar: an event becomes what was asked for, a series only if all of it was
  meant; who says that an event is deleted is right; a search has the whole list;
- Notion: the content written last is on the page, whole; an update that
  succeeds has removed what it had read; an error tells what has been written.

The hazards of the code, each at its line, with the properties that are aimed at
it, are in `PROJECT.json` under `hazards`.

## 2. The modules

| Module | What it is | Code |
|---|---|---|
| `KeyGuard` | abstract: one slot per key, free, held or sealed | what `db/idempotency.py` promises |
| `Idempotency` | the store protocol, request by request | `db/idempotency.py`, both routes |
| `MCIdempotency` | instances | |
| `IdempotencyProofs` | theorems about `Idempotency`, and that it implements `KeyGuard` | |
| `BuilderWorkflow` | pure: workflows, validity, hashes, test status | `core/builder/state.py`, `static_validator.py`, parts of `tools.py` |
| `BuilderTurn` | a conversation: user, turns, tools, session document | `core/builder/engine.py`, `tools.py`, `hitl.py`, `model_pick.py`, `db/session_service.py` |
| `MCBuilder` | instances | |
| `BuilderTurnProofs` | theorems about any conversation, overlapping turns and lost responses included, and about consent when turns do not overlap | |
| `BranchKeys` | a condition node: its branches, their keys, the connections that leave it | `core/builder/fields.py`, `tools.py`, `static_validator.py` |
| `MCBranchKeys` | an instance | |
| `BranchKeysProofs` | theorems about `BranchKeys` | |
| `NodeExecution` | one execution of an AI node: `run_agent` and its task | `core/agent.py`, `agents/execute/factory.py`, `agents/base.py`, the MCP sub-agents |
| `MCNodeExecution` | an instance | |
| `NodeExecutionProofs` | theorems about `NodeExecution` | |
| `ToolSends` | a node that sends, with its repetitions by the back end | the twelve sending tools, `core/action_executor.py` |
| `MCToolSends` | an instance | |
| `ToolSendsProofs` | theorems about `ToolSends` | |
| `SheetRows` | the Google Sheets tool: concurrent runs on one worksheet | `tools/google_sheets.py`, the time limit of `core/action_executor.py` |
| `MCSheetRows` | instances | |
| `SheetRowsProofs` | theorems about `SheetRows` | |
| `NotionPage` | the tools that read and rewrite one Notion page | `tools/notion.py`, `tools/notion_rows.py` |
| `MCNotionPage` | an instance | |
| `NotionPageProofs` | theorems about `NotionPage` | |
| `CalendarTimes` | pure: datetimes, zones, the times that an update gives | `tools/google_calendar.py` (`_new_times` and its helpers) |
| `CalendarEvents` | update, delete and find on one calendar | `tools/google_calendar.py` |
| `MCCalendar` | an instance | |
| `CalendarEventsProofs` | theorems about `CalendarEvents` | |

Some modules hold definitions headed "Mutant of ...": variants of the definition
below them with a plausible mistake in it. Nothing uses them; putting one in the
place of its original must break the property it is listed with in
`PROJECT.json`, which shows that the property can fail.

### Idempotency

A request is a coroutine; `pc[r]` says at which await it is suspended: `insert`
and `find` in `claim`, `run` in the execution, `complete`, `release`, and
`shielded` for the release under `asyncio.shield` after a cancellation. `rec[k]`
is the document of key k. The action names follow the outcome of the await:
`InsertWins`, `InsertDuplicate`, `InsertError`, `FindNothing`, `FindCompleted`,
and so on. A store operation that raises may have been applied or not, so
`InsertError` and the closing actions have both alternatives. `StoreRaises` is
`complete` raising something that is not a `PyMongoError` (an integer outside
int64 in the response), which the route does not handle. The execution is
three actions: `SideEffect`, `Succeed`, `Fail`; a time-out is a `Fail` that leaves a
`straggler`, a worker thread whose side effect may still come. `Die` is the end
of the process, `Cancel` the disconnection of the caller, `Expire` the TTL
monitor. Time is counted in ticks: `HandlerLimit` stands for the time-out of the
agent and of the store (150 s), `InFlightTTL` for 600 s, so `HandlerLimit <
InFlightTTL` is assumed (`TimingAssumption`), as the comment of
`IN_FLIGHT_TTL_SECONDS` does. `excuse[k]` is a history variable: what went wrong
with key k so far.

### BuilderWorkflow and BuilderTurn

A workflow is `cfg` (for each node its configuration, or `Gone`) and `edges`. A
configuration is a field value, which may be `Blank` (a required field is empty
or a reference is broken: one bit), and a credential key for an AI node. The
hash functions of the code are the identity on configurations: what the code
tells apart by hash is told apart here by value. `Kind[n]` is what
`how_to_test` returns for the node's type.

`doc` is the session document; `copy[t]` and `work[t]` are the turn's copies of
the state and of the workflow, `turn[t]` its locals, `calls[t]` its tool calls
that await something. The turn goes through `load`, (`recreate`), (`close`),
`begin`, `llm`, `end`, `save`, `reply`. The LLM is any sequence of at most
`MaxSteps` tool calls; those that await (`add_node`, `pick_model`, `test_node`)
take a slot and finish later, so calls of one response overlap. ADK stores the
turn's state with each event, changed or not (`AppendEvents`), and a turn may be cut by its time
limit (`CutTurn`), fail (`FailTurn`) or be aborted (`Abort`) at each await. A write that the
store takes although its call fails is the step that writes, followed by `Abort`.
`EditCanvas` and `EditConnection` are the user's editor, in which he adds, changes and
removes nodes and connections, between turns or while one runs: a turn works on its own copy, and its response, when it
arrives, takes the place of what the editor has. So an edit matters only as the last one before a message is sent
or a response arrives, and is made only then (`Noticed`). `Drop` is a response that is lost.
`earned` and `ran` are history variables.

Left out, as no property speaks of them: notices, labels, outlines, host
checks, the read-only tools, and `state["confirmed"]`, which the code writes and
never reads. Connections carry no branch key here: condition nodes are the subject
of `BranchKeys`.

### BranchKeys

One condition node in the turn's working copy (`flow`): its branches, whether its
"otherwise" is a stop, the nodes behind it and the connections to them, each with
the key of a branch, or `else`, or one of the two outcomes of an old condition. `SetFields`
is `_keyed_branches` followed by `_prune_branch_edges`: an element of the list that the
LLM sends keeps a key it says (`Says`), inherits one by its name (`Inherits`), or gets a
new one (`Made`, which stands for uuid4: keys nobody has had). `AddNode` checks the branch and then
awaits; `NodeAdded` connects without looking again, as the code does. `Complete` is what the
validator says of this part of the workflow when `finish` asks it. The user may bring a
workflow that no check has seen (`Canvases`): reserved, empty and doubled keys.

### SheetRows

One worksheet: `rows` is the sequence of its rows, the first one the heading. Rows
are told apart by where they come from: the `Initial` ones, and of each run the one
it inserts empty (`BlankOf`) and the one it writes (`RowOf`). Each `Run` is one call of a writing tool (`Jobs`): `append`,
`append_top`, `update_row`, `find_or_create_row`; the actions are its HTTP calls
(`Open`, `LookUp`, `InsertRow`, `PutRow`, `UndoInsert`, `AppendRow`, `UpdateRow`).
Each call succeeds, fails, or is not answered; the one that is not answered may
have been applied, or be applied later, when the run has gone on (`late`, `Arrive`).
A run may be cancelled by `run_action`'s time limit (`TimeOut`) at the call it waits
for. Where the Sheets API decides (the end of the table to which
`values:append` adds), every outcome it may have is allowed. The history
variables `lost` (rows overwritten by `update_row`, or by a write of row 2 that its run
has given up on) and `mixed` (runs of `append_top` that met another run's write) delimit what the properties promise. Not modelled:
users who edit the sheet at the same time, values of cells, and
`google_sheets_read`, which changes nothing.

### NodeExecution

`pc` is the await at which `run_agent` is suspended, `task` the one of the task
under `asyncio.wait_for`; `stack` is the `AsyncExitStack` (for a simple node the
`finally` that deletes the session), `opened` the connections that may be open,
`stored` the session's document. A request (`Request`) is what decides the way of
an execution: type of agent, whether tools are named, output fields, tokens,
number of custom servers. `Toolsets` are its connections in their order. What the
task raises is abstracted to the `except` clause that catches it (`kind`) and to
whether a 429 is in its chain (`rate`), as `is_rate_limit_error` sees it.

`Struck` is a cancellation of the task at the await where it is, also in a clean-up
call; it comes from the time limit (`TimeOut`) or from the request (`CancelTask`).
`wait_for` is modelled as in Python 3.11, the version of the image: a cancellation
that finds the task ended is swallowed; one that comes while a cancelled task is
awaited leaves that task alone (`Abandon`), and its clean-up goes on without
`run_agent`. If the clean-up raises after a cancellation, what it raises replaces the
cancellation, as Python does, and the chain keeps the old exception (`Chained`).
`met` is a history variable: what went wrong so far.

### ToolSends

A tool is a record of what makes a difference to its protocol: whether it looks at its
place first, whether it makes a call that was answered with 429 again, whether calls
follow the write, and what it makes of a reply that it cannot read or that is no
success. The twelve records (`send_slack_message` and so on) are the twelve tools. A run goes
`look`, `write`, `tail`; `http_fetch` follows redirects, up to `MaxRedirects`: it makes its write again where it is sent
(`Moved` to `write`: 307, 308) or fetches the answer there (`Moved` to `follow`: 301 to 303). `Replies` are what a service may answer, and `Carried` says what it
may have done by then: a 2xx has been carried out, a 4xx has not, a 5xx and no reply
may have been, or still be (`late`, `Arrive`). `Start` is the back end, which runs a node that
failed again. `Cut` and `CutWrite` are the time limit of `run_action`, or a cancelled request; `dropped` is the history
of the runs that they strike after the write was accepted, in the calls that follow it: these runs fail although
they have sent their copy, and `AnswersAreHonest` names them as its exception.

### NotionPage

`body` is the sequence of the page's blocks, told apart by who wrote them. A run is one
call of `notion_update_page`, `notion_append_block`, `notion_read_page` or `notion_update_row`;
its `pc` names the HTTP call it makes, `After` the one that follows. `FetchPage` reads
`PageSize` blocks from a cursor, `DeleteBlock` deletes what was read, block by block, and does not look
at the reply. A call without a 200 may have been carried out, or be carried out later. The API's cursor
(`From`, `Behind`) is external. A run with a reply to `FetchPage` that is not a 200 is not promised the
whole body (`failed`): section 5.

### CalendarTimes and CalendarEvents

`CalendarTimes` is the arithmetic of `_new_times` on time in units: a zone has one change of
its offset, and a datetime moves and compares as Python's does (by the wall clock within one zone).
`CalendarEvents` has the calls of update, delete and find: `Look` (at the event, then
at its series), `ReadZone`, `Write`, `List`. Each event has the zone its times are kept in
(`start.timeZone`), which for a series is what its new times are put on, and which need be neither the
calendar's nor the one that the run was given (`ReadIn`). Google requires it of a series, so that the code's way out
for a series without one (`google_calendar.py:244`) is left out. The week of `this_week` begins on its Monday
(`FirstDay`), reckoned from one (`Monday`); `DaysMeant` says independently which days are meant. An occurrence follows its series (`Placed`). `Edit` is
a user who deletes an event, moves it or makes it a series between the look and the write;
`raced` is the history variable that marks the runs it may concern. `CalendarAssumption` says of the
calendar at first what the API keeps true of it: an event ends after it begins, one of a series is of one
series, is none itself, and is not there when its series is not. An occurrence is as long as its series,
as RFC 5545 has it. The one change of a clock puts it forward, as the comment of `Zone`
says; autumn, when a reading occurs twice, is not modelled. `Across` says when a change of a clock excuses
that an event's length is not kept: also when the new start is a reading that is skipped.

## 3. Runs

Each run names a distinct question; the properties are defined, with a comment,
at the end of the modules.

| Run | Question |
|---|---|
| `idempotency` | three attempts, two of them with one key and one without: exclusive ownership, genuine replay, one effect, implementation of `KeyGuard`, no key blocked for ever |
| `builder_consent` | a write node alone or behind an app trigger, or a read node behind a webhook trigger; two parallel calls, edits, rotation, expiry, up to finish: no write without consent, one run per consent, no forged result, no question or DONE that the user has not seen |
| `builder_shape` | all tools, from a trigger alone or with an AI node behind it, lost responses, and a user who edits the node or its connections: what a DONE is, the test budget, and that a model choice goes into the node its card showed or nowhere |
| `builder_twice` | violated: one confirmation is one run, when messages overlap |
| `builder_retest` | violated: DONE means that each node is tested or skipped |
| `branch_keys` | every list of branches that is sent keeps the keys it means; a condition that finish accepts can be run |
| `tool_sends` | every sending tool, three runs of its node, with redirects: one copy per run, honest answers, an end |
| `notion_page` | two runs on one page, failing and late calls: the last content survives, reading is whole, errors are honest |
| `calendar_events` | two runs and a user's edit: each time and day that is given becomes the event's, a series is moved in its own zone, deletes are true, searches are whole |
| `sheet_rows` | three concurrent calls of writing tools with failing, unanswered and late HTTP calls: old rows survive, no row is written twice, a failure is undone |
| `sheet_rollback` | violated: the rollback of `append_top` deletes the empty row it inserted |
| `node_execution` | an execution of each kind of AI node: clean-up, honest results, one log entry, and an end |

The three violated properties are statements of comments or tool descriptions in
the code; `PROJECT.json` quotes them under `findings`.

Bounds and why they suffice.

- `Idempotency`: three requests are one owner, one duplicate, and a third that
  meets what the second left behind (or runs without a key). One key: keys do
  not interact (the theorems hold for any set). `InFlightTTL = 2`,
  `HandlerLimit = 1`, `CompletedTTL = 1` keep the order of the real values.
- `BuilderTurn`: `MaxTurns` messages per conversation (3: one that asks, one that
  answers, one that meets what is left), `MaxSteps` tool calls of a turn,
  `MaxEdits` changes in the editor, `MaxTests` for `MAX_TESTS_PER_TURN`, `Slot` the
  parallel calls, `Turn` the overlapping turns, `Tools` the tools the LLM uses in
  the instance, `Edited` the nodes whose fields change, `Typed` what the user makes of them, `Lossy` whether responses
  get lost. Each run enables the tools its question needs; together they fire
  every action. Turns and slots are symmetric. `builder_shape` has one turn at a time, three messages and one edit: enough
  for a card whose node is changed or removed by the user, or by the LLM behind a lost response, before the
  answer to it. Overlapping turns are left to the theorem `ChoicesFit`, which has any number of all of them.

`CHECK_DEADLOCK FALSE` is set where the system really comes to rest: all requests
answered, the conversation at its bound of messages, the tool calls or the
execution ended.

- `SheetRows`: three runs (one that fails, one that interferes, one more), a
  heading and two rows, row numbers up to `MaxNumber` = 2. The theorems hold for any
  number of runs and any sheet.
- `BranchKeys`: lists of up to three branches with two names and three keys (two
  that are in use and one that is not), and `MaxBranches` = 2, so that a list may be
  too long; two nodes and `MaxEdges` = 2. The theorems hold for any of them.
- `ToolSends`: all twelve tools, `MaxRuns` = 3: a run, its repetition, and one that meets a late copy
  of both; `MaxRedirects` = 2 for 5, so that a redirect may lead to another, and to one too many. The theorems
  hold for any number.
- `NotionPage`: two runs of any of the four tools, a page of two blocks, contents of two blocks
  (`Size`), one block per reply (`PageSize`): reading takes several calls, and a body
  has a block in the middle of a deletion.
- `CalendarEvents`: days of four units (`DayLen`), a clock put forward on day 1, a series in a zone of its own, whose clock
  is put forward later, an occurrence of it on the other side of the change, and an event that is none; two runs,
  each asked for any of twenty-five orders (naive and aware starts and ends, days, with a zone and without one,
  single events, occurrences and series; every period, and intervals), and one edit.
- `NodeExecution`: `MaxServers` = 2, so that one connection is open while the next
  one fails, besides Notion and GitHub. The theorems hold for any number.

Fairness is used by `KeyUnblocked`, `EveryRunEnds` and `EveryRunAnswers`. In `Idempotency`, the coroutines of the event loop make
progress (`Claiming`, `Closing`), the execution's own time-out ends it (`Fail`), the
clock ticks and the TTL monitor of MongoDB runs. Arrivals, deaths,
cancellations, and the success of an execution need not happen. In
`NodeExecution`, `run_agent` itself goes on (`Deciding`, `SaveLog`, `Cancelled`), the
clock reaches the limit (`TimeOut`), and clean-up calls come to an end (`Unwinding`):
deleting a session is limited by the store's own time-outs, but closing a
connection has no limit in this code, so that its end is an assumption about the
MCP library. Nothing is assumed of the model and of the servers. In `ToolSends`, a run
goes on (`Running`): every HTTP call has a time limit (`_TIMEOUT`), and a sleep ends.

## 4. Proofs

`IdempotencyProofs` proves, for any sets of requests and keys and any time limits
that satisfy the two assumptions of `Idempotency` (`KeysAssumption`,
`TimingAssumption`):

- `TypeCorrect`, `Exclusive`, `GenuineReplay`, `OneEffect`: the invariants the run
  checks;
- `MutualExclusion`: two requests that execute with one key at the same time, guarded or not, are not both under
  the guard, and something went wrong with the key before: a store error, a record that expired or cannot be read, an
  execution that did not succeed. (`claim` lets a request go on without the guard in these cases.)
- `Implements`: the specification implements `KeyGuard`.

The invariant is `IInv`. `ExclusiveClaim` is not inductive: that a live holder's
record is not expired follows from `HoldInv`, which relates the record's
remaining life to the time the request has lived (`ttl + elapsed >= InFlightTTL`
for its own record, `elapsed <= HandlerLimit`), and `OwnedByKey` says that
a record was written by a request with that key. `StoredInv` says that a completed
record was written by a guarded execution that succeeded, from which
`ReplayIsGenuine` follows; `CleanInv` says what a key with no excuse looks like
(at most one request has had an effect and its record is still there), from
which `EffectOnce` follows. There is one lemma per conjunct, with one step per
action; `StepIInv` puts them together.

`SheetRowsProofs` proves, for any runs, jobs and initial sheet (`TypeCorrect`,
`OldRowsSurvive`), that the rows that were there survive, in their order. That is
not inductive: a rollback deletes row 2 by number, whatever is there. `DebtInv`
counts: `Debtors` are the runs that may still delete row 2, and the first rows below
the heading, as many as there are such runs, are not old ones (`Fresh`), so that
what is deleted is never an old row. `RunInv` says that a rollback that is still
under way belongs to a run that has returned. `WrittenOnce` and `FailureLeavesNothing` rest on `LInv`: what a call under
way or given up on would bring is not in the sheet yet (`CallInv`, `NewInv`), an unmixed `append_top`
has its own empty row at 2 until it has returned (`TopInv`), and what a run leaves at its end stays so (`EndInv`).

`NodeExecutionProofs` proves, for any number of servers, the invariants of the run
(`TypeCorrect`, `CleansUp`, `ClosesLast`, `HonestReport`, which is made of `HonestSuccess`,
`HonestTimeOut` and `HonestRateLimit`) and two more that no run checks, because they are part of
what each step does: `HarmlessRefusal` and `OneLog`. The inductive invariant `IInv` adds to
them `StageInv` (which values of `pc`, `task`, `reply` and `logs` go together),
`FreshInv` (what a task that has not started has done: nothing), `StackInv` (each
connection that may be open, and the session while it is stored, has its
clean-up call on the stack), `OrderInv` (the session's comes first, and while it is there
every connection is open) and `ErrorInv` (what `error` says about `met` and `limit`). There
is one lemma per conjunct, with one step per action.

`ToolSendsProofs` proves `AtMostOneCopy` and `HonestAnswers` for any set of tools and any
number of runs and redirects. `Unsent` says that the present run has no copy while it is about to write,
and no run to come has one; `Learned` what a run knows at its places. `HonestAnswers` leaves two kinds of failure out: those of
runs in doubt (no reply to the write, a 5xx, a redirect of it, a reply that cannot be read) and
those that the limit or a cancellation made of an accepted write (`dropped`).

`BranchKeysProofs` proves `BranchesKeepKeys` and `FinishedCanRun` for any keys, names, lists and
canvases. The key facts are about `_keyed_branches` itself: the keys it gives are distinct (`Says`,
`Inherits` and `Made` exclude each other, and each gives a key once), and keys that are in
use are never made anew, which is the part of the type invariant about `spent`.

`NotionPageProofs` proves all that the run of `NotionPage` checks, for any number of runs, any page and
replies of any length: `TypeCorrect`, `NewestContentSurvives`, `UpdateReplaces`, `HonestPrefix` and `ReadWhole`.
`NewestSurvives` is not inductive: it takes that nothing about to be deleted, by a run or by a call that may come late, is newest
content. `WriteInv` is the reason: until a run has written (`May`: it has yet to, or its call may still
come), its blocks are nowhere, neither on the page nor in what anybody has read. So content that comes now is in
nobody's list of blocks to delete (`KeepInv`, and `LateInv` for calls under way), and what has been deleted
does not come back (`GoneInv`). `WholeInv` says that a run whose reading nobody disturbed holds the beginning of the
body, up to its cursor. What a call does to the page is summarised once (`Shift`), so that the other runs need one lemma
(`Others`) for all steps; each action then has a lemma about the run that makes it.

`BuilderTurnProofs` proves `TypeCorrect`, `WithinBudget`, `EarnedResults`, `CompleteWhenDone` and
`ChoicesFit` for any nodes, any number of overlapping turns and of parallel calls, and
with lost responses. The invariant `IInv` has a part per concern. `ShapeInv` says what the
place of a turn says of its copies and locals. `BudgetInv` ties the history of tests to the turn's
counter. `EarnInv` is about what a session state rests on: its results, the nodes of
its baseline (whose hash stands for a passed test) and the workflow of its finish question, in the stored
document as well as in every copy and every question held; from it follow
`ResultsAreEarned` and, by the judgement at the start of a turn, `DoneIsComplete`. `CardInv`
says that a card on the screen is about the node as shown. The steps of the tools are
summarised once (`Works`: which parts of the state a tool may change, and how), so that each later
lemma has one case for all of them (`StepCases`).

The second part of `BuilderTurnProofs` proves the properties of consent under the assumption `OneTurn` (turns do not
overlap), without which `builder_twice` refutes the first of them: `OnceAnswered`, also with lost
responses, from `OnceInv` (questions are numbered by the messages that led to them; no write test has run on
the question that the session waits for, nor on a confirmation that is not used); and, when also no response gets lost
(`~Lossy`), `QuestionOnScreen`, `DoneAsAsked` and `ConsentedWrites`, from `SeenInv` (the session waits for the
question on the screen, and a confirmation or a DONE is an answer to it).

`CalendarEventsProofs` proves, for any calendar, zones, orders and edits, `TypeCorrect` and `DeletesTrue`
from three facts (`IInv`): what is deleted stays so, an occurrence is not there without its series, and the
event a run works on is the one it was asked for or the series of it. `PagesMakeOneList` is
the paging half of `FindIsWhole`: what an unraced search has found is a first part of the list (`PageInv`), so that
the pages, wherever they are cut, make one list. The lemmas it rests on say that any finite set
of events can be put in order (`InOrder`), by counting the events before each.

`UpdatesWhole` proves `UpdatesAsAsked` for any zones, values and events. `ScopeInv` says that a run that writes to a
series was told to change all of it; `LenInv` that every event ends after it begins, whatever comes late. The rest is
arithmetic: `Readings` and `ParsedIs` relate a reading of a clock to its instant and its day, `ApartIs` the
distance of two datetimes to that of their instants (they differ when both are on one clock that is changed between
them: `Across`), and `AllDayIs`, `TimedIs` and `SeriesIs` say what the three ways to make new times make.

`FindsWhole` proves `FindIsWhole` as it stands, from `QuietClock`: the calendar's clock is not
put forward over midnight, nor so shortly before it that a skipped reading is taken for one of the next
day. That is so in zones without a change (Asia/Seoul, which the tests use) and in those that change at midnight
or at 1 to 3 in the morning; without it the property is false. `DayStart` says what it is needed for: a day's instants are
those from its midnight on. `LenInv` is used here, too, since an empty event would be on no day.

Only model-checked:

- liveness (`KeyUnblocked`, `EveryRunEnds`, `EveryRunAnswers`), which the prover does not reach;
- what the runs that end in a violation refute.

## 5. Observations

What the models showed besides the three findings, where no statement of the code is contradicted:

- `claim` lets a duplicate run without a guard when the record that refused its insert is gone by
  the time it is looked up (`db/idempotency.py:91`). The comment there thinks of expiry alone; a failing
  owner may also have released it meanwhile. `EffectOnce` counts the failure as an excuse.
- After a failed save in `complete` the key stays in progress until the TTL, so that the next requests
  are refused; the warning says that they are executed again (`db/idempotency.py:127`).
- When turns of one conversation overlap, the later write of the session wins as a whole: tests,
  a pending question and a model choice of the other turn are lost (`core/builder/engine.py:190`).
- A lost response leaves a question pending that the user has not seen (`core/builder/engine.py:252`).
- `run_simple_agent` does not check that a named tool was called, `run_react_agent` does: a simple node may
  succeed without (`agents/execute/factory.py:161`).
- The permalink call of the Slack bot comes after the message: a time limit that strikes there makes a
  failure of a message that was sent (`tools/slack_bot.py:76`), and the next run of the node sends it again; so does
  one at Gmail's call for a label (`tools/gmail.py:167`). The comment at the link's error path thinks of errors alone. In
  `AnswersAreHonest` this is the exception `dropped`.
- A delete of the whole series (scope `all`) by an occurrence that is gone answers that it was already deleted, though
  the series lives (`tools/google_calendar.py:481`): `DeletesAreTrue` speaks of the event that was named.
- `_fetch_all_blocks` does not look at the status (`tools/notion.py:253`): an error half-way is read as the end of the page,
  and an update then keeps the old blocks it has not read.
- An update of a calendar event's start alone keeps its length on the wall clock; across a change of the
  clock its real length changes (`tools/google_calendar.py:307`). So it does when the new start is a reading that
  is skipped, though the event then begins and ends on the new time: the proof of `UpdatesWhole` found that.
- A row number that an earlier node has found is stale when a row was inserted at the top since
  (`tools/google_sheets.py:421`).

## 6. Plan

Done: everything listed in section 2. Left, in this order:

1. `NodeExecution` composed with `Idempotency`: the guarded execution as a whole.
2. Structured output (`core/output_fields.py`) and the selection of `agent_env.py`, as operators
   checked against a reference definition.

## 7. Not modelled

Catalog and template look-ups, masking, request filters, telemetry and
middleware are stateless or static. Tools that only read and answer with one reply (search, lists,
`google_sheets_read`, `google_drive_read`) change nothing and have no protocol. The LLM and the agent library are external: the LLM is
arbitrary, the library does what its use in the code needs. The BE is external:
it is any sequence of requests.
