# Atria: a verification project for its concurrent core

Atria is an AI coding assistant: a ReAct agent (a loop of model calls and tool
calls) behind a FastAPI/WebSocket server, with a browser client, a terminal
front end and a PostgreSQL store.  This directory holds TLA+ models of the parts
of it where several actors meet, or where a long sequence of legal steps may end
in an illegal state: the event loop that runs the handlers, the pool threads
that run the agents, the browsers, the clock, the database, MCP servers, child
processes, and the server that may be stopped.  Source paths below are relative
to `src/atria/`; `web-ui` is `src/web-ui/`.

## 1. Inventory

### Components, their state and their operations

| Component | State | Operations | Hard because |
|---|---|---|---|
| Query dispatch (`web/websocket.py`, `web/routes/chat.py`) | none of its own; reads and writes `WebState` | receive a query, inject it into a run or load the session and start a run; approve, answer, resolve; interrupt | every `await` in a handler lets another handler or a run act between a test and its use |
| `WebState` (`web/state.py`) | running sessions, injection queues, pending dictionaries, interrupt flag, autonomy | get, set, resolve, clear; all under one lock each | the lock covers one access; protocols need several |
| `AgentExecutor` (`web/agent_executor.py`) | pool of 4 threads, registry of running executors | execute a query, run it on a thread, interrupt a session | the run's start and end are spread over the loop and a thread |
| ReAct loop (`repl/react_executor/executor.py`, `iteration.py`) | iteration context, interrupt token, the queue it reads | drain, iterate, leave, final drain | messages and interrupts arrive at any time |
| Tool processing (`repl/react_executor/tool_processing.py`, `session_persistence.py`) | nudge counters, recent calls, message list | run the calls of a response in turn or in parallel, answer each, store the step | ways out in the middle; budgets that reset each other |
| Message list (`core/context_engineering/validated_message_list.py`, `message_pair_validator.py`) | messages, unanswered call ids | append, replace, repair, rebuild from the stored conversation | every call is answered once whatever happens |
| Compaction (`core/context_engineering/compaction.py`) | token count, artifacts, the compaction point | mask, prune, summarise, replay | cuts the list, counts positions in another one |
| Pending reviews (`web/state.py`, `web/web_approval_manager.py`, `web/web_ask_user_manager.py`, `web/web_ui_callback.py`, `db/repositories/pending_review_repo.py`) | an entry and an event per question, a row per question | ask, announce, wait, click, time out, interrupt, end of run | a thread, handlers, the clock, the table and a restart |
| Session store (`core/context_engineering/history/session_manager/pg_manager.py`, `db/repositories/message_repo.py`, `models/session.py`) | one `current_session` for the whole process, turn count, rows | load, add, autosave, save | count-then-insert with an await per row |
| Broadcaster (`web/websocket.py`, `web/ws_tool_broadcaster.py`) | active connections | connect, disconnect, broadcast | the list changes while a broadcast awaits; the caller gives up waiting |
| Interrupt token (`core/runtime/interrupt_token.py`) | one flag | request, test, reset | polled by threads |
| Background tasks (`core/context_engineering/tools/background_task_manager.py`) | a status and a stop event per command, an output thread each | register, stream, poll, kill, notify | four writers of one status |
| Todo handler (`core/context_engineering/tools/handlers/todo_handler/`) | an ordered list of items | write, update, complete, clear, find by several ids | setting one status changes another |
| File tools (`core/context_engineering/tools/file_time.py`, `implementations/edit_tool/`, `write_tool.py`) | time of the last read per file, a lock per file | record, check, edit, create | the check comes before an approval; agents share the record |
| MCP manager (`core/context_engineering/mcp/manager/`) | clients and tools per server, a lock per server, the process's stderr | connect, disconnect, sweep, call, delete | awaits between test and use; timeouts that leave a coroutine behind |
| Session model (`core/runtime/session_model.py`, `repl/commands/config_commands.py`, `web/routes/`) | an overlay of models and what it hides | select, switch, clear, save | one live configuration that is also what is saved |
| Web client (`web-ui/src/stores/chat.ts`, `web-ui/src/api/websocket.ts`) | messages of a session, spinner, dialog, socket | load, send, hear, answer, interrupt, reconnect | fetches, events and optimistic updates of one list; echoes told by their text |
| Subagents and the main agent's loop (`core/agents/main_agent/run_loop.py`, `core/agents/subagents/manager/execution.py`) | a nested loop with its own list, the parent's todos | spawn, iterate, nudge, retry, end | no limit of iterations; interrupts at any point; refused completions |
| Deep skills (`skills/builtin/deep_analyze/`, `deep_research/`) | a job with a phase, a cancel event, questions | start, ask, review, extract, report, cancel | waits of minutes; cancellation is looked at in places |
| Hooks, approval rules (`core/hooks`, `core/runtime/approval`) | configuration, rules | match, run | sequential |
| Channels, docker, plugins, personas, memory, retrieval, language servers, other tools, terminal UI | see PROJECT.json | | input and output, ranking, text, rendering; several are unreachable (section 7) |

`PROJECT.json` lists each with its files and with the reason when it is not
modelled.

### How they interact

- **Calls.** A handler calls `AgentExecutor.execute_query` as a task of the
  loop; that submits `_run_agent_sync` to the pool; the thread calls
  `ReactExecutor.execute`.  The thread reaches back with `run_sync`, which hands
  a coroutine to the loop and waits for it.  MCP requests do the same on a loop
  of their own.  Subagents and the first part of a deep skill run inside a tool
  call; the rest of a skill runs on its own pool.
- **Shared state.** The running set, the queues and the registry are per
  session, but the session manager's `current_session`, the interrupt flag and
  the live configuration are one for the process.  The todo list and the record
  of file reads are one for an agent and its subagents.
- **Messages.** A handler puts text on a session's queue; the loop's thread
  takes it.  A thread puts a question into a dictionary and broadcasts it; a
  click comes back to a handler, which sets the thread's event.  What a browser
  shows is put together from broadcasts and from a fetch.
- **Database.** Saving a conversation counts rows and inserts the rest.  A
  question is mirrored into `pending_reviews` by a task nobody awaits; a click
  updates the row.

### What makes each part correct

- Dispatch and runs: one run per session; a message that was accepted is
  answered once, in order, in its own conversation; every query settles; a
  session that is idle has left nothing behind.
- Questions: nobody but a user says yes; a thread that is woken finds an answer;
  no entry outlives its thread; every wait ends; one click closes a row.
- Session store: the rows are the conversation, in order, each once; a crash
  loses a bounded tail; what is accepted gets there.
- Message list: what is sent has an answer for every call, results have their
  calls, nothing of the turn falls out; the loop's nudges do not go on for ever.
- Subagents: an interrupt ends them, and so does a model that stops calling
  tools; no open call is sent.
- Skill jobs: a cancelled job stops asking and does not deliver.
- Background tasks: a final status is true and is announced; an exit is noticed.
- MCP: the tables tell what is open; a caller is let go.
- Broadcasts: who stays gets every event, in order.
- Files: a write sweeps away nothing that the writer has not read, and an edit
  replaces nothing that was written after the agents read the file, except in
  the moments nobody checks.
- Settings: what is laid over them comes off again and is not saved.
- Client: a session at rest is shown whole.

The places where this is hard to test are the `hazards` of `PROJECT.json`, each
at its line, with the properties that cover it.

## 2. The modules

| Module | Models | Composed with |
|---|---|---|
| `WebRuns` | dispatch, `AgentExecutor`, the frame of the ReAct loop, queues, interrupts | implements `QueryService` |
| `ReactTurn` | the iterations of one run: answers of the model, tool calls, nudges | fills in what `WebRuns` calls one iteration |
| `MessageList` | the list sent to the model, the stored conversation, compaction | the list that `ReactTurn` reduces to its unanswered calls |
| `PendingReviews` | questions to the user, their waits, clicks, rows, restart | the waits inside a tool call of `ReactTurn` and of `SkillJobs`; implements `Questions` |
| `SessionStore` | load, add, autosave and save of one conversation | implements `Transcript` |
| `Transcript` | what a conversation's store promises | abstract |
| `QueryService` | what the server promises to clients that send one query after the other | abstract |
| `Questions` | what the server promises about questions to the user | abstract |
| `SubagentLoop` | `run_sync` of the main agent class as a subagent runs it | inside a tool call of `ReactTurn` |
| `SkillJobs` | the jobs of deep_analyze | started by a tool call, outlives its run |
| `McpConnections` | clients, locks, timeouts and stderr of the MCP manager | — |
| `BackgroundTasks` | one command left running, its output thread, kills and notices | — |
| `Broadcasts` | the walk over the connections and the thread that waits for it | its clients are the tabs of `ChatView` |
| `ChatView` | one tab and what it shows of one session | — |
| `TodoList` | write, update, complete, clear, search | — |
| `FileEdits` | read, edit and create one file by agents side by side, and its user | — |
| `SessionModel` | the overlay, the configuration and the settings file | — |
| `MCWebRuns`, `MCPendingReviews`, `MCReactTurn`, `MCSessionStore` | small values for TLC and symmetry sets | extend the module they are named after |
| `MCShared`, `MCParts`, `MCAgents` | several modules in one run | extend the modules they run |
| `FilteredSequences` | the comprehension `[x for x in s if ...]`, as a recursive function | used by `WebRuns`, `MessageList`, `Broadcasts`, `TodoList` |
| `SequenceInduction` | induction over numbers and sequences; what filtering returns | used by the proofs |
| `WebRunsProofs`, `ReactTurnProofs`, `PendingReviewsProofs`, `SessionStoreProofs` | theorems | extend the module they are named after |
| `ToolsProofs` | theorems about what tools set going | extends `SubagentLoop`, `SkillJobs`, `BackgroundTasks`, `McpConnections` |
| `WorkspaceProofs` | theorems about what an agent works on | extends `FileEdits`, `SessionModel`, `TodoList` |
| `ConversationProofs` | theorems about what is said and who gets it | extends `Broadcasts`, `MessageList`, `ChatView` |

**Granularity.**  Code on the event loop runs undisturbed between two awaits, so
the piece between two awaits is one action.  Code on a pool thread can be
interrupted anywhere, so it takes an action per access to state that somebody
else also touches.  `run_sync` is a call to the loop that the thread waits for;
in `WebRuns` its effect is one action, in `SessionStore` its awaits are spelled
out.

**Parts that share nothing.**  `MCShared`, `MCParts` and `MCAgents` extend modules whose
names are disjoint and which have no state in common.  In each behaviour one
part, chosen at the start, moves and the others rest in an initial state.  Such
a behaviour is one of that part's own specification, so a property of a part
holds in the union exactly if it holds in the part alone, and the union has the
sum of the parts' states and not their product.

### WebRuns

A query is a message.  `pc[m]` follows it through `_handle_query` or
`send_query` (`Inject`, or `StartQuery`, `LoadSession`, `CreateTask`),
`execute_query` (`SetRunning`, `Submit`, `Finalize`), `_run_agent_sync`
(`PickUp`, `SetCurrent`, `BuildFails`, `BindQueue`, `Register`) and
`ReactExecutor.execute` (`BeginLoop`, `EnterLoop` to `Return`).  `BuildFails` is
an exception anywhere between the start of the run and its `try`: the queue, the
registration and the token may exist by then, and neither the finally clause of
the loop nor its final drain runs.  `AddFails` is an `add_message` that raises:
in the loop the final drain follows; in the final drain itself, which catches an
empty queue only, the rest of the queue is left behind and `execute_query`
drops it.  `aborted` records the runs that ended in these two ways.  `running`, `queueOf`,
`registry`, `current` and `flag` are the shared maps of `WebState`,
`AgentExecutor` and the session manager.  Queue objects are kept apart from the
session that owns one (`content` is by object), because the code lets two runs
hold different queues of one session.  `hand` is the message a drain has taken
off the queue and not yet added: interrupts, other runs and reloads get in
between.  `history` is what was to be added to conversations, in order, with the
session it went to, or `None` if adding it failed and it is lost.

`QueryService` is what this machinery amounts to for clients that wait for the
dispatch of a query before the next: a session is busy with one query, what
comes meanwhile stands in line, the log gets the query and then the line, in
order.  It also says what a client may not rely on: a line can be full, and is
forgotten when the answer begins and when the session becomes idle; when the
store fails, the head of the line may be lost, which the log says, and the
session may stop listening (`StoreFails`, `Leave`).  The mapping takes the one active query of a session for the one it is serving
(`Serving`), reads the stage off its `pc`, and the line off the hand and the
queue object the session owns (`Line`).  An exception before the loop, an
interrupt, the iteration limit and the final drain all map to `Deliver`,
`StoreFails`, `Leave`, `End` or a stutter.

### ReactTurn and MessageList

`ReactTurn` has one action per phase of an iteration (`StartIteration`, `Think`
or `StopThinking`, `ModelFails`, `AnswerText`, `CallTools`, the execution,
`AnswerCalls`), with `Raise` and `ToolRaises` for exceptions and `LeaveOrGoOn`
for a BREAK that finds a message waiting.  `AnswerText` has one disjunct per
way through `_handle_no_tool_calls` and `_handle_failed_tool_nudge`; `CallTools`
one per way through the first half of `_process_tool_calls`.  `ToolRaises` also
ends a parallel batch: its workers raise nothing, but arguments that are not
JSON do, where subagents are announced (`tool_processing.py:541`) and where the
reads are shown (637).  The list is
reduced to the calls that are not answered yet and how the last tool message
reads, since these are what that code asks of it.  The model's answers are
arbitrary; so are the outcomes of tools.  The iteration limit is left out on
purpose: what is asked is whether the budgets of the nudges end the loop without
it.

`MessageList` has the list itself: entries with a role, an identity and the
calls or the call they belong to.  `Put` is `append` with its automatic answers,
`PutResults` the batch, `Install` the replacement by a compacted list.
`StartTurn` rebuilds the list from what is stored, from the compaction point if
there is one; `StepDone`, `StepRefused`, `StepCancelled`, `StepInBackground` and
`StepRaises` are the ways out of a step, which differ in what they append and in
what they store.  `Masked`, `Pruned`, `Compact` and `Replay` are the stages of
the compaction as operators; `Optimise` takes any of them, since which is due
depends on token counts.

### PendingReviews

A request goes from `Ask` (the entry, the event and a scheduled insert) through
`Announced` or `AnnounceFails` to waiting, and is ended by `Wake`, by `Expire`
and `GiveUp`, or by a restart.  `ReadAnswer` and `ClearRead` are two actions
because the code takes the lock twice.  Clicks have two halves, memory and row.
The kinds differ in what they do without an answer.

`Questions` is the promise: the last answer given while a question listens is
the one its agent hears; only a question nobody answered gets its default; what
is said to one that does not listen has no effect.  A question listens from its
registration until its thread is woken and reads, or its time is up
(`Listening`, `Phase`); what was said is the entry, with the entry gone from an
approval mapped to `cut`.  The rows and the second halves of clicks are not in
it, so the steps of the database map to stutters: no row ever decides what an
agent is told.

### SessionStore and Transcript

Tasks load the conversation into objects of their own; `current` says which one
the manager holds.  `CountRows` and each `InsertRow` are actions, as each is
awaited.  `Transcript` is the promise: a log, a prefix of it in the table, and
forgetting only after a failure.  The refinement maps the log to the messages of
the object of the query that is under way, or to the rows if there is none, and
`saved` to the number of rows.

### SubagentLoop

The loop of `run_sync` from `Spawn` to a result.  `CallFails` and `BackOff` are
the attempts of the HTTP client, which look at the interrupt between them;
`AnswerText` holds the nudges after a failed tool, for open todos and the
reminder of the task, each with its budget; `CallTools` decides between the
parallel path (`RunTogether`) and one call after the other (`RunTool`), and
explore-first blocks a response.  `Refuse` is a `task_complete` with open todos:
its user message makes the list answer the other calls of the response, which
are executed all the same, and `subLate` records results that come after.
`SiblingEnds` is another subagent of the same parent resetting their common
todos.

### SkillJobs

A job goes through `loading`, `profiling`, rounds of exploring and clarifying,
`planning`, reviews, `extracting`, `rendering`, `synthesizing` and `reporting`.
`MoveUnlessCancelled` is `_check_cancel`, so that the phases without a look at
the event are those that use `Move`.  `StartJob` and `CallReturns` are the tool
call, which waits for the profile; `NewRun` builds new tools and with them a new
registry, so that `CancelAnalyze` finds a job only from its own run.
`SkipReview` is a context without a callback; `Report` sets the status to done
and `Announce` builds and sends the final message, which may still turn the job
into a failed one.  `jobNags` counts the questions asked after a cancellation.

### McpConnections

A request has a thread (`caller`) and a coroutine (`coro`).  Connecting,
disconnecting and deleting take the server's lock; sweeps, shutdown and tool
calls do not.  `TimeOut` gives the lock back and leaves the coroutine, except
that of a call, which is cancelled.  `Close`, `Opened`, `OpenFails`, `Clean` and
`Discovered` are what follows each await, with the tables found as others have
left them.  `Suppress` and `Restore` are the redirection of file descriptor 2.
The history variables `contested` and `nested` record overlaps; the properties
are about servers and suppressions without any, and two actors that overlap are
shown to be the only way to break them.

### BackgroundTasks

One command.  `Register`, `StartStreaming` and `RecordStopEvent` are separate,
as the output thread is running before its stop event is known; the thread
polls (`StreamPolls`), writes the status and announces it.  `GetStatus` is the
getters, which write too.  `KillStep` is `kill_task` in its pieces: stop the
stream, signal, wait or time out, mark, announce.

### Broadcasts and ChatView

`Broadcasts` walks the list by index (`cast[e].at`), as Python's iteration does
while the list changes.  `shifted` records walks that lost their place, `late`
those whose scheduling thread gave up waiting.

`ChatView` is a tab and as much of the server as it can tell.  A message is an
identity, and `says` is what it reads: the client knows texts only, so `Echo`
compares texts, and two messages that read the same are the same to it.  `wire`
and `uplink` are the socket's two directions, `fetch` the requests for the
stored messages (several can be under way: `LoadSession` has no guard but the
empty view, as `loadSession` has none), `Hear` one event per type of message.
`StepEnds` makes the calls of a step messages of the session, `StepDropped` is a
step that is cancelled and never stored.  `apart` names the messages that met
something the client does not make up for: a lost connection, a fetch under way,
a view that began without being fetched, another message in front of an echo.

### TodoList, FileEdits, SessionModel

`Applied` folds the statuses of a rewritten list one by one, as the code does,
since setting one to doing changes another.

In `FileEdits` an edit is `CheckFresh`, `DryRun`, `Decide`, `LockAndRead`,
`Copy`, `ReplaceText`, `Invalidate`; the text is a few passages, each marked
with the write it comes from.  An edit quotes a passage as it read at some time.
The search is a chain of nine passes: the first takes exactly what is quoted,
the others take what looks like it.  `Matches` allows every non-empty set of
passages that are there, and asks only that an exact match is part of what is
taken; so the properties hold whatever the fuzzy passes settle for.
`WriteFails` and `Crash` may leave the file truncated, as `open(path, "w")` does
before anything is written; an empty file stands for any beginning of the text.
Three histories say what a write did: `lost` is what it swept away beside the
passage it was for, `replaced` what an edit replaced without having quoted it,
`displayed` what was in the file when a recorded read opened it.  `raced` and
`slipped` are the moments in which that can happen: between the last look and
the write of another agent, and where the tracker is blind (within its 50 ms,
while a read is under way, after the check of an edit, without a record).

`SessionModel` keeps the overlay, what it hides, the configuration, the settings
file of the user and that of the project, which a start reads over it and nothing
writes; a switch therefore saves the project's models with the user's.  A save
that fails leaves the file or tears it (`Torn`), and nothing starts from torn
settings.  The terminal's commands take the overlay off around a save, the web's
do not.

## 3. The runs

| Run | Question | Bounds |
|---|---|---|
| `WebRuns_overlap` | idle sessions are clean, no message twice, with clients that do anything | 3 queries, 2 sessions, 2 threads, queue of 1, 1 interrupt |
| `WebRuns_serial` | one run per session, the ledger of a queue, every query settles, the loop takes what is on its queue, `QueryService` is implemented, with a store that fails | 3 queries, 1 session, 1 thread, queue of 2, 2 iterations |
| `WebRuns_two_runs` | **violated**: one run per session | as overlap |
| `WebRuns_late` | **violated**: late arrivals are persisted | 3 queries, serial clients |
| `WebRuns_wrong_session` | **violated**: writes stay in their session | as overlap |
| `ReactTurn_turns` | answered calls, spent nudges, budgets and interrupts end the loop | 4 batches, 1 message, budgets 2, 1 and 2, cycles of up to 2 |
| `PendingReviews_serial` | yes means yes, late clicks | 2 requests, 2 clicks, no overlapping runs |
| `PendingReviews_restart` | entries, rows and waits over a restart and overlapping runs; `Questions` is implemented | 1 request, 2 clicks, 1 restart |
| `Shared` | what several writers share, one part at a time: the order of rows while tasks interleave, a file, the settings under an overlay, a tab's view | below |
| `SessionStore_twice` | **violated**: rows in order with a side save | 1 query, 1 side save |
| `Parts` | six parts, one at a time: the store implements `Transcript` and persists, the message list, MCP, background tasks, broadcasts, todos | below |
| `Agents` | a subagent is let go; a cancelled job stops asking and does not deliver | below |

Bounds of `Shared`: 2 queries, 1 reload, 1 side save, failures, 1 restart, an
autosave at every message; 2 agents, 2 passages and 2 writes of one file; 2
model fields and 2 models; 2 texts, 3 messages and calls of a session, 2 events
and queries on their way, 2 fetches, 1 lost connection.  Bounds of `Parts`: 2
queries, 1 reload, 5 messages, autosave every 2, failures,
1 restart; 6 identities of messages and calls, 2 calls in an answer, 2 kept when
masking and 1 when pruning harder; 2 MCP requests and 2 servers; 2 killers; 2
clients and 2 events; 2 titles and 2 todos.  Bounds of `Agents`: the code's 3 failures and 2
of its todo nudges, 2 attempts, 2 calls in a response; 2 jobs, 1 worker, 1 round
of questions, 1 review, 1 later run.

**Why the bounds are enough to be interesting.**  Three queries are one that
runs, one that arrives during it, and one more that overlaps either.  A queue of
one fills; a drain of one leaves something behind.  Two iterations let the limit
strike with a message waiting.  In `ReactTurn` the batches are one that is read
only, `task_complete`, a pair of subagents that runs in parallel and marks the
exploration, and a sequence with a subagent that is blocked before it, a plan
and a background task; every outcome of each, every place for a message and an
interrupt, and every budget running out are reached.  Budgets are smaller than
the code's, which only shortens behaviours: each is at least large enough to be
spent, reset and spent again where the code resets it.  Two requests and two
clicks are a double click and a click on the wrong question; an autosave
interval of two with five messages saves twice and leaves a tail.  Six
identities are a turn with two calls, a compaction, and a second turn rebuilt
from its point.  Two MCP requests with one server in common are enough for every
overlap; the second server is what a sweep goes on to.  Two killers, the output
thread and the getters are all kinds of writer with one of them twice.  Two
agents and a user overwrite each other in every order; a second write finds the
record of the first.  Three messages with two texts are two that read the same
and one that does not, or a query, a call and an echo; a second fetch can be
asked for while the first is under way.  One worker makes the second job wait
for the first.  `WebRuns_serial` has one session, so queries of different
sessions never compete for its worker; `PendingReviews_serial` has no restart,
so that a click after a restart is told apart from one a thread still waits for
is shown by the theorem `DatabaseAnswersTheGone` only.

**Fairness.**  `WebRuns` and `SessionStore` assume weak fairness of what a task
or a thread that is under way does next: the loop runs ready callbacks in turn
and the operating system runs threads.  Nobody has to send, click, open a
session or press interrupt, and nothing has to fail.  `ReactTurn` and
`SubagentLoop` assume that the thread goes on, with the model's call and the
tools returning: HTTP calls have timeouts, and waits for the user end by
`EveryWaitEnds`.  They do not assume that the model ever answers in a particular
way.  `PendingReviews` assumes fair threads and, in `EveryWaitEnds` only, that
the clock goes on.  `McpConnections` assumes that the threads that call the
manager run and that their waits run out; nothing is assumed of the servers,
whose coroutines may hang for ever.  `BackgroundTasks` assumes that the output
thread runs, not that a command ends or that a kill succeeds.  `SkillJobs`
assumes the job threads, whose waits for the user end after ten minutes.  Two of
these assumptions are more than the code ensures.  The subagents that extract a
sub-table have no limit of iterations, no interrupt token and no look at the
cancel event (`agent_executor.py:377`, `execution.py:218`): `CancelTakesEffect`
assumes that they end.  The output thread, once it has seen the command end,
reads what is left without looking at its stop event
(`background_task_manager.py:185`): `ExitIsNoticed` assumes that this ends,
which a grandchild that keeps writing to the terminal can prevent.

**Deadlock** is allowed (`CHECK_DEADLOCK FALSE`) where the system may stop: all
queries settled, all tasks ended, the run over, the settings torn, nothing left
to write or to show.

**Mutants.**  Each property of a passing run has a mutant, a definition marked
`Mutant:` in the module, in which the property fails: a test that is dropped, a
reset that is forgotten, a count that is not made.  They show that the property
depends on the code and not on the shape of the model.

## 4. The proofs

Eight modules hold theorems.  They hold for every value of the constants that
satisfies the named assumptions of the module they extend (`BoundsAssumption`,
`NoneAssumption` and their like: sets are disjoint, bounds are numbers), and for
behaviours of the specification without fairness.  Every safety property that a
passing run checks is proved, the three refinements among them.
What a property counts or compares is a conjunct of an invariant that each step
preserves, with one lemma per action where the step is long; the invariants were
checked by TLC before they were proved.

- **SequenceInduction.**  The library's induction theorems take an operator as a
  parameter, which the provers cannot instantiate.  Here they are facts about
  sets: a set that has 0 and the successor of each of its numbers has every
  number (`Induction`), one that has the empty sequence and each of its
  sequences with one element more has every sequence (`SeqInduction`).  What is
  to be shown of a number is put as the membership in a set.  From them follow
  that a recursive function has a value everywhere (`RecExists`) and what
  `Keeping`, the filter of `FilteredSequences`, does with a longer sequence, a
  removed element, a prefix.  The other modules use these facts for the filters,
  folds and concatenations of the code.

- **WebRunsProofs.**  `TypeOK` is not inductive: it needs that a run that drains
  has a queue, that a hand is full only while draining, and that there is a
  current session from the first load on (`TypeInv`).  `IdleIsClean` is inductive
  with it.  `OneRunPerSession` is proved for clients that do not overlap two
  dispatches (`SerialClients`); its invariant counts a query as a run from its
  dispatch on, since the running set is marked later (`SerialInv`).
  `NoMessageTwice` follows from `OnePlace`: what is on a queue or in a hand was
  injected, and is on no other queue, in no other hand and not in the history.
  `DeliveryLedger`, for serial clients, compares sequences: per queue, what was
  put on it is what was thrown away, then delivered, then in the hand of its
  reader, then waiting.  Its invariant `LedgerInv` says this of each queue, and
  `Wired` why a delivery concerns one queue only: two sessions have different
  queues, a live run reads its session's queue or one that was dropped, and no
  queue has two readers.  `ImplementsQueryService`, for serial clients, rests on
  all of these (`ServiceInv`) and on `QueueInv`: a run reads the queue its
  session owns, which is empty until it is named.  One lemma per action shows
  the step of `QueryService` it maps to, or that the picture stays the same.
- **ReactTurnProofs.**  `ModelSeesAnswers` and `SuccessSpentItsNudges` with the
  types.  A tool that raises leaves calls unanswered; `RepairIsDue` is why the
  model is not called with them: the loop goes on only if a message waits, and
  appending it repairs the list.
- **PendingReviewsProofs.**  Types, `EntriesHaveWaiters`, `YesMeansYes` and
  `OneClosesTheRow` with overlapping runs and restarts; `WokenFindsAnswer` and
  `FallbackOnlyWhenGone` for runs that do not overlap (`SerialRuns`).
  `ImplementsQuestions` holds with and without overlapping runs: `Questions`
  has the constant `Serial`, and only without it can a question be cut off and
  its agent crash.  `AskInv` is what the mapping needs of a thread that listens:
  it has been told nothing, it is woken by whatever changed its entry, and only
  an approval loses its entry to the end of another run.
- **SessionStoreProofs.**  `RowsInOrderWithoutSides` holds for any tasks, with
  failures, reloads and restarts.  Its invariant `OrderInv` has one saver at a
  time and objects that rise and are nowhere below the rows; an object that was
  installed while another is being saved has nothing the table lacks, which is
  why the next insertion cannot overtake it.  For tasks that do not overlap
  (`Alone`), `AloneParts` say that the rows are what the object of the one task
  under way begins with, and `LagKept` that it is ahead by no more than the
  turn counter's remainder: `LagBounded` follows, and `StoreImplementsTranscript`,
  the refinement.  The latter maps each action to accepting, persisting, failing,
  forgetting or a stutter; it assumes finitely many queries, as `Message` is
  bounded by their number.  `StoreTypesHold` needs no `Alone`: each query and each
  side save that has begun has sent one message beside those of the runs
  (`Extras`).
- **ToolsProofs.**  Of a subagent, `SubSendsAnswered`, `LateOnlyAfterRefusal`
  and `AcceptedSpentItsHints`: the answers that come late belong to a response
  whose `task_complete` was refused, and a text is accepted only when the hints
  for it are spent.  Of skill jobs, `AtMostOneMoreQuestion`, by bounding the
  questions asked since the cancellation in each phase (`JobInv`), and
  `NobodyWaitsForTheDead`.  Of background tasks, `StatusTellsExit` and
  `FinalIsAnnounced` from an invariant about who has written the status when
  (`BgInv`): a task is listed before anything else knows it, and a writer of a
  final status has seen the end or made it.  Of MCP servers that were never
  contested, `TablesTellTruth`: the invariant `McpInv` says where the coroutine
  of a waiting thread can be, that a lock has its holder, that an uncontested
  server has one worker, and what that worker knows of the tables.
  `LockedWorkAlone` (two requests that take the lock of one server work on it
  together only if one of them timed out) and `StderrComesBack` (no suppression
  that never overlapped another leaves stderr on `/dev/null`) come with it.
- **WorkspaceProofs.**  The invariant of a file, `EditInv`, has two parts beside
  the types.  `RaceInv`: an edit that has read the file holds its lock, what
  stands in the file and is not in what it has read, or in the backup once there
  is one, was raced, and so was all that an agent about to create the file would
  find; `OnlyRacedIsLost` follows, truncations included.  `SightInv`: under a
  record newer than the file, and as long as an edit is under way, every passage
  of the text was displayed or has slipped; while a read is under way, every
  passage was read by it, displayed or has slipped; `OnlySlippedIsReplaced`
  follows for any matches.  Neither part helps the other: the lock keeps edits
  apart, the tracker tells what they may not know.
    `TerminalPeelsOff`: the overlay hides exactly the
  settings it replaced, so that taking it off gives back what was saved or
  started with, whatever was selected, failed, torn or restarted in between.  `WriteIsExact`:
  the fold over the statuses of a list of any length, by induction over its
  prefixes; with at most one item in progress no step undoes an earlier one.
- **ConversationProofs.**  *Broadcasts* (`CastInv`): a walk that kept its place
  has dealt with every client before it and has sent nothing to those behind it,
  and the thread goes on only when a broadcast is done or was given up;
  `StayersGetIt` and `InOrderUnlessLate` follow.  *The message list*
  (`ListInv`): a list rebuilt from stored steps is a concatenation of complete
  blocks, so that the repair changes nothing and every call has its answer; while
  tools run, what is owed is what the last message asks; compaction, masking and
  pruning keep who asks and who answers (`SameBones`) or drop the beginning
  behind a summary that covers it (`Survives`).  `SentIsAnswered`,
  `OrphansOnlyFromCompaction` and `TurnKeepsContext` follow.  *The tab*
  (`ViewInv`): what is logged, called or under way was made, in order
  and in one place (`AllWereMade` to `CallsRise`); of what met no fetch a fetch
  under way finds all, and so would one that an empty tab might send
  (`FetchKnowsTheRest`, `FetchWouldKnow`); a tab that shows something has heard
  or will hear of the rest, or shows a message that reads the same
  (`TabFollows`); what waits for its echo is the last message of a user
  (`EchoWillBeKnown`), so nothing is shown twice (`ShownAreUnique`); a result
  finds its call (`ResultsFollow`), and whatever keeps the spinner going ends it
  (`SpinnerWaits`).  At rest nothing is announced, so `ViewIsWhole` follows.

## 5. What is only model-checked

- **Liveness**, which is beyond the prover: `EveryQuerySettles`,
  `LoopAnswersItsQueue`, `InterruptFrees`, `EveryWaitEnds`,
  `EventuallyPersisted`, `RepeatingModelIsStopped`,
  `InterruptEndsLoop`, `CallersReturn`, `ExitIsNoticed`, `SubagentLetsGo` and
  `CancelTakesEffect`.
- The reverse: the type invariants of all modules, `WokenFindsAnswer`,
  `NobodyWaitsForTheDead`, `SubSendsAnswered`,
  `LateOnlyAfterRefusal`, `AcceptedSpentItsHints`, `LockedWorkAlone` and
  `StderrComesBack` are proved and in no run.
- `RecentContextPreserved` (`MessageList`) and `SettingsStayGlobal` in the web
  (`SessionModel`) state what a comment says and the code does not do; the
  findings quote the comments.

## 6. Where the code differs from what is said about it

Four runs end in a counterexample; `findings` in `PROJECT.json` quotes the text
each contradicts.

1. Two queries for an idle session can start two runs (`web/websocket.py:170`).
2. A message accepted between the final drain and the removal of the queue is
   lost (`web/agent_executor.py:165`).
3. A message can be added to another session's conversation, as the manager has
   one current session for all runs (`web/agent_executor.py:400`).
4. A side save of a deep skill and a save of the run insert the same messages
   twice (`pg_manager.py:172`).

Seen while modelling.  Those that contradict a quoted text are in `findings`
without a run; the models contain the behaviour, and their properties are stated
so that it is visible what they exclude.

*Runs and questions.*
- With overlapping runs, the end of one removes the entry another waits for, and
  the woken thread reads `None` (`web/web_approval_manager.py:134`);
  `WokenFindsAnswer` is proved for runs that do not overlap and fails otherwise;
  `Questions` calls it a crash of a question that was cut off.
- A database error in the final drain loses the message in hand and leaves what
  is still on the queue, which is then dropped (`executor.py:495`); one in the
  loop loses that message, unless only its autosave failed.
- Messages accepted while a run is being built are thrown away when the loop
  begins (`executor.py`, EC2); `cleared` in `WebRuns` records them.
- An interrupt does not reach a run that has not registered its executor yet.
- A click after a timeout is told that it was resolved; so are both of a double
  click.  A row inserted late stays open for good.
- Loading a session makes it the current one of the process, though the comment
  at `web/websocket.py:205` says that it does not.
- A reload during a run replaces the object that has the unsaved messages.
- `force_prompt` is ignored by the web approval manager; a Stop hook cannot
  prevent stopping; `parallel_policy.py` is not used by the loop.

*The message list.*
- `has_explored` is set before Code-Explorer runs, so a spawn that was denied
  or failed unblocks other subagents (`tool_processing.py:226`).
- A cancelled step returns before `_persist_step`, so the results the model has
  seen are not stored; a step that starts a background task is not stored
  either.
- Compaction cuts the list at a fixed distance from its end
  (`compaction.py:527`) and can leave a result without its call, though
  `iteration.py:295` relies on the list being paired: `OrphansOnlyFromCompaction`.
- The compaction point counts all stored messages while the summary leaves the
  recent ones out (`executor.py:620`): a turn of the terminal that is rebuilt
  from the point has neither.  `compaction.py:493` promises the opposite.
- A newer large result is pruned while older small ones are kept, contrary to
  "protecting the most recent ones"; the replay of a summary does not recognise
  its own label.

*The session store and the overlay of models.*
- A save of the settings opens the file before it writes (`config.py:128`): one
  that fails may leave a file no start can read.  A switch in a project with
  settings of its own saves the project's models as the user's.
- The web's save of the configuration writes the overlay to the settings file
  (`web/routes/config.py:123`); a terminal switch of a field under an overlay is
  lost; a failing save drops the overlay; the overlay stays after a change of
  session, is never applied again on resume, and its metadata is neither stored
  nor read.  A PUT for a session that is not current has no effect, and web runs
  with a working directory do not use the overlay at all.

*MCP.*
- Two suppressions of stderr that overlap can leave it on `/dev/null`
  (`manager.py:27-41`): the second saves what the first has put there.
- A timeout gives the lock back while the coroutine goes on, so the next request
  works on the server beside it; a deletion during a connection leaves an open
  client that nothing names.

*Background tasks.*
- A notice of the end can precede that of the start; a status may go from
  completed to killed; `kill_task` says False if the signal's wait times out,
  though the process is gone.

*Files and todos.*
- `invalidate` lets the next edit pass unchecked, contrary to its docstring
  (`file_time.py:100`), and the record of reads is shared by all agents of a
  registry: a read of one agent lets the edit of another pass.  The check is made
  before the approval and the fuzzy search takes what only looks like the quoted
  text, so an edit may replace what a user has just written (`slipped`).  `write_file` looks
  whether the file exists and creates it without a lock.  The undo of an edit
  never has a backup path, nothing calls the undo manager, `undo_last` of the
  snapshots steps back once only and has no caller; the formatter is never set.
- `write_todos` creates as many todos in progress as it is given, though
  `crud.py:259` says one.  A number is tried as an index from 0 first, so "1" is
  the second todo.  `update_todo` with an invalid status has changed the title.
- `_reset_stuck_todos` of a subagent runs at every end and puts its parent's
  todo in progress back to todo (`run_loop.py:672`); a subagent is nudged for
  its parent's todos, though `manager.py:117` says that only the main agent
  tracks them.

*Subagents and deep skills.*
- An interrupt in the last attempt of a model call is reported as a plain
  failure; the loop has no limit and no detection of repetition.  Parallel
  subagents of one type share one compiled agent.
- After a refused `task_complete` the other calls of the response are executed
  though the list has answered them (`run_loop.py:601`).
- A run's end takes its registry of jobs with it, so a later run can neither
  poll nor cancel a job as SKILL.md says (`deep_analyze/engine.py:44`).
- Accepting a plan does not look at the cancel event, so extraction is started
  for a cancelled job; a cancellation during the report is confirmed and the job
  ends done.  A caller is told "failed during load/profile" whatever failed.
  Messages of a job are saved to the session that is current when they come.
- deep_research sets its status to done before its report is saved, which may
  turn it to error.

*The client.*
- `send()` on a closed socket only logs, so the message is shown and the spinner
  stays; nothing is fetched after a reconnect.
- An echo is told by its text, and against the last message of a user only
  (`chat.ts:552`): an equal message that another tab sends is never shown, and of
  two messages in flight the first is shown twice.
- A fetch during a run overwrites or doubles what events have shown and turns
  the spinner off.  A session that shows nothing yet is fetched again when the
  user goes away and back, and the later answer replaces what came after the
  earlier.
- A session that was heard of in the background counts as cached and its history
  is never loaded.  The expiry of an approval is not announced, so the dialog
  stays.

`ViewIsWhole` excuses each of these by the messages concerned and says nothing
of them: it is about the others.  In the same way `TablesTellTruth` leaves out
servers two coroutines worked on at once, `StayersGetIt` broadcasts that lost
their place in the list, and `OrphansOnlyFromCompaction` the lists a compaction
cut: what happens there is in the models and is listed here, and the hazards of
`PROJECT.json` say so.

*Unreachable code.*
- The wrapper of the language servers calls `create` with arguments that it does
  not take (`lsp/wrapper.py:139`), so that every symbol tool finds nothing.
- No specification of a subagent sets `docker_config`; the rotation of API keys
  has no caller; `MessageRouter` is never constructed; nothing calls
  `MainAgent.inject_user_message`; the package's entry point starts the web
  server only.

## 7. What is not modelled, and why

- **Left to tests.**  Ranking and retrieval, prompts, text and file formats,
  terminal rendering, language servers (vendored protocol code behind a wrapper
  that fails), channel adapters, downloads of plugins and personas: input and
  output, or sequential computation over rich data.
- **Not reachable.**  The Docker runtime, API key rotation, channels: section 6.
  A model would show something of code that does not run.
- **Sequential.**  Hooks run one after the other and stop at exit code 2; the
  approval rules match patterns; modes and costs are counters.  Each is an input
  of the loop that is modelled.
- **Abstracted in the models.**  Contents of messages; which user a session
  belongs to (a query for a foreign session is rejected, nondeterministically);
  costs; snapshots; the output of background tasks; token counts (which stage of
  the compaction is due is a choice); what a phase of a skill computes.
  `WebRuns` keeps the iteration as a choice, `ReactTurn` keeps what one does with
  an answer, `MessageList` keeps the list: the three are not composed into one
  state space.
- **Database.**  A statement is atomic; rows that do not decode, deletion and
  export are left out, and so is a `run_sync` that gives up while its coroutine
  goes on.
- **Subagents of a job.**  They run the loop of `SubagentLoop` without an
  interrupt token, outside a tool call; `SubagentLetsGo` is not about them.
- **deep_research.**  Its review happens inside the tool call, as a question of
  `PendingReviews`; its job asks nothing and cannot be cancelled.
- **Web client.**  Clearing a chat, the dialogs, the blocks of subagents and of
  deep skills, and the other stores.
- **Terminal UI.**  It calls the same `ReactExecutor`, so `ReactTurn` covers its
  loop; its own queue and thread-kill flag are not modelled, as the package does
  not start it.

## 8. What remains

1. `SessionStore` with an adding that times out in `run_sync` while its
   coroutine goes on.
2. `ReactTurn` with `MessageList` in place of its reduced list.
3. The blocks of subagents and skills, and the dialogs, in `ChatView`.
4. The subagents that a job of deep_analyze starts, which nothing monitors:
   `SubagentLoop` is the loop inside a tool call.
