# Verification of the CanDue desktop assistant

CanDue is an Electron application. Its windows (the renderer) talk to the Electron main process over IPC; the main
process starts a Python process, the desktop runtime, which serves the Copilot: it keeps threads and runs, drives
language-model agents, executes tools and streams what happens to the renderer over HTTP. This directory holds TLA+
models of the parts whose correctness depends on the order in which things happen, configurations that check them with
TLC, and proofs checked with TLAPS.

Paths below are relative to `src/`; `runtime/` stands for `backend/app/copilot_runtime/`.

## 1. Inventory

| Component | State | Operations | Hard behaviour | What makes it correct |
|---|---|---|---|---|
| Run records (`runtime/session_store.py`, `RuntimeRunRecord`) | status, cancel_requested, event log, assistant text, terminal payload | mark_streaming, request_cancel, mark_completed/failed/cancelled, append_event, projected_messages | no operation refuses a record another stream has ended | the log explains the status; terminal stays terminal |
| Run lifecycle (`runtime/bridge.py`, `runtime/runs/`, `runtime/transport/`) | records in the store, one generator per `run/stream` request | start_run, stream_run, cancel_run | a generator is suspended at awaits and at yields; cancellation, disconnect and the agent interleave there | nothing completes after a cancellation; every stream ends its run; the answer keeps the event contract |
| Agent event stream (`runtime/agent.py`, `execution_event_graph.py`) | agent task, event queue, segment buffer, observed tool calls | open, iterate, report, end, cancel | task and stream live apart; the end marker comes from a `finally` | no task without a listener; no event lost before the marker |
| Tool approval gate (`runtime/tool_approval_coordinator.py`, `tool_permissions.py`, `agent.py`) | requests by (run, tool call), futures, timers | create_request, wait_for_resolution, resolve, timeout, discard, discard_run | user, timeout, cancellation and the end of the run all settle the same request | a tool runs only on its approval; one decision; nothing left behind |
| Thread store, SQLite (`runtime/persistence/`) | rows of threads, runs and events; cached projections of runs and threads; a backup file | create, rename, duplicate and delete threads; create and mutate runs, record events; backup, restore | the event loop and the worker threads of the history routes each hold rows read before they write | readers see whole histories that only grow; caches and titles are what the rows say |
| Shell sessions (`runtime/_tool_registry/executors.py`) | processes by session id, deadlines, a lock each | start, exec, close, lazy recycling | deadline and close race an exec; limit checked before an await | at most 16 processes; no output taken from a session that is gone |
| Built-in tools and their contracts (`backend/app/tooling/`) | files, calendar | one call each | I/O | contract validation |
| Routes, providers, thinking (`runtime/model_routes.py`, `thinking_adapter.py`, ...) | none | resolve, normalise | none | pure functions |
| Skill and MCP snapshots, MCP executor | a snapshot per run | read, call the host | stale snapshots | calls carry the revision they were made for |
| Debug log store | files | append, rotate | none | observability only |
| Desktop runtime process (`backend/app/desktop_runtime/`) | process, bridges to the host | start, health, host requests | host answers late or never | a request is answered once |
| Blackboard panel (`desktop_runtime/routes/blackboard_ui.py`) | one sync lock, a cancel event, a status, download tasks | start/cancel sync, start/cancel download | worker threads and the loop write the same status | one sync at a time; a cancellation is honoured |
| Blackboard, TIS and WakeUp integrations | local databases | snapshot sync, soft delete | partial failure | a resync converges |
| Event manager, timeline database | database | project, patch | none | sequential |
| Electron: hosted backend, capability bridge | child process, readiness | start, stop, restart | crash while starting | one backend |
| Electron: managed runtime | installed versions, one installation task | load, install or repair | crash between staging and activation | never activates a partial install |
| Electron: MCP registry (`frontend-copilot/electron/mcp-registry/`) | the stored servers, a connector and a child process for each enabled one, reconnect loops, a published snapshot with a revision | save, delete, enable, disable, test, refresh, warm up, call | operations take no lock and overlap at every await; a file read while it is rewritten; timers that fire late | hub and document agree again after a reconcile; no process is forgotten; revisions never go back |
| Electron: settings, skills, files, attachments, timeline, tools, history | files | patch, import, list | concurrent patches | last write is complete |
| Renderer: send controller, run reducer (`frontend-copilot/src/features/copilot/`) | per session the state of the current run with its segments, messages, an abort controller, markers of the handover | send, submit a form, fold an event, cancel, reload the history, hand a run over | a send outlives the view of its session; cancellations and errors race the terminal event; the history lags behind the stream | the view ends when the run does; a cancellation reaches its own run; no outcome is lost between stream and history |
| Renderer: workbench (`frontend-copilot/src/workbench/assistant/`) | the session list, a history entry for each, a shell state in local storage | restore, open, create, copy, delete, load details and capabilities | answers arrive late, out of order or not at all | nothing deleted returns; the choice of the user stands; no old detail hides a run |
| Preload, IPC, the rest of the workbench | user interface | - | - | - |
| Provider catalog, scripts, website, docs | data | - | - | - |

How they interact. The renderer calls `run/start` and then `run/stream`, and may call `run/cancel` and
`tool/approval/resolve` while the stream is open (HTTP, one asyncio loop in the runtime). `RuntimeBridge` turns them into
operations of a session store (`composition.py`: SQLite in the desktop build, in memory otherwise) and a generator. The
generator pulls projected events from `RuntimeMessageRunOrchestrator.stream_events`, which opens an event stream of the
agent executor; that starts an asyncio task for the agent and reads its queue. Bound tools run inside the agent task and
pass the approval gate, whose coordinator is shared by all runs. Cancellation is a flag on the stored record which the
generator polls; a disconnect is polled too, and the HTTP server also cancels the response. In the renderer the send
controller follows the stream and folds its events into the run state of the session; when the run has settled the chat
panel tells the workbench, which loads the detail of the thread again, and the panel hands the run over to it. Servers of
the MCP registry live in the Electron main process; the runtime reads the snapshot that is published for it.

The hazards this code is exposed to are listed one by one, at their lines, under `hazards` in `PROJECT.json`.

## 2. Modules

```
Extremes             least and greatest numbers, by well-founded induction (lemmas only)
RunRecord            the record and its operations (pure)
  RunStreamContract  what a reader of run/stream may rely on          (abstract)
  RunLifecycle       start, stream, cancel, disconnect, agent task    (implements the contract)
    MCRunLifecycle     small instances
    RunLifecycle_proofs
  ThreadHistory      what readers of the session store may rely on    (abstract)
  ThreadStore        rows, projections, transactions, backups         (implements it)
    MCThreadStore      small instances
    ThreadStore_proofs
ToolApproval         bound tool executions and the coordinator
  MCToolApproval       small instances
  ToolApproval_proofs
RunSegments          what the panel shows of a run, event by event (pure)
  RunSegments_proofs
  RunView            sending, following, cancelling, handing over
    MCRunView          small instances
    RunView_proofs
SessionHistory       the session list and its details
  MCSessionHistory     small instances
  SessionHistory_proofs
McpRegistry          servers, connectors, revisions
  MCMcpRegistry        small instances
  McpRegistry_proofs
```

A definition whose comment begins with "Mutant" is not part of a model: it is a faulty form of the one that follows it,
kept to show that a property would notice (`mutants` in `PROJECT.json`).

### RunRecord

`RuntimeRunRecord` as a record of TLA+; every method is an operator from record to record. Both stores apply the same
methods (the SQLite store loads, applies and writes back in one transaction), so these operators serve for either.
`UpdateFromEvent` is `RuntimeBridge._update_run_state_from_event`: it appends the event whatever the status and then
moves the status. Timestamps are kept as "was set" (`started`, `ended`), the text as "is stored", and the terminal
payload as the one code the archive asks for (`awaiting_user_input`). A `run_failed` with that code is called
`awaiting_input` because the archive tells the two apart. `ProjectsAssistant` says whether `projected_messages` adds an
assistant message.

### RunLifecycle

One action is what the event loop runs between two suspension points, and `pc[s]` names the point at which stream `s` is
suspended:

| pc | Where |
|---|---|
| `opened` | `run/stream` has looked the run up; the generator has not run |
| `started`, `preempted`, `prepared`, `yielded`, `failing`, `closing` | an event has been yielded to the response |
| `preparing` | the route resolver |
| `iterating` | the agent's event queue |
| `checking`, `check_done`, `check_output`, `check_final` | the four places that await the disconnect and cancellation check |
| `unwinding` | the cancelled execution, until its agent task is done |
| `closed`, `escaped`, `abandoned` | returned; left by an exception; dropped at a yield |

The yields are real suspension points, since the response is sent through `BaseHTTPMiddleware`s
(`desktop_runtime/app_factory.py:235-244`). `await` expressions that never wait, such as calls of the synchronous store,
are not. `Detached` says whether `get_run` returns a copy (SQLite) or the record itself (in memory); it matters only for
the decision `_stream_run` takes on the run it was handed. `CancelRun` is enabled for every known run and records a
request for those that have not ended. `Disconnect` makes `is_disconnected` true; `ServerCancels` is the cancellation of
the response by the HTTP server that follows. Dropping a generator and cancelling the agent task behind it happen in
several turns of the loop in the code and in one step here: nothing in between can be told apart by the store or by a
client.

The agent task is reduced to what the stream sees: it reports events, and it ends well, with an error, by asking the user
(which interrupts the run), with a tool call that was announced and never executed, or cancelled. `text_delta`,
`tool_event`, `form_request` and `unexecuted` stand for the events that leave different traces; `segment` for the
boundaries the projection swallows. When the agent of one stream ends, `discard_run` drops the approval requests of the
whole run (`agent.py:298`), and the agent of another stream of that run that waits for one ends with a CancelledError of
its own (`Over`); its stream then reports `run_cancelled`, although nobody cancelled it. `Refuse` is a preparation that
ends in `run_failed` without a diagnostic, as for an unconfigured model or a thinking mode the model does not have.
`PrepareOk` leaves out the metadata stored with the run (`touch_run`, `bridge.py:318,579`): nothing here reads them, and
the touch of the thread is that of the event emitted in the same step.

### RunStreamContract

The same events as their reader sees them: `run_started`, then `run_metadata`, a body, one terminal event; or a single
`run_cancelled`; nothing after a terminal event; only failure after a failure diagnostic. It says nothing of stores or
tasks. It says what the code sends; the documents ask for more in two cases, a `run_started` before every other event and
a `run_failed` after an unexecuted tool call, and the runs `doc_first_event` and `doc_unexecuted` show that the code does
otherwise. `RunLifecycle!StreamContractHolds` is the refinement, with `seen <- sent`.

### ThreadHistory

What the store shows: every thread is a sequence of runs in the order they were started, each with its events in the
order they were recorded. A history grows by a run or an event, a run moves by the methods of `RunRecord`, a copy shows
the whole history of its source at one instant, a deletion removes all of it, a restore brings back what was saved. Rows,
ids, clocks and caches do not appear.

### ThreadStore

The five tables as one record `db`: thread, run and event rows (the truth) and the projections of runs and threads (the
caches). Of every row it keeps the columns that decide something: the title and whose it is, `last_run_id`, the three
times of a run, the sequence number of an event and the run its payload names. A run row holds a record of `RunRecord`
whose log is empty, since the events are rows of their own. New runs get ids that no row and no open transaction has
(`FreshRuns`): the code draws them with `uuid4`.

Every operation is one transaction, `run_lifecycle_transaction`. The Python driver sends no BEGIN before a SELECT, so
what a transaction reads before its first INSERT, UPDATE or DELETE is read outside SQLite's write lock. Most operations
reach that first write holding nothing another actor can have changed, and are one action. `create_run`, `rename_thread`
and `duplicate_thread` hold the thread row; each is an action that reads (`pending`) and an action that writes. An
UPDATE names the columns that changed since the row was loaded (`WriteBack`), so a stale row does not undo another
transaction wholesale, which is what makes the interleavings interesting. `RollBack` stands for a lock that could not be
had in five seconds and for a row that has gone.

The actors are the event loop, on which the Copilot routes run, and the worker threads of the history routes, which are
plain `def` handlers that FastAPI runs in its thread pool. `Workers` is their number and `Overlap` says whether a
transaction may begin while another is open.

The clock advances with every transaction. Two transactions of one thread never carry the same instant, so ids never
break a tie between times; ties between a run and its copy are within different threads. `RestoreDatabase` is taken while
no transaction is open: the code disposes its pool and removes the -wal and -shm files without waiting for anyone, and
what SQLite does to a connection that is open then is not modelled. An operation that finds its run ended writes nothing
to the run; its refresh of the thread is one step all the same.

### ToolApproval

A call goes from `idle` to `waiting` (request registered and awaited in one go) or directly to `executing` or `failed`;
`pending`, `timer` and `future` are the coordinator's map, its timer handles and the futures. `decided` is a history of
the decisions the coordinator accepted, so that "at most one" can be said. A user's answer (`Resolve`) and a timeout
(`TimeoutFires`) look the request up by key, exactly as the code does; the timeout applies the action of the request it
finds. The agent side is modelled as far as it settles requests: `CancelAgent` (the stream leaves), `InterruptCalls` (the
agent library cancels the calls in flight, also when one of them gave up because its request was dropped), `EndAgent`
(the `finally` clause with `discard_run`, also after a form has broken the run off and left other calls waiting).

`Finalize` has no guard on the status of the request (`tool_approval_coordinator.py:311,358,407`): the code takes the key
off the map in the same step that sets the status, so a request that is found by its key is always pending.

Assumption: no two calls of one run with the same tool call id are in flight at once (`IdIsFree`). Providers keep it; the
code does not enforce it.

### RunSegments and RunView

`RunSegments` is the reducer `run-segment-reducer.ts`: a run state (phase, run, thread) with the list of its segments,
each reduced to kind, run and status. Ten kinds of event and the two local outcomes are operators on it. The same
reducer folds stored events for the history panel, so `RunView` uses it for what the history shows too.

`RunView` has a controller per session: `view` (the run state), `conv` (user messages the history has not taken yet),
`abort` (the send its abort controller belongs to), `pending` (`pendingHistorySyncRunIdRef`) and `settled`. `send[n]` is
one call of `dispatchCopilotMessage`, with the await it is suspended at:

| pc | Where |
|---|---|
| `posting` | `run/start` has been requested |
| `opening`, `opened` | `run/stream` requested; the response is there, `run_started` is not |
| `streaming`, `tail` | events are read; the terminal event has been applied and the body is still read |
| `unused`, `done` | not sent; over |

`Dispatch` binds a send to the session it began in, as `createBoundSessionDispatchers` does; `Open` puts another one on
screen. `Cancel` takes the run id from the run state and the abort controller from its own field: that these belong
together is what `CancelReachesItsRun` says. `SubmitFormEarly` is the submission of a form whose run still streams: it is
rejected, but has replaced the abort controller by then. The runtime is external: `Accept`, `ServeCancel` and `Finish`
move `run[n]`, the stored status; `RunStreamContract` is the order in which events are taken from it.

`hist[s]` is the history entry of a session, of which `useAssistantWorkspaceState.ts:1034-1078` is the effect that loads
the detail. The session on screen asks when its entry is idle, and a new request makes the answers of earlier ones
void (`Asked`, the request version). The answer is read at one instant (`ReadDetail`) and applied at a later one
(`DetailReturns`), whichever session is on screen by then, or it never comes (`DetailFails`, then `Retry` or coming back).
`Settle` makes the entry of the session whose run has ended idle again (`AskedAgain`): on screen a new request follows,
behind another session none does, so that an answer read before the run had ended is still the latest and is applied.
`Handover` drops the run state once the history shows the run with its final status (`Sufficient`).

`late`, `cut`, `rejected` and `stale` are histories that say when a property is not promised. `late`: the error of a send came
after the terminal event of its own run, and was written to the run state of the next one. `cut`: the renderer gave the
run an outcome itself, so the history may show another. `rejected`: the session had a form submitted early. `stale`:
what the entry of the session shows, or is about to show, was read before a run that settled behind another session.

### SessionHistory

`server` is the runtime: its threads and how many runs each has had. `list`, `entry`, `saved` and `restore` are the state
of `useAssistantWorkspaceState`: the sessions shown, with their live capabilities and the active one; a history entry for
each; the shell state in local storage; the outcome of the restore effect and its retry timer. `lists` and `details` hold
the requests in flight: an action asks, one reads at the server, one returns to the callback, which compares versions as
the code does. A request that fails, is dropped or finds a reconnection has an action too. `op` is a creation, copy or
deletion in flight. Every callback ends in `Commit`, the effects React runs after it: entries follow the list, the shell
state is saved.

`deleted`, `told` and `chosen` record what the user has been shown; `raced` and `stale` where the code promises less: a
thread whose deletion was confirmed while a list request was in flight can come back with that answer, and a session out
of sight whose run settles while its detail is being loaded shows the older detail as loaded.

### McpRegistry

One action is what the main process runs between two awaits that wait for a file, a child process or a timer. `file` is
the registry document, the operations that are rewriting it (`writers`) and whether two of them have done so at a time
(`mixed`). A rewrite opens the file, which empties it, and writes it afterwards (`Open`, `Written`, `Saved`); a load that
comes in between finds what it cannot parse, puts it aside and leaves an empty document (`ReadDoc`, `Recovered`); two
writers may leave a text that is neither's (`Readable`). `Refuse` is a file that cannot be read or opened: the document
stays, the operation is refused, but for a revision that is published unstored. `Tear` is a rewrite that fails when the old
document has gone: the servers in it are lost.

`op[o]` is an operation of the service with the place it has reached (`load`; `write`, `open`, `writing` for the servers;
`hub`, `refresh`; `save`, `reopen`, `saving` for the revision; `publish`); `part[o][s]` is what it is doing in the hub with
server `s` (`due`, `stop`, `ask`, `list`, `restart`, `done`), since the hub handles servers in parallel. `conn` are
connectors with their child process, `entries` the hub's map from servers to connectors, `states` the connection state it
reports (`degraded` after a failure of a server whose tools are known), `retry` the reconnect loop of each connector. Its
timer is free again as soon as it fires, so attempts have numbers and may overlap (`steps`). `edit` is the time stamp by
which `isSameServerConfig` tells two settings of a server apart. `lost` marks a connector that spawned over a child it had
not stopped. `Init` allows a published revision one above the stored one: the last run of the application may have failed
to store it.

`overlaps` counts operations that began while another was under way; `raced` says that two operations worked on the
connector of a server at a time (`Crossed`), or that a reconnect fell into a time its connector was running or was being
stopped; `settled` that the last operation ran alone, to its end, with a reconcile and without tearing the document.

## 3. What is checked

A run takes seconds (`run_single`, `run_shared`, `session_history` under a minute) to three minutes (`store_overlap`) with
two workers.

| Run | Instance | Properties | What it shows |
|---|---|---|---|
| `run_single` | 1 stream next to a run that is only started and cancelled, copies, 2 reported events, fair loop only | `TypeOK`, `ClosedMeansTerminal`, `CancelledPendingStaysSilent`, `StreamContractHolds`, `GoneClientReleasesAgent` | every path of one stream under cancellation and disconnect, on a copy of the record that may be out of date; a silent agent is stopped when its client leaves |
| `run_shared` | 1 run, 2 streams, live records, fair loop only | `NeverCompletedAfterCancel`, `StatusMatchesLog`, `AgentNeverOutlivesStream`, `TerminalAbsorbing`, `EveryStreamSettles` | two streams interleaved on one record, with agents that drop each other's requests; if the agents answer, every stream ends its run or is cut off |
| `tool_approval` | 2 agents of one run, 3 and 2 calls in all five modes, 2 ids used again, fair loop only | `TypeOK`, `RunsOnlyApproved`, `DecidedAtMostOnce`, `WaiterIsReachable`, `NoOrphanRequest`, `TimedCallSettles`, `EndedAgentLeavesNoWaiter` | all orders of answers, timeouts, forms, cancellations and ends; nobody waits for ever without a reason |
| `store_overlap` | 2 threads, 3 runs, loop and 2 workers, stale reads | `TypeOK`, `NoOrphans`, `LogsAreWhole`, `KeepsItsPromise`, `OnlyStaleRowsSpoilCaches` | what survives the interleaving of transactions, `ThreadHistory` above all, and the only step after which a cache or a generated title is wrong |
| `view_single` | 1 session, 2 messages, the run of the first with a form, a tool or thinking, one fault | `TypeOK`, `CancelReachesItsRun`, `StaysCancellable`, `OutcomeClosesSegments`, `SendSettles`, `HandsOver` | cancellations, broken connections, refused requests, details that fail and forms submitted early; every send ends on screen and its run is handed over |
| `view_shared` | 2 sessions, 2 messages without content, 2 switches | `SessionOwnsRun`, `HandedOverIsFinal`, `OutcomeVisible` | runs that go on behind another session, details in flight when their runs end; no outcome is lost between stream and history |
| `session_history` | 2 threads, 1 run, 1 fault, 1 choice, 2 requests of a kind in flight | `TypeOK`, `DeletedStaysDeleted`, `ChosenStaysOpen`, `DetailIsFresh`, `RestoreSucceeds` | lists and details in any order, early, late or never, around one action of the user |
| `mcp_registry` | 1 server, 2 operations, 3 connectors, 1 overlap, 1 fault, 1 reconnect | `TypeOK`, `NoProcessIsLost`, `ReconcileRepairs`, `RevisionsAdvance` | every pair of operations on a server, after each other or overlapping, with a failed or torn write, a server that dies and a reconnect |

Four more runs, `doc_terminal`, `doc_rename`, `doc_first_event` and `doc_unexecuted`, show where the documentation or the tests and the code disagree (section
5).

Bounds. `MaxEvents` bounds the events an agent reports on its own; the events that come with its end are not counted.
Two let a boundary, a body event and a cancellation fall between each other. The run with two streams sets it to 0: the
form and the unexecuted call still give their queues contents, and one more event per stream multiplies the states
without a new interleaving of the record's operations, which is what two streams are for. Runs and streams are model
values; two streams are enough for any pair of operations on a record to come in either order.

In `ThreadStore`, `MaxTime` bounds the clock and with it the number of transactions, `MaxEvents` the events of a run and
`BackupTimes` the instants at which a backup may be taken. Four transactions, plus those rolled back or still open, let a
thread be opened, run, changed or copied, and changed or restored again. Three runs are two of one thread and one to copy
into. `Kinds` is a terminal event, the one that moves the status, the text and the caches at once. Backups are taken at
the last instant too, so a restore is always possible in the end and deadlock can be checked. With `Overlap = FALSE`
`CachesAreExact` holds as an invariant, over five transactions and text events too; that instance is not listed, since
`CachesStayExact` (section 4) covers it.

In `ToolApproval` one agent has a call that asks, one with a timeout and one that needs no approval, so that a form can
end it while others wait; the other has one with a timeout and one that is refused. Both execute one run, which is the
harder case: with runs of their own they share nothing.

In `RunView` two messages are what a late error, a cancellation or a handover can confuse; a third would only repeat the
second. `MaxTalks` gives content to the first run only, so that the run of the second message is the plain one that a late
step of the first falls into; one event lets a run end with something open. The instance with faults and content has one
session and the one with two sessions has neither, so that each stays small: a fault touches the session it happens in,
and a switch does not look at content. Longer content (three events of every kind), two faults and a return to a session
with a form were checked with one message, outside the listed runs. In `SessionHistory` two requests of a kind are an old
and a new one; two threads are the one acted on and another.

In `McpRegistry` one server is enough for two operations to meet at it; of three connectors two are current in turn and
one is leftover. Two operations are a pair that overlaps, or one that leaves something behind and one that repairs it; an
overlap followed by a repair, and three operations after each other with two faults, were checked outside the listed runs,
without reconnects and without overlap respectively. One server has no other to wait for, so the order of removals in `Turn` was
checked with two servers and no overlap in the same way. The proofs of section 4 lift these bounds for every safety
property.

Caches can be wrong with overlap: a rename refreshes the projection of its thread with a `last_run_id` read earlier, so
that the cached status lags until the next operation on the thread; and a rename can lose its title altogether (section
5). `OnlyStaleRowsSpoilCaches` says that this is the only way: the caches are exact at first, and a step that spoils them
is the write of a transaction whose thread row another one has changed since it was loaded. What readers of the history
see does not depend on it.

Which store hands out the record matters to two properties. With copies, a run cancelled between the lookup of
`stream_run` and the first step of its generator is executed; `CancelledPendingStaysSilent` says that even then nothing
the agent says reaches a client, and is checked with copies. That a stream opened after the cancellation never reaches an
agent, and on live records no stream at all, is proved (`CancelledPendingNeverRuns`). `StatusMatchesLog` with two streams
is checked with live records, where a stream that finds the run preempted adds its `run_cancelled` to a record that is
already cancelled; with copies a record ended by one stream can be given a `run_cancelled` by another that decided on an
old copy.

Fairness. `LoopFairness` is weak fairness of the steps of a stream, of the server's cancellation after a disconnect and
of the end of a cancelled task: the asyncio loop runs every task that can go on. It does not make the agent answer;
`AgentFairness` does; it is the premise of `EveryStreamSettles` (and of `doc_terminal`). A tool in mode `ask` may wait
for its user for ever, so this is an assumption about users as well. In `ToolApproval` fairness covers the wake-up of waiters and the timers, not
users, tools or agents. In `RunView` it covers the runtime (a run ends, requests are answered) and
the effects of React, not the user, a retry or any one fault; in both one condition of weak fairness covers all these steps
together, since each call and each send has few of them and none can hold up another for ever. A runtime that never answers would leave the panel waiting, as
the code does. In `SessionHistory` list requests are answered or fail, timers fire and details load. The number of faults is
bounded, which is the premise of `RestoreSucceeds`: a runtime that always fails is asked for ever.

Deadlock is checked for `ThreadStore` only: elsewhere, when every stream, agent, send, choice or operation has ended,
nothing is left to do.

## 4. What is proved

All theorems hold for any runs, streams, calls, agents, ids and bounds, from the named assumptions on the constants.

`RunLifecycle_proofs`

- `TypeCorrect`. The invariant adds to `TypeOK` that a stream past `idle` has a known run, so that `last` names a run of
  the store, and that a stream at `checking` has an item it has taken the look at.
- `CancelledNeverCompletes` and `TerminalStaysTerminal`. The argument is about one record: every operation on it is one of
  `MarkStreaming`, `RequestCancel`, `MarkTerminal` and their compositions, each keeps a record in order, and the only step
  that completes a run reads `cancel_requested` in the same turn of the loop. The number of streams does not enter.
- `CancelledPendingNeverRuns` and `CancelledPendingIsSilent`, for either store. A stream that was opened on a cancelled run
  knows it (`preempt`), and on live records so does every stream that has still to decide. A stream that decided on an old
  copy does open an agent, but each path that sends something of its body passes a check of the stored record, and a run
  with a body sent has been started (`EarlyInv`).
- `AgentStopsWithStream`, `ImplementsContract`, `ClosedRunsHaveEnded`. They need an invariant per stream (`Shape`) that
  ties the suspension point to the events sent so far and to the state of the agent task. A step of one stream leaves the
  shape of every other one alone. From it each step that sends an event is a step of the contract, and every other step
  stutters.

- `LogTellsStatus`: `StatusMatchesLog`, if records are live or every run has one stream. The invariant says of a stream
  that is about to write a terminal event that its run is not terminal yet, or is already cancelled and gets
  `run_cancelled`. Without the hypothesis the property is false (section 5).

`ToolApproval_proofs`

- `NothingRunsUnapproved`, `OneDecision`, `WaitersAreReachable`, `NothingIsLeftBehind`, `TypeCorrect`, from one inductive
  invariant `GateInv`. None of the parts is inductive alone: a decision is the first because the request is held, the
  request that is held is the waiter's own because no two calls of a key are in flight, and a timer finds the request it
  was set for because no timer outlives one. `Settled` says what a held request, a set future and an idle call imply
  about the decisions. Any number of agents may execute the same run.

`SessionHistory_proofs`

- `SessionTypes`: the types of all requests, and that entries follow the list (`Coherent`).
- `DeletedNeverReturns`: the invariant adds every place a thread could come back from: answers in flight, the server, the
  creation or copy that is under way.
- `ChosenIsKept`: a list that is in flight either is marked as older than the choice or would keep it.
- `ShownDetailIsFresh`: an answer that is the latest contains what had been reported when it was read; `UsedInv` adds that
  a thread that does not exist yet has no runs.

`McpRegistry_proofs`

- `RegistryTypes`, with `Coherent`: whoever uses a connector knows it by the server it was made for, and a connector with
  something to answer has a process.
- `RevisionsNeverFall` from `RevisionInv`: without overlaps the operation under way carries the revision of the service,
  and nothing newer is published by it. Before the first load, the newest revision is in the document or the snapshot only.
- `RegistryRepairs` from `RepairInv`: an operation that runs alone has read what is stored, is the only writer, and every
  server it is done with is in line with what it has read; `Orderly` says that nobody else holds the document or works in
  the hub then. Torn and mixed documents before it make no difference: it reads an empty one, and removes the servers that
  went with the old. Its own torn write ends the promise (`alone`), since it happens after the hub has been brought in line.
- `ProcessesAreKept` from `ProcessInv`: a child belongs to an entry, a connector that waits to be started again has none,
  an operation works on the entry of its server, and until `raced` no two tasks are at work on one connector. Operations
  may overlap everywhere else. `NoProcessIsLost` alone is not inductive: a stop that has been waited for must be of the
  connector that is dropped.

`RunSegments_proofs`, `RunView_proofs`

- The lemmas about the reducer come first: what each operator does to the list of segments, above all that each of
  the four outcomes closes the kinds it has to close, whoever gave it, and leaves one terminal segment, the last
  (`Concluded`). The
  operators that filter a list are recursive functions, so facts about them need induction; it is applied once, to the
  least counterexample (`LeastNatural` of `Extremes`), which well-founded induction provides without an operator parameter.
- `ViewTypes` and `ViewsAreOwned` from `Sound`: types, where sends and requests belong (`Placed`, `Owned`), and that an
  abort controller is that of a send. A send writes only to the session it was bound to, and `Open` writes to none.
- `CancelReaches`, `CancelStays`, `OutcomesConclude`, `HandoverIsFinal`, `OutcomesStayVisible` from `Tracked`, which holds
  until an error comes late: at most one send of a session is in flight and its controller is the session's (`OneBusy`,
  `Followed`), what is shown follows from where that send is (`Shows`), a run waits to be handed over exactly from its
  outcome until the history has it (`Settled`), what a detail holds or an answer brings was read after the last run of the
  session had settled, unless it is `stale` (`Fresh`), and a cancellation names the run of the send it aborted (`Aimed`).
  None of the five properties is inductive alone: that the history shows the outcome the stream showed needs the stored
  status, the events still to be read, the request in flight and the marker of the handover at once. `Sound` and `Tracked`
  were checked with TLC before they were proved.

`ThreadStore_proofs`

- `StoreInvariant` and, from it, `StoreTypes`, `NoOrphansEver` and `LogsStayWhole`, whatever overlaps. The invariant says
  the same of the database and of the backup (`Kept`): a run belongs to a thread and has its cached projection, and so has
  a thread (`Rooted`, `RunCached`, `ThreadKept`), no row is newer than the clock (`Dated`), the log of a run is numbered
  without a gap (`Whole`). A row that an open transaction holds may be stale, but only the columns it changed are written
  back, so `last_run_id` is at any time a run of its thread. The proof has a lemma per operation, from a transaction's
  rows to its rows, before any step of the specification is mentioned: most operations are the same change made in three
  settings.
- `CachesStayExact`, whatever overlaps: `OnlyStaleRowsSpoilCaches`. A transaction that holds no thread row, or one that is
  still the stored row, makes the same change as if it were alone, and keeps every cache and generated title exact; what is
  left is the write of a stale row, which the property names.

- `StoreKeepsItsPromise`, whatever overlaps: the store implements `ThreadHistory`, `hist` being what a reader lists of
  `db` and `saved` what a reader would list of the backup. Lists are in order of creation or of number (`InOrder`), and
  two facts carry the proof: the list is the only one in ascending order, and an element above all others goes to its end
  (`InOrderOnly`, `InOrderAppends`). They need the keys to differ. For events that is `Whole`; for the runs of a thread it
  is the additional invariant `Ordered`, which a copy keeps because it copies a thread once, into a thread that has no
  runs. What a transaction does to the rows is then shown, operation by operation, to be one change of the history or
  none (`Becomes`, `Shows`): a start is later than everything in its thread, a new number is the next, a method of a row
  is a method of what is shown, a copy lists as its source does, and nothing else touches another thread.

The invariants were checked with TLC before they were proved. `Extremes` provides the least and the greatest element of
a set of natural numbers that the last sequence number, the last run and the least counterexample above rest on.

Only model-checked: everything under fairness (`EveryStreamSettles`, `GoneClientReleasesAgent`, `TimedCallSettles`,
`EndedAgentLeavesNoWaiter`, `SendSettles`, `HandsOver`, `RestoreSucceeds`), which is out of the prover's reach. Every
invariant, action property and refinement that a passing run checks is a theorem.

## 5. Where documents and code disagree

Shown by a run:

- A run may end in none of the three terminal states (`doc_terminal`): the last check before `run_completed` lies
  outside the `try` of the execution. A cancellation that lands there leaves the generator as an exception.
- A rename that commits between the read and the first write of `create_run` is lost (`doc_rename`): the title becomes the
  generated one and stays so, because it is now marked as the user's. The tests of `rename_thread` assert title and mark
  together.

- A run that was cancelled before any stream took it up answers `run/stream` with a lone `run_cancelled`
  (`doc_first_event`, `runtime/bridge.py:479`); `docs/reference/glossary.md:54`, `docs/reference/runtime-events.md:124`,
  `docs/backend/reference-current-contracts.md:204` and `docs/system/chat-runtime-contract.md:323` ask for `run_started`
  first.
- A tool call that was announced and never executed is diagnosed, and its run completes (`doc_unexecuted`,
  `runtime/agent.py:291`); `docs/system/chat-runtime-contract.md:327,420`, `docs/backend/reference-current-contracts.md:264`
  and `docs/frontend/reference-runtime-states.md:168` ask for `run_failed`.

Observed while modelling, without a run of their own:

- Failed and cancelled runs do leave assistant text in the history (`runtime/session_store.py:487`).
- Two streams of one run, each with its own copy of the record, can leave a log that does not explain the status: one
  ends the run, the other had found it cancelled before and appends `run_cancelled` (`runtime/bridge.py:393`). The renderer
  opens one stream per run. `LogTellsStatus` names the hypothesis.
- The renderer shows a run that was cancelled before it was streamed as failed, because its stream has no `run_started` (`thread-run-contract.ts:384`), where
  `docs/frontend/reference-runtime-states.md:129` has it cancelled.
- A deleted thread can come back with a list that was in flight when its deletion was confirmed
  (`useAssistantWorkspaceState.ts:614-696`); `AssistantWorkspace.thread-lifecycle.test.tsx:70` tests the deletion with none
  in flight. `DeletedStaysDeleted` leaves this case out.
- The error of a send that arrives after the terminal event of its run is written to whatever the session shows by then
  (`copilot-send-controller.ts:578`); the properties of `RunView` leave this case out (`late`).
- The detail of a session that was asked for before its run ended is applied after the user has left and the run has
  settled, and is taken for loaded (`useAssistantWorkspaceState.ts:1034-1078`): a completed run is then shown as open until
  the detail is asked for again. The properties of `RunView` and `SessionHistory` leave this case out (`stale`).
- A registry document that is read while it is rewritten is taken for a broken one and replaced by an empty one
  (`electron/mcp-registry/store.ts:67`), with the servers in it, and so is one whose rewrite fails half way
(`store.ts:133`), be it only to store a revision. `ReconcileRepairs` says that hub and document agree again,
  not that nothing was lost.
- A reconnect can start a process of a connector that is being stopped or runs already (`connector-hub.ts:294`), and
  nobody stops it afterwards. `NoProcessIsLost` leaves this case out (`raced`).
- A load that meets a server it can no longer start publishes a snapshot without its tools under the revision that had
  them (`service.ts:163`); `docs/reference/mcp-integration.md:114` says that `snapshotRevision` grows when the list of tools
  changes.
- After two operations have overlapped, the one that began first can publish the older revision
  (`service.ts:572`). `RevisionsAdvance` ends with the first overlap.

## 6. What is not modelled

Of the modelled components: streamed sequence numbers, message ids and payloads of events; the content of histories,
prompts and tool results; the legacy `send_message` path; a tool's own work; debug logs. In `RunLifecycle` failures of the
store itself are left out: it is local, and its exceptions leave the handler they occur in. In `ThreadStore` summaries,
message previews, model and tool snapshots, the query objects and the evaluation of drift are left out, and so is
`get_or_create_thread`, which the application never calls; a restore while a transaction is open is left out, since what
SQLite does to a connection whose -wal file goes is not in this code. A restart of the process is left out: nothing runs
at start-up that touches runs, so a run that was streaming stays as it was.

In `RunSegments` texts, routes and thinking metadata; in `RunView` the composer, its preflight texts, attachments and
approvals, and the replay and display of the stored conversation. In `SessionHistory` renaming, the replay, and the live
update of capabilities. In `McpRegistry` connectors over HTTP (no child to wait for), the registry revision, tests of
drafts (their connectors live for one call), the first load of a test, hydration of a catalog without tools, what a tool
call does in the connector, `stopAll` at the end of the application, and the 150 ms a child is given to end: a child that
was sent its signal counts as gone, although the code forgets it then whether it has obeyed or not. The rename of a broken
document and the empty one that takes its place are one step, and a stopped connector's state `idle`, which nobody sees
before the entry is dropped, is left out. An
unexpected exit is reported and never schedules a reconnect, in the code as in the model.

Components without a module, and why. Shell sessions and the jobs of the Blackboard panel mix worker threads, locks and
external processes; they can be modelled and come next. Supervision of the hosted backend and installation of the managed
runtime are small protocols with crashes between steps; they come after. The text segments of the runtime's event buffer
(`execution_event_graph.py`) are string assembly whose order `RunStreamContract` covers. Model routes, providers, thinking
capabilities, tool contracts and the provider catalog are pure functions over large tables: a model would restate them.
Settings, skills, files, attachments and timelines are one file operation per call. The rest of the workbench draws.

## 7. Plan

Done: `RunRecord`, `RunStreamContract`, `RunLifecycle`, `ToolApproval`, `SessionHistory`, `McpRegistry` with their proofs;
`RunSegments` and `RunView` with theirs; `ThreadHistory`, `ThreadStore` with its invariants and the refinement proved.

1. `GatedRun`: `ToolApproval` composed with `RunLifecycle`, so that a run in mode `ask` and its cancellation meet.
2. `ShellSession`, `BlackboardJobs`: deadlines, limits and worker threads.
3. `HostedRuntime`, `ManagedRuntime`: supervision, and installation with crashes.
