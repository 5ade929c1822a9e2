----------------------------- MODULE RunLifecycle -----------------------------
(***************************************************************************)
(* The life of a run in the Copilot runtime: run/start, run/stream and     *)
(* run/cancel as the runtime bridge (bridge.py) serves them, the           *)
(* orchestrator that drives one stream (runs/message_run_services.py), the *)
(* agent task behind it (agent.py) and the records of the session store.   *)
(*                                                                         *)
(* Everything runs on one asyncio loop.  An action is what happens between *)
(* two points at which a task can be suspended: an await that really       *)
(* waits, or a yield to the HTTP response that is being sent.  The value   *)
(* of pc[s] names the point at which stream s is suspended.                *)
(***************************************************************************)
EXTENDS RunRecord, FiniteSets

CONSTANTS Runs,        \* run ids, all of one thread
          Streams,     \* run/stream requests
          RunOf,       \* the run each request asks for
          Detached,    \* get_run returns a copy (SQLite) or the record itself
          MaxEvents,   \* bound: events one agent task reports on its own
          Faults,      \* what the world does: subset of {"cancel", "disconnect"}
          None         \* not a run

ASSUME RunOfAssumption     == RunOf \in [Streams -> Runs]
ASSUME DetachedAssumption  == Detached \in BOOLEAN
ASSUME MaxEventsAssumption == MaxEvents \in Nat
ASSUME FaultsAssumption    == Faults \subseteq {"cancel", "disconnect"}
ASSUME NoneAssumption      == None \notin Runs

VARIABLES
  known,    \* runs that exist in the store
  run,      \* their records
  last,     \* last_run_id of the thread
  pc,       \* where each stream is suspended
  preempt,  \* the record the stream was opened on was cancelled and never started
  sent,     \* the events each stream has handed to its response
  gone,     \* the client of the stream has disconnected
  task,     \* the agent task of each stream
  queue,    \* its event queue
  made      \* how many events the agent has reported on its own

storeVars == <<known, run, last>>
agentVars == <<task, queue, made>>
vars == <<known, run, last, pc, preempt, sent, gone, task, queue, made>>

(* Suspended with an event on its way to the client.                        *)
AtYield == {"opened", "preempted", "started", "prepared", "yielded", "failing", "closing"}

(* Suspended inside the generator: the route resolver, the event queue, the *)
(* four disconnect checks and the end of a cancelled agent task.            *)
AtAwait == {"preparing", "iterating", "checking", "check_done", "check_output",
            "check_final", "unwinding"}

(* closed: the generator returned.  escaped: an exception left it.          *)
(* abandoned: it was thrown away at a yield.                                *)
Ended == {"closed", "escaped", "abandoned"}

PC == {"idle"} \cup AtYield \cup AtAwait \cup Ended

(* The agent task has put the end marker on the queue and is done.          *)
TaskDone == {"ok", "error", "form", "cancelled"}
Task == {"none", "running", "cancelling"} \cup TaskDone

(* Items of the queue; a "segment" boundary is never shown to a client.     *)
QueueItem == BodyEvent \cup {"segment"}

-----------------------------------------------------------------------------
Init ==
  /\ known = {}
  /\ run = [r \in Runs |-> NewRecord]
  /\ last = None
  /\ pc = [s \in Streams |-> "idle"]
  /\ preempt = [s \in Streams |-> FALSE]
  /\ sent = [s \in Streams |-> << >>]
  /\ gone = [s \in Streams |-> FALSE]
  /\ task = [s \in Streams |-> "none"]
  /\ queue = [s \in Streams |-> << >>]
  /\ made = [s \in Streams |-> 0]

(* Record the event, move the status, hand the event to the response.       *)
Emit(s, e) ==
  /\ run' = [run EXCEPT ![RunOf[s]] = UpdateFromEvent(@, e)]
  /\ last' = RunOf[s]
  /\ sent' = [sent EXCEPT ![s] = Append(@, e)]
  /\ UNCHANGED <<known, gone, preempt>>

Goto(s, from, to) == pc[s] = from /\ pc' = [pc EXCEPT ![s] = to]

(* Faulty variants of definitions below, each a slip the properties notice: *)
(* a run announced before it is stored, a refusal without its return, a     *)
(* failure never emitted, an event let through, the last check dropped, an  *)
(* end marker put on success only, a task forgotten.                        *)
StartRunUnstored(r) ==
  /\ r \notin known
  /\ last' = r
  /\ UNCHANGED <<known, run, pc, preempt, sent, gone, task, queue, made>>

RefuseWithoutReturn(s) ==
  Goto(s, "preparing", "prepared") /\ Emit(s, "run_failed") /\ UNCHANGED agentVars

EmitFailedNever(s) ==
  /\ Goto(s, "failing", "closing")
  /\ UNCHANGED <<storeVars, preempt, sent, gone, agentVars>>

ForwardUnchecked(s) ==
  /\ Goto(s, "checking", "yielded")
  /\ Emit(s, Head(queue[s]))
  /\ queue' = [queue EXCEPT ![s] = Tail(@)]
  /\ UNCHANGED <<task, made>>

CompleteUnchecked(s) ==
  Goto(s, "check_final", "closing") /\ Emit(s, "run_completed") /\ UNCHANGED agentVars

DrainedOnSuccess(s) == queue[s] = << >> /\ task[s] = "ok"

ForgetTask(s) == task' = task

(* Every check asks whether the client has gone, then reads the run.        *)
Stopped(s) == gone[s] \/ run[RunOf[s]].cancelRequested

CancelTask(s) ==
  task' = [task EXCEPT ![s] = IF @ = "running" THEN "cancelling" ELSE @]

-----------------------------------------------------------------------------
(* Requests.                                                                *)

StartRun(r) ==
  /\ r \notin known
  /\ known' = known \cup {r}
  /\ last' = r
  /\ UNCHANGED <<run, pc, preempt, sent, gone, task, queue, made>>

(* run/cancel: accepted unless the run is terminal; touches the thread      *)
(* either way.                                                              *)
CancelRun(r) ==
  /\ "cancel" \in Faults
  /\ r \in known
  /\ run' = [run EXCEPT ![r] = RequestCancel(@)]
  /\ last' = r
  /\ UNCHANGED <<known, pc, preempt, sent, gone, task, queue, made>>

NeverStarted(r) == run[r].status = "cancelled" /\ ~run[r].started

(* run/stream: the record is looked up now, the generator runs later.       *)
OpenStream(s) ==
  /\ RunOf[s] \in known
  /\ Goto(s, "idle", "opened")
  /\ preempt' = [preempt EXCEPT ![s] = NeverStarted(RunOf[s])]
  /\ UNCHANGED <<known, run, last, sent, gone, task, queue, made>>

Disconnect(s) ==
  /\ "disconnect" \in Faults
  /\ pc[s] \notin {"idle"} \cup Ended
  /\ ~gone[s]
  /\ gone' = [gone EXCEPT ![s] = TRUE]
  /\ UNCHANGED <<known, run, last, pc, preempt, sent, task, queue, made>>

-----------------------------------------------------------------------------
(* The stream.                                                              *)

SeesPreemption(s) == IF Detached THEN preempt[s] ELSE NeverStarted(RunOf[s])

(* Recorded without touching the status, which is cancelled already.        *)
BeginPreempted(s) ==
  /\ SeesPreemption(s)
  /\ Goto(s, "opened", "preempted")
  /\ run' = [run EXCEPT ![RunOf[s]] = AppendEvent(@, "run_cancelled")]
  /\ last' = RunOf[s]
  /\ sent' = [sent EXCEPT ![s] = Append(@, "run_cancelled")]
  /\ UNCHANGED <<known, preempt, gone, agentVars>>

(* mark_run_streaming followed by run_started, which marks it again.        *)
Begin(s) ==
  /\ ~SeesPreemption(s)
  /\ Goto(s, "opened", "started")
  /\ Emit(s, "run_started")
  /\ UNCHANGED agentVars

Prepare(s) ==
  /\ Goto(s, "started", "preparing")
  /\ UNCHANGED <<storeVars, preempt, sent, gone, agentVars>>

PrepareOk(s) ==
  /\ Goto(s, "preparing", "prepared")
  /\ Emit(s, "run_metadata")
  /\ UNCHANGED agentVars

(* The thread, the agent, a tool or the history is refused, or the model    *)
(* turns out not to be configured when the event stream is opened: no       *)
(* diagnostic.                                                              *)
Refuse(s) ==
  /\ \/ Goto(s, "preparing", "closing")
     \/ Goto(s, "prepared", "closing")
  /\ Emit(s, "run_failed")
  /\ UNCHANGED agentVars

(* The route cannot be resolved or an unexpected error is raised; thinking  *)
(* is not supported on the route, or the event stream cannot be opened.     *)
Diagnose(s) ==
  /\ \/ Goto(s, "preparing", "failing")
     \/ Goto(s, "prepared", "failing")
  /\ Emit(s, "run_diagnostic")
  /\ UNCHANGED agentVars

EmitFailed(s) ==
  /\ Goto(s, "failing", "closing")
  /\ Emit(s, "run_failed")
  /\ UNCHANGED agentVars

OpenExecution(s) ==
  /\ Goto(s, "prepared", "iterating")
  /\ task' = [task EXCEPT ![s] = "running"]
  /\ UNCHANGED <<storeVars, preempt, sent, gone, queue, made>>

Resume(s) ==
  /\ Goto(s, "yielded", "iterating")
  /\ UNCHANGED <<storeVars, preempt, sent, gone, agentVars>>

SkipSegment(s) ==
  /\ pc[s] = "iterating" /\ queue[s] # << >> /\ Head(queue[s]) = "segment"
  /\ queue' = [queue EXCEPT ![s] = Tail(@)]
  /\ UNCHANGED <<storeVars, pc, preempt, sent, gone, task, made>>

Take(s) ==
  /\ queue[s] # << >> /\ Head(queue[s]) # "segment"
  /\ Goto(s, "iterating", "checking")
  /\ UNCHANGED <<storeVars, preempt, sent, gone, agentVars>>

Forward(s) ==
  /\ ~Stopped(s)
  /\ Goto(s, "checking", "yielded")
  /\ Emit(s, Head(queue[s]))
  /\ queue' = [queue EXCEPT ![s] = Tail(@)]
  /\ UNCHANGED <<task, made>>

Drained(s) == queue[s] = << >> /\ task[s] \in TaskDone

OutputReady(s) ==
  /\ Drained(s) /\ task[s] = "ok"
  /\ Goto(s, "iterating", "check_done")
  /\ UNCHANGED <<storeVars, preempt, sent, gone, agentVars>>

(* The task is done already, so leaving the execution does not wait.        *)
ExecutionFails(s) ==
  /\ Drained(s) /\ task[s] = "error"
  /\ Goto(s, "iterating", "failing")
  /\ Emit(s, "run_diagnostic")
  /\ UNCHANGED agentVars

AwaitUserInput(s) ==
  /\ Drained(s) /\ task[s] = "form"
  /\ Goto(s, "iterating", "closing")
  /\ Emit(s, "awaiting_input")
  /\ UNCHANGED agentVars

(* The agent was cancelled behind the stream's back (see Over): what        *)
(* iter_events raises again is caught like a cancellation of the stream.    *)
ExecutionCancelled(s) ==
  /\ Drained(s) /\ task[s] = "cancelled"
  /\ Goto(s, "iterating", "closing")
  /\ Emit(s, "run_cancelled")
  /\ UNCHANGED agentVars

(* Before the output is read, after it is read, and once more after the     *)
(* execution has been left.                                                 *)
PassCheck(s) ==
  /\ ~Stopped(s)
  /\ \/ Goto(s, "check_done", "check_output")
     \/ Goto(s, "check_output", "check_final")
  /\ UNCHANGED <<storeVars, preempt, sent, gone, agentVars>>

Complete(s) ==
  /\ ~Stopped(s)
  /\ Goto(s, "check_final", "closing")
  /\ Emit(s, "run_completed")
  /\ UNCHANGED agentVars

(* A check raises CancelledError while the execution is open.               *)
StopExecution(s) ==
  /\ Stopped(s)
  /\ \/ Goto(s, "checking", "unwinding")
     \/ Goto(s, "check_done", "unwinding")
     \/ Goto(s, "check_output", "unwinding")
  /\ CancelTask(s)
  /\ UNCHANGED <<storeVars, preempt, sent, gone, queue, made>>

(* The last check raises it where nobody catches it.                        *)
Escape(s) ==
  /\ Stopped(s)
  /\ Goto(s, "check_final", "escaped")
  /\ UNCHANGED <<storeVars, preempt, sent, gone, agentVars>>

(* The execution is left once the agent task is done; a cancelled response  *)
(* does not wait for it.                                                    *)
CloseCancelled(s) ==
  /\ task[s] \in TaskDone \/ gone[s]
  /\ Goto(s, "unwinding", "closing")
  /\ Emit(s, "run_cancelled")
  /\ UNCHANGED agentVars

(* The generator returns.  The bridge marks the run failed if it has seen   *)
(* no terminal event.                                                       *)
Finish(s) ==
  /\ \/ Goto(s, "closing", "closed")
     \/ Goto(s, "preempted", "closed")
  /\ IF sent[s][Len(sent[s])] \in TerminalEvent
     THEN UNCHANGED <<run, last>>
     ELSE /\ run' = [run EXCEPT ![RunOf[s]] = MarkFailed(@, FALSE)]
          /\ last' = RunOf[s]
  /\ UNCHANGED <<known, preempt, sent, gone, agentVars>>

(* The HTTP server cancels the response of a client that has gone.  At a    *)
(* yield the generator is dropped; in the execution the cancellation is     *)
(* caught; anywhere else it leaves the generator.                           *)
ServerCancels(s) ==
  /\ gone[s]
  /\ \/ pc[s] \in AtYield /\ pc' = [pc EXCEPT ![s] = "abandoned"]
     \/ Goto(s, "preparing", "escaped")
     \/ Goto(s, "check_final", "escaped")
     \/ /\ pc[s] \in {"iterating", "checking", "check_done", "check_output"}
        /\ pc' = [pc EXCEPT ![s] = "unwinding"]
  /\ CancelTask(s)
  /\ UNCHANGED <<storeVars, preempt, sent, gone, queue, made>>

-----------------------------------------------------------------------------
(* The agent task.                                                          *)

AgentReports(s, e) ==
  /\ task[s] = "running"
  /\ made[s] < MaxEvents
  /\ queue' = [queue EXCEPT ![s] = Append(@, e)]
  /\ made' = [made EXCEPT ![s] = @ + 1]
  /\ UNCHANGED <<storeVars, pc, preempt, sent, gone, task>>

(* The last thing an agent task does is to discard the requests for         *)
(* approval of its run.  They may be those of another stream's agent, which *)
(* is then cancelled where it waits for them.                               *)
SameRun(s) == {t \in Streams \ {s} : RunOf[t] = RunOf[s] /\ task[t] = "running"}

Over(s, outcome) ==
  \E dropped \in SUBSET SameRun(s) :
    task' = [t \in Streams |-> IF t = s THEN outcome
                              ELSE IF t \in dropped THEN "cancelling"
                              ELSE task[t]]

AgentEnds(s, outcome, tail) ==
  /\ task[s] = "running"
  /\ Over(s, outcome)
  /\ queue' = [queue EXCEPT ![s] = @ \o tail]
  /\ UNCHANGED <<storeVars, pc, preempt, sent, gone, made>>

AgentSucceeds(s) == AgentEnds(s, "ok", << >>)

AgentFails(s) == AgentEnds(s, "error", << >>)

(* The form tool reports its form and interrupts the run.                   *)
AgentAsksUser(s) == AgentEnds(s, "form", <<"form_request">>)

(* A tool call was seen whose tool never ran: a diagnostic and a failed     *)
(* tool event are reported, and the output stands.                          *)
AgentLeavesToolCall(s) == AgentEnds(s, "ok", <<"unexecuted", "tool_event">>)

AgentCancelled(s) ==
  /\ task[s] = "cancelling"
  /\ Over(s, "cancelled")
  /\ UNCHANGED <<storeVars, pc, preempt, sent, gone, queue, made>>

AgentEnd(s) ==
  \/ AgentSucceeds(s) \/ AgentFails(s) \/ AgentAsksUser(s)
  \/ AgentLeavesToolCall(s) \/ AgentCancelled(s)

Agent(s) ==
  \/ \E e \in {"text_delta", "tool_event", "segment"} : AgentReports(s, e)
  \/ AgentEnd(s)

-----------------------------------------------------------------------------
(* What the event loop runs without being asked again.                      *)
StreamSteps(s) ==
  \/ BeginPreempted(s) \/ Begin(s) \/ Prepare(s) \/ PrepareOk(s) \/ Refuse(s)
  \/ Diagnose(s) \/ EmitFailed(s) \/ OpenExecution(s) \/ Resume(s)
  \/ SkipSegment(s) \/ Take(s) \/ Forward(s) \/ OutputReady(s)
  \/ ExecutionFails(s) \/ ExecutionCancelled(s) \/ AwaitUserInput(s) \/ PassCheck(s) \/ Complete(s)
  \/ StopExecution(s) \/ Escape(s) \/ CloseCancelled(s) \/ Finish(s)

Next ==
  \/ \E r \in Runs : StartRun(r) \/ CancelRun(r)
  \/ \E s \in Streams : \/ OpenStream(s) \/ Disconnect(s) \/ StreamSteps(s)
                        \/ ServerCancels(s) \/ Agent(s)

Spec == Init /\ [][Next]_vars

(* The loop runs every task that can go on, and a cancelled task ends.      *)
LoopFairness ==
  \A s \in Streams : /\ WF_vars(StreamSteps(s))
                     /\ WF_vars(ServerCancels(s))
                     /\ WF_vars(AgentCancelled(s))

(* The model and the tools answer in the end.                               *)
AgentFairness == \A s \in Streams : WF_vars(AgentEnd(s))

LoopSpec == Spec /\ LoopFairness

FairSpec == LoopSpec /\ AgentFairness

-----------------------------------------------------------------------------
(* Properties.                                                              *)

(* The variables have their types; the thread names a run of the store.     *)
TypeOK ==
  /\ known \subseteq Runs
  /\ run \in [Runs -> Record]
  /\ last \in known \cup {None}
  /\ pc \in [Streams -> PC]
  /\ preempt \in [Streams -> BOOLEAN]
  /\ sent \in [Streams -> Seq(RunEvent)]
  /\ gone \in [Streams -> BOOLEAN]
  /\ task \in [Streams -> Task]
  /\ queue \in [Streams -> Seq(QueueItem)]
  /\ made \in [Streams -> 0 .. MaxEvents]

(* A cancellation the store has accepted is never answered with a           *)
(* completion, wherever between the checks of a stream it lands and however *)
(* many streams execute the run.                                            *)
NeverCompletedAfterCancel ==
  \A r \in Runs : run[r].status = "completed" => ~run[r].cancelRequested

(* A run that has ended is never revived: re-opened streams, late events    *)
(* and late cancellations leave it in one of the terminal states.           *)
TerminalAbsorbing ==
  [][\A r \in Runs : IsTerminal(run[r]) => IsTerminal(run'[r])]_vars

(* A stream that returns normally has told its client how the run ended,    *)
(* and the store agrees that it has.                                        *)
ClosedMeansTerminal ==
  \A s \in Streams :
    pc[s] = "closed" => /\ sent[s] # << >>
                        /\ sent[s][Len(sent[s])] \in TerminalEvent
                        /\ IsTerminal(run[RunOf[s]])

(* No agent task goes on, calling models and tools, once the stream that    *)
(* opened it has stopped listening: at the latest it is being cancelled.    *)
AgentNeverOutlivesStream ==
  \A s \in Streams :
    task[s] = "running" => pc[s] \in {"iterating", "checking", "yielded"}

TerminalsOf(r) == {i \in DOMAIN run[r].log : run[r].log[i] \in TerminalEvent}

(* Replaying the stored events of a run gives the status the store reports: *)
(* that of the last terminal event, and without one only a run cancelled    *)
(* before it started is terminal.                                           *)
StatusMatchesLog ==
  \A r \in Runs :
    /\ \A i \in TerminalsOf(r) :
         (\A j \in TerminalsOf(r) : j <= i) => run[r].status = StatusOf(run[r].log[i])
    /\ TerminalsOf(r) = {} /\ IsTerminal(run[r]) => NeverStarted(r)

(* A stream opened on a run that was cancelled while it was pending never   *)
(* reaches an agent; on live records neither does a stream that was opened  *)
(* before the cancellation.                                                 *)
CancelledWhilePendingNeverRuns ==
  \A s \in Streams :
    preempt[s] \/ (~Detached /\ NeverStarted(RunOf[s])) => task[s] = "none"

(* On copies, a stream opened before the cancellation does execute such a   *)
(* run; yet while the run stands as never started nothing the agent says    *)
(* has reached any client.                                                  *)
CancelledPendingStaysSilent ==
  \A s \in Streams :
    NeverStarted(RunOf[s]) => \A i \in DOMAIN sent[s] : sent[s][i] \notin BodyEvent

Contract == INSTANCE RunStreamContract WITH seen <- sent

(* The answers to run/stream keep the contract of the event stream.         *)
StreamContractHolds == Contract!Spec

(* If models, tools and users answer, a stream that was opened either       *)
(* returns with its run ended, or is cut off by a cancellation nobody       *)
(* catches.                                                                 *)
EveryStreamSettles ==
  AgentFairness =>
    \A s \in Streams :
      pc[s] = "opened" ~> \/ pc[s] = "closed" /\ IsTerminal(run[RunOf[s]])
                         \/ pc[s] \in {"escaped", "abandoned"}

(* When the client goes away the agent is stopped, even if the model or a   *)
(* tool never answers.                                                      *)
GoneClientReleasesAgent ==
  \A s \in Streams : gone[s] ~> task[s] \notin {"running", "cancelling"}

-----------------------------------------------------------------------------
(* What the documentation says and the code does not keep.                  *)

(* docs/reference/glossary.md: a run ends completed, failed or cancelled.   *)
RunReachesTerminal ==
  \A s \in Streams : pc[s] = "opened" ~> IsTerminal(run[RunOf[s]])

(* docs/system/chat-runtime-contract.md: the first event is run_started.    *)
StreamOpensWithStart ==
  \A s \in Streams : sent[s] # << >> => Head(sent[s]) = "run_started"

(* docs/system/chat-runtime-contract.md: a tool call that was never         *)
(* executed is diagnosed, and then the run fails, never completes.          *)
UnexecutedToolCallFails ==
  \A s \in Streams :
    "unexecuted" \in {sent[s][i] : i \in DOMAIN sent[s]}
      => "run_completed" \notin {sent[s][i] : i \in DOMAIN sent[s]}
=============================================================================
