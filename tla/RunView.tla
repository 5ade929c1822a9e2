-------------------------------- MODULE RunView --------------------------------
(***************************************************************************)
(* The chat panel of the desktop renderer: sending a message, following    *)
(* the event stream of its run, cancelling it, and handing the finished    *)
(* run over to the persisted history (copilot-send-controller.ts,          *)
(* thread-run-contract.ts, useCopilotChatPanelState.ts).                   *)
(*                                                                         *)
(* Each session has a runtime controller: the run state that is shown, the *)
(* user messages not yet taken from the history, the abort controller of   *)
(* the send in flight, and two markers of the handover.  A send is bound   *)
(* to the session it started in, while the user may open another one.      *)
(* An action is what runs between two awaits, its React state update       *)
(* included.  The runtime is external: run[n] is the status it has stored  *)
(* for the run of send n.                                                  *)
(***************************************************************************)
EXTENDS RunSegments

CONSTANTS Sessions,
          NoSession,
          MaxSends,    \* bound: messages sent in all sessions together
          MaxEvents,   \* bound: content events of one run
          MaxTalks,    \* bound: runs with content, the first ones
          Content,     \* the content events the runs of this instance have
          MaxFaults,   \* bound: lost connections, lost responses, failed requests
          MaxTurns     \* bound: how often the user opens another session

ASSUME MaxSendsAssumption  == MaxSends \in Nat \ {0}
ASSUME MaxEventsAssumption == MaxEvents \in Nat
ASSUME MaxTalksAssumption  == MaxTalks \in Nat
ASSUME MaxFaultsAssumption == MaxFaults \in Nat
ASSUME MaxTurnsAssumption  == MaxTurns \in Nat
ASSUME ContentAssumption   == Content \subseteq ContentEvent
ASSUME SessionAssumption   == NoSession \notin Sessions

Sends    == 1 .. MaxSends      \* a send, and the run the runtime makes for it
NoRun    == 0
LocalRun == MaxSends + 1       \* 'local-cancelled-run', 'local-failed-run'

VARIABLES
  ctl,       \* the runtime controller of each session
  active,    \* the session on screen
  send,      \* the sends: where each is suspended, and its cancel request
  run,       \* external: the stored status of each run
  hist,      \* the history of each session: its detail, the request for it
  faults,    \* faults so far
  turns,     \* session switches so far
  cut,       \* runs given an outcome by the renderer and not by an event
  late,      \* such an outcome came after the terminal event of its own run
  rejected   \* sessions in which a form was submitted while a run streamed

vars == <<ctl, active, send, run, hist, faults, turns, cut, late, rejected>>

-----------------------------------------------------------------------------
(* Types.                                                                   *)

RunStatus == {"none", "pending", "running", "stopping"} \cup Outcome

Final(status) == status \in Outcome

(* posting: run/start.  opening: run/stream requested.  opened: waiting for *)
(* run_started.  tail: the terminal event is applied, the body is still     *)
(* being read.                                                              *)
Live == {"posting", "opening", "opened", "streaming", "tail"}

Send == [pc : {"unused", "done"} \cup Live,
         session : Sessions \cup {NoSession},
         log : UNION {[1 .. k -> Content] : k \in 0 .. MaxEvents},
         aborted : BOOLEAN,
         cancel : {"no", "sent", "served"},
         target : Sends \cup {NoRun, LocalRun}]

(* request: the latest detail request of the session, the only one whose    *)
(* answer is applied.  stale: what it holds, or is about to get, was read   *)
(* before the last run that settled in the session.                         *)
Shown  == {"none", "open"} \cup Outcome
Detail == [status : {"idle", "loading", "ready", "error"}, shown : [Sends -> Shown],
           request : {"none", "asked", "answered"}, answer : [Sends -> Shown],
           stale : BOOLEAN]

View == [phase : Phase, run : Sends \cup {NoRun, LocalRun},
         thread : Sessions \cup {NoSession}, segs : Seq([kind : SegmentKind,
           run : Sends \cup {LocalRun}, status : SegmentStatus])]

Controller == [view : View, conv : SUBSET Sends, abort : Sends \cup {NoRun},
               pending : Sends \cup {NoRun, LocalRun},
               settled : Sends \cup {NoRun, LocalRun}]

FreshController ==
  [view |-> IdleView(NoRun, NoSession), conv |-> {}, abort |-> NoRun,
   pending |-> NoRun, settled |-> NoRun]

Unused == [pc |-> "unused", session |-> NoSession, log |-> << >>, aborted |-> FALSE,
           cancel |-> "no", target |-> NoRun]

NoRuns == [n \in Sends |-> "none"]

Idle == [status |-> "idle", shown |-> NoRuns, request |-> "none", answer |-> NoRuns,
         stale |-> FALSE]

(* Mutant: an answer of an earlier request is applied as well.              *)
AskedWithoutVersion(d) ==
  [d EXCEPT !.status = "loading", !.stale = FALSE,
            !.request = IF @ = "none" THEN "asked" ELSE @]

(* The effect of the session on screen, in the commit that makes its detail *)
(* idle: it asks for the detail under a new version, so that the answer to  *)
(* the request before is dropped.                                           *)
Asked(d) == [d EXCEPT !.status = "loading", !.request = "asked", !.answer = NoRuns,
                      !.stale = FALSE]

Init ==
  /\ ctl = [s \in Sessions |-> FreshController]
  /\ active \in Sessions
  /\ send = [n \in Sends |-> Unused]
  /\ run = [n \in Sends |-> "none"]
  /\ hist = [s \in Sessions |-> IF s = active THEN Asked(Idle) ELSE Idle]
  /\ faults = 0
  /\ turns = 0
  /\ cut = {}
  /\ late = FALSE
  /\ rejected = {}

Fault == faults < MaxFaults /\ faults' = faults + 1

At(n, pc) == send[n].pc = pc

Of(n) == send[n].session

(* Mutant: the update reaches the session on screen.                        *)
SetViewOnScreen(n, view) == ctl' = [ctl EXCEPT ![active].view = view]

(* A state update of send n reaches the controller it is bound to.          *)
SetView(n, view) == ctl' = [ctl EXCEPT ![Of(n)].view = view]

(* Mutant: the controller is cleared whosever it is.                        *)
FinishedAlways(n, controller) == [controller EXCEPT !.abort = NoRun]

(* The end of a send: its finally clears the abort controller only while it *)
(* is its own.  An abort that comes later finds nothing to abort.           *)
Finished(n, controller) ==
  [controller EXCEPT !.abort = IF @ = n THEN NoRun ELSE @]

Ended(n) == send' = [send EXCEPT ![n].pc = "done", ![n].log = << >>, ![n].aborted = FALSE]

GhostsUnchanged == UNCHANGED <<turns, cut, late, rejected>>

-----------------------------------------------------------------------------
(* What the effects of the panel wait for.                                  *)

SettleDue(s) ==
  LET v == ctl[s].view
  IN  /\ v.phase \in Outcome
      /\ v.run # NoRun
      /\ v.thread # NoSession
      /\ ctl[s].settled # v.run

InDetail(s, r) == r \in Sends /\ hist[s].shown[r] # "none"

(* Mutant: only a completed run is taken over.                              *)
SufficientOnceCompleted(s, r) == InDetail(s, r) /\ hist[s].shown[r] = "completed"

(* What the history must show of a run before it may take over.             *)
Sufficient(s, r) ==
  /\ InDetail(s, r)
  /\ ctl[s].view.run = r =>
       CASE ctl[s].view.phase = "awaiting" ->
              PendingForm(ctl[s].view) => hist[s].shown[r] = "awaiting"
         [] ctl[s].view.phase \in {"failed", "cancelled"} ->
              hist[s].shown[r] = ctl[s].view.phase
         [] OTHER -> TRUE

Ready(s) == hist[s].status = "ready"

HandoverDue(s) ==
  /\ ctl[s].pending # NoRun
  /\ Ready(s)
  /\ Sufficient(s, ctl[s].pending)

(* The effects of a commit have run before the user can act on it.  Those   *)
(* of a session out of sight run while its panel is kept alive.             *)
Rendered == ~HandoverDue(active) /\ \A s \in Sessions : ~SettleDue(s)

-----------------------------------------------------------------------------
(* The user.                                                                *)

(* A detail that failed is tried again, one that is being loaded is awaited.*)
Open(s) ==
  /\ Rendered
  /\ turns < MaxTurns
  /\ s # active
  /\ active' = s
  /\ turns' = turns + 1
  /\ hist' = IF hist[s].status \in {"idle", "error"}
             THEN [hist EXCEPT ![s] = Asked(@)] ELSE hist
  /\ UNCHANGED <<ctl, send, run, faults, cut, late, rejected>>

(* The button beside the error.                                             *)
Retry ==
  /\ Rendered
  /\ hist[active].status = "error"
  /\ hist' = [hist EXCEPT ![active] = Asked(@)]
  /\ UNCHANGED <<ctl, active, send, run, faults>>
  /\ GhostsUnchanged

NextSend(n) == At(n, "unused") /\ \A k \in Sends : k < n => ~At(k, "unused")

(* Mutant: the run state keeps the run it held.                             *)
DispatchKeepingRun(s, n) ==
  /\ ctl' = [ctl EXCEPT ![s].view = StartingView(@.run, s),
                        ![s].conv = @ \cup {n},
                        ![s].abort = n]
  /\ send' = [send EXCEPT ![n].pc = "posting", ![n].session = s]
  /\ UNCHANGED <<active, run, hist, faults>>
  /\ GhostsUnchanged

(* A message or the answer to a form: the old segments and the message move *)
(* to the transient conversation, the run state starts anew.                *)
Dispatch(s, n) ==
  /\ ctl' = [ctl EXCEPT ![s].view = StartingView(NoRun, s),
                        ![s].conv = @ \cup {n},
                        ![s].abort = n]
  /\ send' = [send EXCEPT ![n].pc = "posting", ![n].session = s]
  /\ UNCHANGED <<active, run, hist, faults>>
  /\ GhostsUnchanged

SendMessage(n) ==
  /\ Rendered
  /\ NextSend(n)
  /\ ~Sending(ctl[active].view)
  /\ Dispatch(active, n)

SubmitForm(n) ==
  /\ Rendered
  /\ NextSend(n)
  /\ PendingForm(ctl[active].view)
  /\ ~Sending(ctl[active].view)
  /\ Dispatch(active, n)

(* The card of a form can be submitted while its run still streams: the     *)
(* submission is dropped, and the controller that replaced the one of the   *)
(* stream is cleared.                                                       *)
SubmitFormEarly ==
  /\ Rendered
  /\ PendingForm(ctl[active].view)
  /\ Sending(ctl[active].view)
  /\ ctl' = [ctl EXCEPT ![active].abort = NoRun]
  /\ rejected' = rejected \cup {active}
  /\ UNCHANGED <<active, send, run, hist, faults, turns, cut, late>>

CanCancel(s) == ctl[s].abort # NoRun /\ Sending(ctl[s].view)

(* With a run id the runtime is asked first, and the abort follows its      *)
(* answer; without one the request is aborted at once.                      *)
Cancel ==
  LET c == ctl[active]
  IN  /\ Rendered
      /\ CanCancel(active)
      /\ send[c.abort].cancel = "no"
      /\ send' = IF c.view.run # NoRun
                 THEN [send EXCEPT ![c.abort].cancel = "sent",
                                   ![c.abort].target = c.view.run]
                 ELSE [send EXCEPT ![c.abort].aborted = TRUE]
      /\ UNCHANGED <<ctl, active, run, hist, faults>>
      /\ GhostsUnchanged

-----------------------------------------------------------------------------
(* The runtime.                                                             *)

Accept(n) ==
  /\ At(n, "posting")
  /\ run[n] = "none"
  /\ run' = [run EXCEPT ![n] = "pending"]
  /\ UNCHANGED <<ctl, active, send, hist, faults>>
  /\ GhostsUnchanged

(* run/cancel: a run nobody streams yet is cancelled on the spot.           *)
ServeCancel(n) ==
  LET r == send[n].target
  IN  /\ send[n].cancel = "sent"
      /\ send' = [send EXCEPT ![n].cancel = "served"]
      /\ run' = IF r = LocalRun THEN run
                ELSE [run EXCEPT ![r] = CASE @ = "pending" -> "cancelled"
                                          [] @ = "running" -> "stopping"
                                          [] OTHER -> @]
      /\ UNCHANGED <<ctl, active, hist, faults>>
      /\ GhostsUnchanged

(* A stopped run may still end the way it was about to; one nobody listens  *)
(* to any more is cancelled by the disconnect, unless it was faster.        *)
Finish(n) ==
  /\ run[n] \in {"running", "stopping"}
  /\ send[n].pc \in {"streaming", "done"}
  /\ \E outcome \in Outcome :
       /\ outcome = "cancelled" => run[n] = "stopping" \/ At(n, "done")
       /\ outcome = "awaiting" => \E i \in DOMAIN send[n].log : send[n].log[i] = "form"
       /\ run' = [run EXCEPT ![n] = outcome]
  /\ UNCHANGED <<ctl, active, send, hist, faults>>
  /\ GhostsUnchanged

-----------------------------------------------------------------------------
(* A send follows its run.                                                  *)

Posted(n) ==
  /\ At(n, "posting")
  /\ ~send[n].aborted
  /\ run[n] # "none"
  /\ SetView(n, Registered(ctl[Of(n)].view, n, Of(n)))
  /\ send' = [send EXCEPT ![n].pc = "opening"]
  /\ UNCHANGED <<active, run, hist, faults>>
  /\ GhostsUnchanged

(* run/start failed, before or after the runtime made the run: the view is  *)
(* idle again and the error is shown beside it.                             *)
PostFails(n) ==
  /\ At(n, "posting")
  /\ ~send[n].aborted
  /\ Fault
  /\ ctl' = [ctl EXCEPT ![Of(n)] =
               Finished(n, [@ EXCEPT !.view = IdleView(NoRun, NoSession)])]
  /\ Ended(n)
  /\ UNCHANGED <<active, run, hist>>
  /\ GhostsUnchanged

StreamOpens(n) ==
  /\ At(n, "opening")
  /\ ~send[n].aborted
  /\ run[n] = "pending"
  /\ run' = [run EXCEPT ![n] = "running"]
  /\ send' = [send EXCEPT ![n].pc = "opened"]
  /\ UNCHANGED <<ctl, active, hist, faults>>
  /\ GhostsUnchanged

Started(n) ==
  /\ At(n, "opened")
  /\ ~send[n].aborted
  /\ SetView(n, ViewStarted(ctl[Of(n)].view, n, Of(n)))
  /\ send' = [send EXCEPT ![n].pc = "streaming"]
  /\ UNCHANGED <<active, run, hist, faults>>
  /\ GhostsUnchanged

Receive(n, kind) ==
  /\ At(n, "streaming")
  /\ ~send[n].aborted
  /\ run[n] \in {"running", "stopping"}
  /\ n <= MaxTalks
  /\ Len(send[n].log) < MaxEvents
  /\ SetView(n, ViewContent(ctl[Of(n)].view, kind, n, Of(n)))
  /\ send' = [send EXCEPT ![n].log = Append(@, kind)]
  /\ UNCHANGED <<active, run, hist, faults>>
  /\ GhostsUnchanged

ReceiveTerminal(n) ==
  /\ At(n, "streaming")
  /\ ~send[n].aborted
  /\ Final(run[n])
  /\ SetView(n, ViewOutcome(ctl[Of(n)].view, run[n], n, Of(n)))
  /\ send' = [send EXCEPT ![n].pc = "tail"]
  /\ UNCHANGED <<active, run, hist, faults>>
  /\ GhostsUnchanged

StreamEnds(n) ==
  /\ At(n, "tail")
  /\ ~send[n].aborted
  /\ ctl' = [ctl EXCEPT ![Of(n)] = Finished(n, @)]
  /\ Ended(n)
  /\ UNCHANGED <<active, run, hist, faults>>
  /\ GhostsUnchanged

(* Mutant: the error is reported and the run state left as it is.           *)
EndLocallyQuietly(n, outcome) ==
  /\ ctl' = [ctl EXCEPT ![Of(n)] = Finished(n, @)]
  /\ Ended(n)
  /\ UNCHANGED <<active, run, hist, turns, cut, late, rejected>>

(* handleSendError: the outcome goes to the run state the session has now,  *)
(* whichever send that belongs to.                                          *)
EndLocally(n, outcome) ==
  LET v == LocalOutcome(ctl[Of(n)].view, outcome, NoRun, LocalRun, ctl[Of(n)].view.thread)
  IN  /\ ctl' = [ctl EXCEPT ![Of(n)] = Finished(n, [@ EXCEPT !.view = v])]
      /\ Ended(n)
      /\ cut' = cut \cup {n, v.run}
      /\ late' = (late \/ At(n, "tail"))
      /\ UNCHANGED <<active, run, hist, turns, rejected>>

(* The abort reaches the request or the stream.                             *)
Aborted(n) ==
  /\ send[n].pc \in Live
  /\ send[n].aborted
  /\ EndLocally(n, "cancelled")
  /\ UNCHANGED faults

(* The connection is lost, or the stream ends without its terminal event.   *)
StreamFails(n) ==
  /\ send[n].pc \in Live \ {"posting"}
  /\ ~send[n].aborted
  /\ Fault
  /\ EndLocally(n, "failed")

(* The run was cancelled before its stream was opened: the only event is    *)
(* run_cancelled, and the validator wants run_started first.                *)
StreamRefused(n) ==
  /\ At(n, "opening")
  /\ ~send[n].aborted
  /\ run[n] = "cancelled"
  /\ EndLocally(n, "failed")
  /\ UNCHANGED faults

(* run/cancel has answered, or its request has failed: abort either way.    *)
CancelReturns(n) ==
  /\ send[n].pc \in Live
  /\ \/ send[n].cancel = "served" /\ UNCHANGED faults
     \/ send[n].cancel = "sent" /\ Fault
  /\ ~send[n].aborted
  /\ send' = [send EXCEPT ![n].aborted = TRUE]
  /\ UNCHANGED <<ctl, active, run, hist>>
  /\ GhostsUnchanged

-----------------------------------------------------------------------------
(* The handover to the history.                                             *)

(* Mutant: the detail is not asked for again.                               *)
SettleKeepingDetail(s) ==
  LET v == ctl[s].view
  IN  /\ SettleDue(s)
      /\ ctl' = [ctl EXCEPT ![s].settled = v.run,
                            ![s].pending = IF v.thread = s THEN v.run ELSE @]
      /\ UNCHANGED <<active, send, run, hist, faults>>
      /\ GhostsUnchanged

(* Behind another session no new request follows: the answer of one under   *)
(* way is still that of the latest when it comes, and is taken.             *)
AskedAgain(s) ==
  IF s = active THEN Asked(hist[s])
  ELSE [hist[s] EXCEPT !.status = "idle", !.stale = @ \/ hist[s].request = "answered"]

(* The effect that notices the end of a run, in any session: the run waits  *)
(* for the history, whose detail is asked for again.                        *)
Settle(s) ==
  LET v == ctl[s].view
  IN  /\ SettleDue(s)
      /\ ctl' = [ctl EXCEPT ![s].settled = v.run,
                            ![s].pending = IF v.thread = s THEN v.run ELSE @]
      /\ hist' = [hist EXCEPT ![v.thread] = AskedAgain(v.thread)]
      /\ UNCHANGED <<active, send, run, faults>>
      /\ GhostsUnchanged

(* What a detail says of a run.                                             *)
Stored(n) == IF run[n] \in {"pending", "running", "stopping"} THEN "open" ELSE run[n]

(* Only the detail of the session on screen is asked for; the answer is read *)
(* at one instant and arrives at a later one.                               *)
ReadDetail(s) ==
  /\ hist[s].request = "asked"
  /\ hist' = [hist EXCEPT ![s] = [@ EXCEPT !.request = "answered",
       !.answer = [n \in Sends |-> IF Of(n) = s THEN Stored(n) ELSE "none"]]]
  /\ UNCHANGED <<ctl, active, send, run, faults>>
  /\ GhostsUnchanged

(* The answer is applied whichever session is on screen by now, and         *)
(* whatever the status has become meanwhile.                                *)
DetailReturns(s) ==
  /\ hist[s].request = "answered"
  /\ hist' = [hist EXCEPT ![s] = [@ EXCEPT !.status = "ready", !.shown = hist[s].answer,
                                           !.request = "none", !.answer = NoRuns]]
  /\ UNCHANGED <<ctl, active, send, run, faults>>
  /\ GhostsUnchanged

DetailFails(s) ==
  /\ hist[s].request # "none"
  /\ Fault
  /\ hist' = [hist EXCEPT ![s] = [@ EXCEPT !.status = "error", !.request = "none",
                                           !.answer = NoRuns]]
  /\ UNCHANGED <<ctl, active, send, run>>
  /\ GhostsUnchanged

Handover(s) ==
  LET r == ctl[s].pending
  IN  /\ HandoverDue(s)
      /\ ctl' = [ctl EXCEPT
           ![s].pending = NoRun,
           ![s].conv = {},
           ![s].view = IF @.run = r THEN IdleView(NoRun, NoSession) ELSE @]
      /\ UNCHANGED <<active, send, run, hist, faults>>
      /\ GhostsUnchanged

(* The controller of a session that is not on screen is dropped when too    *)
(* many are kept and its history can show it.  The effect that drops it     *)
(* runs after the one that settles, in the same commit.                     *)
Evictable(s) ==
  LET c == ctl[s]
      waits == c.view.phase = "awaiting" /\ PendingForm(c.view)
  IN  /\ ~Sending(c.view)
      /\ c.abort = NoRun
      /\ Ready(s)
      /\ IF waits
         THEN hist[s].shown[c.view.run] = "awaiting"
         ELSE /\ c.pending = NoRun
              /\ \E r \in Sends : InDetail(s, r)

Evict(s) ==
  /\ s # active
  /\ ~SettleDue(s)
  /\ Evictable(s)
  /\ ctl[s] # FreshController
  /\ ctl' = [ctl EXCEPT ![s] = FreshController]
  /\ UNCHANGED <<active, send, run, hist, faults>>
  /\ GhostsUnchanged

-----------------------------------------------------------------------------
User == \/ \E s \in Sessions : Open(s)
        \/ \E n \in Sends : SendMessage(n) \/ SubmitForm(n)
        \/ SubmitFormEarly
        \/ Cancel
        \/ Retry

Runtime(n) == Accept(n) \/ ServeCancel(n) \/ Finish(n)

Answered(n) == \/ Posted(n) \/ StreamOpens(n) \/ Started(n)
               \/ ReceiveTerminal(n) \/ StreamEnds(n)
               \/ StreamRefused(n) \/ CancelReturns(n) \/ Aborted(n)

Panel(s) == \/ Settle(s) \/ Handover(s)
            \/ ReadDetail(s) \/ DetailReturns(s)

Next == \/ User
        \/ \E n \in Sends : \/ Runtime(n) \/ Answered(n)
                            \/ PostFails(n) \/ StreamFails(n)
                            \/ \E kind \in Content : Receive(n, kind)
        \/ \E s \in Sessions : Panel(s) \/ DetailFails(s) \/ Evict(s)

Spec == Init /\ [][Next]_vars

(* The runtime answers, the fetches return, the effects run: the event      *)
(* loops do not stop while one of these steps is due.  Each send and each   *)
(* request has few of them, so that none can hold up another for ever and   *)
(* fairness of all together is enough.                                      *)
Fairness == WF_vars(\/ \E n \in Sends : Runtime(n) \/ Answered(n)
                    \/ \E s \in Sessions : Panel(s))

FairSpec == Spec /\ Fairness

-----------------------------------------------------------------------------
(* Correctness.                                                             *)

(* Every part of the panel has its type: the run states, the sends, the     *)
(* stored statuses and the loaded details.                                  *)
TypeOK ==
  /\ ctl \in [Sessions -> Controller]
  /\ active \in Sessions
  /\ send \in [Sends -> Send]
  /\ run \in [Sends -> RunStatus]
  /\ hist \in [Sessions -> Detail]
  /\ faults \in 0 .. MaxFaults
  /\ turns \in 0 .. MaxTurns
  /\ cut \subseteq Sends \cup {LocalRun}
  /\ late \in BOOLEAN
  /\ rejected \subseteq Sessions

(* What a session shows is its own: the run, the thread and every segment   *)
(* of its run state, the messages it keeps and the run it waits for belong  *)
(* to sends of that session, however often the user switched meanwhile      *)
(* (createBoundSessionDispatchers).                                         *)
SessionOwnsRun ==
  \A s \in Sessions :
    LET Own(r) == r \in Sends => Of(r) = s
    IN  /\ ctl[s].view.thread \in {s, NoSession}
        /\ \A r \in ctl[s].conv : Own(r)
        /\ Own(ctl[s].view.run) /\ Own(ctl[s].abort)
        /\ Own(ctl[s].pending) /\ Own(ctl[s].settled)
        /\ \A i \in DOMAIN ctl[s].view.segs : Own(ctl[s].view.segs[i].run)

(* A cancel asks the runtime for the run of the very send it aborts: the    *)
(* run id comes from the run state, the abort controller from another       *)
(* field (handleCancelCurrentRun).  A failure that comes after the terminal *)
(* event of its run is the exception: it overwrites the run state of the    *)
(* next send.                                                               *)
CancelReachesItsRun ==
  ~late => \A n \in Sends : send[n].target \in {NoRun, n}

(* While a run is shown as starting or streaming the user can stop it: the  *)
(* abort controller is that of a send of the session still in flight.       *)
(* Excepted are a form submitted before its run has ended, and a late       *)
(* failure as above.                                                        *)
StaysCancellable ==
  \A s \in Sessions :
    Sending(ctl[s].view) /\ s \notin rejected /\ ~late =>
      /\ ctl[s].abort # NoRun
      /\ Of(ctl[s].abort) = s
      /\ send[ctl[s].abort].pc \in Live
      /\ ctl[s].view.run \in {NoRun, ctl[s].abort}

(* A failed or cancelled run leaves no step open ("收到 run_failed 或        *)
(* run_cancelled 时进入对应终态，未完成工具步骤收口",                         *)
(* docs/frontend/backend-connection-contract.md); the text and the thinking *)
(* of a run are closed by each of the four outcomes, its tool steps by all  *)
(* but run_completed, the tool that asks by a failure or a cancellation     *)
(* only.  The last segment, and no other, says how the run ended, but for a *)
(* run that waits for its form.  A late failure may mark the next send's    *)
(* run state and is excepted.                                               *)
OutcomeClosesSegments ==
  \A s \in Sessions :
    LET v == ctl[s].view
    IN  v.phase \in Outcome /\ ~late =>
          /\ \A i \in DOMAIN v.segs :
               IsOpen(v.segs[i]) => v.segs[i].kind \in LeftOpen(v.phase)
          /\ v.phase # "awaiting" =>
               /\ v.segs # << >>
               /\ \A i \in DOMAIN v.segs : v.segs[i].kind = "terminal" <=> i = Len(v.segs)
               /\ v.segs[Len(v.segs)] = Segment("terminal", v.run, v.phase)

(* A run that has left the panel is shown by the history with its final     *)
(* status, the one it ended with: the handover never takes a detail that    *)
(* was read before the run had ended, however requests, answers, switches   *)
(* between sessions and settling runs interleave.  Excepted are a session   *)
(* whose run settled behind another one while such a detail was in flight,  *)
(* which the code does apply (the version check of the detail effect sees   *)
(* no newer request), runs the renderer itself gave an outcome, and late    *)
(* failures.                                                                *)
HandedOverIsFinal ==
  ~late => \A s \in Sessions :
    LET r == ctl[s].settled
    IN  r \in Sends /\ ctl[s].pending = NoRun /\ Ready(s) /\ ~hist[s].stale =>
          /\ Final(hist[s].shown[r]) \/ r \in cut
          /\ hist[s].shown[r] # "none"

(* What the panel draws with run sel selected in the history, NoRun for the *)
(* whole thread (shouldRenderTransientConversation).                        *)
DrawsTransient(s, sel) ==
  LET c == ctl[s]
      v == ctl[s].view
      renderable == IF sel = NoRun THEN \E r \in Sends : InDetail(s, r)
                    ELSE InDetail(s, sel)
  IN  CASE v.phase # "idle" /\ v.thread # s -> FALSE
        [] v.phase = "idle" \/ v.thread = s ->
             CASE ~Ready(s) -> c.conv # {} \/ v.phase # "idle"
               [] Ready(s) /\ Sending(v) -> TRUE
               [] Ready(s) /\ ~Sending(v) /\ v.run = NoRun -> c.conv # {}
               [] OTHER -> \/ ~InDetail(s, v.run)
                           \/ sel # v.run /\ (c.pending = v.run \/ ~renderable)
                           \/ sel = v.run /\ ~Sufficient(s, v.run)

(* Until the history has taken a run over, its outcome is on screen: drawn  *)
(* from the run state, or from a history that shows the same outcome,       *)
(* whichever run the user has selected there.  A failure or a cancellation  *)
(* is drawn even beside a stale detail; a run that completed or waits for   *)
(* its form may be hidden by one, which shows it as still open.             *)
OutcomeVisible ==
  ~late => \A s \in Sessions : \A sel \in Sends \cup {NoRun} :
    LET v == ctl[s].view
    IN  v.phase \in Outcome /\ v.run # NoRun /\ ctl[s].pending = v.run =>
          \/ DrawsTransient(s, sel)
          \/ /\ sel = v.run
             /\ \/ hist[s].shown[v.run] = v.phase
                \/ v.phase \in {"completed", "awaiting"} /\ hist[s].stale

(* Every send comes to an end on screen: starting and streaming are left,   *)
(* whatever is lost on the way.                                             *)
SendSettles ==
  \A s \in Sessions : Sending(ctl[s].view) ~> ~Sending(ctl[s].view)

(* A run that ended with its own terminal event is taken over by the        *)
(* history, unless the user leaves its session, its detail cannot be loaded *)
(* and nobody tries again, or the detail is a stale one.                    *)
HandsOver ==
  \A s \in Sessions :
    ctl[s].pending # NoRun ~>
      \/ ctl[s].pending \in cut \cup {NoRun}
      \/ late \/ active # s
      \/ hist[s].status = "error" \/ hist[s].stale
===============================================================================
