------------------------------ MODULE RunSegments ------------------------------
(***************************************************************************)
(* What the chat panel shows of the run of a session: the run state and    *)
(* its segments, and how one runtime event or one local outcome changes    *)
(* them (run-segment-reducer.ts).  The text, the routes and the thinking   *)
(* metadata of a segment are left out; its kind, its run and its status    *)
(* stay.  The history panel folds the stored events of a run with the same *)
(* reducer (persisted-history-view-model.ts).                              *)
(***************************************************************************)
EXTENDS Sequences, Naturals, FiniteSets

Phase == {"idle", "starting", "streaming", "completed", "failed", "cancelled",
          "awaiting"}

Sending(view) == view.phase \in {"starting", "streaming"}

Outcome == {"completed", "failed", "cancelled", "awaiting"}

(* What the agent sends between run_started and the end.  "asking" is the   *)
(* inline form tool before it carries its form; "form" the event with it.   *)
ContentEvent == {"text", "reasoning", "tool", "toolDone", "asking", "form", "diagnostic"}

SegmentKind == {"assistant", "reasoning", "tool", "asking", "form", "diagnostic",
                "terminal"}
SegmentStatus == {"streaming", "pending", "submitted"} \cup Outcome

Segment(kind, run, status) == [kind |-> kind, run |-> run, status |-> status]

IsOpen(segment) == segment.status = "streaming"

IdleView(noRun, noThread) ==
  [phase |-> "idle", run |-> noRun, thread |-> noThread, segs |-> << >>]

StartingView(noRun, thread) ==
  [phase |-> "starting", run |-> noRun, thread |-> thread, segs |-> << >>]

Registered(view, run, thread) == [view EXCEPT !.run = run, !.thread = thread]

(* Every open segment of one of the kinds gets the status.                  *)
CloseKinds(segs, kinds, status) ==
  [i \in DOMAIN segs |->
     IF IsOpen(segs[i]) /\ segs[i].kind \in kinds
     THEN [segs[i] EXCEPT !.status = status] ELSE segs[i]]

CompleteReasoning(segs) == CloseKinds(segs, {"reasoning"}, "completed")

(* A delta extends the last segment when that is open and of its kind.      *)
AppendDelta(segs, kind, run) ==
  IF segs # << >> /\ segs[Len(segs)].kind = kind /\ IsOpen(segs[Len(segs)])
  THEN segs
  ELSE Append(segs, Segment(kind, run, "streaming"))

Holds(segs, kind, run) == \E i \in DOMAIN segs : segs[i].kind = kind /\ segs[i].run = run

UpsertTool(segs, kind, run, status) ==
  IF Holds(segs, kind, run)
  THEN [i \in DOMAIN segs |->
          IF segs[i].kind = kind /\ segs[i].run = run
          THEN Segment(kind, run, status) ELSE segs[i]]
  ELSE Append(segs, Segment(kind, run, status))

(* The segments of the other kinds, in their order.                         *)
Without(segs, kind) ==
  LET kept[n \in 0 .. Len(segs)] ==
        IF n = 0 THEN << >>
        ELSE IF segs[n].kind = kind THEN kept[n - 1] ELSE Append(kept[n - 1], segs[n])
  IN  kept[Len(segs)]

(* The form takes the place of the tool step that asked for it.             *)
UpsertInlineForm(segs, run) ==
  LET others == Without(segs, "asking")
  IN  IF Holds(segs, "form", run) THEN others
      ELSE Append(others, Segment("form", run, "pending"))

(* The terminal segment is unique and last.                                 *)
AppendTerminal(segs, run, status) ==
  Append(Without(segs, "terminal"), Segment("terminal", run, status))

CancelStreaming(segs) ==
  CloseKinds(segs, {"tool", "asking", "assistant", "reasoning"}, "cancelled")

FailStreaming(segs) ==
  CloseKinds(segs, {"tool", "asking", "assistant", "reasoning"}, "failed")

(* Mutant: thinking stays open.                                             *)
CompleteText(segs, run) ==
  IF \E i \in DOMAIN segs : segs[i].kind = "assistant"
  THEN CloseKinds(segs, {"assistant"}, "completed")
  ELSE Append(segs, Segment("assistant", run, "completed"))

(* Tool steps are left as they are.                                         *)
CompleteAssistant(segs, run) ==
  LET closed == CompleteReasoning(segs)
  IN  IF \E i \in DOMAIN segs : segs[i].kind = "assistant"
      THEN CloseKinds(closed, {"assistant"}, "completed")
      ELSE Append(closed, Segment("assistant", run, "completed"))

(* The asking tool stays open, every other step is closed.                  *)
FinalizeForAwaitingInput(segs) ==
  CloseKinds(CloseKinds(segs, {"tool"}, "cancelled"), {"assistant", "reasoning"}, "completed")

ApplyContent(segs, kind, run) ==
  CASE kind = "text"       -> AppendDelta(CompleteReasoning(segs), "assistant", run)
    [] kind = "reasoning"  -> AppendDelta(segs, "reasoning", run)
    [] kind = "tool"       -> UpsertTool(CompleteReasoning(segs), "tool", run, "streaming")
    [] kind = "toolDone"   -> UpsertTool(CompleteReasoning(segs), "tool", run, "completed")
    [] kind = "asking"     -> UpsertTool(CompleteReasoning(segs), "asking", run, "streaming")
    [] kind = "form"       -> UpsertInlineForm(CompleteReasoning(segs), run)
    [] kind = "diagnostic" -> Append(CompleteReasoning(segs),
                                     Segment("diagnostic", run, "completed"))

(* A diagnostic leaves the phase alone, every other content event means     *)
(* that the run streams.                                                    *)
ViewContent(view, kind, run, thread) ==
  [phase  |-> IF kind = "diagnostic" THEN view.phase ELSE "streaming",
   run    |-> run,
   thread |-> thread,
   segs   |-> ApplyContent(view.segs, kind, run)]

ViewStarted(view, run, thread) ==
  [Registered(view, run, thread) EXCEPT !.phase = "streaming"]

(* run_failed with the awaiting-input code gives no terminal segment.       *)
ViewOutcome(view, outcome, run, thread) ==
  [phase  |-> outcome,
   run    |-> run,
   thread |-> thread,
   segs   |->
     CASE outcome = "completed" ->
            AppendTerminal(CompleteAssistant(view.segs, run), run, "completed")
       [] outcome = "failed" ->
            AppendTerminal(FailStreaming(view.segs), run, "failed")
       [] outcome = "cancelled" ->
            AppendTerminal(CancelStreaming(view.segs), run, "cancelled")
       [] outcome = "awaiting" -> FinalizeForAwaitingInput(view.segs)]

(* The steps an outcome leaves as they are.                                 *)
LeftOpen(outcome) == CASE outcome = "completed" -> {"tool", "asking"}
                       [] outcome = "awaiting" -> {"asking"}
                       [] outcome \in {"failed", "cancelled"} -> {}

(* Mutant: no run is made up.                                               *)
LocalOutcomeUnnamed(view, outcome, noRun, localRun, thread) ==
  ViewOutcome(view, outcome, view.run, thread)

(* The outcomes the renderer gives a run by itself: of the run the view     *)
(* holds now, or of a made-up one when it holds none.                       *)
LocalOutcome(view, outcome, noRun, localRun, thread) ==
  ViewOutcome(view, outcome, IF view.run = noRun THEN localRun ELSE view.run, thread)

PendingForm(view) == \E i \in DOMAIN view.segs :
  view.segs[i].kind = "form" /\ view.segs[i].status = "pending"
===============================================================================
