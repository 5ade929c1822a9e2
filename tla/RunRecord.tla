------------------------------ MODULE RunRecord ------------------------------
(***************************************************************************)
(* The run record of the Copilot runtime                                   *)
(* (backend/app/copilot_runtime/session_store.py, RuntimeRunRecord) and    *)
(* the operations both session stores apply to it.  The SQLite store loads *)
(* the record, applies the same method and writes it back in one           *)
(* transaction, so one operator stands for the operation of either store.  *)
(*                                                                         *)
(* Timestamps are kept as "has been set"; the assistant text, the payloads *)
(* and the metadata are kept as far as the archive depends on them.        *)
(***************************************************************************)
EXTENDS Naturals, Sequences

TerminalStatus == {"completed", "failed", "cancelled"}

Status == {"pending", "streaming", "cancellation_requested"} \cup TerminalStatus

(* "awaiting_input" is run_failed with the code awaiting_user_input.        *)
TerminalEvent == {"run_completed", "run_failed", "awaiting_input", "run_cancelled"}

(* "form_request" is a tool_event that carries a form, "unexecuted" the     *)
(* run_diagnostic of a tool call nobody executed.  reasoning_delta, the     *)
(* other diagnostics of the agent and the other tool events take the same   *)
(* path and leave the same trace: "tool_event" stands for them.             *)
BodyEvent == {"text_delta", "tool_event", "form_request", "unexecuted"}

RunEvent == {"run_started", "run_metadata", "run_diagnostic"} \cup BodyEvent \cup TerminalEvent

(* started, ended: started_at and terminal_at have been set.                *)
(* text: assistant_text is stored.  awaiting: the stored terminal payload   *)
(* has the code awaiting_user_input.                                        *)
Record == [status          : Status,
           cancelRequested : BOOLEAN,
           started         : BOOLEAN,
           ended           : BOOLEAN,
           text            : BOOLEAN,
           awaiting        : BOOLEAN,
           log             : Seq(RunEvent)]

NewRecord == [status          |-> "pending",
              cancelRequested |-> FALSE,
              started         |-> FALSE,
              ended           |-> FALSE,
              text            |-> FALSE,
              awaiting        |-> FALSE,
              log             |-> << >>]

IsTerminal(r) == r.status \in TerminalStatus

(* Faulty variants: a terminal run revived, the first terminal status kept. *)
MarkStreamingAlways(r) == [r EXCEPT !.status = "streaming", !.started = TRUE]

MarkTerminalOnce(r, status) ==
  IF IsTerminal(r) THEN r
  ELSE [r EXCEPT !.status = status, !.started = TRUE, !.ended = TRUE]

MarkStreaming(r) ==
  IF IsTerminal(r) THEN r
  ELSE [r EXCEPT !.status = "streaming", !.started = TRUE]

(* A pending run ends here and now; a started one is only asked to stop.    *)
RequestCancel(r) ==
  CASE IsTerminal(r)         -> r
    [] r.status = "pending"  -> [r EXCEPT !.cancelRequested = TRUE,
                                          !.status = "cancelled",
                                          !.ended = TRUE]
    [] OTHER                 -> [r EXCEPT !.cancelRequested = TRUE,
                                          !.status = "cancellation_requested"]

(* _mark_terminal overwrites whatever status it finds, a terminal one too.  *)
MarkTerminal(r, status) ==
  [r EXCEPT !.status = status, !.started = TRUE, !.ended = TRUE]

MarkCompleted(r) ==
  [MarkTerminal(r, "completed") EXCEPT !.text = TRUE, !.awaiting = FALSE]

MarkFailed(r, awaitingInput) ==
  [MarkTerminal(r, "failed") EXCEPT !.awaiting = awaitingInput]

MarkCancelled(r) ==
  [MarkTerminal(r, "cancelled") EXCEPT !.cancelRequested = TRUE, !.awaiting = FALSE]

AppendEvent(r, e) == [r EXCEPT !.log = Append(@, e)]

(* What a store may make of a record by one of its methods.                 *)
Methods(r) ==
  {MarkStreaming(r), RequestCancel(r), MarkCompleted(r), MarkCancelled(r)}
    \cup {MarkFailed(r, awaiting) : awaiting \in BOOLEAN}

(* What the bridge does to the record for every event of a stream: record   *)
(* it, whatever the status, then move the status along.                     *)
UpdateFromEvent(r, e) ==
  LET logged == AppendEvent(r, e)
  IN  CASE e \in {"run_started", "run_metadata"} -> MarkStreaming(logged)
        [] e = "run_completed"                   -> MarkCompleted(logged)
        [] e = "run_failed"                      -> MarkFailed(logged, FALSE)
        [] e = "awaiting_input"                  -> MarkFailed(logged, TRUE)
        [] e = "run_cancelled"                   -> MarkCancelled(logged)
        [] OTHER                                 -> logged

(* The status a terminal event leaves behind.                               *)
StatusOf(e) ==
  CASE e = "run_completed" -> "completed"
    [] e = "run_cancelled" -> "cancelled"
    [] OTHER               -> "failed"
=============================================================================
