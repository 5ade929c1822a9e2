-------------------------- MODULE RunStreamContract --------------------------
(***************************************************************************)
(* What the answers to run/stream promise their readers: the events in the *)
(* order a client receives them.  Nothing is said of threads, tasks or     *)
(* stores.                                                                 *)
(*                                                                         *)
(* This is what the server really sends; it is looser than the documents   *)
(* in two places, which say that every stream opens with run_started and   *)
(* that a run fails when a tool call was left unexecuted.                  *)
(*                                                                         *)
(* A stream either announces its run with run_started, describes it with   *)
(* run_metadata, reports its body and closes with one terminal event, or   *)
(* is the single run_cancelled of a run cancelled before it was streamed.  *)
(* It may break off anywhere, but nothing ever follows a terminal event,   *)
(* no body and no success or cancellation comes before the metadata, and a *)
(* run that has reported a failure diagnostic can only fail.               *)
(***************************************************************************)
EXTENDS RunRecord

CONSTANT Streams

VARIABLE seen    \* the events received so far from each stream

Final(s) == seen[s][Len(seen[s])]

Open(s) == seen[s] # << >> /\ Final(s) \notin TerminalEvent

(* Open, and no failure has been diagnosed.                                 *)
Live(s) == Open(s) /\ Final(s) # "run_diagnostic"

Described(s) == Len(seen[s]) > 1 /\ seen[s][2] = "run_metadata"

Receive(s, e) == seen' = [seen EXCEPT ![s] = Append(@, e)]

Init == seen = [s \in Streams |-> << >>]

Announce(s) == seen[s] = << >> /\ Receive(s, "run_started")

Preempted(s) == seen[s] = << >> /\ Receive(s, "run_cancelled")

Describe(s) == seen[s] = <<"run_started">> /\ Receive(s, "run_metadata")

Report(s) == Live(s) /\ Described(s) /\ \E e \in BodyEvent : Receive(s, e)

Diagnose(s) == Live(s) /\ Receive(s, "run_diagnostic")

Fail(s) == Open(s) /\ Receive(s, "run_failed")

(* A form was reported, so the run is described.                            *)
Await(s) == Live(s) /\ Described(s) /\ Receive(s, "awaiting_input")

Close(s) ==
  Live(s) /\ Described(s) /\ \E e \in {"run_completed", "run_cancelled"} : Receive(s, e)

Next ==
  \E s \in Streams :
    \/ Announce(s) \/ Preempted(s) \/ Describe(s) \/ Report(s) \/ Diagnose(s)
    \/ Fail(s) \/ Await(s) \/ Close(s)

Spec == Init /\ [][Next]_seen
=============================================================================
