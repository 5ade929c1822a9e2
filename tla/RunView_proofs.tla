----------------------------- MODULE RunView_proofs -----------------------------
(***************************************************************************)
(* Theorems of RunView, for any number of sessions, messages, events,      *)
(* faults and switches between sessions.                                   *)
(***************************************************************************)
EXTENDS RunView, RunSegments_proofs

(* A send that the run state of its session is about.                       *)
Busy(n) == send[n].pc \in {"posting", "opening", "opened", "streaming"}

(* The runs a session may show, and the local one.                          *)
RunsOf(s) == {r \in Sends \cup {LocalRun} : r \in Sends => Of(r) = s}

(* A send has a session from its first step on.                             *)
Placed == \A n \in Sends : At(n, "unused") <=> Of(n) = NoSession

(* A controller of session s that is about the runs in R alone.             *)
ViewOf(s, R) == [phase : Phase, run : R \cup {NoRun}, thread : {s, NoSession},
                 segs : Seq(SegmentOf(R))]

ControllerOf(s, R) ==
  [view : ViewOf(s, R), conv : SUBSET (R \cap Sends), abort : (R \cap Sends) \cup {NoRun},
   pending : R \cup {NoRun}, settled : R \cup {NoRun}]

(* What a session keeps is its own, and its segments are open only where an *)
(* outcome can close them.                                                  *)
Owned == /\ ctl = [s \in Sessions |-> ctl[s]]
         /\ \A s \in Sessions : ctl[s] \in ControllerOf(s, RunsOf(s))

(* The rest of the panel and of the runtime.                                *)
Typed ==
  /\ active \in Sessions
  /\ send \in [Sends -> Send]
  /\ run \in [Sends -> RunStatus]
  /\ hist \in [Sessions -> Detail]
  /\ faults \in 0 .. MaxFaults
  /\ turns \in 0 .. MaxTurns
  /\ cut \subseteq Sends \cup {LocalRun}
  /\ late \in BOOLEAN
  /\ rejected \subseteq Sessions

(* An abort controller that is kept is that of a send in flight.            *)
AbortIsLive == \A s \in Sessions : ctl[s].abort # NoRun => send[ctl[s].abort].pc \in Live

Sound == Typed /\ Placed /\ Owned /\ AbortIsLive

(* The run state of a session says where its busy send is, and nobody       *)
(* else's abort controller is kept meanwhile.                               *)
Followed ==
  \A n \in Sends : Busy(n) =>
    LET c == ctl[Of(n)]
    IN  /\ c.view.phase = IF At(n, "streaming") THEN "streaming" ELSE "starting"
        /\ c.view.run = IF At(n, "posting") THEN NoRun ELSE n
        /\ c.abort \in {n, NoRun}
        /\ Of(n) \notin rejected => c.abort = n

(* A session has one busy send at most, and one as long as it shows that it *)
(* is sending.                                                              *)
OneBusy ==
  /\ \A n, m \in Sends : Busy(n) /\ Busy(m) /\ Of(n) = Of(m) => n = m
  /\ \A s \in Sessions : Sending(ctl[s].view) => \E n \in Sends : Busy(n) /\ Of(n) = s

(* What a run state shows, beyond sending.                                  *)
Shows ==
  \A s \in Sessions :
    LET v == ctl[s].view
    IN  /\ v.phase # "idle" => v.thread = s
        /\ v.run \in Sends => run[v.run] # "none"
        /\ v.run \in Sends /\ v.phase \in Outcome => v.run \in cut \/ run[v.run] = v.phase
        /\ v.run \in Sends \cap cut => v.phase \in {"failed", "cancelled"}
        /\ v.phase \in Outcome => Concluded(v.segs, v.run, v.phase)

(* What statuses say of run r is how it ended.                              *)
Tells(statuses, r) == statuses[r] # "none" /\ (statuses[r] = run[r] \/ r \in cut)

(* What the history holds, or is about to get, says how the settled run     *)
(* ended, unless it is known to be older.                                   *)
Fresh(s) ==
  ctl[s].settled \in Sends /\ ~hist[s].stale =>
    /\ Ready(s) => Tells(hist[s].shown, ctl[s].settled)
    /\ hist[s].request = "answered" => Tells(hist[s].answer, ctl[s].settled)

(* What has been settled has ended, and a detail read since says how.       *)
Settled ==
  \A s \in Sessions :
    LET c == ctl[s]
        r == c.settled
    IN  /\ c.pending # NoRun => c.pending = r
        /\ r \in Sends => /\ ~Busy(r)
                          /\ run[r] # "none"
                          /\ Final(run[r]) \/ r \in cut
        /\ Fresh(s)

(* Cancellations name the run they abort; a run given an outcome locally is *)
(* one whose send is over.                                                  *)
Aimed == /\ \A n \in Sends : send[n].target \in {NoRun, n}
         /\ \A n \in Sends \cap cut : At(n, "done")

(* The inductive invariant.  What the panel shows is only right until the   *)
(* failure of a send reaches the run state of the next.                     *)
Tracked == Followed /\ OneBusy /\ Shows /\ Settled /\ Aimed

IInv == Sound /\ (~late => Tracked)

-----------------------------------------------------------------------------
(* Constants, types and owners.                                             *)

LEMMA Constants ==
  /\ NoRun \notin Sends /\ LocalRun \notin Sends /\ LocalRun # NoRun
  /\ NoSession \notin Sessions
  /\ Sends \subseteq Nat
BY MaxSendsAssumption, SessionAssumption DEF NoRun, Sends, LocalRun

LEMMA OwnersGrow ==
  ASSUME NEW s, NEW R, NEW Q, R \subseteq Q
  PROVE  ControllerOf(s, R) \subseteq ControllerOf(s, Q)
<1>1. SegmentOf(R) \subseteq SegmentOf(Q)
  BY DEF SegmentOf
<1>2. Seq(SegmentOf(R)) \subseteq Seq(SegmentOf(Q))
  BY <1>1
<1>3. ViewOf(s, R) \subseteq ViewOf(s, Q)
  BY <1>2 DEF ViewOf
<1>4. QED
  BY <1>3 DEF ControllerOf

(* What the inductive invariant says of the types and the owners is what    *)
(* the two invariants of the runs say.                                      *)
LEMMA SoundImplies ==
  ASSUME Sound
  PROVE  TypeOK /\ SessionOwnsRun
<1>1. ASSUME NEW s \in Sessions
      PROVE  /\ ctl[s] \in Controller
             /\ \A i \in DOMAIN ctl[s].view.segs : ctl[s].view.segs[i].run \in RunsOf(s)
  <2>1. ctl[s] \in ControllerOf(s, RunsOf(s)) /\ RunsOf(s) \subseteq Sends \cup {LocalRun}
    BY DEF Sound, Owned, RunsOf
  <2>2. ctl[s].view \in ViewOf(s, RunsOf(s))
    BY <2>1 DEF ControllerOf
  <2>3. ctl[s].view.segs \in Seq(SegmentOf(RunsOf(s)))
    BY <2>2 DEF ViewOf
  <2>4. \A g \in SegmentOf(RunsOf(s)) :
          /\ g \in [kind : SegmentKind, run : Sends \cup {LocalRun}, status : SegmentStatus]
          /\ g.run \in RunsOf(s)
    BY <2>1 DEF SegmentOf
  <2>5. ctl[s].view.segs \in
          Seq([kind : SegmentKind, run : Sends \cup {LocalRun}, status : SegmentStatus])
    <3> DEFINE G == [kind : SegmentKind, run : Sends \cup {LocalRun}, status : SegmentStatus]
    <3>1. SegmentOf(RunsOf(s)) \subseteq G
      BY <2>4
    <3> HIDE DEF G
    <3>2. ctl[s].view.segs \in Seq(G)
      BY <2>3, <3>1
    <3>3. QED
      BY <3>2 DEF G
  <2>6. ctl[s].view \in View
    BY <2>1, <2>2, <2>5 DEF ViewOf, View
  <2>7. ctl[s] \in Controller
    BY <2>1, <2>6 DEF ControllerOf, Controller
  <2>8. QED
    BY <2>3, <2>4, <2>7
<1>2. ctl \in [Sessions -> Controller]
  BY <1>1 DEF Sound, Owned
<1>3. TypeOK
  BY <1>2 DEF TypeOK, Sound, Typed
<1>4. ASSUME NEW s \in Sessions
      PROVE  /\ ctl[s].view.thread \in {s, NoSession}
             /\ ctl[s].conv \subseteq RunsOf(s)
             /\ {ctl[s].view.run, ctl[s].abort, ctl[s].pending, ctl[s].settled}
                  \subseteq RunsOf(s) \cup {NoRun}
  BY DEF Sound, Owned, ControllerOf, ViewOf
<1>5. \A s \in Sessions : \A r \in RunsOf(s) \cup {NoRun} : r \in Sends => Of(r) = s
  BY Constants DEF RunsOf
<1>6. SessionOwnsRun
  BY <1>1, <1>4, <1>5 DEF SessionOwnsRun
<1>7. QED
  BY <1>3, <1>6


-----------------------------------------------------------------------------
(* Types.                                                                   *)

Logs == UNION {[1 .. k -> Content] : k \in 0 .. MaxEvents}

LEMMA LogFacts ==
  /\ << >> \in Logs
  /\ \A log \in Logs : \A kind \in Content : Len(log) < MaxEvents => Append(log, kind) \in Logs
<1>1. << >> \in [1 .. 0 -> Content] /\ 0 \in 0 .. MaxEvents
  BY MaxEventsAssumption
<1>2. ASSUME NEW log \in Logs, NEW kind \in Content, Len(log) < MaxEvents
      PROVE  Append(log, kind) \in Logs
  <2>1. PICK k \in 0 .. MaxEvents : log \in [1 .. k -> Content]
    BY DEF Logs
  <2>2. log \in Seq(Content) /\ Len(log) = k
    BY <2>1
  <2>3. k + 1 \in 0 .. MaxEvents
    BY <1>2, <2>1, <2>2, MaxEventsAssumption
  <2>4. Append(log, kind) \in [1 .. k + 1 -> Content]
    <3>1. /\ Append(log, kind) \in Seq(Content)
          /\ Len(Append(log, kind)) = k + 1
      BY <2>2
    <3>2. QED
      BY <3>1, LenProperties
  <2>5. Append(log, kind) \in UNION {[1 .. j -> Content] : j \in 0 .. MaxEvents}
    BY <2>3, <2>4
  <2>6. QED
    BY <2>5 DEF Logs
<1>3. QED
  BY <1>1, <1>2 DEF Logs

SendPc == {"unused", "done"} \cup Live

LEMMA SendIs == Send = [pc : SendPc, session : Sessions \cup {NoSession}, log : Logs,
                        aborted : BOOLEAN, cancel : {"no", "sent", "served"},
                        target : Sends \cup {NoRun, LocalRun}]
BY DEF Send, SendPc, Logs

(* A step changes one send, field by field.                                 *)
LEMMA SendUpdates ==
  ASSUME NEW f \in Send
  PROVE  /\ \A pc \in SendPc : [f EXCEPT !.pc = pc] \in Send
         /\ \A pc \in SendPc : \A s \in Sessions :
              [f EXCEPT !.pc = pc, !.session = s] \in Send
         /\ \A log \in Logs : [f EXCEPT !.log = log] \in Send
         /\ [f EXCEPT !.aborted = TRUE] \in Send
         /\ [f EXCEPT !.cancel = "served"] \in Send
         /\ \A r \in Sends \cup {NoRun, LocalRun} :
              [f EXCEPT !.cancel = "sent", !.target = r] \in Send
         /\ [f EXCEPT !.pc = "done", !.log = << >>, !.aborted = FALSE] \in Send
<1>1. "done" \in SendPc /\ << >> \in Logs
  BY LogFacts DEF SendPc
<1>2. QED
  BY <1>1, SendIs

(* A request for a detail, its answer or its failure.                       *)
Fetches == \/ Retry
           \/ \E s \in Sessions : Open(s) \/ ReadDetail(s) \/ DetailReturns(s) \/ DetailFails(s)

DetailStatus == {"idle", "loading", "ready", "error"}

LEMMA DetailUpdates ==
  ASSUME NEW d \in Detail
  PROVE  /\ Asked(d) \in Detail
         /\ \A stale \in BOOLEAN : [d EXCEPT !.status = "idle", !.stale = stale] \in Detail
         /\ \A answer \in [Sends -> Shown] :
              [d EXCEPT !.request = "answered", !.answer = answer] \in Detail
         /\ [d EXCEPT !.status = "ready", !.shown = d.answer, !.request = "none",
                      !.answer = NoRuns] \in Detail
         /\ [d EXCEPT !.status = "error", !.request = "none", !.answer = NoRuns] \in Detail
<1>1. NoRuns \in [Sends -> Shown]
  BY DEF NoRuns, Shown
<1>2. Detail = [status : DetailStatus, shown : [Sends -> Shown],
                request : {"none", "asked", "answered"}, answer : [Sends -> Shown],
                stale : BOOLEAN]
  BY DEF Detail, DetailStatus
<1> HIDE DEF Detail
<1>3. Asked(d) \in Detail
  BY <1>1, <1>2 DEF Asked, DetailStatus
<1>4. QED
  BY <1>1, <1>2, <1>3 DEF DetailStatus

(* They change one detail and nothing else that matters.                    *)
LEMMA FetchFacts ==
  ASSUME Sound, Fetches
  PROVE  /\ UNCHANGED <<ctl, send, run, cut, late, rejected>>
         /\ active' \in Sessions /\ turns' \in 0 .. MaxTurns /\ faults' \in 0 .. MaxFaults
         /\ hist' \in [Sessions -> Detail]
<1> USE DEF Sound, Typed
<1>1. /\ UNCHANGED <<ctl, send, run, cut, late, rejected>>
      /\ active' \in Sessions /\ turns' \in 0 .. MaxTurns /\ faults' \in 0 .. MaxFaults
  <2>1. CASE Retry
    BY <2>1 DEF Retry, GhostsUnchanged
  <2>2. ASSUME NEW s \in Sessions, Open(s)
        PROVE  /\ UNCHANGED <<ctl, send, run, cut, late, rejected, faults>>
               /\ active' \in Sessions /\ turns' \in 0 .. MaxTurns
    BY <2>2, MaxTurnsAssumption DEF Open
  <2>3. ASSUME NEW s \in Sessions, ReadDetail(s) \/ DetailReturns(s)
        PROVE  UNCHANGED <<ctl, active, send, run, faults, turns, cut, late, rejected>>
    BY <2>3 DEF ReadDetail, DetailReturns, GhostsUnchanged
  <2>4. ASSUME NEW s \in Sessions, DetailFails(s)
        PROVE  /\ UNCHANGED <<ctl, active, send, run, turns, cut, late, rejected>>
               /\ faults' \in 0 .. MaxFaults
    BY <2>4, MaxFaultsAssumption DEF DetailFails, Fault, GhostsUnchanged
  <2>5. QED
    BY <2>1, <2>2, <2>3, <2>4 DEF Fetches
<1>2. ASSUME NEW s \in Sessions, NEW d \in Detail, hist' = [hist EXCEPT ![s] = d]
      PROVE  hist' \in [Sessions -> Detail]
  BY <1>2
<1>3. \A s \in Sessions : hist[s] \in Detail
  OBVIOUS
<1>4. CASE Retry
  <2>1. PICK s \in Sessions : s = active
    OBVIOUS
  <2> DEFINE d == Asked(hist[s])
  <2>2. hist' = [hist EXCEPT ![s] = d]
    BY <1>4, <2>1 DEF Retry
  <2>3. d \in Detail
    BY <1>3, DetailUpdates
  <2> HIDE DEF d
  <2>4. QED
    BY <1>1, <1>2, <2>2, <2>3
<1>5. ASSUME NEW s \in Sessions, Open(s) PROVE hist' \in [Sessions -> Detail]
  BY <1>2, <1>3, <1>5, DetailUpdates DEF Open
<1>6. ASSUME NEW s \in Sessions, ReadDetail(s) PROVE hist' \in [Sessions -> Detail]
  <2> DEFINE answer == [n \in Sends |-> IF Of(n) = s THEN Stored(n) ELSE "none"]
  <2>1. \A n \in Sends : Stored(n) \in Shown
    BY DEF Stored, Shown, RunStatus
  <2>2. answer \in [Sends -> Shown]
    BY <2>1 DEF Shown
  <2>3. hist' = [hist EXCEPT ![s] = [hist[s] EXCEPT !.request = "answered", !.answer = answer]]
    BY <1>6 DEF ReadDetail
  <2> HIDE DEF answer
  <2>4. [hist[s] EXCEPT !.request = "answered", !.answer = answer] \in Detail
    BY <1>3, <2>2, DetailUpdates
  <2>5. QED
    BY <1>2, <2>3, <2>4
<1>7. ASSUME NEW s \in Sessions, DetailReturns(s) PROVE hist' \in [Sessions -> Detail]
  <2> DEFINE d == [hist[s] EXCEPT !.status = "ready", !.shown = hist[s].answer,
                                  !.request = "none", !.answer = NoRuns]
  <2>1. d \in Detail
    BY <1>3, DetailUpdates
  <2>2. hist' = [hist EXCEPT ![s] = d]
    BY <1>7 DEF DetailReturns
  <2> HIDE DEF d
  <2>3. QED
    BY <1>2, <2>1, <2>2
<1>8. ASSUME NEW s \in Sessions, DetailFails(s) PROVE hist' \in [Sessions -> Detail]
  BY <1>2, <1>3, <1>8, DetailUpdates DEF DetailFails
<1>9. QED
  BY <1>1, <1>4, <1>5, <1>6, <1>7, <1>8 DEF Fetches

(* Every step leaves the sends, the stored statuses and the details of      *)
(* their types.                                                             *)
LEMMA TypedStep ==
  ASSUME Sound, [Next]_vars
  PROVE  Typed'
<1> USE DEF Sound, Typed
<1>0. /\ \A s \in Sessions : ctl[s].view \in View /\ ctl[s] \in Controller
      /\ Sends \subseteq Nat
      /\ \A n \in Sends : send[n] \in Send
  BY SoundImplies, Constants DEF TypeOK, Controller
<1>00. ASSUME Fault PROVE faults' \in 0 .. MaxFaults
  BY <1>00, MaxFaultsAssumption DEF Fault
<1>1. CASE Fetches
  BY <1>1, FetchFacts
<1>2. ASSUME NEW s \in Sessions, NEW n \in Sends, Dispatch(s, n) PROVE Typed'
  <2>1. "posting" \in SendPc
    BY DEF SendPc, Live
  <2>2. send' = [send EXCEPT ![n] = [@ EXCEPT !.pc = "posting", !.session = s]]
    BY <1>2 DEF Dispatch
  <2>3. [send[n] EXCEPT !.pc = "posting", !.session = s] \in Send
    BY <1>0, <2>1, SendUpdates
  <2>4. send' \in [Sends -> Send]
    BY <2>2, <2>3
  <2>5. QED
    BY <1>2, <2>4 DEF Dispatch, GhostsUnchanged
<1>3. CASE SubmitFormEarly
  BY <1>3 DEF SubmitFormEarly
<1>4. CASE Cancel
  <2> DEFINE m == ctl[active].abort
  <2>1. CASE ctl[active].view.run # NoRun
    <3>1. send' = [send EXCEPT ![m] = [@ EXCEPT !.cancel = "sent",
                                                !.target = ctl[active].view.run]]
      BY <1>4, <2>1 DEF Cancel
    <3>2. m \in Sends /\ ctl[active].view.run \in Sends \cup {NoRun, LocalRun}
      BY <1>0, <1>4 DEF Cancel, CanCancel, Controller, View
    <3>3. send' \in [Sends -> Send]
      BY <1>0, <3>1, <3>2, SendUpdates
    <3>4. QED
      BY <1>4, <3>3 DEF Cancel, GhostsUnchanged
  <2>2. CASE ctl[active].view.run = NoRun
    <3>1. send' = [send EXCEPT ![m] = [@ EXCEPT !.aborted = TRUE]]
      BY <1>4, <2>2 DEF Cancel
    <3>2. m \in Sends
      BY <1>0, <1>4 DEF Cancel, CanCancel, Controller
    <3>3. send' \in [Sends -> Send]
      BY <1>0, <3>1, <3>2, SendUpdates
    <3>4. QED
      BY <1>4, <3>3 DEF Cancel, GhostsUnchanged
  <2>3. QED
    BY <2>1, <2>2
<1>5. ASSUME NEW n \in Sends, Accept(n) PROVE Typed'
  BY <1>5 DEF Accept, GhostsUnchanged, RunStatus
<1>6. ASSUME NEW n \in Sends, ServeCancel(n) PROVE Typed'
  <2>1. send' = [send EXCEPT ![n] = [@ EXCEPT !.cancel = "served"]]
    BY <1>6 DEF ServeCancel
  <2>2. send' \in [Sends -> Send]
    BY <1>0, <2>1, SendUpdates
  <2>3. run' \in [Sends -> RunStatus]
    BY <1>6 DEF ServeCancel, RunStatus, Outcome
  <2>4. QED
    BY <1>6, <2>2, <2>3 DEF ServeCancel, GhostsUnchanged
<1>7. ASSUME NEW n \in Sends, Finish(n) PROVE Typed'
  <2>1. run' \in [Sends -> RunStatus]
    BY <1>7 DEF Finish, RunStatus
  <2>2. QED
    BY <1>7, <2>1 DEF Finish, GhostsUnchanged
<1>8. ASSUME NEW n \in Sends, NEW pc \in Live, send' = [send EXCEPT ![n].pc = pc]
      PROVE  send' \in [Sends -> Send]
  <2>1. send' = [send EXCEPT ![n] = [@ EXCEPT !.pc = pc]]
    BY <1>8
  <2>2. QED
    BY <1>0, <2>1, SendUpdates DEF SendPc
<1>9. ASSUME NEW n \in Sends, Ended(n) PROVE send' \in [Sends -> Send]
  <2>1. send' = [send EXCEPT ![n] = [@ EXCEPT !.pc = "done", !.log = << >>, !.aborted = FALSE]]
    BY <1>9 DEF Ended
  <2>2. QED
    BY <1>0, <2>1, SendUpdates
<1>10. ASSUME NEW n \in Sends, Posted(n) \/ Started(n) \/ ReceiveTerminal(n) PROVE Typed'
  <2>1. \E pc \in Live : send' = [send EXCEPT ![n].pc = pc]
    BY <1>10 DEF Posted, Started, ReceiveTerminal, Live
  <2>2. send' \in [Sends -> Send]
    BY <1>8, <2>1
  <2>3. QED
    BY <1>10, <2>2 DEF Posted, Started, ReceiveTerminal, GhostsUnchanged
<1>11. ASSUME NEW n \in Sends, StreamOpens(n) PROVE Typed'
  <2>1. send' \in [Sends -> Send]
    BY <1>8, <1>11 DEF StreamOpens, Live
  <2>2. QED
    BY <1>11, <2>1 DEF StreamOpens, GhostsUnchanged, RunStatus
<1>12. ASSUME NEW n \in Sends, NEW kind \in Content, Receive(n, kind) PROVE Typed'
  <2>1. send' = [send EXCEPT ![n] = [@ EXCEPT !.log = Append(send[n].log, kind)]]
    BY <1>12 DEF Receive
  <2>2. send[n].log \in Logs
    BY <1>0, SendIs
  <2>3. Append(send[n].log, kind) \in Logs
    BY <1>12, <2>2, LogFacts DEF Receive
  <2>4. [send[n] EXCEPT !.log = Append(send[n].log, kind)] \in Send
    BY <1>0, <2>3, SendUpdates
  <2>5. send' \in [Sends -> Send]
    BY <2>1, <2>4
  <2>6. UNCHANGED <<active, run, hist, faults, turns, cut, late, rejected>>
    BY <1>12 DEF Receive, GhostsUnchanged
  <2>7. QED
    BY <2>5, <2>6
<1>13. ASSUME NEW n \in Sends, PostFails(n) \/ StreamEnds(n) PROVE Typed'
  <2>1. send' \in [Sends -> Send] /\ faults' \in 0 .. MaxFaults
    BY <1>00, <1>9, <1>13 DEF PostFails, StreamEnds
  <2>2. UNCHANGED <<active, run, hist, turns, cut, late, rejected>>
    BY <1>13 DEF PostFails, StreamEnds, GhostsUnchanged
  <2>3. QED
    BY <2>1, <2>2
<1>14. ASSUME NEW n \in Sends, NEW outcome \in Outcome, EndLocally(n, outcome),
              ~At(n, "unused"), faults' \in 0 .. MaxFaults
       PROVE  Typed'
  <2>1. send' \in [Sends -> Send]
    BY <1>9, <1>14 DEF EndLocally
  <2>2. cut' \subseteq Sends \cup {LocalRun}
    <3> DEFINE v == ctl[Of(n)].view
               w == LocalOutcome(v, outcome, NoRun, LocalRun, v.thread)
    <3>1. Of(n) \in Sessions
      BY <1>0, <1>14 DEF Placed, Of, Send
    <3>2. v.run \in Sends \cup {NoRun, LocalRun}
      BY <1>0, <3>1 DEF View
    <3>3. w.run = IF v.run = NoRun THEN LocalRun ELSE v.run
      BY DEF LocalOutcome, ViewOutcome
    <3>4. cut' = cut \cup {n, w.run}
      BY <1>14 DEF EndLocally
    <3> HIDE DEF w, v
    <3>5. QED
      BY <3>2, <3>3, <3>4
  <2>3. late' \in BOOLEAN
    BY <1>14 DEF EndLocally
  <2>4. QED
    BY <1>14, <2>1, <2>2, <2>3 DEF EndLocally
<1>15. ASSUME NEW n \in Sends, Aborted(n) \/ StreamFails(n) \/ StreamRefused(n) PROVE Typed'
  <2>1. /\ ~At(n, "unused")
        /\ faults' \in 0 .. MaxFaults
        /\ EndLocally(n, "cancelled") \/ EndLocally(n, "failed")
    BY <1>00, <1>15 DEF Aborted, StreamFails, StreamRefused, At, Live
  <2>2. QED
    BY <1>14, <2>1 DEF Outcome
<1>16. ASSUME NEW n \in Sends, CancelReturns(n) PROVE Typed'
  <2>1. send' = [send EXCEPT ![n] = [@ EXCEPT !.aborted = TRUE]]
    BY <1>16 DEF CancelReturns
  <2>2. send' \in [Sends -> Send]
    BY <1>0, <2>1, SendUpdates
  <2>3. faults' \in 0 .. MaxFaults
    BY <1>00, <1>16 DEF CancelReturns
  <2>4. QED
    BY <1>16, <2>2, <2>3 DEF CancelReturns, GhostsUnchanged
<1>17. ASSUME NEW s \in Sessions, Settle(s) PROVE Typed'
  <2> DEFINE t == ctl[s].view.thread
  <2>1. t \in Sessions /\ hist' = [hist EXCEPT ![t] = AskedAgain(t)]
    BY <1>0, <1>17 DEF Settle, SettleDue, View
  <2> HIDE DEF t
  <2>2. AskedAgain(t) \in Detail
    <3>1. hist[t] \in Detail /\ (hist[t].stale \/ hist[t].request = "answered") \in BOOLEAN
      BY <2>1 DEF Detail
    <3>2. QED
      BY <3>1, DetailUpdates DEF AskedAgain
  <2>3. hist' \in [Sessions -> Detail]
    BY <2>1, <2>2
  <2>4. QED
    BY <1>17, <2>3 DEF Settle, GhostsUnchanged
<1>19. ASSUME NEW s \in Sessions, Handover(s) \/ Evict(s) PROVE Typed'
  BY <1>19 DEF Handover, Evict, GhostsUnchanged
<1>20. CASE UNCHANGED vars
  BY <1>20 DEF vars
<1>21. ASSUME NEW n \in Sends, SendMessage(n) \/ SubmitForm(n) PROVE Typed'
  BY <1>2, <1>21 DEF SendMessage, SubmitForm
<1>22. QED
  BY <1>1, <1>3, <1>4, <1>5, <1>6, <1>7, <1>10, <1>11, <1>12, <1>13, <1>15, <1>16, <1>17,
     <1>19, <1>20, <1>21 DEF Next, User, Runtime, Answered, Panel, Fetches


-----------------------------------------------------------------------------
(* Owners.                                                                  *)

LEMMA ViewUpdates ==
  ASSUME NEW s \in Sessions, NEW R, R \subseteq Sends \cup {LocalRun}, LocalRun \in R,
         NEW v \in ViewOf(s, R)
  PROVE  /\ IdleView(NoRun, NoSession) \in ViewOf(s, R)
         /\ StartingView(NoRun, s) \in ViewOf(s, R)
         /\ \A n \in R :
              /\ Registered(v, n, s) \in ViewOf(s, R)
              /\ ViewStarted(v, n, s) \in ViewOf(s, R)
              /\ \A kind \in Content : ViewContent(v, kind, n, s) \in ViewOf(s, R)
              /\ \A outcome \in Outcome : ViewOutcome(v, outcome, n, s) \in ViewOf(s, R)
         /\ \A outcome \in Outcome :
              LocalOutcome(v, outcome, NoRun, LocalRun, v.thread) \in ViewOf(s, R)
<1>1. /\ v.segs \in Seq(SegmentOf(R)) /\ v.phase \in Phase /\ v.run \in R \cup {NoRun}
      /\ v.thread \in {s, NoSession}
  BY DEF ViewOf
<1>2. << >> \in Seq(SegmentOf(R))
  OBVIOUS
<1>3. IdleView(NoRun, NoSession) \in ViewOf(s, R) /\ StartingView(NoRun, s) \in ViewOf(s, R)
  BY <1>2 DEF IdleView, StartingView, ViewOf, Phase
<1>4. ASSUME NEW n \in R
      PROVE  Registered(v, n, s) \in ViewOf(s, R) /\ ViewStarted(v, n, s) \in ViewOf(s, R)
  BY DEF Registered, ViewStarted, ViewOf, Phase
<1>5. ASSUME NEW n \in R, NEW kind \in Content PROVE ViewContent(v, kind, n, s) \in ViewOf(s, R)
  <2>1. ApplyContent(v.segs, kind, n) \in Seq(SegmentOf(R))
    BY <1>1, ApplyContentType, ContentAssumption
  <2>2. QED
    BY <1>1, <2>1 DEF ViewContent, ViewOf, Phase
<1>6. ASSUME NEW n \in R, NEW outcome \in Outcome, NEW t \in {s, NoSession}
      PROVE  ViewOutcome(v, outcome, n, t) \in ViewOf(s, R)
  <2> DEFINE w == ViewOutcome(v, outcome, n, t)
  <2>1. /\ w.phase = outcome /\ w.run = n /\ w.thread = t
        /\ w.segs \in Seq(SegmentOf(R))
    BY <1>1, OutcomeFacts
  <2>2. \E segs : w = [phase |-> outcome, run |-> n, thread |-> t, segs |-> segs]
    BY DEF ViewOutcome
  <2>3. outcome \in Phase
    BY DEF Phase, Outcome
  <2> HIDE DEF w
  <2>4. w \in ViewOf(s, R)
    BY <2>1, <2>2, <2>3 DEF ViewOf
  <2>5. QED
    BY <2>4 DEF w
<1>7. ASSUME NEW outcome \in Outcome
      PROVE  LocalOutcome(v, outcome, NoRun, LocalRun, v.thread) \in ViewOf(s, R)
  BY <1>1, <1>6 DEF LocalOutcome
<1>8. QED
  BY <1>1, <1>3, <1>4, <1>5, <1>6, <1>7

LEMMA ControllerUpdates ==
  ASSUME NEW s \in Sessions, NEW R, NEW c \in ControllerOf(s, R)
  PROVE  /\ FreshController \in ControllerOf(s, R)
         /\ \A v \in ViewOf(s, R) : [c EXCEPT !.view = v] \in ControllerOf(s, R)
         /\ \A n : Finished(n, c) \in ControllerOf(s, R)
         /\ [c EXCEPT !.abort = NoRun] \in ControllerOf(s, R)
         /\ \A p, q \in R \cup {NoRun} :
              [c EXCEPT !.settled = p, !.pending = q] \in ControllerOf(s, R)
         /\ \A v \in ViewOf(s, R) :
              [c EXCEPT !.pending = NoRun, !.conv = {}, !.view = v] \in ControllerOf(s, R)
<1>1. << >> \in Seq(SegmentOf(R))
  OBVIOUS
<1>2. FreshController \in ControllerOf(s, R)
  BY <1>1 DEF FreshController, IdleView, ControllerOf, ViewOf, Phase
<1>3. \A n : Finished(n, c) \in ControllerOf(s, R)
  BY DEF Finished, ControllerOf
<1>4. QED
  BY <1>2, <1>3 DEF ControllerOf

(* A step gives a fresh send its session, or leaves all sends with theirs.  *)
LEMMA SendStep ==
  ASSUME Sound, [Next]_vars
  PROVE  \/ \E s \in Sessions : \E n \in Sends : Dispatch(s, n) /\ At(n, "unused")
         \/ \A k \in Sends : Of(k)' = Of(k) /\ (At(k, "unused")' <=> At(k, "unused"))
<1> DEFINE Same == \A k \in Sends : Of(k)' = Of(k) /\ (At(k, "unused")' <=> At(k, "unused"))
<1>0. send \in [Sends -> Send] /\ active \in Sessions
  BY DEF Sound, Typed
<1>1. ASSUME UNCHANGED send PROVE Same
  BY <1>1 DEF Of, At
<1>2. ASSUME NEW n \in Sends, NEW pc \in SendPc \ {"unused"}, ~At(n, "unused"),
             send' = [send EXCEPT ![n].pc = pc] PROVE Same
  BY <1>0, <1>2 DEF Of, At, Send
<1>3. ASSUME NEW n \in Sends, ~At(n, "unused"), Ended(n) PROVE Same
  BY <1>0, <1>3 DEF Of, At, Send, Ended
<1>4. CASE Fetches
  BY <1>1, <1>4, FetchFacts
<1>5. ASSUME NEW n \in Sends, SendMessage(n) \/ SubmitForm(n)
      PROVE  \E s \in Sessions : Dispatch(s, n) /\ At(n, "unused")
  BY <1>0, <1>5 DEF SendMessage, SubmitForm, NextSend
<1>6. CASE SubmitFormEarly
  BY <1>1, <1>6 DEF SubmitFormEarly
<1>7. CASE Cancel
  BY <1>0, <1>7 DEF Cancel, Of, At, Send
<1>8. ASSUME NEW n \in Sends, Runtime(n) PROVE Same
  BY <1>0, <1>1, <1>8 DEF Runtime, Accept, ServeCancel, Finish, Of, At, Send
<1>9. ASSUME NEW n \in Sends, Posted(n) \/ StreamOpens(n) \/ Started(n) \/ ReceiveTerminal(n)
      PROVE  Same
  <2>1. ~At(n, "unused") /\ \E pc \in SendPc \ {"unused"} : send' = [send EXCEPT ![n].pc = pc]
    BY <1>9 DEF Posted, StreamOpens, Started, ReceiveTerminal, SendPc, Live, At
  <2>2. QED
    BY <1>2, <2>1
<1>10. ASSUME NEW n \in Sends, NEW kind \in Content, Receive(n, kind) PROVE Same
  <2>1. send' = [send EXCEPT ![n].log = Append(send[n].log, kind)]
    BY <1>10 DEF Receive
  <2>2. QED
    BY <1>0, <2>1 DEF Of, At, Send
<1>11. ASSUME NEW n \in Sends, StreamEnds(n) \/ PostFails(n) \/ Aborted(n) \/ StreamFails(n)
                               \/ StreamRefused(n)
       PROVE  Same
  <2>1. ~At(n, "unused") /\ Ended(n)
    BY <1>11 DEF StreamEnds, PostFails, Aborted, StreamFails, StreamRefused, EndLocally, At, Live
  <2>2. QED
    BY <1>3, <2>1
<1>12. ASSUME NEW n \in Sends, CancelReturns(n) PROVE Same
  BY <1>0, <1>12 DEF CancelReturns, Of, At, Send
<1>13. ASSUME NEW s \in Sessions, Settle(s) \/ Handover(s) \/ Evict(s) PROVE Same
  BY <1>1, <1>13 DEF Settle, Handover, Evict
<1>14. CASE UNCHANGED vars
  BY <1>1, <1>14 DEF vars
<1>15. QED
  BY <1>4, <1>5, <1>6, <1>7, <1>8, <1>9, <1>10, <1>11, <1>12, <1>13, <1>14
     DEF Next, User, Answered, Panel, Fetches

LEMMA PlacedStep ==
  ASSUME Sound, [Next]_vars
  PROVE  /\ Placed'
         /\ \A s \in Sessions : RunsOf(s) \subseteq RunsOf(s)'
         /\ \A k \in Sends : Of(k) # NoSession => Of(k)' = Of(k)
<1>0. send \in [Sends -> Send] /\ Placed
  BY DEF Sound, Typed
<1>1. CASE \A k \in Sends : Of(k)' = Of(k) /\ (At(k, "unused")' <=> At(k, "unused"))
  BY <1>0, <1>1 DEF Placed, RunsOf
<1>2. ASSUME NEW s \in Sessions, NEW n \in Sends, Dispatch(s, n), At(n, "unused")
      PROVE  /\ Placed'
             /\ \A t \in Sessions : RunsOf(t) \subseteq RunsOf(t)'
             /\ \A k \in Sends : Of(k) # NoSession => Of(k)' = Of(k)
  <2>1. /\ \A k \in Sends : k # n => send'[k] = send[k]
        /\ send'[n].pc = "posting" /\ send'[n].session = s
    BY <1>0, <1>2 DEF Dispatch, Send
  <2>2. Of(n) = NoSession
    BY <1>0, <1>2 DEF Placed
  <2>3. Placed'
    BY <1>0, <2>1, Constants DEF Placed, At, Of
  <2>4. \A k \in Sends : Of(k) # NoSession => Of(k)' = Of(k)
    BY <2>1, <2>2 DEF Of
  <2>5. \A t \in Sessions : RunsOf(t) \subseteq RunsOf(t)'
    BY <2>4, Constants DEF RunsOf
  <2>6. QED
    BY <2>3, <2>4, <2>5
<1>3. QED
  BY <1>1, <1>2, SendStep


(* Every step writes to one controller, and what it writes is its own.      *)
LEMMA OwnedStep ==
  ASSUME Sound, [Next]_vars
  PROVE  Owned'
<1> DEFINE R(s) == RunsOf(s)
<1>0. /\ ctl = [s \in Sessions |-> ctl[s]]
      /\ \A s \in Sessions : ctl[s] \in ControllerOf(s, R(s))
      /\ \A s \in Sessions : /\ ctl[s].view \in ViewOf(s, R(s))
                             /\ ctl[s].view.run \in R(s) \cup {NoRun}
                             /\ ctl[s].settled \in R(s) \cup {NoRun}
                             /\ ctl[s].pending \in R(s) \cup {NoRun}
      /\ active \in Sessions
  BY DEF Sound, Typed, Owned, ControllerOf, ViewOf
<1>1. \A s \in Sessions : ControllerOf(s, R(s)) \subseteq ControllerOf(s, RunsOf(s)')
  BY PlacedStep, OwnersGrow
<1>2. \A s \in Sessions : R(s) \subseteq Sends \cup {LocalRun} /\ LocalRun \in R(s)
  BY Constants DEF RunsOf
<1>3. ASSUME UNCHANGED ctl PROVE Owned'
  BY <1>0, <1>1, <1>3 DEF Owned
<1>4. ASSUME NEW s \in Sessions, NEW c \in ControllerOf(s, RunsOf(s)'),
             ctl' = [ctl EXCEPT ![s] = c]
      PROVE  Owned'
  BY <1>0, <1>1, <1>4 DEF Owned
<1>5. ASSUME NEW s \in Sessions, NEW c \in ControllerOf(s, R(s)), ctl' = [ctl EXCEPT ![s] = c]
      PROVE  Owned'
  BY <1>1, <1>4, <1>5
<1>6. ASSUME NEW n \in Sends, ~At(n, "unused") PROVE Of(n) \in Sessions /\ n \in R(Of(n))
  BY <1>6 DEF Sound, Typed, Placed, Send, Of, RunsOf
<1> HIDE DEF R
<1>7. CASE Fetches
  BY <1>3, <1>7, FetchFacts
<1>8. ASSUME NEW s \in Sessions, NEW n \in Sends, Dispatch(s, n), At(n, "unused") PROVE Owned'
  <2> DEFINE Q == RunsOf(s)'
             c == [ctl[s] EXCEPT !.view = StartingView(NoRun, s), !.conv = @ \cup {n},
                                 !.abort = n]
  <2>1. ctl' = [ctl EXCEPT ![s] = c]
    BY <1>8 DEF Dispatch
  <2>2. send'[n].session = s
    BY <1>8 DEF Dispatch, Sound, Typed, Send
  <2>3. n \in Q /\ ctl[s] \in ControllerOf(s, Q) /\ Q \subseteq Sends \cup {LocalRun}
        /\ LocalRun \in Q
    BY <1>0, <1>1, <2>2, Constants DEF RunsOf, Of
  <2> HIDE DEF Q
  <2>4. ctl[s].view \in ViewOf(s, Q)
    BY <2>3 DEF ControllerOf
  <2>5. StartingView(NoRun, s) \in ViewOf(s, Q)
    BY <2>3, <2>4, ViewUpdates
  <2>6. c \in ControllerOf(s, Q)
    BY <2>3, <2>5 DEF ControllerOf
  <2> HIDE DEF c
  <2>7. QED
    BY <1>4, <2>1, <2>6 DEF Q
<1>9. CASE SubmitFormEarly
  BY <1>0, <1>5, <1>9, ControllerUpdates DEF SubmitFormEarly
<1>10. ASSUME NEW n \in Sends, ~At(n, "unused"), NEW v \in ViewOf(Of(n), R(Of(n))), SetView(n, v)
       PROVE  Owned'
  <2>1. ctl' = [ctl EXCEPT ![Of(n)] = [ctl[Of(n)] EXCEPT !.view = v]]
    BY <1>10 DEF SetView
  <2>2. QED
    BY <1>0, <1>5, <1>6, <1>10, <2>1, ControllerUpdates
<1>11. ASSUME NEW n \in Sends, Posted(n) PROVE Owned'
  <2>1. ~At(n, "unused") /\ SetView(n, Registered(ctl[Of(n)].view, n, Of(n)))
    BY <1>11 DEF Posted, At
  <2>2. QED
    BY <1>0, <1>2, <1>6, <1>10, <2>1, ViewUpdates
<1>12. ASSUME NEW n \in Sends, Started(n) PROVE Owned'
  <2>1. ~At(n, "unused") /\ SetView(n, ViewStarted(ctl[Of(n)].view, n, Of(n)))
    BY <1>12 DEF Started, At
  <2>2. QED
    BY <1>0, <1>2, <1>6, <1>10, <2>1, ViewUpdates
<1>13. ASSUME NEW n \in Sends, NEW kind \in Content, Receive(n, kind) PROVE Owned'
  <2>1. ~At(n, "unused") /\ SetView(n, ViewContent(ctl[Of(n)].view, kind, n, Of(n)))
    BY <1>13 DEF Receive, At
  <2>2. QED
    BY <1>0, <1>2, <1>6, <1>10, <2>1, ViewUpdates
<1>14. ASSUME NEW n \in Sends, ReceiveTerminal(n) PROVE Owned'
  <2>1. /\ ~At(n, "unused") /\ run[n] \in Outcome
        /\ SetView(n, ViewOutcome(ctl[Of(n)].view, run[n], n, Of(n)))
    BY <1>14 DEF ReceiveTerminal, At, Final
  <2>2. QED
    BY <1>0, <1>2, <1>6, <1>10, <2>1, ViewUpdates
<1>15. ASSUME NEW n \in Sends, StreamEnds(n) PROVE Owned'
  <2>1. ~At(n, "unused") /\ ctl' = [ctl EXCEPT ![Of(n)] = Finished(n, ctl[Of(n)])]
    BY <1>15 DEF StreamEnds, At
  <2>2. QED
    BY <1>0, <1>5, <1>6, <2>1, ControllerUpdates
<1>16. ASSUME NEW n \in Sends, ~At(n, "unused"), NEW v \in ViewOf(Of(n), R(Of(n))),
              ctl' = [ctl EXCEPT ![Of(n)] = Finished(n, [ctl[Of(n)] EXCEPT !.view = v])]
       PROVE  Owned'
  <2>1. [ctl[Of(n)] EXCEPT !.view = v] \in ControllerOf(Of(n), R(Of(n)))
    BY <1>0, <1>6, <1>16, ControllerUpdates
  <2>2. Finished(n, [ctl[Of(n)] EXCEPT !.view = v]) \in ControllerOf(Of(n), R(Of(n)))
    BY <1>6, <1>16, <2>1, ControllerUpdates
  <2>3. QED
    BY <1>5, <1>6, <1>16, <2>2
<1>17. ASSUME NEW n \in Sends, PostFails(n) PROVE Owned'
  <2>1. ~At(n, "unused")
    BY <1>17 DEF PostFails, At
  <2>2. ctl' = [ctl EXCEPT ![Of(n)] =
                  Finished(n, [ctl[Of(n)] EXCEPT !.view = IdleView(NoRun, NoSession)])]
    BY <1>17 DEF PostFails
  <2>3. QED
    BY <1>0, <1>2, <1>6, <1>16, <2>1, <2>2, ViewUpdates
<1>18. ASSUME NEW n \in Sends, NEW outcome \in Outcome, ~At(n, "unused"), EndLocally(n, outcome)
       PROVE  Owned'
  <2> DEFINE v == LocalOutcome(ctl[Of(n)].view, outcome, NoRun, LocalRun, ctl[Of(n)].view.thread)
  <2>1. v \in ViewOf(Of(n), R(Of(n)))
    BY <1>0, <1>2, <1>6, <1>18, ViewUpdates
  <2>2. ctl' = [ctl EXCEPT ![Of(n)] = Finished(n, [ctl[Of(n)] EXCEPT !.view = v])]
    BY <1>18 DEF EndLocally
  <2> HIDE DEF v
  <2>3. QED
    BY <1>16, <1>18, <2>1, <2>2
<1>19. ASSUME NEW n \in Sends, Aborted(n) \/ StreamFails(n) \/ StreamRefused(n) PROVE Owned'
  <2>1. ~At(n, "unused") /\ (EndLocally(n, "cancelled") \/ EndLocally(n, "failed"))
    BY <1>19 DEF Aborted, StreamFails, StreamRefused, At, Live
  <2>2. QED
    BY <1>18, <2>1 DEF Outcome
<1>20. ASSUME NEW s \in Sessions, Settle(s) PROVE Owned'
  <2> DEFINE q == IF ctl[s].view.thread = s THEN ctl[s].view.run ELSE ctl[s].pending
  <2>1. ctl' = [ctl EXCEPT ![s] = [ctl[s] EXCEPT !.settled = ctl[s].view.run, !.pending = q]]
    BY <1>20 DEF Settle
  <2>2. q \in R(s) \cup {NoRun} /\ ctl[s].view.run \in R(s) \cup {NoRun}
    BY <1>0
  <2> HIDE DEF q
  <2>3. QED
    BY <1>0, <1>5, <2>1, <2>2, ControllerUpdates
<1>21. ASSUME NEW s \in Sessions, Handover(s) PROVE Owned'
  <2> DEFINE v == IF ctl[s].view.run = ctl[s].pending THEN IdleView(NoRun, NoSession)
                  ELSE ctl[s].view
  <2>1. ctl' = [ctl EXCEPT ![s] = [ctl[s] EXCEPT !.pending = NoRun, !.conv = {}, !.view = v]]
    BY <1>21 DEF Handover
  <2>2. v \in ViewOf(s, R(s))
    BY <1>0, <1>2, ViewUpdates
  <2> HIDE DEF v
  <2>3. QED
    BY <1>0, <1>5, <2>1, <2>2, ControllerUpdates
<1>22. ASSUME NEW s \in Sessions, Evict(s) PROVE Owned'
  BY <1>0, <1>5, <1>22, ControllerUpdates DEF Evict
<1>23. CASE \/ \E n \in Sends : Runtime(n) \/ StreamOpens(n) \/ CancelReturns(n)
            \/ Cancel
            \/ UNCHANGED vars
  BY <1>3, <1>23 DEF Runtime, Accept, ServeCancel, Finish, StreamOpens, CancelReturns, Cancel, vars
<1>24. ASSUME NEW n \in Sends, SendMessage(n) \/ SubmitForm(n) PROVE Owned'
  BY <1>0, <1>8, <1>24 DEF SendMessage, SubmitForm, NextSend
<1>25. QED
  BY <1>7, <1>9, <1>11, <1>12, <1>13, <1>14, <1>15, <1>17, <1>19, <1>20, <1>21, <1>22, <1>23,
     <1>24 DEF Next, User, Answered, Panel, Fetches


-----------------------------------------------------------------------------
(* The shapes of the steps.                                                 *)

(* Send n goes on to pc and writes view v; its end takes its abort          *)
(* controller with it.                                                      *)
Moves(n, pc, v) ==
  /\ \A k \in Sends \ {n} : send'[k] = send[k]
  /\ send'[n].pc = pc /\ send'[n].session = Of(n) /\ send'[n].target = send[n].target
  /\ \A s \in Sessions \ {Of(n)} : ctl'[s] = ctl[s]
  /\ ctl'[Of(n)].view = v
  /\ ctl'[Of(n)].conv = ctl[Of(n)].conv
  /\ ctl'[Of(n)].pending = ctl[Of(n)].pending
  /\ ctl'[Of(n)].settled = ctl[Of(n)].settled
  /\ ctl'[Of(n)].abort = IF pc = "done" /\ ctl[Of(n)].abort = n THEN NoRun
                         ELSE ctl[Of(n)].abort
  /\ UNCHANGED <<run, hist, rejected>>

(* The controllers stay as they are, and the sends where they are; the      *)
(* stored statuses may advance.                                             *)
Quiet ==
  /\ UNCHANGED <<ctl, cut, late, rejected>>
  /\ \A k \in Sends : /\ send'[k].session = Of(k)
                      /\ \/ send'[k].pc = send[k].pc
                         \/ send[k].pc = "opening" /\ send'[k].pc = "opened"
                      /\ \/ send'[k].target = send[k].target
                         \/ \E s \in Sessions : /\ CanCancel(s) /\ ctl[s].abort = k
                                                /\ send'[k].target = ctl[s].view.run
  /\ \A k \in Sends : /\ run[k] # "none" => run'[k] # "none"
                      /\ Final(run[k]) => run'[k] = run[k]

LEMMA SoundFacts ==
  ASSUME Sound
  PROVE  /\ ctl = [s \in Sessions |-> ctl[s]]
         /\ \A s \in Sessions :
              /\ ctl[s] \in ControllerOf(s, RunsOf(s))
              /\ ctl[s] = [view |-> ctl[s].view, conv |-> ctl[s].conv, abort |-> ctl[s].abort,
                           pending |-> ctl[s].pending, settled |-> ctl[s].settled]
              /\ ctl[s].abort \in Sends \cup {NoRun}
              /\ ctl[s].abort \in Sends => Of(ctl[s].abort) = s
              /\ ctl[s].abort # NoRun => send[ctl[s].abort].pc \in Live
         /\ active \in Sessions
         /\ send \in [Sends -> Send]
         /\ run \in [Sends -> RunStatus]
         /\ \A n \in Sends : /\ ~At(n, "unused") => Of(n) \in Sessions
                             /\ Of(n) \in Sessions => ~At(n, "unused")
<1>1. \A s \in Sessions : /\ ctl[s] \in ControllerOf(s, RunsOf(s))
                          /\ ctl[s].abort \in (RunsOf(s) \cap Sends) \cup {NoRun}
  BY DEF Sound, Owned, ControllerOf
<1>2. \A s \in Sessions :
        ctl[s] = [view |-> ctl[s].view, conv |-> ctl[s].conv, abort |-> ctl[s].abort,
                  pending |-> ctl[s].pending, settled |-> ctl[s].settled]
  BY <1>1 DEF ControllerOf
<1>3. QED
  BY <1>1, <1>2, Constants DEF Sound, Owned, RunsOf, AbortIsLive, Typed, Placed, Send, Of

LEMMA WriteFacts ==
  ASSUME Sound, NEW n \in Sends, ~At(n, "unused"), NEW v, SetView(n, v),
         NEW pc \in Live, UNCHANGED <<run, hist, rejected>>,
         \/ send' = [send EXCEPT ![n].pc = pc]
         \/ pc = send[n].pc /\ \E log : send' = [send EXCEPT ![n].log = log]
  PROVE  Moves(n, pc, v)
<1>1. Of(n) \in Sessions
  BY SoundFacts
<1>2. /\ \A k \in Sends \ {n} : send'[k] = send[k]
      /\ send'[n].pc = pc /\ send'[n].session = Of(n) /\ send'[n].target = send[n].target
  BY SoundFacts DEF Send, Of
<1>3. /\ \A s \in Sessions \ {Of(n)} : ctl'[s] = ctl[s]
      /\ ctl'[Of(n)] = [ctl[Of(n)] EXCEPT !.view = v]
  BY <1>1, SoundFacts DEF SetView
<1>4. /\ ctl'[Of(n)].view = v
      /\ ctl'[Of(n)].conv = ctl[Of(n)].conv
      /\ ctl'[Of(n)].pending = ctl[Of(n)].pending
      /\ ctl'[Of(n)].settled = ctl[Of(n)].settled
      /\ ctl'[Of(n)].abort = ctl[Of(n)].abort
  BY <1>1, <1>3, SoundFacts
<1>5. pc # "done"
  BY DEF Live
<1>6. QED
  BY <1>2, <1>3, <1>4, <1>5 DEF Moves

LEMMA EndFacts ==
  ASSUME Sound, NEW n \in Sends, ~At(n, "unused"), NEW v, Ended(n),
         ctl' = [ctl EXCEPT ![Of(n)] = Finished(n, [ctl[Of(n)] EXCEPT !.view = v])],
         UNCHANGED <<run, hist, rejected>>
  PROVE  Moves(n, "done", v)
<1>1. Of(n) \in Sessions
  BY SoundFacts
<1>2. /\ \A k \in Sends \ {n} : send'[k] = send[k]
      /\ send'[n].pc = "done" /\ send'[n].session = Of(n) /\ send'[n].target = send[n].target
  BY SoundFacts DEF Send, Of, Ended
<1>3. /\ \A s \in Sessions \ {Of(n)} : ctl'[s] = ctl[s]
      /\ ctl'[Of(n)] = Finished(n, [ctl[Of(n)] EXCEPT !.view = v])
  BY <1>1, SoundFacts
<1>4. /\ ctl'[Of(n)].view = v
      /\ ctl'[Of(n)].conv = ctl[Of(n)].conv
      /\ ctl'[Of(n)].pending = ctl[Of(n)].pending
      /\ ctl'[Of(n)].settled = ctl[Of(n)].settled
      /\ ctl'[Of(n)].abort = IF ctl[Of(n)].abort = n THEN NoRun ELSE ctl[Of(n)].abort
  BY <1>1, <1>3, SoundFacts DEF Finished
<1>5. QED
  BY <1>2, <1>3, <1>4 DEF Moves

(* Where the step of a send leaves it, and what it writes.                  *)
LEMMA SendMoves ==
  ASSUME Sound, NEW n \in Sends
  PROVE  LET v == ctl[Of(n)].view
         IN  /\ Posted(n) => /\ At(n, "posting") /\ run[n] # "none"
                             /\ Moves(n, "opening", Registered(v, n, Of(n)))
                             /\ UNCHANGED <<cut, late>>
             /\ Started(n) => /\ At(n, "opened")
                              /\ Moves(n, "streaming", ViewStarted(v, n, Of(n)))
                              /\ UNCHANGED <<cut, late>>
             /\ \A kind \in Content : Receive(n, kind) =>
                  /\ At(n, "streaming")
                  /\ Moves(n, "streaming", ViewContent(v, kind, n, Of(n)))
                  /\ UNCHANGED <<cut, late>>
             /\ ReceiveTerminal(n) => /\ At(n, "streaming") /\ Final(run[n])
                                      /\ Moves(n, "tail", ViewOutcome(v, run[n], n, Of(n)))
                                      /\ UNCHANGED <<cut, late>>
             /\ StreamEnds(n) => /\ At(n, "tail")
                                 /\ Moves(n, "done", v)
                                 /\ UNCHANGED <<cut, late>>
             /\ PostFails(n) => /\ At(n, "posting")
                                /\ Moves(n, "done", IdleView(NoRun, NoSession))
                                /\ UNCHANGED <<cut, late>>
             /\ Aborted(n) \/ StreamFails(n) \/ StreamRefused(n) =>
                  /\ send[n].pc \in Live
                  /\ \E outcome \in {"failed", "cancelled"} :
                       LET w == LocalOutcome(v, outcome, NoRun, LocalRun, v.thread)
                       IN  /\ Moves(n, "done", w)
                           /\ cut' = cut \cup {n, w.run}
                           /\ late' = (late \/ At(n, "tail"))
<1> DEFINE v == ctl[Of(n)].view
<1>1. ASSUME Posted(n)
      PROVE  /\ At(n, "posting") /\ run[n] # "none" /\ UNCHANGED <<cut, late>>
             /\ Moves(n, "opening", Registered(v, n, Of(n)))
  BY <1>1, WriteFacts DEF Posted, GhostsUnchanged, At, Live
<1>2. ASSUME Started(n)
      PROVE  /\ At(n, "opened") /\ UNCHANGED <<cut, late>>
             /\ Moves(n, "streaming", ViewStarted(v, n, Of(n)))
  BY <1>2, WriteFacts DEF Started, GhostsUnchanged, At, Live
<1>3. ASSUME NEW kind \in Content, Receive(n, kind)
      PROVE  /\ At(n, "streaming") /\ UNCHANGED <<cut, late>>
             /\ Moves(n, "streaming", ViewContent(v, kind, n, Of(n)))
  BY <1>3, WriteFacts DEF Receive, GhostsUnchanged, At, Live
<1>4. ASSUME ReceiveTerminal(n)
      PROVE  /\ At(n, "streaming") /\ Final(run[n]) /\ UNCHANGED <<cut, late>>
             /\ Moves(n, "tail", ViewOutcome(v, run[n], n, Of(n)))
  BY <1>4, WriteFacts DEF ReceiveTerminal, GhostsUnchanged, At, Live
<1>5. ASSUME StreamEnds(n)
      PROVE  At(n, "tail") /\ UNCHANGED <<cut, late>> /\ Moves(n, "done", v)
  <2>1. ~At(n, "unused") /\ Ended(n) /\ UNCHANGED <<run, hist, rejected>>
    BY <1>5 DEF StreamEnds, GhostsUnchanged, At
  <2>2. Of(n) \in Sessions
    BY <2>1, SoundFacts
  <2>3. [ctl[Of(n)] EXCEPT !.view = v] = ctl[Of(n)]
    BY <2>2, SoundFacts
  <2>4. ctl' = [ctl EXCEPT ![Of(n)] = Finished(n, [ctl[Of(n)] EXCEPT !.view = v])]
    BY <1>5, <2>3 DEF StreamEnds
  <2>5. QED
    BY <1>5, <2>1, <2>4, EndFacts DEF StreamEnds, GhostsUnchanged
<1>6. ASSUME PostFails(n)
      PROVE  /\ At(n, "posting") /\ UNCHANGED <<cut, late>>
             /\ Moves(n, "done", IdleView(NoRun, NoSession))
  BY <1>6, EndFacts DEF PostFails, GhostsUnchanged, At
<1>7. ASSUME NEW outcome \in {"failed", "cancelled"}, send[n].pc \in Live,
             EndLocally(n, outcome)
      PROVE  LET w == LocalOutcome(v, outcome, NoRun, LocalRun, v.thread)
             IN  /\ Moves(n, "done", w)
                 /\ cut' = cut \cup {n, w.run}
                 /\ late' = (late \/ At(n, "tail"))
  <2>1. ~At(n, "unused")
    BY <1>7 DEF At, Live
  <2>2. QED
    BY <1>7, <2>1, EndFacts DEF EndLocally
<1>8. ASSUME Aborted(n) \/ StreamFails(n) \/ StreamRefused(n)
      PROVE  /\ send[n].pc \in Live
             /\ \E outcome \in {"failed", "cancelled"} : EndLocally(n, outcome)
  BY <1>8 DEF Aborted, StreamFails, StreamRefused, At, Live
<1>9. QED
  BY <1>1, <1>2, <1>3, <1>4, <1>5, <1>6, <1>7, <1>8


LEMMA QuietSteps ==
  ASSUME Sound,
         \/ Fetches
         \/ \E n \in Sends : Runtime(n) \/ StreamOpens(n) \/ CancelReturns(n)
         \/ Cancel
         \/ UNCHANGED vars
  PROVE  Quiet
<1> DEFINE Stay == /\ UNCHANGED <<ctl, cut, late, rejected>>
                   /\ \A k \in Sends : /\ send'[k].session = Of(k)
                                       /\ send'[k].pc = send[k].pc
                                       /\ send'[k].target = send[k].target
<1>0. send \in [Sends -> Send] /\ run \in [Sends -> RunStatus] /\ active \in Sessions
  BY SoundFacts
<1>1. ASSUME UNCHANGED <<ctl, send, run, cut, late, rejected>> PROVE Quiet
  BY <1>1 DEF Quiet, Of
<1>2. CASE Fetches \/ UNCHANGED vars
  BY <1>1, <1>2, FetchFacts DEF vars
<1>3. ASSUME NEW n \in Sends, Accept(n) PROVE Quiet
  BY <1>0, <1>3 DEF Accept, GhostsUnchanged, Quiet, Of, Final, Outcome
<1>4. ASSUME NEW n \in Sends, ServeCancel(n) PROVE Quiet
  <2>1. Stay
    BY <1>0, <1>4 DEF ServeCancel, GhostsUnchanged, Send, Of
  <2>2. \A k \in Sends : /\ run[k] # "none" => run'[k] # "none"
                         /\ Final(run[k]) => run'[k] = run[k]
    BY <1>0, <1>4 DEF ServeCancel, Final, Outcome
  <2>3. QED
    BY <2>1, <2>2 DEF Quiet
<1>5. ASSUME NEW n \in Sends, Finish(n) PROVE Quiet
  BY <1>0, <1>5 DEF Finish, GhostsUnchanged, Quiet, Of, Final, Outcome
<1>6. ASSUME NEW n \in Sends, StreamOpens(n) PROVE Quiet
  <2>1. /\ UNCHANGED <<ctl, cut, late, rejected>>
        /\ \A k \in Sends : /\ run[k] # "none" => run'[k] # "none"
                            /\ Final(run[k]) => run'[k] = run[k]
    BY <1>0, <1>6 DEF StreamOpens, GhostsUnchanged, Final, Outcome
  <2>2. \A k \in Sends : /\ send'[k].session = Of(k)
                         /\ \/ send'[k].pc = send[k].pc
                            \/ send[k].pc = "opening" /\ send'[k].pc = "opened"
                         /\ send'[k].target = send[k].target
    BY <1>0, <1>6 DEF StreamOpens, At, Of, Send
  <2>3. QED
    BY <2>1, <2>2 DEF Quiet
<1>7. ASSUME NEW n \in Sends, CancelReturns(n) PROVE Quiet
  <2>1. Stay /\ UNCHANGED run
    BY <1>0, <1>7 DEF CancelReturns, GhostsUnchanged, Send, Of
  <2>2. QED
    BY <2>1 DEF Quiet
<1>8. CASE Cancel
  <2> DEFINE m == ctl[active].abort
  <2>1. CanCancel(active) /\ m \in Sends /\ UNCHANGED <<ctl, run, cut, late, rejected>>
    BY <1>8, SoundFacts DEF Cancel, CanCancel, GhostsUnchanged
  <2>2. \A k \in Sends \ {m} : send'[k] = send[k]
    BY <1>0, <1>8 DEF Cancel
  <2>3. /\ send'[m].session = Of(m) /\ send'[m].pc = send[m].pc
        /\ send'[m].target \in {send[m].target, ctl[active].view.run}
    BY <1>0, <1>8, <2>1 DEF Cancel, Send, Of
  <2>4. QED
    BY <1>0, <2>1, <2>2, <2>3 DEF Quiet, Of
<1>9. QED
  BY <1>2, <1>3, <1>4, <1>5, <1>6, <1>7, <1>8 DEF Runtime

(* The abort controller goes with its send.                                 *)
LEMMA AbortStep ==
  ASSUME Sound, [Next]_vars
  PROVE  AbortIsLive'
<1> USE SoundFacts
<1>1. CASE Quiet
  BY <1>1 DEF Quiet, AbortIsLive, Live, Of
<1>2. ASSUME NEW n \in Sends, NEW pc \in Live \cup {"done"}, NEW v, Moves(n, pc, v),
             ~At(n, "unused")
      PROVE  AbortIsLive'
  <2>1. ASSUME NEW s \in Sessions \ {Of(n)}, ctl'[s].abort # NoRun
        PROVE  send'[ctl'[s].abort].pc \in Live
    BY <1>2, <2>1 DEF Moves
  <2>2. ASSUME ctl'[Of(n)].abort # NoRun
        PROVE  send'[ctl'[Of(n)].abort].pc \in Live
    BY <1>2, <2>2 DEF Moves
  <2>3. QED
    BY <2>1, <2>2 DEF AbortIsLive
<1>3. ASSUME NEW s \in Sessions, NEW n \in Sends, Dispatch(s, n), At(n, "unused")
      PROVE  AbortIsLive'
  <2>1. /\ \A k \in Sends \ {n} : send'[k] = send[k]
        /\ send'[n].pc = "posting"
    BY <1>3 DEF Dispatch, Send
  <2>2. /\ \A t \in Sessions \ {s} : ctl'[t] = ctl[t]
        /\ ctl'[s].abort = n
    BY <1>3 DEF Dispatch
  <2>3. QED
    BY <1>3, <2>1, <2>2 DEF AbortIsLive, Live, At
<1>4. ASSUME UNCHANGED send, \A s \in Sessions : ctl'[s].abort \in {ctl[s].abort, NoRun}
      PROVE  AbortIsLive'
  BY <1>4 DEF AbortIsLive
<1>5. CASE SubmitFormEarly
  BY <1>4, <1>5 DEF SubmitFormEarly
<1>6. ASSUME NEW s \in Sessions, Settle(s) \/ Handover(s) \/ Evict(s) PROVE AbortIsLive'
  <2>1. UNCHANGED send
    BY <1>6 DEF Settle, Handover, Evict
  <2>2. \A t \in Sessions : ctl'[t].abort \in {ctl[t].abort, NoRun}
    BY <1>6 DEF Settle, Handover, Evict, FreshController
  <2>3. QED
    BY <1>4, <2>1, <2>2
<1>7. ASSUME NEW n \in Sends, \/ Answered(n) /\ ~StreamOpens(n) /\ ~CancelReturns(n)
                              \/ PostFails(n) \/ StreamFails(n)
                              \/ \E kind \in Content : Receive(n, kind)
      PROVE  AbortIsLive'
  <2>1. ~At(n, "unused") /\ \E pc \in Live \cup {"done"} : \E v : Moves(n, pc, v)
    BY <1>7, SendMoves DEF Answered, At, Live
  <2>2. QED
    BY <1>2, <2>1
<1>8. ASSUME NEW n \in Sends, SendMessage(n) \/ SubmitForm(n) PROVE AbortIsLive'
  BY <1>3, <1>8 DEF SendMessage, SubmitForm, NextSend
<1>9. QED
  BY <1>1, <1>5, <1>6, <1>7, <1>8, QuietSteps DEF Next, User, Answered, Panel, Runtime, Fetches

(* Types and owners, whatever fails and however late.                       *)
LEMMA SoundInit == Init => Sound
<1> SUFFICES ASSUME Init PROVE Sound
  OBVIOUS
<1>1. Unused \in Send /\ Idle \in Detail /\ Asked(Idle) \in Detail
  <2>1. Unused \in Send
    BY LogFacts, SendIs DEF Unused, SendPc
  <2>2. Idle \in Detail
    BY DEF Idle, NoRuns, Detail, Shown
  <2>3. QED
    BY <2>1, <2>2, DetailUpdates
<1>2. Typed
  <2>1. send \in [Sends -> Send] /\ run \in [Sends -> RunStatus] /\ hist \in [Sessions -> Detail]
    BY <1>1 DEF Init, RunStatus
  <2>2. faults \in 0 .. MaxFaults /\ turns \in 0 .. MaxTurns
    BY MaxFaultsAssumption, MaxTurnsAssumption DEF Init
  <2>3. cut = {} /\ late = FALSE /\ rejected = {} /\ active \in Sessions
    BY DEF Init
  <2>4. QED
    BY <2>1, <2>2, <2>3 DEF Typed
<1>3. Placed
  BY DEF Init, Placed, At, Of, Unused
<1>4. Owned
  <2>1. << >> \in Seq(SegmentOf({}))
    OBVIOUS
  <2>2. \A s \in Sessions : FreshController \in ControllerOf(s, {})
    BY <2>1 DEF FreshController, IdleView, ControllerOf, ViewOf, Phase
  <2>3. \A s \in Sessions : FreshController \in ControllerOf(s, RunsOf(s))
    BY <2>2, OwnersGrow
  <2>4. QED
    BY <2>3 DEF Init, Owned
<1>5. AbortIsLive
  BY DEF Init, AbortIsLive, FreshController
<1>6. QED
  BY <1>2, <1>3, <1>4, <1>5 DEF Sound

LEMMA SoundStep ==
  ASSUME Sound, [Next]_vars
  PROVE  Sound'
BY TypedStep, PlacedStep, OwnedStep, AbortStep DEF Sound

-----------------------------------------------------------------------------
(* While no failure has come late.                                          *)

LEMMA Owners ==
  ASSUME Sound
  PROVE  \A s \in Sessions :
           /\ ctl[s].view.run \in Sends \cup {NoRun, LocalRun}
           /\ ctl[s].settled \in Sends \cup {NoRun, LocalRun}
           /\ ctl[s].view.run \in Sends => Of(ctl[s].view.run) = s
           /\ ctl[s].settled \in Sends => Of(ctl[s].settled) = s
           /\ ctl[s].view.segs \in Seq(SegmentOf(RunsOf(s)))
           /\ ctl[s].view.phase \in Phase
BY Constants DEF Sound, Owned, ControllerOf, ViewOf, RunsOf

LEMMA BusyFacts ==
  ASSUME Sound, Tracked
  PROVE  /\ \A n \in Sends : Busy(n) => Of(n) \in Sessions /\ Sending(ctl[Of(n)].view)
         /\ \A s \in Sessions : Sending(ctl[s].view) =>
              \E n \in Sends : /\ Busy(n) /\ Of(n) = s
                               /\ ctl[s].view.run \in {NoRun, n}
                               /\ ctl[s].abort \in {NoRun, n}
         /\ \A s \in Sessions : ctl[s].settled \in Sends => ~Busy(ctl[s].settled)
<1>1. \A n \in Sends : Busy(n) => Of(n) \in Sessions
  BY SoundFacts DEF Busy, At
<1>2. QED
  BY <1>1 DEF Tracked, Followed, OneBusy, Settled, Sending

(* A step that leaves the controllers alone.                                *)
LEMMA QuietKeeps ==
  ASSUME Sound, Tracked, Quiet
  PROVE  /\ Followed' /\ OneBusy' /\ Shows' /\ Aimed'
         /\ (\A s \in Sessions : Fresh(s)') => Settled'
         /\ UNCHANGED hist => Settled'
<1>1. \A k \in Sends : /\ Busy(k)' <=> Busy(k)
                       /\ Of(k)' = Of(k)
                       /\ At(k, "streaming")' <=> At(k, "streaming")
                       /\ At(k, "posting")' <=> At(k, "posting")
                       /\ At(k, "done")' <=> At(k, "done")
  BY DEF Quiet, Busy, At, Of
<1>2. UNCHANGED <<ctl, cut, late, rejected>>
  BY DEF Quiet
<1>3. \A k \in Sends : /\ run[k] # "none" => run'[k] # "none"
                       /\ Final(run[k]) => run'[k] = run[k]
  BY DEF Quiet
<1>4. Followed'
  BY <1>1, <1>2 DEF Tracked, Followed
<1>5. OneBusy'
  BY <1>1, <1>2 DEF Tracked, OneBusy
<1>6. Shows'
  BY <1>2, <1>3 DEF Tracked, Shows, Final
<1>7. Aimed'
  <2>1. ASSUME NEW k \in Sends PROVE send'[k].target \in {NoRun, k}
    <3>1. CASE send'[k].target = send[k].target
      BY <3>1 DEF Tracked, Aimed
    <3>2. ASSUME NEW s \in Sessions, CanCancel(s), ctl[s].abort = k,
                 send'[k].target = ctl[s].view.run
          PROVE  send'[k].target \in {NoRun, k}
      BY <3>2, BusyFacts DEF CanCancel
    <3>3. QED
      BY <3>1, <3>2 DEF Quiet
  <2>2. QED
    BY <1>1, <1>2, <2>1 DEF Tracked, Aimed
<1>8. ASSUME \A s \in Sessions : Fresh(s)' PROVE Settled'
  BY <1>1, <1>2, <1>3, <1>8 DEF Tracked, Settled, Final, Busy
<1>9. ASSUME UNCHANGED hist, NEW s \in Sessions PROVE Fresh(s)'
  BY <1>2, <1>3, <1>9 DEF Tracked, Settled, Fresh, Tells, Ready, Final
<1>10. QED
  BY <1>4, <1>5, <1>6, <1>7, <1>8, <1>9

(* The history of one session changes: what it says of the settled run is   *)
(* read after that run had ended, or is known to be older.                  *)
LEMMA FetchKeeps ==
  ASSUME Sound, Tracked, Fetches
  PROVE  Tracked'
<1>0. Quiet /\ UNCHANGED <<ctl, send, run, cut>>
  BY QuietSteps, FetchFacts
<1>1. hist \in [Sessions -> Detail]
  BY DEF Sound, Typed
<1>2. ASSUME NEW s \in Sessions, hist'[s] = hist[s] PROVE Fresh(s)'
  BY <1>0, <1>2 DEF Tracked, Settled, Fresh, Tells, Ready
<1>3. ASSUME NEW s \in Sessions, hist' = [hist EXCEPT ![s] = Asked(hist[s])], NEW t \in Sessions
      PROVE  Fresh(t)'
  <2>1. CASE t # s
    BY <1>1, <1>2, <1>3, <2>1
  <2>2. CASE t = s
    <3>1. hist'[s].status = "loading" /\ hist'[s].request = "asked"
      BY <1>1, <1>3 DEF Asked, Detail
    <3>2. QED
      BY <2>2, <3>1 DEF Fresh, Ready
  <2>3. QED
    BY <2>1, <2>2
<1>4. CASE Retry
  <2>1. active \in Sessions
    BY SoundFacts
  <2>2. QED
    BY <1>0, <1>3, <1>4, <2>1, QuietKeeps DEF Retry, Tracked
<1>5. ASSUME NEW s \in Sessions, Open(s) PROVE Tracked'
  <2>1. hist' = [hist EXCEPT ![s] = Asked(hist[s])] \/ UNCHANGED hist
    BY <1>5 DEF Open
  <2>2. QED
    BY <1>0, <1>3, <2>1, QuietKeeps DEF Tracked
<1>6. ASSUME NEW s \in Sessions, ReadDetail(s) PROVE Tracked'
  <2> DEFINE r == ctl[s].settled
  <2>1. /\ \A t \in Sessions \ {s} : hist'[t] = hist[t]
        /\ \A n \in Sends : Of(n) = s => hist'[s].answer[n] = Stored(n)
        /\ hist'[s].status = hist[s].status /\ hist'[s].shown = hist[s].shown
        /\ hist'[s].stale = hist[s].stale
    BY <1>1, <1>6 DEF ReadDetail, Detail
  <2>2. r \in Sends => /\ Of(r) = s
                       /\ Stored(r) # "none"
                       /\ Stored(r) = run[r] \/ r \in cut
    BY Owners DEF Tracked, Settled, Stored, Final, Outcome
  <2>3. Fresh(s)'
    BY <1>0, <2>1, <2>2 DEF Tracked, Settled, Fresh, Tells, Ready
  <2>4. QED
    BY <1>0, <1>2, <2>1, <2>3, QuietKeeps DEF Tracked
<1>7. ASSUME NEW s \in Sessions, DetailReturns(s) PROVE Tracked'
  <2>1. /\ \A t \in Sessions \ {s} : hist'[t] = hist[t]
        /\ hist[s].request = "answered" /\ hist'[s].request = "none"
        /\ hist'[s].shown = hist[s].answer
        /\ hist'[s].stale = hist[s].stale
    BY <1>1, <1>7 DEF DetailReturns, Detail
  <2>2. Fresh(s)'
    BY <1>0, <2>1 DEF Tracked, Settled, Fresh, Tells, Ready
  <2>3. QED
    BY <1>0, <1>2, <2>1, <2>2, QuietKeeps DEF Tracked
<1>8. ASSUME NEW s \in Sessions, DetailFails(s) PROVE Tracked'
  <2>1. /\ \A t \in Sessions \ {s} : hist'[t] = hist[t]
        /\ hist'[s].status = "error" /\ hist'[s].request = "none"
    BY <1>1, <1>8 DEF DetailFails, Detail
  <2>2. Fresh(s)'
    BY <2>1 DEF Fresh, Ready
  <2>3. QED
    BY <1>0, <1>2, <2>1, <2>2, QuietKeeps DEF Tracked
<1>9. QED
  BY <1>4, <1>5, <1>6, <1>7, <1>8 DEF Fetches

(* A busy send that goes on, with its run in the run state of its session.  *)
LEMMA GoesOn ==
  ASSUME Sound, Tracked, ~late, NEW n \in Sends, Busy(n),
         NEW pc \in {"opening", "streaming"}, NEW v, Moves(n, pc, v), UNCHANGED <<cut, late>>,
         v.phase = IF pc = "streaming" THEN "streaming" ELSE "starting",
         v.run = n, v.thread = Of(n), run[n] # "none"
  PROVE  Tracked'
<1> DEFINE s == Of(n)
<1>1. s \in Sessions
  BY BusyFacts
<1>2. \A k \in Sends : /\ Busy(k)' <=> Busy(k)
                       /\ Of(k)' = Of(k)
                       /\ At(k, "done")' <=> At(k, "done")
                       /\ send'[k].target = send[k].target
  BY DEF Moves, Busy, At, Of
<1>3. \A k \in Sends \ {n} : /\ At(k, "streaming")' <=> At(k, "streaming")
                             /\ At(k, "posting")' <=> At(k, "posting")
                             /\ Busy(k) => Of(k) # s
  BY DEF Moves, At, Tracked, OneBusy
<1>4. /\ At(n, "streaming")' <=> pc = "streaming"
      /\ ~At(n, "posting")'
      /\ n \notin cut
  BY DEF Moves, At, Tracked, Aimed, Busy
<1>5. /\ \A t \in Sessions \ {s} : ctl'[t] = ctl[t]
      /\ ctl'[s].view = v /\ ctl'[s].abort = ctl[s].abort
      /\ ctl'[s].pending = ctl[s].pending /\ ctl'[s].settled = ctl[s].settled
      /\ UNCHANGED <<run, hist, rejected, cut>>
  BY DEF Moves
<1> HIDE DEF s
<1>6. Followed'
  <2>1. ASSUME NEW k \in Sends \ {n}, Busy(k)
        PROVE  Of(k) \in Sessions /\ ctl'[Of(k)] = ctl[Of(k)]
    BY <1>3, <1>5, <2>1, BusyFacts
  <2>2. QED
    BY <1>1, <1>2, <1>3, <1>4, <1>5, <2>1 DEF Tracked, Followed, s
<1>7. OneBusy'
  BY <1>1, <1>2, <1>3, <1>5 DEF Tracked, OneBusy, s
<1>8. Shows'
  <2>1. v.phase \notin Outcome
    BY DEF Outcome
  <2>2. QED
    BY <1>1, <1>4, <1>5, <2>1 DEF Tracked, Shows, s, Outcome
<1>9. Settled'
  BY <1>1, <1>2, <1>5 DEF Tracked, Settled, Fresh, Tells, Ready
<1>10. Aimed'
  BY <1>2, <1>5 DEF Tracked, Aimed
<1>11. QED
  BY <1>6, <1>7, <1>8, <1>9, <1>10 DEF Tracked


(* A busy send that is over, or has its terminal event.                     *)
LEMMA Stops ==
  ASSUME Sound, Tracked, ~late, NEW n \in Sends, Busy(n),
         NEW pc \in {"tail", "done"}, NEW v, Moves(n, pc, v),
         ~Sending(v),
         v.phase # "idle" => v.thread = Of(n),
         v.run \in Sends => v.run = n /\ run[n] # "none",
         cut' \in {cut, cut \cup {n, LocalRun}, cut \cup {n}},
         n \in cut' => pc = "done" /\ (v.run = n => v.phase \in {"failed", "cancelled"}),
         v.run = n /\ v.phase \in Outcome => n \in cut' \/ run[n] = v.phase,
         v.phase \in Outcome => Concluded(v.segs, v.run, v.phase)
  PROVE  Tracked'
<1> DEFINE s == Of(n)
<1>1. s \in Sessions
  BY BusyFacts
<1>2. \A k \in Sends : /\ Busy(k)' <=> Busy(k) /\ k # n
                       /\ Of(k)' = Of(k)
                       /\ send'[k].target = send[k].target
  BY DEF Moves, Busy, Of
<1>3. \A k \in Sends \ {n} : /\ At(k, "streaming")' <=> At(k, "streaming")
                             /\ At(k, "posting")' <=> At(k, "posting")
                             /\ At(k, "done")' <=> At(k, "done")
                             /\ Busy(k) => Of(k) # s
                             /\ k \in cut' <=> k \in cut
  BY Constants DEF Moves, At, Tracked, OneBusy
<1>4. At(n, "done")' <=> pc = "done"
  BY DEF Moves, At
<1>5. /\ \A t \in Sessions \ {s} : ctl'[t] = ctl[t]
      /\ ctl'[s].view = v
      /\ ctl'[s].pending = ctl[s].pending /\ ctl'[s].settled = ctl[s].settled
      /\ UNCHANGED <<run, hist, rejected>>
  BY DEF Moves
<1>6. cut \subseteq cut'
  OBVIOUS
<1> HIDE DEF s
<1>7. Followed'
  <2>1. ASSUME NEW k \in Sends \ {n}, Busy(k)
        PROVE  Of(k) \in Sessions /\ ctl'[Of(k)] = ctl[Of(k)]
    BY <1>3, <1>5, <2>1, BusyFacts
  <2>2. QED
    BY <1>2, <1>3, <1>5, <2>1 DEF Tracked, Followed
<1>8. OneBusy'
  <2>1. \A t \in Sessions : Sending(ctl'[t].view) => t # s /\ ctl'[t] = ctl[t]
    BY <1>5
  <2>2. QED
    BY <1>2, <2>1 DEF Tracked, OneBusy, s
<1>9. Shows'
  <2>1. ASSUME NEW t \in Sessions \ {s}
        PROVE  ctl[t].view.run \in Sends => ctl[t].view.run # n
    BY <2>1, Owners DEF s
  <2>2. \A t \in Sessions \ {s} :
          ctl[t].view.run \in Sends => (ctl[t].view.run \in cut' <=> ctl[t].view.run \in cut)
    BY <1>3, <2>1
  <2>3. ASSUME NEW t \in Sessions \ {s}
        PROVE  LET w == ctl'[t].view
               IN  /\ w.phase # "idle" => w.thread = t
                   /\ w.run \in Sends => run'[w.run] # "none"
                   /\ w.run \in Sends /\ w.phase \in Outcome =>
                        w.run \in cut' \/ run'[w.run] = w.phase
                   /\ w.run \in Sends \cap cut' => w.phase \in {"failed", "cancelled"}
                   /\ w.phase \in Outcome => Concluded(w.segs, w.run, w.phase)
    BY <1>5, <2>2 DEF Tracked, Shows
  <2>4. QED
    BY <1>1, <1>5, <2>3 DEF Shows, s
<1>10. Settled'
  BY <1>1, <1>2, <1>5, <1>6 DEF Tracked, Settled, Fresh, Tells, Ready
<1>11. Aimed'
  BY <1>2, <1>3, <1>4 DEF Tracked, Aimed
<1>12. QED
  BY <1>7, <1>8, <1>9, <1>10, <1>11 DEF Tracked

(* The end of a stream whose terminal event has been applied.               *)
LEMMA TailEnds ==
  ASSUME Sound, Tracked, NEW n \in Sends, At(n, "tail"), UNCHANGED <<cut, late>>,
         Moves(n, "done", ctl[Of(n)].view)
  PROVE  Tracked'
<1> DEFINE s == Of(n)
<1>1. s \in Sessions
  BY SoundFacts DEF At
<1>2. \A k \in Sends : /\ Busy(k)' <=> Busy(k)
                       /\ Busy(k) => k # n
                       /\ Of(k)' = Of(k)
                       /\ send'[k].target = send[k].target
                       /\ At(k, "streaming")' <=> At(k, "streaming")
                       /\ At(k, "posting")' <=> At(k, "posting")
                       /\ At(k, "done") => At(k, "done")'
  BY DEF Moves, Busy, Of, At
<1>3. /\ \A t \in Sessions : /\ ctl'[t].view = ctl[t].view
                             /\ ctl'[t].pending = ctl[t].pending
                             /\ ctl'[t].settled = ctl[t].settled
                             /\ \/ ctl'[t].abort = ctl[t].abort
                                \/ ctl[t].abort = n /\ ctl'[t].abort = NoRun
      /\ UNCHANGED <<run, hist, rejected, cut>>
  BY <1>1 DEF Moves
<1> HIDE DEF s
<1>4. Followed'
  <2>1. ASSUME NEW k \in Sends, Busy(k)
        PROVE  Of(k) \in Sessions /\ ctl'[Of(k)].abort = ctl[Of(k)].abort
    BY <1>2, <1>3, <2>1, BusyFacts, Constants DEF Tracked, Followed
  <2>2. QED
    BY <1>2, <1>3, <2>1 DEF Tracked, Followed
<1>5. OneBusy'
  BY <1>2, <1>3 DEF Tracked, OneBusy
<1>6. Shows'
  BY <1>3 DEF Tracked, Shows
<1>7. Settled'
  BY <1>2, <1>3 DEF Tracked, Settled, Fresh, Tells, Ready
<1>8. Aimed'
  BY <1>2, <1>3 DEF Tracked, Aimed
<1>9. QED
  BY <1>4, <1>5, <1>6, <1>7, <1>8 DEF Tracked

(* A message is sent in a session that is not sending.                      *)
LEMMA Dispatched ==
  ASSUME Sound, Tracked, NEW s \in Sessions, NEW n \in Sends, At(n, "unused"),
         ~Sending(ctl[s].view), Dispatch(s, n)
  PROVE  Tracked'
<1>1. /\ \A k \in Sends \ {n} : send'[k] = send[k]
      /\ send'[n].pc = "posting" /\ send'[n].session = s /\ send'[n].target = send[n].target
  BY SoundFacts DEF Dispatch, Send
<1>2. /\ \A t \in Sessions \ {s} : ctl'[t] = ctl[t]
      /\ UNCHANGED <<run, hist, cut, rejected>>
  BY SoundFacts DEF Dispatch, GhostsUnchanged
<1>3. /\ ctl'[s].view = StartingView(NoRun, s) /\ ctl'[s].abort = n
      /\ ctl'[s].pending = ctl[s].pending /\ ctl'[s].settled = ctl[s].settled
  BY SoundFacts DEF Dispatch
<1>4. /\ StartingView(NoRun, s).phase = "starting" /\ StartingView(NoRun, s).run = NoRun
      /\ StartingView(NoRun, s).thread = s
  BY DEF StartingView
<1>5. /\ \A k \in Sends \ {n} : /\ Busy(k)' <=> Busy(k)
                                /\ Of(k)' = Of(k)
                                /\ Busy(k) => Of(k) # s
                                /\ At(k, "streaming")' <=> At(k, "streaming")
                                /\ At(k, "posting")' <=> At(k, "posting")
                                /\ At(k, "done")' <=> At(k, "done")
      /\ Busy(n)' /\ At(n, "posting")' /\ ~At(n, "streaming")' /\ Of(n)' = s
      /\ ~Busy(n) /\ n \notin cut
  BY <1>1, BusyFacts DEF Busy, At, Of, Tracked, Aimed
<1>6. Followed'
  <2>1. ASSUME NEW k \in Sends \ {n}, Busy(k)
        PROVE  Of(k) \in Sessions /\ ctl'[Of(k)] = ctl[Of(k)]
    BY <1>2, <1>5, <2>1, BusyFacts
  <2>2. QED
    BY <1>2, <1>3, <1>4, <1>5, <2>1 DEF Tracked, Followed
<1>7. OneBusy'
  BY <1>2, <1>5 DEF Tracked, OneBusy
<1>8. Shows'
  BY <1>2, <1>3, <1>4, Constants DEF Tracked, Shows, Outcome
<1>9. Settled'
  <2>1. \A t \in Sessions : ctl[t].settled \in Sends => ctl[t].settled # n
    BY Owners, Constants DEF Sound, Placed
  <2>2. QED
    BY <1>2, <1>3, <1>5, <2>1 DEF Tracked, Settled, Fresh, Tells, Ready
<1>10. Aimed'
  BY <1>1, <1>2, <1>5 DEF Tracked, Aimed
<1>11. QED
  BY <1>6, <1>7, <1>8, <1>9, <1>10 DEF Tracked


(* The panel's own steps leave the sends and the runtime alone, and the     *)
(* run state of a session that has a busy send.                             *)
LEMMA PanelKeeps ==
  ASSUME Sound, Tracked, UNCHANGED <<send, run, cut>>, rejected \subseteq rejected',
         NEW s \in Sessions, \A t \in Sessions \ {s} : ctl'[t] = ctl[t],
         \/ ctl'[s].view = ctl[s].view
         \/ /\ ctl'[s].view = IdleView(NoRun, NoSession)
            /\ \A n \in Sends : Busy(n) => Of(n) # s,
         \/ ctl'[s].abort = ctl[s].abort
         \/ ctl'[s].abort = NoRun /\ (s \in rejected' \/ ~Sending(ctl[s].view))
  PROVE  Followed' /\ OneBusy' /\ Shows' /\ Aimed'
<1>1. \A k \in Sends : /\ Busy(k)' <=> Busy(k)
                       /\ Of(k)' = Of(k)
                       /\ At(k, "streaming")' <=> At(k, "streaming")
                       /\ At(k, "posting")' <=> At(k, "posting")
                       /\ At(k, "done")' <=> At(k, "done")
  BY DEF Busy, At, Of
<1>2. IdleView(NoRun, NoSession).phase = "idle" /\ IdleView(NoRun, NoSession).run = NoRun
  BY DEF IdleView
<1>3. \A k \in Sends : Busy(k) =>
        /\ Of(k) \in Sessions
        /\ ctl'[Of(k)].view = ctl[Of(k)].view
        /\ \/ ctl'[Of(k)].abort = ctl[Of(k)].abort
           \/ ctl'[Of(k)].abort = NoRun /\ Of(k) \in rejected'
  BY BusyFacts
<1>4. Followed'
  BY <1>1, <1>3 DEF Tracked, Followed
<1>5. OneBusy'
  BY <1>1, <1>2 DEF Tracked, OneBusy, Sending
<1>6. Shows'
  BY <1>2, Constants DEF Tracked, Shows, Outcome
<1>7. Aimed'
  BY <1>1 DEF Tracked, Aimed
<1>8. QED
  BY <1>4, <1>5, <1>6, <1>7

LEMMA PanelSteps ==
  ASSUME Sound, Tracked, NEW s \in Sessions,
         Settle(s) \/ Handover(s) \/ Evict(s)
  PROVE  Tracked'
<1> DEFINE r == ctl[s].settled
<1>1. CASE Settle(s)
  <2> DEFINE v == ctl[s].view
             q == IF v.thread = s THEN v.run ELSE ctl[s].pending
  <2>1. v.phase \in Outcome /\ v.run # NoRun
    BY <1>1 DEF Settle, SettleDue
  <2>2. v.thread = s
    BY <2>1 DEF Tracked, Shows, Outcome
  <2>3. /\ \A t \in Sessions \ {s} : ctl'[t] = ctl[t] /\ hist'[t] = hist[t]
        /\ UNCHANGED <<send, run, cut, rejected>>
    BY <1>1, <2>2, SoundFacts DEF Settle, GhostsUnchanged, Sound, Typed
  <2>4. /\ ctl'[s].view = v /\ ctl'[s].abort = ctl[s].abort
        /\ ctl'[s].settled = v.run /\ ctl'[s].pending = v.run
    BY <1>1, <2>2, SoundFacts DEF Settle
  <2>5. hist'[s].status # "ready" /\ (hist'[s].request = "answered" => hist'[s].stale)
    BY <1>1, <2>2 DEF Settle, AskedAgain, Asked, Sound, Typed, Detail
  <2> HIDE DEF v, q
  <2>6. Followed' /\ OneBusy' /\ Shows' /\ Aimed'
    BY <2>3, <2>4, PanelKeeps DEF v
  <2>7. v.run \in Sends => /\ ~Busy(v.run)
                           /\ run[v.run] # "none"
                           /\ Final(run[v.run]) \/ v.run \in cut
    <3>1. v.run \in Sends => Of(v.run) = s
      BY Owners DEF v
    <3>2. v.run \in Sends => ~Busy(v.run)
      BY <2>1, <3>1 DEF Tracked, Followed, Outcome, v
    <3>3. QED
      BY <2>1, <3>2 DEF Tracked, Shows, Final, v
  <2>8. Settled'
    BY <2>3, <2>4, <2>5, <2>7 DEF Tracked, Settled, Busy, Fresh, Tells, Ready
  <2>9. QED
    BY <2>6, <2>8 DEF Tracked
<1>3. CASE Handover(s)
  <2> DEFINE v == IF ctl[s].view.run = ctl[s].pending THEN IdleView(NoRun, NoSession)
                  ELSE ctl[s].view
  <2>1. ctl[s].pending # NoRun /\ ctl[s].pending = r
    BY <1>3 DEF Handover, HandoverDue, Tracked, Settled
  <2> DEFINE d == [ctl[s] EXCEPT !.pending = NoRun, !.conv = {}, !.view = v]
  <2>0. ctl' = [ctl EXCEPT ![s] = d]
    BY <1>3 DEF Handover
  <2>2. /\ \A t \in Sessions \ {s} : ctl'[t] = ctl[t]
        /\ UNCHANGED <<send, run, cut, rejected, hist>>
    <3> HIDE DEF d
    <3>1. \A t \in Sessions \ {s} : ctl'[t] = ctl[t]
      BY <2>0, SoundFacts
    <3>2. QED
      BY <1>3, <3>1 DEF Handover, GhostsUnchanged
  <2>3. /\ ctl'[s].view = v /\ ctl'[s].abort = ctl[s].abort
        /\ ctl'[s].settled = r /\ ctl'[s].pending = NoRun
    BY <1>3, SoundFacts DEF Handover
  <2>4. ctl[s].view.run = ctl[s].pending => \A n \in Sends : Busy(n) => Of(n) # s
    <3>1. ASSUME NEW n \in Sends, Busy(n), Of(n) = s, ctl[s].view.run = r PROVE FALSE
      <4>1. n = r
        BY <2>1, <3>1 DEF Tracked, Followed
      <4>2. QED
        BY <3>1, <4>1, BusyFacts
    <3>2. QED
      BY <2>1, <3>1
  <2>5. Followed' /\ OneBusy' /\ Shows' /\ Aimed'
    BY <2>2, <2>3, <2>4, PanelKeeps
  <2>6. Settled'
    BY <2>2, <2>3 DEF Tracked, Settled, Busy, Fresh, Tells, Ready
  <2>7. QED
    BY <2>5, <2>6 DEF Tracked
<1>4. CASE Evict(s)
  <2>1. /\ \A t \in Sessions \ {s} : ctl'[t] = ctl[t]
        /\ UNCHANGED <<send, run, cut, rejected, hist>>
        /\ ctl'[s] = FreshController
        /\ ~Sending(ctl[s].view)
    BY <1>4, SoundFacts DEF Evict, Evictable, GhostsUnchanged
  <2>2. /\ ctl'[s].view = IdleView(NoRun, NoSession) /\ ctl'[s].abort = NoRun
        /\ ctl'[s].settled = NoRun /\ ctl'[s].pending = NoRun
    BY <2>1 DEF FreshController
  <2>3. \A n \in Sends : Busy(n) => Of(n) # s
    BY <2>1, BusyFacts
  <2>4. Followed' /\ OneBusy' /\ Shows' /\ Aimed'
    BY <2>1, <2>2, <2>3, PanelKeeps
  <2>5. Settled'
    BY <2>1, <2>2, Constants DEF Tracked, Settled, Busy, Fresh, Tells, Ready
  <2>6. QED
    BY <2>4, <2>5 DEF Tracked
<1>5. QED
  BY <1>1, <1>3, <1>4


LEMMA TrackedInit == Init => Tracked
BY Constants DEF Init, Tracked, Followed, OneBusy, Shows, Settled, Fresh, Aimed, Busy, At, Unused,
                 FreshController, IdleView, Sending, Outcome

(* A failure that does not come late is that of the busy send, and marks    *)
(* the run state of that send.                                              *)
LEMMA LocalEnd ==
  ASSUME Sound, Tracked, ~late, ~late', NEW n \in Sends, send[n].pc \in Live,
         NEW outcome \in {"failed", "cancelled"}, NEW w,
         w = LocalOutcome(ctl[Of(n)].view, outcome, NoRun, LocalRun, ctl[Of(n)].view.thread),
         Moves(n, "done", w), cut' = cut \cup {n, w.run}, late' = (late \/ At(n, "tail"))
  PROVE  Tracked'
<1> DEFINE s == Of(n)
           v == ctl[s].view
           r == IF v.run = NoRun THEN LocalRun ELSE v.run
<1>1. Busy(n)
  BY DEF Busy, Live, At
<1>2. s \in Sessions /\ Sending(v)
  BY <1>1, BusyFacts
<1>3. /\ v.run \in {NoRun, n} /\ v.thread = s
      /\ v.run = n => run[n] # "none"
  BY <1>1, <1>2 DEF Tracked, Followed, Shows, Sending
<1>4. r \in RunsOf(s) /\ v.segs \in Seq(SegmentOf(RunsOf(s)))
  BY <1>2, <1>3, Owners, Constants DEF RunsOf
<1>5. /\ w.phase = outcome /\ w.run = r /\ w.thread = s
      /\ Concluded(w.segs, r, outcome)
  <2>1. w = ViewOutcome(v, outcome, r, v.thread)
    BY DEF LocalOutcome
  <2>2. outcome \in Outcome
    BY DEF Outcome
  <2> HIDE DEF r, v
  <2>3. QED
    BY <1>3, <1>4, <2>1, <2>2, OutcomeFacts
<1>6. cut' = cut \cup {n, LocalRun} \/ cut' = cut \cup {n}
  BY <1>3, <1>5
<1>7. w.run \in Sends => w.run = n /\ run[n] # "none"
  BY <1>3, <1>5, Constants
<1>8. ~Sending(w) /\ w.phase # "idle"
  BY <1>5 DEF Sending
<1> HIDE DEF r, v
<1>9. n \in cut'
  OBVIOUS
<1>10. QED
  BY <1>1, <1>5, <1>6, <1>7, <1>8, <1>9, Stops DEF s

(* Once a failure has come late, that stays on record.                      *)
LEMMA LateStays ==
  ASSUME Sound, [Next]_vars, late
  PROVE  late'
<1>1. CASE Quiet
  BY <1>1 DEF Quiet
<1>2. ASSUME NEW n \in Sends, \/ Answered(n) /\ ~StreamOpens(n) /\ ~CancelReturns(n)
                              \/ PostFails(n) \/ StreamFails(n)
                              \/ \E kind \in Content : Receive(n, kind)
      PROVE  late'
  BY <1>2, SendMoves DEF Answered
<1>3. ASSUME NEW n \in Sends, SendMessage(n) \/ SubmitForm(n) PROVE late'
  BY <1>3 DEF SendMessage, SubmitForm, Dispatch, GhostsUnchanged
<1>4. CASE SubmitFormEarly
  BY <1>4 DEF SubmitFormEarly
<1>5. ASSUME NEW s \in Sessions, Settle(s) \/ Handover(s) \/ Evict(s) PROVE late'
  BY <1>5 DEF Settle, Handover, Evict, GhostsUnchanged
<1>6. QED
  BY <1>1, <1>2, <1>3, <1>4, <1>5, QuietSteps DEF Next, User, Answered, Panel, Runtime, Fetches

LEMMA TrackedStep ==
  ASSUME IInv, [Next]_vars, ~late'
  PROVE  Tracked'
<1>0. Sound
  BY DEF IInv
<1>1. ~late /\ Tracked
  BY LateStays DEF IInv
<1>2. ASSUME Quiet, UNCHANGED hist PROVE Tracked'
  BY <1>0, <1>1, <1>2, QuietKeeps DEF Tracked
<1>3. CASE \/ \E n \in Sends : Runtime(n) \/ StreamOpens(n) \/ CancelReturns(n)
           \/ Cancel
           \/ UNCHANGED vars
  <2>1. Quiet
    BY <1>0, <1>3, QuietSteps
  <2>2. UNCHANGED hist
    BY <1>3 DEF Runtime, Accept, ServeCancel, Finish, StreamOpens, CancelReturns, Cancel, vars
  <2>3. QED
    BY <1>2, <2>1, <2>2
<1>4. ASSUME NEW n \in Sends, SendMessage(n) \/ SubmitForm(n) PROVE Tracked'
  <2>1. /\ active \in Sessions /\ Dispatch(active, n)
        /\ At(n, "unused") /\ ~Sending(ctl[active].view)
    BY <1>0, <1>4, SoundFacts DEF SendMessage, SubmitForm, NextSend
  <2>2. QED
    BY <1>0, <1>1, <2>1, Dispatched
<1>5. CASE SubmitFormEarly
  <2>1. /\ active \in Sessions
        /\ UNCHANGED <<send, run, hist, cut>> /\ rejected' = rejected \cup {active}
        /\ \A t \in Sessions \ {active} : ctl'[t] = ctl[t]
        /\ ctl'[active].view = ctl[active].view /\ ctl'[active].abort = NoRun
        /\ ctl'[active].settled = ctl[active].settled
        /\ ctl'[active].pending = ctl[active].pending
    BY <1>0, <1>5, SoundFacts DEF SubmitFormEarly
  <2>2. Followed' /\ OneBusy' /\ Shows' /\ Aimed'
    BY <1>0, <1>1, <2>1, PanelKeeps
  <2>3. Settled'
    BY <1>1, <2>1 DEF Tracked, Settled, Busy, Fresh, Tells, Ready
  <2>4. QED
    BY <2>2, <2>3 DEF Tracked
<1>6. CASE Fetches \/ \E s \in Sessions : Settle(s) \/ Handover(s) \/ Evict(s)
  BY <1>0, <1>1, <1>6, PanelSteps, FetchKeeps
<1>7. ASSUME NEW n \in Sends, Posted(n) PROVE Tracked'
  <2> DEFINE w == Registered(ctl[Of(n)].view, n, Of(n))
  <2>1. At(n, "posting") /\ run[n] # "none" /\ Moves(n, "opening", w) /\ UNCHANGED <<cut, late>>
    BY <1>0, <1>7, SendMoves
  <2>2. Busy(n) /\ Of(n) \in Sessions /\ ctl[Of(n)].view.phase = "starting"
    BY <1>0, <1>1, <2>1, BusyFacts DEF Busy, At, Tracked, Followed
  <2>3. w.phase = "starting" /\ w.run = n /\ w.thread = Of(n)
    <3>1. ctl[Of(n)].view \in ViewOf(Of(n), RunsOf(Of(n)))
      BY <1>0, <2>2 DEF Sound, Owned, ControllerOf
    <3>2. QED
      BY <2>2, <3>1 DEF Registered, ViewOf
  <2> HIDE DEF w
  <2>4. QED
    BY <1>0, <1>1, <2>1, <2>2, <2>3, GoesOn
<1>8. ASSUME NEW n \in Sends, Started(n) PROVE Tracked'
  <2> DEFINE w == ViewStarted(ctl[Of(n)].view, n, Of(n))
  <2>1. At(n, "opened") /\ Moves(n, "streaming", w) /\ UNCHANGED <<cut, late>>
    BY <1>0, <1>8, SendMoves
  <2>2. Busy(n) /\ Of(n) \in Sessions /\ run[n] # "none"
    BY <1>0, <1>1, <2>1, BusyFacts DEF Busy, At, Tracked, Followed, Shows
  <2>3. w.phase = "streaming" /\ w.run = n /\ w.thread = Of(n)
    <3>1. ctl[Of(n)].view \in ViewOf(Of(n), RunsOf(Of(n)))
      BY <1>0, <2>2 DEF Sound, Owned, ControllerOf
    <3>2. QED
      BY <3>1 DEF ViewStarted, Registered, ViewOf
  <2> HIDE DEF w
  <2>4. QED
    BY <1>0, <1>1, <2>1, <2>2, <2>3, GoesOn
<1>9. ASSUME NEW n \in Sends, NEW kind \in Content, Receive(n, kind) PROVE Tracked'
  <2> DEFINE w == ViewContent(ctl[Of(n)].view, kind, n, Of(n))
  <2>1. At(n, "streaming") /\ Moves(n, "streaming", w) /\ UNCHANGED <<cut, late>>
    BY <1>0, <1>9, SendMoves
  <2>2. /\ Busy(n) /\ Of(n) \in Sessions /\ run[n] # "none"
        /\ ctl[Of(n)].view.phase = "streaming"
    BY <1>0, <1>1, <2>1, BusyFacts DEF Busy, At, Tracked, Followed, Shows
  <2>3. w.phase = "streaming" /\ w.run = n /\ w.thread = Of(n)
    BY <2>2 DEF ViewContent
  <2> HIDE DEF w
  <2>4. QED
    BY <1>0, <1>1, <2>1, <2>2, <2>3, GoesOn
<1>10. ASSUME NEW n \in Sends, ReceiveTerminal(n) PROVE Tracked'
  <2> DEFINE v == ctl[Of(n)].view
             w == ViewOutcome(v, run[n], n, Of(n))
  <2>1. /\ At(n, "streaming") /\ run[n] \in Outcome
        /\ Moves(n, "tail", w) /\ UNCHANGED <<cut, late>>
    BY <1>0, <1>10, SendMoves DEF Final
  <2>2. /\ Busy(n) /\ Of(n) \in Sessions /\ n \notin cut
    BY <1>0, <1>1, <2>1, BusyFacts DEF Busy, At, Tracked, Aimed
  <2>3. v.segs \in Seq(SegmentOf(RunsOf(Of(n)))) /\ n \in RunsOf(Of(n))
    BY <1>0, <2>2, Owners DEF RunsOf
  <2>4. /\ w.phase = run[n] /\ w.run = n /\ w.thread = Of(n)
        /\ Concluded(w.segs, n, run[n])
    BY <2>1, <2>3, OutcomeFacts
  <2>5. ~Sending(w) /\ run[n] # "none"
    BY <2>1, <2>4 DEF Sending, Outcome
  <2> HIDE DEF v, w
  <2>6. QED
    BY <1>0, <1>1, <2>1, <2>2, <2>4, <2>5, Stops
<1>11. ASSUME NEW n \in Sends, StreamEnds(n) PROVE Tracked'
  BY <1>0, <1>1, <1>11, SendMoves, TailEnds
<1>12. ASSUME NEW n \in Sends, PostFails(n) PROVE Tracked'
  <2> DEFINE w == IdleView(NoRun, NoSession)
  <2>1. At(n, "posting") /\ Moves(n, "done", w) /\ UNCHANGED <<cut, late>>
    BY <1>0, <1>12, SendMoves
  <2>2. Busy(n) /\ n \notin cut
    BY <1>1, <2>1 DEF Busy, At, Tracked, Aimed
  <2>3. /\ w.phase = "idle" /\ w.phase \notin Outcome /\ ~Sending(w)
        /\ w.run = NoRun /\ NoRun \notin Sends
    BY Constants DEF IdleView, Sending, Outcome
  <2> HIDE DEF w
  <2>4. QED
    BY <1>0, <1>1, <2>1, <2>2, <2>3, Stops
<1>13. ASSUME NEW n \in Sends, Aborted(n) \/ StreamFails(n) \/ StreamRefused(n) PROVE Tracked'
  BY <1>0, <1>1, <1>13, SendMoves, LocalEnd
<1>14. QED
  BY <1>3, <1>4, <1>5, <1>6, <1>7, <1>8, <1>9, <1>10, <1>11, <1>12, <1>13
     DEF Next, User, Answered, Panel, Runtime, Fetches


-----------------------------------------------------------------------------
(* The theorems.                                                            *)

(* The inductive invariant holds throughout.                                *)
THEOREM PanelInvariant == Spec => []IInv
<1>1. Init => IInv
  BY SoundInit, TrackedInit DEF IInv
<1>2. IInv /\ [Next]_vars => IInv'
  BY SoundStep, TrackedStep DEF IInv
<1>3. QED
  BY <1>1, <1>2, PTL DEF Spec

(* Controllers, sends, requests and details are what they are declared to   *)
(* be; the segments of a view stay segments of its own kinds and runs.      *)
THEOREM ViewTypes == Spec => []TypeOK
<1>1. IInv => TypeOK
  BY SoundImplies DEF IInv
<1>2. QED
  BY <1>1, PanelInvariant, PTL

(* What a session shows is its own, however often the user goes from one    *)
(* session to another while runs stream (createBoundSessionDispatchers).    *)
THEOREM ViewsAreOwned == Spec => []SessionOwnsRun
<1>1. IInv => SessionOwnsRun
  BY SoundImplies DEF IInv
<1>2. QED
  BY <1>1, PanelInvariant, PTL

(* A cancel asks the runtime for the run of the very send it aborts         *)
(* (handleCancelCurrentRun).                                                *)
THEOREM CancelReaches == Spec => []CancelReachesItsRun
<1>1. IInv => CancelReachesItsRun
  BY DEF IInv, Tracked, Aimed, CancelReachesItsRun
<1>2. QED
  BY <1>1, PanelInvariant, PTL

(* A run that is shown as sending can be cancelled, unless a form has been  *)
(* submitted under it (handleSubmitInlineForm).                             *)
THEOREM CancelStays == Spec => []StaysCancellable
<1>1. IInv => StaysCancellable
  <2> SUFFICES ASSUME IInv, ~late, NEW s \in Sessions, Sending(ctl[s].view), s \notin rejected
               PROVE  /\ ctl[s].abort # NoRun
                      /\ Of(ctl[s].abort) = s
                      /\ send[ctl[s].abort].pc \in Live
                      /\ ctl[s].view.run \in {NoRun, ctl[s].abort}
    BY DEF StaysCancellable
  <2>1. PICK n \in Sends : Busy(n) /\ Of(n) = s /\ ctl[s].view.run \in {NoRun, n}
    BY BusyFacts DEF IInv
  <2>2. ctl[s].abort = n
    BY <2>1 DEF IInv, Tracked, Followed
  <2>3. QED
    BY <2>1, <2>2, Constants DEF Busy, Live
<1>2. QED
  BY <1>1, PanelInvariant, PTL

(* After an outcome, of each of the four kinds, nothing streams but the tool *)
(* steps that a completed run leaves and the asking step of a run that waits *)
(* for its form; the run ends with its only terminal segment, but for the   *)
(* run that waits; whatever it had shown until then                         *)
(* (cancelStreamingSegments, failStreamingSegments, completeAssistant,      *)
(* finalizeForAwaitingInput, appendTerminalSegment).                        *)
THEOREM OutcomesConclude == Spec => []OutcomeClosesSegments
<1>1. IInv => OutcomeClosesSegments
  BY DEF IInv, Tracked, Shows, Concluded, OpenIn, EndsWith, OutcomeClosesSegments
<1>2. QED
  BY <1>1, PanelInvariant, PTL

(* What has left the panel is in the history with its final status, unless  *)
(* a detail read before the end was in flight when the run settled behind   *)
(* another session (the handover effect of useCopilotChatPanelState, the    *)
(* version check of the detail effect of useAssistantWorkspaceState).       *)
THEOREM HandoverIsFinal == Spec => []HandedOverIsFinal
<1>1. IInv => HandedOverIsFinal
  <2> SUFFICES ASSUME IInv, ~late, NEW s \in Sessions, ctl[s].settled \in Sends, Ready(s),
                      ~hist[s].stale
               PROVE  LET r == ctl[s].settled
                      IN  /\ Final(hist[s].shown[r]) \/ r \in cut
                          /\ hist[s].shown[r] # "none"
    BY DEF HandedOverIsFinal
  <2>1. QED
    BY DEF IInv, Tracked, Settled, Fresh, Tells
<1>2. QED
  BY <1>1, PanelInvariant, PTL

(* What the history has not taken over yet is on screen, also beside a      *)
(* detail that is older than the end of its run if that was a failure or a  *)
(* cancellation (shouldRenderTransientConversation).                        *)
THEOREM OutcomesStayVisible == Spec => []OutcomeVisible
<1>1. IInv => OutcomeVisible
  <2> SUFFICES ASSUME IInv, ~late, NEW s \in Sessions, NEW sel \in Sends \cup {NoRun},
                      ctl[s].view.phase \in Outcome, ctl[s].view.run # NoRun,
                      ctl[s].pending = ctl[s].view.run,
                      ~DrawsTransient(s, sel)
               PROVE  /\ sel = ctl[s].view.run
                      /\ \/ hist[s].shown[ctl[s].view.run] = ctl[s].view.phase
                         \/ /\ ctl[s].view.phase \in {"completed", "awaiting"}
                            /\ hist[s].stale
    BY DEF OutcomeVisible
  <2> DEFINE v == ctl[s].view
             r == v.run
  <2>1. /\ v.phase # "idle" /\ ~Sending(v) /\ v.thread = s
        /\ ctl[s].settled = r
    BY DEF IInv, Tracked, Shows, Settled, Outcome, Sending
  <2>2. /\ Ready(s) /\ InDetail(s, r) /\ sel = r /\ Sufficient(s, r)
    BY <2>1 DEF DrawsTransient
  <2>3. r \in Sends
    BY <2>2 DEF InDetail
  <2>4. v.phase \in {"failed", "cancelled"} => hist[s].shown[r] = v.phase
    BY <2>2 DEF Sufficient
  <2>5. ASSUME v.phase \in {"completed", "awaiting"}, ~hist[s].stale
        PROVE  hist[s].shown[r] = v.phase
    <3>1. hist[s].shown[r] = run[r] \/ r \in cut
      BY <2>1, <2>2, <2>3, <2>5 DEF IInv, Tracked, Settled, Fresh, Tells
    <3>2. r \notin cut
      BY <2>3, <2>5 DEF IInv, Tracked, Shows
    <3>3. run[r] = v.phase
      BY <2>3, <3>2 DEF IInv, Tracked, Shows
    <3>4. QED
      BY <3>1, <3>2, <3>3
  <2>6. QED
    BY <2>2, <2>4, <2>5 DEF Outcome, Sending
<1>2. QED
  BY <1>1, PanelInvariant, PTL

=============================================================================
