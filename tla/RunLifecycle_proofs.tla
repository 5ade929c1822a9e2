-------------------------- MODULE RunLifecycle_proofs --------------------------
(***************************************************************************)
(* Theorems of RunLifecycle, for any number of runs and streams, either    *)
(* session store, any bound on the events of an agent and any faults.      *)
(***************************************************************************)
EXTENDS RunLifecycle, TLAPS

(* The operations on a record and what they do to its two guarded facts:    *)
(* a terminal record stays terminal, and a completed one is not cancelled.  *)

Sound(r) == r.status = "completed" => ~r.cancelRequested

LEMMA AppendEventType ==
  ASSUME NEW r \in Record, NEW e \in RunEvent
  PROVE  /\ AppendEvent(r, e) \in Record
         /\ AppendEvent(r, e).status = r.status
         /\ AppendEvent(r, e).cancelRequested = r.cancelRequested
BY DEF AppendEvent, Record

LEMMA MarkStreamingFacts ==
  ASSUME NEW r \in Record
  PROVE  /\ MarkStreaming(r) \in Record
         /\ IsTerminal(r) => MarkStreaming(r) = r
         /\ MarkStreaming(r).cancelRequested = r.cancelRequested
         /\ ~IsTerminal(r) => MarkStreaming(r).status = "streaming"
BY DEF MarkStreaming, Record, IsTerminal, Status, TerminalStatus

LEMMA MarkTerminalFacts ==
  ASSUME NEW r \in Record, NEW status \in TerminalStatus
  PROVE  /\ MarkTerminal(r, status) \in Record
         /\ MarkTerminal(r, status).status = status
         /\ MarkTerminal(r, status).cancelRequested = r.cancelRequested
BY DEF MarkTerminal, Record, Status

LEMMA MarkFacts ==
  ASSUME NEW r \in Record
  PROVE  /\ MarkCompleted(r) \in Record
         /\ MarkCompleted(r).status = "completed"
         /\ MarkCompleted(r).cancelRequested = r.cancelRequested
         /\ \A awaiting \in BOOLEAN : /\ MarkFailed(r, awaiting) \in Record
                                       /\ MarkFailed(r, awaiting).status = "failed"
         /\ MarkCancelled(r) \in Record
         /\ MarkCancelled(r).status = "cancelled"
<1>1. {"completed", "failed", "cancelled"} = TerminalStatus
  BY DEF TerminalStatus
<1>2. /\ MarkTerminal(r, "completed") \in Record
      /\ MarkTerminal(r, "completed").status = "completed"
      /\ MarkTerminal(r, "completed").cancelRequested = r.cancelRequested
  BY <1>1, MarkTerminalFacts
<1>3. /\ MarkTerminal(r, "failed") \in Record
      /\ MarkTerminal(r, "failed").status = "failed"
  BY <1>1, MarkTerminalFacts
<1>4. /\ MarkTerminal(r, "cancelled") \in Record
      /\ MarkTerminal(r, "cancelled").status = "cancelled"
  BY <1>1, MarkTerminalFacts
<1>5. QED
  BY <1>2, <1>3, <1>4 DEF MarkCompleted, MarkFailed, MarkCancelled, Record

LEMMA RequestCancelFacts ==
  ASSUME NEW r \in Record
  PROVE  /\ RequestCancel(r) \in Record
         /\ IsTerminal(r) => RequestCancel(r) = r
         /\ ~IsTerminal(r) => RequestCancel(r).status # "completed"
BY DEF RequestCancel, Record, IsTerminal, Status, TerminalStatus

LEMMA UpdateFacts ==
  ASSUME NEW r \in Record, NEW e \in RunEvent
  PROVE  /\ UpdateFromEvent(r, e) \in Record
         /\ IsTerminal(r) => IsTerminal(UpdateFromEvent(r, e))
         /\ e \in TerminalEvent => IsTerminal(UpdateFromEvent(r, e))
         /\ Sound(r) /\ (e = "run_completed" => ~r.cancelRequested)
              => Sound(UpdateFromEvent(r, e))
<1> DEFINE logged == AppendEvent(r, e)
<1>1. /\ logged \in Record
      /\ logged.status = r.status
      /\ logged.cancelRequested = r.cancelRequested
  BY AppendEventType
<1>2. IsTerminal(logged) <=> IsTerminal(r)
  BY <1>1 DEF IsTerminal
<1> HIDE DEF logged
<1>3. CASE e \in {"run_started", "run_metadata"}
  <2>1. UpdateFromEvent(r, e) = MarkStreaming(logged)
    BY <1>3 DEF UpdateFromEvent, logged
  <2>2. QED
    BY <2>1, <1>1, <1>2, <1>3, MarkStreamingFacts DEF Sound, IsTerminal, TerminalStatus, TerminalEvent
<1>4. CASE e = "run_completed"
  <2>1. UpdateFromEvent(r, e) = MarkCompleted(logged)
    BY <1>4 DEF UpdateFromEvent, logged
  <2>2. QED
    BY <2>1, <1>1, <1>4, MarkFacts DEF Sound, IsTerminal, TerminalStatus
<1>5. CASE e \in {"run_failed", "awaiting_input"}
  <2>1. \E b \in BOOLEAN : UpdateFromEvent(r, e) = MarkFailed(logged, b)
    BY <1>5 DEF UpdateFromEvent, logged
  <2>2. QED
    BY <2>1, <1>1, <1>5, MarkFacts DEF Sound, IsTerminal, TerminalStatus
<1>6. CASE e = "run_cancelled"
  <2>1. UpdateFromEvent(r, e) = MarkCancelled(logged)
    BY <1>6 DEF UpdateFromEvent, logged
  <2>2. QED
    BY <2>1, <1>1, <1>6, MarkFacts DEF Sound, IsTerminal, TerminalStatus
<1>7. CASE e \in BodyEvent \cup {"run_diagnostic"}
  <2>1. UpdateFromEvent(r, e) = logged
    BY <1>7 DEF UpdateFromEvent, logged, BodyEvent
  <2>2. QED
    BY <2>1, <1>1, <1>2, <1>7 DEF Sound, TerminalEvent, BodyEvent
<1>8. QED
  BY <1>3, <1>4, <1>5, <1>6, <1>7 DEF RunEvent, TerminalEvent, BodyEvent

-----------------------------------------------------------------------------
(* Typing.  An event can only be typed if the item a stream is about to     *)
(* forward is one a client may see, and the thread only names stored runs   *)
(* if every stream that was opened belongs to one.                          *)

Requested == \A s \in Streams : pc[s] # "idle" => RunOf[s] \in known

ItemTaken ==
  \A s \in Streams :
    pc[s] = "checking" => queue[s] # << >> /\ Head(queue[s]) # "segment"

TypeInv == TypeOK /\ Requested /\ ItemTaken

(* What Emit leaves behind, for an event a client may see.                  *)
LEMMA EmitType ==
  ASSUME TypeInv, NEW s \in Streams, NEW e \in RunEvent, Emit(s, e), pc[s] # "idle"
  PROVE  /\ known' = known /\ gone' = gone /\ preempt' = preempt
         /\ run' \in [Runs -> Record]
         /\ last' \in known
         /\ sent' \in [Streams -> Seq(RunEvent)]
<1>1. RunOf[s] \in Runs /\ RunOf[s] \in known
  BY RunOfAssumption DEF TypeInv, Requested
<1>2. UpdateFromEvent(run[RunOf[s]], e) \in Record
  BY <1>1, UpdateFacts DEF TypeInv, TypeOK
<1>3. run' \in [Runs -> Record]
  BY <1>1, <1>2 DEF Emit, TypeInv, TypeOK
<1>4. sent' \in [Streams -> Seq(RunEvent)]
  BY DEF Emit, TypeInv, TypeOK
<1>5. QED
  BY <1>1, <1>3, <1>4 DEF Emit

(* A step of one stream that emits an event and leaves its agent alone.     *)
LEMMA EmitKeepsTypes ==
  ASSUME TypeInv, NEW s \in Streams, NEW e \in RunEvent, Emit(s, e),
         NEW from \in PC \ {"idle"}, NEW to \in PC \ {"idle", "checking"},
         Goto(s, from, to), UNCHANGED agentVars
  PROVE  TypeInv'
<1>1. pc[s] # "idle" /\ pc' = [pc EXCEPT ![s] = to]
  BY DEF Goto
<1>2. /\ known' = known /\ gone' = gone /\ preempt' = preempt
      /\ run' \in [Runs -> Record]
      /\ last' \in known
      /\ sent' \in [Streams -> Seq(RunEvent)]
  BY <1>1, EmitType
<1>3. TypeOK'
  BY <1>1, <1>2 DEF TypeInv, TypeOK, agentVars
<1>4. Requested'
  BY <1>1, <1>2 DEF TypeInv, TypeOK, Requested
<1>5. ItemTaken'
  BY <1>1 DEF TypeInv, TypeOK, ItemTaken, agentVars
<1>6. QED
  BY <1>3, <1>4, <1>5 DEF TypeInv

(* A step of one stream that emits nothing and leaves the queue alone.      *)
LEMMA MoveKeepsTypes ==
  ASSUME TypeInv, NEW s \in Streams,
         NEW from \in PC \ {"idle"}, NEW to \in PC \ {"idle", "checking"},
         pc[s] = from, pc' = [pc EXCEPT ![s] = to],
         task' \in [Streams -> Task],
         UNCHANGED <<storeVars, preempt, sent, gone, queue, made>>
  PROVE  TypeInv'
<1>1. TypeOK'
  BY DEF TypeInv, TypeOK, storeVars
<1>2. Requested'
  BY DEF TypeInv, TypeOK, Requested, storeVars
<1>3. ItemTaken'
  BY DEF TypeInv, TypeOK, ItemTaken
<1>4. QED
  BY <1>1, <1>2, <1>3 DEF TypeInv

LEMMA CancelTaskType ==
  ASSUME TypeInv, NEW s \in Streams, CancelTask(s)
  PROVE  task' \in [Streams -> Task]
BY DEF CancelTask, TypeInv, TypeOK, Task

(* An agent task that ends may take agents of the same run with it.         *)
TaskLeaves(s, outcome) ==
  /\ task' \in [Streams -> Task]
  /\ task'[s] = outcome
  /\ \A t \in Streams \ {s} :
       task'[t] = task[t] \/ (task[t] = "running" /\ task'[t] = "cancelling")

LEMMA OverFacts ==
  ASSUME TypeInv, NEW s \in Streams, NEW outcome \in Task, Over(s, outcome)
  PROVE  TaskLeaves(s, outcome)
<1>1. PICK dropped \in SUBSET SameRun(s) :
        task' = [t \in Streams |-> IF t = s THEN outcome
                                  ELSE IF t \in dropped THEN "cancelling"
                                  ELSE task[t]]
  BY DEF Over
<1>2. task \in [Streams -> Task] /\ "cancelling" \in Task
  BY DEF TypeInv, TypeOK, Task
<1>3. \A t \in dropped : t # s /\ task[t] = "running"
  BY DEF SameRun
<1>4. QED
  BY <1>1, <1>2, <1>3 DEF TaskLeaves

LEMMA AgentEndFacts ==
  ASSUME TypeInv, NEW s \in Streams, AgentEnd(s)
  PROVE  /\ \E outcome \in TaskDone : TaskLeaves(s, outcome)
         /\ task[s] \in {"running", "cancelling"}
         /\ UNCHANGED <<storeVars, pc, preempt, sent, gone, made>>
<1>1. \E outcome \in TaskDone : Over(s, outcome)
  BY DEF AgentEnd, AgentEnds, AgentSucceeds, AgentFails, AgentAsksUser,
         AgentLeavesToolCall, AgentCancelled, TaskDone
<1>2. \A outcome \in TaskDone : outcome \in Task
  BY DEF Task
<1>3. \E outcome \in TaskDone : TaskLeaves(s, outcome)
  BY <1>1, <1>2, OverFacts
<1>4. QED
  BY <1>3 DEF AgentEnd, AgentEnds, AgentSucceeds, AgentFails, AgentAsksUser,
              AgentLeavesToolCall, AgentCancelled

LEMMA TypeInit == Init => TypeInv
<1> SUFFICES ASSUME Init PROVE TypeInv
  OBVIOUS
<1>1. NewRecord \in Record
  BY DEF NewRecord, Record, Status
<1>2. TypeOK
  BY <1>1, MaxEventsAssumption DEF Init, TypeOK, PC, Task
<1>3. Requested /\ ItemTaken
  BY DEF Init, Requested, ItemTaken
<1>4. QED
  BY <1>2, <1>3 DEF TypeInv

LEMMA TypeStep == TypeInv /\ [Next]_vars => TypeInv'
<1> SUFFICES ASSUME TypeInv, [Next]_vars PROVE TypeInv'
  OBVIOUS
<1> USE DEF Ended, AtYield, AtAwait
<1>1. ASSUME NEW r \in Runs, StartRun(r) PROVE TypeInv'
  BY <1>1 DEF StartRun, TypeInv, TypeOK, Requested, ItemTaken
<1>2. ASSUME NEW r \in Runs, CancelRun(r) PROVE TypeInv'
  <2>1. RequestCancel(run[r]) \in Record
    BY RequestCancelFacts DEF TypeInv, TypeOK
  <2>2. QED
    BY <1>2, <2>1 DEF CancelRun, TypeInv, TypeOK, Requested, ItemTaken
<1>3. ASSUME NEW s \in Streams, OpenStream(s) PROVE TypeInv'
  <2>1. NeverStarted(RunOf[s]) \in BOOLEAN
    BY DEF NeverStarted
  <2>2. TypeOK'
    BY <1>3, <2>1 DEF OpenStream, Goto, TypeInv, TypeOK, PC
  <2>3. Requested' /\ ItemTaken'
    BY <1>3 DEF OpenStream, Goto, TypeInv, TypeOK, Requested, ItemTaken
  <2>4. QED
    BY <2>2, <2>3 DEF TypeInv
<1>4. ASSUME NEW s \in Streams, Disconnect(s) PROVE TypeInv'
  BY <1>4 DEF Disconnect, TypeInv, TypeOK, Requested, ItemTaken
<1>5. ASSUME NEW s \in Streams, BeginPreempted(s) PROVE TypeInv'
  <2>1. RunOf[s] \in Runs /\ RunOf[s] \in known
    BY <1>5, RunOfAssumption DEF BeginPreempted, Goto, TypeInv, Requested
  <2>2. AppendEvent(run[RunOf[s]], "run_cancelled") \in Record
    BY <2>1, AppendEventType DEF TypeInv, TypeOK, RunEvent, TerminalEvent
  <2>3. sent' \in [Streams -> Seq(RunEvent)]
    BY <1>5 DEF BeginPreempted, TypeInv, TypeOK, RunEvent, TerminalEvent
  <2>4. TypeOK'
    BY <1>5, <2>1, <2>2, <2>3 DEF BeginPreempted, Goto, agentVars, TypeInv, TypeOK, PC
  <2>5. Requested' /\ ItemTaken'
    BY <1>5 DEF BeginPreempted, Goto, agentVars, TypeInv, TypeOK, Requested, ItemTaken
  <2>6. QED
    BY <2>4, <2>5 DEF TypeInv
<1>6. ASSUME NEW s \in Streams, Begin(s) PROVE TypeInv'
  BY <1>6, EmitKeepsTypes DEF Begin, PC, RunEvent
<1>7. ASSUME NEW s \in Streams, Prepare(s) PROVE TypeInv'
  BY <1>7, MoveKeepsTypes DEF Prepare, Goto, PC, agentVars, TypeInv, TypeOK
<1>8. ASSUME NEW s \in Streams, PrepareOk(s) PROVE TypeInv'
  BY <1>8, EmitKeepsTypes DEF PrepareOk, PC, RunEvent
<1>9. ASSUME NEW s \in Streams, Refuse(s) PROVE TypeInv'
  BY <1>9, EmitKeepsTypes DEF Refuse, PC, RunEvent, TerminalEvent
<1>9a. ASSUME NEW s \in Streams, ExecutionCancelled(s) PROVE TypeInv'
  BY <1>9a, EmitKeepsTypes DEF ExecutionCancelled, PC, RunEvent, TerminalEvent
<1>10. ASSUME NEW s \in Streams, Diagnose(s) PROVE TypeInv'
  BY <1>10, EmitKeepsTypes DEF Diagnose, PC, RunEvent
<1>11. ASSUME NEW s \in Streams, EmitFailed(s) PROVE TypeInv'
  BY <1>11, EmitKeepsTypes DEF EmitFailed, PC, RunEvent, TerminalEvent
<1>12. ASSUME NEW s \in Streams, OpenExecution(s) PROVE TypeInv'
  <2>1. task' \in [Streams -> Task]
    BY <1>12 DEF OpenExecution, TypeInv, TypeOK, Task
  <2>2. QED
    BY <1>12, <2>1, MoveKeepsTypes DEF OpenExecution, Goto, PC
<1>13. ASSUME NEW s \in Streams, Resume(s) PROVE TypeInv'
  BY <1>13, MoveKeepsTypes DEF Resume, Goto, PC, agentVars, TypeInv, TypeOK
<1>14. ASSUME NEW s \in Streams, SkipSegment(s) PROVE TypeInv'
  <2>1. queue' \in [Streams -> Seq(QueueItem)]
    BY <1>14 DEF SkipSegment, TypeInv, TypeOK
  <2>2. QED
    BY <1>14, <2>1 DEF SkipSegment, storeVars, TypeInv, TypeOK, Requested, ItemTaken
<1>15. ASSUME NEW s \in Streams, Take(s) PROVE TypeInv'
  <2>1. TypeOK'
    BY <1>15 DEF Take, Goto, storeVars, agentVars, TypeInv, TypeOK, PC
  <2>2. Requested' /\ ItemTaken'
    BY <1>15 DEF Take, Goto, storeVars, agentVars, TypeInv, TypeOK, Requested, ItemTaken
  <2>3. QED
    BY <2>1, <2>2 DEF TypeInv
<1>16. ASSUME NEW s \in Streams, Forward(s) PROVE TypeInv'
  <2> DEFINE e == Head(queue[s])
  <2>1. pc[s] = "checking" /\ queue[s] # << >> /\ e # "segment"
    BY <1>16 DEF Forward, Goto, TypeInv, ItemTaken
  <2>2. queue[s] \in Seq(QueueItem)
    BY DEF TypeInv, TypeOK
  <2>3. e \in QueueItem /\ Tail(queue[s]) \in Seq(QueueItem)
    BY <2>1, <2>2
  <2>4. e \in RunEvent /\ e \in BodyEvent
    BY <2>1, <2>3 DEF QueueItem, RunEvent
  <2>5. /\ known' = known /\ gone' = gone /\ preempt' = preempt
        /\ run' \in [Runs -> Record]
        /\ last' \in known
        /\ sent' \in [Streams -> Seq(RunEvent)]
    BY <1>16, <2>1, <2>4, EmitType DEF Forward
  <2>6. TypeOK'
    BY <1>16, <2>3, <2>5 DEF Forward, Goto, TypeInv, TypeOK, PC
  <2>7. Requested' /\ ItemTaken'
    BY <1>16, <2>5 DEF Forward, Goto, TypeInv, TypeOK, Requested, ItemTaken
  <2>8. QED
    BY <2>6, <2>7 DEF TypeInv
<1>17. ASSUME NEW s \in Streams, OutputReady(s) PROVE TypeInv'
  BY <1>17, MoveKeepsTypes DEF OutputReady, Goto, PC, agentVars, TypeInv, TypeOK
<1>18. ASSUME NEW s \in Streams, ExecutionFails(s) PROVE TypeInv'
  BY <1>18, EmitKeepsTypes DEF ExecutionFails, PC, RunEvent
<1>19. ASSUME NEW s \in Streams, AwaitUserInput(s) PROVE TypeInv'
  BY <1>19, EmitKeepsTypes DEF AwaitUserInput, PC, RunEvent, TerminalEvent
<1>20. ASSUME NEW s \in Streams, PassCheck(s) PROVE TypeInv'
  BY <1>20, MoveKeepsTypes DEF PassCheck, Goto, PC, agentVars, TypeInv, TypeOK
<1>21. ASSUME NEW s \in Streams, Complete(s) PROVE TypeInv'
  BY <1>21, EmitKeepsTypes DEF Complete, PC, RunEvent, TerminalEvent
<1>22. ASSUME NEW s \in Streams, StopExecution(s) PROVE TypeInv'
  BY <1>22, CancelTaskType, MoveKeepsTypes DEF StopExecution, Goto, PC
<1>23. ASSUME NEW s \in Streams, Escape(s) PROVE TypeInv'
  BY <1>23, MoveKeepsTypes DEF Escape, Goto, PC, agentVars, TypeInv, TypeOK
<1>24. ASSUME NEW s \in Streams, CloseCancelled(s) PROVE TypeInv'
  BY <1>24, EmitKeepsTypes DEF CloseCancelled, PC, RunEvent, TerminalEvent
<1>25. ASSUME NEW s \in Streams, Finish(s) PROVE TypeInv'
  <2>1. RunOf[s] \in Runs /\ RunOf[s] \in known
    BY <1>25, RunOfAssumption DEF Finish, Goto, TypeInv, Requested
  <2>2. MarkFailed(run[RunOf[s]], FALSE) \in Record
    BY <2>1, MarkFacts DEF TypeInv, TypeOK
  <2>3. run' \in [Runs -> Record] /\ last' \in known \cup {None}
    BY <1>25, <2>1, <2>2 DEF Finish, TypeInv, TypeOK
  <2>4. TypeOK'
    BY <1>25, <2>3 DEF Finish, Goto, agentVars, TypeInv, TypeOK, PC
  <2>5. Requested' /\ ItemTaken'
    BY <1>25 DEF Finish, Goto, agentVars, TypeInv, TypeOK, Requested, ItemTaken
  <2>6. QED
    BY <2>4, <2>5 DEF TypeInv
<1>26. ASSUME NEW s \in Streams, ServerCancels(s) PROVE TypeInv'
  <2>1. \E from \in PC \ {"idle"}, to \in PC \ {"idle", "checking"} :
          pc[s] = from /\ pc' = [pc EXCEPT ![s] = to]
    BY <1>26 DEF ServerCancels, Goto, PC
  <2>2. task' \in [Streams -> Task]
    BY <1>26, CancelTaskType DEF ServerCancels
  <2>3. QED
    BY <1>26, <2>1, <2>2, MoveKeepsTypes DEF ServerCancels
<1>27. ASSUME NEW s \in Streams, Agent(s) PROVE TypeInv'
  <2>1. ASSUME NEW e \in {"text_delta", "tool_event", "segment"}, AgentReports(s, e)
        PROVE TypeInv'
    <3>1. e \in QueueItem
      BY <2>1 DEF QueueItem, BodyEvent
    <3>2. queue' \in [Streams -> Seq(QueueItem)] /\ made' \in [Streams -> 0 .. MaxEvents]
      BY <2>1, <3>1, MaxEventsAssumption DEF AgentReports, TypeInv, TypeOK
    <3>3. TypeOK' /\ Requested'
      BY <2>1, <3>2 DEF AgentReports, storeVars, TypeInv, TypeOK, Requested
    <3>4. ItemTaken'
      <4> SUFFICES ASSUME NEW t \in Streams, pc'[t] = "checking"
                   PROVE queue'[t] # << >> /\ Head(queue'[t]) # "segment"
        BY DEF ItemTaken
      <4>1. queue[t] # << >> /\ Head(queue[t]) # "segment" /\ queue[t] \in Seq(QueueItem)
        BY <2>1 DEF AgentReports, TypeInv, TypeOK, ItemTaken
      <4>2. queue'[t] = queue[t] \/ queue'[t] = Append(queue[t], e)
        BY <2>1 DEF AgentReports, TypeInv, TypeOK
      <4>3. QED
        BY <3>1, <4>1, <4>2
    <3>5. QED
      BY <3>3, <3>4 DEF TypeInv
  <2>2. ASSUME NEW outcome \in Task, NEW tail \in Seq(QueueItem),
               AgentEnds(s, outcome, tail)
        PROVE TypeInv'
    <3>1. queue' \in [Streams -> Seq(QueueItem)]
      BY <2>2 DEF AgentEnds, TypeInv, TypeOK
    <3>2. task' \in [Streams -> Task]
      BY <2>2, OverFacts DEF AgentEnds, TaskLeaves
    <3>2a. TypeOK' /\ Requested'
      BY <2>2, <3>1, <3>2 DEF AgentEnds, storeVars, TypeInv, TypeOK, Requested
    <3>3. ItemTaken'
      <4> SUFFICES ASSUME NEW t \in Streams, pc'[t] = "checking"
                   PROVE queue'[t] # << >> /\ Head(queue'[t]) # "segment"
        BY DEF ItemTaken
      <4>1. queue[t] # << >> /\ Head(queue[t]) # "segment" /\ queue[t] \in Seq(QueueItem)
        BY <2>2 DEF AgentEnds, TypeInv, TypeOK, ItemTaken
      <4>2. queue'[t] = queue[t] \/ queue'[t] = queue[t] \o tail
        BY <2>2 DEF AgentEnds, TypeInv, TypeOK
      <4>3. QED
        BY <4>1, <4>2
    <3>4. QED
      BY <3>2a, <3>3 DEF TypeInv
  <2>3. ASSUME AgentCancelled(s) PROVE TypeInv'
    <3>1. task' \in [Streams -> Task]
      BY <2>3, AgentEndFacts DEF AgentEnd, TaskLeaves
    <3>2. QED
      BY <2>3, <3>1 DEF AgentCancelled, storeVars, TypeInv, TypeOK, Requested, ItemTaken
  <2>4. /\ << >> \in Seq(QueueItem)
        /\ <<"form_request">> \in Seq(QueueItem)
        /\ <<"unexecuted", "tool_event">> \in Seq(QueueItem)
    BY DEF QueueItem, BodyEvent
  <2>5. "ok" \in Task /\ "error" \in Task /\ "form" \in Task
    BY DEF Task, TaskDone
  <2>6. AgentEnd(s) => TypeInv'
    BY <2>2, <2>3, <2>4, <2>5
       DEF AgentEnd, AgentSucceeds, AgentFails, AgentAsksUser, AgentLeavesToolCall
  <2>7. QED
    BY <1>27, <2>1, <2>6 DEF Agent
<1>28. CASE UNCHANGED vars
  BY <1>28 DEF vars, TypeInv, TypeOK, Requested, ItemTaken
<1>29. QED
  BY <1>1, <1>2, <1>3, <1>4, <1>5, <1>6, <1>7, <1>8, <1>9, <1>9a, <1>10, <1>11, <1>12,
     <1>13, <1>14, <1>15, <1>16, <1>17, <1>18, <1>19, <1>20, <1>21, <1>22, <1>23,
     <1>24, <1>25, <1>26, <1>27, <1>28
     DEF Next, StreamSteps

(* Every variable keeps its type, last_run_id only ever names a stored run, *)
(* and what a stream forwards is an event a client may see.                 *)
THEOREM TypeCorrect == Spec => []TypeOK
<1>1. TypeInv => TypeOK
  BY DEF TypeInv
<1>2. QED
  BY TypeInit, TypeStep, <1>1, PTL DEF Spec

-----------------------------------------------------------------------------
(* What a step does to the records: no run is revived, and none becomes     *)
(* completed once its cancellation has been requested.                      *)

Progresses(old, new) ==
  /\ IsTerminal(old) => IsTerminal(new)
  /\ Sound(old) => Sound(new)

LEMMA EmitProgresses ==
  ASSUME TypeInv, NEW s \in Streams, NEW e \in RunEvent, Emit(s, e),
         e = "run_completed" => ~run[RunOf[s]].cancelRequested
  PROVE  \A r \in Runs : Progresses(run[r], run'[r])
<1>1. RunOf[s] \in Runs /\ run[RunOf[s]] \in Record
  BY RunOfAssumption DEF TypeInv, TypeOK
<1>2. Progresses(run[RunOf[s]], UpdateFromEvent(run[RunOf[s]], e))
  BY <1>1, UpdateFacts DEF Progresses
<1>3. run' = [run EXCEPT ![RunOf[s]] = UpdateFromEvent(run[RunOf[s]], e)]
  BY DEF Emit
<1>4. \A r \in Runs : run'[r] = IF r = RunOf[s] THEN UpdateFromEvent(run[RunOf[s]], e)
                                               ELSE run[r]
  BY <1>3 DEF TypeInv, TypeOK
<1>5. QED
  BY <1>2, <1>4 DEF Progresses

LEMMA RecordStep ==
  TypeInv /\ [Next]_vars => \A r \in Runs : Progresses(run[r], run'[r])
<1> SUFFICES ASSUME TypeInv, [Next]_vars
             PROVE  \A r \in Runs : Progresses(run[r], run'[r])
  OBVIOUS
<1> DEFINE Goal == \A r \in Runs : Progresses(run[r], run'[r])
<1>0. ASSUME UNCHANGED run PROVE Goal
  BY <1>0 DEF Progresses
<1>1. ASSUME NEW r \in Runs, CancelRun(r) PROVE Goal
  <2>1. run[r] \in Record
    BY DEF TypeInv, TypeOK
  <2>2. Progresses(run[r], RequestCancel(run[r]))
    BY <2>1, RequestCancelFacts DEF Progresses, Sound, IsTerminal
  <2>3. QED
    BY <1>1, <2>2 DEF CancelRun, TypeInv, TypeOK, Progresses
<1>2. ASSUME NEW s \in Streams, BeginPreempted(s) PROVE Goal
  <2>1. RunOf[s] \in Runs /\ run[RunOf[s]] \in Record /\ "run_cancelled" \in RunEvent
    BY RunOfAssumption DEF TypeInv, TypeOK, RunEvent, TerminalEvent
  <2>2. Progresses(run[RunOf[s]], AppendEvent(run[RunOf[s]], "run_cancelled"))
    BY <2>1, AppendEventType DEF Progresses, Sound, IsTerminal
  <2>3. QED
    BY <1>2, <2>1, <2>2 DEF BeginPreempted, TypeInv, TypeOK, Progresses
<1>3. ASSUME NEW s \in Streams, Finish(s) PROVE Goal
  <2>1. RunOf[s] \in Runs /\ run[RunOf[s]] \in Record
    BY RunOfAssumption DEF TypeInv, TypeOK
  <2>2. Progresses(run[RunOf[s]], MarkFailed(run[RunOf[s]], FALSE))
    BY <2>1, MarkFacts DEF Progresses, Sound, IsTerminal, TerminalStatus
  <2>3. QED
    BY <1>3, <2>1, <2>2 DEF Finish, TypeInv, TypeOK, Progresses
<1>4. ASSUME NEW s \in Streams, Complete(s) PROVE Goal
  <2>1. ~run[RunOf[s]].cancelRequested
    BY <1>4 DEF Complete, Stopped
  <2>2. "run_completed" \in RunEvent
    BY DEF RunEvent, TerminalEvent
  <2>3. QED
    BY <1>4, <2>1, <2>2, EmitProgresses DEF Complete
<1>5. ASSUME NEW s \in Streams, Forward(s) PROVE Goal
  <2> DEFINE e == Head(queue[s])
  <2>1. queue[s] \in Seq(QueueItem) /\ queue[s] # << >> /\ e # "segment"
    BY <1>5 DEF Forward, Goto, TypeInv, TypeOK, ItemTaken
  <2>2. e \in BodyEvent
    BY <2>1 DEF QueueItem
  <2>3. e \in RunEvent /\ e # "run_completed"
    BY <2>2 DEF BodyEvent, RunEvent
  <2>4. QED
    BY <1>5, <2>3, EmitProgresses DEF Forward
<1>6. ASSUME NEW s \in Streams,
             NEW e \in {"run_started", "run_metadata", "run_diagnostic",
                        "run_failed", "awaiting_input", "run_cancelled"},
             Emit(s, e)
      PROVE Goal
  <2>1. e \in RunEvent /\ e # "run_completed"
    BY DEF RunEvent, TerminalEvent
  <2>2. QED
    BY <1>6, <2>1, EmitProgresses
<1>7. ASSUME NEW s \in Streams, StreamSteps(s) PROVE Goal
  <2>1. CASE \/ Begin(s) \/ PrepareOk(s) \/ Refuse(s) \/ Diagnose(s) \/ EmitFailed(s)
             \/ ExecutionFails(s) \/ ExecutionCancelled(s) \/ AwaitUserInput(s)
             \/ CloseCancelled(s)
    BY <2>1, <1>6 DEF Begin, PrepareOk, Refuse, Diagnose, EmitFailed,
                      ExecutionFails, ExecutionCancelled, AwaitUserInput, CloseCancelled
  <2>2. CASE \/ Prepare(s) \/ OpenExecution(s) \/ Resume(s) \/ SkipSegment(s) \/ Take(s)
             \/ OutputReady(s) \/ PassCheck(s) \/ StopExecution(s) \/ Escape(s)
    BY <2>2, <1>0 DEF Prepare, OpenExecution, Resume, SkipSegment, Take, OutputReady,
                      PassCheck, StopExecution, Escape, storeVars
  <2>3. QED
    BY <1>2, <1>3, <1>4, <1>5, <1>7, <2>1, <2>2 DEF StreamSteps
<1>8. ASSUME NEW s \in Streams, OpenStream(s) \/ Disconnect(s) \/ ServerCancels(s) \/ Agent(s)
      PROVE Goal
  BY <1>8, <1>0 DEF OpenStream, Disconnect, ServerCancels, Agent, AgentReports, AgentEnd,
                    AgentEnds, AgentSucceeds, AgentFails, AgentAsksUser,
                    AgentLeavesToolCall, AgentCancelled, storeVars
<1>9. ASSUME NEW r \in Runs, StartRun(r) PROVE Goal
  BY <1>9, <1>0 DEF StartRun
<1>10. CASE UNCHANGED vars
  BY <1>10, <1>0 DEF vars
<1>11. QED
  BY <1>1, <1>7, <1>8, <1>9, <1>10 DEF Next

(* A cancellation that was accepted is never answered with a completion:    *)
(* the last check and run_completed are one step of the loop, and a record  *)
(* that is completed accepts no cancellation.                               *)
THEOREM CancelledNeverCompletes == Spec => []NeverCompletedAfterCancel
<1> DEFINE Inv == TypeInv /\ NeverCompletedAfterCancel
<1>1. Init => Inv
  <2>1. Init => NeverCompletedAfterCancel
    BY DEF Init, NewRecord, NeverCompletedAfterCancel
  <2>2. QED
    BY <2>1, TypeInit
<1>2. Inv /\ [Next]_vars => Inv'
  <2>1. Inv /\ [Next]_vars => NeverCompletedAfterCancel'
    BY RecordStep DEF NeverCompletedAfterCancel, Progresses, Sound
  <2>2. QED
    BY <2>1, TypeStep
<1>3. Inv => NeverCompletedAfterCancel
  OBVIOUS
<1> HIDE DEF Inv
<1>4. QED
  BY <1>1, <1>2, <1>3, PTL DEF Spec

(* No step revives a run that has ended, in either store and with any       *)
(* number of streams on it.                                                 *)
THEOREM TerminalStaysTerminal == Spec => TerminalAbsorbing
<1>1. TypeInv /\ [Next]_vars
        => [\A r \in Runs : IsTerminal(run[r]) => IsTerminal(run'[r])]_vars
  BY RecordStep DEF Progresses
<1>2. QED
  BY TypeInit, TypeStep, <1>1, PTL DEF Spec, TerminalAbsorbing

-----------------------------------------------------------------------------
(* No agent task outlives its stream: an inductive invariant by itself.     *)
THEOREM AgentStopsWithStream == Spec => []AgentNeverOutlivesStream
<1> DEFINE Inv == TypeInv /\ AgentNeverOutlivesStream
<1>1. Init => Inv
  <2>1. Init => AgentNeverOutlivesStream
    BY DEF Init, AgentNeverOutlivesStream
  <2>2. QED
    BY <2>1, TypeInit
<1>2. ASSUME TypeInv, AgentNeverOutlivesStream, [Next]_vars
      PROVE  AgentNeverOutlivesStream'
  <2> USE <1>2 DEF AgentNeverOutlivesStream, Goto, storeVars, agentVars
  <2>1. pc \in [Streams -> PC] /\ task \in [Streams -> Task]
    BY DEF TypeInv, TypeOK
  <2>2. ASSUME NEW s \in Streams, StreamSteps(s) PROVE AgentNeverOutlivesStream'
    <3>1. CASE \/ BeginPreempted(s) \/ Begin(s) \/ Prepare(s) \/ PrepareOk(s) \/ Refuse(s)
               \/ Diagnose(s) \/ EmitFailed(s) \/ Resume(s) \/ SkipSegment(s) \/ Take(s)
               \/ Forward(s)
      BY <2>1, <3>1 DEF BeginPreempted, Begin, Prepare, PrepareOk, Refuse, Diagnose,
                        EmitFailed, Resume, SkipSegment, Take, Forward
    <3>2. CASE \/ OutputReady(s) \/ ExecutionFails(s) \/ AwaitUserInput(s) \/ PassCheck(s)
               \/ Complete(s) \/ Escape(s) \/ CloseCancelled(s) \/ ExecutionCancelled(s)
               \/ Finish(s)
      BY <2>1, <3>2 DEF OutputReady, ExecutionFails, AwaitUserInput, PassCheck, Complete,
                        Escape, CloseCancelled, ExecutionCancelled, Finish, Drained, TaskDone
    <3>3. CASE OpenExecution(s) \/ StopExecution(s)
      BY <2>1, <3>3 DEF OpenExecution, StopExecution, CancelTask
    <3>4. QED
      BY <2>2, <3>1, <3>2, <3>3 DEF StreamSteps
  <2>3. ASSUME NEW s \in Streams, ServerCancels(s) PROVE AgentNeverOutlivesStream'
    BY <2>1, <2>3 DEF ServerCancels, CancelTask
  <2>4. ASSUME NEW s \in Streams, Agent(s) PROVE AgentNeverOutlivesStream'
    <3>1. CASE AgentEnd(s)
      <4>1. PICK outcome \in TaskDone : TaskLeaves(s, outcome)
        BY <3>1, AgentEndFacts
      <4>2. \A t \in Streams : task'[t] = "running" => task[t] = "running"
        BY <4>1 DEF TaskLeaves, TaskDone
      <4>3. pc' = pc
        BY <3>1, AgentEndFacts
      <4>4. QED
        BY <4>2, <4>3
    <3>2. CASE ~AgentEnd(s)
      BY <2>1, <2>4, <3>2 DEF Agent, AgentReports
    <3>3. QED
      BY <3>1, <3>2
  <2>5. ASSUME NEW s \in Streams, OpenStream(s) \/ Disconnect(s) PROVE AgentNeverOutlivesStream'
    BY <2>1, <2>5 DEF OpenStream, Disconnect
  <2>6. ASSUME NEW r \in Runs, StartRun(r) \/ CancelRun(r) PROVE AgentNeverOutlivesStream'
    BY <2>6 DEF StartRun, CancelRun
  <2>7. CASE UNCHANGED vars
    BY <2>7 DEF vars
  <2>8. QED
    BY <2>2, <2>3, <2>4, <2>5, <2>6, <2>7 DEF Next
<1>3. Inv /\ [Next]_vars => Inv'
  BY <1>2, TypeStep
<1>4. Inv => AgentNeverOutlivesStream
  OBVIOUS
<1> HIDE DEF Inv
<1>5. QED
  BY <1>1, <1>3, <1>4, PTL DEF Spec

-----------------------------------------------------------------------------
(* The stream contract.  What a stream has sent follows from where it is    *)
(* suspended; a stream that is closing has ended its run.                   *)

Executing == {"prepared", "iterating", "checking", "yielded", "check_done",
              "check_output", "check_final", "unwinding"}

Closing == {"closing", "preempted", "closed"}

Shape(s) ==
  /\ pc[s] \in {"idle", "opened"} => sent[s] = << >>
  /\ pc[s] \in {"started", "preparing"} => sent[s] = <<"run_started">>
  /\ pc[s] \in Executing => Contract!Live(s) /\ Contract!Described(s)
  /\ pc[s] = "failing" => Contract!Open(s)
  /\ pc[s] \in Closing => /\ sent[s] # << >>
                         /\ Contract!Final(s) \in TerminalEvent
                         /\ IsTerminal(run[RunOf[s]])
  /\ preempt[s] => IsTerminal(run[RunOf[s]])

StreamInv == TypeInv /\ \A s \in Streams : Shape(s)

LEMMA SameTerminalEvents == Contract!TerminalEvent = TerminalEvent
BY DEF Contract!TerminalEvent, TerminalEvent

LEMMA SameBodyEvents == Contract!BodyEvent = BodyEvent
BY DEF Contract!BodyEvent, BodyEvent

LEMMA AppendFacts ==
  ASSUME NEW q \in Seq(RunEvent), NEW e \in RunEvent
  PROVE  /\ Append(q, e) # << >>
         /\ Append(q, e)[Len(Append(q, e))] = e
         /\ Len(q) > 1 => Len(Append(q, e)) > 1 /\ Append(q, e)[2] = q[2]
         /\ q = << >> => Append(q, e) = <<e>>
<1>1. /\ Len(Append(q, e)) = Len(q) + 1
      /\ \A i \in 1 .. Len(q) : Append(q, e)[i] = q[i]
      /\ Append(q, e)[Len(q) + 1] = e
      /\ Len(q) \in Nat
  OBVIOUS
<1>2. Append(q, e) # << >>
  BY <1>1
<1>3. ASSUME Len(q) > 1 PROVE Len(Append(q, e)) > 1 /\ Append(q, e)[2] = q[2]
  BY <1>1, <1>3
<1>4. q = << >> => Append(q, e) = <<e>>
  OBVIOUS
<1>5. QED
  BY <1>1, <1>2, <1>3, <1>4

(* A stream that a step leaves where it is keeps its shape.                 *)
LEMMA ShapeKept ==
  ASSUME StreamInv, [Next]_vars, NEW t \in Streams,
         pc'[t] = pc[t], sent'[t] = sent[t],
         preempt'[t] = preempt[t]
  PROVE  Shape(t)'
<1>1. Shape(t) /\ RunOf[t] \in Runs
  BY RunOfAssumption DEF StreamInv
<1>2. IsTerminal(run[RunOf[t]]) => IsTerminal(run'[RunOf[t]])
  BY <1>1, RecordStep DEF StreamInv, Progresses
<1>3. QED
  BY <1>1, <1>2, SameTerminalEvents DEF Shape, Contract!Live, Contract!Described, Contract!Open, Contract!Final,
                    IsTerminal

(* Sending an event: what the reader has seen afterwards.                   *)
LEMMA SendFacts ==
  ASSUME StreamInv, NEW s \in Streams, NEW e \in RunEvent,
         sent' = [sent EXCEPT ![s] = Append(@, e)]
  PROVE  /\ Contract!Receive(s, e)
         /\ sent'[s] # << >>
         /\ Contract!Final(s)' = e
         /\ Contract!Described(s) => Contract!Described(s)'
         /\ sent[s] = << >> => sent'[s] = <<e>>
<1>1. sent[s] \in Seq(RunEvent) /\ sent'[s] = Append(sent[s], e)
  BY DEF StreamInv, TypeInv, TypeOK
<1>2. QED
  BY <1>1, AppendFacts DEF Contract!Receive, Contract!Final, Contract!Described

(* One step of one stream: its own shape is shown action by action, those   *)
(* of the others are kept.                                                  *)
LEMMA ShapeOfOthers ==
  ASSUME StreamInv, [Next]_vars, NEW s \in Streams, NEW to, NEW q,
         pc' = [pc EXCEPT ![s] = to],
         sent' = [sent EXCEPT ![s] = q] \/ sent' = sent,
         preempt' = preempt, Shape(s)'
  PROVE  \A t \in Streams : Shape(t)'
<1>1. ASSUME NEW t \in Streams, t # s PROVE Shape(t)'
  <2>1. pc'[t] = pc[t] /\ sent'[t] = sent[t] /\ preempt'[t] = preempt[t]
    BY <1>1 DEF StreamInv, TypeInv, TypeOK
  <2>2. QED
    BY <2>1, ShapeKept
<1>2. QED
  BY <1>1

(* A step that emits e: where it may lead, and what the contract asks.      *)
LEMMA EmitShape ==
  ASSUME StreamInv, [Next]_vars, NEW s \in Streams, NEW e \in RunEvent, Emit(s, e),
         NEW to \in PC, pc' = [pc EXCEPT ![s] = to],
         \/ to = "started" /\ sent[s] = << >> /\ e = "run_started"
         \/ to = "prepared" /\ sent[s] = <<"run_started">> /\ e = "run_metadata"
         \/ to = "yielded" /\ Contract!Described(s) /\ e \in BodyEvent
         \/ to = "failing" /\ e = "run_diagnostic"
         \/ to = "closing" /\ e \in TerminalEvent
  PROVE  /\ \A t \in Streams : Shape(t)'
         /\ Contract!Receive(s, e)
<1>1. /\ sent' = [sent EXCEPT ![s] = Append(@, e)]
      /\ preempt' = preempt
  BY DEF Emit
<1>2. /\ Contract!Receive(s, e)
      /\ sent'[s] # << >>
      /\ Contract!Final(s)' = e
      /\ Contract!Described(s) => Contract!Described(s)'
      /\ sent[s] = << >> => sent'[s] = <<e>>
  BY <1>1, SendFacts
<1>3. pc'[s] = to
  BY DEF StreamInv, TypeInv, TypeOK
<1>4. RunOf[s] \in Runs /\ run[RunOf[s]] \in Record
  BY RunOfAssumption DEF StreamInv, TypeInv, TypeOK
<1>5. preempt'[s] => IsTerminal(run'[RunOf[s]])
  BY <1>1, <1>4, RecordStep DEF StreamInv, Shape, Progresses
<1>6. e \in TerminalEvent => IsTerminal(run'[RunOf[s]])
  BY <1>4, UpdateFacts DEF Emit, StreamInv, TypeInv, TypeOK
<1>7. sent[s] = <<"run_started">> => Len(sent'[s]) = 2 /\ sent'[s][2] = e
  BY <1>1 DEF StreamInv, TypeInv, TypeOK
<1>8. ASSUME to = "started" PROVE Shape(s)'
  BY <1>2, <1>3, <1>5, <1>8, SameTerminalEvents DEF Shape, Executing, Closing, IsTerminal, Contract!Live,
           Contract!Open, Contract!Final, Contract!Described
<1>9. ASSUME to = "prepared" PROVE Shape(s)'
  <2>1. Contract!Live(s)' /\ Contract!Described(s)'
    BY <1>2, <1>7, <1>9, SameTerminalEvents DEF Contract!Live, Contract!Open, Contract!Final, Contract!Described,
                            TerminalEvent
  <2>2. QED
    BY <1>3, <1>5, <1>9, <2>1, SameTerminalEvents DEF Shape, Executing, Closing, IsTerminal, Contract!Live,
           Contract!Open, Contract!Final, Contract!Described
<1>10. ASSUME to = "yielded" PROVE Shape(s)'
  <2>1. e \notin TerminalEvent \cup {"run_diagnostic"}
    BY <1>10 DEF BodyEvent, TerminalEvent
  <2>2. Contract!Live(s)' /\ Contract!Described(s)'
    BY <1>2, <1>10, <2>1, SameTerminalEvents DEF Contract!Live, Contract!Open
  <2>3. QED
    BY <1>3, <1>5, <1>10, <2>2, SameTerminalEvents DEF Shape, Executing, Closing, IsTerminal, Contract!Live,
           Contract!Open, Contract!Final, Contract!Described
<1>11. ASSUME to = "failing" PROVE Shape(s)'
  <2>1. Contract!Open(s)'
    BY <1>2, <1>11, SameTerminalEvents DEF Contract!Open, TerminalEvent
  <2>2. QED
    BY <1>3, <1>5, <1>11, <2>1, SameTerminalEvents DEF Shape, Executing, Closing, IsTerminal, Contract!Live,
           Contract!Open, Contract!Final, Contract!Described
<1>12. ASSUME to = "closing" PROVE Shape(s)'
  BY <1>2, <1>3, <1>5, <1>6, <1>12, SameTerminalEvents DEF Shape, Executing, Closing, IsTerminal, Contract!Live,
           Contract!Open, Contract!Final, Contract!Described
<1>13. Shape(s)'
  BY <1>8, <1>9, <1>10, <1>11, <1>12
<1>14. \A t \in Streams : Shape(t)'
  BY <1>1, <1>13, ShapeOfOthers
<1>15. QED
  BY <1>2, <1>14

(* A step that sends nothing moves the stream where its shape allows it.    *)
LEMMA MoveShape ==
  ASSUME StreamInv, [Next]_vars, NEW s \in Streams, NEW from \in PC, NEW to \in PC,
         pc[s] = from, pc' = [pc EXCEPT ![s] = to],
         UNCHANGED <<preempt, sent>>,
         \/ from \in Executing /\ to \in Executing
         \/ from = "started" /\ to = "preparing"
         \/ from \in Closing /\ to = "closed"
         \/ to \in {"escaped", "abandoned"}
  PROVE  \A t \in Streams : Shape(t)'
<1>1. pc'[s] = to
  BY DEF StreamInv, TypeInv, TypeOK
<1>2. Shape(s) /\ RunOf[s] \in Runs
  BY RunOfAssumption DEF StreamInv
<1>3. IsTerminal(run[RunOf[s]]) => IsTerminal(run'[RunOf[s]])
  BY <1>2, RecordStep DEF StreamInv, Progresses
<1>4. Shape(s)'
  BY <1>1, <1>2, <1>3, SameTerminalEvents DEF Shape, Executing, Closing, IsTerminal, Contract!Live, Contract!Open,
                          Contract!Final, Contract!Described
<1>5. QED
  BY <1>4, ShapeOfOthers

LEMMA StreamInit == Init => StreamInv /\ Contract!Init
<1> SUFFICES ASSUME Init PROVE StreamInv /\ Contract!Init
  OBVIOUS
<1>1. \A s \in Streams : Shape(s)
  BY DEF Init, Shape, Executing, Closing
<1>2. QED
  BY <1>1, TypeInit DEF StreamInv, Init, Contract!Init

LEMMA StreamStep == StreamInv /\ [Next]_vars => StreamInv' /\ [Contract!Next]_sent
<1> SUFFICES ASSUME StreamInv, [Next]_vars
             PROVE  (\A t \in Streams : Shape(t)') /\ [Contract!Next]_sent
  BY TypeStep DEF StreamInv
<1> DEFINE Goal == (\A t \in Streams : Shape(t)') /\ [Contract!Next]_sent
<1>0. /\ pc \in [Streams -> PC]
      /\ \A s \in Streams : Shape(s)
  BY DEF StreamInv, TypeInv, TypeOK
<1>1. ASSUME UNCHANGED <<pc, sent, preempt>> PROVE Goal
  BY <1>1, ShapeKept
<1>2. ASSUME NEW s \in Streams, OpenStream(s) PROVE Goal
  <2>1. pc' = [pc EXCEPT ![s] = "opened"] /\ sent' = sent
    BY <1>2 DEF OpenStream, Goto
  <2>2. preempt' = [preempt EXCEPT ![s] = NeverStarted(RunOf[s])]
    BY <1>2 DEF OpenStream
  <2>3. run' = run /\ pc[s] = "idle"
    BY <1>2 DEF OpenStream, Goto
  <2>4. ASSUME NEW t \in Streams, t # s PROVE Shape(t)'
    <3>1. pc'[t] = pc[t] /\ sent'[t] = sent[t] /\ preempt'[t] = preempt[t]
      BY <2>1, <2>2, <2>4 DEF StreamInv, TypeInv, TypeOK
    <3>2. QED
      BY <3>1, ShapeKept
  <2>5. pc'[s] = "opened" /\ sent'[s] = << >> /\ preempt'[s] = NeverStarted(RunOf[s])
    BY <1>0, <2>1, <2>2, <2>3 DEF Shape, StreamInv, TypeInv, TypeOK
  <2>6. NeverStarted(RunOf[s]) => IsTerminal(run'[RunOf[s]])
    BY <2>3 DEF NeverStarted, IsTerminal, TerminalStatus
  <2>7. Shape(s)'
    BY <2>5, <2>6 DEF Shape, Executing, Closing, IsTerminal
  <2>8. QED
    BY <2>1, <2>4, <2>7
<1>3. ASSUME NEW s \in Streams, BeginPreempted(s) PROVE Goal
  <2>1. /\ pc[s] = "opened"
        /\ pc' = [pc EXCEPT ![s] = "preempted"]
        /\ sent' = [sent EXCEPT ![s] = Append(@, "run_cancelled")]
        /\ preempt' = preempt
    BY <1>3 DEF BeginPreempted, Goto
  <2>2. "run_cancelled" \in RunEvent /\ "run_cancelled" \in TerminalEvent
    BY DEF RunEvent, TerminalEvent
  <2>3. Contract!Receive(s, "run_cancelled") /\ sent'[s] # << >>
        /\ Contract!Final(s)' = "run_cancelled" /\ sent[s] = << >>
    BY <1>0, <2>1, <2>2, SendFacts DEF Shape
  <2>4. RunOf[s] \in Runs
    BY RunOfAssumption
  <2>5. IsTerminal(run[RunOf[s]])
    BY <1>0, <1>3 DEF BeginPreempted, SeesPreemption, NeverStarted, Shape, IsTerminal,
                      TerminalStatus
  <2>6. IsTerminal(run'[RunOf[s]])
    BY <2>4, <2>5, RecordStep DEF StreamInv, Progresses
  <2>7. Shape(s)'
    BY <1>0, <2>1, <2>2, <2>3, <2>6 DEF Shape, Executing, Closing, IsTerminal, Contract!Final
  <2>8. \A t \in Streams : Shape(t)'
    BY <2>1, <2>7, ShapeOfOthers
  <2>9. Contract!Next
    BY <2>3 DEF Contract!Next, Contract!Preempted
  <2>10. QED
    BY <2>8, <2>9
<1>4. ASSUME NEW s \in Streams, Begin(s) PROVE Goal
  <2>1. sent[s] = << >> /\ "run_started" \in RunEvent /\ "started" \in PC
    BY <1>0, <1>4 DEF Begin, Goto, Shape, RunEvent, PC, AtYield
  <2>2. (\A t \in Streams : Shape(t)') /\ Contract!Receive(s, "run_started")
    BY <1>4, <2>1, EmitShape DEF Begin, Goto
  <2>3. QED
    BY <2>1, <2>2 DEF Contract!Next, Contract!Announce
<1>5. ASSUME NEW s \in Streams, PrepareOk(s) PROVE Goal
  <2>1. sent[s] = <<"run_started">> /\ "run_metadata" \in RunEvent /\ "prepared" \in PC
    BY <1>0, <1>5 DEF PrepareOk, Goto, Shape, RunEvent, PC, AtYield
  <2>2. (\A t \in Streams : Shape(t)') /\ Contract!Receive(s, "run_metadata")
    BY <1>5, <2>1, EmitShape DEF PrepareOk, Goto
  <2>3. QED
    BY <2>1, <2>2 DEF Contract!Next, Contract!Describe
<1>6. ASSUME NEW s \in Streams, pc[s] \in Executing PROVE Contract!Live(s) /\ Contract!Described(s)
  BY <1>0, <1>6 DEF Shape
<1>7. ASSUME NEW s \in Streams, pc[s] \in {"started", "preparing"} PROVE Contract!Live(s)
  BY <1>0, <1>7, SameTerminalEvents
     DEF Shape, Contract!Live, Contract!Open, Contract!Final, TerminalEvent
<1>8. ASSUME NEW s \in Streams, Diagnose(s) \/ ExecutionFails(s) PROVE Goal
  <2>1. /\ pc[s] \in {"preparing", "prepared", "iterating"}
        /\ pc' = [pc EXCEPT ![s] = "failing"]
        /\ Emit(s, "run_diagnostic")
    BY <1>8 DEF Diagnose, ExecutionFails, Goto
  <2>2. Contract!Live(s)
    BY <2>1, <1>6, <1>7 DEF Executing
  <2>3. (\A t \in Streams : Shape(t)') /\ Contract!Receive(s, "run_diagnostic")
    BY <2>1, EmitShape DEF RunEvent, PC, AtYield
  <2>4. QED
    BY <2>2, <2>3 DEF Contract!Next, Contract!Diagnose
<1>9. ASSUME NEW s \in Streams, Refuse(s) \/ EmitFailed(s) PROVE Goal
  <2>1. /\ pc[s] \in {"preparing", "prepared", "failing"}
        /\ pc' = [pc EXCEPT ![s] = "closing"]
        /\ Emit(s, "run_failed")
    BY <1>9 DEF Refuse, EmitFailed, Goto
  <2>2. Contract!Open(s)
    BY <1>0, <2>1, <1>7 DEF Shape, Executing, Contract!Live
  <2>3. (\A t \in Streams : Shape(t)') /\ Contract!Receive(s, "run_failed")
    BY <2>1, EmitShape DEF RunEvent, TerminalEvent, PC, AtYield
  <2>4. QED
    BY <2>2, <2>3 DEF Contract!Next, Contract!Fail
<1>10. ASSUME NEW s \in Streams, AwaitUserInput(s) PROVE Goal
  <2>1. /\ pc[s] = "iterating"
        /\ pc' = [pc EXCEPT ![s] = "closing"]
        /\ Emit(s, "awaiting_input")
    BY <1>10 DEF AwaitUserInput, Goto
  <2>2. Contract!Live(s) /\ Contract!Described(s)
    BY <2>1, <1>6 DEF Executing
  <2>3. (\A t \in Streams : Shape(t)') /\ Contract!Receive(s, "awaiting_input")
    BY <2>1, EmitShape DEF RunEvent, TerminalEvent, PC, AtYield
  <2>4. QED
    BY <2>2, <2>3 DEF Contract!Next, Contract!Await
<1>11. ASSUME NEW s \in Streams, Complete(s) \/ CloseCancelled(s) \/ ExecutionCancelled(s)
       PROVE  Goal
  <2>1. PICK e \in {"run_completed", "run_cancelled"} :
          /\ pc[s] \in {"check_final", "unwinding", "iterating"}
          /\ pc' = [pc EXCEPT ![s] = "closing"]
          /\ Emit(s, e)
    BY <1>11 DEF Complete, CloseCancelled, ExecutionCancelled, Goto
  <2>2. Contract!Live(s) /\ Contract!Described(s)
    BY <2>1, <1>6 DEF Executing
  <2>3. (\A t \in Streams : Shape(t)') /\ Contract!Receive(s, e)
    BY <2>1, EmitShape DEF RunEvent, TerminalEvent, PC, AtYield
  <2>4. QED
    BY <2>2, <2>3 DEF Contract!Next, Contract!Close
<1>12. ASSUME NEW s \in Streams, Forward(s) PROVE Goal
  <2> DEFINE e == Head(queue[s])
  <2>1. /\ pc[s] = "checking"
        /\ pc' = [pc EXCEPT ![s] = "yielded"]
        /\ Emit(s, e)
    BY <1>12 DEF Forward, Goto
  <2>2. queue[s] \in Seq(QueueItem) /\ queue[s] # << >> /\ e # "segment"
    BY <2>1 DEF StreamInv, TypeInv, TypeOK, ItemTaken
  <2>3. e \in BodyEvent
    BY <2>2 DEF QueueItem
  <2>4. Contract!Live(s) /\ Contract!Described(s)
    BY <2>1, <1>6 DEF Executing
  <2>5. e \in RunEvent /\ "yielded" \in PC
    BY <2>3 DEF RunEvent, PC, AtYield
  <2> HIDE DEF e
  <2>6. (\A t \in Streams : Shape(t)') /\ Contract!Receive(s, e)
    BY <2>1, <2>3, <2>4, <2>5, EmitShape
  <2>7. QED
    BY <2>3, <2>4, <2>6, SameBodyEvents DEF Contract!Next, Contract!Report
<1>13. ASSUME NEW s \in Streams,
              \/ Prepare(s) \/ OpenExecution(s) \/ Resume(s) \/ Take(s) \/ OutputReady(s)
              \/ PassCheck(s) \/ StopExecution(s) \/ Escape(s) \/ Finish(s) \/ ServerCancels(s)
       PROVE  Goal
  <2>1. UNCHANGED <<preempt, sent>>
    BY <1>13 DEF Prepare, OpenExecution, Resume, Take, OutputReady, PassCheck, StopExecution,
                 Escape, Finish, ServerCancels
  <2>2. \E from \in PC, to \in PC :
          /\ pc[s] = from /\ pc' = [pc EXCEPT ![s] = to]
          /\ \/ from \in Executing /\ to \in Executing
             \/ from = "started" /\ to = "preparing"
             \/ from \in Closing /\ to = "closed"
             \/ to \in {"escaped", "abandoned"}
    BY <1>13 DEF Prepare, OpenExecution, Resume, Take, OutputReady, PassCheck, StopExecution,
                 Escape, Finish, ServerCancels, Goto, PC, AtYield, AtAwait, Ended, Executing,
                 Closing
  <2>3. QED
    BY <2>1, <2>2, MoveShape
<1>14. ASSUME NEW s \in Streams, SkipSegment(s) \/ Disconnect(s) \/ Agent(s) PROVE Goal
  BY <1>14, <1>1 DEF SkipSegment, Disconnect, Agent, AgentReports, AgentEnd, AgentEnds,
                     AgentSucceeds, AgentFails, AgentAsksUser, AgentLeavesToolCall,
                     AgentCancelled
<1>15. ASSUME NEW r \in Runs, StartRun(r) \/ CancelRun(r) PROVE Goal
  BY <1>15, <1>1 DEF StartRun, CancelRun
<1>16. CASE UNCHANGED vars
  BY <1>16, <1>1 DEF vars
<1>17. ASSUME NEW s \in Streams, StreamSteps(s) PROVE Goal
  BY <1>17, <1>3, <1>4, <1>5, <1>8, <1>9, <1>10, <1>11, <1>12, <1>13, <1>14 DEF StreamSteps
<1>18. QED
  BY <1>2, <1>13, <1>14, <1>15, <1>16, <1>17 DEF Next

(* The implementation keeps the contract: whatever the stores, the agents,  *)
(* the cancellations and the clients do, every answer to run/stream is a    *)
(* sequence of events the contract allows.                                  *)
THEOREM ImplementsContract == Spec => StreamContractHolds
<1>1. QED
  BY StreamInit, StreamStep, PTL DEF Spec, StreamContractHolds, Contract!Spec

(* A stream that returned has sent a terminal event last, and its run has   *)
(* ended in the store.                                                      *)
THEOREM ClosedRunsHaveEnded == Spec => []ClosedMeansTerminal
<1>1. StreamInv => ClosedMeansTerminal
  BY DEF StreamInv, Shape, Closing, Contract!Final, ClosedMeansTerminal
<1>2. QED
  BY StreamInit, StreamStep, <1>1, PTL DEF Spec

-----------------------------------------------------------------------------
(* A run cancelled while it was pending.  A run that has not started is     *)
(* pending or was cancelled at once, which its record remembers; a stream   *)
(* that has begun belongs to a run that has started, or, on copies, to one  *)
(* whose cancellation the next check will see.                              *)

StartedOrNot(r) ==
  ~r.started => r.status = "pending" \/ (r.status = "cancelled" /\ r.cancelRequested)

Starts(old, new) ==
  /\ old.started => new.started
  /\ old.cancelRequested => new.cancelRequested
  /\ StartedOrNot(old) => StartedOrNot(new)

LEMMA UpdateStarts ==
  ASSUME NEW r \in Record, NEW e \in RunEvent
  PROVE  /\ Starts(r, UpdateFromEvent(r, e))
         /\ e = "run_started" /\ ~IsTerminal(r) => UpdateFromEvent(r, e).started
<1> DEFINE logged == AppendEvent(r, e)
           new    == UpdateFromEvent(r, e)
<1>1. /\ logged \in Record
      /\ logged.status = r.status
      /\ logged.started = r.started
      /\ logged.cancelRequested = r.cancelRequested
  BY DEF AppendEvent, Record
<1>2. /\ Starts(logged, MarkStreaming(logged))
      /\ ~IsTerminal(logged) => MarkStreaming(logged).started
  <2> HIDE DEF logged
  <2>1. QED
    BY <1>1 DEF MarkStreaming, Record, Starts, StartedOrNot
<1>3. /\ MarkCompleted(logged).started /\ MarkCancelled(logged).started
      /\ \A awaiting \in BOOLEAN : MarkFailed(logged, awaiting).started
  <2> HIDE DEF logged
  <2>1. QED
    BY <1>1 DEF MarkCompleted, MarkCancelled, MarkFailed, MarkTerminal, Record
<1>4. LET Kept(m) == logged.cancelRequested => m.cancelRequested
      IN  /\ Kept(MarkCompleted(logged)) /\ Kept(MarkCancelled(logged))
          /\ \A awaiting \in BOOLEAN : Kept(MarkFailed(logged, awaiting))
  <2> HIDE DEF logged
  <2>1. QED
    BY <1>1 DEF MarkCompleted, MarkCancelled, MarkFailed, MarkTerminal, Record
<1>5. \/ new = logged
      \/ new = MarkStreaming(logged)
      \/ new.started /\ (logged.cancelRequested => new.cancelRequested)
  <2>1. \/ new = logged \/ new = MarkStreaming(logged)
        \/ new = MarkCompleted(logged) \/ new = MarkCancelled(logged)
        \/ \E awaiting \in BOOLEAN : new = MarkFailed(logged, awaiting)
    BY DEF UpdateFromEvent
  <2> HIDE DEF logged, new
  <2>2. QED
    BY <1>3, <1>4, <2>1
<1>6. e = "run_started" => new = MarkStreaming(logged)
  BY DEF UpdateFromEvent
<1> HIDE DEF logged, new
<1>7. IsTerminal(logged) <=> IsTerminal(r)
  BY <1>1 DEF IsTerminal
<1>8. Starts(r, logged)
  BY <1>1 DEF Starts, StartedOrNot
<1>9. Starts(r, new)
  BY <1>2, <1>5, <1>8 DEF Starts, StartedOrNot
<1>10. e = "run_started" /\ ~IsTerminal(r) => new.started
  BY <1>2, <1>6, <1>7
<1>11. QED
  BY <1>9, <1>10 DEF new

LEMMA EmitStarts ==
  ASSUME TypeInv, NEW s \in Streams, NEW e \in RunEvent, Emit(s, e)
  PROVE  \A r \in Runs : Starts(run[r], run'[r])
<1>1. RunOf[s] \in Runs /\ run[RunOf[s]] \in Record
  BY RunOfAssumption DEF TypeInv, TypeOK
<1>2. Starts(run[RunOf[s]], UpdateFromEvent(run[RunOf[s]], e))
  BY <1>1, UpdateStarts
<1>3. \A r \in Runs : run'[r] = IF r = RunOf[s] THEN UpdateFromEvent(run[RunOf[s]], e)
                                               ELSE run[r]
  BY DEF Emit, TypeInv, TypeOK
<1>4. QED
  BY <1>2, <1>3 DEF Starts

LEMMA StartsStep ==
  TypeInv /\ [Next]_vars => \A r \in Runs : Starts(run[r], run'[r])
<1> SUFFICES ASSUME TypeInv, [Next]_vars
             PROVE  \A r \in Runs : Starts(run[r], run'[r])
  OBVIOUS
<1> DEFINE Goal == \A r \in Runs : Starts(run[r], run'[r])
<1>0. ASSUME UNCHANGED run PROVE Goal
  BY <1>0 DEF Starts
<1>1. ASSUME NEW r \in Runs, CancelRun(r) PROVE Goal
  <2>1. run[r] \in Record
    BY DEF TypeInv, TypeOK
  <2>2. Starts(run[r], RequestCancel(run[r]))
    BY <2>1 DEF RequestCancel, Record, Status, Starts, StartedOrNot, IsTerminal,
                TerminalStatus
  <2>3. QED
    BY <1>1, <2>2 DEF CancelRun, TypeInv, TypeOK, Starts
<1>2. ASSUME NEW s \in Streams, BeginPreempted(s) PROVE Goal
  <2>1. RunOf[s] \in Runs /\ run[RunOf[s]] \in Record
    BY RunOfAssumption DEF TypeInv, TypeOK
  <2>2. Starts(run[RunOf[s]], AppendEvent(run[RunOf[s]], "run_cancelled"))
    BY <2>1 DEF AppendEvent, Record, Starts, StartedOrNot
  <2>3. QED
    BY <1>2, <2>1, <2>2 DEF BeginPreempted, TypeInv, TypeOK, Starts
<1>3. ASSUME NEW s \in Streams, Finish(s) PROVE Goal
  <2>1. RunOf[s] \in Runs /\ run[RunOf[s]] \in Record
    BY RunOfAssumption DEF TypeInv, TypeOK
  <2>2. /\ MarkFailed(run[RunOf[s]], FALSE).started
        /\ MarkFailed(run[RunOf[s]], FALSE).cancelRequested = run[RunOf[s]].cancelRequested
    BY <2>1 DEF MarkFailed, MarkTerminal, Record
  <2>3. QED
    BY <1>3, <2>1, <2>2 DEF Finish, TypeInv, TypeOK, Starts, StartedOrNot
<1>4. ASSUME NEW s \in Streams, Forward(s) PROVE Goal
  <2>1. queue[s] \in Seq(QueueItem) /\ queue[s] # << >> /\ Head(queue[s]) # "segment"
    BY <1>4 DEF Forward, Goto, TypeInv, TypeOK, ItemTaken
  <2>2. Head(queue[s]) \in RunEvent
    BY <2>1 DEF QueueItem, RunEvent
  <2>3. QED
    BY <1>4, <2>2, EmitStarts DEF Forward
<1>5. ASSUME NEW s \in Streams,
             NEW e \in {"run_started", "run_metadata", "run_diagnostic", "run_completed",
                        "run_failed", "awaiting_input", "run_cancelled"},
             Emit(s, e)
      PROVE Goal
  BY <1>5, EmitStarts DEF RunEvent, TerminalEvent
<1>6. ASSUME NEW s \in Streams, StreamSteps(s) PROVE Goal
  <2>1. CASE \/ Begin(s) \/ PrepareOk(s) \/ Refuse(s) \/ Diagnose(s) \/ EmitFailed(s)
             \/ ExecutionFails(s) \/ AwaitUserInput(s) \/ Complete(s) \/ CloseCancelled(s)
             \/ ExecutionCancelled(s)
    BY <2>1, <1>5 DEF Begin, PrepareOk, Refuse, Diagnose, EmitFailed, ExecutionFails,
                      AwaitUserInput, Complete, CloseCancelled, ExecutionCancelled
  <2>2. CASE \/ Prepare(s) \/ OpenExecution(s) \/ Resume(s) \/ SkipSegment(s) \/ Take(s)
             \/ OutputReady(s) \/ PassCheck(s) \/ StopExecution(s) \/ Escape(s)
    BY <2>2, <1>0 DEF Prepare, OpenExecution, Resume, SkipSegment, Take, OutputReady,
                      PassCheck, StopExecution, Escape, storeVars
  <2>3. QED
    BY <1>2, <1>3, <1>4, <1>6, <2>1, <2>2 DEF StreamSteps
<1>7. ASSUME NEW s \in Streams, OpenStream(s) \/ Disconnect(s) \/ ServerCancels(s) \/ Agent(s)
      PROVE Goal
  BY <1>7, <1>0 DEF OpenStream, Disconnect, ServerCancels, Agent, AgentReports, AgentEnd,
                    AgentEnds, AgentSucceeds, AgentFails, AgentAsksUser,
                    AgentLeavesToolCall, AgentCancelled, storeVars
<1>8. ASSUME NEW r \in Runs, StartRun(r) PROVE Goal
  BY <1>8, <1>0 DEF StartRun
<1>9. CASE UNCHANGED vars
  BY <1>9, <1>0 DEF vars
<1>10. QED
  BY <1>1, <1>6, <1>7, <1>8, <1>9 DEF Next

(* A stream that may hold an agent, or come to hold one.                    *)
Outside == {"idle", "opened", "preempted", "closed", "abandoned"}

Inside(s) == pc[s] \notin Outside \/ task[s] # "none"

HasBody(s) == \E i \in DOMAIN sent[s] : sent[s][i] \in BodyEvent

(* A stream only gets there by beginning.                                   *)
LEMMA EntersByBegin ==
  ASSUME TypeInv, [Next]_vars
  PROVE  \A t \in Streams : Inside(t)' => Inside(t) \/ Begin(t)
<1>1. pc \in [Streams -> PC] /\ task \in [Streams -> Task]
  BY DEF TypeInv, TypeOK
<1>2. ASSUME NEW s \in Streams, StreamSteps(s)
      PROVE  \A t \in Streams : Inside(t)' => Inside(t) \/ Begin(t)
  <2> USE <1>1 DEF Goto, storeVars, agentVars, Outside, Inside
  <2>1. CASE \/ BeginPreempted(s) \/ Prepare(s) \/ PrepareOk(s) \/ Refuse(s)
             \/ Diagnose(s) \/ EmitFailed(s) \/ Resume(s) \/ SkipSegment(s) \/ Take(s)
             \/ Forward(s)
    BY <2>1 DEF BeginPreempted, Prepare, PrepareOk, Refuse, Diagnose,
                EmitFailed, Resume, SkipSegment, Take, Forward
  <2>2. CASE \/ OutputReady(s) \/ ExecutionFails(s) \/ AwaitUserInput(s) \/ PassCheck(s)
             \/ Complete(s) \/ Escape(s) \/ CloseCancelled(s) \/ ExecutionCancelled(s)
             \/ Finish(s)
    BY <2>2 DEF OutputReady, ExecutionFails, AwaitUserInput, PassCheck, Complete,
                Escape, CloseCancelled, ExecutionCancelled, Finish
  <2>3. CASE OpenExecution(s) \/ StopExecution(s)
    BY <2>3 DEF OpenExecution, StopExecution, CancelTask
  <2>4. CASE Begin(s)
    <3>1. \A t \in Streams : t # s => pc'[t] = pc[t] /\ task'[t] = task[t]
      BY <2>4 DEF Begin
    <3>2. QED
      BY <2>4, <3>1
  <2>5. QED
    BY <1>2, <2>1, <2>2, <2>3, <2>4 DEF StreamSteps
<1>3. ASSUME NEW s \in Streams, OpenStream(s) \/ Disconnect(s) \/ ServerCancels(s) \/ Agent(s)
      PROVE  \A t \in Streams : Inside(t)' => Inside(t)
  <2> USE <1>1 DEF Goto, storeVars, agentVars, Outside, Inside
  <2>1. CASE OpenStream(s) \/ Disconnect(s)
    BY <2>1 DEF OpenStream, Disconnect
  <2>2. CASE ServerCancels(s)
    BY <2>2 DEF ServerCancels, CancelTask, AtYield
  <2>3. CASE AgentEnd(s)
    <3>1. PICK outcome \in TaskDone : TaskLeaves(s, outcome)
      BY <2>3, AgentEndFacts
    <3>2. pc' = pc /\ task[s] # "none"
      BY <2>3, AgentEndFacts
    <3>3. \A t \in Streams : task'[t] # "none" => task[t] # "none"
      BY <3>1, <3>2 DEF TaskLeaves
    <3>4. QED
      BY <3>2, <3>3
  <2>4. CASE Agent(s) /\ ~AgentEnd(s)
    BY <2>4 DEF Agent, AgentReports
  <2>5. QED
    BY <1>3, <2>1, <2>2, <2>3, <2>4
<1>4. ASSUME NEW r \in Runs, StartRun(r) \/ CancelRun(r)
      PROVE  \A t \in Streams : Inside(t)' => Inside(t)
  BY <1>4 DEF StartRun, CancelRun, Inside
<1>5. CASE UNCHANGED vars
  BY <1>5 DEF vars, Inside
<1>6. QED
  BY <1>2, <1>3, <1>4, <1>5 DEF Next

StartedInv ==
  /\ \A r \in Runs : StartedOrNot(run[r])
  /\ \A s \in Streams :
       Inside(s) => \/ run[RunOf[s]].started
                    \/ Detached /\ run[RunOf[s]].cancelRequested
  /\ \A s \in Streams : HasBody(s) => run[RunOf[s]].started

(* What a stream has sent grows by body events only where it forwards one,  *)
(* after a check that saw no cancellation.                                  *)
LEMMA BodyComesFromForward ==
  ASSUME TypeInv, [Next]_vars, NEW t \in Streams, HasBody(t)'
  PROVE  HasBody(t) \/ Forward(t)
<1>1. sent \in [Streams -> Seq(RunEvent)]
  BY DEF TypeInv, TypeOK
<1>2. ASSUME sent' = sent PROVE HasBody(t)
  BY <1>2 DEF HasBody
<1>3. ASSUME NEW s \in Streams, NEW e \in RunEvent \ BodyEvent,
             sent' = [sent EXCEPT ![s] = Append(@, e)]
      PROVE  HasBody(t)
  <2>1. PICK i \in DOMAIN sent'[t] : sent'[t][i] \in BodyEvent
    BY DEF HasBody
  <2>2. CASE t # s
    BY <1>1, <1>3, <2>1, <2>2 DEF HasBody
  <2>3. CASE t = s
    <3>1. sent'[t] = Append(sent[t], e) /\ sent[t] \in Seq(RunEvent)
      BY <1>1, <1>3, <2>3
    <3>2. i \in DOMAIN sent[t] /\ sent'[t][i] = sent[t][i]
      BY <2>1, <3>1
    <3>3. QED
      BY <2>1, <3>2 DEF HasBody
  <2>4. QED
    BY <2>2, <2>3
<1>4. \A e \in {"run_started", "run_metadata", "run_diagnostic", "run_completed",
                "run_failed", "awaiting_input", "run_cancelled"} :
        e \in RunEvent \ BodyEvent
  BY DEF RunEvent, BodyEvent, TerminalEvent
<1>5. ASSUME NEW s \in Streams, Forward(s) PROVE HasBody(t) \/ Forward(t)
  <2>1. CASE t = s
    BY <1>5, <2>1
  <2>2. CASE t # s
    BY <1>1, <1>5, <2>2 DEF Forward, Emit, HasBody
  <2>3. QED
    BY <2>1, <2>2
<1>6. ASSUME NEW s \in Streams, StreamSteps(s) PROVE HasBody(t) \/ Forward(t)
  <2>1. CASE \/ Begin(s) \/ PrepareOk(s) \/ Refuse(s) \/ Diagnose(s) \/ EmitFailed(s)
             \/ ExecutionFails(s) \/ AwaitUserInput(s) \/ Complete(s) \/ CloseCancelled(s)
             \/ ExecutionCancelled(s) \/ BeginPreempted(s)
    BY <2>1, <1>3, <1>4 DEF Begin, PrepareOk, Refuse, Diagnose, EmitFailed, ExecutionFails,
                      AwaitUserInput, Complete, CloseCancelled, ExecutionCancelled,
                      BeginPreempted, Emit
  <2>2. CASE \/ Prepare(s) \/ OpenExecution(s) \/ Resume(s) \/ SkipSegment(s) \/ Take(s)
             \/ OutputReady(s) \/ PassCheck(s) \/ StopExecution(s) \/ Escape(s) \/ Finish(s)
    BY <2>2, <1>2 DEF Prepare, OpenExecution, Resume, SkipSegment, Take, OutputReady,
                      PassCheck, StopExecution, Escape, Finish
  <2>3. QED
    BY <1>5, <1>6, <2>1, <2>2 DEF StreamSteps
<1>7. ASSUME NEW s \in Streams, OpenStream(s) \/ Disconnect(s) \/ ServerCancels(s) \/ Agent(s)
      PROVE  HasBody(t)
  BY <1>7, <1>2 DEF OpenStream, Disconnect, ServerCancels, Agent, AgentReports, AgentEnd,
                    AgentEnds, AgentSucceeds, AgentFails, AgentAsksUser,
                    AgentLeavesToolCall, AgentCancelled
<1>8. ASSUME NEW r \in Runs, StartRun(r) \/ CancelRun(r) PROVE HasBody(t)
  BY <1>8, <1>2 DEF StartRun, CancelRun
<1>9. CASE UNCHANGED vars
  BY <1>9, <1>2 DEF vars
<1>10. QED
  BY <1>6, <1>7, <1>8, <1>9 DEF Next

LEMMA StartedStep ==
  ASSUME TypeInv, StartedInv, [Next]_vars
  PROVE  StartedInv'
<1>1. \A r \in Runs : Starts(run[r], run'[r])
  BY StartsStep
<1>2. \A r \in Runs : StartedOrNot(run'[r])
  BY <1>1 DEF StartedInv, Starts
<1>3. \A s \in Streams : RunOf[s] \in Runs
  BY RunOfAssumption
<1>4. ASSUME NEW s \in Streams, Begin(s)
      PROVE  \/ run'[RunOf[s]].started
             \/ Detached /\ run'[RunOf[s]].cancelRequested
  <2> DEFINE r == run[RunOf[s]]
  <2>1. r \in Record /\ "run_started" \in RunEvent
    BY <1>3 DEF TypeInv, TypeOK, RunEvent
  <2>2. StartedOrNot(r) /\ (Detached \/ ~NeverStarted(RunOf[s]))
    BY <1>3, <1>4 DEF StartedInv, Begin, SeesPreemption
  <2>3. run'[RunOf[s]] = UpdateFromEvent(r, "run_started")
    BY <1>3, <1>4 DEF Begin, Emit, TypeInv, TypeOK
  <2>4. r.started \/ ~IsTerminal(r) \/ (Detached /\ r.cancelRequested)
    BY <2>2 DEF StartedOrNot, NeverStarted, IsTerminal, TerminalStatus
  <2> HIDE DEF r
  <2>5. /\ Starts(r, UpdateFromEvent(r, "run_started"))
        /\ ~IsTerminal(r) => UpdateFromEvent(r, "run_started").started
    BY <2>1, UpdateStarts
  <2>6. QED
    BY <2>3, <2>4, <2>5 DEF Starts
<1>5. ASSUME NEW t \in Streams, Inside(t)'
      PROVE  \/ run'[RunOf[t]].started
             \/ Detached /\ run'[RunOf[t]].cancelRequested
  <2>1. CASE Inside(t)
    BY <1>1, <1>3, <2>1 DEF StartedInv, Starts
  <2>2. CASE Begin(t)
    BY <1>4, <2>2
  <2>3. QED
    BY <1>5, <2>1, <2>2, EntersByBegin
<1>6. ASSUME NEW t \in Streams, HasBody(t)' PROVE run'[RunOf[t]].started
  <2>1. CASE HasBody(t)
    BY <1>1, <1>3, <2>1 DEF StartedInv, Starts
  <2>2. CASE Forward(t)
    <3>1. Inside(t) /\ ~run[RunOf[t]].cancelRequested
      BY <2>2 DEF Forward, Goto, Stopped, Inside, Outside
    <3>2. QED
      BY <1>1, <1>3, <3>1 DEF StartedInv, Starts
  <2>3. QED
    BY <1>6, <2>1, <2>2, BodyComesFromForward
<1>7. QED
  BY <1>2, <1>5, <1>6 DEF StartedInv

(* A stream that was opened on the record of a run cancelled in time: on    *)
(* live records the run stays as it is, on copies the stream remembers it.  *)
PreemptInv ==
  \A s \in Streams :
    /\ pc[s] = "idle" => ~Inside(s)
    /\ preempt[s] => IF Detached THEN ~Inside(s) ELSE NeverStarted(RunOf[s])

EarlyInv == StreamInv /\ StartedInv /\ PreemptInv

LEMMA NeverStartedStays ==
  ASSUME EarlyInv, ~Detached, [Next]_vars, NEW r \in Runs, NeverStarted(r)
  PROVE  NeverStarted(r)'
<1> DEFINE Goal == NeverStarted(r)'
<1>1. /\ TypeInv /\ run \in [Runs -> Record]
      /\ \A s \in Streams : RunOf[s] \in Runs
      /\ run[r] \in Record
  BY RunOfAssumption DEF EarlyInv, StreamInv, TypeInv, TypeOK
<1>2. ASSUME run'[r] = run[r] PROVE Goal
  BY <1>2 DEF NeverStarted
<1>3. ASSUME NEW s \in Streams, RunOf[s] = r PROVE pc[s] \in Outside /\ ~Begin(s)
  BY <1>3 DEF EarlyInv, StartedInv, Inside, NeverStarted, Begin, SeesPreemption
<1>4. ASSUME NEW q \in Runs, CancelRun(q) PROVE Goal
  <2>1. IsTerminal(run[r])
    BY DEF NeverStarted, IsTerminal, TerminalStatus
  <2>2. RequestCancel(run[r]) = run[r]
    BY <1>1, <2>1, RequestCancelFacts
  <2>3. run'[r] = run[r]
    BY <1>1, <1>4, <2>2 DEF CancelRun
  <2>4. QED
    BY <1>2, <2>3
<1>5. ASSUME NEW s \in Streams, BeginPreempted(s) PROVE Goal
  <2>1. CASE RunOf[s] = r
    <3>1. run'[r] = AppendEvent(run[r], "run_cancelled")
      BY <1>1, <1>5, <2>1 DEF BeginPreempted
    <3>2. run'[r].status = run[r].status /\ run'[r].started = run[r].started
      BY <1>1, <3>1 DEF AppendEvent, Record
    <3>3. QED
      BY <3>2 DEF NeverStarted
  <2>2. CASE RunOf[s] # r
    BY <1>1, <1>2, <1>5, <2>2 DEF BeginPreempted
  <2>3. QED
    BY <2>1, <2>2
<1>6. ASSUME NEW s \in Streams, Finish(s) PROVE Goal
  <2>1. pc[s] \in Closing /\ Shape(s)
    BY <1>6 DEF Finish, Goto, Closing, EarlyInv, StreamInv
  <2>2. sent[s][Len(sent[s])] \in TerminalEvent
    BY <2>1 DEF Shape, Contract!Final
  <2>3. QED
    BY <1>2, <1>6, <2>2 DEF Finish
<1>7. ASSUME NEW s \in Streams, NEW e, Emit(s, e), pc[s] \notin Outside \/ Begin(s) PROVE Goal
  <2>1. RunOf[s] # r
    BY <1>3, <1>7
  <2>2. run'[r] = run[r]
    BY <1>1, <1>7, <2>1 DEF Emit
  <2>3. QED
    BY <1>2, <2>2
<1>8. ASSUME NEW s \in Streams, StreamSteps(s) PROVE Goal
  <2>1. CASE Begin(s)
    BY <1>7, <2>1 DEF Begin
  <2>2. CASE \/ PrepareOk(s) \/ Refuse(s) \/ Diagnose(s) \/ EmitFailed(s) \/ Forward(s)
             \/ ExecutionFails(s) \/ AwaitUserInput(s) \/ Complete(s) \/ CloseCancelled(s)
             \/ ExecutionCancelled(s)
    BY <1>7, <2>2 DEF PrepareOk, Refuse, Diagnose, EmitFailed, Forward, ExecutionFails,
                      AwaitUserInput, Complete, CloseCancelled, ExecutionCancelled, Goto,
                      Outside
  <2>3. CASE \/ Prepare(s) \/ OpenExecution(s) \/ Resume(s) \/ SkipSegment(s) \/ Take(s)
             \/ OutputReady(s) \/ PassCheck(s) \/ StopExecution(s) \/ Escape(s)
    BY <2>3, <1>2 DEF Prepare, OpenExecution, Resume, SkipSegment, Take, OutputReady,
                      PassCheck, StopExecution, Escape, storeVars
  <2>4. QED
    BY <1>5, <1>6, <1>8, <2>1, <2>2, <2>3 DEF StreamSteps
<1>9. ASSUME NEW s \in Streams, OpenStream(s) \/ Disconnect(s) \/ ServerCancels(s) \/ Agent(s)
      PROVE Goal
  BY <1>9, <1>2 DEF OpenStream, Disconnect, ServerCancels, Agent, AgentReports, AgentEnd,
                    AgentEnds, AgentSucceeds, AgentFails, AgentAsksUser,
                    AgentLeavesToolCall, AgentCancelled, storeVars
<1>10. ASSUME NEW q \in Runs, StartRun(q) PROVE Goal
  BY <1>10, <1>2 DEF StartRun
<1>11. CASE UNCHANGED vars
  BY <1>11, <1>2 DEF vars
<1>12. QED
  BY <1>4, <1>8, <1>9, <1>10, <1>11 DEF Next

(* No step makes a stream idle again, and only its opening reads the        *)
(* record it was opened on.                                                 *)
LEMMA OpenedOnce ==
  ASSUME TypeInv, [Next]_vars, NEW t \in Streams
  PROVE  /\ pc'[t] = "idle" => pc[t] = "idle" /\ preempt'[t] = preempt[t]
         /\ \/ preempt'[t] = preempt[t]
            \/ /\ pc[t] = "idle" /\ ~Begin(t)
               /\ preempt'[t] = NeverStarted(RunOf[t]) /\ run' = run
<1> DEFINE Same == (pc'[t] = "idle" => pc[t] = "idle") /\ preempt' = preempt
<1>1. pc \in [Streams -> PC] /\ preempt \in [Streams -> BOOLEAN]
  BY DEF TypeInv, TypeOK
<1>2. ASSUME NEW s \in Streams, OpenStream(s)
      PROVE  /\ pc'[t] = "idle" => pc[t] = "idle" /\ preempt'[t] = preempt[t]
             /\ \/ preempt'[t] = preempt[t]
                \/ /\ pc[t] = "idle" /\ ~Begin(t)
                   /\ preempt'[t] = NeverStarted(RunOf[t]) /\ run' = run
  BY <1>1, <1>2 DEF OpenStream, Goto, Begin
<1>3. ASSUME NEW s \in Streams, StreamSteps(s) PROVE Same
  <2> USE <1>1 DEF Goto, Emit
  <2>1. CASE \/ BeginPreempted(s) \/ Begin(s) \/ Prepare(s) \/ PrepareOk(s) \/ Refuse(s)
             \/ Diagnose(s) \/ EmitFailed(s) \/ OpenExecution(s) \/ Resume(s)
             \/ SkipSegment(s) \/ Take(s)
    BY <2>1 DEF BeginPreempted, Begin, Prepare, PrepareOk, Refuse, Diagnose, EmitFailed,
                OpenExecution, Resume, SkipSegment, Take
  <2>2. CASE \/ Forward(s) \/ OutputReady(s) \/ ExecutionFails(s) \/ ExecutionCancelled(s)
             \/ AwaitUserInput(s) \/ PassCheck(s) \/ Complete(s) \/ StopExecution(s)
             \/ Escape(s) \/ CloseCancelled(s) \/ Finish(s)
    BY <2>2 DEF Forward, OutputReady, ExecutionFails, ExecutionCancelled, AwaitUserInput,
                PassCheck, Complete, StopExecution, Escape, CloseCancelled, Finish
  <2>3. QED
    BY <1>3, <2>1, <2>2 DEF StreamSteps
<1>4. ASSUME NEW s \in Streams, ServerCancels(s) PROVE Same
  BY <1>1, <1>4 DEF ServerCancels, Goto
<1>5. ASSUME NEW s \in Streams, Disconnect(s) \/ Agent(s) PROVE Same
  BY <1>5 DEF Disconnect, Agent, AgentReports, AgentEnd, AgentEnds, AgentSucceeds,
              AgentFails, AgentAsksUser, AgentLeavesToolCall, AgentCancelled
<1>6. ASSUME NEW r \in Runs, StartRun(r) \/ CancelRun(r) PROVE Same
  BY <1>6 DEF StartRun, CancelRun
<1>7. CASE UNCHANGED vars
  BY <1>7 DEF vars
<1>8. QED
  BY <1>2, <1>3, <1>4, <1>5, <1>6, <1>7 DEF Next

LEMMA PreemptStep ==
  ASSUME EarlyInv, [Next]_vars
  PROVE  PreemptInv'
<1> SUFFICES ASSUME NEW t \in Streams
             PROVE  /\ pc'[t] = "idle" => ~Inside(t)'
                    /\ preempt'[t] => IF Detached THEN ~Inside(t)'
                                      ELSE NeverStarted(RunOf[t])'
  BY DEF PreemptInv
<1>1. TypeInv /\ RunOf[t] \in Runs
  BY RunOfAssumption DEF EarlyInv, StreamInv
<1>2. /\ pc'[t] = "idle" => pc[t] = "idle" /\ preempt'[t] = preempt[t]
      /\ \/ preempt'[t] = preempt[t]
         \/ /\ pc[t] = "idle" /\ ~Begin(t)
            /\ preempt'[t] = NeverStarted(RunOf[t]) /\ run' = run
  BY <1>1, OpenedOnce
<1>3. Inside(t)' => Inside(t) \/ Begin(t)
  BY <1>1, EntersByBegin
<1>4. /\ pc[t] = "idle" => ~Inside(t)
      /\ preempt[t] => IF Detached THEN ~Inside(t) ELSE NeverStarted(RunOf[t])
  BY DEF EarlyInv, PreemptInv
<1>5. pc'[t] = "idle" => ~Inside(t)'
  BY <1>2, <1>3, <1>4 DEF Begin, Goto
<1>6. CASE preempt'[t] = preempt[t]
  <2>1. Detached /\ preempt[t] => ~Begin(t)
    BY DEF Begin, SeesPreemption
  <2>2. ~Detached /\ preempt[t] => NeverStarted(RunOf[t])'
    BY <1>1, <1>4, NeverStartedStays
  <2>3. QED
    BY <1>3, <1>4, <1>5, <1>6, <2>1, <2>2
<1>7. CASE preempt'[t] # preempt[t]
  <2>1. /\ pc[t] = "idle" /\ ~Begin(t)
        /\ preempt'[t] = NeverStarted(RunOf[t]) /\ run' = run
    BY <1>2, <1>7
  <2>2. NeverStarted(RunOf[t]) => NeverStarted(RunOf[t])'
    BY <2>1 DEF NeverStarted
  <2>3. QED
    BY <1>3, <1>4, <1>5, <2>1, <2>2
<1>8. QED
  BY <1>6, <1>7

LEMMA EarlyInit == Init => EarlyInv
<1> SUFFICES ASSUME Init PROVE EarlyInv
  OBVIOUS
<1>1. \A s \in Streams : ~Inside(s) /\ ~preempt[s] /\ ~HasBody(s)
  BY DEF Init, Inside, Outside, HasBody
<1>2. \A r \in Runs : StartedOrNot(run[r])
  BY DEF Init, NewRecord, StartedOrNot
<1>3. QED
  BY <1>1, <1>2, StreamInit DEF EarlyInv, StartedInv, PreemptInv

LEMMA EarlyStep == EarlyInv /\ [Next]_vars => EarlyInv'
BY StreamStep, StartedStep, PreemptStep DEF EarlyInv, StreamInv

(* In either store, a stream opened on a run that was cancelled while it    *)
(* was pending never reaches an agent; on live records no stream of that    *)
(* run does.                                                                *)
THEOREM CancelledPendingNeverRuns == Spec => []CancelledWhilePendingNeverRuns
<1>1. ASSUME EarlyInv PROVE CancelledWhilePendingNeverRuns
  <2> SUFFICES ASSUME NEW s \in Streams, preempt[s] \/ (~Detached /\ NeverStarted(RunOf[s]))
               PROVE  task[s] = "none"
    BY DEF CancelledWhilePendingNeverRuns
  <2>1. ~Inside(s)
    BY <1>1 DEF EarlyInv, StartedInv, PreemptInv, NeverStarted
  <2>2. QED
    BY <2>1 DEF Inside
<1>2. QED
  BY EarlyInit, EarlyStep, <1>1, PTL DEF Spec

(* In either store, and however many streams execute it, a run that was     *)
(* cancelled before it started shows no client anything of an agent while   *)
(* it stands as never started: on copies its agent may run, up to the first *)
(* check.                                                                   *)
THEOREM CancelledPendingIsSilent == Spec => []CancelledPendingStaysSilent
<1>1. EarlyInv => CancelledPendingStaysSilent
  BY DEF EarlyInv, StartedInv, HasBody, NeverStarted, CancelledPendingStaysSilent
<1>2. QED
  BY EarlyInit, EarlyStep, <1>1, PTL DEF Spec

-----------------------------------------------------------------------------
(* The log of a run and its status.  A record fits its log when the last    *)
(* terminal event names the status, and a log without one belongs to a run  *)
(* that has not ended or was cancelled before it started.                   *)

EndsOf(r) == {i \in DOMAIN r.log : r.log[i] \in TerminalEvent}

Fits(r) ==
  /\ \A i \in EndsOf(r) : (\A j \in EndsOf(r) : j <= i) => r.status = StatusOf(r.log[i])
  /\ EndsOf(r) # {} => IsTerminal(r)
  /\ EndsOf(r) = {} /\ IsTerminal(r) => r.status = "cancelled" /\ ~r.started
  /\ r.status = "pending" => ~r.started

LEMMA AppendEnds ==
  ASSUME NEW r \in Record, NEW e \in RunEvent
  PROVE  LET n == Len(r.log) + 1
         IN  /\ EndsOf(AppendEvent(r, e)) =
                  IF e \in TerminalEvent THEN EndsOf(r) \cup {n} ELSE EndsOf(r)
             /\ \A i \in EndsOf(r) : i < n /\ AppendEvent(r, e).log[i] = r.log[i]
             /\ AppendEvent(r, e).log[n] = e
             /\ AppendEvent(r, e).status = r.status
             /\ AppendEvent(r, e).started = r.started
             /\ AppendEvent(r, e).log \in Seq(RunEvent)
<1> DEFINE n == Len(r.log) + 1
<1>1. r.log \in Seq(RunEvent) /\ AppendEvent(r, e).log = Append(r.log, e)
  BY DEF AppendEvent, Record
<1>2. /\ DOMAIN Append(r.log, e) = DOMAIN r.log \cup {n}
      /\ \A i \in DOMAIN r.log : i \in Nat /\ i < n /\ Append(r.log, e)[i] = r.log[i]
      /\ Append(r.log, e)[n] = e
      /\ n \in Nat
  BY <1>1
<1>3. EndsOf(AppendEvent(r, e)) =
        IF e \in TerminalEvent THEN EndsOf(r) \cup {n} ELSE EndsOf(r)
  BY <1>1, <1>2 DEF EndsOf
<1>4. \A i \in EndsOf(r) : i < n /\ AppendEvent(r, e).log[i] = r.log[i]
  BY <1>1, <1>2 DEF EndsOf
<1>5. /\ AppendEvent(r, e).status = r.status
      /\ AppendEvent(r, e).started = r.started
  BY DEF AppendEvent, Record
<1>6. Append(r.log, e) \in Seq(RunEvent)
  BY <1>1
<1>7. QED
  BY <1>1, <1>2, <1>3, <1>4, <1>5, <1>6

(* A terminal event and the status it leaves.                               *)
LEMMA TerminalFits ==
  ASSUME NEW r \in Record, NEW e \in TerminalEvent, NEW new \in Record,
         new.log = Append(r.log, e), new.status = StatusOf(e)
  PROVE  Fits(new)
<1> DEFINE n == Len(r.log) + 1
<1>1. e \in RunEvent
  BY DEF RunEvent
<1>2. new.log = AppendEvent(r, e).log
  BY DEF AppendEvent, Record
<1>3. EndsOf(new) = EndsOf(AppendEvent(r, e))
  BY <1>2 DEF EndsOf
<1>4. /\ EndsOf(new) = EndsOf(r) \cup {n}
      /\ \A i \in EndsOf(r) : i < n
      /\ new.log[n] = e
  BY <1>1, <1>2, <1>3, AppendEnds
<1>5. n \in Nat /\ \A i \in EndsOf(r) : i \in Nat
  BY DEF Record, EndsOf
<1>6. ASSUME NEW i \in EndsOf(new), \A j \in EndsOf(new) : j <= i PROVE i = n
  <2>1. n <= i
    BY <1>4, <1>6
  <2>2. i \in EndsOf(r) => i \in Nat /\ i < n
    BY <1>4, <1>5
  <2>3. QED
    BY <1>4, <1>5, <2>1, <2>2
<1>7. IsTerminal(new) /\ new.status # "pending"
  BY DEF IsTerminal, StatusOf, TerminalStatus
<1>8. QED
  BY <1>4, <1>6, <1>7 DEF Fits

(* Any other event, appended to a record that is otherwise left alone or    *)
(* marked as streaming.                                                     *)
LEMMA OtherFits ==
  ASSUME NEW r \in Record, Fits(r), NEW e \in RunEvent \ TerminalEvent
  PROVE  Fits(AppendEvent(r, e)) /\ Fits(MarkStreaming(AppendEvent(r, e)))
<1> DEFINE logged == AppendEvent(r, e)
<1>1. /\ EndsOf(logged) = EndsOf(r)
      /\ \A i \in EndsOf(r) : logged.log[i] = r.log[i]
      /\ logged.status = r.status /\ logged.started = r.started
  BY AppendEnds
<1>2. IsTerminal(logged) <=> IsTerminal(r)
  BY <1>1 DEF IsTerminal
<1>3. logged \in Record
  BY AppendEventType
<1> HIDE DEF logged
<1>4. Fits(logged)
  BY <1>1, <1>2 DEF Fits
<1>5. CASE IsTerminal(logged)
  <2>1. MarkStreaming(logged) = logged
    BY <1>3, <1>5, MarkStreamingFacts
  <2>2. QED
    BY <1>4, <2>1 DEF logged
<1>6. CASE ~IsTerminal(logged)
  <2>1. EndsOf(logged) = {}
    BY <1>4, <1>6 DEF Fits
  <2>2. MarkStreaming(logged).log = logged.log /\ MarkStreaming(logged).status = "streaming"
    BY <1>3, <1>6 DEF MarkStreaming, Record
  <2>3. EndsOf(MarkStreaming(logged)) = {} /\ ~IsTerminal(MarkStreaming(logged))
    BY <2>1, <2>2 DEF EndsOf, IsTerminal, TerminalStatus
  <2>4. QED
    BY <1>4, <2>2, <2>3 DEF Fits, logged
<1>7. QED
  BY <1>5, <1>6

LEMMA UpdateFits ==
  ASSUME NEW r \in Record, Fits(r), NEW e \in RunEvent
  PROVE  Fits(UpdateFromEvent(r, e))
<1> DEFINE logged == AppendEvent(r, e)
           new    == UpdateFromEvent(r, e)
<1>1. logged \in Record /\ logged.log = Append(r.log, e)
  BY AppendEventType DEF AppendEvent, Record
<1>2. CASE e \in TerminalEvent
  <2>1. new.log = logged.log /\ new.status = StatusOf(e)
    <3> HIDE DEF logged
    <3>1. \A status : /\ MarkTerminal(logged, status).log = logged.log
                      /\ MarkTerminal(logged, status).status = status
                      /\ MarkTerminal(logged, status) = [logged EXCEPT
                           !.status = status, !.started = TRUE, !.ended = TRUE]
      BY <1>1 DEF MarkTerminal, Record
    <3>2. /\ MarkCompleted(logged).log = logged.log
          /\ MarkCompleted(logged).status = "completed"
      BY <1>1, <3>1 DEF MarkCompleted, Record
    <3>3. \A b \in BOOLEAN : /\ MarkFailed(logged, b).log = logged.log
                             /\ MarkFailed(logged, b).status = "failed"
      BY <1>1, <3>1 DEF MarkFailed, Record
    <3>4. /\ MarkCancelled(logged).log = logged.log
          /\ MarkCancelled(logged).status = "cancelled"
      BY <1>1, <3>1 DEF MarkCancelled, Record
    <3>5. QED
      BY <1>2, <3>2, <3>3, <3>4 DEF logged, UpdateFromEvent, StatusOf, TerminalEvent
  <2>2. new \in Record
    BY UpdateFacts
  <2>3. QED
    BY <1>1, <1>2, <2>1, <2>2, TerminalFits
<1>3. CASE e \notin TerminalEvent
  <2>1. new = logged \/ new = MarkStreaming(logged)
    BY <1>3 DEF UpdateFromEvent, TerminalEvent
  <2>2. QED
    BY <1>3, <2>1, OtherFits
<1>4. QED
  BY <1>2, <1>3

LEMMA CancelFits ==
  ASSUME NEW r \in Record, Fits(r)
  PROVE  Fits(RequestCancel(r))
<1>1. CASE IsTerminal(r)
  BY <1>1, RequestCancelFacts
<1>2. CASE ~IsTerminal(r)
  <2>1. EndsOf(r) = {}
    BY <1>2 DEF Fits
  <2>2. RequestCancel(r).log = r.log /\ RequestCancel(r).started = r.started
    BY <1>2 DEF RequestCancel, Record
  <2>3. EndsOf(RequestCancel(r)) = {}
    BY <2>1, <2>2 DEF EndsOf
  <2>4. CASE r.status = "pending"
    <3>1. RequestCancel(r).status = "cancelled"
      BY <1>2, <2>4 DEF RequestCancel, Record
    <3>2. QED
      BY <2>2, <2>3, <2>4, <3>1 DEF Fits
  <2>5. CASE r.status # "pending"
    <3>1. RequestCancel(r).status = "cancellation_requested"
      BY <1>2, <2>5 DEF RequestCancel, Record
    <3>2. ~IsTerminal(RequestCancel(r))
      BY <3>1 DEF IsTerminal, TerminalStatus
    <3>3. QED
      BY <2>3, <3>1, <3>2 DEF Fits
  <2>6. QED
    BY <2>4, <2>5
<1>3. QED
  BY <1>1, <1>2

(* A snapshot taken of a run that was cancelled in time stays true until    *)
(* the stream begins, if no other stream executes the run.                  *)
OneStreamPerRun == \A s, t \in Streams : RunOf[s] = RunOf[t] => s = t

SnapshotHolds ==
  Detached => \A s \in Streams :
    pc[s] = "opened" /\ preempt[s] => run[RunOf[s]].status = "cancelled"

LogInv == StreamInv /\ SnapshotHolds /\ \A r \in Runs : Fits(run[r])

LEMMA EmitFits ==
  ASSUME LogInv, NEW s \in Streams, NEW e \in RunEvent, Emit(s, e)
  PROVE  \A r \in Runs : Fits(run'[r])
<1>1. RunOf[s] \in Runs /\ run \in [Runs -> Record]
  BY RunOfAssumption DEF LogInv, StreamInv, TypeInv, TypeOK
<1>2. Fits(UpdateFromEvent(run[RunOf[s]], e))
  BY <1>1, UpdateFits DEF LogInv
<1>3. run' = [run EXCEPT ![RunOf[s]] = UpdateFromEvent(run[RunOf[s]], e)]
  BY DEF Emit
<1>4. QED
  BY <1>1, <1>2, <1>3 DEF LogInv

LEMMA FitsStep ==
  LogInv /\ [Next]_vars => \A r \in Runs : Fits(run'[r])
<1> SUFFICES ASSUME LogInv, [Next]_vars
             PROVE  \A r \in Runs : Fits(run'[r])
  OBVIOUS
<1> DEFINE Goal == \A r \in Runs : Fits(run'[r])
<1>t. TypeInv /\ run \in [Runs -> Record] /\ \A s \in Streams : RunOf[s] \in Runs
  BY RunOfAssumption DEF LogInv, StreamInv, TypeInv, TypeOK
<1>0. ASSUME UNCHANGED run PROVE Goal
  BY <1>0 DEF LogInv
<1>1. ASSUME NEW r \in Runs, CancelRun(r) PROVE Goal
  <2>1. Fits(RequestCancel(run[r]))
    BY <1>t, CancelFits DEF LogInv
  <2>2. run' = [run EXCEPT ![r] = RequestCancel(run[r])]
    BY <1>1 DEF CancelRun
  <2>3. QED
    BY <1>t, <2>1, <2>2 DEF LogInv
<1>2. ASSUME NEW s \in Streams, BeginPreempted(s) PROVE Goal
  <2> DEFINE new == AppendEvent(run[RunOf[s]], "run_cancelled")
  <2>1. run[RunOf[s]].status = "cancelled"
    BY <1>2 DEF LogInv, SnapshotHolds, BeginPreempted, SeesPreemption, NeverStarted, Goto
  <2>2. "run_cancelled" \in TerminalEvent /\ "run_cancelled" \in RunEvent
    BY DEF RunEvent, TerminalEvent
  <2>3. new \in Record /\ new.status = "cancelled"
    BY <1>t, <2>1, <2>2, AppendEventType
  <2>4. new.log = Append(run[RunOf[s]].log, "run_cancelled")
    BY <1>t DEF AppendEvent, Record
  <2>5. StatusOf("run_cancelled") = "cancelled"
    BY DEF StatusOf
  <2>6. Fits(new)
    BY <1>t, <2>2, <2>3, <2>4, <2>5, TerminalFits
  <2>7. run' = [run EXCEPT ![RunOf[s]] = new]
    BY <1>2 DEF BeginPreempted
  <2> HIDE DEF new
  <2>8. QED
    BY <1>t, <2>6, <2>7 DEF LogInv
<1>3. ASSUME NEW s \in Streams, Finish(s) PROVE Goal
  <2>1. pc[s] \in Closing /\ Shape(s)
    BY <1>3 DEF Finish, Goto, Closing, LogInv, StreamInv
  <2>2. sent[s][Len(sent[s])] \in TerminalEvent
    BY <2>1 DEF Shape, Contract!Final
  <2>3. UNCHANGED run
    BY <1>3, <2>2 DEF Finish
  <2>4. QED
    BY <1>0, <2>3
<1>4. ASSUME NEW s \in Streams, Forward(s) PROVE Goal
  <2>1. queue[s] \in Seq(QueueItem) /\ queue[s] # << >> /\ Head(queue[s]) # "segment"
    BY <1>t, <1>4 DEF Forward, Goto, TypeInv, TypeOK, ItemTaken
  <2>2. Head(queue[s]) \in RunEvent
    BY <2>1 DEF QueueItem, RunEvent
  <2>3. QED
    BY <1>4, <2>2, EmitFits DEF Forward
<1>5. ASSUME NEW s \in Streams,
             NEW e \in {"run_started", "run_metadata", "run_diagnostic", "run_completed",
                        "run_failed", "awaiting_input", "run_cancelled"},
             Emit(s, e)
      PROVE Goal
  BY <1>5, EmitFits DEF RunEvent, TerminalEvent
<1>6. ASSUME NEW s \in Streams, StreamSteps(s) PROVE Goal
  <2>1. CASE \/ Begin(s) \/ PrepareOk(s) \/ Refuse(s) \/ Diagnose(s) \/ EmitFailed(s)
             \/ ExecutionFails(s) \/ AwaitUserInput(s) \/ Complete(s) \/ CloseCancelled(s)
             \/ ExecutionCancelled(s)
    BY <2>1, <1>5 DEF Begin, PrepareOk, Refuse, Diagnose, EmitFailed, ExecutionFails,
                      AwaitUserInput, Complete, CloseCancelled, ExecutionCancelled
  <2>2. CASE \/ Prepare(s) \/ OpenExecution(s) \/ Resume(s) \/ SkipSegment(s) \/ Take(s)
             \/ OutputReady(s) \/ PassCheck(s) \/ StopExecution(s) \/ Escape(s)
    BY <2>2, <1>0 DEF Prepare, OpenExecution, Resume, SkipSegment, Take, OutputReady,
                      PassCheck, StopExecution, Escape, storeVars
  <2>3. QED
    BY <1>2, <1>3, <1>4, <1>6, <2>1, <2>2 DEF StreamSteps
<1>7. ASSUME NEW s \in Streams, OpenStream(s) \/ Disconnect(s) \/ ServerCancels(s) \/ Agent(s)
      PROVE Goal
  BY <1>7, <1>0 DEF OpenStream, Disconnect, ServerCancels, Agent, AgentReports, AgentEnd,
                    AgentEnds, AgentSucceeds, AgentFails, AgentAsksUser,
                    AgentLeavesToolCall, AgentCancelled, storeVars
<1>8. ASSUME NEW r \in Runs, StartRun(r) PROVE Goal
  BY <1>8, <1>0 DEF StartRun
<1>9. CASE UNCHANGED vars
  BY <1>9, <1>0 DEF vars
<1>10. QED
  BY <1>1, <1>6, <1>7, <1>8, <1>9 DEF Next

LEMMA SnapshotStep ==
  ASSUME ~Detached \/ OneStreamPerRun, LogInv, [Next]_vars
  PROVE  SnapshotHolds'
<1> SUFFICES ASSUME Detached, NEW t \in Streams, pc'[t] = "opened", preempt'[t]
             PROVE  run'[RunOf[t]].status = "cancelled"
  BY DEF SnapshotHolds
<1> DEFINE Goal == run'[RunOf[t]].status = "cancelled"
           Before == pc[t] = "opened" /\ preempt[t]
<1>t. /\ run \in [Runs -> Record] /\ pc \in [Streams -> PC] /\ preempt \in [Streams -> BOOLEAN]
      /\ \A s \in Streams : RunOf[s] \in Runs
  BY RunOfAssumption DEF LogInv, StreamInv, TypeInv, TypeOK
<1>0. Before => run[RunOf[t]].status = "cancelled"
  BY DEF LogInv, SnapshotHolds
<1>1. ASSUME UNCHANGED <<pc, preempt>>, NEW r \in Runs, CancelRun(r) PROVE Goal
  <2>1. IsTerminal(run[RunOf[t]]) /\ run[RunOf[t]] \in Record
    BY <1>t, <1>0, <1>1 DEF IsTerminal, TerminalStatus
  <2>2. RequestCancel(run[RunOf[t]]) = run[RunOf[t]]
    BY <2>1, RequestCancelFacts
  <2>3. run'[RunOf[t]] = run[RunOf[t]]
    BY <1>t, <1>1, <2>2 DEF CancelRun
  <2>4. QED
    BY <1>0, <1>1, <2>3
<1>2. ASSUME NEW s \in Streams, UNCHANGED preempt,
             NEW to \in PC \ {"opened"}, pc' = [pc EXCEPT ![s] = to],
             UNCHANGED run \/ \E new : run' = [run EXCEPT ![RunOf[s]] = new]
      PROVE  Goal
  <2>1. s # t /\ Before
    BY <1>t, <1>2
  <2>2. RunOf[s] # RunOf[t]
    BY <2>1 DEF OneStreamPerRun
  <2>3. run'[RunOf[t]] = run[RunOf[t]]
    BY <1>t, <1>2, <2>2
  <2>4. QED
    BY <1>0, <2>1, <2>3
<1>3. ASSUME UNCHANGED <<pc, preempt, run>> PROVE Goal
  BY <1>0, <1>3
<1>4. ASSUME NEW s \in Streams, OpenStream(s) PROVE Goal
  <2>1. CASE s = t
    BY <1>t, <1>4, <2>1 DEF OpenStream, NeverStarted
  <2>2. CASE s # t
    BY <1>t, <1>0, <1>4, <2>2 DEF OpenStream, Goto
  <2>3. QED
    BY <2>1, <2>2
<1>5. ASSUME NEW s \in Streams, NEW e, NEW from, NEW to \in PC \ {"opened"},
             Emit(s, e), Goto(s, from, to)
      PROVE  Goal
  BY <1>2, <1>5 DEF Emit, Goto
<1>6. ASSUME NEW s \in Streams, StreamSteps(s) PROVE Goal
  <2> USE DEF PC, AtYield, AtAwait, Ended
  <2>1. CASE \/ Begin(s) \/ PrepareOk(s) \/ Refuse(s) \/ Diagnose(s) \/ EmitFailed(s)
             \/ Forward(s)
    BY <2>1, <1>5 DEF Begin, PrepareOk, Refuse, Diagnose, EmitFailed, Forward
  <2>2. CASE \/ ExecutionFails(s) \/ ExecutionCancelled(s) \/ AwaitUserInput(s)
             \/ Complete(s) \/ CloseCancelled(s)
    BY <2>2, <1>5 DEF ExecutionFails, ExecutionCancelled, AwaitUserInput, Complete,
                      CloseCancelled
  <2>3. CASE \/ Prepare(s) \/ OpenExecution(s) \/ Resume(s) \/ Take(s)
             \/ OutputReady(s) \/ PassCheck(s) \/ StopExecution(s) \/ Escape(s)
    <3>1. \E to \in PC \ {"opened"} : pc' = [pc EXCEPT ![s] = to]
      BY <2>3 DEF Prepare, OpenExecution, Resume, Take, OutputReady, PassCheck,
                  StopExecution, Escape, Goto
    <3>2. UNCHANGED <<preempt, run>>
      BY <2>3 DEF Prepare, OpenExecution, Resume, Take, OutputReady, PassCheck,
                  StopExecution, Escape, storeVars
    <3>3. QED
      BY <1>2, <3>1, <3>2
  <2>4. CASE BeginPreempted(s) \/ Finish(s)
    <3>1. \E to \in PC \ {"opened"} : pc' = [pc EXCEPT ![s] = to]
      BY <2>4 DEF BeginPreempted, Finish, Goto
    <3>2. UNCHANGED preempt /\ (UNCHANGED run \/ \E new : run' = [run EXCEPT ![RunOf[s]] = new])
      BY <2>4 DEF BeginPreempted, Finish
    <3>3. QED
      BY <1>2, <3>1, <3>2
  <2>5. CASE SkipSegment(s)
    BY <1>3, <2>5 DEF SkipSegment, storeVars
  <2>6. QED
    BY <1>6, <2>1, <2>2, <2>3, <2>4, <2>5 DEF StreamSteps
<1>7. ASSUME NEW s \in Streams, ServerCancels(s) PROVE Goal
  <2>1. \E to \in PC \ {"opened"} : pc' = [pc EXCEPT ![s] = to]
    BY <1>7 DEF ServerCancels, Goto, PC, AtAwait, Ended
  <2>2. UNCHANGED <<preempt, run>>
    BY <1>7 DEF ServerCancels, storeVars
  <2>3. QED
    BY <1>2, <2>1, <2>2
<1>8. ASSUME NEW s \in Streams, Disconnect(s) \/ Agent(s) PROVE Goal
  BY <1>3, <1>8 DEF Disconnect, Agent, AgentReports, AgentEnd, AgentEnds, AgentSucceeds,
                    AgentFails, AgentAsksUser, AgentLeavesToolCall, AgentCancelled, storeVars
<1>9. ASSUME NEW r \in Runs, StartRun(r) \/ CancelRun(r) PROVE Goal
  BY <1>1, <1>3, <1>9 DEF StartRun, CancelRun
<1>10. CASE UNCHANGED vars
  BY <1>3, <1>10 DEF vars
<1>11. QED
  BY <1>4, <1>6, <1>7, <1>8, <1>9, <1>10 DEF Next

(* The stored log of a run tells its status, in a store that hands out its  *)
(* live records, or if no run is streamed twice.  Without either, a stream  *)
(* opened on the snapshot of a run cancelled in time records run_cancelled  *)
(* after another stream has ended the run differently.                      *)
THEOREM LogTellsStatus ==
  ASSUME ~Detached \/ OneStreamPerRun
  PROVE  Spec => []StatusMatchesLog
<1>1. Init => LogInv
  <2>1. Init => StreamInv
    BY StreamInit
  <2>2. Init => SnapshotHolds
    BY DEF Init, SnapshotHolds
  <2>3. Fits(NewRecord)
    BY DEF Fits, EndsOf, NewRecord, IsTerminal, TerminalStatus
  <2>4. Init => \A r \in Runs : Fits(run[r])
    BY <2>3 DEF Init
  <2>5. QED
    BY <2>1, <2>2, <2>4 DEF LogInv
<1>2. LogInv /\ [Next]_vars => LogInv'
  BY StreamStep, SnapshotStep, FitsStep DEF LogInv
<1>3. LogInv => StatusMatchesLog
  BY DEF LogInv, Fits, EndsOf, TerminalsOf, StatusMatchesLog, NeverStarted
<1>4. QED
  BY <1>1, <1>2, <1>3, PTL DEF Spec

=============================================================================
