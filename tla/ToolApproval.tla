----------------------------- MODULE ToolApproval -----------------------------
(***************************************************************************)
(* The tool approval gate: the bound tool executions of agent tasks        *)
(* (agent.py, _execute_bound_tool) and the coordinator that holds their    *)
(* approval requests (tool_approval_coordinator.py).  One coordinator      *)
(* serves all runs; it knows a request only by its key, the run id and the *)
(* tool call id.                                                           *)
(*                                                                         *)
(* All of it runs on one asyncio loop.  A request is registered and its    *)
(* waiter suspended in one go; a decision sets a future, and the waiter    *)
(* goes on later, unless it is cancelled first.                            *)
(***************************************************************************)
EXTENDS Naturals, Sequences

CONSTANTS Calls,    \* tool executions the models ask for
          Agents,   \* agent tasks, one for each stream
          Runs, Ids,
          AgentOf,  \* the agent task a call belongs to
          RunOf,    \* the run an agent task executes
          IdOf,     \* the tool call id the provider gave the call
          Mode,     \* what the permission policy says of its tool
          None      \* not a call

(* "approve" and "reject" are the mode delay with that timeout action; a    *)
(* delay without a timeout behaves like "ask".                              *)
Modes == {"disabled", "allow", "ask", "approve", "reject"}

ASSUME CallsAssumption == /\ AgentOf \in [Calls -> Agents]
                          /\ IdOf \in [Calls -> Ids]
                          /\ Mode \in [Calls -> Modes]
                          /\ None \notin Calls
ASSUME AgentsAssumption == RunOf \in [Agents -> Runs]

Keys == Runs \X Ids

Key(c) == <<RunOf[AgentOf[c]], IdOf[c]>>

Timed(c) == Mode[c] \in {"approve", "reject"}

Gated(c) == Mode[c] = "ask" \/ Timed(c)

VARIABLES
  agent,        \* the agent tasks
  stage,        \* how far each call is
  pending,      \* _pending_by_key: the call whose request is held for a key
  timer,        \* the request of the call has a scheduled timeout
  future,       \* what its waiter is waiting for
  interrupted,  \* the task of the call has been cancelled
  decided       \* the decisions the coordinator has accepted for it

vars == <<agent, stage, pending, timer, future, interrupted, decided>>

Agent == {"running", "cancelling", "unwinding", "ended"}

Decision == {"approved", "rejected"}

Stage == {"idle", "waiting", "executing", "completed", "form", "failed", "cancelled"}

Init ==
  /\ agent = [a \in Agents |-> "running"]
  /\ stage = [c \in Calls |-> "idle"]
  /\ pending = [k \in Keys |-> None]
  /\ timer = [c \in Calls |-> FALSE]
  /\ future = [c \in Calls |-> "none"]
  /\ interrupted = [c \in Calls |-> FALSE]
  /\ decided = [c \in Calls |-> << >>]

Move(c, from, to) == stage[c] = from /\ stage' = [stage EXCEPT ![c] = to]

-----------------------------------------------------------------------------
(* The coordinator.                                                         *)

(* Faulty variants of definitions below: the status of a timeout taken for  *)
(* its decision, a settled request kept in the map, a discarded waiter not  *)
(* woken, every run taken for the one that ends, or none, a timeout that    *)
(* decides nothing, a waiter that does not look at the decision.            *)
TimeoutStatus(c) == "timed_out"

FinalizeKept(c, d) ==
  /\ decided' = [decided EXCEPT ![c] = Append(@, d)]
  /\ timer' = [timer EXCEPT ![c] = FALSE]
  /\ future' = [future EXCEPT ![c] = IF @ = "open" THEN d ELSE @]
  /\ UNCHANGED pending

DiscardSilently(keys) ==
  LET dropped == {pending[k] : k \in keys}
  IN  /\ pending' = [k \in Keys |-> IF k \in keys THEN None ELSE pending[k]]
      /\ timer' = [c \in Calls |-> timer[c] /\ c \notin dropped]
      /\ UNCHANGED future

NoKeys(r) == {}

TimeoutIgnored(c) ==
  /\ timer[c]
  /\ timer' = [timer EXCEPT ![c] = FALSE]
  /\ UNCHANGED <<agent, stage, pending, future, interrupted, decided>>

Answered(c) == future[c] \in Decision /\ ~interrupted[c]

(* The request is settled once and for all and leaves the map.              *)
Finalize(c, d) ==
  /\ decided' = [decided EXCEPT ![c] = Append(@, d)]
  /\ timer' = [timer EXCEPT ![c] = FALSE]
  /\ future' = [future EXCEPT ![c] = IF @ = "open" THEN d ELSE @]
  /\ pending' = [pending EXCEPT ![Key(c)] = None]

(* The requests held for the keys are dropped, their waiters cancelled.     *)
Discard(keys) ==
  LET dropped == {pending[k] : k \in keys}
  IN  /\ pending' = [k \in Keys |-> IF k \in keys THEN None ELSE pending[k]]
      /\ timer' = [c \in Calls |-> timer[c] /\ c \notin dropped]
      /\ future' = [c \in Calls |-> IF c \in dropped /\ future[c] = "open"
                                    THEN "cancelled" ELSE future[c]]

RunKeys(r) == {k \in Keys : k[1] = r}

(* A decision of the user; without a pending request it is refused.         *)
Resolve(k, d) ==
  /\ pending[k] # None
  /\ Finalize(pending[k], d)
  /\ UNCHANGED <<agent, stage, interrupted>>

(* The timer looks the request up by its key and applies the action of the  *)
(* request it finds.                                                        *)
TimeoutDecision(c) == IF Mode[c] = "approve" THEN "approved" ELSE "rejected"

TimeoutFires(c) ==
  LET found == pending[Key(c)]
  IN  /\ timer[c]
      /\ IF found # None /\ Timed(found)
         THEN Finalize(found, TimeoutDecision(found))
         ELSE /\ timer' = [timer EXCEPT ![c] = FALSE]
              /\ UNCHANGED <<pending, future, decided>>
      /\ UNCHANGED <<agent, stage, interrupted>>

-----------------------------------------------------------------------------
(* A tool call.                                                             *)

(* Assumed of the providers, not enforced by the code: no two calls of a    *)
(* run with the same id are in flight at once.                              *)
IdIsFree(c) ==
  \A d \in Calls \ {c} : Key(d) = Key(c) => stage[d] \notin {"waiting", "executing"}

Called(c) == agent[AgentOf[c]] = "running" /\ IdIsFree(c)

(* The tool is unknown or not enabled for the run.                          *)
RefuseCall(c) ==
  /\ Called(c) /\ Mode[c] = "disabled"
  /\ Move(c, "idle", "failed")
  /\ UNCHANGED <<agent, pending, timer, future, interrupted, decided>>

AllowCall(c) ==
  /\ Called(c) /\ Mode[c] = "allow"
  /\ Move(c, "idle", "executing")
  /\ UNCHANGED <<agent, pending, timer, future, interrupted, decided>>

RequestApproval(c) ==
  /\ Called(c) /\ Gated(c)
  /\ Move(c, "idle", "waiting")
  /\ pending' = [pending EXCEPT ![Key(c)] = c]
  /\ timer' = [timer EXCEPT ![c] = Timed(c)]
  /\ future' = [future EXCEPT ![c] = "open"]
  /\ UNCHANGED <<agent, interrupted, decided>>

Granted(c) == future[c] = "approved" /\ ~interrupted[c]

WaitGranted(c) ==
  /\ Granted(c)
  /\ Move(c, "waiting", "executing")
  /\ UNCHANGED <<agent, pending, timer, future, interrupted, decided>>

WaitRefused(c) ==
  /\ future[c] = "rejected" /\ ~interrupted[c]
  /\ Move(c, "waiting", "failed")
  /\ UNCHANGED <<agent, pending, timer, future, interrupted, decided>>

(* CancelledError at the await, even of a future that was decided before;   *)
(* whatever is held for the key is discarded.                               *)
WaitCancelled(c) ==
  /\ future[c] = "cancelled" \/ interrupted[c]
  /\ Move(c, "waiting", "cancelled")
  /\ Discard({Key(c)})
  /\ UNCHANGED <<agent, interrupted, decided>>

(* The tool returns, raises, or asks the user for a form.                   *)
ExecutionEnds(c) ==
  /\ \E outcome \in {"completed", "failed", "form"} : Move(c, "executing", outcome)
  /\ UNCHANGED <<agent, pending, timer, future, interrupted, decided>>

ExecutionCancelled(c) ==
  /\ interrupted[c]
  /\ Move(c, "executing", "cancelled")
  /\ UNCHANGED <<agent, pending, timer, future, interrupted, decided>>

-----------------------------------------------------------------------------
(* The agent task.                                                          *)

CallsOf(a) == {c \in Calls : AgentOf[c] = a}

InFlight(a) == {c \in CallsOf(a) : stage[c] \in {"waiting", "executing"}}

(* The stream cancels the task: cancelled run, client gone.                 *)
CancelAgent(a) ==
  /\ agent[a] = "running"
  /\ agent' = [agent EXCEPT ![a] = "cancelling"]
  /\ UNCHANGED <<stage, pending, timer, future, interrupted, decided>>

(* The task has been cancelled, or a call of it gave up because another     *)
(* agent of its run ended and dropped the request.                          *)
Interrupted(a) ==
  \/ agent[a] = "cancelling"
  \/ agent[a] = "running" /\ \E c \in CallsOf(a) : stage[c] = "cancelled"

(* The agent library cancels the tasks of the calls in flight, which        *)
(* cancels the futures they wait for.                                       *)
InterruptCalls(a) ==
  /\ Interrupted(a)
  /\ agent' = [agent EXCEPT ![a] = "unwinding"]
  /\ interrupted' = [c \in Calls |-> interrupted[c] \/ c \in InFlight(a)]
  /\ future' = [c \in Calls |-> IF c \in InFlight(a) /\ future[c] = "open"
                                THEN "cancelled" ELSE future[c]]
  /\ UNCHANGED <<stage, pending, timer, decided>>

(* agent.run is over once no call is in flight, as soon as a form breaks it *)
(* off (the library leaves the other calls alone), or after a cancellation. *)
RunOver(a) ==
  \/ agent[a] = "unwinding"
  \/ /\ agent[a] = "running"
     /\ InFlight(a) = {} \/ \E c \in CallsOf(a) : stage[c] = "form"

(* The finally clause of the agent task.                                    *)
EndAgent(a) ==
  /\ RunOver(a)
  /\ agent' = [agent EXCEPT ![a] = "ended"]
  /\ Discard(RunKeys(RunOf[a]))
  /\ UNCHANGED <<stage, interrupted, decided>>

-----------------------------------------------------------------------------
CallSteps(c) ==
  \/ WaitGranted(c) \/ WaitRefused(c) \/ WaitCancelled(c) \/ ExecutionCancelled(c)

Next ==
  \/ \E k \in Keys, d \in Decision : Resolve(k, d)
  \/ \E c \in Calls : \/ TimeoutFires(c) \/ RefuseCall(c) \/ AllowCall(c)
                      \/ RequestApproval(c) \/ CallSteps(c) \/ ExecutionEnds(c)
  \/ \E a \in Agents : CancelAgent(a) \/ InterruptCalls(a) \/ EndAgent(a)

Spec == Init /\ [][Next]_vars

(* The loop wakes tasks whose future is done and fires timers that are due; *)
(* users, tools and models need not do anything.  A call has few of these   *)
(* steps, so that none can hold up another for ever and fairness of all     *)
(* together is enough.                                                      *)
LoopSpec == Spec /\ WF_vars(\E c \in Calls : CallSteps(c) \/ TimeoutFires(c))

-----------------------------------------------------------------------------
(* Properties.                                                              *)

(* The variables have their types.                                          *)
TypeOK ==
  /\ agent \in [Agents -> Agent]
  /\ stage \in [Calls -> Stage]
  /\ pending \in [Keys -> Calls \cup {None}]
  /\ timer \in [Calls -> BOOLEAN]
  /\ future \in [Calls -> {"none", "open", "cancelled"} \cup Decision]
  /\ interrupted \in [Calls -> BOOLEAN]
  /\ decided \in [Calls -> Seq(Decision)]

(* A gated tool runs only on an approval of its own request, and on nothing *)
(* but that: neither a rejection that lost the race with the timeout nor a  *)
(* second answer lies behind it.                                            *)
RunsOnlyApproved ==
  \A c \in Calls :
    Gated(c) /\ stage[c] \in {"executing", "completed", "form"}
      => decided[c] = <<"approved">>

(* User and timeout never both decide: the second one finds nothing.        *)
DecidedAtMostOnce == \A c \in Calls : Len(decided[c]) <= 1

(* A waiter can always be woken: its request is held under its key, with    *)
(* the timer its mode promises.                                             *)
WaiterIsReachable ==
  \A c \in Calls :
    stage[c] = "waiting" /\ future[c] = "open"
      => pending[Key(c)] = c /\ timer[c] = Timed(c)

(* Nothing is left behind: a held request has a waiter and an agent that is *)
(* not over, and only held requests have timers.                            *)
NoOrphanRequest ==
  /\ \A k \in Keys : pending[k] # None =>
       /\ Key(pending[k]) = k
       /\ stage[pending[k]] = "waiting"
       /\ agent[AgentOf[pending[k]]] # "ended"
  /\ \A c \in Calls : timer[c] => pending[Key(c)] = c

(* A call whose approval may time out goes on, even if nobody answers.      *)
TimedCallSettles ==
  \A c \in {d \in Calls : Timed(d)} : stage[c] = "waiting" ~> stage[c] # "waiting"

(* No call waits for an approval once its agent task is over.               *)
EndedAgentLeavesNoWaiter ==
  \A a \in Agents :
    agent[a] = "ended" ~> \A c \in CallsOf(a) : stage[c] # "waiting"
=============================================================================
