-------------------------- MODULE ToolApproval_proofs --------------------------
(***************************************************************************)
(* Theorems of ToolApproval, for any calls, agents, runs, ids and modes.   *)
(* Several agents may execute the same run.                                *)
(***************************************************************************)
EXTENDS ToolApproval, TLAPS

(* What a held request, a set future and an idle call say of the decisions. *)
Settled ==
  \A c \in Calls :
    /\ stage[c] = "idle" => decided[c] = << >> /\ future[c] = "none"
    /\ pending[Key(c)] = c => decided[c] = << >> /\ future[c] \in {"open", "cancelled"}
    /\ future[c] \in Decision => decided[c] = <<future[c]>>
    /\ timer[c] => Timed(c)

(* Everything the gate maintains, inductive as a whole: a decision is new   *)
(* because the request it settles is held, and the right waiter holds it    *)
(* because no two calls of a key are in flight.                             *)
GateInv ==
  /\ TypeOK
  /\ Settled
  /\ RunsOnlyApproved
  /\ DecidedAtMostOnce
  /\ WaiterIsReachable
  /\ NoOrphanRequest

LEMMA KeyType == \A c \in Calls : Key(c) \in Keys
BY CallsAssumption, AgentsAssumption DEF Key, Keys

LEMMA GateInit == Init => GateInv
<1> SUFFICES ASSUME Init PROVE GateInv
  OBVIOUS
<1>1. TypeOK
  BY DEF Init, TypeOK, Agent, Stage
<1>2. Settled
  BY KeyType, CallsAssumption DEF Init, Settled, Decision
<1>3. RunsOnlyApproved /\ DecidedAtMostOnce /\ WaiterIsReachable /\ NoOrphanRequest
  BY DEF Init, RunsOnlyApproved, DecidedAtMostOnce, WaiterIsReachable, NoOrphanRequest
<1>4. QED
  BY <1>1, <1>2, <1>3 DEF GateInv

(* Settling a held request.                                                 *)
LEMMA FinalizeStep ==
  ASSUME GateInv, NEW k \in Keys, pending[k] # None, NEW d \in Decision,
         Finalize(pending[k], d), UNCHANGED <<agent, stage, interrupted>>
  PROVE  GateInv'
<1> DEFINE c == pending[k]
<1>1. c \in Calls /\ Key(c) = k /\ stage[c] = "waiting"
  BY DEF GateInv, TypeOK, NoOrphanRequest
<1>2. decided[c] = << >> /\ future[c] \in {"open", "cancelled"}
  BY <1>1 DEF GateInv, Settled
<1> HIDE DEF c
<1>3. /\ decided' = [decided EXCEPT ![c] = <<d>>]
      /\ timer' = [timer EXCEPT ![c] = FALSE]
      /\ future' = [future EXCEPT ![c] = IF @ = "open" THEN d ELSE @]
      /\ pending' = [pending EXCEPT ![k] = None]
  <2>1. Append(decided[c], d) = <<d>>
    BY <1>2
  <2>2. QED
    BY <1>1, <2>1 DEF Finalize, c
<1>4. TypeOK'
  BY <1>1, <1>3 DEF GateInv, TypeOK, Decision
<1>5. Settled'
  BY <1>1, <1>2, <1>3, CallsAssumption, KeyType DEF GateInv, TypeOK, Settled, Decision
<1>6. RunsOnlyApproved'
  BY <1>1, <1>3 DEF GateInv, TypeOK, RunsOnlyApproved
<1>7. DecidedAtMostOnce'
  BY <1>1, <1>3 DEF GateInv, TypeOK, DecidedAtMostOnce
<1>8. WaiterIsReachable'
  <2> SUFFICES ASSUME NEW e \in Calls, stage'[e] = "waiting", future'[e] = "open"
               PROVE  pending'[Key(e)] = e /\ timer'[e] = Timed(e)
    BY DEF WaiterIsReachable
  <2>1. e # c
    BY <1>1, <1>3 DEF GateInv, TypeOK, Decision
  <2>2. stage[e] = "waiting" /\ future[e] = "open" /\ timer'[e] = timer[e]
    BY <1>1, <1>3, <2>1 DEF GateInv, TypeOK
  <2>3. pending[Key(e)] = e /\ timer[e] = Timed(e)
    BY <2>2 DEF GateInv, WaiterIsReachable
  <2>4. Key(e) # k
    BY <2>1, <2>3 DEF c
  <2>5. pending'[Key(e)] = pending[Key(e)]
    BY <1>3, <2>4, KeyType DEF GateInv, TypeOK
  <2>6. QED
    BY <2>2, <2>3, <2>5
<1>9. NoOrphanRequest'
  <2>1. ASSUME NEW h \in Keys, pending'[h] # None
        PROVE  /\ Key(pending'[h]) = h
               /\ stage'[pending'[h]] = "waiting"
               /\ agent'[AgentOf[pending'[h]]] # "ended"
    <3>1. pending'[h] = pending[h]
      BY <1>3, <2>1 DEF GateInv, TypeOK
    <3>2. QED
      BY <2>1, <3>1 DEF GateInv, NoOrphanRequest
  <2>2. ASSUME NEW e \in Calls, timer'[e] PROVE pending'[Key(e)] = e
    <3>1. e # c /\ timer[e]
      BY <1>1, <1>3, <2>2 DEF GateInv, TypeOK
    <3>2. pending[Key(e)] = e
      BY <3>1 DEF GateInv, NoOrphanRequest
    <3>3. Key(e) # k
      BY <3>1, <3>2 DEF c
    <3>4. QED
      BY <1>3, <3>2, <3>3, KeyType DEF GateInv, TypeOK
  <2>3. QED
    BY <2>1, <2>2 DEF NoOrphanRequest
<1>10. QED
  BY <1>4, <1>5, <1>6, <1>7, <1>8, <1>9 DEF GateInv

(* Dropping requests, once every waiter whose request it may be is told.    *)
LEMMA DiscardFacts ==
  ASSUME GateInv, NEW keys \in SUBSET Keys, Discard(keys)
  PROVE  /\ pending' \in [Keys -> Calls \cup {None}]
         /\ timer' \in [Calls -> BOOLEAN]
         /\ future' \in [Calls -> {"none", "open", "cancelled"} \cup Decision]
         /\ \A k \in Keys : pending'[k] = IF k \in keys THEN None ELSE pending[k]
         /\ \A c \in Calls :
              IF pending[Key(c)] = c /\ Key(c) \in keys
              THEN /\ ~timer'[c]
                   /\ future'[c] = "cancelled"
              ELSE timer'[c] = timer[c] /\ future'[c] = future[c]
<1> DEFINE dropped == {pending[k] : k \in keys}
<1>1. \A c \in Calls : c \in dropped <=> pending[Key(c)] = c /\ Key(c) \in keys
  <2>1. \A k \in keys : pending[k] # None => Key(pending[k]) = k
    BY DEF GateInv, NoOrphanRequest
  <2>2. QED
    BY <2>1, CallsAssumption
<1> HIDE DEF dropped
<1>2. /\ pending' = [k \in Keys |-> IF k \in keys THEN None ELSE pending[k]]
      /\ timer' = [c \in Calls |-> timer[c] /\ c \notin dropped]
      /\ future' = [c \in Calls |-> IF c \in dropped /\ future[c] = "open"
                                    THEN "cancelled" ELSE future[c]]
  BY DEF Discard, dropped
<1>3. pending' \in [Keys -> Calls \cup {None}]
  BY <1>2 DEF GateInv, TypeOK
<1>4. future' \in [Calls -> {"none", "open", "cancelled"} \cup Decision]
  BY <1>2 DEF GateInv, TypeOK
<1>5. timer' \in [Calls -> BOOLEAN]
  BY <1>2
<1>6. ASSUME NEW c \in Calls
      PROVE  IF pending[Key(c)] = c /\ Key(c) \in keys
             THEN /\ ~timer'[c]
                  /\ future'[c] = "cancelled"
             ELSE timer'[c] = timer[c] /\ future'[c] = future[c]
  <2>1. CASE c \in dropped
    <3>1. future[c] \in {"open", "cancelled"}
      BY <1>1, <2>1 DEF GateInv, Settled
    <3>2. QED
      BY <1>1, <1>2, <2>1, <3>1
  <2>2. CASE c \notin dropped
    <3>1. timer'[c] = (timer[c] /\ TRUE) /\ future'[c] = future[c]
      BY <1>2, <2>2
    <3>2. timer[c] \in BOOLEAN
      BY DEF GateInv, TypeOK
    <3>3. QED
      BY <1>1, <2>2, <3>1, <3>2
  <2>3. QED
    BY <2>1, <2>2
<1>7. QED
  BY <1>2, <1>3, <1>4, <1>5, <1>6

(* A step of one call that changes nothing but its stage.                   *)
LEMMA MoveStep ==
  ASSUME GateInv, NEW c \in Calls, NEW from \in Stage, NEW to \in Stage \ {"idle", "waiting"},
         Move(c, from, to),
         from = "waiting" => pending[Key(c)] # c /\ ~timer[c],
         Gated(c) /\ to \in {"executing", "completed", "form"} => decided[c] = <<"approved">>,
         UNCHANGED <<agent, pending, timer, future, interrupted, decided>>
  PROVE  GateInv'
<1>1. stage[c] = from /\ stage' = [stage EXCEPT ![c] = to]
  BY DEF Move
<1>2. TypeOK'
  BY <1>1 DEF GateInv, TypeOK
<1>3. Settled'
  BY <1>1 DEF GateInv, TypeOK, Settled
<1>4. RunsOnlyApproved'
  BY <1>1 DEF GateInv, TypeOK, RunsOnlyApproved
<1>5. DecidedAtMostOnce'
  BY DEF GateInv, DecidedAtMostOnce
<1>6. WaiterIsReachable'
  BY <1>1 DEF GateInv, TypeOK, WaiterIsReachable
<1>7. NoOrphanRequest'
  <2>1. ASSUME NEW k \in Keys, pending'[k] # None
        PROVE  /\ Key(pending'[k]) = k
               /\ stage'[pending'[k]] = "waiting"
               /\ agent'[AgentOf[pending'[k]]] # "ended"
    <3>1. /\ pending[k] \in Calls
          /\ Key(pending[k]) = k
          /\ stage[pending[k]] = "waiting"
          /\ agent[AgentOf[pending[k]]] # "ended"
      BY <2>1 DEF GateInv, TypeOK, NoOrphanRequest
    <3>2. pending[k] # c
      BY <1>1, <3>1
    <3>3. QED
      BY <1>1, <3>1, <3>2 DEF GateInv, TypeOK
  <2>2. \A e \in Calls : timer'[e] => pending'[Key(e)] = e
    BY DEF GateInv, NoOrphanRequest
  <2>3. QED
    BY <2>1, <2>2 DEF NoOrphanRequest
<1>8. QED
  BY <1>2, <1>3, <1>4, <1>5, <1>6, <1>7 DEF GateInv

(* A decided request is no longer held.                                     *)
LEMMA DecidedIsReleased ==
  ASSUME GateInv, NEW c \in Calls, future[c] \in Decision
  PROVE  pending[Key(c)] # c /\ ~timer[c]
BY DEF GateInv, Settled, NoOrphanRequest, Decision

LEMMA RequestStep ==
  ASSUME GateInv, NEW c \in Calls, RequestApproval(c)
  PROVE  GateInv'
<1>1. /\ stage[c] = "idle" /\ stage' = [stage EXCEPT ![c] = "waiting"]
      /\ pending' = [pending EXCEPT ![Key(c)] = c]
      /\ timer' = [timer EXCEPT ![c] = Timed(c)]
      /\ future' = [future EXCEPT ![c] = "open"]
      /\ UNCHANGED <<agent, interrupted, decided>>
      /\ agent[AgentOf[c]] = "running"
      /\ IdIsFree(c)
  BY DEF RequestApproval, Move, Called
<1>2. Key(c) \in Keys /\ c # None
  BY KeyType, CallsAssumption
<1>3. decided[c] = << >>
  BY <1>1 DEF GateInv, Settled
<1>4. pending[Key(c)] = None
  <2>1. ASSUME pending[Key(c)] # None PROVE FALSE
    <3>1. PICK d \in Calls : d = pending[Key(c)] /\ Key(d) = Key(c) /\ stage[d] = "waiting"
      BY <1>2, <2>1 DEF GateInv, TypeOK, NoOrphanRequest
    <3>2. d # c
      BY <1>1, <3>1
    <3>3. QED
      BY <1>1, <3>1, <3>2 DEF IdIsFree
  <2>2. QED
    BY <2>1
<1>5. TypeOK'
  BY <1>1, <1>2 DEF GateInv, TypeOK, Stage, Timed
<1>6. \A e \in Calls : e # c => /\ stage'[e] = stage[e] /\ timer'[e] = timer[e]
                               /\ future'[e] = future[e]
                               /\ (pending'[Key(e)] = e <=> pending[Key(e)] = e)
  BY <1>1, <1>2, <1>4, KeyType, CallsAssumption DEF GateInv, TypeOK
<1>7. /\ stage'[c] = "waiting" /\ pending'[Key(c)] = c /\ future'[c] = "open"
      /\ timer'[c] = Timed(c) /\ decided' = decided
  BY <1>1, <1>2 DEF GateInv, TypeOK
<1>8. Settled'
  BY <1>3, <1>6, <1>7 DEF GateInv, Settled, Decision
<1>9. RunsOnlyApproved' /\ DecidedAtMostOnce'
  BY <1>6, <1>7 DEF GateInv, RunsOnlyApproved, DecidedAtMostOnce
<1>10. WaiterIsReachable'
  BY <1>6, <1>7 DEF GateInv, WaiterIsReachable
<1>11. NoOrphanRequest'
  BY <1>1, <1>2, <1>6, <1>7 DEF GateInv, TypeOK, NoOrphanRequest
<1>12. QED
  BY <1>5, <1>8, <1>9, <1>10, <1>11 DEF GateInv

LEMMA WaitCancelledStep ==
  ASSUME GateInv, NEW c \in Calls, WaitCancelled(c)
  PROVE  GateInv'
<1>1. /\ stage[c] = "waiting" /\ stage' = [stage EXCEPT ![c] = "cancelled"]
      /\ Discard({Key(c)})
      /\ UNCHANGED <<agent, interrupted, decided>>
  BY DEF WaitCancelled, Move
<1> DEFINE keys == {Key(c)}
<1>2. keys \in SUBSET Keys /\ Discard(keys)
  BY <1>1, KeyType
<1> HIDE DEF keys
<1>3. /\ pending' \in [Keys -> Calls \cup {None}]
      /\ timer' \in [Calls -> BOOLEAN]
      /\ future' \in [Calls -> {"none", "open", "cancelled"} \cup Decision]
      /\ \A k \in Keys : pending'[k] = IF k \in keys THEN None ELSE pending[k]
      /\ \A d \in Calls : IF pending[Key(d)] = d /\ Key(d) \in keys
                          THEN ~timer'[d] /\ future'[d] = "cancelled"
                          ELSE timer'[d] = timer[d] /\ future'[d] = future[d]
  BY <1>2, DiscardFacts
<1>4. TypeOK'
  BY <1>1, <1>3 DEF GateInv, TypeOK, Stage
<1>5. Settled'
  BY <1>1, <1>3, KeyType, CallsAssumption DEF GateInv, TypeOK, Settled, Decision
<1>6. RunsOnlyApproved' /\ DecidedAtMostOnce'
  BY <1>1 DEF GateInv, TypeOK, RunsOnlyApproved, DecidedAtMostOnce
<1>7. WaiterIsReachable'
  <2> SUFFICES ASSUME NEW e \in Calls, stage'[e] = "waiting", future'[e] = "open"
               PROVE  pending'[Key(e)] = e /\ timer'[e] = Timed(e)
    BY DEF WaiterIsReachable
  <2>1. stage[e] = "waiting" /\ e # c
    BY <1>1 DEF GateInv, TypeOK
  <2>2. ~(pending[Key(e)] = e /\ Key(e) \in keys) /\ timer'[e] = timer[e] /\ future[e] = "open"
    BY <1>3
  <2>3. pending[Key(e)] = e /\ timer[e] = Timed(e)
    BY <2>1, <2>2 DEF GateInv, WaiterIsReachable
  <2>4. QED
    BY <1>3, <2>2, <2>3, KeyType
<1>8. NoOrphanRequest'
  <2>1. ASSUME NEW k \in Keys, pending'[k] # None
        PROVE  /\ Key(pending'[k]) = k
               /\ stage'[pending'[k]] = "waiting"
               /\ agent'[AgentOf[pending'[k]]] # "ended"
    <3>1. pending'[k] = pending[k] /\ k # Key(c)
      BY <1>3, <2>1 DEF keys
    <3>2. /\ pending[k] \in Calls
          /\ Key(pending[k]) = k
          /\ stage[pending[k]] = "waiting"
          /\ agent[AgentOf[pending[k]]] # "ended"
      BY <2>1, <3>1 DEF GateInv, TypeOK, NoOrphanRequest
    <3>3. QED
      BY <1>1, <3>1, <3>2 DEF GateInv, TypeOK
  <2>2. ASSUME NEW e \in Calls, timer'[e] PROVE pending'[Key(e)] = e
    <3>1. ~(pending[Key(e)] = e /\ Key(e) \in keys) /\ timer[e]
      BY <1>3, <2>2
    <3>2. pending[Key(e)] = e
      BY <3>1 DEF GateInv, NoOrphanRequest
    <3>3. QED
      BY <1>3, <3>1, <3>2, KeyType
  <2>3. QED
    BY <2>1, <2>2 DEF NoOrphanRequest
<1>9. QED
  BY <1>4, <1>5, <1>6, <1>7, <1>8 DEF GateInv

(* The timeout that is due belongs to the request that is held.             *)
LEMMA TimeoutStep ==
  ASSUME GateInv, NEW c \in Calls, TimeoutFires(c)
  PROVE  GateInv'
<1>1. timer[c] /\ pending[Key(c)] = c /\ Timed(c) /\ c # None
  BY CallsAssumption DEF TimeoutFires, GateInv, Settled, NoOrphanRequest
<1>2. /\ Finalize(pending[Key(c)], TimeoutDecision(pending[Key(c)]))
      /\ UNCHANGED <<agent, stage, interrupted>>
  BY <1>1 DEF TimeoutFires
<1>3. TimeoutDecision(pending[Key(c)]) \in Decision
  BY DEF TimeoutDecision, Decision
<1>4. QED
  BY <1>1, <1>2, <1>3, KeyType, FinalizeStep

LEMMA CancelAgentStep ==
  ASSUME GateInv, NEW a \in Agents, CancelAgent(a)
  PROVE  GateInv'
<1>1. /\ agent' = [agent EXCEPT ![a] = "cancelling"]
      /\ UNCHANGED <<stage, pending, timer, future, interrupted, decided>>
  BY DEF CancelAgent
<1>2. TypeOK'
  BY <1>1 DEF GateInv, TypeOK, Agent
<1>3. Settled' /\ RunsOnlyApproved' /\ DecidedAtMostOnce' /\ WaiterIsReachable'
  BY <1>1 DEF GateInv, Settled, RunsOnlyApproved, DecidedAtMostOnce, WaiterIsReachable
<1>4. NoOrphanRequest'
  <2>1. \A b \in Agents : agent'[b] = "ended" => agent[b] = "ended"
    BY <1>1 DEF GateInv, TypeOK
  <2>2. \A k \in Keys : pending[k] # None => AgentOf[pending[k]] \in Agents
    BY CallsAssumption DEF GateInv, TypeOK
  <2>3. QED
    BY <1>1, <2>1, <2>2 DEF GateInv, NoOrphanRequest
<1>5. QED
  BY <1>2, <1>3, <1>4 DEF GateInv

LEMMA InterruptStep ==
  ASSUME GateInv, NEW a \in Agents, InterruptCalls(a)
  PROVE  GateInv'
<1>1. /\ agent' = [agent EXCEPT ![a] = "unwinding"]
      /\ UNCHANGED <<stage, pending, timer, decided>>
      /\ interrupted' = [c \in Calls |-> interrupted[c] \/ c \in InFlight(a)]
      /\ future' = [c \in Calls |-> IF c \in InFlight(a) /\ future[c] = "open"
                                    THEN "cancelled" ELSE future[c]]
  BY DEF InterruptCalls
<1>2. TypeOK'
  <2>1. agent' \in [Agents -> Agent]
    BY <1>1 DEF GateInv, TypeOK, Agent
  <2>2. interrupted' \in [Calls -> BOOLEAN]
    BY <1>1
  <2>3. future' \in [Calls -> {"none", "open", "cancelled"} \cup Decision]
    BY <1>1 DEF GateInv, TypeOK
  <2>4. QED
    BY <1>1, <2>1, <2>2, <2>3 DEF GateInv, TypeOK
<1>3. \A c \in Calls : \/ future'[c] = future[c]
                       \/ future[c] = "open" /\ future'[c] = "cancelled"
  BY <1>1
<1>4. Settled'
  BY <1>1, <1>3 DEF GateInv, Settled, Decision
<1>5. RunsOnlyApproved' /\ DecidedAtMostOnce' /\ WaiterIsReachable'
  BY <1>1, <1>3 DEF GateInv, RunsOnlyApproved, DecidedAtMostOnce, WaiterIsReachable
<1>6. NoOrphanRequest'
  <2>1. \A b \in Agents : agent'[b] = "ended" => agent[b] = "ended"
    BY <1>1 DEF GateInv, TypeOK
  <2>2. \A k \in Keys : pending[k] # None => AgentOf[pending[k]] \in Agents
    BY CallsAssumption DEF GateInv, TypeOK
  <2>3. QED
    BY <1>1, <2>1, <2>2 DEF GateInv, NoOrphanRequest
<1>7. QED
  BY <1>2, <1>4, <1>5, <1>6 DEF GateInv

(* The end of an agent drops the requests of its run, those of other agents *)
(* of the run too.                                                          *)
LEMMA EndAgentStep ==
  ASSUME GateInv, NEW a \in Agents, EndAgent(a)
  PROVE  GateInv'
<1> DEFINE keys == RunKeys(RunOf[a])
<1>1. /\ agent' = [agent EXCEPT ![a] = "ended"]
      /\ UNCHANGED <<stage, interrupted, decided>>
      /\ keys \in SUBSET Keys /\ Discard(keys)
  BY DEF EndAgent, RunKeys
<1>2. \A k \in Keys : k \in keys <=> k[1] = RunOf[a]
  BY DEF RunKeys
<1> HIDE DEF keys
<1>3. /\ pending' \in [Keys -> Calls \cup {None}]
      /\ timer' \in [Calls -> BOOLEAN]
      /\ future' \in [Calls -> {"none", "open", "cancelled"} \cup Decision]
      /\ \A k \in Keys : pending'[k] = IF k \in keys THEN None ELSE pending[k]
      /\ \A d \in Calls : IF pending[Key(d)] = d /\ Key(d) \in keys
                          THEN ~timer'[d] /\ future'[d] = "cancelled"
                          ELSE timer'[d] = timer[d] /\ future'[d] = future[d]
  BY <1>1, DiscardFacts
<1>4. TypeOK'
  BY <1>1, <1>3 DEF GateInv, TypeOK, Agent
<1>5. Settled'
  <2> SUFFICES ASSUME NEW e \in Calls
               PROVE  /\ stage'[e] = "idle" => decided'[e] = << >> /\ future'[e] = "none"
                      /\ pending'[Key(e)] = e
                           => decided'[e] = << >> /\ future'[e] \in {"open", "cancelled"}
                      /\ future'[e] \in Decision => decided'[e] = <<future'[e]>>
                      /\ timer'[e] => Timed(e)
    BY DEF Settled
  <2>1. CASE pending[Key(e)] = e /\ Key(e) \in keys
    <3>1. stage[e] = "waiting"
      BY <2>1, KeyType, CallsAssumption DEF GateInv, NoOrphanRequest
    <3>2. pending'[Key(e)] # e
      BY <1>3, <2>1, KeyType, CallsAssumption
    <3>3. QED
      BY <1>1, <1>3, <2>1, <3>1, <3>2 DEF Decision
  <2>2. CASE ~(pending[Key(e)] = e /\ Key(e) \in keys)
    <3>1. timer'[e] = timer[e] /\ future'[e] = future[e]
      BY <1>3, <2>2
    <3>2. pending'[Key(e)] = e => pending[Key(e)] = e
      BY <1>3, KeyType, CallsAssumption
    <3>3. QED
      BY <1>1, <3>1, <3>2 DEF GateInv, Settled
  <2>3. QED
    BY <2>1, <2>2
<1>6. RunsOnlyApproved' /\ DecidedAtMostOnce'
  BY <1>1 DEF GateInv, RunsOnlyApproved, DecidedAtMostOnce
<1>7. WaiterIsReachable'
  <2> SUFFICES ASSUME NEW e \in Calls, stage'[e] = "waiting", future'[e] = "open"
               PROVE  pending'[Key(e)] = e /\ timer'[e] = Timed(e)
    BY DEF WaiterIsReachable
  <2>1. ~(pending[Key(e)] = e /\ Key(e) \in keys) /\ timer'[e] = timer[e] /\ future[e] = "open"
    BY <1>3
  <2>2. pending[Key(e)] = e /\ timer[e] = Timed(e)
    BY <1>1, <2>1 DEF GateInv, WaiterIsReachable
  <2>3. QED
    BY <1>3, <2>1, <2>2, KeyType
<1>8. NoOrphanRequest'
  <2>1. ASSUME NEW k \in Keys, pending'[k] # None
        PROVE  /\ Key(pending'[k]) = k
               /\ stage'[pending'[k]] = "waiting"
               /\ agent'[AgentOf[pending'[k]]] # "ended"
    <3>1. pending'[k] = pending[k] /\ k[1] # RunOf[a]
      BY <1>2, <1>3, <2>1
    <3>2. /\ pending[k] \in Calls
          /\ Key(pending[k]) = k
          /\ stage[pending[k]] = "waiting"
          /\ agent[AgentOf[pending[k]]] # "ended"
      BY <2>1, <3>1 DEF GateInv, TypeOK, NoOrphanRequest
    <3>3. AgentOf[pending[k]] # a
      BY <3>1, <3>2 DEF Key
    <3>4. QED
      BY <1>1, <3>1, <3>2, <3>3, CallsAssumption DEF GateInv, TypeOK
  <2>2. ASSUME NEW e \in Calls, timer'[e] PROVE pending'[Key(e)] = e
    <3>1. ~(pending[Key(e)] = e /\ Key(e) \in keys) /\ timer[e]
      BY <1>3, <2>2
    <3>2. pending[Key(e)] = e
      BY <3>1 DEF GateInv, NoOrphanRequest
    <3>3. QED
      BY <1>3, <3>1, <3>2, KeyType
  <2>3. QED
    BY <2>1, <2>2 DEF NoOrphanRequest
<1>9. QED
  BY <1>4, <1>5, <1>6, <1>7, <1>8 DEF GateInv

(* The steps of one call.                                                   *)
LEMMA CallStep ==
  ASSUME GateInv, NEW c \in Calls,
         \/ TimeoutFires(c) \/ RefuseCall(c) \/ AllowCall(c)
         \/ RequestApproval(c) \/ CallSteps(c) \/ ExecutionEnds(c)
  PROVE  GateInv'
<1>1. ASSUME TimeoutFires(c) PROVE GateInv'
  BY <1>1, TimeoutStep
<1>2. ASSUME RefuseCall(c) PROVE GateInv'
  BY <1>2, MoveStep DEF RefuseCall, Stage
<1>3. ASSUME AllowCall(c) PROVE GateInv'
  <2>1. ~Gated(c)
    BY <1>3 DEF AllowCall, Gated, Timed
  <2>2. QED
    BY <1>3, <2>1, MoveStep DEF AllowCall, Stage
<1>4. ASSUME RequestApproval(c) PROVE GateInv'
  BY <1>4, RequestStep
<1>5. ASSUME WaitGranted(c) PROVE GateInv'
  <2>1. decided[c] = <<"approved">>
    BY <1>5 DEF WaitGranted, Granted, GateInv, Settled, Decision
  <2>2. pending[Key(c)] # c /\ ~timer[c]
    BY <1>5, DecidedIsReleased DEF WaitGranted, Granted, Decision
  <2>3. QED
    BY <1>5, <2>1, <2>2, MoveStep DEF WaitGranted, Stage
<1>6. ASSUME WaitRefused(c) PROVE GateInv'
  <2>1. pending[Key(c)] # c /\ ~timer[c]
    BY <1>6, DecidedIsReleased DEF WaitRefused, Decision
  <2>2. QED
    BY <1>6, <2>1, MoveStep DEF WaitRefused, Stage
<1>7. ASSUME WaitCancelled(c) PROVE GateInv'
  BY <1>7, WaitCancelledStep
<1>8. ASSUME ExecutionCancelled(c) PROVE GateInv'
  BY <1>8, MoveStep DEF ExecutionCancelled, Stage
<1>9. ASSUME ExecutionEnds(c) PROVE GateInv'
  <2>1. PICK outcome \in {"completed", "failed", "form"} : Move(c, "executing", outcome)
    BY <1>9 DEF ExecutionEnds
  <2>2. Gated(c) => decided[c] = <<"approved">>
    BY <2>1 DEF Move, GateInv, RunsOnlyApproved
  <2>3. QED
    BY <1>9, <2>1, <2>2, MoveStep DEF ExecutionEnds, Stage
<1>10. QED
  BY <1>1, <1>2, <1>3, <1>4, <1>5, <1>6, <1>7, <1>8, <1>9 DEF CallSteps

LEMMA GateStep == GateInv /\ [Next]_vars => GateInv'
<1> SUFFICES ASSUME GateInv, [Next]_vars PROVE GateInv'
  OBVIOUS
<1>1. ASSUME NEW k \in Keys, NEW d \in Decision, Resolve(k, d) PROVE GateInv'
  BY <1>1, FinalizeStep DEF Resolve
<1>2. ASSUME NEW c \in Calls,
             \/ TimeoutFires(c) \/ RefuseCall(c) \/ AllowCall(c)
             \/ RequestApproval(c) \/ CallSteps(c) \/ ExecutionEnds(c)
      PROVE  GateInv'
  BY <1>2, CallStep
<1>3. ASSUME NEW a \in Agents, CancelAgent(a) \/ InterruptCalls(a) \/ EndAgent(a)
      PROVE  GateInv'
  BY <1>3, CancelAgentStep, InterruptStep, EndAgentStep
<1>4. CASE UNCHANGED vars
  BY <1>4 DEF vars, GateInv, TypeOK, Settled, RunsOnlyApproved, DecidedAtMostOnce,
              WaiterIsReachable, NoOrphanRequest
<1>5. QED
  BY <1>1, <1>2, <1>3, <1>4 DEF Next

LEMMA GateAlways == Spec => []GateInv
BY GateInit, GateStep, PTL DEF Spec

(* The variables keep their types.                                          *)
THEOREM TypeCorrect == Spec => []TypeOK
<1>1. GateInv => TypeOK
  BY DEF GateInv
<1>2. QED
  BY <1>1, GateAlways, PTL

(* A gated tool never runs on anything but the one approval of its own      *)
(* request, however answers, timeouts and cancellations interleave.         *)
THEOREM NothingRunsUnapproved == Spec => []RunsOnlyApproved
<1>1. GateInv => RunsOnlyApproved
  BY DEF GateInv
<1>2. QED
  BY <1>1, GateAlways, PTL

(* Of the user and the timeout at most one decides a request.               *)
THEOREM OneDecision == Spec => []DecidedAtMostOnce
<1>1. GateInv => DecidedAtMostOnce
  BY DEF GateInv
<1>2. QED
  BY <1>1, GateAlways, PTL

(* Whoever waits for a decision can still get it.                           *)
THEOREM WaitersAreReachable == Spec => []WaiterIsReachable
<1>1. GateInv => WaiterIsReachable
  BY DEF GateInv
<1>2. QED
  BY <1>1, GateAlways, PTL

(* The map of the coordinator holds no request without a waiter, and no     *)
(* timer outlives its request.                                              *)
THEOREM NothingIsLeftBehind == Spec => []NoOrphanRequest
<1>1. GateInv => NoOrphanRequest
  BY DEF GateInv
<1>2. QED
  BY <1>1, GateAlways, PTL
=============================================================================
