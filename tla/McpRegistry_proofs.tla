-------------------------- MODULE McpRegistry_proofs --------------------------
(***************************************************************************)
(* Theorems of McpRegistry, for any servers, operations and connectors,    *)
(* and any number of reconnects, operations, faults and overlaps.          *)
(***************************************************************************)
EXTENDS McpRegistry, TLAPS

OpKind == Kinds \cup {"none"}

OpPc == {"idle", "load", "write", "open", "writing", "hub", "refresh", "save", "reopen",
         "saving", "publish"}

Operation ==
  [kind : OpKind, pc : OpPc, server : Servers \cup {None}, edit : 0 .. MaxBegun + 1, doc : Doc,
   next : Doc, rev : Nat, was : BOOLEAN, asked : BOOLEAN, ok : BOOLEAN, alone : BOOLEAN]

Connector ==
  [server : Servers \cup {None}, edit : 0 .. MaxBegun + 1, child : BOOLEAN, ready : BOOLEAN,
   pending : SUBSET Tasks, tools : BOOLEAN, lost : BOOLEAN]

RetryStep == {"none", "restart", "ask"}

(* A timer is that of the last attempt counted.                             *)
Retry ==
  {r \in [timer : BOOLEAN, attempts : Nat, steps : [Attempts -> RetryStep]] :
     r.timer => r.attempts \in Attempts}

File == [doc : Doc, writers : SUBSET Ops, mixed : BOOLEAN]

Sink == [revision : Nat, tools : SUBSET Servers]

Part == [step : {"done", "due"} \cup Engaged, conn : Connectors \cup {None}]

(* Every variable has its type.                                             *)
Typed ==
  /\ file \in File
  /\ runtime \in Nat
  /\ entries \in [Servers -> Connectors \cup {None}]
  /\ conn \in [Connectors -> Connector]
  /\ states \in [Servers -> State]
  /\ op \in [Ops -> Operation]
  /\ part \in [Ops -> [Servers -> Part]]
  /\ retry \in [Connectors -> Retry]
  /\ sink \in Sink
  /\ begun \in 0 .. MaxBegun
  /\ overlaps \in Nat
  /\ raced \in BOOLEAN
  /\ settled \in BOOLEAN

(* A connector with something to answer has a process, and one with a       *)
(* process or a retry has a server.                                         *)
ConnectorsFit ==
  \A c \in Connectors : /\ conn[c].ready \/ conn[c].pending # {} => conn[c].child
                        /\ conn[c].child \/ retry[c].timer => conn[c].server \in Servers
                        /\ \A k \in Attempts : retry[c].steps[k] # "none"
                                              => conn[c].server \in Servers

(* Whoever uses a connector knows it by the server it was made for.         *)
EntriesFit == \A s \in Servers : entries[s] # None => conn[entries[s]].server = s

PartsFit ==
  \A o \in Ops, s \in Servers :
    part[o][s].step \in Engaged => /\ part[o][s].conn \in Connectors
                                   /\ conn[part[o][s].conn].server = s

(* An operation that is under way has its server and its time stamp.        *)
OpsFit ==
  \A o \in Ops :
    /\ op[o].pc # "idle" => op[o].server \in Servers /\ op[o].kind \in Kinds
    /\ op[o].kind \in {"on", "off"} => op[o].edit \in 1 .. MaxBegun + 1
    /\ op[o].pc \in {"write", "open", "writing"} => op[o].kind \in {"on", "off", "delete"}

Coherent == ConnectorsFit /\ EntriesFit /\ PartsFit /\ OpsFit

TypeInv == Typed /\ Coherent

(* Only operations that are writing hold the document, and only one that is *)
(* at the hub has something to do with a server.                            *)
Orderly ==
  /\ \A o \in file.writers : op[o].pc \in {"writing", "saving"}
  /\ \A o \in Ops : op[o].pc \notin {"hub", "refresh"} => PartsDone(o)
  /\ overlaps = 0 => \A o, p \in Active : o = p
  /\ \A o \in Active : op[o].alone => Active = {o}

(* Without overlaps the operation under way carries the revision of the     *)
(* service.                                                                 *)
RevisionInv ==
  overlaps = 0 =>
    /\ \A o \in Active : op[o].pc # "load" => op[o].rev = runtime
    /\ \A o \in Active : op[o].pc = "refresh" /\ op[o].asked
                         => \E s \in Servers : op[o].doc.servers[s].on

(* An operation that runs alone has read what is stored, and each server it *)
(* is done with is in line with that.                                       *)
Repaired(servers, s) ==
  /\ entries[s] # None <=> servers[s].on
  /\ entries[s] # None => conn[entries[s]].edit = servers[s].edit

RepairInv ==
  /\ settled => Active = {} /\ \A s \in Servers : Repaired(file.doc.servers, s)
  /\ \A o \in Active : op[o].alone /\ op[o].pc \in {"writing", "saving"}
                       => file.writers = {o} /\ ~file.mixed
  /\ \A o \in Active :
       op[o].alone /\ op[o].pc \in {"reopen", "saving"} => op[o].next.servers = op[o].doc.servers
  /\ \A o \in Active :
       op[o].alone /\ op[o].pc \in {"hub", "refresh", "save", "reopen", "publish"} =>
         op[o].doc.servers = file.doc.servers
  /\ \A o \in Active :
       /\ op[o].alone /\ op[o].pc \in {"hub", "refresh", "save", "reopen", "saving", "publish"}
       /\ op[o].kind \notin {"off", "delete"}
       => \A s \in Servers : op[o].pc # "hub" \/ part[o][s].step \notin {"due", "stop"}
                             => Repaired(op[o].doc.servers, s)

(* While nobody has been at work on a server with somebody else: a process  *)
(* belongs to an entry, a connector that waits to be started again has      *)
(* none, and an operation works on the entry of the server.                 *)
ProcessInv ==
  ~raced =>
    /\ \A c \in Connectors : /\ ~conn[c].lost
                             /\ conn[c].child => entries[conn[c].server] = c
                             /\ \A k \in Attempts : retry[c].steps[k] # "restart"
    /\ \A o \in Ops, s \in Servers :
         /\ part[o][s].step \in Engaged => entries[s] = part[o][s].conn
         /\ part[o][s].step \in {"stop", "restart"} => ~conn[part[o][s].conn].child
    /\ \A o, p \in Ops, s \in Servers :
         part[o][s].step \in Engaged /\ part[p][s].step \in Engaged => o = p

-----------------------------------------------------------------------------
(* Connectors and documents.                                                *)

LEMMA Numbers == MaxBegun \in Nat /\ MaxReconnects \in Nat
BY NumberAssumption

LEMMA KilledFacts ==
  ASSUME NEW cn \in Connector
  PROVE  /\ Killed(cn) \in Connector
         /\ Killed(cn).server = cn.server /\ Killed(cn).edit = cn.edit
         /\ Killed(cn).lost = cn.lost /\ Killed(cn).pending = {}
         /\ ~Killed(cn).child /\ ~Killed(cn).ready
BY DEF Killed, Connector

LEMMA SpawnedFacts ==
  ASSUME NEW cn \in Connector, NEW task \in Tasks
  PROVE  /\ Spawned(cn, task) \in Connector
         /\ Spawned(cn, task).server = cn.server /\ Spawned(cn, task).edit = cn.edit
         /\ Spawned(cn, task).lost <=> cn.lost \/ cn.child
         /\ Spawned(cn, task).child /\ ~Spawned(cn, task).ready
<1>1. (cn.lost \/ cn.child) \in BOOLEAN /\ {task} \in SUBSET Tasks
  BY DEF Connector
<1> DEFINE lost == cn.lost \/ cn.child
<1>2. Spawned(cn, task) = [cn EXCEPT !.child = TRUE, !.ready = FALSE, !.pending = {task},
                                     !.lost = lost]
  BY DEF Spawned
<1>3. lost \in BOOLEAN
  BY <1>1
<1>4. lost <=> cn.lost \/ cn.child
  OBVIOUS
<1> HIDE DEF lost
<1>5. QED
  BY <1>1, <1>2, <1>3, <1>4 DEF Connector

LEMMA ConnectedFacts ==
  ASSUME NEW cn \in Connector, NEW task \in Tasks
  PROVE  /\ Connected(cn, task) \in Connector
         /\ Connected(cn, task).server = cn.server /\ Connected(cn, task).edit = cn.edit
         /\ Connected(cn, task).lost = cn.lost /\ Connected(cn, task).child = cn.child
BY DEF Connected, Connector

(* A connector made has no attempts yet, and one that is rescheduled keeps  *)
(* those under way.                                                         *)
LEMMA RescheduledFacts ==
  ASSUME NEW r \in Retry, NEW retryable \in BOOLEAN
  PROVE  /\ Rescheduled(r, retryable) \in Retry
         /\ Rescheduled(r, retryable).steps = r.steps
<1>1. /\ r \in [timer : BOOLEAN, attempts : Nat, steps : [Attempts -> RetryStep]]
      /\ r.timer => r.attempts \in Attempts
  BY DEF Retry
<1>2. CASE Rescheduled(r, retryable) = r
  BY <1>2
<1>3. CASE /\ Rescheduled(r, retryable) = [r EXCEPT !.timer = TRUE, !.attempts = @ + 1]
           /\ r.attempts < MaxReconnects
  <2> DEFINE n == [r EXCEPT !.timer = TRUE, !.attempts = r.attempts + 1]
  <2>1. r.attempts + 1 \in Attempts
    BY <1>1, <1>3, Numbers DEF Attempts
  <2> DEFINE a == r.attempts + 1
  <2>6. a \in Nat
    BY <1>1
  <2> HIDE DEF a
  <2>7. [r EXCEPT !.timer = TRUE, !.attempts = a] \in
          [timer : BOOLEAN, attempts : Nat, steps : [Attempts -> RetryStep]]
    BY <1>1, <2>6
  <2>8. /\ [r EXCEPT !.timer = TRUE, !.attempts = a].attempts = a
        /\ [r EXCEPT !.timer = TRUE, !.attempts = a].steps = r.steps
    BY <1>1
  <2>2. /\ n \in [timer : BOOLEAN, attempts : Nat, steps : [Attempts -> RetryStep]]
        /\ n.attempts = r.attempts + 1 /\ n.steps = r.steps
    BY <2>7, <2>8 DEF a
  <2>3. n = Rescheduled(r, retryable)
    BY <1>3
  <2> HIDE DEF n
  <2>4. n \in Retry
    BY <2>1, <2>2 DEF Retry
  <2>5. QED
    BY <2>2, <2>3, <2>4
<1>4. QED
  BY <1>2, <1>3 DEF Rescheduled

(* An attempt under way takes another step.                                 *)
LEMMA AttemptFacts ==
  ASSUME NEW r \in Retry, NEW k \in Attempts, NEW step \in RetryStep
  PROVE  /\ [r EXCEPT !.steps[k] = step] \in Retry
         /\ [r EXCEPT !.timer = FALSE, !.steps[k] = step] \in Retry
         /\ [r EXCEPT !.timer = FALSE] \in Retry
         /\ [r EXCEPT !.timer = FALSE].steps = r.steps
         /\ \A l \in Attempts :
              /\ [r EXCEPT !.steps[k] = step].steps[l] = IF l = k THEN step ELSE r.steps[l]
              /\ [r EXCEPT !.timer = FALSE, !.steps[k] = step].steps[l] =
                   IF l = k THEN step ELSE r.steps[l]
<1>1. /\ r \in [timer : BOOLEAN, attempts : Nat, steps : [Attempts -> RetryStep]]
      /\ r.timer => r.attempts \in Attempts
      /\ [r.steps EXCEPT ![k] = step] \in [Attempts -> RetryStep]
  BY DEF Retry
<1>2. QED
  BY <1>1 DEF Retry

(* An answer changes its connector, and only what runs in it.               *)
LEMMA AnswerFacts ==
  ASSUME TypeInv, NEW c \in Connectors, NEW task \in Tasks, NEW ok \in BOOLEAN,
         NEW retryable \in BOOLEAN, conn[c].server \in Servers, Answer(c, task, ok, retryable)
  PROVE  /\ conn' \in [Connectors -> Connector]
         /\ states' \in [Servers -> State]
         /\ \A d \in Connectors \ {c} : conn'[d] = conn[d]
         /\ conn'[c].server = conn[c].server /\ conn'[c].edit = conn[c].edit
         /\ conn'[c].lost = conn[c].lost
         /\ conn'[c].child => conn[c].child
         /\ conn'[c].ready \/ conn'[c].pending # {} => conn'[c].child
<1>1. conn[c] \in Connector /\ conn \in [Connectors -> Connector]
  BY DEF TypeInv, Typed
<1>2. states' \in [Servers -> State]
  BY DEF Answer, Failure, TypeInv, Typed, State
<1>3. CASE ok
  <2>1. conn' = [conn EXCEPT ![c] = Connected(conn[c], task)] /\ task \in conn[c].pending
    BY <1>3 DEF Answer
  <2>2. conn[c].child
    BY <2>1 DEF TypeInv, Coherent, ConnectorsFit
  <2>3. QED
    BY <1>1, <1>2, <2>1, <2>2, ConnectedFacts
<1>4. CASE ~ok
  <2>1. conn' = [conn EXCEPT ![c] = Killed(conn[c])]
    BY <1>4 DEF Answer
  <2>2. QED
    BY <1>1, <1>2, <2>1, KilledFacts
<1>5. QED
  BY <1>3, <1>4

(* The document and its writers.                                            *)
LEMMA DocFacts ==
  /\ Absent \in Stored
  /\ EmptyDoc \in Doc /\ EmptyDoc.snapshot = 0
  /\ \A s \in Servers : ~EmptyDoc.servers[s].on
  /\ TypeInv => ReadDoc \in Doc
<1>1. Absent \in Stored
  BY DEF Stored
<1>2. /\ EmptyDoc \in Doc /\ EmptyDoc.snapshot = 0
      /\ \A s \in Servers : ~EmptyDoc.servers[s].on
  BY <1>1 DEF EmptyDoc, Doc, Absent
<1>3. TypeInv => ReadDoc \in Doc
  BY <1>2 DEF ReadDoc, TypeInv, Typed, File
<1>4. QED
  BY <1>1, <1>2, <1>3

LEMMA FileFacts ==
  ASSUME TypeInv, NEW o \in Ops
  PROVE  /\ Recovered \in File /\ Recovered.doc = ReadDoc /\ Recovered.writers = {}
         /\ Emptied(o) \in File /\ Emptied(o).doc = file.doc
         /\ Emptied(o).writers = file.writers \cup {o}
         /\ Emptied(o).mixed <=> file.writers # {}
<1>1. file \in File /\ ReadDoc \in Doc
  BY DocFacts DEF TypeInv, Typed
<1>2. Recovered \in File /\ Recovered.doc = ReadDoc /\ Recovered.writers = {}
  BY <1>1 DEF Recovered, File
<1> DEFINE mixed == file.writers # {}
<1>3. Emptied(o) = [file EXCEPT !.writers = @ \cup {o}, !.mixed = mixed]
  BY DEF Emptied
<1>4. mixed \in BOOLEAN /\ (mixed <=> file.writers # {})
  OBVIOUS
<1> HIDE DEF mixed
<1> DEFINE writers == file.writers \cup {o}
<1>5. writers \in SUBSET Ops
  BY <1>1 DEF File
<1>6. Emptied(o) = [file EXCEPT !.writers = writers, !.mixed = mixed]
  BY <1>3
<1> HIDE DEF writers
<1>7. /\ Emptied(o) \in File /\ Emptied(o).doc = file.doc
      /\ Emptied(o).writers = writers /\ Emptied(o).mixed = mixed
  BY <1>1, <1>4, <1>5, <1>6 DEF File
<1>8. QED
  BY <1>2, <1>4, <1>7 DEF writers

LEMMA RewrittenFacts ==
  ASSUME TypeInv, NEW o \in Ops, NEW doc \in Doc
  PROVE  /\ Rewritten(o, doc) \in File
         /\ Rewritten(o, doc).writers = file.writers \ {o}
         /\ Rewritten(o, doc).doc = IF o \in file.writers THEN doc ELSE file.doc
BY DEF Rewritten, TypeInv, Typed, File

LEMMA ReadableFacts ==
  ASSUME TypeInv, NEW o \in Ops
  PROVE  Readable(o) \subseteq Doc /\ (~file.mixed => Readable(o) = {op[o].next})
BY DocFacts DEF Readable, TypeInv, Typed, Operation

LEMMA RevisionFacts ==
  ASSUME TypeInv, NEW doc \in Doc
  PROVE  /\ Revision(doc) \in Nat
         /\ Revision(doc) >= runtime /\ Revision(doc) >= doc.snapshot
BY DEF Revision, Larger, TypeInv, Typed, Doc

(* A connector made is one that was not used.                               *)
LEMMA NextConnectorFacts == \A c \in NextConnector : c \in Connectors /\ conn[c] = Unused
BY DEF NextConnector

LEMMA NoOpFacts == NoOp \in Operation /\ NoOp.pc = "idle" /\ NoPart \in Part
<1>1. 0 \in 0 .. MaxBegun + 1 /\ EmptyDoc \in Doc
  BY Numbers, DocFacts
<1>2. QED
  BY <1>1 DEF NoOp, Operation, OpKind, OpPc, NoPart, Part

-----------------------------------------------------------------------------
(* Types.                                                                   *)

LEMMA TypeInit == Init => TypeInv
<1> SUFFICES ASSUME Init PROVE TypeInv
  OBVIOUS
<1>1. 0 \in 0 .. MaxBegun + 1 /\ 1 \in 1 .. MaxBegun + 1 /\ 0 \in 0 .. MaxBegun
  BY Numbers
<1>2. PICK s \in Servers, r \in {Absent, [on |-> TRUE, edit |-> 1], [on |-> FALSE, edit |-> 1]} :
        file = [doc |-> [snapshot |-> r.edit, servers |-> [EmptyDoc.servers EXCEPT ![s] = r]],
                writers |-> {}, mixed |-> FALSE]
  BY DEF Init
<1>3. r \in Stored /\ r.edit \in Nat
  <2>1. /\ [on |-> TRUE, edit |-> 1] \in [on : BOOLEAN, edit : 1 .. MaxBegun + 1]
        /\ [on |-> FALSE, edit |-> 1] \in [on : BOOLEAN, edit : 1 .. MaxBegun + 1]
    BY <1>1
  <2>2. [on |-> TRUE, edit |-> 1].edit = 1 /\ [on |-> FALSE, edit |-> 1].edit = 1
          /\ Absent.edit = 0
    BY DEF Absent
  <2>3. CASE r = Absent
    BY <2>2, <2>3, DocFacts
  <2>4. CASE r = [on |-> TRUE, edit |-> 1]
    BY <2>1, <2>2, <2>4 DEF Stored
  <2>5. CASE r = [on |-> FALSE, edit |-> 1]
    BY <2>1, <2>2, <2>5 DEF Stored
  <2>6. QED
    BY <2>3, <2>4, <2>5
<1>4. EmptyDoc.servers \in [Servers -> Stored]
  BY DocFacts DEF Doc
<1>5. [EmptyDoc.servers EXCEPT ![s] = r] \in [Servers -> Stored]
  BY <1>3, <1>4
<1>6. file \in File /\ file.doc.snapshot \in Nat
  BY <1>2, <1>3, <1>5 DEF Doc, File
<1>7. Unused \in Connector /\ NoRetry \in Retry
  BY <1>1 DEF Unused, Connector, NoRetry, Retry, RetryStep
<1>8. Typed
  <2>1. sink \in Sink
    BY <1>6 DEF Init, Sink
  <2>2. op \in [Ops -> Operation] /\ part \in [Ops -> [Servers -> Part]]
    BY NoOpFacts DEF Init
  <2>3. QED
    BY <1>1, <1>6, <1>7, <2>1, <2>2 DEF Init, Typed, State
<1>9. Coherent
  BY DEF Init, Coherent, ConnectorsFit, EntriesFit, PartsFit, OpsFit, Unused, NoRetry, NoPart,
         Engaged, NoOp
<1>10. QED
  BY <1>8, <1>9 DEF TypeInv

(* A step of the hub or of a process that touches one connector.            *)
LEMMA ConnectorStep ==
  ASSUME TypeInv, NEW c \in Connectors, NEW cn \in Connector,
         conn' = [conn EXCEPT ![c] = cn], cn.server = conn[c].server,
         cn.ready \/ cn.pending # {} => cn.child,
         conn[c].server \in Servers,
         UNCHANGED <<entries, op>>,
         part' \in [Ops -> [Servers -> Part]],
         \A o \in Ops, s \in Servers :
           part'[o][s].step \in Engaged =>
             \/ part[o][s].step \in Engaged /\ part'[o][s].conn = part[o][s].conn
             \/ part'[o][s].conn \in Connectors /\ conn[part'[o][s].conn].server = s,
         \A d \in Connectors \ {c} : retry'[d] = retry[d]
  PROVE  /\ conn' \in [Connectors -> Connector]
         /\ ConnectorsFit' /\ EntriesFit' /\ PartsFit' /\ OpsFit'
<1>1. conn \in [Connectors -> Connector] /\ entries \in [Servers -> Connectors \cup {None}]
  BY DEF TypeInv, Typed
<1>2. conn' \in [Connectors -> Connector]
  BY <1>1
<1>3. \A d \in Connectors : conn'[d].server = conn[d].server
  BY <1>1
<1>4. ConnectorsFit'
  BY <1>1 DEF ConnectorsFit, TypeInv, Coherent
<1>5. EntriesFit'
  BY <1>1, <1>3 DEF EntriesFit, TypeInv, Coherent
<1>6. PartsFit'
  BY <1>3 DEF PartsFit, TypeInv, Coherent
<1>7. OpsFit'
  BY DEF OpsFit, TypeInv, Coherent
<1>8. QED
  BY <1>2, <1>4, <1>5, <1>6, <1>7

LEMMA HubTypes ==
  ASSUME TypeInv, NEW o \in Ops, NEW s \in Servers, Hub(o, s)
  PROVE  TypeInv'
<1>1. /\ conn \in [Connectors -> Connector] /\ part \in [Ops -> [Servers -> Part]]
      /\ entries \in [Servers -> Connectors \cup {None}]
      /\ states \in [Servers -> State] /\ op \in [Ops -> Operation]
      /\ retry \in [Connectors -> Retry]
  BY DEF TypeInv, Typed
<1>2. NoPart \in Part /\ NoPart.step \notin Engaged
  BY DEF NoPart, Part, Engaged
<1>3. ASSUME Keep(o, s) PROVE TypeInv'
  <2>1. part' = [part EXCEPT ![o][s] = NoPart]
    BY <1>3 DEF Keep
  <2>2. part' \in [Ops -> [Servers -> Part]]
    BY <1>1, <1>2, <2>1
  <2>3. \A p \in Ops, t \in Servers : part'[p][t].step \in Engaged => part'[p][t] = part[p][t]
    BY <1>1, <1>2, <2>1
  <2>4. PartsFit'
    BY <1>3, <2>3 DEF Keep, TypeInv, Coherent, PartsFit
  <2>5. QED
    BY <1>3, <2>2, <2>4 DEF Keep, TypeInv, Typed, Coherent, ConnectorsFit, EntriesFit, OpsFit
<1>4. ASSUME Stop(o, s) PROVE TypeInv'
  <2> DEFINE c == entries[s]
             cn == Killed(conn[c])
             p == [step |-> "stop", conn |-> c]
  <2>1. c \in Connectors /\ conn[c].server = s
    BY <1>1, <1>4 DEF Stop, TypeInv, Coherent, EntriesFit
  <2>2. /\ cn \in Connector /\ cn.server = conn[c].server
        /\ ~cn.ready /\ cn.pending = {}
    BY <1>1, <2>1, KilledFacts
  <2>3. p \in Part /\ p.step \in Engaged
    BY <2>1 DEF Part, Engaged
  <2>4. conn' = [conn EXCEPT ![c] = cn] /\ part' = [part EXCEPT ![o][s] = p]
    BY <1>4 DEF Stop
  <2>5. /\ UNCHANGED <<file, runtime, entries, states, op, retry, sink, begun, faults, overlaps,
                       settled>>
        /\ raced' \in BOOLEAN
    BY <1>4 DEF Stop
  <2>6. /\ part' \in [Ops -> [Servers -> Part]]
        /\ \A q \in Ops, t \in Servers : part'[q][t] = IF q = o /\ t = s THEN p ELSE part[q][t]
    BY <1>1, <2>3, <2>4
  <2>7. p.conn = c
    OBVIOUS
  <2> HIDE DEF c, cn, p
  <2>8. /\ conn' \in [Connectors -> Connector]
        /\ ConnectorsFit' /\ EntriesFit' /\ PartsFit' /\ OpsFit'
    BY <2>1, <2>2, <2>4, <2>5, <2>6, <2>7, ConnectorStep
  <2>9. QED
    BY <2>5, <2>6, <2>8 DEF TypeInv, Typed, Coherent
<1>5. ASSUME Drop(o, s) PROVE TypeInv'
  <2>1. part' = [part EXCEPT ![o][s] = NoPart] /\ entries' = [entries EXCEPT ![s] = None]
    BY <1>5 DEF Drop
  <2>2. /\ part' \in [Ops -> [Servers -> Part]]
        /\ entries' \in [Servers -> Connectors \cup {None}]
    BY <1>1, <1>2, <2>1
  <2>3. /\ \A p \in Ops, t \in Servers : part'[p][t].step \in Engaged => part'[p][t] = part[p][t]
        /\ \A t \in Servers : entries'[t] # None => entries'[t] = entries[t]
    BY <1>1, <1>2, <2>1
  <2>4. PartsFit' /\ EntriesFit'
    BY <1>5, <2>3 DEF Drop, TypeInv, Coherent, PartsFit, EntriesFit
  <2>5. states' \in [Servers -> State]
    BY <1>1, <1>5 DEF Drop, State
  <2>6. raced' \in BOOLEAN
    BY <1>5 DEF Drop
  <2>7. QED
    BY <1>5, <2>2, <2>4, <2>5, <2>6 DEF Drop, TypeInv, Typed, Coherent, ConnectorsFit, OpsFit
<1>6. ASSUME Start(o, s) PROVE TypeInv'
  <2>1. PICK c \in NextConnector :
          /\ entries' = [entries EXCEPT ![s] = c]
          /\ conn' = [conn EXCEPT ![c] =
               Spawned([Unused EXCEPT !.server = s, !.edit = Wanted(o, s).edit], o)]
          /\ part' = [part EXCEPT ![o][s] = [step |-> "ask", conn |-> c]]
    BY <1>6 DEF Start
  <2>2. /\ UNCHANGED <<file, runtime, op, retry, sink, begun, faults, overlaps, settled>>
        /\ raced' \in BOOLEAN
    BY <1>6 DEF Start
  <2> DEFINE made == [Unused EXCEPT !.server = s, !.edit = Wanted(o, s).edit]
             p == [step |-> "ask", conn |-> c]
  <2>3. Wanted(o, s).edit \in 0 .. MaxBegun + 1
    <3>1. op[o].doc.servers[s] \in Stored
      BY <1>1 DEF Operation, Doc
    <3>2. \A r \in Stored : r.edit \in 0 .. MaxBegun + 1
      BY Numbers DEF Stored, Absent
    <3>3. QED
      BY <3>1, <3>2 DEF Wanted
  <2>4. made \in Connector /\ made.server = s
    BY <2>3 DEF Unused, Connector
  <2>5. o \in Tasks /\ c \in Connectors /\ conn[c] = Unused
    BY NextConnectorFacts DEF Tasks
  <2> DEFINE cn == Spawned(made, o)
  <2> HIDE DEF made
  <2>6. cn \in Connector /\ cn.server = s /\ cn.child
    BY <2>4, <2>5, SpawnedFacts
  <2>7. conn' = [conn EXCEPT ![c] = cn]
    BY <2>1 DEF made
  <2> HIDE DEF cn
  <2>8. conn' \in [Connectors -> Connector]
    BY <1>1, <2>5, <2>6, <2>7
  <2>9. /\ part' \in [Ops -> [Servers -> Part]]
        /\ entries' \in [Servers -> Connectors \cup {None}]
    BY <1>1, <2>1, <2>5 DEF Part, Engaged
  <2>10. Unused.server = None /\ None \notin Servers
    BY RegistryAssumption DEF Unused
  <2>11. ConnectorsFit'
    BY <1>1, <2>2, <2>5, <2>6, <2>7 DEF ConnectorsFit, TypeInv, Coherent
  <2>12. EntriesFit'
    <3>1. ASSUME NEW t \in Servers, entries'[t] # None PROVE conn'[entries'[t]].server = t
      <4>1. CASE t = s
        BY <1>1, <2>1, <2>5, <2>6, <2>7, <4>1
      <4>2. CASE t # s
        <5>1. entries'[t] = entries[t] /\ entries[t] \in Connectors /\ conn[entries[t]].server = t
          BY <1>1, <2>1, <3>1, <4>2 DEF TypeInv, Coherent, EntriesFit
        <5>2. entries[t] # c
          BY <2>5, <2>10, <5>1
        <5>3. QED
          BY <1>1, <2>7, <5>1, <5>2
      <4>3. QED
        BY <4>1, <4>2
    <3>2. QED
      BY <3>1 DEF EntriesFit
  <2>13. PartsFit'
    <3>1. ASSUME NEW q \in Ops, NEW t \in Servers, part'[q][t].step \in Engaged
          PROVE  part'[q][t].conn \in Connectors /\ conn'[part'[q][t].conn].server = t
      <4>1. CASE q = o /\ t = s
        BY <1>1, <2>1, <2>5, <2>6, <2>7, <4>1
      <4>2. CASE ~(q = o /\ t = s)
        <5>1. part'[q][t] = part[q][t]
          BY <1>1, <2>1, <4>2
        <5>2. part[q][t].conn \in Connectors /\ conn[part[q][t].conn].server = t
          BY <3>1, <5>1 DEF TypeInv, Coherent, PartsFit
        <5>3. part[q][t].conn # c
          BY <2>5, <2>10, <5>2
        <5>4. QED
          BY <1>1, <2>7, <5>1, <5>2, <5>3
      <4>3. QED
        BY <4>1, <4>2
    <3>2. QED
      BY <3>1 DEF PartsFit
  <2>14. states' \in [Servers -> State]
    BY <1>1, <1>6 DEF Start, State
  <2>15. QED
    BY <2>2, <2>8, <2>9, <2>11, <2>12, <2>13, <2>14 DEF TypeInv, Typed, Coherent, OpsFit
<1>7. ASSUME Answered(o, s) PROVE TypeInv'
  <2> DEFINE c == part[o][s].conn
  <2>1. c \in Connectors /\ conn[c].server = s
    BY <1>7 DEF Answered, Engaged, TypeInv, Coherent, PartsFit
  <2>2. PICK ok \in BOOLEAN, retryable \in BOOLEAN :
          /\ Answer(c, o, ok, retryable)
          /\ retry' = [retry EXCEPT ![c] = Rescheduled(@, retryable)]
          /\ op' = [op EXCEPT ![o].ok = @ \/ (ok /\ op[o].pc = "refresh")]
    BY <1>7 DEF Answered
  <2>3. /\ part' = [part EXCEPT ![o][s] = NoPart]
        /\ UNCHANGED <<file, runtime, entries, sink, begun, overlaps, raced, settled>>
    BY <1>7 DEF Answered
  <2> HIDE DEF c
  <2>4. o \in Tasks
    BY DEF Tasks
  <2>5. /\ conn' \in [Connectors -> Connector]
        /\ states' \in [Servers -> State]
        /\ \A d \in Connectors \ {c} : conn'[d] = conn[d]
        /\ conn'[c].server = conn[c].server
        /\ conn'[c].ready \/ conn'[c].pending # {} => conn'[c].child
    BY <2>1, <2>2, <2>4, AnswerFacts
  <2>6. retry' \in [Connectors -> Retry]
    BY <1>1, <2>1, <2>2, RescheduledFacts
  <2>7. /\ op' \in [Ops -> Operation]
        /\ \A p \in Ops : /\ op'[p].pc = op[p].pc /\ op'[p].server = op[p].server
                          /\ op'[p].kind = op[p].kind /\ op'[p].edit = op[p].edit
    <3> DEFINE v == op[o].ok \/ (ok /\ op[o].pc = "refresh")
    <3>1. v \in BOOLEAN
      BY <1>1 DEF Operation
    <3>2. op' = [op EXCEPT ![o].ok = v]
      BY <2>2
    <3> HIDE DEF v
    <3>3. QED
      BY <1>1, <3>1, <3>2 DEF Operation
  <2>8. /\ part' \in [Ops -> [Servers -> Part]]
        /\ \A p \in Ops, t \in Servers : part'[p][t].step \in Engaged => part'[p][t] = part[p][t]
    BY <1>1, <1>2, <2>3
  <2>9. \A d \in Connectors : conn'[d].server = conn[d].server
    BY <2>5
  <2>10. ConnectorsFit'
    <3>1. \A d \in Connectors \ {c} : retry'[d] = retry[d]
      BY <1>1, <2>2
    <3>2. QED
      BY <2>1, <2>5, <3>1 DEF ConnectorsFit, TypeInv, Coherent
  <2>11. EntriesFit' /\ PartsFit'
    <3>1. EntriesFit'
      BY <1>1, <2>3, <2>9 DEF EntriesFit, TypeInv, Coherent
    <3>2. \A p \in Ops, t \in Servers : part'[p][t].step \in Engaged =>
            part'[p][t].conn \in Connectors /\ conn[part'[p][t].conn].server = t
      BY <2>8 DEF PartsFit, TypeInv, Coherent
    <3>3. PartsFit'
      BY <2>9, <3>2 DEF PartsFit
    <3>4. QED
      BY <3>1, <3>3
  <2>12. OpsFit'
    BY <2>7 DEF OpsFit, TypeInv, Coherent
  <2>13. QED
    BY <2>3, <2>5, <2>6, <2>7, <2>8, <2>10, <2>11, <2>12 DEF TypeInv, Typed, Coherent
<1>8. ASSUME List(o, s) \/ Respawn(o, s) PROVE TypeInv'
  <2> DEFINE c == part[o][s].conn
             listed == [conn[c] EXCEPT !.pending = @ \cup {o}]
  <2>1. c \in Connectors /\ conn[c].server = s
    BY <1>8 DEF List, Respawn, Engaged, TypeInv, Coherent, PartsFit
  <2>2. conn[c] \in Connector /\ o \in Tasks
    BY <1>1, <2>1 DEF Tasks
  <2>3. listed \in Connector /\ listed.server = s /\ listed.ready = conn[c].ready
          /\ listed.child = conn[c].child
    BY <2>1, <2>2 DEF Connector
  <2>4. conn[c].ready => conn[c].child
    BY <2>1 DEF TypeInv, Coherent, ConnectorsFit
  <2>5. PICK cn \in Connector, step \in {"ask", "restart"} :
          /\ conn' = [conn EXCEPT ![c] = cn]
          /\ part' = [part EXCEPT ![o][s].step = step]
          /\ cn.server = conn[c].server
          /\ cn.ready \/ cn.pending # {} => cn.child
    <3>1. CASE List(o, s) /\ conn[c].ready
      <4>1. conn' = [conn EXCEPT ![c] = listed] /\ part' = [part EXCEPT ![o][s].step = "ask"]
        BY <3>1 DEF List
      <4> HIDE DEF listed
      <4>2. QED
        BY <2>1, <2>3, <2>4, <3>1, <4>1
    <3>2. CASE List(o, s) /\ ~conn[c].ready /\ conn[c].child
      <4>1. conn' = [conn EXCEPT ![c] = Killed(conn[c])]
              /\ part' = [part EXCEPT ![o][s].step = "restart"]
        BY <3>2 DEF List
      <4>2. QED
        BY <2>2, <4>1, KilledFacts
    <3>3. CASE List(o, s) /\ ~conn[c].ready /\ ~conn[c].child
      <4>1. conn' = [conn EXCEPT ![c] = Spawned(conn[c], o)]
              /\ part' = [part EXCEPT ![o][s].step = "ask"]
        BY <3>3 DEF List
      <4>2. QED
        BY <2>2, <4>1, SpawnedFacts
    <3>4. CASE Respawn(o, s)
      <4>1. conn' = [conn EXCEPT ![c] = Spawned(conn[c], o)]
              /\ part' = [part EXCEPT ![o][s].step = "ask"]
        BY <3>4 DEF Respawn
      <4>2. QED
        BY <2>2, <4>1, SpawnedFacts
    <3>5. QED
      BY <1>8, <3>1, <3>2, <3>3, <3>4
  <2>6. states' \in [Servers -> State]
    BY <1>1, <1>8 DEF List, Respawn, State
  <2>7. UNCHANGED <<file, runtime, entries, op, retry, sink, begun, overlaps, raced, settled>>
    BY <1>8 DEF List, Respawn
  <2>8. part[o][s].step \in Engaged
    BY <1>8 DEF List, Respawn, Engaged
  <2> HIDE DEF c
  <2>9. /\ part' \in [Ops -> [Servers -> Part]]
        /\ \A p \in Ops, t \in Servers :
             /\ part'[p][t].conn = part[p][t].conn
             /\ part'[p][t].step \in Engaged => part[p][t].step \in Engaged
    <3>1. part[o][s] \in Part
      BY <1>1
    <3>2. /\ [part[o][s] EXCEPT !.step = step] \in Part
          /\ [part[o][s] EXCEPT !.step = step].conn = part[o][s].conn
      BY <3>1 DEF Part, Engaged
    <3>3. part' = [part EXCEPT ![o] = [part[o] EXCEPT ![s] = [part[o][s] EXCEPT !.step = step]]]
      BY <1>1, <2>5
    <3>4. QED
      BY <1>1, <2>8, <3>2, <3>3
  <2>10. /\ conn' \in [Connectors -> Connector]
         /\ ConnectorsFit' /\ EntriesFit' /\ PartsFit' /\ OpsFit'
    BY <2>1, <2>5, <2>7, <2>9, ConnectorStep
  <2>11. QED
    BY <2>6, <2>7, <2>9, <2>10 DEF TypeInv, Typed, Coherent
<1>9. QED
  BY <1>3, <1>4, <1>5, <1>6, <1>7, <1>8 DEF Hub

LEMMA ProcessTypes ==
  ASSUME TypeInv, NEW c \in Connectors, Process(c)
  PROVE  TypeInv'
<1>1. /\ conn \in [Connectors -> Connector] /\ conn[c] \in Connector
      /\ states \in [Servers -> State] /\ retry \in [Connectors -> Retry]
      /\ retry[c] \in Retry
      /\ part \in [Ops -> [Servers -> Part]]
  BY DEF TypeInv, Typed
<1>2. conn[c].server \in Servers
  <2>1. CASE \E k \in Attempts : RetrySpawns(c, k) \/ RetryAnswered(c, k)
    <3>1. PICK k \in Attempts : retry[c].steps[k] # "none"
      BY <2>1 DEF RetrySpawns, RetryAnswered
    <3>2. QED
      BY <3>1 DEF TypeInv, Coherent, ConnectorsFit
  <2>2. CASE ChildExits(c) \/ TimerFires(c)
    BY <2>2 DEF ChildExits, TimerFires, TypeInv, Coherent, ConnectorsFit
  <2>3. QED
    BY <2>1, <2>2 DEF Process
<1>3. UNCHANGED <<file, runtime, entries, op, part, sink, begun, overlaps, settled>>
  BY DEF Process, ChildExits, TimerFires, RetrySpawns, RetryAnswered
<1>4. \A k \in Attempts : k \in Tasks
  BY DEF Tasks
<1>5. TimerFires(c) => retry[c].attempts \in Attempts
  BY <1>1 DEF TimerFires, Retry
<1>6. PICK cn \in Connector :
        /\ conn' = [conn EXCEPT ![c] = cn]
        /\ cn.server = conn[c].server
        /\ cn.ready \/ cn.pending # {} => cn.child
  <2>1. CASE conn' = [conn EXCEPT ![c] = Killed(@)]
    BY <1>1, <2>1, KilledFacts
  <2>2. CASE \E k \in Attempts : conn' = [conn EXCEPT ![c] = Spawned(@, k)]
    BY <1>1, <1>4, <2>2, SpawnedFacts
  <2>3. CASE UNCHANGED conn
    <3>1. conn' = [conn EXCEPT ![c] = conn[c]]
      BY <1>1, <2>3
    <3>2. QED
      BY <1>1, <3>1 DEF TypeInv, Coherent, ConnectorsFit
  <2>4. CASE \E k \in Attempts : RetryAnswered(c, k)
    <3>1. PICK k \in Attempts, ok \in BOOLEAN, retryable \in BOOLEAN :
            Answer(c, k, ok, retryable)
      BY <2>4 DEF RetryAnswered
    <3>2. /\ conn' \in [Connectors -> Connector]
          /\ \A d \in Connectors \ {c} : conn'[d] = conn[d]
          /\ conn'[c].server = conn[c].server
          /\ conn'[c].ready \/ conn'[c].pending # {} => conn'[c].child
      BY <1>2, <1>4, <3>1, AnswerFacts
    <3>3. conn' = [conn EXCEPT ![c] = conn'[c]]
      BY <1>1, <3>2
    <3>4. QED
      BY <3>2, <3>3
  <2>5. QED
    BY <1>5, <2>1, <2>2, <2>3, <2>4 DEF Process, ChildExits, TimerFires, RetrySpawns
<1>7. retry' \in [Connectors -> Retry] /\ \A d \in Connectors \ {c} : retry'[d] = retry[d]
  <2>1. ASSUME NEW r \in Retry, retry' = [retry EXCEPT ![c] = r]
        PROVE  retry' \in [Connectors -> Retry] /\ \A d \in Connectors \ {c} : retry'[d] = retry[d]
    BY <1>1, <2>1
  <2>2. CASE ChildExits(c)
    BY <1>1, <2>2 DEF ChildExits
  <2>3. CASE TimerFires(c)
    <3> DEFINE k == retry[c].attempts
               step == IF conn[c].child THEN "restart" ELSE "ask"
               quiet == [retry[c] EXCEPT !.timer = FALSE]
               fired == [retry[c] EXCEPT !.timer = FALSE, !.steps[k] = step]
    <3>1. k \in Attempts /\ step \in RetryStep
      BY <1>5, <2>3 DEF RetryStep
    <3>2. retry' = [retry EXCEPT ![c] = quiet] \/ retry' = [retry EXCEPT ![c] = fired]
      BY <1>1, <2>3 DEF TimerFires
    <3> HIDE DEF k, step
    <3>3. quiet \in Retry /\ fired \in Retry
      BY <1>1, <3>1, AttemptFacts
    <3> HIDE DEF quiet, fired
    <3>4. QED
      BY <2>1, <3>2, <3>3
  <2>4. CASE \E k \in Attempts : RetrySpawns(c, k)
    <3>1. PICK k \in Attempts : retry' = [retry EXCEPT ![c] = [retry[c] EXCEPT !.steps[k] = "ask"]]
      BY <2>4 DEF RetrySpawns
    <3> DEFINE r == [retry[c] EXCEPT !.steps[k] = "ask"]
    <3>2. r \in Retry
      BY <1>1, AttemptFacts DEF RetryStep
    <3> HIDE DEF r
    <3>3. retry' = [retry EXCEPT ![c] = r]
      BY <3>1 DEF r
    <3>4. QED
      BY <2>1, <3>2, <3>3
  <2>5. CASE \E k \in Attempts : RetryAnswered(c, k)
    <3>1. PICK k \in Attempts, retryable \in BOOLEAN :
            retry' = [retry EXCEPT ![c] = Rescheduled([@ EXCEPT !.steps[k] = "none"], retryable)]
      BY <2>5 DEF RetryAnswered
    <3> DEFINE r == [retry[c] EXCEPT !.steps[k] = "none"]
    <3>2. r \in Retry
      BY <1>1, AttemptFacts DEF RetryStep
    <3> HIDE DEF r
    <3>3. retry' = [retry EXCEPT ![c] = Rescheduled(r, retryable)]
      BY <3>1 DEF r
    <3>4. Rescheduled(r, retryable) \in Retry
      BY <3>2, RescheduledFacts
    <3>5. QED
      BY <2>1, <3>3, <3>4
  <2>6. QED
    BY <2>2, <2>3, <2>4, <2>5 DEF Process
<1>8. states' \in [Servers -> State]
  <2>1. CASE \E k \in Attempts : RetryAnswered(c, k)
    BY <1>2, <1>4, <2>1, AnswerFacts DEF RetryAnswered
  <2>2. CASE ChildExits(c) \/ TimerFires(c) \/ \E k \in Attempts : RetrySpawns(c, k)
    BY <1>1, <1>2, <2>2 DEF ChildExits, TimerFires, RetrySpawns, State, Failure
  <2>3. QED
    BY <2>1, <2>2 DEF Process
<1>9. raced' \in BOOLEAN
  BY DEF Process, ChildExits, TimerFires, RetrySpawns, RetryAnswered, TypeInv, Typed
<1>10. \A o \in Ops, s \in Servers : part'[o][s] = part[o][s]
  BY <1>3
<1>11. /\ conn' \in [Connectors -> Connector]
       /\ ConnectorsFit' /\ EntriesFit' /\ PartsFit' /\ OpsFit'
  BY <1>1, <1>2, <1>3, <1>6, <1>7, <1>10, ConnectorStep
<1>12. QED
  BY <1>3, <1>7, <1>8, <1>9, <1>11 DEF TypeInv, Typed, Coherent

(* The steps of the service leave the hub alone.                            *)
LEMMA ServiceFrame ==
  ASSUME TypeInv, UNCHANGED <<entries, conn, states, retry>>, raced' \in BOOLEAN,
         file' \in File, runtime' \in Nat,
         op' \in [Ops -> Operation], part' \in [Ops -> [Servers -> Part]],
         sink' \in Sink,
         begun' \in 0 .. MaxBegun, overlaps' \in Nat, settled' \in BOOLEAN,
         \A o \in Ops, s \in Servers :
           part'[o][s].step \in Engaged =>
             \/ part'[o][s] = part[o][s]
             \/ /\ part'[o][s].conn \in Connectors
                /\ conn[part'[o][s].conn].server = s,
         OpsFit'
  PROVE  TypeInv'
BY DEF TypeInv, Typed, Coherent, ConnectorsFit, EntriesFit, PartsFit

LEMMA EndedFacts ==
  ASSUME TypeInv, NEW o \in Ops, NEW reconciled \in BOOLEAN, Ended(o, reconciled)
  PROVE  /\ op' \in [Ops -> Operation]
         /\ op'[o] = NoOp /\ \A p \in Ops \ {o} : op'[p] = op[p]
         /\ settled' \in BOOLEAN
         /\ settled' <=> op[o].alone /\ reconciled
         /\ OpsFit'
<1>1. op \in [Ops -> Operation]
  BY DEF TypeInv, Typed
<1>2. op' = [op EXCEPT ![o] = NoOp]
  BY DEF Ended
<1>3. op' \in [Ops -> Operation] /\ op'[o] = NoOp /\ \A p \in Ops \ {o} : op'[p] = op[p]
  BY <1>1, <1>2, NoOpFacts
<1>4. settled' \in BOOLEAN /\ (settled' <=> op[o].alone /\ reconciled)
  BY <1>1 DEF Ended, Operation
<1>5. NoOp.kind = "none" /\ NoOp.pc = "idle"
  BY DEF NoOp
<1>6. OpsFit'
  BY <1>3, <1>5 DEF OpsFit, TypeInv, Coherent
<1>7. QED
  BY <1>3, <1>4, <1>6

(* An operation that goes on under its own name.                            *)
LEMMA OpStep ==
  ASSUME TypeInv, NEW o \in Ops, NEW next \in Operation, op' = [op EXCEPT ![o] = next],
         next.server = op[o].server, next.kind = op[o].kind, next.edit = op[o].edit,
         op[o].pc # "idle",
         next.pc \in {"write", "open", "writing"} => op[o].kind \in {"on", "off", "delete"}
  PROVE  /\ op' \in [Ops -> Operation]
         /\ op'[o] = next /\ \A p \in Ops \ {o} : op'[p] = op[p]
         /\ OpsFit'
<1>1. op \in [Ops -> Operation]
  BY DEF TypeInv, Typed
<1>2. op' \in [Ops -> Operation] /\ op'[o] = next /\ \A p \in Ops \ {o} : op'[p] = op[p]
  BY <1>1
<1>3. OpsFit'
  BY <1>2 DEF OpsFit, TypeInv, Coherent
<1>4. QED
  BY <1>2, <1>3

LEMMA DueFacts ==
  ASSUME NEW servers
  PROVE  /\ Due(servers) \in [Servers -> Part]
         /\ \A s \in Servers : /\ Due(servers)[s].step \notin Engaged
                               /\ Due(servers)[s].step = IF s \in servers THEN "due" ELSE "done"
BY DEF Due, Part, NoPart, Engaged

(* What is written is a document.                                           *)
LEMMA WrittenFacts ==
  ASSUME TypeInv, NEW o \in Ops
  PROVE  /\ op[o].pc = "write" => WithServer(o) \in Doc
         /\ WithRevision(o) \in Doc
         /\ WithRevision(o).servers = ReadDoc.servers /\ WithRevision(o).snapshot = op[o].rev
<1>1. op[o] \in Operation /\ op[o].rev \in Nat /\ op[o].doc \in Doc
  BY DEF TypeInv, Typed, Operation
<1>2. ReadDoc \in Doc
  BY DocFacts
<1>3. /\ WithRevision(o) \in Doc
      /\ WithRevision(o).servers = ReadDoc.servers /\ WithRevision(o).snapshot = op[o].rev
  BY <1>1, <1>2 DEF WithRevision, Doc
<1>4. ASSUME op[o].pc = "write" PROVE WithServer(o) \in Doc
  <2> DEFINE stored == IF op[o].kind = "delete" THEN Absent
                       ELSE [on |-> op[o].kind = "on", edit |-> op[o].edit]
  <2>1. op[o].kind # "delete" => op[o].edit \in 1 .. MaxBegun + 1
    BY <1>4 DEF TypeInv, Coherent, OpsFit
  <2>2. (op[o].kind = "on") \in BOOLEAN
    OBVIOUS
  <2>3. \A on \in BOOLEAN, edit \in 1 .. MaxBegun + 1 : [on |-> on, edit |-> edit] \in Stored
    BY DEF Stored
  <2>4. stored \in Stored
    <3>1. CASE op[o].kind = "delete"
      BY <3>1, DocFacts
    <3>2. CASE op[o].kind # "delete"
      BY <2>1, <2>2, <2>3, <3>2, Zenon
    <3>3. QED
      BY <3>1, <3>2
  <2> HIDE DEF stored
  <2>5. [op[o].doc.servers EXCEPT ![op[o].server] = stored] \in [Servers -> Stored]
    BY <1>1, <2>4 DEF Doc
  <2>6. WithServer(o) = [snapshot |-> op[o].rev,
                         servers |-> [op[o].doc.servers EXCEPT ![op[o].server] = stored]]
    BY DEF WithServer, stored
  <2>7. QED
    BY <1>1, <2>5, <2>6 DEF Doc
<1>5. QED
  BY <1>3, <1>4

LEMMA BeginTypes ==
  ASSUME TypeInv, NEW o \in Ops, NEW kind \in Kinds, NEW s \in Servers, Begin(o, kind, s)
  PROVE  TypeInv'
<1> DEFINE edit == IF kind \in {"on", "off"} THEN begun + 2 ELSE 0
           alone == Active = {}
           next == [NoOp EXCEPT !.kind = kind, !.pc = "load", !.server = s, !.edit = edit,
                                !.alone = alone]
<1>1. op \in [Ops -> Operation] /\ part \in [Ops -> [Servers -> Part]]
  BY DEF TypeInv, Typed
<1>2. begun' = begun + 1 /\ begun < MaxBegun /\ begun \in 0 .. MaxBegun /\ overlaps \in Nat
  BY DEF Begin, TypeInv, Typed
<1>3. begun' \in 0 .. MaxBegun /\ overlaps' \in Nat /\ begun + 2 \in 1 .. MaxBegun + 1
  <2>1. overlaps' = overlaps \/ overlaps' = overlaps + 1
    BY DEF Begin
  <2>2. QED
    BY <1>2, <2>1, Numbers
<1>4. edit \in 0 .. MaxBegun + 1 /\ (kind \in {"on", "off"} => edit \in 1 .. MaxBegun + 1)
  BY <1>3, Numbers
<1>5. alone \in BOOLEAN
  OBVIOUS
<1>6. op' = [p \in Ops |-> IF p = o THEN next ELSE [op[p] EXCEPT !.alone = FALSE]]
  BY Zenon DEF Begin
<1>7. UNCHANGED <<file, runtime, part, sink, faults, hub>> /\ settled' = FALSE
  BY DEF Begin
<1> HIDE DEF edit, alone
<1>8. /\ next \in Operation /\ next.kind = kind /\ next.pc = "load" /\ next.server = s
      /\ next.edit = edit
  BY <1>4, <1>5, NoOpFacts DEF Operation, OpKind, OpPc
<1> HIDE DEF next
<1>9. \A p \in Ops : /\ [op[p] EXCEPT !.alone = FALSE] \in Operation
                     /\ [op[p] EXCEPT !.alone = FALSE].kind = op[p].kind
                     /\ [op[p] EXCEPT !.alone = FALSE].pc = op[p].pc
                     /\ [op[p] EXCEPT !.alone = FALSE].server = op[p].server
                     /\ [op[p] EXCEPT !.alone = FALSE].edit = op[p].edit
  BY <1>1 DEF Operation
<1>10. op' \in [Ops -> Operation]
  BY <1>6, <1>8, <1>9
<1>11. OpsFit'
  BY <1>4, <1>6, <1>8, <1>9 DEF OpsFit, TypeInv, Coherent
<1>12. raced' \in BOOLEAN /\ UNCHANGED <<entries, conn, states, retry>>
  BY <1>7 DEF hub, TypeInv, Typed
<1>13. QED
  BY <1>3, <1>7, <1>10, <1>11, <1>12, ServiceFrame DEF TypeInv, Typed

(* The steps that leave every state of the hub as it is.                    *)
LEMMA HubAlone ==
  ASSUME TypeInv, NEW o \in Ops, Service(o)
  PROVE  /\ UNCHANGED <<entries, conn, states, retry>> /\ raced' \in BOOLEAN
         /\ raced => raced'
         /\ ~Refresh(o) => UNCHANGED raced
<1>1. CASE Refresh(o)
  BY <1>1 DEF Refresh
<1>2. CASE ~Refresh(o)
  <2>1. UNCHANGED hub
    BY <1>2 DEF Service, Load, Reread, Open, Written, Saved, Refuse, Tear, Commit, Return, Publish
  <2>2. QED
    BY <1>2, <2>1 DEF hub, TypeInv, Typed
<1>3. QED
  BY <1>1, <1>2

LEMMA ServiceTypes ==
  ASSUME TypeInv, NEW o \in Ops, Service(o)
  PROVE  TypeInv'
<1>1. /\ op \in [Ops -> Operation] /\ op[o] \in Operation
      /\ part \in [Ops -> [Servers -> Part]]
      /\ file \in File /\ runtime \in Nat
      /\ entries \in [Servers -> Connectors \cup {None}]
      /\ sink \in Sink
      /\ begun \in 0 .. MaxBegun /\ overlaps \in Nat /\ settled \in BOOLEAN
  BY DEF TypeInv, Typed
<1>2. ReadDoc \in Doc
  BY DocFacts
<1>3. UNCHANGED <<entries, conn, states, retry>> /\ raced' \in BOOLEAN
  BY HubAlone
<1>4. \A pc \in OpPc : /\ [op[o] EXCEPT !.pc = pc] \in Operation
                       /\ [op[o] EXCEPT !.pc = pc].pc = pc
                       /\ [op[o] EXCEPT !.pc = pc].server = op[o].server
                       /\ [op[o] EXCEPT !.pc = pc].kind = op[o].kind
                       /\ [op[o] EXCEPT !.pc = pc].edit = op[o].edit
  BY <1>1 DEF Operation
<1>5. ASSUME Load(o) PROVE TypeInv'
  <2> DEFINE doc  == ReadDoc
             stored == doc.servers[op[o].server]
             read == [op[o] EXCEPT !.doc = doc, !.rev = Revision(doc), !.was = stored.on]
  <2>1. op[o].pc = "load" /\ op[o].server \in Servers
    BY <1>5 DEF Load, TypeInv, Coherent, OpsFit
  <2>2. Revision(doc) \in Nat /\ stored.on \in BOOLEAN
    <3>1. doc \in Doc
      BY <1>2
    <3> HIDE DEF doc
    <3>2. Revision(doc) \in Nat
      BY <3>1, RevisionFacts
    <3>3. stored \in Stored
      BY <2>1, <3>1 DEF Doc
    <3>4. stored.on \in BOOLEAN
      <4>1. \A r \in Stored : r.on \in BOOLEAN
        <5>1. Absent.on \in BOOLEAN
          BY DEF Absent
        <5>2. \A r \in [on : BOOLEAN, edit : 1 .. MaxBegun + 1] : r.on \in BOOLEAN
          OBVIOUS
        <5>3. QED
          BY <5>1, <5>2 DEF Stored
      <4>2. QED
        BY <3>3, <4>1
    <3>5. QED
      BY <3>2, <3>4
  <2>3. /\ file' \in File /\ runtime' = Revision(doc)
        /\ UNCHANGED <<sink, begun, overlaps>>
    BY <1>5, FileFacts DEF Load
  <2>11. runtime' \in Nat
    BY <2>2, <2>3
  <2>4. \/ /\ op[o].kind \in {"on", "off", "delete"}
           /\ op' = [op EXCEPT ![o] = [read EXCEPT !.pc = "write"]] /\ UNCHANGED <<part, settled>>
        \/ /\ op' = [op EXCEPT ![o] = [read EXCEPT !.pc = "hub"]]
           /\ part' = [part EXCEPT ![o] = Due(Servers)] /\ UNCHANGED settled
        \/ Ended(o, FALSE) /\ UNCHANGED part
    BY <1>5 DEF Load
  <2> DEFINE on == stored.on
             rev == Revision(doc)
             at(pc) == [[op[o] EXCEPT !.doc = doc, !.rev = rev, !.was = on] EXCEPT !.pc = pc]
  <2>5. on \in BOOLEAN /\ rev \in Nat /\ doc \in Doc
    BY <1>2, <2>2
  <2>6. \/ /\ op[o].kind \in {"on", "off", "delete"}
           /\ op' = [op EXCEPT ![o] = at("write")] /\ UNCHANGED <<part, settled>>
        \/ /\ op' = [op EXCEPT ![o] = at("hub")]
           /\ part' = [part EXCEPT ![o] = Due(Servers)] /\ UNCHANGED settled
        \/ Ended(o, FALSE) /\ UNCHANGED part
    BY <2>4
  <2> HIDE DEF doc, on, rev
  <2>7. \A pc \in {"write", "hub"} :
          /\ at(pc) \in Operation /\ at(pc).pc = pc /\ at(pc).server = op[o].server
          /\ at(pc).kind = op[o].kind /\ at(pc).edit = op[o].edit
    BY <1>1, <2>5 DEF Operation, OpPc
  <2> HIDE DEF at
  <2>8. op' \in [Ops -> Operation] /\ OpsFit' /\ settled' \in BOOLEAN
    <3>1. CASE Ended(o, FALSE)
      BY <3>1, EndedFacts
    <3>2. CASE op' = [op EXCEPT ![o] = at("write")] /\ UNCHANGED settled
               /\ op[o].kind \in {"on", "off", "delete"}
      BY <1>1, <2>1, <2>7, <3>2, OpStep
    <3>3. CASE op' = [op EXCEPT ![o] = at("hub")] /\ UNCHANGED settled
      BY <1>1, <2>1, <2>7, <3>3, OpStep
    <3>4. QED
      BY <2>6, <3>1, <3>2, <3>3
  <2>9. /\ part' \in [Ops -> [Servers -> Part]]
        /\ \A p \in Ops, t \in Servers : part'[p][t].step \in Engaged => part'[p][t] = part[p][t]
    <3>1. CASE UNCHANGED part
      BY <1>1, <3>1
    <3>2. CASE part' = [part EXCEPT ![o] = Due(Servers)]
      BY <1>1, <3>2, DueFacts
    <3>3. QED
      BY <2>6, <3>1, <3>2
  <2>10. QED
    BY <1>1, <1>3, <2>3, <2>5, <2>8, <2>9, <2>11, ServiceFrame
<1>6. ASSUME Reread(o) PROVE TypeInv'
  <2> DEFINE doc == IF op[o].pc = "write" THEN WithServer(o) ELSE WithRevision(o)
             pc == IF op[o].pc = "write" THEN "open" ELSE "reopen"
             next == [op[o] EXCEPT !.pc = pc, !.next = doc]
  <2>1. /\ op[o].pc \in {"write", "save"} /\ doc \in Doc /\ pc \in {"open", "reopen"}
        /\ pc = "open" => op[o].kind \in {"on", "off", "delete"}
    BY <1>6, WrittenFacts DEF Reread, TypeInv, Coherent, OpsFit
  <2>2. op' = [op EXCEPT ![o].pc = pc, ![o].next = doc]
    BY <1>6 DEF Reread
  <2>3. UNCHANGED <<runtime, part, sink, begun, overlaps, settled>>
    BY <1>6 DEF Reread
  <2> HIDE DEF doc, pc
  <2>4. op' = [op EXCEPT ![o] = next]
    BY <1>1, <2>2
  <2>5. /\ next \in Operation /\ next.pc = pc /\ next.server = op[o].server
        /\ next.kind = op[o].kind /\ next.edit = op[o].edit
    <3>1. op[o] \in Operation /\ pc \in OpPc /\ doc \in Doc
      BY <1>1, <2>1 DEF OpPc
    <3>2. QED
      BY <3>1 DEF Operation
  <2> HIDE DEF next
  <2>6. op' \in [Ops -> Operation] /\ OpsFit'
    BY <2>1, <2>4, <2>5, OpStep
  <2>7. file' \in File
    BY <1>6, FileFacts DEF Reread
  <2>8. QED
    BY <1>1, <1>3, <2>3, <2>6, <2>7, ServiceFrame
<1>7. ASSUME Open(o) \/ Refuse(o) \/ Tear(o) PROVE TypeInv'
  <2>1. op[o].pc # "idle" /\ UNCHANGED <<runtime, part, sink, begun, overlaps>>
    BY <1>7 DEF Open, Refuse, Tear
  <2>2. file' \in File
    <3>1. Emptied(o) \in File /\ Recovered \in File /\ Rewritten(o, EmptyDoc) \in File
      BY FileFacts, RewrittenFacts, DocFacts
    <3>2. file' \in {file, Emptied(o), Recovered, Rewritten(o, EmptyDoc)}
      BY <1>7 DEF Open, Refuse, Tear
    <3>3. QED
      BY <1>1, <3>1, <3>2
  <2>3. op' \in [Ops -> Operation] /\ OpsFit' /\ settled' \in BOOLEAN
    <3>1. CASE Ended(o, FALSE)
      BY <3>1, EndedFacts
    <3>2. CASE /\ UNCHANGED settled
               /\ \E pc \in {"writing", "saving", "publish"} :
                    /\ op' = [op EXCEPT ![o] = [op[o] EXCEPT !.pc = pc]]
                    /\ pc = "writing" => op[o].pc = "open"
      <4>1. PICK pc \in {"writing", "saving", "publish"} :
               /\ op' = [op EXCEPT ![o] = [op[o] EXCEPT !.pc = pc]]
               /\ pc = "writing" => op[o].pc = "open"
        BY <3>2
      <4> DEFINE next == [op[o] EXCEPT !.pc = pc]
      <4>2. /\ next \in Operation /\ next.pc = pc /\ next.server = op[o].server
            /\ next.kind = op[o].kind /\ next.edit = op[o].edit
        BY <1>4 DEF OpPc
      <4>3. op' = [op EXCEPT ![o] = next]
        BY <4>1
      <4> HIDE DEF next
      <4>4. next.pc \in {"write", "open", "writing"} => op[o].kind \in {"on", "off", "delete"}
        BY <4>1, <4>2 DEF TypeInv, Coherent, OpsFit
      <4>5. QED
        BY <1>1, <2>1, <3>2, <4>2, <4>3, <4>4, OpStep
    <3>3. CASE UNCHANGED settled /\ op' = [op EXCEPT ![o].pc = "publish", ![o].alone = FALSE]
      <4> DEFINE next == [op[o] EXCEPT !.pc = "publish", !.alone = FALSE]
      <4>1. /\ next \in Operation /\ next.pc = "publish" /\ next.server = op[o].server
            /\ next.kind = op[o].kind /\ next.edit = op[o].edit
        BY <1>1 DEF Operation, OpPc
      <4>2. op' = [op EXCEPT ![o] = next]
        BY <1>1, <3>3
      <4> HIDE DEF next
      <4>3. QED
        BY <1>1, <2>1, <3>3, <4>1, <4>2, OpStep
    <3>4. CASE Open(o)
      <4>1. op[o].pc = "open" \/ op[o].pc = "reopen"
        BY <3>4 DEF Open
      <4>2. /\ UNCHANGED settled
            /\ op' = [op EXCEPT ![o] = [op[o] EXCEPT
                        !.pc = IF op[o].pc = "open" THEN "writing" ELSE "saving"]]
        BY <3>4 DEF Open
      <4>3. QED
        BY <3>2, <4>1, <4>2
    <3>5. CASE Refuse(o)
      BY <3>1, <3>2, <3>5 DEF Refuse
    <3>6. CASE Tear(o)
      BY <3>1, <3>3, <3>6 DEF Tear
    <3>7. QED
      BY <1>7, <3>4, <3>5, <3>6
  <2>4. QED
    BY <1>1, <1>3, <2>1, <2>2, <2>3, ServiceFrame
<1>12. ASSUME Written(o) \/ Saved(o) PROVE TypeInv'
  <2>1. op[o].pc \in {"writing", "saving"} /\ op[o].next \in Doc
    BY <1>1, <1>12 DEF Written, Saved, Operation
  <2>2. PICK pc \in {"hub", "publish"} : op' = [op EXCEPT ![o].pc = pc, ![o].doc = op[o].next]
    BY <1>12 DEF Written, Saved
  <2>3. UNCHANGED part \/ \E servers : part' = [part EXCEPT ![o] = Due(servers)]
    BY <1>12 DEF Written, Saved
  <2>4. /\ UNCHANGED <<runtime, sink, begun, overlaps, settled>>
        /\ \E doc \in Readable(o) : file' = Rewritten(o, doc)
    BY <1>12 DEF Written, Saved
  <2> DEFINE doc == op[o].next
             next == [op[o] EXCEPT !.pc = pc, !.doc = doc]
  <2>5. op' = [op EXCEPT ![o] = next]
    BY <1>1, <2>2
  <2>6. /\ next \in Operation /\ next.pc = pc /\ next.server = op[o].server
        /\ next.kind = op[o].kind /\ next.edit = op[o].edit
    <3>1. op[o] \in Operation /\ pc \in OpPc /\ doc \in Doc
      BY <1>1, <2>1 DEF OpPc
    <3> HIDE DEF doc
    <3>2. QED
      BY <3>1 DEF Operation
  <2> HIDE DEF next
  <2>7. op' \in [Ops -> Operation] /\ OpsFit'
    BY <2>1, <2>2, <2>5, <2>6, OpStep
  <2>8. /\ part' \in [Ops -> [Servers -> Part]]
        /\ \A p \in Ops, t \in Servers : part'[p][t].step \in Engaged => part'[p][t] = part[p][t]
    BY <1>1, <2>3, DueFacts
  <2>9. file' \in File
    BY <2>4, ReadableFacts, RewrittenFacts
  <2>10. QED
    BY <1>1, <1>3, <2>4, <2>7, <2>8, <2>9, ServiceFrame
<1>8. ASSUME Refresh(o) PROVE TypeInv'
  <2> DEFINE asked == Targets(o) # {}
             next == [op[o] EXCEPT !.pc = "refresh", !.asked = asked]
             listed == [s \in Servers |->
                          IF s \in Targets(o) THEN [step |-> "list", conn |-> entries[s]] ELSE NoPart]
  <2>1. /\ op[o].pc = "hub" /\ op' = [op EXCEPT ![o] = next]
        /\ part' = [part EXCEPT ![o] = listed]
        /\ UNCHANGED <<file, runtime, sink, begun, overlaps, settled>>
    <3>1. op' = [op EXCEPT ![o].pc = "refresh", ![o].asked = asked]
      BY <1>8 DEF Refresh
    <3>2. QED
      BY <1>1, <1>8, <3>1 DEF Refresh
  <2>2. /\ \A s \in Servers : listed[s] \in Part
        /\ \A s \in Servers : listed[s].step \in Engaged
             => listed[s].conn \in Connectors /\ conn[listed[s].conn].server = s
    <3>1. ASSUME NEW s \in Servers, s \in Targets(o)
          PROVE  /\ listed[s] \in Part
                 /\ listed[s].conn \in Connectors /\ conn[listed[s].conn].server = s
      <4>1. entries[s] \in Connectors /\ conn[entries[s]].server = s
        BY <1>1, <3>1 DEF Targets, TypeInv, Coherent, EntriesFit
      <4>2. [step |-> "list", conn |-> entries[s]] \in Part
        BY <4>1 DEF Part, Engaged
      <4>3. QED
        BY <3>1, <4>1, <4>2
    <3>2. ASSUME NEW s \in Servers, s \notin Targets(o)
          PROVE  listed[s] \in Part /\ listed[s].step \notin Engaged
      BY <3>2 DEF NoPart, Part, Engaged
    <3>3. QED
      BY <3>1, <3>2
  <2>3. asked \in BOOLEAN
    OBVIOUS
  <2>4. listed = [s \in Servers |-> listed[s]]
    OBVIOUS
  <2> HIDE DEF asked, listed
  <2>5. /\ next \in Operation /\ next.pc = "refresh" /\ next.server = op[o].server
        /\ next.kind = op[o].kind /\ next.edit = op[o].edit
    BY <1>1, <2>3 DEF Operation, OpPc
  <2> HIDE DEF next
  <2>6. op' \in [Ops -> Operation] /\ OpsFit'
    BY <2>1, <2>5, OpStep
  <2>7. listed \in [Servers -> Part]
    BY <2>2, <2>4
  <2>8. /\ part' \in [Ops -> [Servers -> Part]]
        /\ \A p \in Ops, t \in Servers : part'[p][t].step \in Engaged =>
             \/ part'[p][t] = part[p][t]
             \/ part'[p][t].conn \in Connectors /\ conn[part'[p][t].conn].server = t
    BY <1>1, <2>1, <2>2, <2>7
  <2>9. QED
    BY <1>1, <2>1, <2>6, <2>8, <1>3, ServiceFrame
<1>9. ASSUME Commit(o) PROVE TypeInv'
  <2> DEFINE rev == IF Bumps(o) THEN Larger(runtime, op[o].rev) + 1 ELSE op[o].rev
             pc == IF op[o].doc.snapshot # rev THEN "save" ELSE "publish"
             next == [op[o] EXCEPT !.rev = rev, !.pc = pc]
  <2>1. rev \in Nat
    BY <1>1 DEF Larger, Operation
  <2>2. pc \in {"save", "publish"}
    OBVIOUS
  <2>3. op' = [op EXCEPT ![o].rev = rev, ![o].pc = pc]
    BY <1>9 DEF Commit
  <2>4. op[o].pc # "idle"
    BY <1>9 DEF Commit
  <2>5. runtime' = IF Assigns(o) THEN rev ELSE runtime
    BY <1>9 DEF Commit
  <2>6. UNCHANGED <<file, part, sink, begun, overlaps, settled>>
    BY <1>9 DEF Commit
  <2> HIDE DEF rev, pc
  <2>7. /\ next \in Operation /\ next.pc = pc /\ next.server = op[o].server
        /\ next.kind = op[o].kind /\ next.edit = op[o].edit
    BY <1>1, <2>1, <2>2 DEF Operation, OpPc
  <2>8. op' = [op EXCEPT ![o] = next]
    BY <1>1, <2>3
  <2> HIDE DEF next
  <2>9. op' \in [Ops -> Operation] /\ OpsFit'
    BY <2>2, <2>4, <2>7, <2>8, OpStep
  <2>10. runtime' \in Nat
    BY <1>1, <2>1, <2>5
  <2>11. QED
    BY <1>1, <2>6, <2>9, <2>10, <1>3, ServiceFrame
<1>10. ASSUME Return(o) \/ Publish(o) PROVE TypeInv'
  <2>1. PICK reconciled \in BOOLEAN : Ended(o, reconciled)
    BY <1>10 DEF Return, Publish
  <2>2. /\ UNCHANGED <<file, runtime, part, begun, overlaps>>
        /\ \/ UNCHANGED sink
           \/ sink' = [revision |-> op[o].rev,
                       tools |-> Offered(o)]
    BY <1>10 DEF Return, Publish
  <2>3. sink' \in Sink
    BY <1>1, <2>2 DEF Operation, Offered, Sink
  <2>4. QED
    BY <1>1, <1>3, <2>1, <2>2, <2>3, EndedFacts, ServiceFrame
<1>11. QED
  BY <1>5, <1>6, <1>7, <1>8, <1>9, <1>10, <1>12 DEF Service

LEMMA TypeStep == TypeInv /\ [Next]_vars => TypeInv'
<1> SUFFICES ASSUME TypeInv, [Next]_vars PROVE TypeInv'
  OBVIOUS
<1>1. CASE UNCHANGED vars
  BY <1>1 DEF vars, hub, TypeInv, Typed, Coherent, ConnectorsFit, EntriesFit, PartsFit, OpsFit
<1>2. CASE Next
  BY <1>2, HubTypes, BeginTypes, ServiceTypes, ProcessTypes DEF Next
<1>3. QED
  BY <1>1, <1>2

(* The document, the hub and the operations keep their types, a session     *)
(* that is ready has its process, and an entry is that of its server.       *)
THEOREM RegistryTypes == Spec => []TypeOK
<1>1. TypeInv => TypeOK
  BY DEF TypeInv, Typed, Coherent, ConnectorsFit, EntriesFit, TypeOK, Connector, File
<1>2. QED
  BY <1>1, TypeInit, TypeStep, PTL DEF Spec

-----------------------------------------------------------------------------
(* Who is under way.                                                        *)

(* What a step of the hub leaves alone.                                     *)
LEMMA HubFrame ==
  ASSUME TypeInv, NEW o \in Ops, NEW s \in Servers, Hub(o, s)
  PROVE  /\ UNCHANGED <<file, runtime, sink, begun, overlaps, settled>>
         /\ part[o][s].step # "done"
         /\ \A p \in Ops, t \in Servers : p # o \/ t # s => part'[p][t] = part[p][t]
         /\ \A p \in Ops : /\ op'[p].pc = op[p].pc /\ op'[p].kind = op[p].kind
                           /\ op'[p].rev = op[p].rev /\ op'[p].doc = op[p].doc
                           /\ op'[p].next = op[p].next /\ op'[p].asked = op[p].asked
                           /\ op'[p].alone = op[p].alone
<1>1. part \in [Ops -> [Servers -> Part]] /\ op \in [Ops -> Operation]
  BY DEF TypeInv, Typed
<1>2. UNCHANGED <<file, runtime, sink, begun, overlaps, settled>>
  BY DEF Hub, Keep, Stop, Drop, Start, Answered, List, Respawn
<1>3. part[o][s].step # "done"
  BY DEF Hub, Keep, Stop, Drop, Start, Answered, List, Respawn, Turn, Stopped
<1>4. PICK f : part' = [part EXCEPT ![o][s] = f]
  <2>1. ASSUME NEW step, part' = [part EXCEPT ![o][s].step = step]
        PROVE  part' = [part EXCEPT ![o][s] = [part[o][s] EXCEPT !.step = step]]
    BY <1>1, <2>1
  <2>2. CASE Keep(o, s) \/ Drop(o, s) \/ Answered(o, s)
    BY <2>2 DEF Keep, Drop, Answered
  <2>3. CASE Stop(o, s)
    BY <2>3 DEF Stop
  <2>4. CASE Start(o, s)
    BY <2>4 DEF Start
  <2>5. CASE List(o, s) \/ Respawn(o, s)
    <3>1. \E step \in {"ask", "restart"} : part' = [part EXCEPT ![o][s].step = step]
      BY <2>5 DEF List, Respawn
    <3>2. QED
      BY <2>1, <3>1
  <2>6. QED
    BY <2>2, <2>3, <2>4, <2>5 DEF Hub
<1>5. \A p \in Ops, t \in Servers : p # o \/ t # s => part'[p][t] = part[p][t]
  BY <1>1, <1>4
<1>6. \A p \in Ops : /\ op'[p].pc = op[p].pc /\ op'[p].kind = op[p].kind
                     /\ op'[p].rev = op[p].rev /\ op'[p].doc = op[p].doc
                     /\ op'[p].next = op[p].next /\ op'[p].asked = op[p].asked
                     /\ op'[p].alone = op[p].alone
  <2>1. CASE Answered(o, s)
    <3>1. PICK ok \in BOOLEAN : op' = [op EXCEPT ![o].ok = @ \/ (ok /\ op[o].pc = "refresh")]
      BY <2>1 DEF Answered
    <3>2. QED
      BY <1>1, <3>1 DEF Operation
  <2>2. CASE UNCHANGED op
    BY <2>2
  <2>3. QED
    BY <2>1, <2>2 DEF Hub, Keep, Stop, Drop, Start, List, Respawn
<1>7. QED
  BY <1>2, <1>3, <1>5, <1>6

LEMMA ProcessFrame ==
  ASSUME NEW c \in Connectors, Process(c)
  PROVE  UNCHANGED <<file, runtime, entries, op, part, sink, begun, overlaps, settled>>
BY DEF Process, ChildExits, TimerFires, RetrySpawns, RetryAnswered

(* What a step of the service makes of its operation, kind of step by kind  *)
(* of step: it goes on, or it ends.                                         *)
Continues(o) ==
  /\ op'[o].kind = op[o].kind
  /\ op'[o].alone => op[o].alone
  /\ UNCHANGED settled

LEMMA LoadStep ==
  ASSUME TypeInv, NEW o \in Ops, Load(o)
  PROVE  \/ Ended(o, FALSE) /\ UNCHANGED part
         \/ /\ Continues(o) /\ op'[o].doc = ReadDoc /\ op'[o].rev = Revision(ReadDoc)
            /\ \/ op'[o].pc = "write" /\ UNCHANGED part
               \/ op'[o].pc = "hub" /\ part' = [part EXCEPT ![o] = Due(Servers)]
<1> DEFINE next(pc) == [[op[o] EXCEPT !.doc = ReadDoc, !.rev = Revision(ReadDoc),
                           !.was = ReadDoc.servers[op[o].server].on] EXCEPT !.pc = pc]
<1>1. op \in [Ops -> Operation] /\ op[o] \in Operation
  BY DEF TypeInv, Typed
<1>2. \/ Ended(o, FALSE) /\ UNCHANGED part
      \/ op' = [op EXCEPT ![o] = next("write")] /\ UNCHANGED <<part, settled>>
      \/ /\ op' = [op EXCEPT ![o] = next("hub")] /\ UNCHANGED settled
         /\ part' = [part EXCEPT ![o] = Due(Servers)]
  BY DEF Load
<1>3. \A pc : /\ next(pc).pc = pc /\ next(pc).doc = ReadDoc /\ next(pc).rev = Revision(ReadDoc)
              /\ next(pc).kind = op[o].kind /\ next(pc).alone = op[o].alone
  BY <1>1 DEF Operation
<1> HIDE DEF next
<1>4. ASSUME NEW pc, op' = [op EXCEPT ![o] = next(pc)], UNCHANGED settled
      PROVE  /\ Continues(o) /\ op'[o].doc = ReadDoc /\ op'[o].rev = Revision(ReadDoc)
             /\ op'[o].pc = pc
  <2>1. op'[o] = next(pc)
    BY <1>1, <1>4
  <2>2. QED
    BY <1>3, <1>4, <2>1 DEF Continues
<1>5. QED
  BY <1>2, <1>4

LEMMA RereadStep ==
  ASSUME TypeInv, NEW o \in Ops, Reread(o)
  PROVE  /\ Continues(o) /\ op'[o].rev = op[o].rev /\ op'[o].doc = op[o].doc
         /\ op[o].pc = "write" => op'[o].pc = "open"
         /\ op[o].pc = "save" => op'[o].pc = "reopen" /\ op'[o].next = WithRevision(o)
         /\ op[o].pc \in {"write", "save"}
<1> DEFINE pc  == IF op[o].pc = "write" THEN "open" ELSE "reopen"
           doc == IF op[o].pc = "write" THEN WithServer(o) ELSE WithRevision(o)
<1>1. op \in [Ops -> Operation] /\ op[o] \in Operation
  BY DEF TypeInv, Typed
<1>2. op' = [op EXCEPT ![o].pc = pc, ![o].next = doc] /\ UNCHANGED settled
  BY DEF Reread
<1>3. /\ op[o].pc \in {"write", "save"}
      /\ op[o].pc = "write" => pc = "open"
      /\ op[o].pc = "save" => pc = "reopen" /\ doc = WithRevision(o)
  BY DEF Reread
<1> HIDE DEF pc, doc
<1>4. /\ op'[o].pc = pc /\ op'[o].next = doc /\ op'[o].rev = op[o].rev /\ op'[o].doc = op[o].doc
      /\ op'[o].kind = op[o].kind /\ op'[o].alone = op[o].alone
  BY <1>1, <1>2 DEF Operation
<1>5. QED
  BY <1>2, <1>3, <1>4 DEF Continues

LEMMA OpenStep ==
  ASSUME TypeInv, NEW o \in Ops, Open(o)
  PROVE  /\ Continues(o) /\ op'[o].rev = op[o].rev
         /\ op'[o].doc = op[o].doc /\ op'[o].next = op[o].next
         /\ op[o].pc = "open" => op'[o].pc = "writing"
         /\ op[o].pc = "reopen" => op'[o].pc = "saving"
         /\ op[o].pc \in {"open", "reopen"}
<1>1. op \in [Ops -> Operation] /\ op[o] \in Operation
  BY DEF TypeInv, Typed
<1>2. PICK pc : /\ op' = [op EXCEPT ![o].pc = pc]
                /\ op[o].pc = "open" => pc = "writing"
                /\ op[o].pc = "reopen" => pc = "saving"
  BY DEF Open
<1>3. UNCHANGED settled /\ op[o].pc \in {"open", "reopen"}
  BY DEF Open
<1>4. QED
  BY <1>1, <1>2, <1>3 DEF Continues, Operation

LEMMA WrittenStep ==
  ASSUME TypeInv, NEW o \in Ops, Written(o) \/ Saved(o)
  PROVE  /\ Continues(o) /\ op'[o].rev = op[o].rev /\ op'[o].doc = op[o].next
         /\ Written(o) => op[o].pc = "writing" /\ op'[o].pc = "hub"
         /\ Saved(o) => op[o].pc = "saving" /\ op'[o].pc = "publish" /\ UNCHANGED part
<1> DEFINE doc == op[o].next
<1>1. op \in [Ops -> Operation] /\ op[o] \in Operation
  BY DEF TypeInv, Typed
<1>2. PICK pc : /\ op' = [op EXCEPT ![o].pc = pc, ![o].doc = doc]
                /\ Written(o) => op[o].pc = "writing" /\ pc = "hub"
                /\ Saved(o) => op[o].pc = "saving" /\ pc = "publish" /\ UNCHANGED part
  BY DEF Written, Saved
<1>3. UNCHANGED settled /\ doc = op[o].next
  BY DEF Written, Saved
<1> HIDE DEF doc
<1>4. /\ op'[o].pc = pc /\ op'[o].doc = doc /\ op'[o].rev = op[o].rev
      /\ op'[o].kind = op[o].kind /\ op'[o].alone = op[o].alone
  BY <1>1, <1>2 DEF Operation
<1>5. QED
  BY <1>2, <1>3, <1>4 DEF Continues

LEMMA FailureStep ==
  ASSUME TypeInv, NEW o \in Ops, Refuse(o) \/ Tear(o)
  PROVE  \/ Ended(o, FALSE)
         \/ /\ Continues(o) /\ op'[o].rev = op[o].rev /\ op'[o].doc = op[o].doc
            /\ op'[o].pc = "publish" /\ op[o].pc \in {"save", "reopen", "saving"}
            /\ op'[o].alone => Refuse(o) /\ op[o].pc \in {"save", "reopen"}
<1>1. op \in [Ops -> Operation] /\ op[o] \in Operation
  BY DEF TypeInv, Typed
<1>2. CASE Refuse(o)
  <2>1. \/ Ended(o, FALSE)
        \/ /\ op' = [op EXCEPT ![o].pc = "publish"] /\ UNCHANGED settled
           /\ op[o].pc \in {"save", "reopen"}
    BY <1>2 DEF Refuse
  <2>2. QED
    BY <1>1, <1>2, <2>1 DEF Continues, Operation
<1>3. CASE Tear(o)
  <2>1. \/ Ended(o, FALSE)
        \/ /\ op' = [op EXCEPT ![o].pc = "publish", ![o].alone = FALSE] /\ UNCHANGED settled
           /\ op[o].pc = "saving"
    BY <1>3 DEF Tear
  <2>2. ASSUME op' = [op EXCEPT ![o].pc = "publish", ![o].alone = FALSE]
        PROVE  /\ op'[o].pc = "publish" /\ op'[o].alone = FALSE /\ op'[o].rev = op[o].rev
               /\ op'[o].doc = op[o].doc /\ op'[o].kind = op[o].kind
    BY <1>1, <2>2 DEF Operation
  <2>3. QED
    BY <2>1, <2>2 DEF Continues
<1>4. QED
  BY <1>2, <1>3

LEMMA RefreshStep ==
  ASSUME TypeInv, NEW o \in Ops, Refresh(o)
  PROVE  /\ Continues(o) /\ op'[o].rev = op[o].rev /\ op'[o].doc = op[o].doc
         /\ op[o].pc = "hub" /\ op'[o].pc = "refresh"
         /\ op'[o].asked <=> Targets(o) # {}
<1> DEFINE asked == Targets(o) # {}
<1>1. op \in [Ops -> Operation] /\ op[o] \in Operation
  BY DEF TypeInv, Typed
<1>2. op' = [op EXCEPT ![o].pc = "refresh", ![o].asked = asked] /\ UNCHANGED settled
  BY DEF Refresh
<1>3. asked <=> Targets(o) # {}
  OBVIOUS
<1>4. op[o].pc = "hub"
  BY DEF Refresh
<1> HIDE DEF asked
<1>5. /\ op'[o].pc = "refresh" /\ op'[o].asked = asked
      /\ op'[o].rev = op[o].rev /\ op'[o].doc = op[o].doc
      /\ op'[o].kind = op[o].kind /\ op'[o].alone = op[o].alone
  BY <1>1, <1>2 DEF Operation
<1>6. QED
  BY <1>2, <1>3, <1>4, <1>5 DEF Continues

LEMMA CommitStep ==
  ASSUME TypeInv, NEW o \in Ops, Commit(o)
  PROVE  /\ Continues(o) /\ op'[o].doc = op[o].doc /\ op'[o].pc \in {"save", "publish"}
         /\ op'[o].rev = IF Bumps(o) THEN Larger(runtime, op[o].rev) + 1 ELSE op[o].rev
<1> DEFINE rev == IF Bumps(o) THEN Larger(runtime, op[o].rev) + 1 ELSE op[o].rev
           pc == IF op[o].doc.snapshot # rev THEN "save" ELSE "publish"
<1>1. op \in [Ops -> Operation] /\ op[o] \in Operation
  BY DEF TypeInv, Typed
<1>2. op' = [op EXCEPT ![o].rev = rev, ![o].pc = pc] /\ UNCHANGED settled
  BY DEF Commit
<1>3. /\ pc \in {"save", "publish"}
      /\ rev = IF Bumps(o) THEN Larger(runtime, op[o].rev) + 1 ELSE op[o].rev
  OBVIOUS
<1> HIDE DEF rev, pc
<1>4. /\ op'[o].pc = pc /\ op'[o].rev = rev /\ op'[o].doc = op[o].doc
      /\ op'[o].kind = op[o].kind /\ op'[o].alone = op[o].alone
  BY <1>1, <1>2 DEF Operation
<1>5. QED
  BY <1>2, <1>3, <1>4 DEF Continues

(* A step of the service is one of an operation under way.                  *)
LEMMA ServiceStep ==
  ASSUME TypeInv, NEW o \in Ops, Service(o)
  PROVE  /\ op[o].pc # "idle"
         /\ UNCHANGED <<begun, overlaps, entries, conn, states, retry>>
         /\ \A p \in Ops \ {o} : op'[p] = op[p] /\ part'[p] = part[p]
         /\ op'[o] = NoOp \/ Continues(o)
<1>1. op \in [Ops -> Operation] /\ part \in [Ops -> [Servers -> Part]]
  BY DEF TypeInv, Typed
<1>2. op[o].pc # "idle"
  BY DEF Service, Load, Reread, Open, Written, Saved, Refuse, Tear, Refresh, Commit, Return,
         Publish
<1>3. UNCHANGED <<begun, overlaps, entries, conn, states, retry>>
  <2>1. UNCHANGED <<begun, overlaps>>
    BY DEF Service, Load, Reread, Open, Written, Saved, Refuse, Tear, Refresh, Commit, Return,
           Publish
  <2>2. QED
    BY <2>1, HubAlone
<1>4. \A p \in Ops \ {o} : part'[p] = part[p]
  <2>1. UNCHANGED part \/ \E f : part' = [part EXCEPT ![o] = f]
    BY DEF Service, Load, Reread, Open, Written, Saved, Refuse, Tear, Refresh, Commit, Return,
           Publish
  <2>2. QED
    BY <1>1, <2>1
<1>5. op'[o] = NoOp \/ Continues(o)
  <2>1. \A reconciled : Ended(o, reconciled) => op'[o] = NoOp
    BY <1>1 DEF Ended
  <2>2. CASE Return(o) \/ Publish(o)
    BY <2>1, <2>2 DEF Return, Publish
  <2>3. QED
    BY <2>1, <2>2, LoadStep, RereadStep, OpenStep, WrittenStep, FailureStep, RefreshStep,
       CommitStep DEF Service
<1>6. \A p \in Ops \ {o} : op'[p] = op[p]
  <2>2. CASE \E f : op' = [op EXCEPT ![o] = f]
    BY <1>1, <2>2
  <2>3. CASE \E pc, x : op' = [op EXCEPT ![o].pc = pc, ![o].next = x]
    BY <1>1, <2>3
  <2>4. CASE \E pc, x : op' = [op EXCEPT ![o].pc = pc, ![o].doc = x]
    BY <1>1, <2>4
  <2>5. CASE \E pc, x : op' = [op EXCEPT ![o].pc = pc, ![o].asked = x]
    BY <1>1, <2>5
  <2>6. CASE \E pc, x : op' = [op EXCEPT ![o].rev = x, ![o].pc = pc]
    BY <1>1, <2>6
  <2>7. CASE \E pc, x : op' = [op EXCEPT ![o].pc = pc, ![o].alone = x]
    BY <1>1, <2>7
  <2>8. CASE \E pc : op' = [op EXCEPT ![o].pc = pc]
    BY <1>1, <2>8
  <2>9. CASE Load(o) \/ Return(o) \/ Publish(o)
    BY <2>2, <2>9 DEF Load, Return, Publish, Ended
  <2>10. CASE Open(o) \/ Refuse(o) \/ Tear(o)
    BY <2>2, <2>7, <2>8, <2>10 DEF Open, Refuse, Tear, Ended
  <2>11. CASE Reread(o) \/ Written(o) \/ Saved(o)
    BY <2>3, <2>4, <2>11 DEF Reread, Written, Saved
  <2>12. CASE Refresh(o) \/ Commit(o)
    BY <2>5, <2>6, <2>12 DEF Refresh, Commit
  <2>13. QED
    BY <2>9, <2>10, <2>11, <2>12 DEF Service
<1>7. QED
  BY <1>2, <1>3, <1>4, <1>5, <1>6

(* A new operation.                                                         *)
LEMMA BeginStep ==
  ASSUME TypeInv, NEW o \in Ops, NEW kind \in Kinds, NEW s \in Servers, Begin(o, kind, s)
  PROVE  /\ op[o].pc = "idle" /\ op'[o].pc = "load"
         /\ op'[o].alone => Active = {}
         /\ \A p \in Ops \ {o} :
              /\ op'[p].pc = op[p].pc /\ op'[p].kind = op[p].kind /\ op'[p].rev = op[p].rev
              /\ op'[p].doc = op[p].doc /\ op'[p].next = op[p].next
              /\ op'[p].asked = op[p].asked /\ op'[p].alone = FALSE
         /\ overlaps' = 0 => overlaps = 0 /\ Active = {}
         /\ UNCHANGED <<file, runtime, part, sink, hub>> /\ settled' = FALSE
<1> DEFINE edit == IF kind \in {"on", "off"} THEN begun + 2 ELSE 0
           alone == Active = {}
           next == [NoOp EXCEPT !.kind = kind, !.pc = "load", !.server = s, !.edit = edit,
                                !.alone = alone]
<1>1. op \in [Ops -> Operation] /\ overlaps \in Nat
  BY DEF TypeInv, Typed
<1>2. op' = [p \in Ops |-> IF p = o THEN next ELSE [op[p] EXCEPT !.alone = FALSE]]
  BY Zenon DEF Begin
<1>3. op[o].pc = "idle" /\ UNCHANGED <<file, runtime, part, sink, hub>> /\ settled' = FALSE
  BY DEF Begin
<1>4. overlaps' = IF alone THEN overlaps ELSE overlaps + 1
  BY DEF Begin
<1>5. alone <=> Active = {}
  OBVIOUS
<1> HIDE DEF edit, alone
<1>6. next.pc = "load" /\ next.alone = alone
  BY NoOpFacts DEF Operation
<1> HIDE DEF next
<1>7. op'[o].pc = "load" /\ (op'[o].alone => Active = {})
  BY <1>2, <1>5, <1>6
<1>8. \A p \in Ops \ {o} :
        /\ op'[p].pc = op[p].pc /\ op'[p].kind = op[p].kind /\ op'[p].rev = op[p].rev
        /\ op'[p].doc = op[p].doc /\ op'[p].next = op[p].next
        /\ op'[p].asked = op[p].asked /\ op'[p].alone = FALSE
  BY <1>1, <1>2 DEF Operation
<1>9. overlaps' = 0 => overlaps = 0 /\ Active = {}
  BY <1>1, <1>4, <1>5
<1>10. QED
  BY <1>3, <1>7, <1>8, <1>9

LEMMA OrderlyInit == Init => Orderly /\ RevisionInv
<1> SUFFICES ASSUME Init PROVE Orderly /\ RevisionInv
  OBVIOUS
<1>1. Active = {} /\ \A o \in Ops : PartsDone(o)
  BY DEF Init, Active, NoOp, PartsDone, NoPart
<1>2. file.writers = {}
  BY DEF Init
<1>3. QED
  BY <1>1, <1>2 DEF Orderly, RevisionInv

LEMMA OrderlyStep == TypeInv /\ Orderly /\ [Next]_vars => Orderly'
<1> SUFFICES ASSUME TypeInv, Orderly, [Next]_vars PROVE Orderly'
  OBVIOUS
<1>1. /\ op \in [Ops -> Operation] /\ part \in [Ops -> [Servers -> Part]]
      /\ file \in File /\ overlaps \in Nat
      /\ None \notin Ops
  BY RegistryAssumption DEF TypeInv, Typed
<1>2. CASE UNCHANGED vars
  BY <1>2 DEF vars, Orderly, Active, PartsDone
<1>3. ASSUME NEW o \in Ops, NEW s \in Servers, Hub(o, s) PROVE Orderly'
  <2>1. op[o].pc \in {"hub", "refresh"}
    BY <1>3, HubFrame DEF Orderly, PartsDone
  <2>2. \A p \in Ops : op'[p].pc \notin {"hub", "refresh"} => PartsDone(p)'
    BY <1>3, <2>1, HubFrame DEF Orderly, PartsDone
  <2>3. Active' = Active
    BY <1>3, HubFrame DEF Active
  <2>4. \A p \in file'.writers : op'[p].pc \in {"writing", "saving"}
    <3>1. file' = file /\ file.writers \subseteq Ops
      BY <1>1, <1>3, HubFrame DEF File
    <3>2. QED
      BY <1>3, <3>1, HubFrame DEF Orderly
  <2>5. \A p \in Active' : op'[p].alone => Active' = {p}
    BY <1>3, <2>3, HubFrame DEF Orderly, Active
  <2>6. overlaps' = 0 => \A p, q \in Active' : p = q
    BY <1>3, <2>3, HubFrame DEF Orderly
  <2>7. QED
    BY <2>2, <2>4, <2>5, <2>6 DEF Orderly
<1>4. ASSUME NEW o \in Ops, NEW s \in Servers, NEW kind \in Kinds, Begin(o, kind, s)
      PROVE Orderly'
  <2>1. Active' = Active \cup {o}
    BY <1>4, BeginStep DEF Active
  <2>7. /\ UNCHANGED <<file, part>> /\ op[o].pc = "idle"
        /\ \A p \in Ops \ {o} : op'[p].pc = op[p].pc
    BY <1>4, BeginStep
  <2>2. \A p \in file'.writers : op'[p].pc \in {"writing", "saving"}
    <3>1. file.writers \subseteq Ops
      BY <1>1 DEF File
    <3>2. QED
      BY <2>7, <3>1 DEF Orderly
  <2>3. \A p \in Ops : op'[p].pc \notin {"hub", "refresh"} => PartsDone(p)'
    <3>1. \A p \in Ops : op'[p].pc \notin {"hub", "refresh"} => PartsDone(p)
      BY <2>7 DEF Orderly
    <3>2. QED
      BY <2>7, <3>1 DEF PartsDone
  <2>4. overlaps' = 0 => \A p, q \in Active' : p = q
    BY <1>4, <2>1, BeginStep
  <2>5. \A p \in Active' : op'[p].alone => Active' = {p}
    BY <1>4, <2>1, BeginStep DEF Active
  <2>6. QED
    BY <2>2, <2>3, <2>4, <2>5 DEF Orderly
<1>5. ASSUME NEW o \in Ops, Service(o) PROVE Orderly'
  <2>1. Active' \subseteq Active /\ o \in Active
    BY <1>5, ServiceStep DEF Active
  <2>2. \A p \in file'.writers : op'[p].pc \in {"writing", "saving"}
    <3>1. file.writers \subseteq Ops /\ \A p \in file.writers \ {o} : op'[p] = op[p]
      BY <1>1, <1>5, ServiceStep DEF File
    <3>2. ASSUME file'.writers \subseteq file.writers \ {o}
          PROVE  \A p \in file'.writers : op'[p].pc \in {"writing", "saving"}
      BY <3>1, <3>2 DEF Orderly
    <3>3. CASE Open(o)
      <4>1. file'.writers = file.writers \cup {o}
        BY <3>3, FileFacts DEF Open
      <4>2. op'[o].pc \in {"writing", "saving"}
        BY <3>3, OpenStep
      <4>3. QED
        BY <3>1, <4>1, <4>2 DEF Orderly
    <3>4. CASE Written(o) \/ Saved(o) \/ Tear(o)
      <4>1. \E doc \in Doc : file' = Rewritten(o, doc)
        BY <3>4, ReadableFacts, DocFacts DEF Written, Saved, Tear
      <4>2. file'.writers = file.writers \ {o}
        BY <4>1, RewrittenFacts
      <4>3. QED
        BY <3>2, <4>2
    <3>5. CASE file' \in {file, Recovered} /\ op[o].pc \notin {"writing", "saving"}
      BY <3>2, <3>5, FileFacts DEF Orderly
    <3>6. CASE Load(o) \/ Reread(o) \/ Refuse(o)
      <4>1. file' \in {file, Recovered} /\ op[o].pc \notin {"writing", "saving"}
        BY <3>6 DEF Load, Reread, Refuse
      <4>2. QED
        BY <3>5, <4>1
    <3>7. CASE Refresh(o) \/ Commit(o) \/ Return(o) \/ Publish(o)
      <4>1. UNCHANGED file /\ op[o].pc \notin {"writing", "saving"}
        BY <3>7 DEF Refresh, Commit, Return, Publish
      <4>2. QED
        BY <3>5, <4>1
    <3>8. QED
      BY <1>5, <3>3, <3>4, <3>6, <3>7 DEF Service
  <2>3. op'[o].pc \notin {"hub", "refresh"} => PartsDone(o)'
    <3>1. CASE UNCHANGED part /\ PartsDone(o)
      BY <3>1 DEF PartsDone
    <3>2. CASE op'[o].pc \in {"hub", "refresh"}
      BY <3>2
    <3>3. CASE UNCHANGED part /\ op[o].pc \notin {"hub", "refresh"}
      BY <3>1, <3>3 DEF Orderly
    <3>4. CASE Load(o)
      <4>1. op[o].pc = "load"
        BY <3>4 DEF Load
      <4>2. UNCHANGED part \/ op'[o].pc = "hub"
        BY <3>4, LoadStep
      <4>3. QED
        BY <3>2, <3>3, <4>1, <4>2
    <3>5. CASE Written(o)
      BY <3>2, <3>5, WrittenStep
    <3>6. CASE Refresh(o)
      BY <3>2, <3>6, RefreshStep
    <3>7. CASE Commit(o) \/ Return(o)
      BY <3>1, <3>7 DEF Commit, Return
    <3>8. CASE Reread(o) \/ Open(o) \/ Saved(o) \/ Refuse(o) \/ Tear(o) \/ Publish(o)
      BY <3>3, <3>8 DEF Reread, Open, Saved, Refuse, Tear, Publish
    <3>9. QED
      BY <1>5, <3>4, <3>5, <3>6, <3>7, <3>8 DEF Service
  <2>4. \A p \in Ops : op'[p].pc \notin {"hub", "refresh"} => PartsDone(p)'
    BY <1>5, <2>3, ServiceStep DEF Orderly, PartsDone
  <2>5. overlaps' = 0 => \A p, q \in Active' : p = q
    BY <1>5, <2>1, ServiceStep DEF Orderly
  <2>6. \A p \in Active' : op'[p].alone => Active' = {p}
    <3>1. ASSUME NEW p \in Active', op'[p].alone PROVE op[p].alone
      BY <1>5, <3>1, ServiceStep, NoOpFacts DEF Active, Continues
    <3>2. QED
      BY <2>1, <3>1 DEF Orderly
  <2>7. QED
    BY <2>2, <2>4, <2>5, <2>6 DEF Orderly
<1>6. ASSUME NEW c \in Connectors, Process(c)
      PROVE  Orderly'
  BY <1>6, ProcessFrame DEF Orderly, Active, PartsDone
<1>7. QED
  BY <1>2, <1>3, <1>4, <1>5, <1>6 DEF Next

-----------------------------------------------------------------------------
(* Revisions.                                                               *)

Advance == runtime' >= runtime /\ (sink' # sink => sink'.revision = runtime')

(* What a step of the service does to the revisions.                        *)
LEMMA ServiceRevisions ==
  ASSUME TypeInv, Orderly, RevisionInv, NEW o \in Ops, Service(o), overlaps = 0
  PROVE  RevisionInv' /\ Advance
<1>1. /\ op \in [Ops -> Operation] /\ op[o] \in Operation /\ op[o].rev \in Nat
      /\ runtime \in Nat
  BY DEF TypeInv, Typed, Operation
<1>2. Active = {o} /\ op[o].pc # "idle" /\ Active' \subseteq {o}
  <2>1. op[o].pc # "idle" /\ \A p \in Ops \ {o} : op'[p] = op[p]
    BY ServiceStep
  <2>2. o \in Active
    BY <2>1 DEF Active
  <2>3. QED
    BY <2>1, <2>2 DEF Orderly, Active
<1>3. op[o].pc # "load" => op[o].rev = runtime
  BY <1>2 DEF RevisionInv
(* It suffices to look at the operation itself.                             *)
<1>4. ASSUME Advance,
             op'[o].pc # "idle" => op'[o].rev = runtime',
             op'[o].pc = "refresh" => (op'[o].asked => \E s \in Servers : op'[o].doc.servers[s].on)
      PROVE  RevisionInv' /\ Advance
  <2>1. \A p \in Active' : p = o /\ op'[p].pc # "idle"
    BY <1>2 DEF Active
  <2>2. QED
    BY <1>4, <2>1 DEF RevisionInv
<1>5. CASE Load(o)
  <2>1. runtime' = Revision(ReadDoc) /\ UNCHANGED sink
    BY <1>5 DEF Load
  <2>2. Revision(ReadDoc) >= runtime
    BY DocFacts, RevisionFacts
  <2>3. (op'[o].pc # "idle" => op'[o].rev = runtime') /\ op'[o].pc # "refresh"
    BY <1>5, <2>1, LoadStep, EndedFacts, NoOpFacts
  <2>4. QED
    BY <1>4, <2>1, <2>2, <2>3 DEF Advance
<1>6. CASE Reread(o) \/ Open(o) \/ Written(o) \/ Saved(o) \/ Refuse(o) \/ Tear(o)
  <2>2. UNCHANGED <<runtime, sink>>
    BY <1>6 DEF Reread, Open, Written, Saved, Refuse, Tear
  <2>3. /\ op'[o].pc # "refresh"
        /\ op'[o].pc # "idle" => op'[o].rev = op[o].rev /\ op[o].pc # "load"
    <3>1. CASE Ended(o, FALSE)
      BY <3>1, EndedFacts, NoOpFacts
    <3>2. CASE Written(o) \/ Saved(o)
      BY <3>2, WrittenStep
    <3>3. CASE Reread(o)
      BY <3>3, RereadStep
    <3>4. CASE Open(o)
      BY <3>4, OpenStep
    <3>5. CASE Refuse(o) \/ Tear(o)
      BY <3>1, <3>5, FailureStep
    <3>6. QED
      BY <1>6, <3>2, <3>3, <3>4, <3>5
  <2>4. QED
    BY <1>1, <1>3, <1>4, <2>2, <2>3 DEF Advance
<1>7. CASE Refresh(o)
  <2>1. UNCHANGED <<runtime, sink>>
    BY <1>7 DEF Refresh
  <2>2. Targets(o) # {} => \E s \in Servers : op[o].doc.servers[s].on
    BY DEF Targets
  <2>3. QED
    BY <1>1, <1>3, <1>4, <1>7, <2>1, <2>2, RefreshStep DEF Advance
<1>8. CASE Commit(o)
  <2>1. UNCHANGED sink /\ runtime' = IF Assigns(o) THEN op'[o].rev ELSE runtime
    BY <1>8, CommitStep DEF Commit
  <2>2. op[o].pc = IF op[o].kind \in {"refresh", "warmup", "test"} THEN "refresh" ELSE "hub"
    BY <1>8 DEF Commit
  <2>3. op[o].rev = runtime
    BY <1>3, <2>2
  <2>4. ~Assigns(o) => ~Bumps(o)
    <3>1. CASE op[o].kind = "load"
      BY <3>1 DEF Bumps
    <3>2. CASE op[o].kind = "warmup" /\ ~\E s \in Servers : op[o].doc.servers[s].on
      <4>1. ~op[o].asked
        BY <1>2, <2>2, <3>2 DEF RevisionInv
      <4>2. QED
        BY <3>2, <4>1 DEF Bumps
    <3>3. QED
      BY <3>1, <3>2 DEF Assigns
  <2>5. op'[o].rev >= runtime /\ op'[o].pc # "refresh"
    BY <1>1, <1>8, <2>3, CommitStep DEF Larger
  <2>6. runtime' = op'[o].rev
    BY <1>8, <2>1, <2>3, <2>4, CommitStep
  <2>7. QED
    BY <1>4, <2>1, <2>5, <2>6 DEF Advance
<1>9. CASE Return(o) \/ Publish(o)
  <2>1. PICK reconciled \in BOOLEAN : Ended(o, reconciled)
    BY <1>9 DEF Return, Publish
  <2>2. op'[o].pc = "idle"
    BY <2>1, EndedFacts, NoOpFacts
  <2>3. /\ UNCHANGED runtime /\ op[o].pc # "load"
        /\ UNCHANGED sink \/ \E tools : sink' = [revision |-> op[o].rev, tools |-> tools]
    BY <1>9 DEF Return, Publish
  <2>4. sink' # sink => sink'.revision = runtime'
    BY <1>3, <2>3
  <2>5. QED
    BY <1>1, <1>4, <2>2, <2>3, <2>4 DEF Advance
<1>10. QED
  BY <1>5, <1>6, <1>7, <1>8, <1>9 DEF Service

LEMMA RevisionStep ==
  ASSUME TypeInv, Orderly, RevisionInv, [Next]_vars, overlaps' = 0
  PROVE  RevisionInv' /\ Advance
<1>1. runtime \in Nat /\ op \in [Ops -> Operation]
  BY DEF TypeInv, Typed
<1>2. CASE UNCHANGED vars
  BY <1>1, <1>2 DEF vars, RevisionInv, Active, Advance
<1>3. ASSUME NEW o \in Ops, NEW s \in Servers, Hub(o, s) PROVE RevisionInv' /\ Advance
  <2>1. Active' = Active /\ UNCHANGED <<file, runtime, sink, overlaps>>
    BY <1>3, HubFrame DEF Active
  <2>2. RevisionInv'
    BY <1>3, <2>1, HubFrame DEF RevisionInv, Active
  <2>3. QED
    BY <1>1, <2>1, <2>2 DEF Advance
<1>4. ASSUME NEW o \in Ops, NEW s \in Servers, NEW kind \in Kinds, Begin(o, kind, s)
      PROVE  RevisionInv' /\ Advance
  <2>1. Active' = {o} /\ op'[o].pc = "load" /\ UNCHANGED <<file, runtime, sink>>
    BY <1>4, BeginStep DEF Active
  <2>2. QED
    BY <1>1, <2>1 DEF RevisionInv, Advance
<1>5. ASSUME NEW o \in Ops, Service(o) PROVE RevisionInv' /\ Advance
  <2>1. overlaps = 0
    BY <1>5, ServiceStep
  <2>2. QED
    BY <1>5, <2>1, ServiceRevisions
<1>6. ASSUME NEW c \in Connectors, Process(c) PROVE RevisionInv' /\ Advance
  BY <1>1, <1>6, ProcessFrame DEF RevisionInv, Active, Advance
<1>7. QED
  BY <1>2, <1>3, <1>4, <1>5, <1>6 DEF Next

(* Without overlaps, the revision of the service never goes back, and what  *)
(* is published carries it.                                                 *)
THEOREM RevisionsNeverFall == Spec => RevisionsAdvance
<1> DEFINE Inv == TypeInv /\ Orderly /\ RevisionInv
           Advances == overlaps' = 0 => /\ runtime' >= runtime
                                        /\ sink' # sink => sink'.revision = runtime'
<1>1. Init => Inv
  BY TypeInit, OrderlyInit
<1>2. Inv /\ [Next]_vars => Inv'
  <2> SUFFICES ASSUME Inv, [Next]_vars PROVE Inv'
    OBVIOUS
  <2>1. TypeInv' /\ Orderly'
    BY TypeStep, OrderlyStep
  <2>2. RevisionInv'
    <3>1. CASE overlaps' = 0
      BY <3>1, RevisionStep
    <3>2. CASE overlaps' # 0
      BY <3>2 DEF RevisionInv
    <3>3. QED
      BY <3>1, <3>2
  <2>3. QED
    BY <2>1, <2>2
<1>3. Inv /\ [Next]_vars => [Advances]_vars
  BY RevisionStep DEF Advance
<1>4. QED
  BY <1>1, <1>2, <1>3, PTL DEF Spec, RevisionsAdvance

-----------------------------------------------------------------------------
(* Repairs.                                                                 *)

(* Only a new connector gets settings.                                      *)
LEMMA HubEdits ==
  ASSUME TypeInv, NEW o \in Ops, NEW s \in Servers, Hub(o, s), ~Start(o, s)
  PROVE  \A d \in Connectors : conn'[d].edit = conn[d].edit
<1>1. conn \in [Connectors -> Connector] /\ entries \in [Servers -> Connectors \cup {None}]
  BY DEF TypeInv, Typed
<1>2. o \in Tasks
  BY DEF Tasks
<1>3. ASSUME NEW c \in Connectors, NEW cn, cn.edit = conn[c].edit, conn' = [conn EXCEPT ![c] = cn]
      PROVE  \A d \in Connectors : conn'[d].edit = conn[d].edit
  BY <1>1, <1>3
<1>4. \A c \in Connectors : /\ Killed(conn[c]).edit = conn[c].edit
                            /\ Spawned(conn[c], o).edit = conn[c].edit
                            /\ [conn[c] EXCEPT !.pending = @ \cup {o}].edit = conn[c].edit
  BY <1>1, <1>2, KilledFacts, SpawnedFacts DEF Connector
<1>5. CASE Keep(o, s) \/ Drop(o, s)
  BY <1>5 DEF Keep, Drop
<1>6. CASE Stop(o, s)
  BY <1>1, <1>3, <1>4, <1>6 DEF Stop
<1>7. CASE Answered(o, s)
  <2>1. PICK ok \in BOOLEAN, retryable \in BOOLEAN : Answer(part[o][s].conn, o, ok, retryable)
    BY <1>7 DEF Answered
  <2>2. part[o][s].conn \in Connectors /\ conn[part[o][s].conn].server \in Servers
    BY <1>7 DEF Answered, Engaged, TypeInv, Coherent, PartsFit
  <2>3. QED
    BY <1>2, <2>1, <2>2, AnswerFacts
<1>8. CASE List(o, s) \/ Respawn(o, s)
  <2> DEFINE c == part[o][s].conn
             listed == [conn[c] EXCEPT !.pending = @ \cup {o}]
  <2>1. c \in Connectors
    BY <1>8 DEF List, Respawn, Engaged, TypeInv, Coherent, PartsFit
  <2>2. \/ conn' = [conn EXCEPT ![c] = listed]
        \/ conn' = [conn EXCEPT ![c] = Killed(conn[c])]
        \/ conn' = [conn EXCEPT ![c] = Spawned(conn[c], o)]
    BY <1>8 DEF List, Respawn
  <2>3. listed.edit = conn[c].edit
    BY <1>4, <2>1
  <2> HIDE DEF c, listed
  <2>4. QED
    BY <1>3, <1>4, <2>1, <2>2, <2>3
<1>9. QED
  BY <1>5, <1>6, <1>7, <1>8 DEF Hub

LEMMA ProcessEdits ==
  ASSUME TypeInv, NEW c \in Connectors, Process(c)
  PROVE  \A d \in Connectors : conn'[d].edit = conn[d].edit
<1>1. conn \in [Connectors -> Connector] /\ conn[c] \in Connector /\ retry[c] \in Retry
  BY DEF TypeInv, Typed
<1>2. \A k \in Attempts : k \in Tasks
  BY DEF Tasks
<1>3. ASSUME NEW k \in Attempts,
             \/ conn' = [conn EXCEPT ![c] = Killed(conn[c])]
             \/ conn' = [conn EXCEPT ![c] = Spawned(conn[c], k)]
      PROVE  \A d \in Connectors : conn'[d].edit = conn[d].edit
  <2>1. Killed(conn[c]).edit = conn[c].edit /\ Spawned(conn[c], k).edit = conn[c].edit
    BY <1>1, <1>2, KilledFacts, SpawnedFacts
  <2>2. QED
    BY <1>1, <1>3, <2>1
<1>4. CASE ChildExits(c)
  <2>1. conn' = [conn EXCEPT ![c] = Killed(conn[c])]
    BY <1>4 DEF ChildExits
  <2>2. Killed(conn[c]).edit = conn[c].edit
    BY <1>1, KilledFacts
  <2>3. QED
    BY <1>1, <2>1, <2>2
<1>5. CASE TimerFires(c)
  <2>1. retry[c].attempts \in Attempts
    BY <1>1, <1>5 DEF TimerFires, Retry
  <2>2. \/ UNCHANGED conn
        \/ conn' = [conn EXCEPT ![c] = Killed(conn[c])]
        \/ conn' = [conn EXCEPT ![c] = Spawned(conn[c], retry[c].attempts)]
    BY <1>5 DEF TimerFires
  <2>3. QED
    BY <1>3, <2>1, <2>2
<1>6. ASSUME NEW k \in Attempts, RetrySpawns(c, k)
      PROVE  \A d \in Connectors : conn'[d].edit = conn[d].edit
  BY <1>3, <1>6 DEF RetrySpawns
<1>7. ASSUME NEW k \in Attempts, RetryAnswered(c, k)
      PROVE  \A d \in Connectors : conn'[d].edit = conn[d].edit
  <2>1. PICK ok \in BOOLEAN, retryable \in BOOLEAN : Answer(c, k, ok, retryable)
    BY <1>7 DEF RetryAnswered
  <2>2. conn[c].server \in Servers
    BY <1>7 DEF RetryAnswered, TypeInv, Coherent, ConnectorsFit
  <2>3. QED
    BY <1>2, <2>1, <2>2, AnswerFacts
<1>8. QED
  BY <1>4, <1>5, <1>6, <1>7 DEF Process

(* A step of the hub that ends the work on a server leaves it in line with  *)
(* what the operation has read, and no step of its undoes that.             *)
LEMMA HubRepairs ==
  ASSUME TypeInv, NEW o \in Ops, NEW s \in Servers, Hub(o, s),
         NEW wanted, wanted = op[o].doc.servers
  PROVE  /\ \A t \in Servers : Repaired(wanted, t) => Repaired(wanted, t)'
         /\ part[o][s].step \in {"due", "stop"} /\ part'[o][s].step \notin {"due", "stop"}
              => Repaired(wanted, s)'
<1>1. /\ entries \in [Servers -> Connectors \cup {None}] /\ conn \in [Connectors -> Connector]
      /\ part \in [Ops -> [Servers -> Part]]
  BY DEF TypeInv, Typed
<1>2. wanted[s] \in Stored /\ Wanted(o, s) = wanted[s]
  BY DEF Wanted, TypeInv, Typed, Operation, Doc
<1>3. \A t \in Servers : entries[t] # None => conn[entries[t]].server = t
  BY DEF TypeInv, Coherent, EntriesFit
<1>4. CASE UNCHANGED entries /\ ~Start(o, s)
  <2>1. \A t \in Servers : entries[t] # None => conn'[entries[t]].edit = conn[entries[t]].edit
    BY <1>1, <1>4, HubEdits
  <2>2. \A t \in Servers : Repaired(wanted, t) => Repaired(wanted, t)'
    BY <1>4, <2>1 DEF Repaired
  <2>3. CASE Keep(o, s)
    <3>1. Absent.on = FALSE
      BY DEF Absent
    <3>2. Repaired(wanted, s)
      BY <1>2, <2>3, <3>1 DEF Keep, InLine, Repaired
    <3>3. QED
      BY <2>2, <3>2
  <2>4. CASE Stop(o, s)
    BY <1>1, <2>2, <2>4 DEF Stop
  <2>5. CASE Answered(o, s) \/ List(o, s) \/ Respawn(o, s)
    BY <2>2, <2>5 DEF Answered, List, Respawn
  <2>6. CASE Drop(o, s)
    <3>1. entries' = [entries EXCEPT ![s] = None] /\ ~wanted[s].on
      BY <1>2, <2>6 DEF Drop
    <3>2. Repaired(wanted, s)'
      BY <1>1, <3>1 DEF Repaired
    <3>3. QED
      BY <2>2, <3>2
  <2>7. QED
    BY <1>4, <2>3, <2>4, <2>5, <2>6 DEF Hub
<1>5. CASE Drop(o, s)
  <2>1. entries' = [entries EXCEPT ![s] = None] /\ ~wanted[s].on /\ UNCHANGED conn
    BY <1>2, <1>5 DEF Drop
  <2>2. Repaired(wanted, s)'
    BY <1>1, <2>1 DEF Repaired
  <2>3. \A t \in Servers \ {s} : Repaired(wanted, t) => Repaired(wanted, t)'
    BY <1>1, <2>1 DEF Repaired
  <2>4. QED
    BY <2>2, <2>3
<1>6. CASE Start(o, s)
  <2> DEFINE made == [Unused EXCEPT !.server = s, !.edit = Wanted(o, s).edit]
  <2>1. PICK c \in NextConnector :
          /\ entries' = [entries EXCEPT ![s] = c]
          /\ conn' = [conn EXCEPT ![c] = Spawned(made, o)]
    BY <1>6 DEF Start
  <2>2. c \in Connectors /\ conn[c].server = None /\ c # None /\ None \notin Servers
    BY NextConnectorFacts, RegistryAssumption DEF Unused
  <2>3. made \in Connector /\ made.edit = wanted[s].edit /\ o \in Tasks
    <3>1. \A r \in Stored : r.edit \in 0 .. MaxBegun + 1
      <4>1. Absent.edit \in 0 .. MaxBegun + 1
        BY Numbers DEF Absent
      <4>2. \A r \in [on : BOOLEAN, edit : 1 .. MaxBegun + 1] : r.edit \in 0 .. MaxBegun + 1
        BY Numbers
      <4>3. QED
        BY <4>1, <4>2 DEF Stored
    <3>2. QED
      BY <1>2, <3>1 DEF Connector, Unused, Tasks
  <2>4. Spawned(made, o).edit = wanted[s].edit
    BY <2>3, SpawnedFacts
  <2>5. wanted[s].on
    BY <1>2, <1>6 DEF Start
  <2> HIDE DEF made
  <2>6. Repaired(wanted, s)'
    BY <1>1, <2>1, <2>2, <2>4, <2>5 DEF Repaired
  <2>7. \A t \in Servers \ {s} : entries'[t] = entries[t] /\ entries[t] # c
    BY <1>1, <1>3, <2>1, <2>2
  <2>8. \A t \in Servers \ {s} : Repaired(wanted, t) => Repaired(wanted, t)'
    BY <1>1, <2>1, <2>2, <2>7 DEF Repaired
  <2>9. QED
    BY <2>6, <2>8
<1>7. QED
  BY <1>4, <1>5, <1>6 DEF Hub, Keep, Stop, Answered, List, Respawn

LEMMA ServiceRepairs ==
  ASSUME TypeInv, Orderly, RepairInv, NEW o \in Ops, Service(o)
  PROVE  RepairInv'
<1>1. /\ op[o] \in Operation /\ op[o].next \in Doc
      /\ part \in [Ops -> [Servers -> Part]]
      /\ file \in File
  BY DEF TypeInv, Typed, Operation
<1>2. /\ op[o].pc # "idle" /\ o \in Active /\ Active' \subseteq Active
      /\ \A p \in Ops \ {o} : op'[p] = op[p]
      /\ UNCHANGED <<entries, conn>>
      /\ op'[o] = NoOp \/ Continues(o)
  BY ServiceStep DEF Active
<1>3. settled = FALSE
  BY <1>2 DEF RepairInv, TypeInv, Typed
<1>4. op[o].alone => Active = {o}
  BY <1>2 DEF Orderly
<1> DEFINE Kept == \A s \in Servers :
                     op'[o].pc # "hub" \/ part'[o][s].step \notin {"due", "stop"}
                     => Repaired(op'[o].doc.servers, s)
(* An operation goes on alone: what it leaves.                              *)
<1>5. ASSUME op'[o].alone =>
               /\ op'[o].pc \in {"writing", "saving"} => file'.writers = {o} /\ ~file'.mixed
               /\ op'[o].pc \in {"reopen", "saving"} =>
                    op'[o].next.servers = op'[o].doc.servers
               /\ op'[o].pc \in {"hub", "refresh", "save", "reopen", "publish"} =>
                    op'[o].doc.servers = file'.doc.servers
               /\ /\ op'[o].pc \in {"hub", "refresh", "save", "reopen", "saving", "publish"}
                  /\ op[o].kind \notin {"off", "delete"}
                  => Kept,
             Continues(o)
      PROVE  RepairInv'
  <2>1. ~settled'
    BY <1>3, <1>5 DEF Continues
  <2>2. ASSUME NEW p \in Active', op'[p].alone
        PROVE  p = o /\ op'[o].kind = op[o].kind
    <3>1. p \in Active /\ op[p].alone
      BY <1>2, <1>5, <2>2 DEF Continues, Active
    <3>2. QED
      BY <1>2, <1>5, <3>1 DEF Orderly, Continues
  <2>3. \A servers, t : Repaired(servers, t) <=>
          /\ entries'[t] # None <=> servers[t].on
          /\ entries'[t] # None => conn'[entries'[t]].edit = servers[t].edit
    BY <1>2 DEF Repaired
  <2> HIDE DEF Kept
  <2>4. \A p \in Active' : op'[p].alone /\ op'[p].pc \in {"writing", "saving"}
                           => file'.writers = {p} /\ ~file'.mixed
    BY <1>5, <2>2
  <2>5. \A p \in Active' :
          op'[p].alone /\ op'[p].pc \in {"reopen", "saving"}
          => op'[p].next.servers = op'[p].doc.servers
    BY <1>5, <2>2
  <2>6. \A p \in Active' :
          op'[p].alone /\ op'[p].pc \in {"hub", "refresh", "save", "reopen", "publish"} =>
            op'[p].doc.servers = file'.doc.servers
    BY <1>5, <2>2
  <2>7. ASSUME NEW p \in Active', op'[p].alone, op'[p].kind \notin {"off", "delete"},
               op'[p].pc \in {"hub", "refresh", "save", "reopen", "saving", "publish"},
               NEW s \in Servers, op'[p].pc # "hub" \/ part'[p][s].step \notin {"due", "stop"}
        PROVE  /\ entries'[s] # None <=> op'[p].doc.servers[s].on
               /\ entries'[s] # None => conn'[entries'[s]].edit = op'[p].doc.servers[s].edit
    <3>1. p = o /\ op'[o].kind = op[o].kind
      BY <2>2, <2>7
    <3>2. Repaired(op'[o].doc.servers, s)
      BY <1>5, <2>7, <3>1 DEF Kept
    <3>3. QED
      BY <2>3, <3>1, <3>2
  <2>8. QED
    BY <2>1, <2>4, <2>5, <2>6, <2>7 DEF RepairInv, Repaired
(* An operation ends.                                                       *)
<1>6. ASSUME NEW reconciled \in BOOLEAN, Ended(o, reconciled),
             op[o].alone /\ reconciled => \A s \in Servers : Repaired(file'.doc.servers, s)
      PROVE  RepairInv'
  <2>1. op'[o] = NoOp /\ (settled' <=> op[o].alone /\ reconciled)
    BY <1>6, EndedFacts
  <2>2. Active' = Active \ {o}
    BY <1>2, <2>1, NoOpFacts DEF Active
  <2>3. \A p \in Active' : ~op'[p].alone
    <3>1. \A p \in Active' : p # o /\ p \in Active /\ op'[p] = op[p]
      BY <1>2, <2>2 DEF Active
    <3>2. QED
      BY <1>2, <3>1 DEF Orderly
  <2>4. settled' => Active' = {}
    BY <1>4, <2>1, <2>2
  <2>5. settled' => \A s \in Servers :
                      /\ entries'[s] # None <=> file'.doc.servers[s].on
                      /\ entries'[s] # None => conn'[entries'[s]].edit = file'.doc.servers[s].edit
    BY <1>2, <1>6, <2>1 DEF Repaired
  <2>6. QED
    BY <2>3, <2>4, <2>5 DEF RepairInv, Repaired
(* Nobody else is writing the document.                                     *)
<1>7. op[o].alone => file.writers \subseteq {o}
  BY <1>1, <1>4 DEF Orderly, Active, File
<1>8. op[o].alone /\ op[o].pc \notin {"writing", "saving"} => file.writers = {} /\ ReadDoc = file.doc
  BY <1>7 DEF Orderly, ReadDoc
<1>9. op[o].alone /\ op[o].pc \in {"hub", "refresh", "save", "reopen", "publish"} =>
        op[o].doc.servers = file.doc.servers
  BY <1>2 DEF RepairInv
<1>10. op[o].alone /\ op[o].pc \in {"refresh", "save", "reopen", "saving", "publish"}
       /\ op[o].kind \notin {"off", "delete"} => \A s \in Servers : Repaired(op[o].doc.servers, s)
  BY <1>2 DEF RepairInv
<1>11. op[o].alone /\ op[o].pc = "hub" /\ PartsDone(o) /\ op[o].kind \notin {"off", "delete"} =>
         \A s \in Servers : Repaired(op[o].doc.servers, s)
  BY <1>2 DEF RepairInv, PartsDone
<1>12. CASE Ended(o, FALSE)
  BY <1>6, <1>12
<1>13. CASE Load(o) /\ ~Ended(o, FALSE)
  <2>1. /\ Continues(o) /\ op'[o].doc = ReadDoc /\ file'.doc = ReadDoc
        /\ \/ op'[o].pc = "write"
           \/ op'[o].pc = "hub" /\ part' = [part EXCEPT ![o] = Due(Servers)]
    BY <1>13, LoadStep, FileFacts DEF Load
  <2>2. op'[o].pc = "hub" => \A s \in Servers : part'[o][s].step = "due"
    BY <1>1, <2>1, DueFacts
  <2>3. QED
    BY <1>5, <2>1, <2>2
<1>14. CASE Reread(o)
  <2>1. file'.doc = ReadDoc
    BY <1>14, FileFacts DEF Reread
  <2>2. CASE op[o].pc = "write"
    BY <1>5, <1>14, <2>2, RereadStep
  <2>3. CASE op[o].pc = "save"
    <3>1. /\ Continues(o) /\ op'[o].pc = "reopen" /\ op'[o].doc = op[o].doc
          /\ op'[o].next.servers = ReadDoc.servers
      BY <1>14, <2>3, RereadStep, WrittenFacts
    <3>2. op[o].alone => op'[o].next.servers = op'[o].doc.servers
                         /\ op'[o].doc.servers = file'.doc.servers
      BY <1>8, <1>9, <2>1, <2>3, <3>1
    <3>3. op[o].alone /\ op[o].kind \notin {"off", "delete"} => Kept
      BY <1>10, <2>3, <3>1
    <3> HIDE DEF Kept
    <3>4. QED
      BY <1>5, <3>1, <3>2, <3>3 DEF Continues
  <2>4. QED
    BY <1>14, <2>2, <2>3, RereadStep
<1>15. CASE Open(o)
  <2>1. /\ Continues(o) /\ op'[o].doc = op[o].doc /\ op'[o].next = op[o].next
        /\ op[o].pc \in {"open", "reopen"} /\ op'[o].pc \in {"writing", "saving"}
        /\ op'[o].pc = "saving" <=> op[o].pc = "reopen"
    BY <1>15, OpenStep
  <2>2. op[o].alone => file'.writers = {o} /\ ~file'.mixed
    <3>1. file' = Emptied(o)
      BY <1>15 DEF Open
    <3>2. op[o].alone => file.writers = {}
      BY <1>8, <2>1
    <3>3. QED
      BY <3>1, <3>2, FileFacts
  <2>3. op[o].alone /\ op[o].pc = "reopen" => op[o].next.servers = op[o].doc.servers
    BY <1>2 DEF RepairInv
  <2>4. op[o].alone /\ op[o].kind \notin {"off", "delete"} /\ op[o].pc = "reopen" => Kept
    BY <1>10, <2>1
  <2> HIDE DEF Kept
  <2>5. QED
    BY <1>5, <2>1, <2>2, <2>3, <2>4 DEF Continues
<1>16. CASE Written(o) \/ Saved(o)
  <2>1. /\ Continues(o) /\ op'[o].doc = op[o].next
        /\ Written(o) => op[o].pc = "writing" /\ op'[o].pc = "hub"
        /\ Saved(o) => op[o].pc = "saving" /\ op'[o].pc = "publish"
    BY <1>16, WrittenStep
  <2>2. op[o].alone => file.writers = {o} /\ ~file.mixed
    BY <1>2, <1>16, <2>1 DEF RepairInv
  <2>3. op[o].alone => file'.doc = op[o].next
    <3>1. PICK doc \in Readable(o) : file' = Rewritten(o, doc)
      BY <1>16 DEF Written, Saved
    <3>2. QED
      BY <1>1, <2>2, <3>1, ReadableFacts, RewrittenFacts
  <2>4. CASE Written(o)
    <3>1. op[o].kind \notin {"off", "delete"} => \A s \in Servers : part'[o][s].step = "due"
      <4>1. part' = [part EXCEPT ![o] = Due(IF op[o].kind = "on" THEN Servers ELSE {op[o].server})]
        BY <2>4 DEF Written
      <4>2. ASSUME op[o].kind \notin {"off", "delete"} PROVE op[o].kind = "on"
        BY <2>1, <2>4, <4>2 DEF TypeInv, Coherent, OpsFit
      <4>3. QED
        BY <1>1, <4>1, <4>2, DueFacts
    <3>2. op[o].kind \notin {"off", "delete"} => Kept
      BY <2>1, <2>4, <3>1
    <3> HIDE DEF Kept
    <3>3. QED
      BY <1>5, <2>1, <2>3, <2>4, <3>2 DEF Continues
  <2>5. CASE Saved(o)
    <3>1. op[o].alone => op[o].next.servers = op[o].doc.servers
      BY <1>2, <2>1, <2>5 DEF RepairInv
    <3>2. op[o].alone /\ op[o].kind \notin {"off", "delete"} => Kept
      BY <1>10, <2>1, <2>5, <3>1
    <3> HIDE DEF Kept
    <3>3. QED
      BY <1>5, <2>1, <2>3, <2>5, <3>2 DEF Continues
  <2>6. QED
    BY <1>16, <2>4, <2>5
<1>17. CASE (Refuse(o) \/ Tear(o)) /\ ~Ended(o, FALSE)
  <2>1. /\ Continues(o) /\ op'[o].doc = op[o].doc /\ op'[o].pc = "publish"
        /\ op'[o].alone => Refuse(o) /\ op[o].pc \in {"save", "reopen"}
    BY <1>17, FailureStep
  <2>2. op'[o].alone => op'[o].doc.servers = file'.doc.servers
    <3>1. ASSUME op'[o].alone PROVE file'.doc = file.doc /\ op[o].doc.servers = file.doc.servers
      <4>1. op[o].alone /\ op[o].pc \in {"save", "reopen"} /\ file' \in {file, Recovered}
        BY <2>1, <3>1 DEF Continues, Refuse
      <4>2. QED
        BY <1>8, <1>9, <4>1, FileFacts
    <3>2. QED
      BY <2>1, <3>1
  <2>3. op'[o].alone /\ op[o].kind \notin {"off", "delete"} => Kept
    BY <1>10, <2>1 DEF Continues
  <2> HIDE DEF Kept
  <2>4. QED
    BY <1>5, <2>1, <2>2, <2>3
<1>18. CASE Refresh(o) \/ Commit(o)
  <2>1. /\ Continues(o) /\ op'[o].doc = op[o].doc /\ op'[o].pc \in {"refresh", "save", "publish"}
    BY <1>18, RefreshStep, CommitStep
  <2>2. /\ UNCHANGED file /\ op[o].pc \in {"hub", "refresh"} /\ PartsDone(o)
    BY <1>18 DEF Refresh, Commit
  <2>3. op[o].alone /\ op[o].kind \notin {"off", "delete"} => Kept
    BY <1>10, <1>11, <2>1, <2>2
  <2> HIDE DEF Kept
  <2>4. QED
    BY <1>5, <1>9, <2>1, <2>2, <2>3 DEF Continues
<1>19. CASE Return(o) \/ Publish(o)
  <2>1. PICK reconciled \in BOOLEAN :
          /\ Ended(o, reconciled) /\ UNCHANGED file
          /\ op[o].pc = "publish" \/ (op[o].pc \in {"hub", "refresh"} /\ PartsDone(o))
          /\ reconciled => op[o].kind \notin {"off", "delete"}
    <3>1. CASE Return(o)
      BY <3>1 DEF Return
    <3>2. CASE Publish(o)
      <4> DEFINE reconciled == op[o].kind \notin {"off", "delete"}
      <4>1. Ended(o, reconciled) /\ UNCHANGED file /\ op[o].pc = "publish"
        BY <3>2 DEF Publish
      <4>2. reconciled \in BOOLEAN /\ (reconciled => op[o].kind \notin {"off", "delete"})
        OBVIOUS
      <4> HIDE DEF reconciled
      <4>3. QED
        BY <4>1, <4>2
    <3>3. QED
      BY <1>19, <3>1, <3>2
  <2>2. op[o].alone /\ reconciled => \A s \in Servers : Repaired(file'.doc.servers, s)
    BY <1>9, <1>10, <1>11, <2>1
  <2>3. QED
    BY <1>6, <2>1, <2>2
<1>20. QED
  BY <1>12, <1>13, <1>14, <1>15, <1>16, <1>17, <1>18, <1>19 DEF Service

LEMMA RepairStep == TypeInv /\ Orderly /\ RepairInv /\ [Next]_vars => RepairInv'
<1> SUFFICES ASSUME TypeInv, Orderly, RepairInv, [Next]_vars PROVE RepairInv'
  OBVIOUS
<1>1. part \in [Ops -> [Servers -> Part]] /\ entries \in [Servers -> Connectors \cup {None}]
  BY DEF TypeInv, Typed
<1>2. CASE UNCHANGED vars
  BY <1>2 DEF vars, RepairInv, Active, Repaired
<1>3. ASSUME NEW o \in Ops, NEW s \in Servers, Hub(o, s) PROVE RepairInv'
  <2>1. o \in Active /\ op[o].pc \in {"hub", "refresh"}
    BY <1>3, HubFrame DEF Orderly, Active, PartsDone
  <2>2. Active' = Active /\ settled' = settled /\ file' = file
    BY <1>3, HubFrame DEF Active
  <2>3. ~settled
    BY <2>1 DEF RepairInv
  <2>4. \A p \in Active' :
          /\ p \in Active /\ op'[p].alone = op[p].alone /\ op'[p].pc = op[p].pc
          /\ op'[p].kind = op[p].kind /\ op'[p].doc = op[p].doc /\ op'[p].next = op[p].next
    BY <1>3, <2>2, HubFrame DEF Active
  <2>5. ASSUME NEW p \in Active', op'[p].alone, op'[p].kind \notin {"off", "delete"},
               op'[p].pc \in {"hub", "refresh", "save", "reopen", "saving", "publish"},
               NEW t \in Servers, op'[p].pc # "hub" \/ part'[p][t].step \notin {"due", "stop"}
        PROVE  Repaired(op[p].doc.servers, t)'
    <3>1. p = o /\ op'[o].pc = op[o].pc /\ op'[o].doc = op[o].doc
      BY <2>1, <2>4, <2>5 DEF Orderly
    <3>2. PICK wanted : wanted = op[o].doc.servers
      OBVIOUS
    <3>3. op[o].pc # "hub" \/ part[o][t].step \notin {"due", "stop"} => Repaired(wanted, t)
      BY <2>1, <2>4, <2>5, <3>1, <3>2 DEF RepairInv
    <3>4. CASE op[o].pc # "hub" \/ part[o][t].step \notin {"due", "stop"}
      <4>1. Repaired(wanted, t)'
        BY <1>3, <3>2, <3>3, <3>4, HubRepairs
      <4>2. QED
        BY <3>1, <3>2, <4>1 DEF Repaired
    <3>5. CASE op[o].pc = "hub" /\ part[o][t].step \in {"due", "stop"}
      <4>1. t = s
        BY <1>3, <2>5, <3>1, <3>5, HubFrame
      <4>2. Repaired(wanted, t)'
        BY <1>3, <2>5, <3>1, <3>2, <3>5, <4>1, HubRepairs
      <4>3. QED
        BY <3>1, <3>2, <4>2 DEF Repaired
    <3>6. QED
      BY <3>4, <3>5
  <2>6. /\ \A p \in Active' : op'[p].alone /\ op'[p].pc \in {"writing", "saving"}
                              => file'.writers = {p} /\ ~file'.mixed
        /\ \A p \in Active' : op'[p].alone /\ op'[p].pc \in {"reopen", "saving"}
                              => op'[p].next.servers = op'[p].doc.servers
        /\ \A p \in Active' :
             op'[p].alone /\ op'[p].pc \in {"hub", "refresh", "save", "reopen", "publish"} =>
               op'[p].doc.servers = file'.doc.servers
    BY <2>2, <2>4 DEF RepairInv
  <2>7. QED
    BY <2>2, <2>3, <2>5, <2>6 DEF RepairInv
<1>4. ASSUME NEW o \in Ops, NEW s \in Servers, NEW kind \in Kinds, Begin(o, kind, s)
      PROVE  RepairInv'
  <2>1. /\ op'[o].pc = "load" /\ settled' = FALSE
        /\ \A p \in Ops \ {o} : op'[p].alone = FALSE
    BY <1>4, BeginStep
  <2>2. ASSUME NEW p \in Active', op'[p].alone PROVE op'[p].pc = "load"
    BY <2>1, <2>2 DEF Active
  <2>3. QED
    BY <2>1, <2>2 DEF RepairInv
<1>5. ASSUME NEW o \in Ops, Service(o) PROVE RepairInv'
  BY <1>5, ServiceRepairs
<1>6. ASSUME NEW c \in Connectors, Process(c)
      PROVE  RepairInv'
  <2>1. /\ UNCHANGED <<file, op, part, entries, settled>>
        /\ \A d \in Connectors : conn'[d].edit = conn[d].edit
    BY <1>6, ProcessFrame, ProcessEdits
  <2>2. \A t \in Servers : entries[t] # None => conn'[entries[t]].edit = conn[entries[t]].edit
    BY <1>1, <2>1
  <2>3. Active' = Active
    BY <2>1 DEF Active
  <2>4. ASSUME settled PROVE \A s \in Servers : Repaired(file.doc.servers, s)'
    BY <2>1, <2>2, <2>4 DEF RepairInv, Repaired
  <2>5. ASSUME NEW o \in Active, op[o].alone,
               op[o].pc \in {"hub", "refresh", "save", "reopen", "saving", "publish"},
               op[o].kind \notin {"off", "delete"}, NEW s \in Servers,
               op[o].pc # "hub" \/ part[o][s].step \notin {"due", "stop"}
        PROVE  Repaired(op[o].doc.servers, s)'
    BY <2>1, <2>2, <2>5 DEF RepairInv, Repaired
  <2>6. QED
    BY <2>1, <2>3, <2>4, <2>5 DEF RepairInv
<1>7. QED
  BY <1>2, <1>3, <1>4, <1>5, <1>6 DEF Next

(* Whatever overlapping operations, failed or torn writes and exits have    *)
(* left, an operation that reconciles, runs alone and does not tear the     *)
(* document itself brings the hub in line with what is stored then.         *)
THEOREM RegistryRepairs == Spec => []ReconcileRepairs
<1>1. Init => TypeInv /\ Orderly /\ RepairInv
  <2>1. Init => RepairInv
    BY DEF Init, RepairInv, Active, NoOp
  <2>2. QED
    BY <2>1, TypeInit, OrderlyInit
<1>2. TypeInv /\ Orderly /\ RepairInv /\ [Next]_vars => (TypeInv /\ Orderly /\ RepairInv)'
  BY TypeStep, OrderlyStep, RepairStep
<1>3. RepairInv => ReconcileRepairs
  BY DEF RepairInv, ReconcileRepairs, Repaired
<1>4. QED
  BY <1>1, <1>2, <1>3, PTL DEF Spec

-----------------------------------------------------------------------------
(* Processes.                                                               *)

(* No reconnect waits for a stop.                                           *)
NoRestart == \A c \in Connectors, k \in Attempts : retry[c].steps[k] # "restart"

(* No two operations are engaged on a server.                               *)
Exclusive ==
  \A o, p \in Ops, s \in Servers :
    part[o][s].step \in Engaged /\ part[p][s].step \in Engaged => o = p

(* A connector that changes without a change of entries.                    *)
LEMMA ProcessStep ==
  ASSUME TypeInv, ProcessInv, ~raced,
         NEW c \in Connectors, NEW cn \in Connector,
         conn' = [conn EXCEPT ![c] = cn], cn.server = conn[c].server, ~cn.lost,
         cn.child => conn[c].child \/ entries[conn[c].server] = c,
         UNCHANGED entries, NoRestart', Exclusive',
         \A o \in Ops, s \in Servers :
           /\ part'[o][s].step \in Engaged => entries[s] = part'[o][s].conn
           /\ part'[o][s].step \in {"stop", "restart"} => ~conn'[part'[o][s].conn].child
  PROVE  ProcessInv'
<1>1. conn \in [Connectors -> Connector]
  BY DEF TypeInv, Typed
<1>2. \A d \in Connectors : ~conn[d].lost /\ (conn[d].child => entries[conn[d].server] = d)
  BY DEF ProcessInv
<1>3. \A d \in Connectors : ~conn'[d].lost /\ (conn'[d].child => entries[conn'[d].server] = d)
  BY <1>1, <1>2
<1>4. QED
  BY <1>3 DEF ProcessInv, NoRestart, Exclusive

LEMMA HubProcesses ==
  ASSUME TypeInv, ProcessInv, ~raced', NEW o \in Ops, NEW s \in Servers, Hub(o, s)
  PROVE  ProcessInv'
<1>1. /\ conn \in [Connectors -> Connector] /\ part \in [Ops -> [Servers -> Part]]
      /\ entries \in [Servers -> Connectors \cup {None}] /\ retry \in [Connectors -> Retry]
      /\ None \notin Connectors
  BY RegistryAssumption DEF TypeInv, Typed
<1>17. ~raced
  BY DEF Hub, Keep, Stop, Drop, Start, Answered, List, Respawn, TypeInv, Typed
<1>2. /\ NoRestart /\ Exclusive
      /\ \A c \in Connectors : ~conn[c].lost /\ (conn[c].child => entries[conn[c].server] = c)
      /\ \A p \in Ops, t \in Servers :
           /\ part[p][t].step \in Engaged => entries[t] = part[p][t].conn
           /\ part[p][t].step \in {"stop", "restart"} => ~conn[part[p][t].conn].child
  BY <1>17 DEF ProcessInv, NoRestart, Exclusive
(* Nobody else is engaged on the server.                                    *)
<1>3. ~Keep(o, s) => \A p \in Ops \ {o} : part[p][s].step \notin Engaged
  <2>1. CASE part[o][s].step \in Engaged
    BY <1>2, <2>1 DEF Exclusive
  <2>2. CASE Stop(o, s) \/ Drop(o, s) \/ Start(o, s)
    <3>1. ~Crossed(o, s)
      BY <2>2 DEF Stop, Drop, Start
    <3>2. QED
      BY <3>1 DEF Crossed
  <2>3. CASE Answered(o, s) \/ List(o, s) \/ Respawn(o, s)
    BY <2>1, <2>3 DEF Answered, List, Respawn, Engaged
  <2>4. QED
    BY <2>2, <2>3 DEF Hub
<1>4. \A p \in Ops, t \in Servers : p # o \/ t # s => part'[p][t] = part[p][t]
  BY HubFrame
<1>5. \A p \in Ops, t \in Servers : part[p][t].step \in Engaged =>
        part[p][t].conn \in Connectors /\ conn[part[p][t].conn].server = t
  BY DEF TypeInv, Coherent, PartsFit
<1>16. Exclusive'
  <2>1. CASE Keep(o, s)
    <3>1. part'[o][s] = NoPart
      BY <1>1, <2>1 DEF Keep
    <3>2. QED
      BY <1>2, <1>4, <3>1 DEF Exclusive, NoPart, Engaged
  <2>2. CASE ~Keep(o, s)
    BY <1>2, <1>3, <1>4, <2>2 DEF Exclusive
  <2>3. QED
    BY <2>1, <2>2
<1>6. o \in Tasks /\ NoPart.step \notin Engaged
  BY DEF Tasks, NoPart, Engaged
(* Steps that change the connector of the server.                           *)
<1>7. ASSUME NEW c \in Connectors, NEW cn \in Connector, entries[s] = c, ~Keep(o, s),
             conn' = [conn EXCEPT ![c] = cn], cn.server = conn[c].server, ~cn.lost,
             UNCHANGED entries, NoRestart', conn[c].server = s,
             part'[o][s].step \in Engaged => part'[o][s].conn = c,
             part'[o][s].step \in {"stop", "restart"} => ~cn.child
      PROVE  ProcessInv'
  <2>1. ASSUME NEW p \in Ops, NEW t \in Servers, part'[p][t].step \in Engaged
        PROVE  /\ entries[t] = part'[p][t].conn
               /\ part'[p][t].step \in {"stop", "restart"} => ~conn'[part'[p][t].conn].child
    <3>1. CASE p = o /\ t = s
      BY <1>1, <1>7, <2>1, <3>1
    <3>2. CASE ~(p = o /\ t = s)
      <4>1. part'[p][t] = part[p][t] /\ t # s
        BY <1>3, <1>4, <1>7, <2>1, <3>2
      <4>2. part[p][t].conn \in Connectors \ {c}
        BY <1>5, <1>7, <2>1, <4>1
      <4>3. QED
        BY <1>1, <1>2, <1>7, <2>1, <4>1, <4>2
    <3>3. QED
      BY <3>1, <3>2
  <2>2. "stop" \in Engaged /\ "restart" \in Engaged
    BY DEF Engaged
  <2>3. entries[conn[c].server] = c
    BY <1>7
  <2>4. \A p \in Ops, t \in Servers :
          /\ part'[p][t].step \in Engaged => entries[t] = part'[p][t].conn
          /\ part'[p][t].step \in {"stop", "restart"} => ~conn'[part'[p][t].conn].child
    BY <2>1, <2>2
  <2>5. /\ conn' = [conn EXCEPT ![c] = cn] /\ cn.server = conn[c].server /\ ~cn.lost
        /\ UNCHANGED entries /\ NoRestart'
    BY <1>7
  <2>6. QED
    BY <1>16, <1>17, <2>3, <2>4, <2>5, ProcessStep
<1>8. CASE Keep(o, s)
  <2>1. UNCHANGED <<entries, conn, retry, raced>> /\ part' = [part EXCEPT ![o][s] = NoPart]
    BY <1>8 DEF Keep
  <2>2. \A p \in Ops, t \in Servers : part'[p][t].step \in Engaged => part'[p][t] = part[p][t]
    BY <1>1, <1>6, <2>1
  <2>3. "stop" \in Engaged /\ "restart" \in Engaged
    BY DEF Engaged
  <2>4. QED
    BY <1>2, <1>16, <2>1, <2>2, <2>3 DEF ProcessInv, NoRestart, Exclusive
<1>9. CASE Stop(o, s)
  <2> DEFINE c == entries[s]
             p == [step |-> "stop", conn |-> c]
  <2>1. c \in Connectors /\ conn[c].server = s
    BY <1>1, <1>9 DEF Stop, TypeInv, Coherent, EntriesFit
  <2>2. /\ conn' = [conn EXCEPT ![c] = Killed(conn[c])] /\ UNCHANGED <<entries, retry>>
        /\ part' = [part EXCEPT ![o][s] = p]
    BY <1>9 DEF Stop
  <2>3. /\ Killed(conn[c]) \in Connector /\ ~Killed(conn[c]).child
        /\ Killed(conn[c]).server = conn[c].server /\ ~Killed(conn[c]).lost
    BY <1>1, <1>2, <2>1, KilledFacts
  <2>4. part'[o][s].conn = c
    BY <1>1, <2>2
  <2>5. entries[s] = c
    OBVIOUS
  <2> HIDE DEF c, p
  <2>6. NoRestart'
    BY <1>2, <2>2 DEF NoRestart
  <2>7. ~Keep(o, s)
    BY <1>9 DEF Keep, Stop
  <2>8. QED
    BY <1>7, <2>1, <2>2, <2>3, <2>4, <2>5, <2>6, <2>7
(* Nothing has to be stopped any more.                                      *)
<1>10. ASSUME Stopped(o, s), NEW c \in Connectors, conn[c].server = s PROVE ~conn[c].child
  <2>1. SUFFICES ASSUME entries[s] = c PROVE ~conn[c].child
    BY <1>2, <1>10
  <2>2. CASE part[o][s].step = "stop"
    BY <1>2, <2>1, <2>2 DEF Engaged
  <2>3. CASE part[o][s].step # "stop"
    BY <1>1, <1>10, <2>1, <2>3 DEF Stopped
  <2>4. QED
    BY <2>2, <2>3
<1>11. CASE Drop(o, s)
  <2>1. /\ UNCHANGED <<conn, retry>> /\ part' = [part EXCEPT ![o][s] = NoPart]
        /\ entries' = [entries EXCEPT ![s] = None] /\ Stopped(o, s)
    BY <1>11 DEF Drop
  <2>7. ~Keep(o, s)
    <3>1. ~Wanted(o, s).on /\ (Wanted(o, s) = Absent => entries[s] # None \/ op[o].kind = "delete")
      BY <1>11 DEF Drop
    <3>2. QED
      BY <3>1 DEF Keep, InLine
  <2>2. \A p \in Ops, t \in Servers :
          part'[p][t].step \in Engaged => part'[p][t] = part[p][t] /\ t # s
    <3>1. ASSUME NEW p \in Ops, NEW t \in Servers, part'[p][t].step \in Engaged
          PROVE  p # o \/ t # s
      BY <1>1, <1>6, <2>1, <3>1
    <3>2. QED
      BY <1>3, <1>4, <2>7, <3>1
  <2>3. \A c \in Connectors : conn[c].child => entries'[conn[c].server] = c
    <3>1. ASSUME NEW c \in Connectors, conn[c].child PROVE entries'[conn[c].server] = c
      <4>1. conn[c].server \in Servers \ {s}
        BY <1>10, <2>1, <3>1 DEF TypeInv, Coherent, ConnectorsFit
      <4>2. QED
        BY <1>1, <1>2, <2>1, <3>1, <4>1
    <3>2. QED
      BY <3>1
  <2>4. \A t \in Servers \ {s} : entries'[t] = entries[t]
    BY <1>1, <2>1
  <2>5. "stop" \in Engaged /\ "restart" \in Engaged
    BY DEF Engaged
  <2>6. QED
    BY <1>2, <1>16, <2>1, <2>2, <2>3, <2>4, <2>5 DEF ProcessInv, NoRestart, Exclusive
<1>12. CASE Start(o, s)
  <2> DEFINE made == [Unused EXCEPT !.server = s, !.edit = Wanted(o, s).edit]
             cn == Spawned(made, o)
  <2>1. PICK c \in NextConnector :
          /\ entries' = [entries EXCEPT ![s] = c]
          /\ conn' = [conn EXCEPT ![c] = cn]
          /\ part' = [part EXCEPT ![o][s] = [step |-> "ask", conn |-> c]]
    BY <1>12 DEF Start
  <2>2. /\ c \in Connectors /\ conn[c].server = None /\ None \notin Servers
        /\ UNCHANGED retry /\ Stopped(o, s)
    BY <1>12, NextConnectorFacts, RegistryAssumption DEF Start, Unused
  <2>8. ~Keep(o, s)
    <3>1. Wanted(o, s).on /\ Wanted(o, s) # Absent
      BY <1>12 DEF Start, Absent
    <3>2. part[o][s].step = "stop" \/ ~InLine(o, s)
      BY <2>2 DEF Stopped
    <3>3. QED
      BY <3>1, <3>2 DEF Keep, Turn
  <2>3. cn.server = s /\ ~cn.lost
    <3>1. made \in Connector /\ made.server = s /\ ~made.lost /\ ~made.child
      <4>1. Wanted(o, s) \in Stored
        BY DEF Wanted, TypeInv, Typed, Operation, Doc
      <4>2. \A r \in Stored : r.edit \in 0 .. MaxBegun + 1
        <5>1. Absent.edit \in 0 .. MaxBegun + 1
          BY Numbers DEF Absent
        <5>2. \A r \in [on : BOOLEAN, edit : 1 .. MaxBegun + 1] : r.edit \in 0 .. MaxBegun + 1
          BY Numbers
        <5>3. QED
          BY <5>1, <5>2 DEF Stored
      <4>3. QED
        BY <4>1, <4>2 DEF Connector, Unused, Tasks
    <3>2. QED
      BY <1>6, <3>1, SpawnedFacts
  <2> HIDE DEF cn, made
  <2>4. ASSUME NEW d \in Connectors
        PROVE  ~conn'[d].lost /\ (conn'[d].child => entries'[conn'[d].server] = d)
    <3>1. CASE d = c
      BY <1>1, <2>1, <2>2, <2>3, <3>1
    <3>2. CASE d # c
      <4>1. conn'[d] = conn[d]
        BY <1>1, <2>1, <3>2
      <4>2. conn[d].child => conn[d].server \in Servers \ {s}
        BY <1>10, <2>2 DEF TypeInv, Coherent, ConnectorsFit
      <4>3. QED
        BY <1>1, <1>2, <2>1, <4>1, <4>2
    <3>3. QED
      BY <3>1, <3>2
  <2>5. ASSUME NEW p \in Ops, NEW t \in Servers, part'[p][t].step \in Engaged
        PROVE  /\ entries'[t] = part'[p][t].conn
               /\ part'[p][t].step \in {"stop", "restart"} => ~conn'[part'[p][t].conn].child
    <3>1. CASE p = o /\ t = s
      BY <1>1, <2>1, <3>1
    <3>2. CASE ~(p = o /\ t = s)
      <4>1. part'[p][t] = part[p][t] /\ t # s
        BY <1>3, <1>4, <2>5, <2>8, <3>2
      <4>2. part[p][t].conn \in Connectors \ {c}
        BY <1>5, <2>2, <2>5, <4>1
      <4>3. QED
        BY <1>1, <1>2, <2>1, <2>5, <4>1, <4>2
    <3>3. QED
      BY <3>1, <3>2
  <2>6. "stop" \in Engaged /\ "restart" \in Engaged
    BY DEF Engaged
  <2>7. QED
    BY <1>2, <1>16, <2>2, <2>4, <2>5, <2>6 DEF ProcessInv, NoRestart, Exclusive
<1>13. CASE Answered(o, s)
  <2> DEFINE c == part[o][s].conn
  <2>1. PICK ok \in BOOLEAN, retryable \in BOOLEAN :
          /\ Answer(c, o, ok, retryable)
          /\ retry' = [retry EXCEPT ![c] = Rescheduled(@, retryable)]
    BY <1>13 DEF Answered
  <2>2. /\ c \in Connectors /\ conn[c].server = s /\ entries[s] = c
        /\ part' = [part EXCEPT ![o][s] = NoPart] /\ UNCHANGED entries
    BY <1>2, <1>5, <1>13 DEF Answered, Engaged
  <2> HIDE DEF c
  <2>3. /\ conn' \in [Connectors -> Connector]
        /\ \A d \in Connectors \ {c} : conn'[d] = conn[d]
        /\ conn'[c].server = conn[c].server /\ conn'[c].lost = conn[c].lost
    BY <1>6, <2>1, <2>2, AnswerFacts
  <2>4. NoRestart' /\ ~Keep(o, s)
    <3>1. \A d \in Connectors : retry'[d].steps = retry[d].steps
      BY <1>1, <2>1, <2>2, RescheduledFacts
    <3>2. ~Keep(o, s)
      BY <1>13 DEF Answered, Keep, Turn
    <3>3. QED
      BY <1>2, <3>1, <3>2 DEF NoRestart
  <2>5. PICK cn \in Connector : cn = conn'[c]
    BY <2>2, <2>3
  <2>6. conn' = [conn EXCEPT ![c] = cn]
    BY <1>1, <2>3, <2>5
  <2>7. part'[o][s].step \notin Engaged
    BY <1>1, <1>6, <2>2
  <2>8. "stop" \in Engaged /\ "restart" \in Engaged
    BY DEF Engaged
  <2>9. cn.server = conn[c].server /\ ~cn.lost
    BY <1>2, <2>2, <2>3, <2>5
  <2>10. QED
    BY <1>7, <2>2, <2>4, <2>6, <2>7, <2>8, <2>9
<1>14. CASE List(o, s) \/ Respawn(o, s)
  <2> DEFINE c == part[o][s].conn
             listed == [conn[c] EXCEPT !.pending = @ \cup {o}]
  <2>1. /\ c \in Connectors /\ conn[c].server = s /\ entries[s] = c
        /\ UNCHANGED <<entries, retry>>
    BY <1>2, <1>5, <1>14 DEF List, Respawn, Engaged
  <2>7. NoRestart' /\ ~Keep(o, s)
    BY <1>2, <1>14, <2>1 DEF NoRestart, List, Respawn, Keep, Turn
  <2>2. conn[c] \in Connector /\ ~conn[c].lost
    BY <1>1, <1>2, <2>1
  <2>3. listed \in Connector /\ listed.server = conn[c].server /\ ~listed.lost
    BY <1>6, <2>2 DEF Connector
  <2>4. PICK cn \in Connector, step \in {"ask", "restart"} :
          /\ conn' = [conn EXCEPT ![c] = cn]
          /\ part' = [part EXCEPT ![o][s].step = step]
          /\ cn.server = conn[c].server /\ ~cn.lost
          /\ step = "restart" => ~cn.child
    <3>1. CASE List(o, s) /\ conn[c].ready
      <4>1. conn' = [conn EXCEPT ![c] = listed] /\ part' = [part EXCEPT ![o][s].step = "ask"]
        BY <3>1 DEF List
      <4> HIDE DEF listed
      <4>2. QED
        BY <2>3, <4>1
    <3>2. CASE List(o, s) /\ ~conn[c].ready /\ conn[c].child
      <4>1. conn' = [conn EXCEPT ![c] = Killed(conn[c])]
              /\ part' = [part EXCEPT ![o][s].step = "restart"]
        BY <3>2 DEF List
      <4>2. /\ Killed(conn[c]) \in Connector /\ Killed(conn[c]).server = conn[c].server
            /\ ~Killed(conn[c]).lost /\ ~Killed(conn[c]).child
        BY <2>2, KilledFacts
      <4>3. QED
        BY <4>1, <4>2
    <3>3. CASE ~conn[c].child /\ ((List(o, s) /\ ~conn[c].ready) \/ Respawn(o, s))
      <4>1. conn' = [conn EXCEPT ![c] = Spawned(conn[c], o)]
              /\ part' = [part EXCEPT ![o][s].step = "ask"]
        BY <3>3 DEF List, Respawn
      <4>2. QED
        <5>1. /\ Spawned(conn[c], o) \in Connector
              /\ Spawned(conn[c], o).server = conn[c].server /\ ~Spawned(conn[c], o).lost
          BY <1>6, <2>2, <3>3, SpawnedFacts
        <5>2. QED
          BY <4>1, <5>1
    <3>4. Respawn(o, s) => ~conn[c].child
      BY <1>2 DEF Respawn
    <3>5. QED
      BY <1>14, <3>1, <3>2, <3>3, <3>4
  <2>5. part'[o][s].step = step /\ part'[o][s].conn = c
    BY <1>1, <2>4 DEF Part
  <2> HIDE DEF c, listed
  <2>6. QED
    BY <1>7, <2>1, <2>4, <2>5, <2>7
<1>15. QED
  BY <1>8, <1>9, <1>11, <1>12, <1>13, <1>14 DEF Hub

LEMMA RetryProcesses ==
  ASSUME TypeInv, ProcessInv, ~raced', NEW c \in Connectors, Process(c)
  PROVE  ProcessInv'
<1>1. /\ conn \in [Connectors -> Connector] /\ conn[c] \in Connector
      /\ retry \in [Connectors -> Retry] /\ retry[c] \in Retry
      /\ conn[c].server \in Servers
  BY DEF Process, ChildExits, TimerFires, RetrySpawns, RetryAnswered, TypeInv, Typed, Coherent,
         ConnectorsFit
<1>2. UNCHANGED <<part, entries>> /\ ~raced
  BY ProcessFrame DEF Process, ChildExits, TimerFires, RetrySpawns, RetryAnswered, TypeInv, Typed
<1>3. /\ NoRestart /\ Exclusive'
      /\ \A d \in Connectors : ~conn[d].lost
      /\ \A o \in Ops, s \in Servers :
           /\ part[o][s].step \in Engaged => entries[s] = part[o][s].conn
           /\ part[o][s].step \in {"stop", "restart"} => ~conn[part[o][s].conn].child
  BY <1>2 DEF ProcessInv, NoRestart, Exclusive
<1>4. \A k \in Attempts : k \in Tasks
  BY DEF Tasks
<1>5. \A o \in Ops, s \in Servers : part[o][s].step \in {"stop", "restart"} =>
        part[o][s].conn \in Connectors
  BY DEF Engaged, TypeInv, Coherent, PartsFit
(* A connector whose process has gone, or was there before.                 *)
<1>6. ASSUME NEW cn \in Connector, conn' = [conn EXCEPT ![c] = cn],
             cn.server = conn[c].server, ~cn.lost, cn.child => conn[c].child, NoRestart'
      PROVE  ProcessInv'
  <2>1. \A d \in Connectors : conn'[d].child => conn[d].child
    BY <1>1, <1>6
  <2>2. \A o \in Ops, s \in Servers :
          /\ part'[o][s].step \in Engaged => entries[s] = part'[o][s].conn
          /\ part'[o][s].step \in {"stop", "restart"} => ~conn'[part'[o][s].conn].child
    BY <1>2, <1>3, <1>5, <2>1
  <2>3. /\ UNCHANGED entries /\ ~raced
        /\ cn.child => conn[c].child \/ entries[conn[c].server] = c
    BY <1>2, <1>6
  <2>4. QED
    BY <1>3, <1>6, <2>2, <2>3, ProcessStep
<1>7. CASE ChildExits(c)
  <2>1. conn' = [conn EXCEPT ![c] = Killed(conn[c])] /\ UNCHANGED retry
    BY <1>7 DEF ChildExits
  <2>2. /\ Killed(conn[c]) \in Connector /\ Killed(conn[c]).server = conn[c].server
        /\ ~Killed(conn[c]).lost /\ ~Killed(conn[c]).child
    BY <1>1, <1>3, KilledFacts
  <2>3. NoRestart'
    BY <1>3, <2>1 DEF NoRestart
  <2>4. QED
    BY <1>6, <2>1, <2>2, <2>3
<1>8. ASSUME NEW k \in Attempts, RetrySpawns(c, k) PROVE ProcessInv'
  BY <1>3, <1>8 DEF RetrySpawns, NoRestart
<1>9. ASSUME NEW k \in Attempts, RetryAnswered(c, k) PROVE ProcessInv'
  <2> DEFINE ended == [retry[c] EXCEPT !.steps[k] = "none"]
  <2>1. PICK ok \in BOOLEAN, retryable \in BOOLEAN :
          /\ Answer(c, k, ok, retryable)
          /\ retry' = [retry EXCEPT ![c] = Rescheduled(ended, retryable)]
    BY <1>9 DEF RetryAnswered
  <2>2. /\ conn' \in [Connectors -> Connector]
        /\ \A d \in Connectors \ {c} : conn'[d] = conn[d]
        /\ conn'[c].server = conn[c].server /\ conn'[c].lost = conn[c].lost
        /\ conn'[c].child => conn[c].child
    BY <1>1, <1>4, <2>1, AnswerFacts
  <2>3. /\ ended \in Retry
        /\ \A l \in Attempts : ended.steps[l] = IF l = k THEN "none" ELSE retry[c].steps[l]
    <3>1. PICK r \in Retry : r = retry[c]
      BY <1>1
    <3>2. "none" \in RetryStep
      BY DEF RetryStep
    <3>3. [r EXCEPT !.steps[k] = "none"] \in Retry
      BY <3>2, AttemptFacts
    <3>4. \A l \in Attempts :
            [r EXCEPT !.steps[k] = "none"].steps[l] = IF l = k THEN "none" ELSE r.steps[l]
      BY DEF Retry
    <3>5. QED
      BY <3>1, <3>3, <3>4
  <2> HIDE DEF ended
  <2>4. NoRestart'
    <3>1. Rescheduled(ended, retryable).steps = ended.steps
      BY <2>3, RescheduledFacts
    <3>2. \A l \in Attempts : retry'[c].steps[l] # "restart"
      BY <1>1, <1>3, <2>1, <2>3, <3>1 DEF NoRestart
    <3>3. QED
      BY <1>1, <1>3, <2>1, <3>2 DEF NoRestart
  <2>5. PICK cn \in Connector : cn = conn'[c]
    BY <2>2
  <2>6. conn' = [conn EXCEPT ![c] = cn]
    BY <1>1, <2>2, <2>5
  <2>7. cn.server = conn[c].server /\ ~cn.lost /\ (cn.child => conn[c].child)
    BY <1>3, <2>2, <2>5
  <2>8. QED
    BY <1>6, <2>4, <2>6, <2>7
<1>10. CASE TimerFires(c)
  <2>1. CASE entries[conn[c].server] # c
    <3> DEFINE freed == [retry[c] EXCEPT !.timer = FALSE]
    <3>1. conn' = [conn EXCEPT ![c] = conn[c]] /\ retry' = [retry EXCEPT ![c] = freed]
      BY <1>1, <1>10, <2>1 DEF TimerFires
    <3>2. freed.steps = retry[c].steps
      BY <1>1 DEF Retry
    <3> HIDE DEF freed
    <3>3. NoRestart'
      BY <1>1, <1>3, <3>1, <3>2 DEF NoRestart
    <3>4. QED
      BY <1>1, <1>3, <1>6, <3>1, <3>3
  <2>2. CASE entries[conn[c].server] = c
    <3> DEFINE k == retry[c].attempts
               fired == [retry[c] EXCEPT !.timer = FALSE, !.steps[k] = "ask"]
    <3>1. ~conn[c].child /\ ~Released(c)
      BY <1>10, <2>2 DEF TimerFires
    <3>2. k \in Attempts
      BY <1>1, <1>10 DEF TimerFires, Retry
    <3>3. /\ conn' = [conn EXCEPT ![c] = Spawned(conn[c], k)]
          /\ retry' = [retry EXCEPT ![c].timer = FALSE, ![c].steps[k] = "ask"]
      BY <1>10, <2>2, <3>1 DEF TimerFires
    <3>4. retry' = [retry EXCEPT ![c] = fired]
      BY <1>1, <3>3
    <3>5. \A l \in Attempts : fired.steps[l] = IF l = k THEN "ask" ELSE retry[c].steps[l]
      <4>1. PICK r \in Retry : r = retry[c]
        BY <1>1
      <4>2. "ask" \in RetryStep
        BY DEF RetryStep
      <4>3. \A l \in Attempts : [r EXCEPT !.timer = FALSE, !.steps[k] = "ask"].steps[l] =
                                IF l = k THEN "ask" ELSE r.steps[l]
        BY <3>2, <4>2, AttemptFacts
      <4>4. QED
        BY <4>1, <4>3
    <3> HIDE DEF k, fired
    <3>6. NoRestart'
      <4>1. \A l \in Attempts : retry'[c].steps[l] # "restart"
        BY <1>1, <1>3, <3>4, <3>5 DEF NoRestart
      <4>2. QED
        BY <1>1, <1>3, <3>4, <4>1 DEF NoRestart
    <3>7. /\ Spawned(conn[c], k) \in Connector
          /\ Spawned(conn[c], k).server = conn[c].server
          /\ ~Spawned(conn[c], k).lost
      BY <1>1, <1>3, <1>4, <3>1, <3>2, SpawnedFacts
    <3>8. \A o \in Ops, s \in Servers :
            /\ part'[o][s].step \in Engaged => entries[s] = part'[o][s].conn
            /\ part'[o][s].step \in {"stop", "restart"} => ~conn'[part'[o][s].conn].child
      BY <1>1, <1>2, <1>3, <1>5, <3>1, <3>3 DEF Released
    <3>9. QED
      BY <1>2, <1>3, <2>2, <3>3, <3>6, <3>7, <3>8, ProcessStep
  <2>3. QED
    BY <2>1, <2>2
<1>11. QED
  BY <1>7, <1>8, <1>9, <1>10 DEF Process

LEMMA ServiceProcesses ==
  ASSUME TypeInv, ProcessInv, ~raced', NEW o \in Ops, Service(o)
  PROVE  ProcessInv'
<1>1. part \in [Ops -> [Servers -> Part]]
  BY DEF TypeInv, Typed
<1>2. "stop" \in Engaged /\ "restart" \in Engaged
  BY DEF Engaged
<1>3. UNCHANGED <<entries, conn, retry>> /\ \A p \in Ops \ {o} : part'[p] = part[p]
  BY ServiceStep
<1>4. ~raced
  BY HubAlone
<1>5. ASSUME NEW s \in Servers, part'[o][s].step \in Engaged
      PROVE  \/ part'[o][s] = part[o][s]
             \/ /\ part'[o][s].step = "list" /\ part'[o][s].conn = entries[s]
                /\ ~Crossed(o, s)
  <2>1. CASE UNCHANGED part
    BY <2>1
  <2>2. ASSUME NEW servers, part' = [part EXCEPT ![o] = Due(servers)] PROVE FALSE
    BY <1>1, <1>5, <2>2, DueFacts
  <2>3. CASE Refresh(o)
    <3>1. part'[o][s] = IF s \in Targets(o) THEN [step |-> "list", conn |-> entries[s]] ELSE NoPart
      BY <1>1, <2>3 DEF Refresh
    <3>2. s \in Targets(o) => ~Crossed(o, s)
      BY <2>3 DEF Refresh
    <3>3. QED
      BY <1>5, <3>1, <3>2 DEF NoPart, Engaged
  <2>4. QED
    BY <2>1, <2>2, <2>3 DEF Service, Load, Reread, Open, Written, Saved, Refuse, Tear, Commit,
                            Return, Publish
<1>6. \A p \in Ops, s \in Servers : part'[p][s].step \in Engaged =>
        \/ part'[p][s] = part[p][s]
        \/ part'[p][s].step = "list" /\ part'[p][s].conn = entries[s]
  BY <1>3, <1>5
<1>7. ASSUME NEW p \in Ops \ {o}, NEW s \in Servers,
             part'[o][s].step \in Engaged, part'[p][s].step \in Engaged
      PROVE  FALSE
  <2>1. part[p][s].step \in Engaged
    BY <1>3, <1>7
  <2>2. Crossed(o, s)
    BY <2>1 DEF Crossed
  <2>3. part[o][s].step \in Engaged
    BY <1>5, <1>7, <2>2
  <2>4. QED
    BY <1>4, <2>1, <2>3 DEF ProcessInv
<1>8. Exclusive /\ Exclusive'
  <2>1. Exclusive
    BY <1>4 DEF ProcessInv, Exclusive
  <2>2. QED
    BY <1>3, <1>7, <2>1 DEF Exclusive
<1>9. QED
  BY <1>2, <1>3, <1>4, <1>6, <1>8 DEF ProcessInv, Exclusive

LEMMA ProcessesStep == TypeInv /\ ProcessInv /\ [Next]_vars => ProcessInv'
<1> SUFFICES ASSUME TypeInv, ProcessInv, [Next]_vars PROVE ProcessInv'
  OBVIOUS
<1> SUFFICES ASSUME ~raced' PROVE ProcessInv'
  BY DEF ProcessInv
<1>1. CASE UNCHANGED vars
  BY <1>1 DEF vars, hub, ProcessInv
<1>2. ASSUME NEW o \in Ops, NEW s \in Servers, NEW kind \in Kinds, Begin(o, kind, s)
      PROVE  ProcessInv'
  <2>1. UNCHANGED <<part, hub>>
    BY <1>2, BeginStep
  <2>2. QED
    BY <2>1 DEF ProcessInv, hub
<1>3. QED
  BY <1>1, <1>2, HubProcesses, ServiceProcesses, RetryProcesses DEF Next

(* However operations overlap, as long as no two of them work on the        *)
(* connector of one server at a time, and no reconnect falls into a time    *)
(* its connector runs or is being stopped: no process is forgotten, and     *)
(* each is that of the entry of its server.                                 *)
THEOREM ProcessesAreKept == Spec => []NoProcessIsLost
<1>1. Init => TypeInv /\ ProcessInv
  <2>1. Init => ProcessInv
    BY DEF Init, ProcessInv, Unused, NoRetry, NoPart, Engaged
  <2>2. QED
    BY <2>1, TypeInit
<1>2. TypeInv /\ ProcessInv /\ [Next]_vars => (TypeInv /\ ProcessInv)'
  BY TypeStep, ProcessesStep
<1>3. ProcessInv => NoProcessIsLost
  BY DEF ProcessInv, NoProcessIsLost
<1>4. QED
  BY <1>1, <1>2, <1>3, PTL DEF Spec

================================================================================
