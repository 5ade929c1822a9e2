------------------------------ MODULE McpRegistry ------------------------------
(***************************************************************************)
(* The MCP registry of the desktop application (electron/mcp-registry):    *)
(* the service that edits the stored list of servers, the hub that keeps a *)
(* connector for every enabled one, and the capability snapshot published  *)
(* for the runtime.                                                        *)
(*                                                                         *)
(* Operations are asynchronous functions of one event loop and take no     *)
(* lock: they overlap at every await.  An action is the code between two   *)
(* awaits that wait for a file, a process or a timer.  A connector is that *)
(* of connectors/stdio.ts, with a child process; one over HTTP has no      *)
(* child to wait for.  After a failure the 150 ms a child is given to exit *)
(* are left out, and so is what a tool call does in the connector.  A      *)
(* child counts as gone once it has been sent the signal to end: the code  *)
(* sends one, waits 150 ms and forgets it, whether it obeys or not.        *)
(***************************************************************************)
EXTENDS Naturals, FiniteSets

CONSTANTS Servers, Ops, Connectors, None,
          MaxReconnects,  \* maxReconnectAttempts
          MaxBegun,       \* bound: operations
          MaxFaults,      \* bound: failed starts, reads and writes, children that exit
          MaxOverlaps     \* bound: operations that begin while another is under way

ASSUME RegistryAssumption == None \notin Servers \cup Ops \cup Connectors
ASSUME NumberAssumption   == {MaxReconnects, MaxBegun, MaxFaults, MaxOverlaps} \subseteq Nat

VARIABLES
  file,     \* the registry document, and the operations that are rewriting it
  runtime,  \* runtimeSnapshotRevision
  entries,  \* the connector of each server in the hub
  conn,     \* the connectors
  states,   \* the connection state the hub reports for each server
  op,       \* the operations
  part,     \* what an operation is doing with each server
  retry,    \* the reconnect attempts of each connector
  sink,     \* the capability snapshot
  begun, faults,
  overlaps,    \* operations that have begun while another was under way
  raced,       \* two operations have worked on a server at the same time, or a
               \* reconnect fell into a time its connector was running or was
               \* being stopped
  settled      \* the last operation ran alone, to its end, with a reconcile

hub  == <<entries, conn, states, retry, raced>>
vars == <<file, runtime, entries, conn, states, op, part, retry, sink, begun, faults,
          overlaps, raced, settled>>

Larger(a, b) == IF a > b THEN a ELSE b

-----------------------------------------------------------------------------
(* Types.                                                                   *)

Kinds == {"load", "on", "off", "delete", "refresh", "warmup", "test", "execute"}

(* A stored server; every save gives it another time stamp.                 *)
Absent == [on |-> FALSE, edit |-> 0]
Stored == [on : BOOLEAN, edit : 1 .. MaxBegun + 1] \cup {Absent}

Doc == [snapshot : Nat, servers : [Servers -> Stored]]

(* createDefaultDocument.                                                   *)
EmptyDoc == [snapshot |-> 0, servers |-> [s \in Servers |-> Absent]]

State == {"none", "disabled", "idle", "connecting", "connected", "degraded", "error"}

(* Reconnect attempts have numbers.                                         *)
Attempts == 1 .. MaxReconnects

Tasks == Ops \cup Attempts

(* child: a process runs.  pending: the tasks it still owes an answer.      *)
(* tools: the connector has listed the tools of the server.  lost: it has   *)
(* forgotten a process it started.                                          *)
Unused == [server |-> None, edit |-> 0, child |-> FALSE, ready |-> FALSE,
           pending |-> {}, tools |-> FALSE, lost |-> FALSE]

NoRetry == [timer |-> FALSE, attempts |-> 0, steps |-> [k \in Attempts |-> "none"]]

(* next: the document about to be written.  alone: no other operation has   *)
(* been under way since it began, and no write of its own has left a torn   *)
(* document.                                                                *)
NoOp == [kind |-> "none", pc |-> "idle", server |-> None, edit |-> 0, doc |-> EmptyDoc,
         next |-> EmptyDoc, rev |-> 0, was |-> FALSE, asked |-> FALSE, ok |-> FALSE,
         alone |-> FALSE]

NoPart == [step |-> "done", conn |-> None]

(* What an operation does with a connector.                                 *)
Engaged == {"stop", "ask", "list", "restart"}

(* The document of the last time the application ran, and its snapshot: it  *)
(* has a larger revision when the last one could not be stored.             *)
Init ==
  /\ \E s \in Servers, r \in {Absent, [on |-> TRUE, edit |-> 1], [on |-> FALSE, edit |-> 1]} :
       file = [doc |-> [snapshot |-> r.edit, servers |-> [EmptyDoc.servers EXCEPT ![s] = r]],
               writers |-> {}, mixed |-> FALSE]
  /\ \E revision \in {file.doc.snapshot, file.doc.snapshot + 1} :
       sink = [revision |-> revision, tools |-> {s \in Servers : file.doc.servers[s].on}]
  /\ runtime = 0
  /\ entries = [s \in Servers |-> None]
  /\ conn = [c \in Connectors |-> Unused]
  /\ states = [s \in Servers |-> "none"]
  /\ op = [o \in Ops |-> NoOp]
  /\ part = [o \in Ops |-> [s \in Servers |-> NoPart]]
  /\ retry = [c \in Connectors |-> NoRetry]
  /\ begun = 0
  /\ faults = 0
  /\ overlaps = 0
  /\ raced = FALSE
  /\ settled = FALSE

Active == {o \in Ops : op[o].pc # "idle"}

Fault == faults < MaxFaults /\ faults' = faults + 1

-----------------------------------------------------------------------------
(* The document (store.ts).                                                 *)

(* store.load: a document that is just being rewritten cannot be parsed; it *)
(* is put aside, and an empty one takes its place.                          *)
ReadDoc == IF file.writers = {} THEN file.doc ELSE EmptyDoc

Recovered == [doc |-> ReadDoc, writers |-> {}, mixed |-> FALSE]

(* writeFile empties the document before it writes: two that write at a     *)
(* time may leave one that cannot be parsed.                                *)
Emptied(o) ==
  [file EXCEPT !.writers = @ \cup {o}, !.mixed = file.writers # {}]

(* A rewrite whose document has been put aside is lost.  A document that    *)
(* cannot be parsed is the empty one of the next load.                      *)
Rewritten(o, doc) ==
  IF o \in file.writers THEN [file EXCEPT !.doc = doc, !.writers = @ \ {o}] ELSE file

Readable(o) == {op[o].next} \cup (IF file.mixed THEN {EmptyDoc} ELSE {})

(* What saveServers and saveSnapshotRevision write.                         *)
WithServer(o) ==
  [snapshot |-> op[o].rev,
   servers  |-> [op[o].doc.servers EXCEPT ![op[o].server] =
                   IF op[o].kind = "delete" THEN Absent
                   ELSE [on |-> op[o].kind = "on", edit |-> op[o].edit]]]

WithRevision(o) == [ReadDoc EXCEPT !.snapshot = op[o].rev]

-----------------------------------------------------------------------------
(* Connectors (connectors/stdio.ts).                                        *)

(* Mutant: the process is killed, the session stays ready.                  *)
KilledStillReady(cn) == [cn EXCEPT !.child = FALSE, !.pending = {}]

(* stdioDisposeChild.                                                       *)
Killed(cn) == [cn EXCEPT !.child = FALSE, !.ready = FALSE, !.pending = {}]

(* The child is spawned and asked to introduce itself and its tools.        *)
Spawned(cn, task) == [cn EXCEPT !.child = TRUE, !.ready = FALSE, !.pending = {task},
                                !.lost = @ \/ cn.child]

(* createConnectorSuccess.                                                  *)
Connected(cn, task) == [cn EXCEPT !.ready = TRUE, !.tools = TRUE, !.pending = @ \ {task}]

(* createConnectorFailure: the tools listed before are kept.                *)
Failure(cn, retryable) == IF cn.tools /\ retryable THEN "degraded" ELSE "error"

(* hubScheduleReconnect.                                                    *)
Rescheduled(r, retryable) ==
  IF retryable /\ ~r.timer /\ r.attempts < MaxReconnects
  THEN [r EXCEPT !.timer = TRUE, !.attempts = @ + 1] ELSE r

(* The answer of the child, or its failure: what was started or listed with *)
(* a child that has gone has failed.                                        *)
Answer(c, task, ok, retryable) ==
  /\ states' = [states EXCEPT ![conn[c].server] =
                  IF ok THEN "connected" ELSE Failure(conn[c], retryable)]
  /\ conn' = [conn EXCEPT ![c] = IF ok THEN Connected(@, task) ELSE Killed(@)]
  /\ \/ ok /\ task \in conn[c].pending /\ retryable = FALSE /\ UNCHANGED faults
     \/ ~ok /\ task \notin conn[c].pending /\ retryable /\ UNCHANGED faults
     \/ ~ok /\ task \in conn[c].pending /\ Fault

(* external: the process exits.                                             *)
ChildExits(c) ==
  /\ conn[c].child
  /\ Fault
  /\ conn' = [conn EXCEPT ![c] = Killed(@)]
  /\ states' = IF conn[c].ready
               THEN [states EXCEPT ![conn[c].server] = Failure(conn[c], TRUE)] ELSE states
  /\ UNCHANGED <<file, runtime, entries, op, part, retry, sink, begun, overlaps, raced,
                 settled>>

-----------------------------------------------------------------------------
(* The reconnect attempts of a connector.  The timer is free again as soon  *)
(* as it has fired, so that attempts may overlap.                           *)

Released(c) ==
  \E o \in Ops, s \in Servers : part[o][s].conn = c /\ part[o][s].step \in {"stop", "restart"}

TimerFires(c) ==
  /\ retry[c].timer
  /\ \/ /\ entries[conn[c].server] # c
        /\ retry' = [retry EXCEPT ![c].timer = FALSE]
        /\ UNCHANGED <<conn, states, raced>>
     \/ /\ entries[conn[c].server] = c
        /\ retry' = [retry EXCEPT ![c].timer = FALSE,
                                  ![c].steps[retry[c].attempts] =
                                    IF conn[c].child THEN "restart" ELSE "ask"]
        /\ conn' = [conn EXCEPT ![c] = IF conn[c].child THEN Killed(@)
                                       ELSE Spawned(@, retry[c].attempts)]
        /\ states' = [states EXCEPT ![conn[c].server] = "connecting"]
        /\ raced' = (raced \/ conn[c].child \/ Released(c))
  /\ UNCHANGED <<file, runtime, entries, op, part, sink, begun, faults, overlaps, settled>>

RetrySpawns(c, k) ==
  /\ retry[c].steps[k] = "restart"
  /\ retry' = [retry EXCEPT ![c].steps[k] = "ask"]
  /\ conn' = [conn EXCEPT ![c] = Spawned(@, k)]
  /\ UNCHANGED <<file, runtime, entries, states, op, part, sink, begun, faults, overlaps,
                 raced, settled>>

RetryAnswered(c, k) ==
  /\ retry[c].steps[k] = "ask"
  /\ \E ok, retryable \in BOOLEAN :
       /\ Answer(c, k, ok, retryable)
       /\ retry' = [retry EXCEPT ![c] = Rescheduled([@ EXCEPT !.steps[k] = "none"], retryable)]
  /\ UNCHANGED <<file, runtime, entries, op, part, sink, begun, overlaps, raced, settled>>

-----------------------------------------------------------------------------
(* The hub (connector-hub.ts): an operation brings each server in line with *)
(* the document it has read.                                                *)

Wanted(o, s) == op[o].doc.servers[s]

(* Mutant: the settings of a running server are not compared.               *)
InLineIfStarted(o, s) == Wanted(o, s).on /\ entries[s] # None

(* isSameServerConfig.                                                      *)
InLine(o, s) ==
  /\ Wanted(o, s).on
  /\ entries[s] # None
  /\ conn[entries[s]].edit = Wanted(o, s).edit

(* Another operation is at work on the server.                              *)
Crossed(o, s) == \E p \in Ops \ {o} : part[p][s].step \in Engaged

(* Connectors of servers that have gone are removed first.                  *)
Turn(o, s) ==
  /\ part[o][s].step = "due"
  /\ Wanted(o, s) # Absent =>
       \A t \in Servers : Wanted(o, t) = Absent => part[o][t].step = "done"

Keep(o, s) ==
  /\ Turn(o, s)
  /\ InLine(o, s) \/ (Wanted(o, s) = Absent /\ op[o].kind # "delete" /\ entries[s] = None)
  /\ part' = [part EXCEPT ![o][s] = NoPart]
  /\ UNCHANGED <<file, runtime, entries, conn, states, op, retry, sink, begun, faults,
                 overlaps, raced, settled>>

(* connector.stop with a child to wait for.                                 *)
Stop(o, s) ==
  /\ Turn(o, s)
  /\ ~InLine(o, s)
  /\ entries[s] # None
  /\ conn[entries[s]].child
  /\ conn' = [conn EXCEPT ![entries[s]] = Killed(@)]
  /\ part' = [part EXCEPT ![o][s] = [step |-> "stop", conn |-> entries[s]]]
  /\ raced' = (raced \/ Crossed(o, s))
  /\ UNCHANGED <<file, runtime, entries, states, op, retry, sink, begun, faults, overlaps,
                 settled>>

(* Nothing has to be stopped any more: the entry of the server is dropped,  *)
(* whichever it is, and an enabled server gets a new one.                   *)
Stopped(o, s) ==
  \/ part[o][s].step = "stop"
  \/ /\ Turn(o, s)
     /\ ~InLine(o, s)
     /\ entries[s] # None => ~conn[entries[s]].child

(* Mutant: a disabled server loses its entry without waiting for a stop.    *)
DropUnstopped(o, s) ==
  /\ Turn(o, s)
  /\ ~Wanted(o, s).on
  /\ Wanted(o, s) = Absent => entries[s] # None \/ op[o].kind = "delete"
  /\ entries' = [entries EXCEPT ![s] = None]
  /\ states' = [states EXCEPT ![s] = IF Wanted(o, s) = Absent THEN "none" ELSE "disabled"]
  /\ part' = [part EXCEPT ![o][s] = NoPart]
  /\ raced' = (raced \/ Crossed(o, s))
  /\ UNCHANGED <<file, runtime, conn, op, retry, sink, begun, faults, overlaps, settled>>

Drop(o, s) ==
  /\ Stopped(o, s)
  /\ ~Wanted(o, s).on
  /\ Wanted(o, s) = Absent => entries[s] # None \/ op[o].kind = "delete"
  /\ entries' = [entries EXCEPT ![s] = None]
  /\ states' = [states EXCEPT ![s] = IF Wanted(o, s) = Absent THEN "none" ELSE "disabled"]
  /\ part' = [part EXCEPT ![o][s] = NoPart]
  /\ raced' = (raced \/ Crossed(o, s))
  /\ UNCHANGED <<file, runtime, conn, op, retry, sink, begun, faults, overlaps, settled>>

(* The connector made next: which of the unused ones it is is no matter.    *)
NextConnector ==
  LET unused == {c \in Connectors : conn[c] = Unused}
  IN  {c \in unused : c = CHOOSE d \in unused : TRUE}

Start(o, s) ==
  /\ Stopped(o, s)
  /\ Wanted(o, s).on
  /\ \E c \in NextConnector :
       /\ entries' = [entries EXCEPT ![s] = c]
       /\ conn' = [conn EXCEPT ![c] =
            Spawned([Unused EXCEPT !.server = s, !.edit = Wanted(o, s).edit], o)]
       /\ part' = [part EXCEPT ![o][s] = [step |-> "ask", conn |-> c]]
  /\ states' = [states EXCEPT ![s] = "connecting"]
  /\ raced' = (raced \/ Crossed(o, s))
  /\ UNCHANGED <<file, runtime, op, retry, sink, begun, faults, overlaps, settled>>

(* hubApplyConnectorResult.                                                 *)
Answered(o, s) ==
  LET c == part[o][s].conn
  IN  /\ part[o][s].step = "ask"
      /\ \E ok, retryable \in BOOLEAN :
           /\ Answer(c, o, ok, retryable)
           /\ retry' = [retry EXCEPT ![c] = Rescheduled(@, retryable)]
           /\ op' = [op EXCEPT ![o].ok = @ \/ (ok /\ op[o].pc = "refresh")]
      /\ part' = [part EXCEPT ![o][s] = NoPart]
      /\ UNCHANGED <<file, runtime, entries, sink, begun, overlaps, raced, settled>>

(* connector.refreshCatalog: the tools are listed, or the child is started  *)
(* again.                                                                   *)
List(o, s) ==
  LET c == part[o][s].conn
  IN  /\ part[o][s].step = "list"
      /\ IF conn[c].ready
         THEN /\ conn' = [conn EXCEPT ![c].pending = @ \cup {o}]
              /\ part' = [part EXCEPT ![o][s].step = "ask"]
              /\ UNCHANGED states
         ELSE /\ conn' = [conn EXCEPT ![c] = IF conn[c].child THEN Killed(@) ELSE Spawned(@, o)]
              /\ part' = [part EXCEPT ![o][s].step = IF conn[c].child THEN "restart" ELSE "ask"]
              /\ states' = [states EXCEPT ![s] = "connecting"]
      /\ UNCHANGED <<file, runtime, entries, op, retry, sink, begun, faults, overlaps, raced,
                     settled>>

Respawn(o, s) ==
  LET c == part[o][s].conn
  IN  /\ part[o][s].step = "restart"
      /\ conn' = [conn EXCEPT ![c] = Spawned(@, o)]
      /\ part' = [part EXCEPT ![o][s].step = "ask"]
      /\ UNCHANGED <<file, runtime, entries, states, op, retry, sink, begun, faults, overlaps,
                     raced, settled>>

-----------------------------------------------------------------------------
(* Operations (service.ts).                                                 *)

PartsDone(o) == \A s \in Servers : part[o][s].step = "done"

Due(servers) == [s \in Servers |-> IF s \in servers THEN [NoPart EXCEPT !.step = "due"] ELSE NoPart]

Begin(o, kind, s) ==
  /\ op[o].pc = "idle"
  /\ begun < MaxBegun
  /\ Active # {} => overlaps < MaxOverlaps
  /\ begun' = begun + 1
  /\ op' = [p \in Ops |->
       IF p = o THEN [NoOp EXCEPT !.kind = kind, !.pc = "load", !.server = s,
                                  !.edit = IF kind \in {"on", "off"} THEN begun + 2 ELSE 0,
                                  !.alone = Active = {}]
       ELSE [op[p] EXCEPT !.alone = FALSE]]
  /\ overlaps' = IF Active = {} THEN overlaps ELSE overlaps + 1
  /\ settled' = FALSE
  /\ UNCHANGED <<file, runtime, part, sink, faults, hub>>

(* The operation returns.                                                   *)
Ended(o, reconciled) ==
  /\ op' = [op EXCEPT ![o] = NoOp]
  /\ settled' = (op[o].alone /\ reconciled)

(* Mutant: the revision of the document counts.                             *)
RevisionOfDoc(doc) == doc.snapshot

(* serviceResolveRuntimeRevisions with what store.load returned.            *)
Revision(doc) == Larger(runtime, doc.snapshot)

Load(o) ==
  LET doc    == ReadDoc
      stored == doc.servers[op[o].server]
      read   == [op[o] EXCEPT !.doc = doc, !.rev = Revision(doc), !.was = stored.on]
  IN  /\ op[o].pc = "load"
      /\ file' = Recovered
      /\ runtime' = Revision(doc)
      /\ \/ /\ op[o].kind \in {"on", "off"} \/ (op[o].kind = "delete" /\ stored # Absent)
            /\ op' = [op EXCEPT ![o] = [read EXCEPT !.pc = "write"]]
            /\ UNCHANGED <<part, settled>>
         \/ /\ op[o].kind \in {"load", "refresh", "warmup", "execute"}
               \/ (op[o].kind = "test" /\ stored.on)
            /\ op' = [op EXCEPT ![o] = [read EXCEPT !.pc = "hub"]]
            /\ part' = [part EXCEPT ![o] = Due(Servers)]
            /\ UNCHANGED settled
         \/ /\ \/ op[o].kind \in {"on", "off", "delete"} /\ stored = Absent
               \/ op[o].kind = "test" /\ ~stored.on
            /\ Ended(o, FALSE)
            /\ UNCHANGED part
      /\ UNCHANGED <<sink, begun, faults, overlaps, hub>>

(* saveServers and saveSnapshotRevision read the document again,            *)
Reread(o) ==
  /\ op[o].pc \in {"write", "save"}
  /\ file' = Recovered
  /\ op' = [op EXCEPT ![o].pc = IF op[o].pc = "write" THEN "open" ELSE "reopen",
                      ![o].next = IF op[o].pc = "write" THEN WithServer(o) ELSE WithRevision(o)]
  /\ UNCHANGED <<runtime, part, sink, begun, faults, overlaps, settled, hub>>

(* and rewrite it.                                                          *)
Open(o) ==
  /\ op[o].pc \in {"open", "reopen"}
  /\ file' = Emptied(o)
  /\ op' = [op EXCEPT ![o].pc = IF op[o].pc = "open" THEN "writing" ELSE "saving"]
  /\ UNCHANGED <<runtime, part, sink, begun, faults, overlaps, settled, hub>>

Written(o) ==
  /\ op[o].pc = "writing"
  /\ \E doc \in Readable(o) : file' = Rewritten(o, doc)
  /\ op' = [op EXCEPT ![o].pc = "hub", ![o].doc = op[o].next]
  /\ part' = [part EXCEPT ![o] = Due(IF op[o].kind = "on" THEN Servers ELSE {op[o].server})]
  /\ UNCHANGED <<runtime, sink, begun, faults, overlaps, settled, hub>>

Saved(o) ==
  /\ op[o].pc = "saving"
  /\ \E doc \in Readable(o) : file' = Rewritten(o, doc)
  /\ op' = [op EXCEPT ![o].pc = "publish", ![o].doc = op[o].next]
  /\ UNCHANGED <<runtime, part, sink, begun, faults, overlaps, settled, hub>>

(* A file cannot be read or opened.  The operation is refused; only a       *)
(* revision that could not be stored is published all the same.             *)
Refuse(o) ==
  /\ op[o].pc \in {"load", "write", "open", "save", "reopen"}
  /\ Fault
  /\ file' \in IF op[o].pc \in {"open", "reopen"} THEN {file} ELSE {file, Recovered}
  /\ IF op[o].pc \in {"save", "reopen"}
     THEN op' = [op EXCEPT ![o].pc = "publish"] /\ UNCHANGED settled
     ELSE Ended(o, FALSE)
  /\ UNCHANGED <<runtime, part, sink, begun, overlaps, hub>>

(* A rewrite fails when the old document has gone.                          *)
Tear(o) ==
  /\ op[o].pc \in {"writing", "saving"}
  /\ Fault
  /\ file' = Rewritten(o, EmptyDoc)
  /\ IF op[o].pc = "saving"
     THEN op' = [op EXCEPT ![o].pc = "publish", ![o].alone = FALSE] /\ UNCHANGED settled
     ELSE Ended(o, FALSE)
  /\ UNCHANGED <<runtime, part, sink, begun, overlaps, hub>>

(* hubRefreshCatalog: the entries of the enabled servers asked for; a test  *)
(* needs none when the server is connected.                                 *)
Targets(o) ==
  {s \in Servers :
     /\ entries[s] # None
     /\ op[o].doc.servers[s].on
     /\ \/ op[o].kind = "warmup"
        \/ op[o].kind \in {"refresh", "test"} /\ s = op[o].server
     /\ op[o].kind = "test" => states[s] # "connected"}

Refresh(o) ==
  /\ op[o].pc = "hub"
  /\ PartsDone(o)
  /\ op[o].kind \in {"refresh", "warmup", "test"}
  /\ op' = [op EXCEPT ![o].pc = "refresh", ![o].asked = Targets(o) # {}]
  /\ part' = [part EXCEPT ![o] = [s \in Servers |->
       IF s \in Targets(o) THEN [step |-> "list", conn |-> entries[s]] ELSE NoPart]]
  /\ raced' = (raced \/ \E s \in Targets(o) : Crossed(o, s))
  /\ UNCHANGED <<file, runtime, entries, conn, states, retry, sink, begun, faults, overlaps,
                 settled>>

(* Whether an operation publishes a new revision.                           *)
Bumps(o) ==
  LET s == op[o].server
  IN  CASE op[o].kind = "load" -> FALSE
        [] op[o].kind = "on" -> states[s] \in {"connected", "degraded", "disabled", "error"}
        [] op[o].kind \in {"off", "delete"} -> op[o].was
        [] op[o].kind = "refresh" -> op[o].ok
        [] op[o].kind = "warmup" -> op[o].asked
        [] op[o].kind = "test" -> TRUE

(* A load keeps the revision of the service, and so does a warmup that finds *)
(* no enabled server.                                                       *)
Assigns(o) ==
  /\ op[o].kind # "load"
  /\ op[o].kind = "warmup" => \E s \in Servers : op[o].doc.servers[s].on

(* A test that ends with the tools of the server.                           *)
Tested(o) == op[o].ok \/ states[op[o].server] \in {"connected", "degraded"}

(* serviceBumpRuntimeSnapshotRevision, and whether it has to be stored.     *)
Commit(o) ==
  LET next == IF Bumps(o) THEN Larger(runtime, op[o].rev) + 1 ELSE op[o].rev
  IN  /\ op[o].pc = IF op[o].kind \in {"refresh", "warmup", "test"} THEN "refresh" ELSE "hub"
      /\ PartsDone(o)
      /\ op[o].kind # "execute"
      /\ op[o].kind = "test" => Tested(o)
      /\ runtime' = IF Assigns(o) THEN next ELSE runtime
      /\ op' = [op EXCEPT ![o].rev = next,
                          ![o].pc = IF op[o].doc.snapshot # next THEN "save" ELSE "publish"]
      /\ UNCHANGED <<file, part, sink, begun, faults, overlaps, settled, hub>>

(* A tool call ends with the connector, a refresh of a server that is not   *)
(* there with a failure, and so does a test that did not connect.           *)
Return(o) ==
  /\ PartsDone(o)
  /\ \/ op[o].pc = "hub" /\ op[o].kind = "execute"
     \/ /\ op[o].pc = "hub"
        /\ op[o].kind = "refresh"
        /\ op[o].doc.servers[op[o].server] = Absent
     \/ /\ op[o].pc = "refresh"
        /\ op[o].kind = "test"
        /\ ~Tested(o)
  /\ Ended(o, TRUE)
  /\ UNCHANGED <<file, runtime, part, sink, begun, faults, overlaps, hub>>

(* createMcpCapabilitySnapshot: the servers whose tools are offered.        *)
Offered(o) ==
  {s \in Servers : op[o].doc.servers[s].on /\ entries[s] # None /\ conn[entries[s]].tools}

(* A snapshot that could not be written is logged.                          *)
Publish(o) ==
  /\ op[o].pc = "publish"
  /\ \/ /\ sink' = [revision |-> op[o].rev, tools |-> Offered(o)]
        /\ UNCHANGED faults
     \/ Fault /\ UNCHANGED sink
  /\ Ended(o, op[o].kind \notin {"off", "delete"})
  /\ UNCHANGED <<file, runtime, part, begun, overlaps, hub>>

-----------------------------------------------------------------------------
Hub(o, s) == Keep(o, s) \/ Stop(o, s) \/ Drop(o, s) \/ Start(o, s) \/ Answered(o, s)
             \/ List(o, s) \/ Respawn(o, s)

Service(o) == Load(o) \/ Reread(o) \/ Open(o) \/ Written(o) \/ Saved(o) \/ Refuse(o) \/ Tear(o)
              \/ Refresh(o) \/ Commit(o) \/ Return(o) \/ Publish(o)

Process(c) == ChildExits(c) \/ TimerFires(c)
              \/ \E k \in Attempts : RetrySpawns(c, k) \/ RetryAnswered(c, k)

Next == \/ \E o \in Ops, s \in Servers : Hub(o, s) \/ \E kind \in Kinds : Begin(o, kind, s)
        \/ \E o \in Ops : Service(o)
        \/ \E c \in Connectors : Process(c)

Spec == Init /\ [][Next]_vars

-----------------------------------------------------------------------------
(* Correctness.                                                             *)

(* The document, the hub and the operations have their types.               *)
TypeOK ==
  /\ file.doc \in Doc
  /\ file.writers \subseteq Ops
  /\ entries \in [Servers -> Connectors \cup {None}]
  /\ states \in [Servers -> State]
  /\ \A c \in Connectors : /\ conn[c].pending \subseteq Tasks
                           /\ conn[c].ready => conn[c].child
  /\ \A s \in Servers : entries[s] # None => conn[entries[s]].server = s

(* Whatever overlapping operations, failed starts and failed or torn writes *)
(* have left behind, an operation that reconciles, runs alone and does not  *)
(* tear the document itself repairs it: the hub has a connector with the    *)
(* stored settings for the enabled servers, and for no other.               *)
ReconcileRepairs ==
  settled => \A s \in Servers :
    /\ entries[s] # None <=> file.doc.servers[s].on
    /\ entries[s] # None => conn[entries[s]].edit = file.doc.servers[s].edit

(* However operations overlap: as long as no two of them start, stop or     *)
(* list the connector of one server at a time, and no reconnect falls into  *)
(* a time its connector runs or is being stopped, every server process      *)
(* belongs to the entry that stops it, and none is forgotten.               *)
NoProcessIsLost ==
  ~raced => \A c \in Connectors :
    /\ ~conn[c].lost
    /\ conn[c].child => entries[conn[c].server] = c

(* While operations do not overlap, the revision of the service only grows, *)
(* and it is the one that is published, also when it could not be stored:   *)
(* no two changes of one run of the application share a revision.           *)
RevisionsAdvance ==
  [][overlaps' = 0 =>
       /\ runtime' >= runtime
       /\ sink' # sink => sink'.revision = runtime']_vars
================================================================================
