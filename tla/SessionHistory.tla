----------------------------- MODULE SessionHistory -----------------------------
(***************************************************************************)
(* The session list of the assistant workspace and the history it is       *)
(* rebuilt from (useAssistantWorkspaceState.ts, assistant-history-state.ts,*)
(* useAssistantSessionCreation.ts): restoring the list with retries,       *)
(* loading the detail of the session on screen, making it live, and        *)
(* creating, copying and deleting sessions.                                *)
(*                                                                         *)
(* Requests go to the runtime, which answers in any order; every answer is *)
(* read at one instant and arrives at a later one.  A request carries a    *)
(* version, and an answer that is not the latest is dropped.  An action is *)
(* one callback with the effects of its commit: the entries follow the     *)
(* session list, and the shell state is saved.                             *)
(***************************************************************************)
EXTENDS Naturals, FiniteSets

CONSTANTS Threads,
          NoThread,
          MaxRuns,     \* bound: runs of all threads together
          MaxFaults,   \* bound: failed list requests, failed loads, reconnections
          MaxChoices,  \* bound: sessions opened, created, copied or deleted
          MaxLists,    \* bound: list requests in flight
          MaxDetails   \* bound: detail requests in flight

ASSUME ThreadAssumption == NoThread \notin Threads
ASSUME BoundAssumption  == {MaxRuns, MaxFaults, MaxChoices} \subseteq Nat
ASSUME SlotAssumption   == {MaxLists, MaxDetails} \subseteq Nat \ {0}

VARIABLES
  server,   \* external: the threads of the runtime, and the runs each has had
  list,     \* the sessions shown, those with live capabilities, the active one
  entry,    \* sessionHistoryById
  saved,    \* the shell state in local storage
  restore,  \* the restore effect: its outcome for the current key, its timer
  lists,    \* the list requests in flight
  details,  \* the detail requests in flight
  op,       \* a creation, copy or deletion in flight
  told,     \* runs the panel has reported as settled, per thread
  faults, choices,
  deleted,  \* threads whose deletion has been confirmed
  raced,    \* of these, the ones confirmed while a list request was in flight
  chosen,   \* the live session the user last opened
  stale     \* sessions that were out of sight when a run of theirs settled
            \* while their detail was being loaded

vars == <<server, list, entry, saved, restore, lists, details, op, told, faults,
          choices, deleted, raced, chosen, stale>>

ListSlots   == 1 .. MaxLists
DetailSlots == 1 .. MaxDetails

-----------------------------------------------------------------------------
(* Types.                                                                   *)

Status == {"idle", "loading", "ready", "error"}

NoEntry == [there |-> FALSE, persisted |-> FALSE, detail |-> "idle", runs |-> 0,
            caps |-> "idle"]

Entry == [there : BOOLEAN, persisted : BOOLEAN, detail : Status, runs : 0 .. MaxRuns,
          caps : Status]

(* createAssistantSessionHistoryState: of a stored thread, and of a session *)
(* that only lives here so far.                                             *)
StoredEntry == [NoEntry EXCEPT !.there = TRUE, !.persisted = TRUE]
LiveEntry   == [NoEntry EXCEPT !.there = TRUE, !.caps = "ready"]

FreeList   == [pc |-> "free", latest |-> FALSE, preferred |-> NoThread, cache |-> {},
               marked |-> FALSE, ok |-> TRUE, answer |-> {}]
FreeDetail == [pc |-> "free", latest |-> FALSE, thread |-> NoThread, ok |-> TRUE, runs |-> 0]
NoOp       == [kind |-> "none", thread |-> NoThread, pc |-> "idle"]

Shell(active, cache) == [active |-> active, cache |-> cache]

(* Local storage has the list of the last time the application ran.        *)
Init ==
  /\ \E here \in SUBSET Threads, active \in Threads \cup {NoThread} :
       /\ active \in here \cup {NoThread}
       /\ server = [there |-> here, used |-> here, runs |-> [t \in Threads |-> 0]]
       /\ saved = Shell(active, here)
  /\ list = [sessions |-> {}, live |-> {}, active |-> NoThread]
  /\ entry = [t \in Threads |-> NoEntry]
  /\ restore = [due |-> TRUE, outcome |-> "no", timer |-> FALSE]
  /\ lists = [i \in ListSlots |-> FreeList]
  /\ details = [i \in DetailSlots |-> FreeDetail]
  /\ op = NoOp
  /\ told = [t \in Threads |-> 0]
  /\ faults = 0
  /\ choices = 0
  /\ deleted = {}
  /\ raced = {}
  /\ chosen = NoThread
  /\ stale = {}

Fault == faults < MaxFaults /\ faults' = faults + 1

Choice == choices < MaxChoices /\ choices' = choices + 1

(* Slots only number the requests in flight.                                *)
FirstFree(requests, i) ==
  /\ requests[i].pc = "free"
  /\ \A j \in DOMAIN requests : j < i => requests[j].pc # "free"

HistoryShell(t) == t \in list.sessions \ list.live

-----------------------------------------------------------------------------
(* What follows a change of the session list.                               *)

(* Mutant: a session without an entry gets none.                            *)
SyncedDropping(entries, sessions) ==
  [t \in Threads |-> IF t \in sessions THEN entries[t] ELSE NoEntry]

(* A new list: entries are made for sessions without one and dropped with   *)
(* their session.                                                           *)
Synced(entries, sessions) ==
  [t \in Threads |-> IF t \notin sessions THEN NoEntry
                     ELSE IF entries[t].there THEN entries[t] ELSE LiveEntry]

(* The shell state is saved from the list and the entries; an empty list    *)
(* leaves what was saved before.                                            *)
SavedFrom(shell, l, entries) ==
  IF l.sessions = {} THEN Shell(shell.active, shell.cache)
  ELSE Shell(l.active, {t \in l.sessions : entries[t].persisted \/ t \notin l.live})

(* The detail effect gives the session on screen a new version as soon as   *)
(* its detail is idle: earlier requests of it are out of date.              *)
Superseded(requests, active, entries) ==
  [i \in DetailSlots |->
     IF /\ active # NoThread
        /\ requests[i].thread = active
        /\ entries[active].persisted
        /\ entries[active].detail = "idle"
     THEN [requests[i] EXCEPT !.latest = FALSE] ELSE requests[i]]

(* A callback sets the list and the entries; the effects do the rest.       *)
CommitWith(l, entries, shell, requests) ==
  /\ list' = l
  /\ entry' = entries
  /\ saved' = SavedFrom(shell, l, entries)
  /\ details' = Superseded(requests, l.active, entries)

Commit(l, entries, shell) == CommitWith(l, Synced(entries, l.sessions), shell, details)

(* markUserLiveSessionSelection: requests under way see that the user chose.*)
Marked == [i \in ListSlots |-> IF lists[i].pc = "free" THEN lists[i]
                               ELSE [lists[i] EXCEPT !.marked = TRUE]]

InFlight == {i \in ListSlots : lists[i].pc # "free" /\ lists[i].latest}

-----------------------------------------------------------------------------
(* Restoring the list.                                                      *)

(* The effect runs for a new key: requests of earlier keys are cancelled.   *)
ListAsk(i) ==
  /\ restore.due
  /\ FirstFree(lists, i)
  /\ restore' = [restore EXCEPT !.due = FALSE]
  /\ lists' = [j \in ListSlots |->
       IF j = i THEN [FreeList EXCEPT !.pc = "asked", !.latest = TRUE,
                                      !.preferred = saved.active, !.cache = saved.cache]
       ELSE [lists[j] EXCEPT !.latest = FALSE]]
  /\ UNCHANGED <<server, list, entry, saved, details, op, told, faults, choices,
                 deleted, raced, chosen, stale>>

ListRead(i) ==
  /\ lists[i].pc = "asked"
  /\ \/ /\ lists' = [lists EXCEPT ![i].pc = "answered", ![i].answer = server.there]
        /\ UNCHANGED faults
     \/ Fault /\ lists' = [lists EXCEPT ![i].pc = "answered", ![i].ok = FALSE]
  /\ UNCHANGED <<server, list, entry, saved, restore, details, op, told, choices,
                 deleted, raced, chosen, stale>>

(* Mutant: the user's choice is not looked at.                              *)
RestoredActiveUnprotected(request, restored) ==
  IF request.preferred \in restored THEN {request.preferred}
  ELSE IF restored # {} THEN restored
  ELSE {list.active}

(* resolveRestoreActiveSessionId.  The order of the list is left open.      *)
RestoredActive(request, restored) ==
  LET live == list.active \in list.live
      kept == live /\ (list.active \notin restored \/ request.marked)
      merged == restored \cup list.sessions
  IN  CASE kept -> {list.active}
        [] ~kept /\ request.preferred \in restored -> {request.preferred}
        [] ~kept /\ request.preferred \notin restored /\ restored # {} -> restored
        [] ~kept /\ restored = {} ->
             IF list.active \in merged THEN {list.active}
             ELSE IF merged # {} THEN merged ELSE {NoThread}

(* resolveRestoredHistoryEntry.                                             *)
RestoredEntry(t, restored) ==
  LET e == entry[t]
  IN  CASE t \notin restored -> e
        [] t \in restored /\ ~e.there -> StoredEntry
        [] OTHER -> [e EXCEPT !.persisted = TRUE,
                              !.caps = IF ~e.persisted /\ HistoryShell(t) THEN "idle" ELSE @]

(* An empty list is provisional: the cached summaries are shown, and the    *)
(* list is asked for again.                                                 *)
ListReturns(i) ==
  LET request  == lists[i]
      empty    == request.answer = {}
      restored == IF empty THEN request.cache ELSE request.answer
  IN  /\ request.pc = "answered"
      /\ request.latest
      /\ request.ok
      /\ \E active \in RestoredActive(request, restored) :
           Commit([list EXCEPT !.sessions = @ \cup restored, !.active = active],
                  [t \in Threads |-> RestoredEntry(t, restored)],
                  saved)
      /\ restore' = [due     |-> restore.due,
                     outcome |-> IF restore.due THEN "no"
                                 ELSE IF empty THEN "provisional" ELSE "yes",
                     timer   |-> empty]
      /\ lists' = [lists EXCEPT ![i] = FreeList]
      /\ UNCHANGED <<server, op, told, faults, choices, deleted, raced, chosen, stale>>

(* Mutant: a failed list is not asked for again.                            *)
ListFailsForGood(i) ==
  /\ lists[i].pc = "answered"
  /\ lists[i].latest
  /\ ~lists[i].ok
  /\ restore' = [restore EXCEPT !.outcome = "no"]
  /\ lists' = [lists EXCEPT ![i] = FreeList]
  /\ UNCHANGED <<server, list, entry, saved, details, op, told, faults, choices,
                 deleted, raced, chosen, stale>>

ListFails(i) ==
  /\ lists[i].pc = "answered"
  /\ lists[i].latest
  /\ ~lists[i].ok
  /\ restore' = [restore EXCEPT !.outcome = "no", !.timer = TRUE]
  /\ lists' = [lists EXCEPT ![i] = FreeList]
  /\ UNCHANGED <<server, list, entry, saved, details, op, told, faults, choices,
                 deleted, raced, chosen, stale>>

ListDropped(i) ==
  /\ lists[i].pc = "answered"
  /\ ~lists[i].latest
  /\ lists' = [lists EXCEPT ![i] = FreeList]
  /\ UNCHANGED <<server, list, entry, saved, restore, details, op, told, faults,
                 choices, deleted, raced, chosen, stale>>

NewKey == [due |-> TRUE, outcome |-> "no", timer |-> restore.timer]

RetryTimer ==
  /\ restore.timer
  /\ restore' = [NewKey EXCEPT !.timer = FALSE]
  /\ UNCHANGED <<server, list, entry, saved, lists, details, op, told, faults,
                 choices, deleted, raced, chosen, stale>>

(* The connection state changes: the request under way is cancelled, and a  *)
(* key that has not been restored is asked for again.                       *)
Reconnect ==
  /\ Fault
  /\ restore' = [restore EXCEPT !.due = @ \/ restore.outcome = "no"]
  /\ lists' = [i \in ListSlots |-> [lists[i] EXCEPT !.latest = FALSE]]
  /\ UNCHANGED <<server, list, entry, saved, details, op, told, choices, deleted,
                 raced, chosen, stale>>

-----------------------------------------------------------------------------
(* The session on screen: its capabilities and its detail.                  *)

CapsAsk(t) ==
  /\ t = list.active
  /\ HistoryShell(t)
  /\ entry[t].persisted
  /\ entry[t].caps = "idle"
  /\ entry' = [entry EXCEPT ![t].caps = "loading"]
  /\ UNCHANGED <<server, list, saved, restore, lists, details, op, told, faults,
                 choices, deleted, raced, chosen, stale>>

CapsReturn(t) ==
  /\ entry[t].caps = "loading"
  /\ \/ /\ list' = [list EXCEPT !.live = @ \cup ({t} \cap list.sessions)]
        /\ entry' = [entry EXCEPT ![t].caps = "ready"]
        /\ UNCHANGED faults
     \/ /\ Fault
        /\ entry' = [entry EXCEPT ![t].caps = "error"]
        /\ UNCHANGED list
  /\ UNCHANGED <<server, saved, restore, lists, details, op, told, choices, deleted,
                 raced, chosen, stale>>

DetailAsk(t, i) ==
  /\ t = list.active
  /\ entry[t].persisted
  /\ entry[t].detail = "idle"
  /\ FirstFree(details, i)
  /\ entry' = [entry EXCEPT ![t].detail = "loading"]
  /\ details' = [j \in DetailSlots |->
       IF j = i THEN [FreeDetail EXCEPT !.pc = "asked", !.latest = TRUE, !.thread = t]
       ELSE IF details[j].thread = t THEN [details[j] EXCEPT !.latest = FALSE]
       ELSE details[j]]
  /\ UNCHANGED <<server, list, saved, restore, lists, op, told, faults, choices,
                 deleted, raced, chosen, stale>>

DetailRead(i) ==
  LET t == details[i].thread
  IN  /\ details[i].pc = "asked"
      /\ details' = [details EXCEPT ![i].pc = "answered",
                                    ![i].ok = t \in server.there,
                                    ![i].runs = server.runs[t]]
      /\ UNCHANGED <<server, list, entry, saved, restore, lists, op, told, faults,
                     choices, deleted, raced, chosen, stale>>

(* applyAssistantSessionHistoryDetail.                                      *)
Loaded(t, runs) ==
  [entry EXCEPT ![t] = [@ EXCEPT !.there = TRUE, !.persisted = TRUE, !.detail = "ready",
                                 !.runs = runs]]

(* Mutant: an answer of an earlier request is applied as well.              *)
DetailReturnsAnyVersion(i) ==
  LET t == details[i].thread
  IN  /\ details[i].pc = "answered"
      /\ CommitWith(list, Synced(Loaded(t, details[i].runs), list.sessions), saved,
                    [details EXCEPT ![i] = FreeDetail])
      /\ UNCHANGED <<server, restore, lists, op, told, faults, choices, deleted, raced,
                     chosen, stale>>

(* The answer is applied whatever the status is by now, idle included.  It  *)
(* changes the list as well, an error does not: the entry an error makes    *)
(* for a session that has gone stays until the list changes.                *)
DetailReturns(i) ==
  LET t == details[i].thread
  IN  /\ details[i].pc = "answered"
      /\ details[i].latest
      /\ CommitWith(list,
                    IF details[i].ok THEN Synced(Loaded(t, details[i].runs), list.sessions)
                    ELSE [entry EXCEPT ![t] = [@ EXCEPT !.there = TRUE, !.persisted = TRUE,
                                                        !.detail = "error"]],
                    saved,
                    [details EXCEPT ![i] = FreeDetail])
      /\ UNCHANGED <<server, restore, lists, op, told, faults, choices, deleted, raced,
                     chosen, stale>>

DetailDropped(i) ==
  /\ details[i].pc = "answered"
  /\ ~details[i].latest
  /\ details' = [details EXCEPT ![i] = FreeDetail]
  /\ UNCHANGED <<server, list, entry, saved, restore, lists, op, told, faults, choices,
                 deleted, raced, chosen, stale>>

-----------------------------------------------------------------------------
(* Runs.                                                                    *)

(* external: a run of a live session ends.                                  *)
RunEnds(t) ==
  /\ t \in list.live \cap list.sessions \cap server.there
  /\ \A u \in Threads : server.runs[u] < MaxRuns
  /\ server' = [server EXCEPT !.runs[t] = @ + 1]
  /\ UNCHANGED <<list, entry, saved, restore, lists, details, op, told, faults,
                 choices, deleted, raced, chosen, stale>>

LoadingDetail(t) ==
  \E i \in DetailSlots : details[i].pc # "free" /\ details[i].thread = t /\ details[i].latest

(* handleActiveSessionRunSettled: the detail is asked for again, and the    *)
(* list.                                                                    *)
Settled(t) ==
  /\ t \in list.sessions
  /\ told[t] < server.runs[t]
  /\ told' = [told EXCEPT ![t] = server.runs[t]]
  /\ CommitWith(list, [entry EXCEPT ![t].detail = "idle"], saved, details)
  /\ restore' = NewKey
  /\ stale' = IF t # list.active /\ LoadingDetail(t) THEN stale \cup {t} ELSE stale
  /\ UNCHANGED <<server, lists, op, faults, choices, deleted, raced, chosen>>

-----------------------------------------------------------------------------
(* The user.                                                                *)

(* retrySessionHistoryLoad.                                                 *)
Retried(e) == CASE e.detail = "error" -> [e EXCEPT !.detail = "idle"]
                [] e.detail # "error" /\ e.caps = "error" -> [e EXCEPT !.caps = "idle"]
                [] OTHER -> e

Activate(t) ==
  /\ t \in list.sessions
  /\ Choice
  /\ CommitWith([list EXCEPT !.active = t], [entry EXCEPT ![t] = Retried(@)], saved, details)
  /\ lists' = IF HistoryShell(t) THEN lists ELSE Marked
  /\ chosen' = IF HistoryShell(t) THEN NoThread ELSE t
  /\ UNCHANGED <<server, restore, op, told, faults, deleted, raced, stale>>

(* The button: the choice is marked before the runtime is asked.            *)
CreateAsk ==
  /\ op.kind = "none"
  /\ Choice
  /\ op' = [kind |-> "create", thread |-> NoThread, pc |-> "asked"]
  /\ lists' = Marked
  /\ UNCHANGED <<server, list, entry, saved, restore, details, told, faults,
                 deleted, raced, chosen, stale>>

CopyAsk(t) ==
  /\ t \in list.sessions
  /\ op.kind = "none"
  /\ Choice
  /\ op' = [kind |-> "copy", thread |-> t, pc |-> "asked"]
  /\ UNCHANGED <<server, list, entry, saved, restore, lists, details, told, faults,
                 deleted, raced, chosen, stale>>

DeleteAsk(t) ==
  /\ t \in list.sessions
  /\ op.kind = "none"
  /\ Choice
  /\ op' = [kind |-> "delete", thread |-> t, pc |-> "asked"]
  /\ UNCHANGED <<server, list, entry, saved, restore, lists, details, told, faults,
                 deleted, raced, chosen, stale>>

(* external: the runtime does what it was asked, or refuses.                *)
OpServed ==
  /\ op.pc = "asked"
  /\ \/ /\ op.kind \in {"create", "copy"}
        /\ op.kind = "copy" => op.thread \in server.there
        /\ \E t \in Threads \ server.used :
             /\ server' = [there |-> server.there \cup {t}, used |-> server.used \cup {t},
                           runs |-> [server.runs EXCEPT ![t] =
                             IF op.kind = "copy" THEN server.runs[op.thread] ELSE 0]]
             /\ op' = [op EXCEPT !.thread = t, !.pc = "answered"]
             /\ told' = [told EXCEPT ![t] = server'.runs[t]]
     \/ /\ op.kind = "delete"
        /\ op.thread \in server.there
        /\ server' = [server EXCEPT !.there = @ \ {op.thread}]
        /\ op' = [op EXCEPT !.pc = "answered"]
        /\ UNCHANGED told
     \/ /\ op' = NoOp
        /\ UNCHANGED <<server, told>>
  /\ UNCHANGED <<list, entry, saved, restore, lists, details, faults, choices,
                 deleted, raced, chosen, stale>>

CreateReturns ==
  /\ op.kind = "create"
  /\ op.pc = "answered"
  /\ Commit([sessions |-> list.sessions \cup {op.thread},
             live     |-> list.live \cup {op.thread},
             active   |-> op.thread], entry, saved)
  /\ op' = NoOp
  /\ chosen' = IF \A i \in InFlight : lists[i].marked THEN op.thread ELSE NoThread
  /\ UNCHANGED <<server, restore, lists, told, faults, choices, deleted, raced, stale>>

(* A copy is opened as a history shell, without a mark.                     *)
CopyReturns ==
  /\ op.kind = "copy"
  /\ op.pc = "answered"
  /\ Commit([list EXCEPT !.sessions = @ \cup {op.thread}, !.active = op.thread],
            [entry EXCEPT ![op.thread] = StoredEntry], saved)
  /\ op' = NoOp
  /\ chosen' = NoThread
  /\ UNCHANGED <<server, restore, lists, told, faults, choices, deleted, raced, stale>>

Without(l, t) == [sessions |-> l.sessions \ {t}, live |-> l.live \ {t},
                  active |-> IF l.active = t THEN NoThread ELSE l.active]

Forgotten(shell, t) ==
  Shell(IF shell.active = t THEN NoThread ELSE shell.active, shell.cache \ {t})

(* Mutant: the saved shell keeps the thread.                                *)
DeleteReturnsKeepingShell ==
  LET t == op.thread
  IN  /\ op.kind = "delete"
      /\ op.pc = "answered"
      /\ Commit(Without(list, t), [entry EXCEPT ![t] = NoEntry], saved)
      /\ op' = NoOp
      /\ deleted' = deleted \cup {t}
      /\ raced' = IF InFlight = {} THEN raced ELSE raced \cup {t}
      /\ chosen' = IF chosen = t THEN NoThread ELSE chosen
      /\ UNCHANGED <<server, restore, lists, told, faults, choices, stale>>

DeleteReturns ==
  LET t == op.thread
  IN  /\ op.kind = "delete"
      /\ op.pc = "answered"
      /\ Commit(Without(list, t), [entry EXCEPT ![t] = NoEntry], Forgotten(saved, t))
      /\ op' = NoOp
      /\ deleted' = deleted \cup {t}
      /\ raced' = IF InFlight = {} THEN raced ELSE raced \cup {t}
      /\ chosen' = IF chosen = t THEN NoThread ELSE chosen
      /\ UNCHANGED <<server, restore, lists, told, faults, choices, stale>>

-----------------------------------------------------------------------------
Restoring == \E i \in ListSlots : \/ ListAsk(i) \/ ListRead(i) \/ ListReturns(i)
                                  \/ ListFails(i) \/ ListDropped(i)

Loading == \/ \E t \in Threads : \/ CapsAsk(t) \/ CapsReturn(t)
                                 \/ \E i \in DetailSlots : DetailAsk(t, i)
           \/ \E i \in DetailSlots : DetailRead(i) \/ DetailReturns(i) \/ DetailDropped(i)

User == \/ \E t \in Threads : Activate(t) \/ CopyAsk(t) \/ DeleteAsk(t)
        \/ CreateAsk

Answered == OpServed \/ CreateReturns \/ CopyReturns \/ DeleteReturns

Next == \/ Restoring \/ RetryTimer \/ Reconnect
        \/ Loading
        \/ \E t \in Threads : RunEnds(t) \/ Settled(t)
        \/ User \/ Answered

Spec == Init /\ [][Next]_vars

(* Requests are answered and timers fire.                                   *)
Fairness == /\ WF_vars(Restoring)
            /\ WF_vars(RetryTimer)
            /\ WF_vars(Loading)

FairSpec == Spec /\ Fairness

-----------------------------------------------------------------------------
(* Correctness.                                                             *)

(* The list, the entries, the saved shell and the requests have their types.*)
TypeOK ==
  /\ list.sessions \subseteq Threads
  /\ list.live \subseteq list.sessions
  /\ list.active \in list.sessions \cup {NoThread}
  /\ entry \in [Threads -> Entry]
  /\ saved.active \in Threads \cup {NoThread}
  /\ saved.cache \subseteq Threads
  /\ restore \in [due : BOOLEAN, outcome : {"no", "provisional", "yes"}, timer : BOOLEAN]
  /\ \A t \in list.sessions : entry[t].there

(* A deleted session never comes back: neither the list nor what is saved   *)
(* of it names a thread whose deletion has been confirmed, unless a list    *)
(* was under way at that moment (deleteSessionPersistence).                 *)
DeletedStaysDeleted ==
  \A t \in deleted \ raced : t \notin list.sessions \cup saved.cache \cup {saved.active}

(* A live session the user has opened stays open whatever lists arrive      *)
(* later (liveSessionSelectionVersionRef).                                  *)
ChosenStaysOpen == chosen \in list.sessions => list.active = chosen

(* A detail that is shown as loaded contains every run the panel has        *)
(* reported: an answer from before the run ended is never applied after it. *)
(* Excepted is a session that settled out of sight while its detail was     *)
(* being loaded.                                                            *)
DetailIsFresh ==
  \A t \in Threads \ stale : entry[t].detail = "ready" => entry[t].runs >= told[t]

(* The list is restored in the end, or the runtime has no thread.           *)
RestoreSucceeds == <>[](restore.outcome = "yes" \/ server.there = {})
===============================================================================
