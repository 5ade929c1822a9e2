------------------------- MODULE SessionHistory_proofs -------------------------
(***************************************************************************)
(* Theorems of SessionHistory, for any threads, any number of runs, faults *)
(* and choices, and any number of requests in flight.                      *)
(***************************************************************************)
EXTENDS SessionHistory, TLAPS

ThreadOrNone == Threads \cup {NoThread}

ListRequest ==
  [pc : {"free", "asked", "answered"}, latest : BOOLEAN, preferred : ThreadOrNone,
   cache : SUBSET Threads, marked : BOOLEAN, ok : BOOLEAN, answer : SUBSET Threads]

DetailRequest ==
  [pc : {"free", "asked", "answered"}, latest : BOOLEAN, thread : ThreadOrNone,
   ok : BOOLEAN, runs : 0 .. MaxRuns]

(* Every variable has its type, and the requests under way name a thread.   *)
Typed ==
  /\ server \in [there : SUBSET Threads, used : SUBSET Threads,
                 runs : [Threads -> 0 .. MaxRuns]]
  /\ list \in [sessions : SUBSET Threads, live : SUBSET Threads, active : ThreadOrNone]
  /\ entry \in [Threads -> Entry]
  /\ saved \in [active : ThreadOrNone, cache : SUBSET Threads]
  /\ restore \in [due : BOOLEAN, outcome : {"no", "provisional", "yes"}, timer : BOOLEAN]
  /\ lists \in [ListSlots -> ListRequest]
  /\ details \in [DetailSlots -> DetailRequest]
  /\ op \in [kind : {"none", "create", "copy", "delete"}, thread : ThreadOrNone,
             pc : {"idle", "asked", "answered"}]
  /\ told \in [Threads -> 0 .. MaxRuns]
  /\ deleted \subseteq Threads
  /\ raced \subseteq Threads
  /\ chosen \in ThreadOrNone
  /\ stale \subseteq Threads

(* The list and its entries agree, and requests name what they are about.   *)
Coherent ==
  /\ list.live \subseteq list.sessions
  /\ list.active \in list.sessions \cup {NoThread}
  /\ \A t \in list.sessions : entry[t].there
  /\ \A i \in DetailSlots : details[i].pc # "free" => details[i].thread \in Threads
  /\ op.pc = "answered" \/ op.kind \in {"copy", "delete"} => op.thread \in Threads
  /\ op.pc = "idle" <=> op.kind = "none"

TypeInv == Typed /\ Coherent

(* A thread the runtime does not have any more is named by nothing that can *)
(* still put it in the list or in the saved shell.                          *)
Forgets(t) ==
  /\ t \in server.used \ server.there
  /\ t \notin list.sessions \cup saved.cache \cup {saved.active}
  /\ op.thread # t
  /\ \A i \in InFlight : t \notin lists[i].cache \cup lists[i].answer \cup {lists[i].preferred}

DeletedInv ==
  /\ server.there \subseteq server.used
  /\ op.kind = "delete" /\ op.pc = "answered" => op.thread \in server.used \ server.there
  /\ \A t \in deleted \ raced : Forgets(t)

(* Every list that can still be applied was asked for by a shell that       *)
(* already preferred the chosen session, or has been told of the choice.    *)
ChosenInv ==
  /\ list.sessions # {} => saved.active = list.active
  /\ chosen # NoThread => /\ chosen \in list.live
                          /\ list.active = chosen
                          /\ \A i \in InFlight : lists[i].marked \/ lists[i].preferred = chosen

(* A thread that has never existed is named nowhere.                        *)
Unknown(t) ==
  /\ t \notin list.sessions
  /\ entry[t].detail # "ready"
  /\ \A i \in DetailSlots : details[i].pc = "free" \/ details[i].thread # t
  /\ \A i \in ListSlots : t \notin lists[i].cache \cup lists[i].answer
  /\ t \notin saved.cache

UsedInv ==
  /\ server.there \subseteq server.used
  /\ \A t \in Threads \ server.used : Unknown(t)
  /\ op.thread \in Threads => op.thread \in server.used

(* What an answer under way will show is not older than what the panel has  *)
(* reported, or the answer will be dropped: the detail effect of the        *)
(* session on screen gives it a new version, because its entry is stored.   *)
FreshInv ==
  /\ \A t \in Threads : told[t] <= server.runs[t]
  /\ \A t \in list.sessions : LoadingDetail(t) => entry[t].persisted
  /\ op.kind = "create" /\ op.pc = "answered" /\ op.thread \notin list.sessions
     => ~LoadingDetail(op.thread)
  /\ \A t \in Threads \ stale : entry[t].detail = "ready" => entry[t].runs >= told[t]
  /\ \A i \in DetailSlots :
       details[i].pc = "answered" /\ details[i].latest /\ details[i].ok
         /\ details[i].thread \notin stale
       => details[i].runs >= told[details[i].thread]

-----------------------------------------------------------------------------
(* What a commit leaves behind.                                             *)

SessionList == [sessions : SUBSET Threads, live : SUBSET Threads, active : ThreadOrNone]
SavedShell  == [active : ThreadOrNone, cache : SUBSET Threads]

LEMMA CommitFacts ==
  ASSUME NEW l \in SessionList, NEW entries \in [Threads -> Entry],
         NEW shell \in SavedShell, NEW requests \in [DetailSlots -> DetailRequest],
         CommitWith(l, entries, shell, requests)
  PROVE  /\ list' = l /\ entry' = entries
         /\ saved' \in SavedShell
         /\ saved'.active \in {l.active, shell.active}
         /\ saved'.cache \subseteq l.sessions \cup shell.cache
         /\ l.sessions # {} => saved'.active = l.active
         /\ details' \in [DetailSlots -> DetailRequest]
         /\ \A i \in DetailSlots :
              /\ details'[i].pc = requests[i].pc
              /\ details'[i].thread = requests[i].thread
              /\ details'[i].ok = requests[i].ok
              /\ details'[i].runs = requests[i].runs
              /\ details'[i].latest => requests[i].latest
              /\ /\ l.active # NoThread
                 /\ requests[i].thread = l.active
                 /\ entries[l.active].persisted
                 /\ entries[l.active].detail = "idle"
                 => ~details'[i].latest
<1>1. /\ list' = l /\ entry' = entries
      /\ saved' = SavedFrom(shell, l, entries)
      /\ details' = Superseded(requests, l.active, entries)
  BY DEF CommitWith
<1>2. /\ saved' \in SavedShell
      /\ saved'.active \in {l.active, shell.active}
      /\ saved'.cache \subseteq l.sessions \cup shell.cache
      /\ l.sessions # {} => saved'.active = l.active
  <2>1. CASE l.sessions = {}
    BY <1>1, <2>1 DEF SavedFrom, Shell, SavedShell
  <2>2. CASE l.sessions # {}
    <3>1. saved' = Shell(l.active, {t \in l.sessions : entries[t].persisted \/ t \notin l.live})
      BY <1>1, <2>2 DEF SavedFrom
    <3>2. {t \in l.sessions : entries[t].persisted \/ t \notin l.live} \subseteq l.sessions
      OBVIOUS
    <3>3. l.sessions \subseteq Threads /\ l.active \in ThreadOrNone
      BY DEF SessionList
    <3>4. QED
      BY <3>1, <3>2, <3>3 DEF Shell, SavedShell
  <2>3. QED
    BY <2>1, <2>2
<1>3. ASSUME NEW i \in DetailSlots
      PROVE  details'[i] = requests[i] \/ details'[i] = [requests[i] EXCEPT !.latest = FALSE]
  BY <1>1 DEF Superseded
<1>4. ASSUME NEW i \in DetailSlots
      PROVE  /\ details'[i] \in DetailRequest
             /\ details'[i].pc = requests[i].pc
             /\ details'[i].thread = requests[i].thread
             /\ details'[i].ok = requests[i].ok
             /\ details'[i].runs = requests[i].runs
             /\ details'[i].latest => requests[i].latest
  <2>1. requests[i] \in DetailRequest
    OBVIOUS
  <2>2. CASE details'[i] = requests[i]
    BY <2>1, <2>2
  <2>3. CASE details'[i] = [requests[i] EXCEPT !.latest = FALSE]
    BY <2>1, <2>3 DEF DetailRequest
  <2>4. QED
    BY <1>3, <2>2, <2>3
<1>5. details' \in [DetailSlots -> DetailRequest]
  BY <1>1, <1>4 DEF Superseded
<1>6. ASSUME NEW i \in DetailSlots, l.active # NoThread, requests[i].thread = l.active,
             entries[l.active].persisted, entries[l.active].detail = "idle"
      PROVE  ~details'[i].latest
  BY <1>1, <1>6 DEF Superseded, DetailRequest
<1>7. QED
  BY <1>1, <1>2, <1>4, <1>5, <1>6

LEMMA Constants ==
  /\ NoEntry \in Entry /\ StoredEntry \in Entry /\ LiveEntry \in Entry
  /\ FreeList \in ListRequest /\ FreeDetail \in DetailRequest
<1>1. 0 \in 0 .. MaxRuns
  BY BoundAssumption
<1>2. NoEntry \in Entry
  BY <1>1 DEF NoEntry, Entry, Status
<1>3. StoredEntry \in Entry /\ LiveEntry \in Entry
  BY <1>2 DEF StoredEntry, LiveEntry, Entry, Status
<1>4. FreeList \in ListRequest /\ FreeDetail \in DetailRequest
  BY <1>1 DEF FreeList, ListRequest, FreeDetail, DetailRequest, ThreadOrNone
<1>5. QED
  BY <1>2, <1>3, <1>4

LEMMA SyncedFacts ==
  ASSUME NEW entries \in [Threads -> Entry], NEW sessions \in SUBSET Threads
  PROVE  /\ Synced(entries, sessions) \in [Threads -> Entry]
         /\ \A t \in sessions : Synced(entries, sessions)[t].there
BY Constants DEF Synced, LiveEntry, NoEntry, Entry

LEMMA MarkedFacts ==
  ASSUME lists \in [ListSlots -> ListRequest]
  PROVE  /\ Marked \in [ListSlots -> ListRequest]
         /\ \A i \in ListSlots : /\ Marked[i].pc = lists[i].pc
                                 /\ Marked[i].latest = lists[i].latest
                                 /\ Marked[i].preferred = lists[i].preferred
                                 /\ Marked[i].cache = lists[i].cache
                                 /\ Marked[i].answer = lists[i].answer
                                 /\ lists[i].pc # "free" => Marked[i].marked
BY DEF Marked, ListRequest

-----------------------------------------------------------------------------
(* Types.                                                                   *)

LEMMA TypeInit == Init => TypeInv
<1> SUFFICES ASSUME Init PROVE TypeInv
  OBVIOUS
<1>1. 0 \in 0 .. MaxRuns
  BY BoundAssumption
<1>2. Typed
  BY <1>1, Constants DEF Init, Typed, Shell, NoOp, ThreadOrNone
<1>3. Coherent
  BY DEF Init, Coherent, FreeDetail, NoOp
<1>4. QED
  BY <1>2, <1>3 DEF TypeInv

(* A commit of well typed values, with entries for the sessions.            *)
LEMMA CommitTyped ==
  ASSUME TypeInv, NEW l \in SessionList, NEW entries \in [Threads -> Entry],
         NEW shell \in SavedShell, NEW requests \in [DetailSlots -> DetailRequest],
         CommitWith(l, entries, shell, requests),
         l.live \subseteq l.sessions, l.active \in l.sessions \cup {NoThread},
         \A t \in l.sessions : entries[t].there,
         \A i \in DetailSlots : requests[i].pc # "free" => requests[i].thread \in Threads
  PROVE  /\ list' \in SessionList /\ entry' \in [Threads -> Entry]
         /\ saved' \in SavedShell /\ details' \in [DetailSlots -> DetailRequest]
         /\ list'.live \subseteq list'.sessions
         /\ list'.active \in list'.sessions \cup {NoThread}
         /\ \A t \in list'.sessions : entry'[t].there
         /\ \A i \in DetailSlots : details'[i].pc # "free" => details'[i].thread \in Threads
BY CommitFacts

LEMMA RestoredFacts ==
  ASSUME TypeInv, NEW i \in ListSlots, NEW restored \in SUBSET Threads
  PROVE  /\ \A t \in Threads : RestoredEntry(t, restored) \in Entry
         /\ \A t \in restored : /\ RestoredEntry(t, restored).there
                                /\ RestoredEntry(t, restored).persisted
         /\ \A t \in Threads \ restored : RestoredEntry(t, restored) = entry[t]
         /\ \A t \in Threads : /\ RestoredEntry(t, restored).detail = "ready"
                                  => entry[t].detail = "ready"
                               /\ RestoredEntry(t, restored).detail = "ready"
                                  => RestoredEntry(t, restored).runs = entry[t].runs
         /\ \A active \in RestoredActive(lists[i], restored) :
              active \in list.sessions \cup restored \cup {NoThread}
         /\ list.active \in list.live /\ (list.active \notin restored \/ lists[i].marked)
            => RestoredActive(lists[i], restored) = {list.active}
         /\ ~(list.active \in list.live /\ (list.active \notin restored \/ lists[i].marked))
              /\ lists[i].preferred \in restored
            => RestoredActive(lists[i], restored) = {lists[i].preferred}
<1>1. entry \in [Threads -> Entry]
  BY DEF TypeInv, Typed
<1>2. ASSUME NEW t \in restored
      PROVE  LET e == RestoredEntry(t, restored)
             IN  /\ e \in Entry /\ e.there /\ e.persisted
                 /\ e.detail = "ready" => entry[t].detail = "ready" /\ e.runs = entry[t].runs
  <2>1. CASE ~entry[t].there
    BY <2>1, Constants DEF RestoredEntry, StoredEntry, NoEntry
  <2>2. CASE entry[t].there
    <3> DEFINE e == [entry[t] EXCEPT !.persisted = TRUE,
                       !.caps = IF ~entry[t].persisted /\ HistoryShell(t) THEN "idle" ELSE @]
    <3>1. RestoredEntry(t, restored) = e
      BY <2>2 DEF RestoredEntry
    <3>2. entry[t] \in Entry
      BY <1>1
    <3>3. e \in Entry /\ e.there /\ e.persisted /\ e.detail = entry[t].detail
            /\ e.runs = entry[t].runs
      BY <2>2, <3>2 DEF Entry, Status
    <3>4. QED
      BY <3>1, <3>3
  <2>3. QED
    BY <2>1, <2>2
<1>3. \A t \in Threads \ restored : RestoredEntry(t, restored) = entry[t]
  BY DEF RestoredEntry
<1>4. \A active \in RestoredActive(lists[i], restored) :
        active \in list.sessions \cup restored \cup {NoThread}
  BY DEF RestoredActive, TypeInv, Coherent
<1>5. /\ list.active \in list.live /\ (list.active \notin restored \/ lists[i].marked)
         => RestoredActive(lists[i], restored) = {list.active}
      /\ ~(list.active \in list.live /\ (list.active \notin restored \/ lists[i].marked))
           /\ lists[i].preferred \in restored
         => RestoredActive(lists[i], restored) = {lists[i].preferred}
  BY DEF RestoredActive
<1>6. QED
  BY <1>1, <1>2, <1>3, <1>4, <1>5

LEMMA TypeStep == TypeInv /\ [Next]_vars => TypeInv'
<1> SUFFICES ASSUME TypeInv, [Next]_vars PROVE TypeInv'
  OBVIOUS
<1>1. ASSUME NEW i \in ListSlots, ListAsk(i) PROVE TypeInv'
  BY <1>1, Constants DEF TypeInv, Typed, Coherent, ListAsk, FreeList, ListRequest
<1>2. ASSUME NEW i \in ListSlots, ListRead(i) PROVE TypeInv'
  <2>1. lists[i] \in ListRequest /\ server.there \in SUBSET Threads
    BY DEF TypeInv, Typed
  <2>2. /\ [lists[i] EXCEPT !.pc = "answered", !.answer = server.there] \in ListRequest
        /\ [lists[i] EXCEPT !.pc = "answered", !.ok = FALSE] \in ListRequest
    BY <2>1 DEF ListRequest
  <2>3. lists' \in [ListSlots -> ListRequest]
    BY <1>2, <2>2 DEF ListRead, TypeInv, Typed
  <2>4. QED
    BY <1>2, <2>3 DEF TypeInv, Typed, Coherent, ListRead
<1>3. ASSUME NEW i \in ListSlots, ListReturns(i) PROVE TypeInv'
  <2> DEFINE restored == IF lists[i].answer = {} THEN lists[i].cache ELSE lists[i].answer
             kept == [t \in Threads |-> RestoredEntry(t, restored)]
             sessions == list.sessions \cup restored
  <2>1. restored \in SUBSET Threads
    BY DEF TypeInv, Typed, ListRequest
  <2> HIDE DEF restored
  <2>2. PICK active \in RestoredActive(lists[i], restored) :
          Commit([list EXCEPT !.sessions = sessions, !.active = active], kept, saved)
    BY <1>3 DEF ListReturns, restored
  <2> DEFINE l == [list EXCEPT !.sessions = sessions, !.active = active]
  <2>3. active \in sessions \cup {NoThread}
    BY <2>1, <2>2, RestoredFacts
  <2>4. /\ l \in SessionList /\ l.live \subseteq l.sessions
        /\ l.sessions = sessions /\ l.active = active
    BY <2>1, <2>3 DEF TypeInv, Typed, Coherent, SessionList, ThreadOrNone
  <2>5. kept \in [Threads -> Entry]
    BY <2>1, RestoredFacts
  <2> HIDE DEF l, kept
  <2>6. CommitWith(l, Synced(kept, l.sessions), saved, details)
    BY <2>2 DEF Commit, l
  <2>7. /\ list' \in SessionList /\ entry' \in [Threads -> Entry]
        /\ saved' \in SavedShell /\ details' \in [DetailSlots -> DetailRequest]
        /\ list'.live \subseteq list'.sessions
        /\ list'.active \in list'.sessions \cup {NoThread}
        /\ \A t \in list'.sessions : entry'[t].there
        /\ \A j \in DetailSlots : details'[j].pc # "free" => details'[j].thread \in Threads
    <3>1. /\ Synced(kept, l.sessions) \in [Threads -> Entry]
          /\ \A t \in l.sessions : Synced(kept, l.sessions)[t].there
      BY <2>4, <2>5, SyncedFacts DEF SessionList
    <3>2. /\ saved \in SavedShell /\ details \in [DetailSlots -> DetailRequest]
          /\ \A j \in DetailSlots : details[j].pc # "free" => details[j].thread \in Threads
      BY DEF TypeInv, Typed, Coherent, SavedShell
    <3> DEFINE entries == Synced(kept, l.sessions)
    <3> HIDE DEF entries
    <3>3. entries \in [Threads -> Entry] /\ \A t \in l.sessions : entries[t].there
      BY <3>1 DEF entries
    <3>4. l.active \in l.sessions \cup {NoThread}
      BY <2>3, <2>4
    <3>5. CommitWith(l, entries, saved, details)
      BY <2>6 DEF entries
    <3>6. QED
      BY <2>4, <3>2, <3>3, <3>4, <3>5, CommitTyped
  <2>8. /\ lists' \in [ListSlots -> ListRequest]
        /\ restore' \in [due : BOOLEAN, outcome : {"no", "provisional", "yes"}, timer : BOOLEAN]
    BY <1>3, Constants DEF ListReturns, TypeInv, Typed
  <2>9. QED
    BY <1>3, <2>7, <2>8 DEF ListReturns, TypeInv, Typed, Coherent, SessionList, SavedShell
<1>4. ASSUME NEW i \in ListSlots, ListFails(i) \/ ListDropped(i) PROVE TypeInv'
  <2>1. lists' \in [ListSlots -> ListRequest]
    BY <1>4, Constants DEF ListFails, ListDropped, TypeInv, Typed
  <2>2. restore' \in [due : BOOLEAN, outcome : {"no", "provisional", "yes"}, timer : BOOLEAN]
    BY <1>4 DEF ListFails, ListDropped, TypeInv, Typed
  <2>3. QED
    BY <1>4, <2>1, <2>2 DEF TypeInv, Typed, Coherent, ListFails, ListDropped
<1>5. ASSUME RetryTimer \/ Reconnect PROVE TypeInv'
  <2>1. lists' \in [ListSlots -> ListRequest]
    <3>1. \A i \in ListSlots : [lists[i] EXCEPT !.latest = FALSE] \in ListRequest
      <4>1. \A i \in ListSlots : lists[i] \in ListRequest
        BY DEF TypeInv, Typed
      <4>2. QED
        BY <4>1 DEF ListRequest
    <3>2. QED
      BY <1>5, <3>1 DEF RetryTimer, Reconnect, TypeInv, Typed
  <2>2. restore' \in [due : BOOLEAN, outcome : {"no", "provisional", "yes"}, timer : BOOLEAN]
    BY <1>5 DEF RetryTimer, Reconnect, NewKey, TypeInv, Typed
  <2>3. QED
    BY <1>5, <2>1, <2>2 DEF TypeInv, Typed, Coherent, RetryTimer, Reconnect
<1>6. ASSUME NEW t \in Threads, CapsAsk(t) PROVE TypeInv'
  BY <1>6 DEF TypeInv, Typed, Coherent, CapsAsk, Entry, Status
<1>7. ASSUME NEW t \in Threads, CapsReturn(t) PROVE TypeInv'
  <2>1. \A c \in Status : [entry[t] EXCEPT !.caps = c] \in Entry
    BY DEF TypeInv, Typed, Entry
  <2>2. \A c \in Status : /\ [entry EXCEPT ![t].caps = c] \in [Threads -> Entry]
                          /\ \A u \in list.sessions : [entry EXCEPT ![t].caps = c][u].there
    BY <2>1 DEF TypeInv, Typed, Coherent, Entry
  <2>3. entry' \in [Threads -> Entry] /\ \A u \in list.sessions : entry'[u].there
    BY <1>7, <2>2 DEF CapsReturn, Status
  <2>4. /\ list' \in SessionList
        /\ list'.sessions = list.sessions /\ list'.active = list.active
        /\ list'.live \subseteq list.sessions
    BY <1>7 DEF CapsReturn, TypeInv, Typed, Coherent, SessionList
  <2>5. UNCHANGED <<server, saved, restore, lists, details, op, told, deleted, raced, chosen,
                    stale>>
    BY <1>7 DEF CapsReturn
  <2>6. Typed'
    BY <2>3, <2>4, <2>5 DEF TypeInv, Typed, SessionList
  <2>7. Coherent'
    BY <2>3, <2>4, <2>5 DEF TypeInv, Coherent
  <2>8. QED
    BY <2>6, <2>7 DEF TypeInv
<1>8. ASSUME NEW t \in Threads, NEW i \in DetailSlots, DetailAsk(t, i) PROVE TypeInv'
  <2>1. entry' \in [Threads -> Entry] /\ \A u \in list.sessions : entry'[u].there
    <3>1. entry \in [Threads -> Entry] /\ \A u \in list.sessions : entry[u].there
      BY DEF TypeInv, Typed, Coherent
    <3>2. entry' = [entry EXCEPT ![t].detail = "loading"]
      BY <1>8 DEF DetailAsk
    <3>3. \A e \in Entry : [e EXCEPT !.detail = "loading"] \in Entry
      BY DEF Entry, Status
    <3>4. entry' \in [Threads -> Entry]
      BY <3>1, <3>2, <3>3
    <3>5. \A u \in Threads : entry'[u].there = entry[u].there
      BY <3>1, <3>2 DEF Entry
    <3>6. list.sessions \subseteq Threads
      BY DEF TypeInv, Typed, SessionList
    <3> QED BY <3>1, <3>4, <3>5, <3>6
  <2>2. /\ details' \in [DetailSlots -> DetailRequest]
        /\ \A j \in DetailSlots : details'[j].pc # "free" => details'[j].thread \in Threads
    BY <1>8, Constants DEF TypeInv, Typed, Coherent, DetailAsk, FreeDetail, DetailRequest,
                           ThreadOrNone
  <2>3. QED
    BY <1>8, <2>1, <2>2 DEF TypeInv, Typed, Coherent, DetailAsk
<1>9. ASSUME NEW i \in DetailSlots, DetailRead(i) PROVE TypeInv'
  <2>1. /\ details' \in [DetailSlots -> DetailRequest]
        /\ \A j \in DetailSlots : details'[j].pc # "free" => details'[j].thread \in Threads
    <3> DEFINE read == [details[i] EXCEPT !.pc = "answered",
                                          !.ok = details[i].thread \in server.there,
                                          !.runs = server.runs[details[i].thread]]
    <3>1. details[i] \in DetailRequest /\ details[i].thread \in Threads
      BY <1>9 DEF DetailRead, TypeInv, Typed, Coherent
    <3>2. server.runs[details[i].thread] \in 0 .. MaxRuns
      BY <3>1 DEF TypeInv, Typed
    <3>3. \A ok \in BOOLEAN, runs \in 0 .. MaxRuns :
            /\ [details[i] EXCEPT !.pc = "answered", !.ok = ok, !.runs = runs] \in DetailRequest
            /\ [details[i] EXCEPT !.pc = "answered", !.ok = ok, !.runs = runs].thread
                 = details[i].thread
      BY <3>1 DEF DetailRequest
    <3>4. read \in DetailRequest /\ read.thread = details[i].thread
      <4>1. (details[i].thread \in server.there) \in BOOLEAN
        OBVIOUS
      <4>2. QED
        BY <3>2, <3>3, <4>1, Zenon
    <3>5. details' = [details EXCEPT ![i] = read]
      BY <1>9 DEF DetailRead
    <3> HIDE DEF read
    <3>6. QED
      BY <3>1, <3>4, <3>5 DEF TypeInv, Typed, Coherent
  <2>2. QED
    BY <1>9, <2>1 DEF TypeInv, Typed, Coherent, DetailRead
<1>10. ASSUME NEW i \in DetailSlots, DetailDropped(i) PROVE TypeInv'
  BY <1>10, Constants DEF TypeInv, Typed, Coherent, DetailDropped, FreeDetail
<1>11. ASSUME NEW i \in DetailSlots, DetailReturns(i) PROVE TypeInv'
  <2> DEFINE t == details[i].thread
             loaded == Loaded(t, details[i].runs)
             failed == [entry EXCEPT ![t] = [@ EXCEPT !.there = TRUE, !.persisted = TRUE,
                                                      !.detail = "error"]]
             requests == [details EXCEPT ![i] = FreeDetail]
             entries == IF details[i].ok THEN Synced(loaded, list.sessions) ELSE failed
  <2>1. t \in Threads /\ details[i].runs \in 0 .. MaxRuns
    BY <1>11 DEF DetailReturns, TypeInv, Typed, Coherent, DetailRequest
  <2>2. loaded \in [Threads -> Entry] /\ failed \in [Threads -> Entry]
    <3>1. entry[t] \in Entry
      BY <2>1 DEF TypeInv, Typed
    <3>2. /\ [entry[t] EXCEPT !.there = TRUE, !.persisted = TRUE, !.detail = "ready",
                              !.runs = details[i].runs] \in Entry
          /\ [entry[t] EXCEPT !.there = TRUE, !.persisted = TRUE, !.detail = "error"] \in Entry
      BY <2>1, <3>1 DEF Entry, Status
    <3>3. QED
      BY <2>1, <3>2 DEF Loaded, TypeInv, Typed
  <2>3. \A u \in list.sessions : failed[u].there
    BY <2>1 DEF TypeInv, Typed, Coherent, Entry
  <2> HIDE DEF loaded, failed
  <2>4. /\ Synced(loaded, list.sessions) \in [Threads -> Entry]
        /\ \A u \in list.sessions : Synced(loaded, list.sessions)[u].there
    BY <2>2, SyncedFacts DEF TypeInv, Typed
  <2>5. entries \in [Threads -> Entry] /\ \A u \in list.sessions : entries[u].there
    BY <2>2, <2>3, <2>4
  <2>6. /\ requests \in [DetailSlots -> DetailRequest]
        /\ \A j \in DetailSlots : requests[j].pc # "free" => requests[j].thread \in Threads
    BY Constants DEF TypeInv, Typed, Coherent, FreeDetail
  <2>7. CommitWith(list, entries, saved, requests)
    BY <1>11 DEF DetailReturns, loaded, failed
  <2> HIDE DEF entries, requests
  <2>8. /\ list \in SessionList /\ saved \in SavedShell
        /\ list.live \subseteq list.sessions /\ list.active \in list.sessions \cup {NoThread}
    BY DEF TypeInv, Typed, Coherent, SessionList, SavedShell
  <2>9. /\ list' \in SessionList /\ entry' \in [Threads -> Entry]
        /\ saved' \in SavedShell /\ details' \in [DetailSlots -> DetailRequest]
        /\ list'.live \subseteq list'.sessions
        /\ list'.active \in list'.sessions \cup {NoThread}
        /\ \A u \in list'.sessions : entry'[u].there
        /\ \A j \in DetailSlots : details'[j].pc # "free" => details'[j].thread \in Threads
    BY <2>5, <2>6, <2>7, <2>8, CommitTyped
  <2>10. QED
    BY <1>11, <2>9 DEF DetailReturns, TypeInv, Typed, Coherent, SessionList, SavedShell
<1>12. ASSUME NEW t \in Threads, RunEnds(t) PROVE TypeInv'
  <2>1. server.runs[t] + 1 \in 0 .. MaxRuns
    BY <1>12, BoundAssumption DEF RunEnds, TypeInv, Typed
  <2>2. QED
    BY <1>12, <2>1 DEF RunEnds, TypeInv, Typed, Coherent
<1>13. ASSUME NEW t \in Threads, Settled(t) \/ Activate(t) PROVE TypeInv'
  <2>1. PICK l \in SessionList, entries \in [Threads -> Entry] :
          /\ CommitWith(l, entries, saved, details)
          /\ l.sessions = list.sessions /\ l.live = list.live
          /\ l.active \in list.sessions \cup {NoThread}
          /\ \A u \in list.sessions : entries[u].there
    <3>1. CASE Settled(t)
      <4>1. /\ list \in SessionList
            /\ [entry EXCEPT ![t].detail = "idle"] \in [Threads -> Entry]
            /\ \A u \in list.sessions : [entry EXCEPT ![t].detail = "idle"][u].there
        BY DEF TypeInv, Typed, Coherent, SessionList, Entry, Status
      <4>2. CommitWith(list, [entry EXCEPT ![t].detail = "idle"], saved, details)
        BY <3>1 DEF Settled
      <4>3. QED
        BY <4>1, <4>2 DEF TypeInv, Coherent
    <3>2. CASE Activate(t)
      <4> DEFINE l == [list EXCEPT !.active = t]
                 entries == [entry EXCEPT ![t] = Retried(@)]
      <4>1. \A e \in Entry : Retried(e) \in Entry /\ Retried(e).there = e.there
        BY DEF Retried, Entry, Status
      <4>2. entries \in [Threads -> Entry] /\ \A u \in list.sessions : entries[u].there
        BY <4>1 DEF TypeInv, Typed, Coherent
      <4>3. /\ l \in SessionList /\ l.sessions = list.sessions /\ l.live = list.live
            /\ l.active \in list.sessions \cup {NoThread}
        BY <3>2 DEF Activate, TypeInv, Typed, SessionList, ThreadOrNone
      <4>4. CommitWith(l, entries, saved, details)
        BY <3>2 DEF Activate
      <4>5. QED
        BY <4>2, <4>3, <4>4
    <3>3. QED
      BY <1>13, <3>1, <3>2
  <2>2. /\ saved \in SavedShell /\ details \in [DetailSlots -> DetailRequest]
        /\ list.live \subseteq list.sessions
        /\ \A j \in DetailSlots : details[j].pc # "free" => details[j].thread \in Threads
    BY DEF TypeInv, Typed, Coherent, SavedShell
  <2>3. /\ list' \in SessionList /\ entry' \in [Threads -> Entry]
        /\ saved' \in SavedShell /\ details' \in [DetailSlots -> DetailRequest]
        /\ list'.live \subseteq list'.sessions
        /\ list'.active \in list'.sessions \cup {NoThread}
        /\ \A u \in list'.sessions : entry'[u].there
        /\ \A j \in DetailSlots : details'[j].pc # "free" => details'[j].thread \in Threads
    BY <2>1, <2>2, CommitTyped
  <2>4. CASE Settled(t)
    BY <2>3, <2>4 DEF Settled, NewKey, TypeInv, Typed, Coherent, SessionList, SavedShell
  <2>5. CASE Activate(t)
    <3>1. lists' \in [ListSlots -> ListRequest] /\ chosen' \in ThreadOrNone
      BY <2>5, MarkedFacts DEF Activate, TypeInv, Typed, ThreadOrNone
    <3>2. QED
      BY <2>3, <2>5, <3>1 DEF Activate, TypeInv, Typed, Coherent, SessionList, SavedShell
  <2>6. QED
    BY <1>13, <2>4, <2>5
<1>14. ASSUME NEW t \in Threads, CopyAsk(t) \/ DeleteAsk(t) PROVE TypeInv'
  BY <1>14 DEF CopyAsk, DeleteAsk, TypeInv, Typed, Coherent, ThreadOrNone
<1>15. ASSUME CreateAsk PROVE TypeInv'
  BY <1>15, MarkedFacts DEF CreateAsk, TypeInv, Typed, Coherent, ThreadOrNone
<1>16. ASSUME OpServed PROVE TypeInv'
  <2>1. CASE UNCHANGED <<server, told>> /\ op' = NoOp
    BY <1>16, <2>1 DEF OpServed, TypeInv, Typed, Coherent, NoOp, ThreadOrNone
  <2>2. CASE /\ op.kind = "delete" /\ UNCHANGED told
             /\ server' = [server EXCEPT !.there = @ \ {op.thread}]
             /\ op' = [op EXCEPT !.pc = "answered"]
    BY <1>16, <2>2 DEF OpServed, TypeInv, Typed, Coherent
  <2>3. ASSUME NEW t \in Threads, op.kind \in {"create", "copy"},
               server' = [there |-> server.there \cup {t}, used |-> server.used \cup {t},
                          runs |-> [server.runs EXCEPT ![t] =
                            IF op.kind = "copy" THEN server.runs[op.thread] ELSE 0]],
               op' = [op EXCEPT !.thread = t, !.pc = "answered"],
               told' = [told EXCEPT ![t] = server'.runs[t]]
        PROVE  TypeInv'
    <3>1. 0 \in 0 .. MaxRuns
      BY BoundAssumption
    <3>2. (IF op.kind = "copy" THEN server.runs[op.thread] ELSE 0) \in 0 .. MaxRuns
      BY <3>1 DEF TypeInv, Typed, Coherent
    <3>3. /\ server' \in [there : SUBSET Threads, used : SUBSET Threads,
                          runs : [Threads -> 0 .. MaxRuns]]
          /\ told' \in [Threads -> 0 .. MaxRuns]
      BY <2>3, <3>2 DEF TypeInv, Typed
    <3>4. /\ op' \in [kind : {"none", "create", "copy", "delete"}, thread : ThreadOrNone,
                      pc : {"idle", "asked", "answered"}]
          /\ op'.thread = t /\ op'.pc = "answered" /\ op'.kind # "none"
      BY <2>3 DEF TypeInv, Typed, ThreadOrNone
    <3>5. QED
      BY <1>16, <3>3, <3>4 DEF OpServed, TypeInv, Typed, Coherent
  <2>4. QED
    BY <1>16, <2>1, <2>2, <2>3 DEF OpServed
<1>17. ASSUME CreateReturns \/ CopyReturns \/ DeleteReturns PROVE TypeInv'
  <2>1. op.thread \in Threads
    BY <1>17 DEF CreateReturns, CopyReturns, DeleteReturns, TypeInv, Coherent
  <2>2. PICK l \in SessionList, made \in [Threads -> Entry], shell \in SavedShell :
          /\ CommitWith(l, Synced(made, l.sessions), shell, details)
          /\ l.live \subseteq l.sessions
          /\ l.active \in l.sessions \cup {NoThread}
    <3>1. CASE CreateReturns
      <4> DEFINE l == [sessions |-> list.sessions \cup {op.thread},
                       live     |-> list.live \cup {op.thread},
                       active   |-> op.thread]
      <4>1. /\ l \in SessionList /\ l.live \subseteq l.sessions
            /\ l.active \in l.sessions \cup {NoThread}
        BY <2>1 DEF TypeInv, Typed, Coherent, SessionList, ThreadOrNone
      <4>2. CommitWith(l, Synced(entry, l.sessions), saved, details)
        BY <3>1 DEF CreateReturns, Commit
      <4> HIDE DEF l
      <4>3. QED
        BY <4>1, <4>2 DEF TypeInv, Typed, SavedShell
    <3>2. CASE CopyReturns
      <4> DEFINE l == [list EXCEPT !.sessions = @ \cup {op.thread}, !.active = op.thread]
                 made == [entry EXCEPT ![op.thread] = StoredEntry]
      <4>1. /\ l \in SessionList /\ l.live \subseteq l.sessions
            /\ l.active \in l.sessions \cup {NoThread}
        BY <2>1 DEF TypeInv, Typed, Coherent, SessionList, ThreadOrNone
      <4>2. made \in [Threads -> Entry]
        BY <2>1, Constants DEF TypeInv, Typed
      <4>3. CommitWith(l, Synced(made, l.sessions), saved, details)
        BY <3>2 DEF CopyReturns, Commit
      <4> HIDE DEF l, made
      <4>4. QED
        BY <4>1, <4>2, <4>3 DEF TypeInv, Typed, SavedShell
    <3>3. CASE DeleteReturns
      <4> DEFINE l == Without(list, op.thread)
                 made == [entry EXCEPT ![op.thread] = NoEntry]
                 shell == Forgotten(saved, op.thread)
      <4>1. /\ l \in SessionList /\ l.live \subseteq l.sessions
            /\ l.active \in l.sessions \cup {NoThread}
        BY <2>1 DEF Without, TypeInv, Typed, Coherent, SessionList, ThreadOrNone
      <4>2. made \in [Threads -> Entry] /\ shell \in SavedShell
        BY <2>1, Constants DEF TypeInv, Typed, Forgotten, Shell, SavedShell, ThreadOrNone
      <4>3. CommitWith(l, Synced(made, l.sessions), shell, details)
        BY <3>3 DEF DeleteReturns, Commit
      <4> HIDE DEF l, made, shell
      <4>4. QED
        BY <4>1, <4>2, <4>3
    <3>4. QED
      BY <1>17, <3>1, <3>2, <3>3
  <2> DEFINE entries == Synced(made, l.sessions)
  <2>3. entries \in [Threads -> Entry] /\ \A u \in l.sessions : entries[u].there
    BY <2>2, SyncedFacts DEF SessionList
  <2> HIDE DEF entries
  <2>4. CommitWith(l, entries, shell, details)
    BY <2>2 DEF entries
  <2>5. /\ details \in [DetailSlots -> DetailRequest]
        /\ \A j \in DetailSlots : details[j].pc # "free" => details[j].thread \in Threads
    BY DEF TypeInv, Typed, Coherent
  <2>6. /\ list' \in SessionList /\ entry' \in [Threads -> Entry]
        /\ saved' \in SavedShell /\ details' \in [DetailSlots -> DetailRequest]
        /\ list'.live \subseteq list'.sessions
        /\ list'.active \in list'.sessions \cup {NoThread}
        /\ \A u \in list'.sessions : entry'[u].there
        /\ \A j \in DetailSlots : details'[j].pc # "free" => details'[j].thread \in Threads
    BY <2>2, <2>3, <2>4, <2>5, CommitTyped
  <2>7. /\ op' = NoOp /\ chosen' \in ThreadOrNone
        /\ deleted' \subseteq Threads /\ raced' \subseteq Threads
        /\ UNCHANGED <<server, restore, lists, told, stale>>
    BY <1>17, <2>1 DEF CreateReturns, CopyReturns, DeleteReturns, TypeInv, Typed, ThreadOrNone
  <2>8. QED
    BY <2>6, <2>7 DEF TypeInv, Typed, Coherent, SessionList, SavedShell, NoOp, ThreadOrNone
<1>18. ASSUME UNCHANGED vars PROVE TypeInv'
  BY <1>18 DEF vars, TypeInv, Typed, Coherent
<1>19. QED
  BY <1>1, <1>2, <1>3, <1>4, <1>5, <1>6, <1>7, <1>8, <1>9, <1>10, <1>11, <1>12, <1>13, <1>14,
     <1>15, <1>16, <1>17, <1>18
     DEF Next, Restoring, Loading, User, Answered

(* The list, the entries, the saved shell and the requests have their types.*)
THEOREM SessionTypes == Spec => []TypeOK
<1>1. TypeInv => TypeOK
  BY DEF TypeInv, Typed, Coherent, TypeOK, ThreadOrNone
<1>2. QED
  BY TypeInit, TypeStep, <1>1, PTL DEF Spec

-----------------------------------------------------------------------------
(* What the answers change.                                                 *)


LEMMA DetailReturnsFacts ==
  ASSUME TypeInv, NEW i \in DetailSlots, DetailReturns(i)
  PROVE  LET t == details[i].thread
         IN  /\ t \in Threads
             /\ list' = list
             /\ saved' \in SavedShell
             /\ saved'.active \in {list.active, saved.active}
             /\ saved'.cache \subseteq list.sessions \cup saved.cache
             /\ list.sessions # {} => saved'.active = list.active
             /\ \A u \in Threads \ {t} : u \in list.sessions => entry'[u] = entry[u]
             /\ \A u \in Threads \ {t} : entry'[u].detail = "ready" => entry'[u] = entry[u]
             /\ t \in list.sessions => entry'[t].persisted
             /\ entry'[t].detail = "ready" =>
                  details[i].ok /\ entry'[t].runs = details[i].runs
             /\ details'[i].pc = "free"
             /\ \A j \in DetailSlots \ {i} :
                  /\ details'[j].pc = details[j].pc
                  /\ details'[j].thread = details[j].thread
                  /\ details'[j].ok = details[j].ok
                  /\ details'[j].runs = details[j].runs
                  /\ details'[j].latest => details[j].latest
<1> DEFINE t == details[i].thread
           loaded == Loaded(t, details[i].runs)
           failed == [entry EXCEPT ![t] = [@ EXCEPT !.there = TRUE, !.persisted = TRUE,
                                                    !.detail = "error"]]
           requests == [details EXCEPT ![i] = FreeDetail]
           entries == IF details[i].ok THEN Synced(loaded, list.sessions) ELSE failed
<1>1. /\ t \in Threads /\ details[i].runs \in 0 .. MaxRuns
      /\ entry \in [Threads -> Entry] /\ entry[t] \in Entry
      /\ list \in SessionList /\ saved \in SavedShell
      /\ details \in [DetailSlots -> DetailRequest]
      /\ \A u \in list.sessions : entry[u].there
  BY DEF DetailReturns, TypeInv, Typed, Coherent, DetailRequest, SessionList, SavedShell
<1>2. /\ loaded[t] \in Entry /\ loaded[t].there /\ loaded[t].persisted
      /\ loaded[t].detail = "ready" /\ loaded[t].runs = details[i].runs
      /\ failed[t] \in Entry /\ failed[t].persisted /\ failed[t].detail = "error"
  BY <1>1 DEF Loaded, Entry, Status
<1>3. \A u \in Threads \ {t} : loaded[u] = entry[u] /\ failed[u] = entry[u]
  BY <1>1 DEF Loaded
<1>4. loaded \in [Threads -> Entry] /\ failed \in [Threads -> Entry]
  BY <1>1, <1>2, <1>3 DEF Loaded
<1> HIDE DEF loaded, failed
<1>5. /\ Synced(loaded, list.sessions) \in [Threads -> Entry]
      /\ \A u \in list.sessions : Synced(loaded, list.sessions)[u].there
  BY <1>1, <1>4, SyncedFacts DEF SessionList
<1>6. /\ requests \in [DetailSlots -> DetailRequest]
      /\ requests[i].pc = "free"
      /\ \A j \in DetailSlots \ {i} : requests[j] = details[j]
  BY <1>1, Constants DEF FreeDetail
<1>7. entries \in [Threads -> Entry]
  BY <1>4, <1>5
<1>8. CommitWith(list, entries, saved, requests)
  BY DEF DetailReturns, loaded, failed
<1>9. \A u \in Threads : /\ u \in list.sessions =>
                              Synced(loaded, list.sessions)[u]
                                = (IF loaded[u].there THEN loaded[u] ELSE LiveEntry)
                         /\ u \notin list.sessions =>
                              Synced(loaded, list.sessions)[u] = NoEntry
  BY DEF Synced
<1>10. /\ \A u \in Threads \ {t} : u \in list.sessions => entries[u] = entry[u]
       /\ \A u \in Threads \ {t} : entries[u].detail = "ready" => entries[u] = entry[u]
       /\ t \in list.sessions => entries[t].persisted
       /\ entries[t].detail = "ready" => details[i].ok /\ entries[t].runs = details[i].runs
  <2>1. NoEntry.detail # "ready"
    BY DEF NoEntry
  <2>2. CASE details[i].ok
    BY <1>1, <1>2, <1>3, <1>9, <2>1, <2>2
  <2>3. CASE ~details[i].ok
    BY <1>1, <1>2, <1>3, <2>3
  <2>4. QED
    BY <2>2, <2>3
<1> HIDE DEF entries, requests
<1>11. QED
  BY <1>1, <1>6, <1>7, <1>8, <1>10, CommitFacts

LEMMA ListReturnsFacts ==
  ASSUME TypeInv, NEW i \in ListSlots, ListReturns(i)
  PROVE  LET restored == IF lists[i].answer = {} THEN lists[i].cache ELSE lists[i].answer
         IN  /\ restored \in SUBSET Threads
             /\ i \in InFlight
             /\ list' \in SessionList
             /\ list'.sessions = list.sessions \cup restored
             /\ list'.live = list.live
             /\ list'.active \in RestoredActive(lists[i], restored)
             /\ saved'.active \in {list'.active, saved.active}
             /\ saved'.cache \subseteq list'.sessions \cup saved.cache
             /\ list'.sessions # {} => saved'.active = list'.active
             /\ \A t \in restored : entry'[t].persisted
             /\ \A t \in list.sessions \ restored : entry'[t] = entry[t]
             /\ \A t \in Threads : entry'[t].detail = "ready" =>
                  entry[t].detail = "ready" /\ entry'[t].runs = entry[t].runs
             /\ \A j \in DetailSlots :
                  /\ details'[j].pc = details[j].pc
                  /\ details'[j].thread = details[j].thread
                  /\ details'[j].ok = details[j].ok
                  /\ details'[j].runs = details[j].runs
                  /\ details'[j].latest => details[j].latest
             /\ lists' = [lists EXCEPT ![i] = FreeList]
<1> DEFINE restored == IF lists[i].answer = {} THEN lists[i].cache ELSE lists[i].answer
           kept == [t \in Threads |-> RestoredEntry(t, restored)]
           sessions == list.sessions \cup restored
<1>1. restored \in SUBSET Threads /\ i \in InFlight
  BY DEF ListReturns, InFlight, TypeInv, Typed, ListRequest
<1>2. PICK active \in RestoredActive(lists[i], restored) :
        Commit([list EXCEPT !.sessions = sessions, !.active = active], kept, saved)
  BY DEF ListReturns
<1>3. lists' = [lists EXCEPT ![i] = FreeList]
  BY DEF ListReturns
<1> HIDE DEF restored
<1> DEFINE l == [list EXCEPT !.sessions = sessions, !.active = active]
<1>4. active \in sessions \cup {NoThread}
  BY <1>1, <1>2, RestoredFacts
<1>5. /\ l \in SessionList /\ l.sessions = sessions /\ l.active = active
      /\ l.live = list.live
  BY <1>1, <1>4 DEF TypeInv, Typed, Coherent, SessionList, ThreadOrNone
<1>6. /\ kept \in [Threads -> Entry]
      /\ \A t \in restored : kept[t].there /\ kept[t].persisted
      /\ \A t \in Threads \ restored : kept[t] = entry[t]
      /\ \A t \in Threads : kept[t].detail = "ready" =>
           entry[t].detail = "ready" /\ kept[t].runs = entry[t].runs
  BY <1>1, RestoredFacts
<1> DEFINE entries == Synced(kept, l.sessions)
<1>7. CommitWith(l, entries, saved, details)
  BY <1>2 DEF Commit
<1> HIDE DEF l, kept
<1>8. entries \in [Threads -> Entry]
  BY <1>5, <1>6, SyncedFacts DEF SessionList
<1>9. /\ \A t \in list.sessions \cup restored : entries[t] = kept[t]
      /\ \A t \in Threads \ sessions : entries[t].detail # "ready"
  BY <1>1, <1>5, <1>6 DEF Synced, NoEntry, TypeInv, Typed, Coherent
<1>10. /\ \A t \in restored : entries[t].persisted
       /\ \A t \in list.sessions \ restored : entries[t] = entry[t]
       /\ \A t \in Threads : entries[t].detail = "ready" =>
            entry[t].detail = "ready" /\ entries[t].runs = entry[t].runs
  BY <1>1, <1>6, <1>9 DEF TypeInv, Typed
<1> HIDE DEF entries
<1>11. /\ saved \in SavedShell /\ details \in [DetailSlots -> DetailRequest]
  BY DEF TypeInv, Typed, SavedShell
<1> HIDE DEF sessions
<1>12. QED
  BY <1>1, <1>2, <1>3, <1>5, <1>7, <1>8, <1>10, <1>11, CommitFacts DEF sessions, restored

-----------------------------------------------------------------------------
(* Deletions.                                                               *)

(* The commits of the user and of a settled run.                            *)
LEMMA CommitSaved ==
  ASSUME TypeInv, NEW l \in SessionList, NEW made \in [Threads -> Entry],
         NEW shell \in SavedShell, Commit(l, made, shell)
  PROVE  /\ list' = l
         /\ entry' = Synced(made, l.sessions)
         /\ saved'.active \in {l.active, shell.active}
         /\ saved'.cache \subseteq l.sessions \cup shell.cache
         /\ l.sessions # {} => saved'.active = l.active
         /\ \A i \in DetailSlots :
              /\ details'[i].pc = details[i].pc
              /\ details'[i].thread = details[i].thread
              /\ details'[i].ok = details[i].ok
              /\ details'[i].runs = details[i].runs
              /\ details'[i].latest => details[i].latest
<1>1. l.sessions \in SUBSET Threads
  BY DEF SessionList
<1>2. Synced(made, l.sessions) \in [Threads -> Entry]
  BY <1>1, SyncedFacts
<1>3. details \in [DetailSlots -> DetailRequest]
  BY DEF TypeInv, Typed
<1>4. CommitWith(l, Synced(made, l.sessions), shell, details)
  BY DEF Commit
<1> DEFINE entries == Synced(made, l.sessions)
<1> HIDE DEF entries
<1>5. entries \in [Threads -> Entry] /\ CommitWith(l, entries, shell, details)
  BY <1>2, <1>4 DEF entries
<1>6. QED
  BY <1>3, <1>5, CommitFacts DEF entries

LEMMA ChangedFacts ==
  ASSUME TypeInv, NEW t \in Threads, Settled(t) \/ Activate(t)
  PROVE  /\ list'.sessions = list.sessions /\ list'.live = list.live
         /\ list'.active \in {list.active, t}
         /\ Settled(t) => list' = list
         /\ t \in list.sessions
         /\ saved'.active \in {list'.active, saved.active}
         /\ saved'.cache \subseteq list.sessions \cup saved.cache
         /\ list.sessions # {} => saved'.active = list'.active
         /\ \A u \in Threads : entry'[u].persisted = entry[u].persisted
         /\ \A u \in Threads : entry'[u].detail = "ready" =>
              entry[u].detail = "ready" /\ entry'[u].runs = entry[u].runs
         /\ Settled(t) => entry'[t].detail = "idle"
         /\ \A i \in DetailSlots :
              /\ details'[i].pc = details[i].pc
              /\ details'[i].thread = details[i].thread
              /\ details'[i].ok = details[i].ok
              /\ details'[i].runs = details[i].runs
              /\ details'[i].latest => details[i].latest
              /\ Settled(t) /\ t = list.active /\ details[i].thread = t /\ entry[t].persisted
                 => ~details'[i].latest
<1>1. /\ list \in SessionList /\ entry \in [Threads -> Entry] /\ entry[t] \in Entry
      /\ saved \in SavedShell /\ details \in [DetailSlots -> DetailRequest]
  BY DEF TypeInv, Typed, SessionList, SavedShell
<1>2. ASSUME Settled(t)
      PROVE  /\ [entry EXCEPT ![t].detail = "idle"] \in [Threads -> Entry]
             /\ CommitWith(list, [entry EXCEPT ![t].detail = "idle"], saved, details)
             /\ t \in list.sessions
  <2>1. [entry[t] EXCEPT !.detail = "idle"] \in Entry
    BY <1>1 DEF Entry, Status
  <2>2. QED
    BY <1>1, <1>2, <2>1 DEF Settled
<1>3. /\ [entry EXCEPT ![t].detail = "idle"][t].detail = "idle"
      /\ [entry EXCEPT ![t].detail = "idle"][t].persisted = entry[t].persisted
      /\ \A u \in Threads \ {t} : [entry EXCEPT ![t].detail = "idle"][u] = entry[u]
  BY <1>1 DEF Entry
<1>4. ASSUME Activate(t)
      PROVE  /\ [list EXCEPT !.active = t] \in SessionList
             /\ [entry EXCEPT ![t] = Retried(@)] \in [Threads -> Entry]
             /\ CommitWith([list EXCEPT !.active = t], [entry EXCEPT ![t] = Retried(@)],
                           saved, details)
             /\ t \in list.sessions
  <2>1. Retried(entry[t]) \in Entry
    BY <1>1 DEF Retried, Entry, Status
  <2>2. QED
    BY <1>1, <1>4, <2>1 DEF Activate, SessionList, ThreadOrNone
<1>5. /\ Retried(entry[t]).persisted = entry[t].persisted
      /\ Retried(entry[t]).runs = entry[t].runs
      /\ Retried(entry[t]).detail = "ready" => entry[t].detail = "ready"
  BY <1>1 DEF Retried, Entry
<1> DEFINE Goal(l, entries) ==
             /\ list' = l /\ entry' = entries
             /\ saved'.active \in {l.active, saved.active}
             /\ saved'.cache \subseteq l.sessions \cup saved.cache
             /\ l.sessions # {} => saved'.active = l.active
             /\ \A i \in DetailSlots :
                  /\ details'[i].pc = details[i].pc
                  /\ details'[i].thread = details[i].thread
                  /\ details'[i].ok = details[i].ok
                  /\ details'[i].runs = details[i].runs
                  /\ details'[i].latest => details[i].latest
                  /\ /\ l.active # NoThread
                     /\ details[i].thread = l.active
                     /\ entries[l.active].persisted
                     /\ entries[l.active].detail = "idle"
                     => ~details'[i].latest
<1>6. CASE Settled(t)
  <2> DEFINE entries == [entry EXCEPT ![t].detail = "idle"]
  <2>1. /\ entries \in [Threads -> Entry]
        /\ CommitWith(list, entries, saved, details)
        /\ t \in list.sessions /\ t # NoThread
    BY <1>2, <1>6, ThreadAssumption
  <2>2. /\ entries[t].detail = "idle" /\ entries[t].persisted = entry[t].persisted
        /\ \A u \in Threads \ {t} : entries[u] = entry[u]
    BY <1>3
  <2> HIDE DEF entries
  <2>3. Goal(list, entries)
    BY <1>1, <2>1, CommitFacts
  <2>4. QED
    BY <1>6, <2>1, <2>2, <2>3
<1>7. CASE ~Settled(t) /\ Activate(t)
  <2> DEFINE l == [list EXCEPT !.active = t]
             entries == [entry EXCEPT ![t] = Retried(@)]
  <2>1. l.sessions = list.sessions /\ l.live = list.live /\ l.active = t
    BY <1>1 DEF SessionList
  <2>2. /\ \A u \in Threads : entries[u].persisted = entry[u].persisted
        /\ \A u \in Threads : entries[u].detail = "ready" =>
             entry[u].detail = "ready" /\ entries[u].runs = entry[u].runs
    BY <1>1, <1>5
  <2>3. l \in SessionList /\ entries \in [Threads -> Entry]
          /\ CommitWith(l, entries, saved, details) /\ t \in list.sessions
    BY <1>4, <1>7
  <2> HIDE DEF l, entries
  <2>4. Goal(l, entries)
    BY <1>1, <2>3, CommitFacts
  <2>5. QED
    BY <1>7, <2>1, <2>2, <2>3, <2>4
<1>8. QED
  BY <1>6, <1>7

(* What a creation, a copy and a deletion leave behind.                     *)
LEMMA CreateFacts ==
  ASSUME TypeInv, CreateReturns
  PROVE  /\ op.thread \in Threads
         /\ list'.sessions = list.sessions \cup {op.thread}
         /\ list'.live = list.live \cup {op.thread}
         /\ list'.active = op.thread
         /\ saved'.active = op.thread
         /\ saved'.cache \subseteq list'.sessions \cup saved.cache
         /\ entry' = Synced(entry, list'.sessions)
         /\ \A i \in DetailSlots :
              /\ details'[i].pc = details[i].pc
              /\ details'[i].thread = details[i].thread
              /\ details'[i].ok = details[i].ok
              /\ details'[i].runs = details[i].runs
              /\ details'[i].latest => details[i].latest
<1> DEFINE l == [sessions |-> list.sessions \cup {op.thread},
                 live     |-> list.live \cup {op.thread},
                 active   |-> op.thread]
<1>1. op.thread \in Threads
  BY DEF CreateReturns, TypeInv, Coherent
<1>2. l \in SessionList /\ entry \in [Threads -> Entry] /\ saved \in SavedShell
  BY <1>1 DEF TypeInv, Typed, SessionList, SavedShell, ThreadOrNone
<1>3. Commit(l, entry, saved)
  BY DEF CreateReturns
<1>4. /\ l.sessions = list.sessions \cup {op.thread} /\ l.active = op.thread
      /\ l.live = list.live \cup {op.thread}
  OBVIOUS
<1> HIDE DEF l
<1>5. QED
  BY <1>1, <1>2, <1>3, <1>4, CommitSaved

LEMMA CopyFacts ==
  ASSUME TypeInv, CopyReturns
  PROVE  /\ op.thread \in Threads
         /\ list'.sessions = list.sessions \cup {op.thread}
         /\ list'.live = list.live
         /\ list'.active = op.thread
         /\ saved'.active = op.thread
         /\ saved'.cache \subseteq list'.sessions \cup saved.cache
         /\ entry' = Synced([entry EXCEPT ![op.thread] = StoredEntry], list'.sessions)
         /\ \A i \in DetailSlots :
              /\ details'[i].pc = details[i].pc
              /\ details'[i].thread = details[i].thread
              /\ details'[i].ok = details[i].ok
              /\ details'[i].runs = details[i].runs
              /\ details'[i].latest => details[i].latest
<1> DEFINE l == [list EXCEPT !.sessions = @ \cup {op.thread}, !.active = op.thread]
           made == [entry EXCEPT ![op.thread] = StoredEntry]
<1>1. op.thread \in Threads
  BY DEF CopyReturns, TypeInv, Coherent
<1>2. l \in SessionList /\ made \in [Threads -> Entry] /\ saved \in SavedShell
  BY <1>1, Constants DEF TypeInv, Typed, SessionList, SavedShell, ThreadOrNone
<1>3. Commit(l, made, saved)
  BY DEF CopyReturns
<1>4. l.sessions = list.sessions \cup {op.thread} /\ l.active = op.thread /\ l.live = list.live
  BY DEF TypeInv, Typed
<1> HIDE DEF l, made
<1>5. QED
  BY <1>1, <1>2, <1>3, <1>4, CommitSaved DEF made

LEMMA DeleteFacts ==
  ASSUME TypeInv, DeleteReturns
  PROVE  LET t == op.thread
         IN  /\ t \in Threads
             /\ list'.sessions = list.sessions \ {t}
             /\ list'.live = list.live \ {t}
             /\ list'.active = IF list.active = t THEN NoThread ELSE list.active
             /\ saved'.active \in {list'.active, saved.active, NoThread} \ {t}
             /\ saved'.cache \subseteq (list.sessions \cup saved.cache) \ {t}
             /\ list'.sessions # {} => saved'.active = list'.active
             /\ entry' = Synced([entry EXCEPT ![t] = NoEntry], list'.sessions)
             /\ \A i \in DetailSlots :
                  /\ details'[i].pc = details[i].pc
                  /\ details'[i].thread = details[i].thread
                  /\ details'[i].ok = details[i].ok
                  /\ details'[i].runs = details[i].runs
                  /\ details'[i].latest => details[i].latest
<1> DEFINE t == op.thread
           l == Without(list, t)
           made == [entry EXCEPT ![t] = NoEntry]
           shell == Forgotten(saved, t)
<1>1. t \in Threads /\ t # NoThread
  BY ThreadAssumption DEF DeleteReturns, TypeInv, Coherent
<1>2. l \in SessionList /\ made \in [Threads -> Entry]
  BY <1>1, Constants DEF Without, TypeInv, Typed, SessionList, ThreadOrNone
<1>3. /\ shell \in SavedShell
      /\ shell.active \in {saved.active, NoThread} \ {t}
      /\ shell.cache = saved.cache \ {t}
  BY <1>1 DEF Forgotten, Shell, TypeInv, Typed, SavedShell, ThreadOrNone
<1>4. Commit(l, made, shell)
  BY DEF DeleteReturns
<1>5. /\ l.sessions = list.sessions \ {t} /\ l.live = list.live \ {t}
      /\ l.active = IF list.active = t THEN NoThread ELSE list.active
  BY DEF Without
<1> HIDE DEF l, made, shell
<1>6. QED
  BY <1>1, <1>2, <1>3, <1>4, <1>5, CommitSaved DEF made

(* Every step keeps the list requests from naming a thread they do not name *)
(* already, unless the runtime or the saved shell names it.                 *)
Names(t) == \E i \in InFlight : t \in lists[i].cache \cup lists[i].answer \cup {lists[i].preferred}

LEMMA NamesStep ==
  ASSUME TypeInv, [Next]_vars, NEW t \in Threads, ~Names(t),
         t \notin server.there \cup saved.cache \cup {saved.active}
  PROVE  ~Names(t)'
<1>1. ASSUME UNCHANGED lists PROVE ~Names(t)'
  BY <1>1 DEF Names, InFlight
<1>2. ASSUME lists' = Marked PROVE ~Names(t)'
  BY <1>2, MarkedFacts DEF Names, InFlight, TypeInv, Typed
<1>3. ASSUME NEW i \in ListSlots, lists' = [lists EXCEPT ![i] = FreeList] PROVE ~Names(t)'
  BY <1>3 DEF Names, InFlight, FreeList, TypeInv, Typed
<1>4. ASSUME NEW i \in ListSlots, ListAsk(i) PROVE ~Names(t)'
  <2>1. /\ lists'[i].preferred = saved.active /\ lists'[i].cache = saved.cache
        /\ lists'[i].answer = {}
    BY <1>4 DEF ListAsk, FreeList
  <2>2. \A j \in ListSlots \ {i} : ~lists'[j].latest
    BY <1>4 DEF ListAsk, TypeInv, Typed, ListRequest
  <2>3. QED
    BY <2>1, <2>2 DEF Names, InFlight
<1>5. ASSUME NEW i \in ListSlots, ListRead(i) PROVE ~Names(t)'
  <2>1. /\ lists'[i].preferred = lists[i].preferred /\ lists'[i].cache = lists[i].cache
        /\ lists'[i].answer \in {lists[i].answer, server.there}
        /\ lists'[i].latest = lists[i].latest
        /\ lists[i].pc # "free"
    BY <1>5 DEF ListRead, TypeInv, Typed, ListRequest
  <2>2. \A j \in ListSlots \ {i} : lists'[j] = lists[j]
    BY <1>5 DEF ListRead, TypeInv, Typed
  <2>3. QED
    BY <2>1, <2>2 DEF Names, InFlight
<1>6. ASSUME Reconnect PROVE ~Names(t)'
  <2>1. \A i \in ListSlots : ~lists'[i].latest
    BY <1>6 DEF Reconnect, TypeInv, Typed, ListRequest
  <2>2. QED
    BY <2>1 DEF Names, InFlight
<1>7. \/ UNCHANGED lists \/ lists' = Marked
      \/ \E i \in ListSlots : lists' = [lists EXCEPT ![i] = FreeList]
      \/ \E i \in ListSlots : ListAsk(i) \/ ListRead(i)
      \/ Reconnect
  BY DEF Next, Restoring, Loading, User, Answered, vars, ListReturns, ListFails, ListDropped,
         RetryTimer, CapsAsk, CapsReturn, DetailAsk, DetailRead, DetailReturns, DetailDropped,
         RunEnds, Settled, Activate, CreateAsk, CopyAsk, DeleteAsk, OpServed, CreateReturns,
         CopyReturns, DeleteReturns
<1>8. QED
  BY <1>1, <1>2, <1>3, <1>4, <1>5, <1>6, <1>7

LEMMA DeletedInit == Init => DeletedInv
BY DEF Init, DeletedInv, NoOp

LEMMA DeletedStep ==
  ASSUME TypeInv, DeletedInv, [Next]_vars
  PROVE  DeletedInv'
<1> DEFINE Kept(t) == /\ t \in server'.used \ server'.there
                      /\ t \notin list'.sessions \cup saved'.cache \cup {saved'.active}
                      /\ op'.thread # t
           Service == /\ server'.there \subseteq server'.used
                      /\ op'.kind = "delete" /\ op'.pc = "answered"
                           => op'.thread \in server'.used \ server'.there
           Old == deleted \ raced
<1>1. \A t \in Old : /\ t \in Threads /\ t # NoThread /\ t # list.active
                     /\ Forgets(t)
  BY ThreadAssumption DEF DeletedInv, Forgets, TypeInv, Typed, Coherent
<1>2. \A t \in Old : ~Names(t)'
  BY <1>1, NamesStep DEF Forgets, Names
<1>3. SUFFICES /\ Service
               /\ \A t \in Old : Kept(t)
               /\ \A t \in (deleted' \ raced') \ Old : Kept(t) /\ ~Names(t)'
  BY <1>2 DEF DeletedInv, Forgets, Names
<1> DEFINE Goal == /\ Service
                   /\ \A t \in Old : Kept(t)
                   /\ \A t \in (deleted' \ raced') \ Old : Kept(t) /\ ~Names(t)'
<1>4. ASSUME list'.sessions = list.sessions,
             UNCHANGED <<server, op, deleted, raced>>,
             saved'.active \in {list.active, saved.active},
             saved'.cache \subseteq list.sessions \cup saved.cache
      PROVE  Goal
  BY <1>1, <1>4 DEF DeletedInv, Forgets
<1>5. ASSUME NEW i \in ListSlots, ListReturns(i) PROVE Goal
  <2> DEFINE restored == IF lists[i].answer = {} THEN lists[i].cache ELSE lists[i].answer
  <2>1. /\ i \in InFlight
        /\ restored \in SUBSET Threads
        /\ list'.sessions = list.sessions \cup restored
        /\ list'.active \in RestoredActive(lists[i], restored)
        /\ saved'.active \in {list'.active, saved.active}
        /\ saved'.cache \subseteq list'.sessions \cup saved.cache
    BY <1>5, ListReturnsFacts
  <2>2. \A t \in Old : t \notin restored
    BY <1>1, <2>1 DEF Forgets
  <2>3. list'.active \in list.sessions \cup restored \cup {NoThread}
    BY <2>1, RestoredFacts
  <2>4. \A t \in Old : t \notin list'.sessions /\ t # list'.active
    BY <1>1, <2>1, <2>2, <2>3 DEF Forgets
  <2>5. UNCHANGED <<server, op, deleted, raced>>
    BY <1>5 DEF ListReturns
  <2> HIDE DEF restored
  <2>6. \A t \in Old : Kept(t)
    BY <1>1, <2>1, <2>4, <2>5 DEF Forgets
  <2>7. QED
    BY <2>5, <2>6 DEF DeletedInv
<1>6. ASSUME NEW i \in DetailSlots, DetailReturns(i) PROVE Goal
  <2>1. /\ list' = list
        /\ saved'.active \in {list.active, saved.active}
        /\ saved'.cache \subseteq list.sessions \cup saved.cache
    BY <1>6, DetailReturnsFacts
  <2>2. UNCHANGED <<server, op, deleted, raced>>
    BY <1>6 DEF DetailReturns
  <2>3. QED
    BY <1>4, <2>1, <2>2
<1>7. ASSUME NEW t \in Threads, Settled(t) \/ Activate(t) PROVE Goal
  <2>1. /\ list'.sessions = list.sessions
        /\ list'.active \in list.sessions \cup {list.active}
        /\ saved'.active \in {list'.active, saved.active}
        /\ saved'.cache \subseteq list.sessions \cup saved.cache
    BY <1>7, ChangedFacts
  <2>2. UNCHANGED <<server, op, deleted, raced>>
    BY <1>7 DEF Settled, Activate
  <2>3. QED
    BY <1>1, <2>1, <2>2 DEF DeletedInv, Forgets
<1>8. ASSUME NEW t \in Threads, CopyAsk(t) \/ DeleteAsk(t) PROVE Goal
  BY <1>1, <1>8 DEF CopyAsk, DeleteAsk, DeletedInv, Forgets
<1>9. ASSUME NEW t \in Threads, RunEnds(t) PROVE Goal
  <2>1. server'.used = server.used /\ server'.there = server.there
    BY <1>9 DEF RunEnds, TypeInv, Typed
  <2>2. QED
    BY <1>1, <1>9, <2>1 DEF RunEnds, DeletedInv, Forgets
<1>10. ASSUME OpServed PROVE Goal
  <2>1. UNCHANGED <<list, saved, deleted, raced>>
    BY <1>10 DEF OpServed
  <2>2. CASE UNCHANGED server /\ op' = NoOp
    BY <1>1, <2>1, <2>2 DEF DeletedInv, Forgets, NoOp
  <2>3. CASE /\ op.kind = "delete"
             /\ op.thread \in server.there
             /\ server' = [server EXCEPT !.there = @ \ {op.thread}]
             /\ op' = [op EXCEPT !.pc = "answered"]
    <3>1. /\ server'.there = server.there \ {op.thread} /\ server'.used = server.used
          /\ op'.thread = op.thread
      BY <2>3 DEF TypeInv, Typed
    <3>2. QED
      BY <1>1, <2>1, <2>3, <3>1 DEF DeletedInv, Forgets
  <2>4. ASSUME NEW t \in Threads \ server.used, op.kind \in {"create", "copy"},
               server'.there = server.there \cup {t}, server'.used = server.used \cup {t},
               op' = [op EXCEPT !.thread = t, !.pc = "answered"]
        PROVE  Goal
    <3>1. op'.thread = t /\ op'.kind # "delete"
      BY <2>4 DEF TypeInv, Typed
    <3>2. QED
      BY <1>1, <2>1, <2>4, <3>1 DEF DeletedInv, Forgets
  <2>5. ASSUME NEW t \in Threads \ server.used, op.kind \in {"create", "copy"},
               server' = [there |-> server.there \cup {t}, used |-> server.used \cup {t},
                          runs |-> [server.runs EXCEPT ![t] =
                            IF op.kind = "copy" THEN server.runs[op.thread] ELSE 0]],
               op' = [op EXCEPT !.thread = t, !.pc = "answered"]
        PROVE  Goal
    <3>1. server'.there = server.there \cup {t} /\ server'.used = server.used \cup {t}
      BY <2>5
    <3>2. QED
      BY <2>4, <2>5, <3>1
  <2> HIDE DEF Service, Kept, Old
  <2>6. QED
    BY <1>10, <2>2, <2>3, <2>5 DEF OpServed
<1>11. ASSUME CreateReturns \/ CopyReturns PROVE Goal
  <2>1. /\ list'.sessions = list.sessions \cup {op.thread}
        /\ saved'.active = op.thread
        /\ saved'.cache \subseteq list'.sessions \cup saved.cache
    BY <1>11, CreateFacts, CopyFacts
  <2>2. op' = NoOp /\ UNCHANGED <<server, deleted, raced>>
    BY <1>11 DEF CreateReturns, CopyReturns
  <2>3. QED
    BY <1>1, <2>1, <2>2 DEF DeletedInv, Forgets, NoOp
<1>12. ASSUME DeleteReturns PROVE Goal
  <2>1. /\ op.thread \in Threads /\ op.thread # NoThread
        /\ list'.sessions = list.sessions \ {op.thread}
        /\ list'.active \in {list.active, NoThread}
        /\ saved'.active \in {list'.active, saved.active, NoThread} \ {op.thread}
        /\ saved'.cache \subseteq (list.sessions \cup saved.cache) \ {op.thread}
    BY <1>12, DeleteFacts, ThreadAssumption
  <2>2. /\ op' = NoOp /\ UNCHANGED <<server, lists>>
        /\ deleted' = deleted \cup {op.thread}
        /\ raced' = IF InFlight = {} THEN raced ELSE raced \cup {op.thread}
        /\ op.thread \in server.used \ server.there
    BY <1>12 DEF DeleteReturns, DeletedInv
  <2>3. \A t \in (deleted' \ raced') \ Old : t = op.thread /\ InFlight = {}
    BY <2>2
  <2>4. InFlight = {} => \A t \in Threads : ~Names(t)'
    BY <2>2 DEF Names, InFlight
  <2>5. Service /\ Kept(op.thread) /\ \A t \in Old : Kept(t)
    BY <1>1, <2>1, <2>2 DEF DeletedInv, Forgets, NoOp
  <2> HIDE DEF Service, Kept, Old
  <2>6. QED
    BY <2>1, <2>3, <2>4, <2>5
<1>13. ASSUME NEW i \in ListSlots,
              \/ ListAsk(i) \/ ListRead(i) \/ ListFails(i) \/ ListDropped(i)
              \/ RetryTimer \/ Reconnect
       PROVE  Goal
  BY <1>4, <1>13 DEF ListAsk, ListRead, ListFails, ListDropped, RetryTimer, Reconnect
<1>14. ASSUME NEW t \in Threads, NEW i \in DetailSlots,
              \/ CapsAsk(t) \/ CapsReturn(t) \/ DetailAsk(t, i)
              \/ DetailRead(i) \/ DetailDropped(i)
       PROVE  Goal
  <2>1. /\ list'.sessions = list.sessions
        /\ UNCHANGED <<server, op, deleted, raced, saved>>
    BY <1>14 DEF CapsAsk, CapsReturn, DetailAsk, DetailRead, DetailDropped, TypeInv, Typed
  <2>2. QED
    BY <1>4, <2>1
<1>15. CASE UNCHANGED vars
  BY <1>4, <1>15 DEF vars
<1>16. QED
  <2>1. ListSlots # {} /\ DetailSlots # {} /\ 1 \in ListSlots /\ 1 \in DetailSlots
    BY SlotAssumption DEF ListSlots, DetailSlots
  <2>2. CASE Restoring \/ RetryTimer \/ Reconnect
    BY <1>5, <1>13, <2>1, <2>2 DEF Restoring
  <2>3. CASE Loading
    <3>1. ASSUME NEW t \in Threads, CapsAsk(t) \/ CapsReturn(t) PROVE Goal
      BY <1>14, <2>1, <3>1
    <3>2. ASSUME NEW i \in DetailSlots, DetailRead(i) \/ DetailDropped(i) PROVE Goal
      <4>1. details[i].thread \in Threads
        BY <3>2 DEF DetailRead, DetailDropped, TypeInv, Coherent
      <4>2. QED
        BY <1>14, <3>2, <4>1
    <3>3. QED
      BY <1>6, <1>14, <2>3, <3>1, <3>2 DEF Loading
  <2>4. CASE \E t \in Threads : RunEnds(t) \/ Settled(t)
    BY <1>7, <1>9, <2>4
  <2>5. CASE User
    <3>1. ASSUME CreateAsk PROVE Goal
      BY <1>1, <3>1 DEF CreateAsk, DeletedInv, Forgets
    <3>2. QED
      BY <1>7, <1>8, <2>5, <3>1 DEF User
  <2>6. CASE Answered
    BY <1>10, <1>11, <1>12, <2>6 DEF Answered
  <2>7. QED
    BY <1>15, <2>2, <2>3, <2>4, <2>5, <2>6 DEF Next

(* A deleted session never comes back: neither the list nor what is saved   *)
(* of it names a thread whose deletion has been confirmed, unless a list    *)
(* was under way at that moment.                                            *)
THEOREM DeletedNeverReturns == Spec => []DeletedStaysDeleted
<1>1. DeletedInv => DeletedStaysDeleted
  BY DEF DeletedInv, Forgets, DeletedStaysDeleted
<1>2. TypeInv /\ DeletedInv /\ [Next]_vars => TypeInv' /\ DeletedInv'
  BY TypeStep, DeletedStep
<1>3. QED
  BY TypeInit, DeletedInit, <1>1, <1>2, PTL DEF Spec

-----------------------------------------------------------------------------
(* The session the user has chosen.                                         *)

LEMMA ChosenInit == Init => ChosenInv
BY DEF Init, ChosenInv

(* No step takes the mark or the preference of a list that counts away.     *)
Protected(t) == \A i \in InFlight : lists[i].marked \/ lists[i].preferred = t

LEMMA ProtectedStep ==
  ASSUME TypeInv, [Next]_vars, NEW t \in Threads, Protected(t), saved.active = t
  PROVE  Protected(t)'
<1>1. ASSUME UNCHANGED lists PROVE Protected(t)'
  BY <1>1 DEF Protected, InFlight
<1>2. ASSUME lists' = Marked PROVE Protected(t)'
  BY <1>2, MarkedFacts DEF Protected, InFlight, TypeInv, Typed
<1>3. ASSUME NEW i \in ListSlots, lists' = [lists EXCEPT ![i] = FreeList] PROVE Protected(t)'
  BY <1>3 DEF Protected, InFlight, FreeList, TypeInv, Typed
<1>4. ASSUME NEW i \in ListSlots, ListAsk(i) PROVE Protected(t)'
  <2>1. lists'[i].preferred = saved.active
    BY <1>4 DEF ListAsk, FreeList
  <2>2. \A j \in ListSlots \ {i} : ~lists'[j].latest
    BY <1>4 DEF ListAsk, TypeInv, Typed, ListRequest
  <2>3. QED
    BY <2>1, <2>2 DEF Protected, InFlight
<1>5. ASSUME NEW i \in ListSlots, ListRead(i) PROVE Protected(t)'
  <2>1. /\ lists'[i].preferred = lists[i].preferred /\ lists'[i].marked = lists[i].marked
        /\ lists'[i].latest = lists[i].latest
        /\ lists[i].pc # "free"
    BY <1>5 DEF ListRead, TypeInv, Typed, ListRequest
  <2>2. \A j \in ListSlots \ {i} : lists'[j] = lists[j]
    BY <1>5 DEF ListRead, TypeInv, Typed
  <2>3. QED
    BY <2>1, <2>2 DEF Protected, InFlight
<1>6. ASSUME Reconnect PROVE Protected(t)'
  <2>1. \A i \in ListSlots : ~lists'[i].latest
    BY <1>6 DEF Reconnect, TypeInv, Typed, ListRequest
  <2>2. QED
    BY <2>1 DEF Protected, InFlight
<1>7. \/ UNCHANGED lists \/ lists' = Marked
      \/ \E i \in ListSlots : lists' = [lists EXCEPT ![i] = FreeList]
      \/ \E i \in ListSlots : ListAsk(i) \/ ListRead(i)
      \/ Reconnect
  BY DEF Next, Restoring, Loading, User, Answered, vars, ListReturns, ListFails, ListDropped,
         RetryTimer, CapsAsk, CapsReturn, DetailAsk, DetailRead, DetailReturns, DetailDropped,
         RunEnds, Settled, Activate, CreateAsk, CopyAsk, DeleteAsk, OpServed, CreateReturns,
         CopyReturns, DeleteReturns
<1>8. QED
  BY <1>1, <1>2, <1>3, <1>4, <1>5, <1>6, <1>7

LEMMA ChosenStep ==
  ASSUME TypeInv, ChosenInv, [Next]_vars
  PROVE  ChosenInv'
<1> DEFINE Goal == ChosenInv'
<1>0. chosen # NoThread =>
        /\ chosen \in Threads /\ chosen \in list.live /\ chosen \in list.sessions
        /\ list.active = chosen /\ saved.active = chosen /\ Protected(chosen)
  BY DEF ChosenInv, Protected, TypeInv, Typed, Coherent, ThreadOrNone
<1>2. ASSUME list'.sessions # {} => saved'.active = list'.active,
             chosen' # NoThread => chosen' \in list'.live /\ list'.active = chosen',
             chosen' = chosen
      PROVE  Goal
  <2>1. chosen # NoThread => Protected(chosen)'
    <3>1. ASSUME NEW t \in Threads, t = chosen, chosen # NoThread PROVE Protected(t)'
      BY <1>0, <3>1, ProtectedStep
    <3>2. ASSUME NEW t \in Threads, t = chosen, Protected(t)', chosen' = chosen
          PROVE  Protected(chosen)'
      BY <3>2 DEF Protected
    <3>3. QED
      BY <1>0, <1>2, <3>1, <3>2
  <2>2. QED
    BY <1>2, <2>1 DEF ChosenInv, Protected
<1>3. ASSUME NEW i \in ListSlots, ListReturns(i) PROVE Goal
  <2> DEFINE restored == IF lists[i].answer = {} THEN lists[i].cache ELSE lists[i].answer
  <2>1. /\ i \in InFlight
        /\ restored \in SUBSET Threads
        /\ list'.sessions = list.sessions \cup restored
        /\ list'.live = list.live
        /\ list'.active \in RestoredActive(lists[i], restored)
        /\ list'.sessions # {} => saved'.active = list'.active
    BY <1>3, ListReturnsFacts
  <2>2. chosen' = chosen
    BY <1>3 DEF ListReturns
  <2> HIDE DEF restored
  <2>3. chosen # NoThread => list'.active = chosen
    <3> SUFFICES ASSUME chosen # NoThread PROVE list'.active = chosen
      OBVIOUS
    <3>1. lists[i].marked \/ lists[i].preferred = chosen
      BY <1>0, <2>1 DEF Protected
    <3>2. CASE list.active \notin restored \/ lists[i].marked
      <4>1. RestoredActive(lists[i], restored) = {list.active}
        BY <1>0, <2>1, <3>2, RestoredFacts
      <4>2. QED
        BY <1>0, <2>1, <4>1
    <3>3. CASE ~(list.active \notin restored \/ lists[i].marked)
      BY <1>0, <2>1, <3>1, <3>3, RestoredFacts
    <3>4. QED
      BY <3>2, <3>3
  <2>4. QED
    BY <1>0, <1>2, <2>1, <2>2, <2>3
<1>4. ASSUME NEW i \in DetailSlots, DetailReturns(i) PROVE Goal
  <2>1. list' = list /\ (list.sessions # {} => saved'.active = list.active)
    BY <1>4, DetailReturnsFacts
  <2>2. chosen' = chosen
    BY <1>4 DEF DetailReturns
  <2>3. QED
    BY <1>0, <1>2, <2>1, <2>2
<1>5. ASSUME NEW t \in Threads, Settled(t) PROVE Goal
  <2>1. list' = list /\ (list.sessions # {} => saved'.active = list.active)
    BY <1>5, ChangedFacts
  <2>2. chosen' = chosen
    BY <1>5 DEF Settled
  <2>3. QED
    BY <1>0, <1>2, <2>1, <2>2
<1>6. ASSUME NEW t \in Threads, Activate(t) PROVE Goal
  <2>1. /\ list'.sessions = list.sessions /\ list'.live = list.live
        /\ t \in list.sessions
        /\ list.sessions # {} => saved'.active = list'.active
    BY <1>6, ChangedFacts
  <2>2. list'.active = t
    BY <1>6 DEF Activate, CommitWith, TypeInv, Typed
  <2>3. CASE HistoryShell(t)
    BY <1>6, <2>1, <2>3 DEF Activate, ChosenInv
  <2>4. CASE ~HistoryShell(t)
    <3>1. t \in list.live
      BY <2>1, <2>4 DEF HistoryShell
    <3>2. \A i \in InFlight' : lists'[i].marked
      BY <1>6, <2>4, MarkedFacts DEF Activate, InFlight, TypeInv, Typed
    <3>3. QED
      BY <1>6, <2>1, <2>2, <2>4, <3>1, <3>2 DEF Activate, ChosenInv
  <2>5. QED
    BY <2>3, <2>4
<1>7. ASSUME CreateReturns PROVE Goal
  <2>1. /\ list'.live = list.live \cup {op.thread}
        /\ list'.active = op.thread /\ saved'.active = op.thread
    BY <1>7, CreateFacts
  <2>2. /\ UNCHANGED lists
        /\ chosen' = IF \A i \in InFlight : lists[i].marked THEN op.thread ELSE NoThread
    BY <1>7 DEF CreateReturns
  <2>3. QED
    BY <2>1, <2>2 DEF ChosenInv, InFlight
<1>8. ASSUME CopyReturns PROVE Goal
  <2>1. list'.active = op.thread /\ saved'.active = op.thread /\ chosen' = NoThread
    BY <1>8, CopyFacts DEF CopyReturns
  <2>2. QED
    BY <2>1 DEF ChosenInv
<1>9. ASSUME DeleteReturns PROVE Goal
  <2>1. /\ list'.live = list.live \ {op.thread}
        /\ list'.active = IF list.active = op.thread THEN NoThread ELSE list.active
        /\ list'.sessions # {} => saved'.active = list'.active
    BY <1>9, DeleteFacts
  <2>2. chosen' = IF chosen = op.thread THEN NoThread ELSE chosen
    BY <1>9 DEF DeleteReturns
  <2>3. CASE chosen' = NoThread
    BY <2>1, <2>3 DEF ChosenInv
  <2>4. CASE chosen' # NoThread
    BY <1>0, <1>2, <2>1, <2>2, <2>4
  <2>5. QED
    BY <2>3, <2>4
<1>10. ASSUME UNCHANGED <<list, saved, chosen>> PROVE Goal
  BY <1>0, <1>2, <1>10 DEF ChosenInv
<1>11. ASSUME NEW t \in Threads, CapsReturn(t) PROVE Goal
  <2>1. /\ list'.sessions = list.sessions /\ list'.active = list.active
        /\ list.live \subseteq list'.live
        /\ UNCHANGED <<saved, chosen>>
    BY <1>11 DEF CapsReturn, TypeInv, Typed
  <2>2. QED
    BY <1>0, <1>2, <2>1 DEF ChosenInv
<1>12. CASE Restoring \/ RetryTimer \/ Reconnect
  BY <1>3, <1>10, <1>12 DEF Restoring, ListAsk, ListRead, ListFails, ListDropped, RetryTimer,
                            Reconnect
<1>13. CASE Loading
  BY <1>4, <1>10, <1>11, <1>13 DEF Loading, CapsAsk, DetailAsk, DetailRead, DetailDropped
<1>14. CASE \E t \in Threads : RunEnds(t) \/ Settled(t)
  BY <1>5, <1>10, <1>14 DEF RunEnds
<1>15. CASE User
  BY <1>6, <1>10, <1>15 DEF User, CopyAsk, DeleteAsk, CreateAsk
<1>16. CASE Answered
  BY <1>7, <1>8, <1>9, <1>10, <1>16 DEF Answered, OpServed
<1>17. CASE UNCHANGED vars
  BY <1>10, <1>17 DEF vars
<1>18. QED
  BY <1>12, <1>13, <1>14, <1>15, <1>16, <1>17 DEF Next

(* A live session the user has opened stays open whatever lists arrive      *)
(* later.                                                                   *)
THEOREM ChosenIsKept == Spec => []ChosenStaysOpen
<1>1. TypeInv /\ ChosenInv => ChosenStaysOpen
  BY ThreadAssumption DEF TypeInv, Typed, ChosenInv, ChosenStaysOpen
<1>2. TypeInv /\ ChosenInv /\ [Next]_vars => TypeInv' /\ ChosenInv'
  BY TypeStep, ChosenStep
<1>3. QED
  BY TypeInit, ChosenInit, <1>1, <1>2, PTL DEF Spec

-----------------------------------------------------------------------------
(* The detail shown.                                                        *)

SameRequests ==
  \A i \in DetailSlots : /\ details'[i].pc = details[i].pc
                         /\ details'[i].thread = details[i].thread
                         /\ details'[i].ok = details[i].ok
                         /\ details'[i].runs = details[i].runs
                         /\ details'[i].latest => details[i].latest

Listed(t) == \E i \in ListSlots : t \in lists[i].cache \cup lists[i].answer

LEMMA ListedStep ==
  ASSUME TypeInv, [Next]_vars, NEW t \in Threads, ~Listed(t),
         t \notin server.there \cup saved.cache
  PROVE  ~Listed(t)'
<1>1. ASSUME UNCHANGED lists PROVE ~Listed(t)'
  BY <1>1 DEF Listed
<1>2. ASSUME lists' = Marked PROVE ~Listed(t)'
  BY <1>2, MarkedFacts DEF Listed, TypeInv, Typed
<1>3. ASSUME NEW i \in ListSlots, lists' = [lists EXCEPT ![i] = FreeList] PROVE ~Listed(t)'
  BY <1>3 DEF Listed, FreeList, TypeInv, Typed
<1>4. ASSUME NEW i \in ListSlots, ListAsk(i) PROVE ~Listed(t)'
  <2>1. lists'[i].cache = saved.cache /\ lists'[i].answer = {}
    BY <1>4 DEF ListAsk, FreeList
  <2>2. \A j \in ListSlots \ {i} : /\ lists'[j].cache = lists[j].cache
                                   /\ lists'[j].answer = lists[j].answer
    BY <1>4 DEF ListAsk, TypeInv, Typed, ListRequest
  <2>3. QED
    BY <2>1, <2>2 DEF Listed
<1>5. ASSUME NEW i \in ListSlots, ListRead(i) PROVE ~Listed(t)'
  <2>1. /\ lists'[i].cache = lists[i].cache
        /\ lists'[i].answer \in {lists[i].answer, server.there}
    BY <1>5 DEF ListRead, TypeInv, Typed, ListRequest
  <2>2. \A j \in ListSlots \ {i} : lists'[j] = lists[j]
    BY <1>5 DEF ListRead, TypeInv, Typed
  <2>3. QED
    BY <2>1, <2>2 DEF Listed
<1>6. ASSUME Reconnect PROVE ~Listed(t)'
  <2>1. \A i \in ListSlots : lists'[i].cache = lists[i].cache /\ lists'[i].answer = lists[i].answer
    BY <1>6 DEF Reconnect, TypeInv, Typed, ListRequest
  <2>2. QED
    BY <2>1 DEF Listed
<1>7. \/ UNCHANGED lists \/ lists' = Marked
      \/ \E i \in ListSlots : lists' = [lists EXCEPT ![i] = FreeList]
      \/ \E i \in ListSlots : ListAsk(i) \/ ListRead(i)
      \/ Reconnect
  BY DEF Next, Restoring, Loading, User, Answered, vars, ListReturns, ListFails, ListDropped,
         RetryTimer, CapsAsk, CapsReturn, DetailAsk, DetailRead, DetailReturns, DetailDropped,
         RunEnds, Settled, Activate, CreateAsk, CopyAsk, DeleteAsk, OpServed, CreateReturns,
         CopyReturns, DeleteReturns
<1>8. QED
  BY <1>1, <1>2, <1>3, <1>4, <1>5, <1>6, <1>7

LEMMA UsedInit == Init => UsedInv
<1> SUFFICES ASSUME Init PROVE UsedInv
  OBVIOUS
<1>1. \A t \in Threads \ server.used : Unknown(t)
  BY DEF Init, Unknown, NoEntry, FreeDetail, FreeList, Shell
<1>2. QED
  BY <1>1, ThreadAssumption DEF Init, UsedInv, NoOp

LEMMA UsedStep ==
  ASSUME TypeInv, UsedInv, [Next]_vars
  PROVE  UsedInv'
<1> DEFINE Never == Threads \ server.used
           Fresh(t) == /\ t \notin list'.sessions
                       /\ entry'[t].detail # "ready"
                       /\ \A i \in DetailSlots : details'[i].pc = "free" \/ details'[i].thread # t
                       /\ t \notin saved'.cache
           Service == /\ server'.there \subseteq server'.used
                      /\ server.used \subseteq server'.used
                      /\ op'.thread \in Threads => op'.thread \in server'.used
           Goal == Service /\ \A t \in Never : Fresh(t)
<1>1. \A t \in Never : Unknown(t) /\ t # op.thread
  BY DEF UsedInv
<1>2. \A t \in Never : ~Listed(t)'
  <2>1. \A t \in Never : t \notin server.there \cup saved.cache /\ ~Listed(t)
    BY <1>1 DEF UsedInv, Unknown, Listed
  <2>2. QED
    BY <2>1, ListedStep
<1>3. SUFFICES Goal
  BY <1>2 DEF UsedInv, Unknown, Listed
<1>4. ASSUME list'.sessions = list.sessions, UNCHANGED <<server, op>>,
             saved'.cache \subseteq list.sessions \cup saved.cache, SameRequests,
             \A t \in Threads : entry'[t].detail = "ready" => entry[t].detail = "ready"
      PROVE  Goal
  BY <1>1, <1>4 DEF UsedInv, Unknown, SameRequests
<1>5. ASSUME NEW i \in ListSlots, ListReturns(i) PROVE Goal
  <2> DEFINE restored == IF lists[i].answer = {} THEN lists[i].cache ELSE lists[i].answer
  <2>1. /\ list'.sessions = list.sessions \cup restored
        /\ saved'.cache \subseteq list'.sessions \cup saved.cache
        /\ SameRequests
        /\ \A t \in Threads : entry'[t].detail = "ready" => entry[t].detail = "ready"
    BY <1>5, ListReturnsFacts DEF SameRequests
  <2>2. \A t \in Never : t \notin restored
    BY <1>1 DEF Unknown
  <2>3. UNCHANGED <<server, op>>
    BY <1>5 DEF ListReturns
  <2> HIDE DEF restored
  <2>4. QED
    BY <1>1, <2>1, <2>2, <2>3 DEF UsedInv, Unknown, SameRequests
<1>6. ASSUME NEW i \in DetailSlots, DetailReturns(i) PROVE Goal
  <2> DEFINE t == details[i].thread
  <2>1. /\ t \in Threads
        /\ list' = list
        /\ saved'.cache \subseteq list.sessions \cup saved.cache
        /\ \A u \in Threads \ {t} : entry'[u].detail = "ready" => entry'[u] = entry[u]
        /\ details'[i].pc = "free"
        /\ \A j \in DetailSlots \ {i} : /\ details'[j].pc = details[j].pc
                                        /\ details'[j].thread = details[j].thread
    BY <1>6, DetailReturnsFacts
  <2>2. t \in server.used /\ UNCHANGED <<server, op>>
    BY <1>1, <1>6, <2>1 DEF DetailReturns, Unknown
  <2> HIDE DEF t
  <2>3. QED
    BY <1>1, <2>1, <2>2 DEF UsedInv, Unknown
<1>7. ASSUME NEW t \in Threads, Settled(t) \/ Activate(t) PROVE Goal
  <2>1. /\ list'.sessions = list.sessions
        /\ saved'.cache \subseteq list.sessions \cup saved.cache
        /\ SameRequests
        /\ \A u \in Threads : entry'[u].detail = "ready" => entry[u].detail = "ready"
    BY <1>7, ChangedFacts DEF SameRequests
  <2>2. UNCHANGED <<server, op>>
    BY <1>7 DEF Settled, Activate
  <2>3. QED
    BY <1>4, <2>1, <2>2
<1>8. ASSUME CreateAsk \/ \E t \in Threads : CopyAsk(t) \/ DeleteAsk(t) PROVE Goal
  BY <1>1, <1>8, ThreadAssumption DEF CopyAsk, DeleteAsk, CreateAsk, UsedInv, Unknown
<1>9. ASSUME NEW t \in Threads, RunEnds(t) PROVE Goal
  <2>1. server'.used = server.used /\ server'.there = server.there
    BY <1>9 DEF RunEnds, TypeInv, Typed
  <2>2. QED
    BY <1>1, <1>9, <2>1 DEF RunEnds, UsedInv, Unknown
<1>10. ASSUME OpServed PROVE Goal
  <2>1. UNCHANGED <<list, saved, entry, details>>
    BY <1>10 DEF OpServed
  <2>2. \A t \in Never : Fresh(t)
    BY <1>1, <2>1 DEF Unknown
  <2>3. CASE UNCHANGED server /\ op' = NoOp
    BY <2>2, <2>3, ThreadAssumption DEF UsedInv, NoOp
  <2>4. CASE /\ op.kind = "delete"
             /\ server' = [server EXCEPT !.there = @ \ {op.thread}]
             /\ op' = [op EXCEPT !.pc = "answered"]
    <3>1. /\ server'.there = server.there \ {op.thread} /\ server'.used = server.used
          /\ op'.thread = op.thread
      BY <2>4 DEF TypeInv, Typed
    <3>2. QED
      BY <2>2, <3>1 DEF UsedInv
  <2>5. ASSUME NEW t \in Threads \ server.used,
               server' = [there |-> server.there \cup {t}, used |-> server.used \cup {t},
                          runs |-> [server.runs EXCEPT ![t] =
                            IF op.kind = "copy" THEN server.runs[op.thread] ELSE 0]],
               op' = [op EXCEPT !.thread = t, !.pc = "answered"]
        PROVE  Goal
    <3>1. /\ server'.there = server.there \cup {t} /\ server'.used = server.used \cup {t}
          /\ op'.thread = t
      BY <2>5 DEF TypeInv, Typed
    <3>2. QED
      BY <2>2, <3>1 DEF UsedInv
  <2> HIDE DEF Service, Fresh, Never
  <2>6. QED
    BY <1>10, <2>3, <2>4, <2>5 DEF OpServed
<1>11. ASSUME CreateReturns PROVE Goal
  <2>1. /\ op.thread \in Threads
        /\ list'.sessions = list.sessions \cup {op.thread}
        /\ saved'.cache \subseteq list'.sessions \cup saved.cache
        /\ entry' = Synced(entry, list'.sessions)
        /\ SameRequests
    BY <1>11, CreateFacts DEF SameRequests
  <2>2. \A t \in Threads : entry'[t].detail = "ready" => entry[t].detail = "ready"
    BY <2>1 DEF Synced, NoEntry, LiveEntry
  <2>3. op' = NoOp /\ UNCHANGED server
    BY <1>11 DEF CreateReturns
  <2>4. op'.thread \notin Threads
    BY <2>3, ThreadAssumption DEF NoOp
  <2>5. \A t \in Never : t \notin list'.sessions /\ t \notin saved'.cache
    BY <1>1, <2>1 DEF Unknown
  <2>6. \A t \in Never : \A i \in DetailSlots : details'[i].pc = "free" \/ details'[i].thread # t
    BY <1>1, <2>1 DEF Unknown, SameRequests
  <2>7. \A t \in Never : entry'[t].detail # "ready"
    BY <1>1, <2>2 DEF Unknown
  <2>8. Service
    BY <2>3, <2>4 DEF UsedInv
  <2> HIDE DEF Service, Never
  <2>9. QED
    BY <2>5, <2>6, <2>7, <2>8
<1>12. ASSUME CopyReturns PROVE Goal
  <2>1. /\ op.thread \in Threads
        /\ list'.sessions = list.sessions \cup {op.thread}
        /\ saved'.cache \subseteq list'.sessions \cup saved.cache
        /\ entry' = Synced([entry EXCEPT ![op.thread] = StoredEntry], list'.sessions)
        /\ SameRequests
    BY <1>12, CopyFacts DEF SameRequests
  <2>2. \A t \in Threads : entry'[t].detail = "ready" => entry[t].detail = "ready"
    BY <2>1 DEF Synced, NoEntry, LiveEntry, StoredEntry, TypeInv, Typed
  <2>3. op' = NoOp /\ UNCHANGED server
    BY <1>12 DEF CopyReturns
  <2>4. op'.thread \notin Threads
    BY <2>3, ThreadAssumption DEF NoOp
  <2>5. \A t \in Never : t \notin list'.sessions /\ t \notin saved'.cache
    BY <1>1, <2>1 DEF Unknown
  <2>6. \A t \in Never : \A i \in DetailSlots : details'[i].pc = "free" \/ details'[i].thread # t
    BY <1>1, <2>1 DEF Unknown, SameRequests
  <2>7. \A t \in Never : entry'[t].detail # "ready"
    BY <1>1, <2>2 DEF Unknown
  <2>8. Service
    BY <2>3, <2>4 DEF UsedInv
  <2> HIDE DEF Service, Never
  <2>9. QED
    BY <2>5, <2>6, <2>7, <2>8
<1>13. ASSUME DeleteReturns PROVE Goal
  <2>1. /\ op.thread \in Threads
        /\ list'.sessions = list.sessions \ {op.thread}
        /\ saved'.cache \subseteq (list.sessions \cup saved.cache) \ {op.thread}
        /\ entry' = Synced([entry EXCEPT ![op.thread] = NoEntry], list'.sessions)
        /\ SameRequests
    BY <1>13, DeleteFacts DEF SameRequests
  <2>2. \A t \in Threads : entry'[t].detail = "ready" => entry[t].detail = "ready"
    BY <2>1 DEF Synced, NoEntry, LiveEntry, TypeInv, Typed
  <2>3. op' = NoOp /\ UNCHANGED server
    BY <1>13 DEF DeleteReturns
  <2>4. op'.thread \notin Threads
    BY <2>3, ThreadAssumption DEF NoOp
  <2>5. \A t \in Never : t \notin list'.sessions /\ t \notin saved'.cache
    BY <1>1, <2>1 DEF Unknown
  <2>6. \A t \in Never : \A i \in DetailSlots : details'[i].pc = "free" \/ details'[i].thread # t
    BY <1>1, <2>1 DEF Unknown, SameRequests
  <2>7. \A t \in Never : entry'[t].detail # "ready"
    BY <1>1, <2>2 DEF Unknown
  <2>8. Service
    BY <2>3, <2>4 DEF UsedInv
  <2> HIDE DEF Service, Never
  <2>9. QED
    BY <2>5, <2>6, <2>7, <2>8
<1>14. ASSUME UNCHANGED <<list, entry, saved, details, server, op>> PROVE Goal
  BY <1>4, <1>14 DEF SameRequests
<1>15. ASSUME NEW t \in Threads, CapsAsk(t) \/ CapsReturn(t) PROVE Goal
  <2>1. list'.sessions = list.sessions /\ UNCHANGED <<saved, details, server, op>>
    BY <1>15 DEF CapsAsk, CapsReturn, TypeInv, Typed
  <2>2. \A u \in Threads : entry'[u].detail = entry[u].detail
    BY <1>15 DEF CapsAsk, CapsReturn, TypeInv, Typed, Entry
  <2>3. QED
    BY <1>4, <2>1, <2>2 DEF SameRequests
<1>16. ASSUME NEW t \in Threads, NEW i \in DetailSlots, DetailAsk(t, i) PROVE Goal
  <2>1. t \in server.used
    BY <1>1, <1>16, ThreadAssumption DEF DetailAsk, Unknown, TypeInv, Coherent
  <2>2. \A j \in DetailSlots : \/ details'[j].thread = t
                               \/ /\ details'[j].pc = details[j].pc
                                  /\ details'[j].thread = details[j].thread
    BY <1>16 DEF DetailAsk, TypeInv, Typed, DetailRequest, FreeDetail
  <2>3. \A u \in Threads : entry'[u].detail = "ready" => entry[u].detail = "ready"
    BY <1>16 DEF DetailAsk, TypeInv, Typed, Entry
  <2>4. UNCHANGED <<list, saved, server, op>>
    BY <1>16 DEF DetailAsk
  <2>5. QED
    BY <1>1, <2>1, <2>2, <2>3, <2>4 DEF UsedInv, Unknown
<1>17. ASSUME NEW i \in DetailSlots, DetailRead(i) \/ DetailDropped(i) PROVE Goal
  <2>1. details[i].pc # "free" /\ details'[i].pc # "free" => details'[i].thread = details[i].thread
    BY <1>17 DEF DetailRead, DetailDropped, TypeInv, Typed, DetailRequest, FreeDetail
  <2>2. details[i].pc # "free" /\ \A j \in DetailSlots \ {i} : details'[j] = details[j]
    BY <1>17 DEF DetailRead, DetailDropped, TypeInv, Typed
  <2>3. UNCHANGED <<list, saved, server, op, entry>>
    BY <1>17 DEF DetailRead, DetailDropped
  <2>4. QED
    BY <1>1, <2>1, <2>2, <2>3 DEF UsedInv, Unknown
<1> HIDE DEF Goal
<1>18. CASE Restoring \/ RetryTimer \/ Reconnect
  BY <1>5, <1>14, <1>18 DEF Restoring, ListAsk, ListRead, ListFails, ListDropped, RetryTimer,
                            Reconnect
<1>19. CASE Loading
  BY <1>6, <1>15, <1>16, <1>17, <1>19 DEF Loading
<1>20. CASE \E t \in Threads : RunEnds(t) \/ Settled(t)
  BY <1>7, <1>9, <1>20
<1>21. CASE User
  BY <1>7, <1>8, <1>21 DEF User
<1>22. CASE Answered
  BY <1>10, <1>11, <1>12, <1>13, <1>22 DEF Answered
<1>23. CASE UNCHANGED vars
  BY <1>14, <1>23 DEF vars
<1>24. QED
  BY <1>18, <1>19, <1>20, <1>21, <1>22, <1>23 DEF Next

LEMMA FreshInit == Init => FreshInv
<1> SUFFICES ASSUME Init PROVE FreshInv
  OBVIOUS
<1>1. \A t \in Threads : told[t] = 0 /\ server.runs[t] = 0 /\ entry[t].detail # "ready"
  BY DEF Init, NoEntry
<1>2. \A i \in DetailSlots : details[i].pc = "free"
  BY DEF Init, FreeDetail
<1>3. list.sessions = {} /\ op.kind # "create"
  BY DEF Init, NoOp
<1>4. QED
  BY <1>1, <1>2, <1>3 DEF FreshInv

(* What a step has to keep.                                                 *)
TellsTrue == \A t \in Threads : told[t] <= server.runs[t]

StoredWhileLoading ==
  /\ \A t \in list.sessions : LoadingDetail(t) => entry[t].persisted
  /\ op.kind = "create" /\ op.pc = "answered" /\ op.thread \notin list.sessions
     => ~LoadingDetail(op.thread)

ReadyIsFresh ==
  \A t \in Threads \ stale : entry[t].detail = "ready" => entry[t].runs >= told[t]

AnswersAreFresh ==
  \A i \in DetailSlots :
    details[i].pc = "answered" /\ details[i].latest /\ details[i].ok
      /\ details[i].thread \notin stale
    => details[i].runs >= told[details[i].thread]

LEMMA FreshParts ==
  FreshInv <=> TellsTrue /\ StoredWhileLoading /\ ReadyIsFresh /\ AnswersAreFresh
BY DEF FreshInv, TellsTrue, StoredWhileLoading, ReadyIsFresh, AnswersAreFresh

LEMMA FreshStep ==
  ASSUME TypeInv, UsedInv, FreshInv, [Next]_vars
  PROVE  FreshInv'
<1> DEFINE Goal == TellsTrue' /\ StoredWhileLoading' /\ ReadyIsFresh' /\ AnswersAreFresh'
<1>0. TellsTrue /\ StoredWhileLoading /\ ReadyIsFresh /\ AnswersAreFresh
  BY FreshParts
<1>1. SUFFICES Goal
  BY FreshParts, PTL
<1>2. ASSUME SameRequests, NEW t \in Threads, LoadingDetail(t)'
      PROVE  LoadingDetail(t)
  BY <1>2 DEF SameRequests, LoadingDetail
<1>3. ASSUME SameRequests, UNCHANGED <<told, stale>> PROVE AnswersAreFresh'
  <2>1. ASSUME NEW i \in DetailSlots, details'[i].pc = "answered", details'[i].latest,
               details'[i].ok, details'[i].thread \notin stale
        PROVE  details'[i].runs >= told[details'[i].thread]
    BY <1>0, <1>3, <2>1 DEF SameRequests, AnswersAreFresh
  <2>2. QED
    BY <1>3, <2>1 DEF AnswersAreFresh
<1>4. ASSUME UNCHANGED <<told, stale>>,
             \A t \in Threads : entry'[t].detail = "ready" =>
               entry[t].detail = "ready" /\ entry'[t].runs = entry[t].runs
      PROVE  ReadyIsFresh'
  BY <1>0, <1>4 DEF ReadyIsFresh
<1>5. ASSUME list'.sessions = list.sessions, SameRequests, op' = op,
             \A t \in Threads : entry[t].persisted => entry'[t].persisted
      PROVE  StoredWhileLoading'
  <2>1. ASSUME NEW t \in list'.sessions, LoadingDetail(t)' PROVE entry'[t].persisted
    BY <1>0, <1>2, <1>5, <2>1 DEF StoredWhileLoading, TypeInv, Typed
  <2>2. ASSUME op'.kind = "create", op'.pc = "answered", op'.thread \notin list'.sessions
        PROVE  ~LoadingDetail(op.thread)'
    <3>1. ~LoadingDetail(op.thread)
      BY <1>0, <1>5, <2>2 DEF StoredWhileLoading
    <3>2. QED
      BY <1>5, <3>1 DEF SameRequests, LoadingDetail
  <2>3. QED
    BY <1>5, <2>1, <2>2 DEF StoredWhileLoading
<1>6. ASSUME UNCHANGED <<told, server>> PROVE TellsTrue'
  BY <1>0, <1>6 DEF TellsTrue
<1>7. ASSUME NEW i \in ListSlots, ListReturns(i) PROVE Goal
  <2> DEFINE restored == IF lists[i].answer = {} THEN lists[i].cache ELSE lists[i].answer
  <2>1. /\ restored \in SUBSET Threads
        /\ list'.sessions = list.sessions \cup restored
        /\ \A t \in restored : entry'[t].persisted
        /\ \A t \in list.sessions \ restored : entry'[t] = entry[t]
        /\ \A t \in Threads : entry'[t].detail = "ready" =>
             entry[t].detail = "ready" /\ entry'[t].runs = entry[t].runs
        /\ SameRequests
    BY <1>7, ListReturnsFacts DEF SameRequests
  <2>2. UNCHANGED <<server, told, stale, op>>
    BY <1>7 DEF ListReturns
  <2> HIDE DEF restored
  <2>3. ASSUME NEW t \in list'.sessions, LoadingDetail(t)' PROVE entry'[t].persisted
    <3>1. t \in restored \/ (t \in list.sessions \ restored /\ t \in Threads)
      BY <2>1 DEF TypeInv, Typed
    <3>2. QED
      BY <1>0, <1>2, <2>1, <2>3, <3>1 DEF StoredWhileLoading
  <2>4. ASSUME op.kind = "create", op.pc = "answered", op.thread \notin list'.sessions
        PROVE  ~LoadingDetail(op.thread)'
    <3>1. ~LoadingDetail(op.thread)
      BY <1>0, <2>1, <2>4 DEF StoredWhileLoading
    <3>2. QED
      BY <2>1, <2>2, <3>1 DEF SameRequests, LoadingDetail
  <2>5. StoredWhileLoading'
    BY <2>2, <2>3, <2>4 DEF StoredWhileLoading
  <2>6. QED
    BY <1>3, <1>4, <1>6, <2>1, <2>2, <2>5
<1>8. ASSUME NEW i \in DetailSlots, DetailReturns(i) PROVE Goal
  <2> DEFINE t == details[i].thread
  <2>1. /\ t \in Threads
        /\ list' = list
        /\ \A u \in Threads \ {t} : u \in list.sessions => entry'[u] = entry[u]
        /\ \A u \in Threads \ {t} : entry'[u].detail = "ready" => entry'[u] = entry[u]
        /\ t \in list.sessions => entry'[t].persisted
        /\ entry'[t].detail = "ready" => details[i].ok /\ entry'[t].runs = details[i].runs
        /\ details'[i].pc = "free"
        /\ \A j \in DetailSlots \ {i} : /\ details'[j].pc = details[j].pc
                                        /\ details'[j].thread = details[j].thread
                                        /\ details'[j].ok = details[j].ok
                                        /\ details'[j].runs = details[j].runs
                                        /\ details'[j].latest => details[j].latest
    BY <1>8, DetailReturnsFacts
  <2>2. /\ details[i].pc = "answered" /\ details[i].latest
        /\ UNCHANGED <<server, told, stale, op>>
    BY <1>8 DEF DetailReturns
  <2>3. t \notin stale /\ entry'[t].detail = "ready" => entry'[t].runs >= told[t]
    BY <1>0, <2>1, <2>2 DEF AnswersAreFresh
  <2> HIDE DEF t
  <2>4. ReadyIsFresh'
    <3>1. ASSUME NEW u \in Threads \ stale, entry'[u].detail = "ready"
          PROVE  entry'[u].runs >= told[u]
      BY <1>0, <2>1, <2>3, <3>1 DEF ReadyIsFresh
    <3>2. QED
      BY <2>2, <3>1 DEF ReadyIsFresh
  <2>5. ASSUME NEW j \in DetailSlots, details'[j].pc = "answered", details'[j].latest,
               details'[j].ok, details'[j].thread \notin stale
        PROVE  details'[j].runs >= told[details'[j].thread]
    BY <1>0, <2>1, <2>5 DEF AnswersAreFresh
  <2>6. AnswersAreFresh'
    BY <2>2, <2>5 DEF AnswersAreFresh
  <2>7. ASSUME NEW u \in Threads, LoadingDetail(u)' PROVE LoadingDetail(u)
    BY <2>1, <2>7 DEF LoadingDetail
  <2>8. ASSUME NEW u \in list'.sessions, LoadingDetail(u)' PROVE entry'[u].persisted
    BY <1>0, <2>1, <2>7, <2>8 DEF StoredWhileLoading, TypeInv, Typed
  <2>9. ASSUME op.kind = "create", op.pc = "answered", op.thread \notin list'.sessions
        PROVE  ~LoadingDetail(op.thread)'
    <3>1. ~LoadingDetail(op.thread)
      BY <1>0, <2>1, <2>9 DEF StoredWhileLoading
    <3>2. QED
      BY <2>1, <2>2, <3>1 DEF LoadingDetail
  <2>10. StoredWhileLoading'
    BY <2>2, <2>8, <2>9 DEF StoredWhileLoading
  <2>11. QED
    BY <1>6, <2>2, <2>4, <2>6, <2>10
<1>9. ASSUME NEW t \in Threads, Activate(t) PROVE Goal
  <2>1. /\ list'.sessions = list.sessions /\ SameRequests
        /\ \A u \in Threads : entry'[u].persisted = entry[u].persisted
        /\ \A u \in Threads : entry'[u].detail = "ready" =>
             entry[u].detail = "ready" /\ entry'[u].runs = entry[u].runs
    BY <1>9, ChangedFacts DEF SameRequests
  <2>2. UNCHANGED <<server, told, stale, op>>
    BY <1>9 DEF Activate
  <2>3. QED
    BY <1>3, <1>4, <1>5, <1>6, <2>1, <2>2
<1>10. ASSUME NEW t \in Threads, Settled(t) PROVE Goal
  <2>1. /\ list' = list /\ SameRequests /\ t \in list.sessions
        /\ \A u \in Threads : entry'[u].persisted = entry[u].persisted
        /\ \A u \in Threads : entry'[u].detail = "ready" =>
             entry[u].detail = "ready" /\ entry'[u].runs = entry[u].runs
        /\ entry'[t].detail = "idle"
        /\ \A i \in DetailSlots :
             t = list.active /\ details[i].thread = t /\ entry[t].persisted
             => ~details'[i].latest
    BY <1>10, ChangedFacts DEF SameRequests
  <2>2. /\ UNCHANGED <<server, op>>
        /\ told' = [told EXCEPT ![t] = server.runs[t]]
        /\ stale' = IF t # list.active /\ LoadingDetail(t) THEN stale \cup {t} ELSE stale
    BY <1>10 DEF Settled
  <2>3. /\ \A u \in Threads \ {t} : told'[u] = told[u]
        /\ told'[t] = server.runs[t]
        /\ \A u \in Threads : server.runs[u] \in 0 .. MaxRuns
    BY <2>2 DEF TypeInv, Typed
  <2>4. TellsTrue'
    BY <1>0, <2>2, <2>3, BoundAssumption DEF TellsTrue
  <2>5. ReadyIsFresh'
    <3>1. ASSUME NEW u \in Threads \ stale', entry'[u].detail = "ready"
          PROVE  entry'[u].runs >= told'[u]
      <4>1. u # t /\ u \notin stale
        BY <2>1, <2>2, <3>1
      <4>2. QED
        BY <1>0, <2>1, <2>3, <3>1, <4>1 DEF ReadyIsFresh
    <3>2. QED
      BY <3>1 DEF ReadyIsFresh
  <2>6. ASSUME t \notin stale', NEW i \in DetailSlots, details'[i].pc # "free",
               details'[i].latest, details'[i].thread = t
        PROVE  FALSE
    <3>1. details[i].pc # "free" /\ details[i].latest /\ details[i].thread = t
      BY <2>1, <2>6 DEF SameRequests
    <3>2. LoadingDetail(t) /\ t = list.active
      BY <2>2, <2>6, <3>1 DEF LoadingDetail
    <3>3. entry[t].persisted
      BY <1>0, <2>1, <3>2 DEF StoredWhileLoading
    <3>4. QED
      BY <2>1, <2>6, <3>1, <3>2, <3>3
  <2>7. ASSUME NEW i \in DetailSlots, details'[i].pc = "answered", details'[i].latest,
               details'[i].ok, details'[i].thread \notin stale'
        PROVE  details'[i].runs >= told'[details'[i].thread]
    <3>1. details'[i].thread # t
      BY <2>6, <2>7
    <3>2. /\ details[i].pc = "answered" /\ details[i].latest /\ details[i].ok
          /\ details[i].thread = details'[i].thread /\ details[i].runs = details'[i].runs
          /\ details[i].thread \notin stale
      BY <2>1, <2>2, <2>7 DEF SameRequests
    <3>3. details[i].thread \in Threads
      BY <3>2 DEF TypeInv, Coherent
    <3>4. QED
      BY <1>0, <2>3, <3>1, <3>2, <3>3 DEF AnswersAreFresh
  <2>8. AnswersAreFresh'
    BY <2>7 DEF AnswersAreFresh
  <2>9. QED
    BY <1>5, <2>1, <2>2, <2>4, <2>5, <2>8
<1>11. ASSUME CreateAsk \/ \E t \in Threads : CopyAsk(t) \/ DeleteAsk(t) PROVE Goal
  <2>1. /\ UNCHANGED <<list, entry, details, server, told, stale>>
        /\ op'.pc = "asked"
    BY <1>11 DEF CreateAsk, CopyAsk, DeleteAsk
  <2>2. SameRequests /\ StoredWhileLoading'
    BY <1>0, <2>1 DEF SameRequests, StoredWhileLoading, LoadingDetail
  <2>3. QED
    BY <1>3, <1>4, <1>6, <2>1, <2>2
<1>12. ASSUME NEW t \in Threads, RunEnds(t) PROVE Goal
  <2>1. UNCHANGED <<list, entry, details, told, stale, op>>
    BY <1>12 DEF RunEnds
  <2>2. SameRequests
    BY <2>1 DEF SameRequests
  <2>3. /\ server'.runs[t] = server.runs[t] + 1
        /\ \A u \in Threads \ {t} : server'.runs[u] = server.runs[u]
        /\ \A u \in Threads : server.runs[u] \in Nat /\ told[u] \in Nat
    BY <1>12, BoundAssumption DEF RunEnds, TypeInv, Typed
  <2>4. TellsTrue'
    BY <1>0, <2>1, <2>3 DEF TellsTrue
  <2>5. QED
    BY <1>3, <1>4, <1>5, <2>1, <2>2, <2>4
<1>13. ASSUME OpServed PROVE Goal
  <2>1. UNCHANGED <<list, entry, details, stale>>
    BY <1>13 DEF OpServed
  <2>2. SameRequests
    BY <2>1 DEF SameRequests
  <2>3. CASE UNCHANGED <<server, told>> /\ op' = NoOp
    <3>1. StoredWhileLoading'
      BY <1>0, <2>1, <2>3 DEF StoredWhileLoading, LoadingDetail, NoOp
    <3>2. QED
      BY <1>3, <1>4, <1>6, <2>1, <2>2, <2>3, <3>1
  <2>4. CASE /\ op.kind = "delete" /\ UNCHANGED told
             /\ server' = [server EXCEPT !.there = @ \ {op.thread}]
             /\ op' = [op EXCEPT !.pc = "answered"]
    <3>1. server'.runs = server.runs /\ op'.kind = "delete"
      BY <2>4 DEF TypeInv, Typed
    <3>2. StoredWhileLoading' /\ TellsTrue'
      BY <1>0, <2>1, <2>4, <3>1 DEF StoredWhileLoading, LoadingDetail, TellsTrue
    <3>3. QED
      BY <1>3, <1>4, <2>1, <2>2, <2>4, <3>2
  <2>5. ASSUME NEW t \in Threads \ server.used,
               server' = [there |-> server.there \cup {t}, used |-> server.used \cup {t},
                          runs |-> [server.runs EXCEPT ![t] =
                            IF op.kind = "copy" THEN server.runs[op.thread] ELSE 0]],
               op' = [op EXCEPT !.thread = t, !.pc = "answered"],
               told' = [told EXCEPT ![t] = server'.runs[t]]
        PROVE  Goal
    <3>1. Unknown(t)
      BY DEF UsedInv
    <3>2. /\ server'.runs = [server.runs EXCEPT ![t] =
               IF op.kind = "copy" THEN server.runs[op.thread] ELSE 0]
          /\ op'.thread = t
      BY <2>5 DEF TypeInv, Typed
    <3>3. /\ \A u \in Threads \ {t} : server'.runs[u] = server.runs[u] /\ told'[u] = told[u]
          /\ told'[t] = server'.runs[t]
      BY <2>5, <3>2 DEF TypeInv, Typed
    <3>4. \A u \in Threads : server'.runs[u] \in 0 .. MaxRuns
      BY TypeStep DEF TypeInv, Typed
    <3>5. TellsTrue'
      BY <1>0, <3>3, <3>4, BoundAssumption DEF TellsTrue
    <3>6. ReadyIsFresh'
      BY <1>0, <2>1, <3>1, <3>3 DEF ReadyIsFresh, Unknown
    <3>7. \A i \in DetailSlots : details[i].pc = "answered" =>
            details[i].thread \in Threads \ {t}
      BY <3>1 DEF Unknown, TypeInv, Coherent
    <3>8. AnswersAreFresh'
      BY <1>0, <2>1, <3>3, <3>7 DEF AnswersAreFresh
    <3>9. StoredWhileLoading'
      BY <1>0, <2>1, <3>1, <3>2 DEF StoredWhileLoading, LoadingDetail, Unknown
    <3>10. QED
      BY <3>5, <3>6, <3>8, <3>9
  <2> HIDE DEF Goal
  <2>6. QED
    BY <1>13, <2>3, <2>4, <2>5 DEF OpServed
<1>14. ASSUME op' = NoOp, SameRequests, UNCHANGED <<server, told, stale>>,
              \A t \in list'.sessions : LoadingDetail(t) => entry'[t].persisted,
              \A t \in Threads : entry'[t].detail = "ready" =>
                entry[t].detail = "ready" /\ entry'[t].runs = entry[t].runs
       PROVE  Goal
  <2>1. list'.sessions \subseteq Threads
    BY TypeStep DEF TypeInv, Typed
  <2>2. ASSUME NEW t \in list'.sessions, LoadingDetail(t)' PROVE entry'[t].persisted
    BY <1>2, <1>14, <2>1, <2>2
  <2>3. op'.kind = "none"
    BY <1>14 DEF NoOp
  <2>4. StoredWhileLoading'
    BY <2>2, <2>3 DEF StoredWhileLoading
  <2>5. QED
    BY <1>3, <1>4, <1>6, <1>14, <2>4
<1>15. ASSUME CreateReturns PROVE Goal
  <2>1. /\ op.thread \in Threads
        /\ list'.sessions = list.sessions \cup {op.thread}
        /\ entry' = Synced(entry, list'.sessions)
        /\ SameRequests
    BY <1>15, CreateFacts DEF SameRequests
  <2>2. \A t \in Threads : entry'[t].detail = "ready" =>
          entry[t].detail = "ready" /\ entry'[t].runs = entry[t].runs
    BY <2>1 DEF Synced, NoEntry, LiveEntry
  <2>3. \A t \in list.sessions : t \in Threads /\ entry'[t] = entry[t]
    BY <2>1 DEF Synced, TypeInv, Typed, Coherent
  <2>4. op.thread \notin list.sessions => ~LoadingDetail(op.thread)
    BY <1>0, <1>15 DEF StoredWhileLoading, CreateReturns
  <2>5. \A t \in list'.sessions : LoadingDetail(t) => entry'[t].persisted
    BY <1>0, <2>1, <2>3, <2>4 DEF StoredWhileLoading
  <2>6. op' = NoOp /\ UNCHANGED <<server, told, stale>>
    BY <1>15 DEF CreateReturns
  <2>7. QED
    BY <1>14, <2>1, <2>2, <2>5, <2>6
<1>16. ASSUME CopyReturns PROVE Goal
  <2>1. /\ op.thread \in Threads
        /\ list'.sessions = list.sessions \cup {op.thread}
        /\ entry' = Synced([entry EXCEPT ![op.thread] = StoredEntry], list'.sessions)
        /\ SameRequests
    BY <1>16, CopyFacts DEF SameRequests
  <2>2. \A t \in Threads : entry'[t].detail = "ready" =>
          entry[t].detail = "ready" /\ entry'[t].runs = entry[t].runs
    BY <2>1 DEF Synced, NoEntry, LiveEntry, StoredEntry, TypeInv, Typed
  <2>3. /\ \A t \in list.sessions \ {op.thread} : t \in Threads /\ entry'[t] = entry[t]
        /\ entry'[op.thread].persisted
    BY <2>1 DEF Synced, TypeInv, Typed, Coherent, StoredEntry, NoEntry
  <2>4. \A t \in list'.sessions : LoadingDetail(t) => entry'[t].persisted
    BY <1>0, <2>1, <2>3 DEF StoredWhileLoading
  <2>5. op' = NoOp /\ UNCHANGED <<server, told, stale>>
    BY <1>16 DEF CopyReturns
  <2>6. QED
    BY <1>14, <2>1, <2>2, <2>4, <2>5
<1>17. ASSUME DeleteReturns PROVE Goal
  <2>1. /\ op.thread \in Threads
        /\ list'.sessions = list.sessions \ {op.thread}
        /\ entry' = Synced([entry EXCEPT ![op.thread] = NoEntry], list'.sessions)
        /\ SameRequests
    BY <1>17, DeleteFacts DEF SameRequests
  <2>2. \A t \in Threads : entry'[t].detail = "ready" =>
          entry[t].detail = "ready" /\ entry'[t].runs = entry[t].runs
    BY <2>1 DEF Synced, NoEntry, LiveEntry, TypeInv, Typed
  <2>3. \A t \in list'.sessions : t \in Threads /\ entry'[t] = entry[t]
    BY <2>1 DEF Synced, TypeInv, Typed, Coherent
  <2>4. \A t \in list'.sessions : LoadingDetail(t) => entry'[t].persisted
    BY <1>0, <2>1, <2>3 DEF StoredWhileLoading
  <2>5. op' = NoOp /\ UNCHANGED <<server, told, stale>>
    BY <1>17 DEF DeleteReturns
  <2>6. QED
    BY <1>14, <2>1, <2>2, <2>4, <2>5
<1>18. ASSUME UNCHANGED <<list, entry, details, server, told, stale, op>> PROVE Goal
  BY <1>3, <1>4, <1>5, <1>6, <1>18 DEF SameRequests
<1>19. ASSUME NEW t \in Threads, CapsAsk(t) \/ CapsReturn(t) PROVE Goal
  <2>1. list'.sessions = list.sessions /\ UNCHANGED <<details, server, told, stale, op>>
    BY <1>19 DEF CapsAsk, CapsReturn, TypeInv, Typed
  <2>2. \A u \in Threads : /\ entry'[u].detail = entry[u].detail
                           /\ entry'[u].runs = entry[u].runs
                           /\ entry'[u].persisted = entry[u].persisted
    BY <1>19 DEF CapsAsk, CapsReturn, TypeInv, Typed, Entry
  <2>3. SameRequests
    BY <2>1 DEF SameRequests
  <2>4. QED
    BY <1>3, <1>4, <1>5, <1>6, <2>1, <2>2, <2>3
<1>20. ASSUME NEW t \in Threads, NEW i \in DetailSlots, DetailAsk(t, i) PROVE Goal
  <2>1. /\ details'[i].pc = "asked" /\ details'[i].thread = t
        /\ \A j \in DetailSlots \ {i} : /\ details'[j].pc = details[j].pc
                                        /\ details'[j].thread = details[j].thread
                                        /\ details'[j].ok = details[j].ok
                                        /\ details'[j].runs = details[j].runs
                                        /\ details'[j].latest => details[j].latest
    <3>1. details'[i].pc = "asked" /\ details'[i].thread = t
      BY <1>20 DEF DetailAsk, FreeDetail
    <3>2. \A j \in DetailSlots \ {i} : \/ details'[j] = details[j]
                                      \/ details'[j] = [details[j] EXCEPT !.latest = FALSE]
      BY <1>20 DEF DetailAsk
    <3>3. \A j \in DetailSlots : details[j] \in DetailRequest
      BY DEF TypeInv, Typed
    <3>4. QED
      BY <3>1, <3>2, <3>3 DEF DetailRequest
  <2>2. \A u \in Threads : /\ entry'[u].detail = "ready" => entry[u].detail = "ready"
                           /\ entry'[u].runs = entry[u].runs
                           /\ entry'[u].persisted = entry[u].persisted
    BY <1>20 DEF DetailAsk, TypeInv, Typed, Entry
  <2>3. UNCHANGED <<list, server, told, stale, op>> /\ entry[t].persisted
    BY <1>20 DEF DetailAsk
  <2>4. ASSUME NEW j \in DetailSlots, details'[j].pc = "answered", details'[j].latest,
               details'[j].ok, details'[j].thread \notin stale
        PROVE  details'[j].runs >= told[details'[j].thread]
    BY <1>0, <2>1, <2>4 DEF AnswersAreFresh
  <2>5. AnswersAreFresh'
    BY <2>3, <2>4 DEF AnswersAreFresh
  <2>6. ASSUME NEW u \in Threads, u # t, LoadingDetail(u)' PROVE LoadingDetail(u)
    BY <2>1, <2>6 DEF LoadingDetail
  <2>7. ASSUME NEW u \in list.sessions, LoadingDetail(u)' PROVE entry'[u].persisted
    BY <1>0, <2>2, <2>3, <2>6, <2>7 DEF StoredWhileLoading, TypeInv, Typed
  <2>8. t \in list.sessions
    BY <1>20, ThreadAssumption DEF DetailAsk, TypeInv, Coherent
  <2>9. ASSUME op.kind = "create", op.pc = "answered", op.thread \notin list.sessions
        PROVE  ~LoadingDetail(op.thread)'
    <3>1. ~LoadingDetail(op.thread) /\ op.thread # t
      BY <1>0, <2>8, <2>9 DEF StoredWhileLoading
    <3>2. QED
      BY <2>1, <2>3, <3>1 DEF LoadingDetail
  <2>10. StoredWhileLoading'
    BY <2>3, <2>7, <2>9 DEF StoredWhileLoading
  <2>11. QED
    BY <1>4, <1>6, <2>2, <2>3, <2>5, <2>10
<1>21. ASSUME NEW i \in DetailSlots, DetailRead(i) PROVE Goal
  <2>1. /\ details[i].pc = "asked" /\ details[i].thread \in Threads
        /\ details'[i].thread = details[i].thread
        /\ details'[i].runs = server.runs[details[i].thread]
        /\ details'[i].latest = details[i].latest
        /\ \A j \in DetailSlots \ {i} : details'[j] = details[j]
    BY <1>21 DEF DetailRead, TypeInv, Typed, Coherent, DetailRequest
  <2>2. UNCHANGED <<list, entry, server, told, stale, op>>
    BY <1>21 DEF DetailRead
  <2>3. told[details[i].thread] <= server.runs[details[i].thread]
    BY <1>0, <2>1 DEF TellsTrue
  <2>4. /\ server.runs[details[i].thread] \in Nat /\ told[details[i].thread] \in Nat
    BY <2>1, BoundAssumption DEF TypeInv, Typed
  <2>5. ASSUME NEW j \in DetailSlots, details'[j].pc = "answered", details'[j].latest,
               details'[j].ok, details'[j].thread \notin stale
        PROVE  details'[j].runs >= told[details'[j].thread]
    BY <1>0, <2>1, <2>3, <2>4, <2>5 DEF AnswersAreFresh
  <2>6. AnswersAreFresh'
    BY <2>2, <2>5 DEF AnswersAreFresh
  <2>7. ASSUME NEW u \in Threads, LoadingDetail(u)' PROVE LoadingDetail(u)
    BY <2>1, <2>7 DEF LoadingDetail
  <2>8. ASSUME op.kind = "create", op.pc = "answered", op.thread \notin list.sessions
        PROVE  ~LoadingDetail(op.thread)'
    <3>1. ~LoadingDetail(op.thread)
      BY <1>0, <2>8 DEF StoredWhileLoading
    <3>2. QED
      BY <2>1, <2>2, <3>1 DEF LoadingDetail
  <2>9. StoredWhileLoading'
    BY <1>0, <2>2, <2>7, <2>8 DEF StoredWhileLoading, TypeInv, Typed
  <2>10. QED
    BY <1>4, <1>6, <2>2, <2>6, <2>9
<1>22. ASSUME NEW i \in DetailSlots, DetailDropped(i) PROVE Goal
  <2>1. /\ details'[i].pc = "free"
        /\ \A j \in DetailSlots \ {i} : details'[j] = details[j]
    BY <1>22 DEF DetailDropped, TypeInv, Typed, FreeDetail
  <2>2. UNCHANGED <<list, entry, server, told, stale, op>>
    BY <1>22 DEF DetailDropped
  <2>3. AnswersAreFresh'
    BY <1>0, <2>1, <2>2 DEF AnswersAreFresh
  <2>4. ASSUME NEW u \in Threads, LoadingDetail(u)' PROVE LoadingDetail(u)
    BY <2>1, <2>4 DEF LoadingDetail
  <2>5. ASSUME op.kind = "create", op.pc = "answered", op.thread \notin list.sessions
        PROVE  ~LoadingDetail(op.thread)'
    <3>1. ~LoadingDetail(op.thread)
      BY <1>0, <2>5 DEF StoredWhileLoading
    <3>2. QED
      BY <2>1, <2>2, <3>1 DEF LoadingDetail
  <2>6. StoredWhileLoading'
    BY <1>0, <2>2, <2>4, <2>5 DEF StoredWhileLoading, TypeInv, Typed
  <2>7. QED
    BY <1>4, <1>6, <2>2, <2>3, <2>6
<1> HIDE DEF Goal
<1>23. CASE Restoring \/ RetryTimer \/ Reconnect
  BY <1>7, <1>18, <1>23 DEF Restoring, ListAsk, ListRead, ListFails, ListDropped, RetryTimer,
                            Reconnect
<1>24. CASE Loading
  BY <1>8, <1>19, <1>20, <1>21, <1>22, <1>24 DEF Loading
<1>25. CASE \E t \in Threads : RunEnds(t) \/ Settled(t)
  BY <1>10, <1>12, <1>25
<1>26. CASE User
  BY <1>9, <1>11, <1>26 DEF User
<1>27. CASE Answered
  BY <1>13, <1>15, <1>16, <1>17, <1>27 DEF Answered
<1>28. CASE UNCHANGED vars
  BY <1>18, <1>28 DEF vars
<1>29. QED
  BY <1>23, <1>24, <1>25, <1>26, <1>27, <1>28 DEF Next

(* A detail shown as loaded contains every run the panel has reported,      *)
(* except in a session that settled out of sight while its detail was being *)
(* loaded.                                                                  *)
THEOREM ShownDetailIsFresh == Spec => []DetailIsFresh
<1>1. FreshInv => DetailIsFresh
  BY DEF FreshInv, DetailIsFresh
<1>2. TypeInv /\ UsedInv /\ FreshInv /\ [Next]_vars => TypeInv' /\ UsedInv' /\ FreshInv'
  BY TypeStep, UsedStep, FreshStep
<1>3. QED
  BY TypeInit, UsedInit, FreshInit, <1>1, <1>2, PTL DEF Spec

===============================================================================
