----------------------------- MODULE ThreadStore -----------------------------
(***************************************************************************)
(* The SQLite session store of the Copilot runtime                         *)
(* (backend/app/copilot_runtime/persistence): threads, runs and run        *)
(* events, the "truth", and the cached projections of runs and threads.    *)
(*                                                                         *)
(* The event loop opens threads, starts runs and records what they do; the *)
(* worker threads that serve the history routes rename, copy, delete, save *)
(* and restore.  Every operation is one transaction.  SQLite takes the     *)
(* write lock at the first INSERT, UPDATE or DELETE, so what a transaction *)
(* read before that may be out of date when it writes.  Starting a run,    *)
(* renaming and copying read the thread first and are two steps here.  The *)
(* others are one: beforehand they read the row of a run, which no worker  *)
(* but a deletion or a restore touches, and whether a row exists, which    *)
(* the constraints of the tables decide again.                             *)
(***************************************************************************)
EXTENDS RunRecord, FiniteSetsExt, SequencesExt

CONSTANTS Threads, RunIds, Workers,
          Null,         \* no row, no value, no transaction
          Kinds,        \* the kinds of events recorded in this instance
          Overlap,      \* a transaction may begin while another one is open
          MaxTime,      \* bounds the clock, and with it the transactions
          MaxEvents,    \* bounds the events of one run
          BackupTimes   \* bounds the backups: the instants they are taken at

VARIABLES db,        \* the committed database
          pending,   \* actor |-> the transaction that has read and not yet written
          now,       \* the clock: the instant of the latest transaction
          backup     \* the database in the backup file

vars == <<db, pending, now, backup>>

Actors == {"loop"} \cup Workers

(***************************************************************************)
(* The tables.                                                             *)
(***************************************************************************)
(* The title a user has never touched is the default one or the text of    *)
(* the first request, named by the run that brought it.                    *)
Titles == {"default", "renamed", "copy"} \cup RunIds

ThreadRow == [title  : Titles,
              source : {"deterministic", "manual"},
              last   : RunIds \cup {Null},
              updated : Nat]

(* ask: the request, shared by a run and its copies.  ended: 0 is NULL.     *)
(* The log of the record is empty: the events are rows of their own.        *)
RunRow == [thread : Threads, ask : RunIds, rec : {rec \in Record : rec.log = << >>},
           created : Nat, updated : Nat, ended : Nat]

(* owner: the run named by the message and tool call ids of the payload.    *)
EventRow == [run : RunIds, seq : Nat, kind : Kinds, owner : RunIds]

RunCacheRow == [text : BOOLEAN, items : Nat,
                status : Status \cup {Null}, event : TerminalEvent \cup {Null}]

ThreadCacheRow == [status : Status \cup {Null}, activity : Nat, title : Titles]

Database == [threads     : [Threads -> ThreadRow \cup {Null}],
             runs        : [RunIds -> RunRow \cup {Null}],
             events      : SUBSET EventRow,
             runCache    : [RunIds -> RunCacheRow \cup {Null}],
             threadCache : [Threads -> ThreadCacheRow \cup {Null}]]

(* A transaction that has read a thread and not yet written.                *)
Transaction == [operation : {"create_run", "rename", "duplicate"},
                thread : Threads, loaded : ThreadRow]

ASSUME StoreAssumption ==
  /\ Kinds \subseteq RunEvent
  /\ Overlap \in BOOLEAN
  /\ MaxTime \in Nat /\ MaxEvents \in Nat /\ BackupTimes \subseteq Nat
  /\ "loop" \notin Workers
  /\ Null \notin RunIds \cup Status \cup ThreadRow \cup RunRow \cup RunCacheRow
                \cup ThreadCacheRow \cup Database \cup Transaction
  /\ Null \notin Seq(Record) \cup [Threads -> Seq(Record) \cup {Null}]

EmptyDatabase == [threads     |-> [t \in Threads |-> Null],
                  runs        |-> [r \in RunIds |-> Null],
                  events      |-> {},
                  runCache    |-> [r \in RunIds |-> Null],
                  threadCache |-> [t \in Threads |-> Null]]

HasThread(d, t) == d.threads[t] # Null

FreeRuns(d) == {r \in RunIds : d.runs[r] = Null}

RunsOf(d, t) == {r \in RunIds \ FreeRuns(d) : d.runs[r].thread = t}

EventsOf(d, r) == {e \in d.events : e.run = r}

RowsOf(d, t) == [r \in RunsOf(d, t) |-> d.runs[r]]

(* The elements of S in the order of their keys, which differ.              *)
InOrder(S, key) ==
  [i \in 1 .. Cardinality(S) |->
     CHOOSE x \in S : Cardinality({y \in S : key[y] < key[x]}) = i - 1]

(* list_for_thread lists by creation.  No two runs of a thread are created  *)
(* at the same instant, so the id never decides.                            *)
ListedRuns(d, t) == InOrder(RunsOf(d, t), [r \in RunsOf(d, t) |-> d.runs[r].created])

FirstRun(rows) ==
  CHOOSE r \in DOMAIN rows : \A q \in DOMAIN rows : rows[r].created <= rows[q].created

LastRun(rows) ==
  CHOOSE r \in DOMAIN rows : \A q \in DOMAIN rows : rows[q].created <= rows[r].created

(* list_for_run: by sequence number.                                       *)
ListedEvents(d, r) == InOrder(EventsOf(d, r), [e \in EventsOf(d, r) |-> e.seq])

NextSeq(d, r) == Max({0} \cup {e.seq : e \in EventsOf(d, r)}) + 1

(***************************************************************************)
(* The projections.                                                        *)
(***************************************************************************)
(* The terminal state names the last terminal event recorded, or none when *)
(* the run has ended without one; the status is the run's at this moment.  *)
RunProjection(rec, events) ==
  LET ends  == {e \in events : e.kind \in TerminalEvent}
      final == CHOOSE e \in ends : \A f \in ends : f.seq <= e.seq
  IN  [text   |-> rec.text \/ \E e \in events : e.kind = "text_delta",
       items  |-> Cardinality(events),
       status |-> IF ends # {} \/ IsTerminal(rec) THEN rec.status ELSE Null,
       event  |-> IF ends # {} THEN final.kind ELSE Null]

BuildRunProjection(d, r) == RunProjection(d.runs[r].rec, EventsOf(d, r))

RefreshRun(d, r) == [d EXCEPT !.runCache[r] = BuildRunProjection(d, r)]

Activity(row) == IF row.ended # 0 THEN row.ended ELSE row.updated

Earlier(a, b) ==
  \/ Activity(a) < Activity(b)
  \/ Activity(a) = Activity(b) /\ a.updated < b.updated
  \/ Activity(a) = Activity(b) /\ a.updated = b.updated /\ a.created <= b.created

(* The run last_run_id points to, otherwise the most recently active one.  *)
LatestRun(rows, last) ==
  CASE last \in DOMAIN rows -> last
    [] DOMAIN rows = {}     -> Null
    [] OTHER -> CHOOSE r \in DOMAIN rows : \A q \in DOMAIN rows : Earlier(rows[q], rows[r])

(* A title that is not the user's follows the first request of the thread. *)
Titled(rows, thread) ==
  IF thread.source = "manual" \/ DOMAIN rows = {} THEN thread
  ELSE [thread EXCEPT !.title = rows[FirstRun(rows)].ask]

ThreadProjection(rows, thread) ==
  LET latest == LatestRun(rows, thread.last)
  IN  [status   |-> IF latest = Null THEN Null ELSE rows[latest].rec.status,
       activity |-> IF latest = Null THEN thread.updated ELSE Activity(rows[latest]),
       title    |-> thread.title]

(* Only the columns the transaction changed since it loaded the row are    *)
(* written: the others keep what another transaction committed meanwhile.  *)
WriteBack(row, loaded, changed) ==
  [c \in DOMAIN row |-> IF changed[c] # loaded[c] THEN changed[c] ELSE row[c]]

(* refresh_thread_in_transaction on the thread as the transaction sees it. *)
RefreshThread(d, t, loaded, thread) ==
  LET shown == Titled(RowsOf(d, t), thread)
  IN  [d EXCEPT !.threads[t]     = WriteBack(@, loaded, shown),
                !.threadCache[t] = ThreadProjection(RowsOf(d, t), shown)]

(* touch_for_run: the thread takes the time of the run, not of the clock.  *)
TouchForRun(thread, r, instant) == [thread EXCEPT !.last = r, !.updated = instant]

(* The last lines of every operation on a run.                              *)
Refreshed(d, t, r, loaded) ==
  RefreshThread(RefreshRun(d, r), t, loaded,
                TouchForRun(loaded, r, d.runs[r].updated))

(* rebuild_all.                                                            *)
Rebuilt(d) ==
  LET runsDone == [d EXCEPT !.runCache = [r \in RunIds |->
                     IF d.runs[r] = Null THEN d.runCache[r] ELSE BuildRunProjection(d, r)]]
      refreshed(t) == RefreshThread(runsDone, t, d.threads[t], d.threads[t])
  IN  [runsDone EXCEPT
        !.threads = [t \in Threads |->
           IF HasThread(d, t) THEN refreshed(t).threads[t] ELSE d.threads[t]],
        !.threadCache = [t \in Threads |->
           IF HasThread(d, t) THEN refreshed(t).threadCache[t] ELSE d.threadCache[t]]]

(***************************************************************************)
(* What the transactions write.  instant is the datetime.now of each.      *)
(***************************************************************************)
(* Faulty variant: a thread without a title, as get_or_create_thread makes. *)
NewUntitledThread(instant) ==
  [title |-> Null, source |-> "deterministic", last |-> Null, updated |-> instant]

NewThread(instant) ==
  [title |-> "default", source |-> "deterministic", last |-> Null, updated |-> instant]

AddThread(d, t, row) == RefreshThread([d EXCEPT !.threads[t] = row], t, row, row)

NewRun(t, r, instant) ==
  [thread |-> t, ask |-> r, rec |-> NewRecord,
   created |-> instant, updated |-> instant, ended |-> 0]

AddRun(d, t, r, loaded, instant) ==
  Refreshed([d EXCEPT !.runs[r] = NewRun(t, r, instant)], t, r, loaded)

(* Faulty variant: the cache of the thread is not refreshed.                *)
ChangeRunUncached(d, r, row, events) ==
  [d EXCEPT !.runs[r] = row, !.events = events,
            !.runCache[r] = BuildRunProjection([d EXCEPT !.runs[r] = row, !.events = events], r),
            !.threads[row.thread].last = r]

(* The run is written first, so the thread is read under the write lock.    *)
ChangeRun(d, r, row, events) ==
  LET t == row.thread
  IN  Refreshed([d EXCEPT !.runs[r] = row, !.events = events], t, r, d.threads[t])

AddEvent(d, r, kind, instant) ==
  ChangeRun(d, r, [d.runs[r] EXCEPT !.updated = instant],
            d.events \cup {[run |-> r, seq |-> NextSeq(d, r), kind |-> kind, owner |-> r]})

(* Faulty variants: the copy of a run starts with the default status, the   *)
(* copy of an event keeps the ids of its source.                            *)
CopiedRunAsNew(d, t, u, r, instant) ==
  [d.runs[r] EXCEPT !.thread = u, !.rec = NewRecord, !.updated = instant]

ClonedEventKeepingIds(e, copyOf) == [e EXCEPT !.run = copyOf[e.run]]

(* copyOf: the id of the copy of each run of the source.  The latest run is *)
(* the last one started; only its copy carries the time of the copying.     *)
CopiedRun(d, t, u, r, instant) ==
  LET latest == LastRun(RowsOf(d, t)) = r
  IN  [d.runs[r] EXCEPT !.thread  = u,
                        !.updated = IF latest THEN instant ELSE @,
                        !.ended   = IF latest /\ @ # 0 THEN instant ELSE @]

ClonedEvent(e, copyOf) == [e EXCEPT !.run = copyOf[e.run], !.owner = copyOf[e.owner]]

CopyThread(d, t, u, copyOf, instant) ==
  LET source == RunsOf(d, t)
      last   == IF source = {} THEN Null
                ELSE copyOf[LastRun(RowsOf(d, t))]
      row    == [title |-> "copy", source |-> "manual", last |-> last, updated |-> instant]
      runs   == [r \in RunIds |->
                   IF \E s \in source : copyOf[s] = r
                   THEN CopiedRun(d, t, u, CHOOSE s \in source : copyOf[s] = r, instant)
                   ELSE d.runs[r]]
      events == UNION {{ClonedEvent(e, copyOf) : e \in EventsOf(d, s)} : s \in source}
      copied == [d EXCEPT !.runs = runs, !.events = @ \cup events]
      cached == [copied EXCEPT !.runCache = [r \in RunIds |->
                   IF \E s \in source : copyOf[s] = r
                   THEN BuildRunProjection(copied, r) ELSE @[r]]]
  IN  AddThread(cached, u, row)

(* Faulty variant: the connection does not enforce foreign keys.            *)
RemoveThreadRowOnly(d, t) ==
  [d EXCEPT !.threads[t] = Null, !.threadCache[t] = Null]

(* The foreign keys cascade: a thread takes its runs, events and            *)
(* projections with it.                                                     *)
RemoveThread(d, t) ==
  LET gone == RunsOf(d, t)
      without(table) == [r \in RunIds |-> IF r \in gone THEN Null ELSE table[r]]
  IN  [threads     |-> [d.threads EXCEPT ![t] = Null],
       runs        |-> without(d.runs),
       events      |-> {e \in d.events : e.run \notin gone},
       runCache    |-> without(d.runCache),
       threadCache |-> [d.threadCache EXCEPT ![t] = Null]]

(***************************************************************************)
(* The operations.                                                         *)
(***************************************************************************)
Init ==
  /\ db = EmptyDatabase
  /\ pending = [a \in Actors |-> Null]
  /\ now = 0
  /\ backup = Null

MayBegin(a) ==
  /\ pending[a] = Null
  /\ Overlap \/ \A b \in Actors : pending[b] = Null

Tick == now < MaxTime /\ now' = now + 1

Commit(d) == db' = d /\ Tick /\ UNCHANGED backup

Do(a, d) == MayBegin(a) /\ Commit(d) /\ UNCHANGED pending

(* The first half: the thread is there, and its row is loaded.              *)
Read(a, operation, t) ==
  /\ MayBegin(a)
  /\ HasThread(db, t)
  /\ pending' = [pending EXCEPT ![a] =
                   [operation |-> operation, thread |-> t, loaded |-> db.threads[t]]]
  /\ UNCHANGED <<db, now, backup>>

Reading(a, operation) == pending[a] # Null /\ pending[a].operation = operation

(* The second half: the first write takes the lock, the rest commits.       *)
Write(a, d) == Commit(d) /\ pending' = [pending EXCEPT ![a] = Null]

(* The lock could not be had in five seconds, a row to update is gone or a  *)
(* foreign key has no row: the transaction is rolled back.                  *)
RollBack(a) ==
  /\ pending[a] # Null
  /\ pending' = [pending EXCEPT ![a] = Null]
  /\ UNCHANGED <<db, now, backup>>

CreateThread(t) == ~HasThread(db, t) /\ Do("loop", AddThread(db, t, NewThread(now + 1)))

(* A new id is a new uuid: no row has it, and no open transaction knows it. *)
FreshRuns == {r \in FreeRuns(db) : \A a \in Actors :
                pending[a] # Null => r \notin {pending[a].loaded.last, pending[a].loaded.title}}

CreateRunReads(t) == Read("loop", "create_run", t)

CreateRunWrites ==
  /\ Reading("loop", "create_run")
  /\ HasThread(db, pending["loop"].thread)
  /\ \E r \in FreshRuns :
       Write("loop", AddRun(db, pending["loop"].thread, r, pending["loop"].loaded, now + 1))

RecordRunEvent(r) ==
  /\ db.runs[r] # Null
  /\ Cardinality(EventsOf(db, r)) < MaxEvents
  /\ \E kind \in Kinds : Do("loop", AddEvent(db, r, kind, now + 1))

(* _mutate_run and request_run_cancel.  A method that finds the run ended   *)
(* and does nothing leaves its updated_at, but the thread is touched.       *)
MutateRun(r, rec, touches, ends) ==
  /\ db.runs[r] # Null
  /\ Do("loop", ChangeRun(db, r,
       [db.runs[r] EXCEPT !.rec = rec,
                          !.updated = IF touches THEN now + 1 ELSE @,
                          !.ended = IF ends THEN now + 1 ELSE @],
       db.events))

MarkRunStreaming(r) ==
  MutateRun(r, MarkStreaming(db.runs[r].rec), ~IsTerminal(db.runs[r].rec), FALSE)

RequestRunCancel(r) ==
  MutateRun(r, RequestCancel(db.runs[r].rec),
            ~IsTerminal(db.runs[r].rec), db.runs[r].rec.status = "pending")

MarkRunTerminal(r) ==
  \/ MutateRun(r, MarkCompleted(db.runs[r].rec), TRUE, TRUE)
  \/ MutateRun(r, MarkFailed(db.runs[r].rec, FALSE), TRUE, TRUE)
  \/ MutateRun(r, MarkCancelled(db.runs[r].rec), TRUE, TRUE)

TouchRun(r) == MutateRun(r, db.runs[r].rec, TRUE, FALSE)

RenameReads(w, t) == Read(w, "rename", t)

RenameWrites(w) ==
  LET loaded == pending[w].loaded
      t      == pending[w].thread
  IN  /\ Reading(w, "rename")
      /\ HasThread(db, t)
      /\ Write(w, RefreshThread(db, t, loaded,
           [loaded EXCEPT !.title = "renamed", !.source = "manual", !.updated = now + 1]))

DuplicateReads(w, t) == Read(w, "duplicate", t)

(* The runs are read under the write lock: the copy of a thread deleted in  *)
(* the meantime is an empty thread.                                         *)
DuplicateWrites(w) ==
  /\ Reading(w, "duplicate")
  /\ \E u \in Threads, copyOf \in Injection(RunsOf(db, pending[w].thread), FreshRuns) :
       /\ ~HasThread(db, u)
       /\ Write(w, CopyThread(db, pending[w].thread, u, copyOf, now + 1))

DeleteThread(w, t) == HasThread(db, t) /\ Do(w, RemoveThread(db, t))

(* The backup API of SQLite copies one committed state.                     *)
BackupDatabase(w) ==
  /\ MayBegin(w)
  /\ now \in BackupTimes
  /\ backup' = db
  /\ UNCHANGED <<db, pending, now>>

(* Taken while no other transaction is open: see the README.                *)
RestoreDatabase(w) ==
  /\ \A a \in Actors : pending[a] = Null
  /\ backup # Null
  /\ db' = backup
  /\ UNCHANGED <<pending, now, backup>>

Loop ==
  \/ \E t \in Threads : CreateThread(t) \/ CreateRunReads(t)
  \/ CreateRunWrites
  \/ \E r \in RunIds :
       \/ RecordRunEvent(r) \/ MarkRunStreaming(r) \/ RequestRunCancel(r)
       \/ MarkRunTerminal(r) \/ TouchRun(r)
  \/ RollBack("loop")

Worker(w) ==
  \/ \E t \in Threads : RenameReads(w, t) \/ DuplicateReads(w, t) \/ DeleteThread(w, t)
  \/ RenameWrites(w) \/ DuplicateWrites(w)
  \/ BackupDatabase(w) \/ RestoreDatabase(w)
  \/ RollBack(w)

Next == Loop \/ \E w \in Workers : Worker(w)

Spec == Init /\ [][Next]_vars

(***************************************************************************)
(* Properties.                                                             *)
(***************************************************************************)
(* Types of all the state.                                                  *)
TypeOK ==
  /\ db \in Database
  /\ pending \in [Actors -> Transaction \cup {Null}]
  /\ now \in 0 .. MaxTime
  /\ backup \in Database \cup {Null}

(* No row outlives the row it belongs to, no run or thread is without its   *)
(* projection, that of a run is what its rows say now, and last_run_id      *)
(* names a run of the thread, whatever the interleaving of deletions with   *)
(* runs and copies in progress.                                             *)
NoOrphans ==
  /\ \A r \in RunIds \ FreeRuns(db) : HasThread(db, db.runs[r].thread)
  /\ \A e \in db.events : db.runs[e.run] # Null
  /\ \A r \in RunIds : (db.runCache[r] = Null) <=> (db.runs[r] = Null)
  /\ \A r \in RunIds \ FreeRuns(db) : db.runCache[r] = BuildRunProjection(db, r)
  /\ \A t \in Threads : (db.threadCache[t] = Null) <=> (db.threads[t] = Null)
  /\ \A t \in Threads : HasThread(db, t) =>
       IF RunsOf(db, t) = {} THEN db.threads[t].last = Null
       ELSE db.threads[t].last \in RunsOf(db, t)

(* The events of a run are numbered from 1 without a gap, in a copy and     *)
(* after a restore too, and their payloads name the run they are stored     *)
(* under.                                                                   *)
LogsAreWhole ==
  \A r \in RunIds :
    /\ {e.seq : e \in EventsOf(db, r)} = 1 .. Cardinality(EventsOf(db, r))
    /\ \A e \in EventsOf(db, r) : e.owner = r

(* rebuild_all would change nothing: every cached projection, and every     *)
(* title that is not the user's, is what the rows say.                      *)
CachesAreExact == Rebuilt(db) = db

(* The row the transaction of a loaded has changed since, and it writes.    *)
StaleWrite(a) ==
  /\ pending[a] # Null /\ HasThread(db, pending[a].thread)
  /\ pending[a].loaded # db.threads[pending[a].thread]
  /\ Write(a, db')

AllExact == CachesAreExact /\ (backup # Null => Rebuilt(backup) = backup)

(* Overlapping transactions make a cached projection or a title wrong in    *)
(* one way only: a transaction writes what it derived from the row of a     *)
(* thread that another one has changed since it was loaded.  Deletions,     *)
(* copies, backups and restores in between never do.                        *)
OnlyStaleRowsSpoilCaches ==
  [][AllExact => AllExact' \/ \E a \in Actors : StaleWrite(a)]_vars

(* A title marked as the user's is one a user gave.                         *)
ManualTitleKept ==
  \A t \in Threads : HasThread(db, t) =>
    (db.threads[t].source = "manual" <=> db.threads[t].title \in {"renamed", "copy"})

(* The histories a reader is shown.                                         *)
Shown(d, r) ==
  [d.runs[r].rec EXCEPT !.log =
     [i \in 1 .. Cardinality(EventsOf(d, r)) |-> ListedEvents(d, r)[i].kind]]

History(d) ==
  [t \in Threads |->
     IF ~HasThread(d, t) THEN Null
     ELSE [i \in 1 .. Cardinality(RunsOf(d, t)) |-> Shown(d, ListedRuns(d, t)[i])]]

Promise == INSTANCE ThreadHistory
             WITH hist <- History(db), saved <- IF backup = Null THEN Null ELSE History(backup)

(* Readers see the histories of ThreadHistory: they only grow, a copy is    *)
(* all of its source at one instant, a deletion is complete, and whatever   *)
(* happens to one thread leaves the others alone.                           *)
KeepsItsPromise == Promise!Spec
=============================================================================
