------------------------- MODULE ThreadStore_proofs -------------------------
(***************************************************************************)
(* Proofs about the SQLite session store: what its rows and caches keep to *)
(* whatever the interleaving of transactions, and that without overlap the *)
(* caches are what the rows say.                                           *)
(***************************************************************************)
EXTENDS ThreadStore, FiniteSetTheorems, SequenceTheorems, Extremes, TLAPS

-----------------------------------------------------------------------------
(* What a database keeps to.                                                *)

(* No row without the row it refers to.                                     *)
Rooted(d) ==
  /\ \A r \in RunIds \ FreeRuns(d) : HasThread(d, d.runs[r].thread)
  /\ \A e \in d.events : d.runs[e.run] # Null

(* No time of a run is later than n.                                        *)
Dated(d, n) ==
  \A r \in RunIds \ FreeRuns(d) :
    d.runs[r].created <= n /\ d.runs[r].updated <= n /\ d.runs[r].ended <= n

(* The events of a run are numbered from 1 and name the run.                *)
WholeLog(events, r) ==
  /\ IsFiniteSet(events)
  /\ {e.seq : e \in events} = 1 .. Cardinality(events)
  /\ \A e \in events : e.owner = r

Whole(d) == \A r \in RunIds : WholeLog(EventsOf(d, r), r)

(* The tables of runs, events and threads, apart from last_run_id.          *)
Truth(d, n) == d \in Database /\ Rooted(d) /\ Dated(d, n) /\ Whole(d)

RunCached(d) ==
  \A r \in RunIds :
    d.runCache[r] = IF d.runs[r] = Null THEN Null ELSE BuildRunProjection(d, r)

(* The projection of the thread is there, and last_run_id is one of its runs. *)
ThreadKept(d, t) ==
  /\ (d.threadCache[t] = Null) <=> (d.threads[t] = Null)
  /\ HasThread(d, t) => IF RunsOf(d, t) = {} THEN d.threads[t].last = Null
                        ELSE d.threads[t].last \in RunsOf(d, t)

Kept(d, n) == Truth(d, n) /\ RunCached(d) /\ \A t \in Threads : ThreadKept(d, t)

IInv ==
  /\ now \in 0 .. MaxTime
  /\ Kept(db, now)
  /\ pending \in [Actors -> Transaction \cup {Null}]
  /\ backup # Null => Kept(backup, now)

(* What the assumption says of the constants, for the leaves of the proofs. *)
LEMMA Constants ==
  /\ Kinds \subseteq RunEvent /\ MaxTime \in Nat
  /\ Null \notin RunIds /\ Null \notin Status /\ Null \notin ThreadRow /\ Null \notin RunRow
  /\ Null \notin RunCacheRow /\ Null \notin ThreadCacheRow
  /\ Null \notin Database /\ Null \notin Transaction
BY StoreAssumption

-----------------------------------------------------------------------------
(* Projections.                                                             *)

(* The rows of a thread as the operators on them need them.                 *)
RunRows(rows, n) ==
  /\ DOMAIN rows \subseteq RunIds
  /\ \A r \in DOMAIN rows : /\ rows[r] \in RunRow
                            /\ rows[r].created <= n /\ rows[r].updated <= n /\ rows[r].ended <= n

LEMMA RowsOfFacts ==
  ASSUME NEW n \in Nat, NEW d \in Database, Dated(d, n), NEW t
  PROVE  RunRows(RowsOf(d, t), n) /\ DOMAIN RowsOf(d, t) = RunsOf(d, t)
<1>1. DOMAIN RowsOf(d, t) = RunsOf(d, t) /\ RunsOf(d, t) \subseteq RunIds \ FreeRuns(d)
  BY DEF RowsOf, RunsOf
<1>2. ASSUME NEW r \in RunsOf(d, t) PROVE RowsOf(d, t)[r] = d.runs[r] /\ d.runs[r] \in RunRow
  BY <1>1, <1>2 DEF RowsOf, FreeRuns, Database
<1>3. QED
  BY <1>1, <1>2 DEF RunRows, Dated

(* The first and the last run of a thread that has any.                     *)
LEMMA EndsOfRows ==
  ASSUME NEW n \in Nat, NEW rows, RunRows(rows, n), DOMAIN rows # {}
  PROVE  FirstRun(rows) \in DOMAIN rows /\ LastRun(rows) \in DOMAIN rows
<1> DEFINE T == {rows[r].created : r \in DOMAIN rows}
<1>1. T \subseteq Nat /\ T # {} /\ \A m \in T : m <= n
  BY DEF RunRows, RunRow
<1>2. PICK a \in DOMAIN rows : \A q \in DOMAIN rows : rows[a].created <= rows[q].created
  <2>1. PICK k \in T : \A m \in T : k <= m
    BY <1>1, LeastNatural
  <2>2. QED
    BY <2>1
<1>3. PICK b \in DOMAIN rows : \A q \in DOMAIN rows : rows[q].created <= rows[b].created
  <2>1. PICK k \in T : \A m \in T : m <= k
    BY <1>1, GreatestNatural
  <2>2. QED
    BY <2>1
<1>4. FirstRun(rows) \in DOMAIN rows
  BY <1>2 DEF FirstRun
<1>5. LastRun(rows) \in DOMAIN rows
  BY <1>3 DEF LastRun
<1>6. QED
  BY <1>4, <1>5

LEMMA LatestOfRows ==
  ASSUME NEW n \in Nat, NEW rows, RunRows(rows, n), NEW last
  PROVE  /\ LatestRun(rows, last) \in DOMAIN rows \cup {Null}
         /\ DOMAIN rows # {} => LatestRun(rows, last) \in DOMAIN rows
<1>1. CASE last \in DOMAIN rows
  BY <1>1 DEF LatestRun
<1>2. CASE last \notin DOMAIN rows /\ DOMAIN rows = {}
  BY <1>2 DEF LatestRun
<1>3. CASE last \notin DOMAIN rows /\ DOMAIN rows # {}
  <2> DEFINE A == {Activity(rows[r]) : r \in DOMAIN rows}
  <2>1. \A r \in DOMAIN rows :
          /\ Activity(rows[r]) \in Nat /\ Activity(rows[r]) <= n
          /\ rows[r].updated \in Nat /\ rows[r].updated <= n
          /\ rows[r].created \in Nat /\ rows[r].created <= n
    BY DEF RunRows, RunRow, Activity
  <2>2. PICK a \in A : \A m \in A : m <= a
    <3>1. A \subseteq Nat /\ A # {} /\ \A m \in A : m <= n
      BY <1>3, <2>1
    <3>2. QED
      BY <3>1, GreatestNatural
  <2> DEFINE U == {rows[r].updated : r \in {q \in DOMAIN rows : Activity(rows[q]) = a}}
  <2>3. PICK u \in U : \A m \in U : m <= u
    <3>1. U \subseteq Nat /\ U # {} /\ \A m \in U : m <= n
      BY <2>1, <2>2
    <3>2. QED
      BY <3>1, GreatestNatural
  <2> DEFINE C == {rows[r].created : r \in {q \in DOMAIN rows : /\ Activity(rows[q]) = a
                                                                /\ rows[q].updated = u}}
  <2>4. PICK c \in C : \A m \in C : m <= c
    <3>1. C \subseteq Nat /\ C # {} /\ \A m \in C : m <= n
      BY <2>1, <2>3
    <3>2. QED
      BY <3>1, GreatestNatural
  <2>5. PICK r \in DOMAIN rows : Activity(rows[r]) = a /\ rows[r].updated = u /\ rows[r].created = c
    BY <2>4
  <2>6. ASSUME NEW q \in DOMAIN rows PROVE Earlier(rows[q], rows[r])
    <3>1. Activity(rows[q]) <= a
      BY <2>2
    <3>2. Activity(rows[q]) = a => rows[q].updated <= u
      BY <2>3
    <3>3. Activity(rows[q]) = a /\ rows[q].updated = u => rows[q].created <= c
      BY <2>4
    <3>4. a \in Nat /\ u \in Nat /\ c \in Nat
      BY <2>1, <2>5
    <3>5. QED
      BY <3>1, <3>2, <3>3, <3>4, <2>1, <2>5 DEF Earlier
  <2>7. QED
    BY <1>3, <2>6 DEF LatestRun
<1>4. QED
  BY <1>1, <1>2, <1>3

LEMMA TitledFacts ==
  ASSUME NEW n \in Nat, NEW rows, RunRows(rows, n), NEW thread \in ThreadRow
  PROVE  /\ Titled(rows, thread) \in ThreadRow
         /\ Titled(rows, thread).last = thread.last
         /\ Titled(rows, thread).updated = thread.updated
         /\ Titled(rows, thread).source = thread.source
         /\ Titled(rows, Titled(rows, thread)) = Titled(rows, thread)
<1>1. CASE thread.source = "manual" \/ DOMAIN rows = {}
  BY <1>1 DEF Titled
<1>2. CASE ~ (thread.source = "manual" \/ DOMAIN rows = {})
  <2> DEFINE name == rows[FirstRun(rows)].ask
  <2>1. name \in RunIds
    BY <1>2, EndsOfRows DEF RunRows, RunRow
  <2>2. Titled(rows, thread) = [thread EXCEPT !.title = name]
    BY <1>2 DEF Titled
  <2>3. /\ [thread EXCEPT !.title = name] \in ThreadRow
        /\ [thread EXCEPT !.title = name].last = thread.last
        /\ [thread EXCEPT !.title = name].updated = thread.updated
        /\ [thread EXCEPT !.title = name].source = thread.source
        /\ [[thread EXCEPT !.title = name] EXCEPT !.title = name] = [thread EXCEPT !.title = name]
    BY <2>1 DEF ThreadRow, Titles
  <2>4. Titled(rows, [thread EXCEPT !.title = name]) = [[thread EXCEPT !.title = name] EXCEPT !.title = name]
    BY <1>2, <2>3 DEF Titled
  <2>5. QED
    BY <2>2, <2>3, <2>4
<1>3. QED
  BY <1>1, <1>2

LEMMA ThreadProjectionType ==
  ASSUME NEW n \in Nat, NEW rows, RunRows(rows, n), NEW thread \in ThreadRow
  PROVE  ThreadProjection(rows, thread) \in ThreadCacheRow
<1> DEFINE latest == LatestRun(rows, thread.last)
<1>1. latest = Null \/ (latest \in DOMAIN rows /\ latest # Null)
  BY LatestOfRows, Constants DEF RunRows
<1>2. ASSUME latest \in DOMAIN rows
      PROVE  rows[latest].rec.status \in Status /\ Activity(rows[latest]) \in Nat
  BY <1>2 DEF RunRows, RunRow, Record, Activity
<1>3. thread.title \in Titles /\ thread.updated \in Nat
  BY DEF ThreadRow
<1> HIDE DEF latest
<1>4. ThreadProjection(rows, thread) =
        [status   |-> IF latest = Null THEN Null ELSE rows[latest].rec.status,
         activity |-> IF latest = Null THEN thread.updated ELSE Activity(rows[latest]),
         title    |-> thread.title]
  BY DEF ThreadProjection, latest
<1>5. QED
  BY <1>1, <1>2, <1>3, <1>4 DEF ThreadCacheRow

LEMMA RunProjectionType ==
  ASSUME NEW rec \in Record, NEW r, NEW events, events \subseteq EventRow, WholeLog(events, r)
  PROVE  RunProjection(rec, events) \in RunCacheRow
<1> DEFINE ends  == {e \in events : e.kind \in TerminalEvent}
           final == CHOOSE e \in ends : \A f \in ends : f.seq <= e.seq
           T     == {e.seq : e \in ends}
<1>1. Cardinality(events) \in Nat
  BY FS_CardinalityType DEF WholeLog
<1>2. ASSUME ends # {} PROVE final \in ends
  <2>1. T \subseteq Nat /\ T # {} /\ \A m \in T : m <= Cardinality(events)
    <3>1. \A e \in events : e.seq \in 1 .. Cardinality(events)
      BY DEF WholeLog
    <3>2. QED
      BY <1>1, <1>2, <3>1
  <2>2. PICK k \in T : \A m \in T : m <= k
    BY <1>1, <2>1, GreatestNatural
  <2>3. \E e \in ends : \A f \in ends : f.seq <= e.seq
    BY <2>2
  <2>4. QED
    BY <2>3
<1>3. rec.text \in BOOLEAN /\ rec.status \in Status
  BY DEF Record
<1>4. (IF ends # {} THEN final.kind ELSE Null) \in TerminalEvent \cup {Null}
  BY <1>2
<1> HIDE DEF ends, final
<1>5. RunProjection(rec, events) =
        [text   |-> rec.text \/ \E e \in events : e.kind = "text_delta",
         items  |-> Cardinality(events),
         status |-> IF ends # {} \/ IsTerminal(rec) THEN rec.status ELSE Null,
         event  |-> IF ends # {} THEN final.kind ELSE Null]
  BY DEF RunProjection, ends, final
<1>6. QED
  BY <1>1, <1>3, <1>4, <1>5 DEF RunCacheRow

(* The projection of a run that is cached is that of its rows.              *)
LEMMA RunProjectionOf ==
  ASSUME NEW n \in Nat, NEW d, Truth(d, n), NEW r \in RunIds \ FreeRuns(d)
  PROVE  BuildRunProjection(d, r) \in RunCacheRow
<1>1. d.runs[r] \in RunRow
  BY DEF Truth, Database, FreeRuns
<1>2. d.runs[r].rec \in Record
  BY <1>1 DEF RunRow
<1>3. EventsOf(d, r) \subseteq EventRow /\ WholeLog(EventsOf(d, r), r)
  BY DEF Truth, Database, Whole, EventsOf
<1>4. QED
  BY <1>2, <1>3, RunProjectionType DEF BuildRunProjection

-----------------------------------------------------------------------------
(* Refreshing a thread.                                                     *)

LEMMA WriteBackFacts ==
  ASSUME NEW row \in ThreadRow, NEW loaded \in ThreadRow, NEW changed \in ThreadRow
  PROVE  /\ WriteBack(row, loaded, changed) \in ThreadRow
         /\ WriteBack(row, loaded, changed).last =
              IF changed.last # loaded.last THEN changed.last ELSE row.last
         /\ row = loaded => WriteBack(row, loaded, changed) = changed
<1> DEFINE w == WriteBack(row, loaded, changed)
<1>1. /\ DOMAIN row = {"title", "source", "last", "updated"}
      /\ DOMAIN changed = DOMAIN row
  BY DEF ThreadRow
<1>2. /\ w = [c \in DOMAIN row |-> IF changed[c] # loaded[c] THEN changed[c] ELSE row[c]]
      /\ DOMAIN w = DOMAIN row
      /\ \A c \in DOMAIN row : w[c] = IF changed[c] # loaded[c] THEN changed[c] ELSE row[c]
  BY DEF WriteBack
<1> HIDE DEF w
<1>3. /\ w.title = IF changed.title # loaded.title THEN changed.title ELSE row.title
      /\ w.source = IF changed.source # loaded.source THEN changed.source ELSE row.source
      /\ w.last = IF changed.last # loaded.last THEN changed.last ELSE row.last
      /\ w.updated = IF changed.updated # loaded.updated THEN changed.updated ELSE row.updated
  BY <1>1, <1>2
<1>4. w = [title |-> w.title, source |-> w.source, last |-> w.last, updated |-> w.updated]
  BY <1>1, <1>2
<1>5. w \in ThreadRow
  BY <1>3, <1>4 DEF ThreadRow
<1>6. ASSUME row = loaded PROVE w = changed
  <2>1. \A c \in DOMAIN row : w[c] = changed[c]
    BY <1>2, <1>6
  <2>2. changed = [c \in DOMAIN row |-> changed[c]]
    BY <1>1 DEF ThreadRow
  <2>3. w = [c \in DOMAIN row |-> w[c]]
    BY <1>2
  <2>4. QED
    BY <2>1, <2>2, <2>3
<1>7. QED
  BY <1>3, <1>5, <1>6 DEF w

LEMMA RefreshThreadFacts ==
  ASSUME NEW n \in Nat, NEW d \in Database, Dated(d, n), NEW t \in Threads, HasThread(d, t),
         NEW loaded \in ThreadRow, NEW thread \in ThreadRow
  PROVE  LET x     == RefreshThread(d, t, loaded, thread)
             shown == Titled(RowsOf(d, t), thread)
         IN  /\ x \in Database
             /\ x.runs = d.runs /\ x.events = d.events /\ x.runCache = d.runCache
             /\ x.threads = [d.threads EXCEPT ![t] = WriteBack(d.threads[t], loaded, shown)]
             /\ x.threadCache = [d.threadCache EXCEPT ![t] = ThreadProjection(RowsOf(d, t), shown)]
             /\ x.threads[t] = WriteBack(d.threads[t], loaded, shown)
             /\ x.threads[t] \in ThreadRow
             /\ x.threadCache[t] = ThreadProjection(RowsOf(d, t), shown)
             /\ x.threadCache[t] \in ThreadCacheRow
<1> DEFINE shown == Titled(RowsOf(d, t), thread)
           row   == WriteBack(d.threads[t], loaded, shown)
           cache == ThreadProjection(RowsOf(d, t), shown)
<1>1. d.threads[t] \in ThreadRow
  BY DEF Database, HasThread
<1>2. shown \in ThreadRow
  BY RowsOfFacts, TitledFacts
<1>3. row \in ThreadRow /\ cache \in ThreadCacheRow
  BY <1>1, <1>2, RowsOfFacts, ThreadProjectionType, WriteBackFacts
<1>4. RefreshThread(d, t, loaded, thread) =
        [d EXCEPT !.threads[t] = row, !.threadCache[t] = cache]
  BY DEF RefreshThread
<1> DEFINE x == RefreshThread(d, t, loaded, thread)
<1> HIDE DEF row, cache
<1>5. x = [d EXCEPT !.threads = [d.threads EXCEPT ![t] = row],
                    !.threadCache = [d.threadCache EXCEPT ![t] = cache]]
  BY <1>4 DEF Database
<1> HIDE DEF x
<1>6. /\ x \in Database
      /\ x.runs = d.runs /\ x.events = d.events /\ x.runCache = d.runCache
      /\ x.threads = [d.threads EXCEPT ![t] = row]
      /\ x.threadCache = [d.threadCache EXCEPT ![t] = cache]
  BY <1>3, <1>5 DEF Database
<1>7. x.threads[t] = row /\ x.threadCache[t] = cache
  BY <1>6 DEF Database
<1>8. QED
  BY <1>3, <1>6, <1>7 DEF row, cache, x

(* The databases agree on runs and events, and so on all that is said of    *)
(* them.                                                                    *)
LEMMA SameRuns ==
  ASSUME NEW d, NEW x, x.runs = d.runs, x.events = d.events
  PROVE  /\ FreeRuns(x) = FreeRuns(d)
         /\ \A t : RunsOf(x, t) = RunsOf(d, t)
         /\ \A t : RowsOf(x, t) = RowsOf(d, t)
         /\ \A r : EventsOf(x, r) = EventsOf(d, r)
         /\ \A r : BuildRunProjection(x, r) = BuildRunProjection(d, r)
<1>1. FreeRuns(x) = FreeRuns(d)
  BY DEF FreeRuns
<1>2. \A t : RunsOf(x, t) = RunsOf(d, t)
  BY <1>1 DEF RunsOf
<1>3. \A t : RowsOf(x, t) = RowsOf(d, t)
  BY <1>2 DEF RowsOf
<1>4. \A r : EventsOf(x, r) = EventsOf(d, r)
  BY DEF EventsOf
<1>5. \A r : BuildRunProjection(x, r) = BuildRunProjection(d, r)
  BY <1>4 DEF BuildRunProjection
<1>6. QED
  BY <1>1, <1>2, <1>3, <1>4, <1>5

(* A refresh changes the titles and times of a thread, and its caches.      *)
LEMMA RefreshThreadShows ==
  ASSUME NEW n \in Nat, NEW d \in Database, Dated(d, n), NEW t \in Threads, HasThread(d, t),
         NEW loaded \in ThreadRow, NEW thread \in ThreadRow
  PROVE  LET x == RefreshThread(d, t, loaded, thread)
         IN  /\ x.runs = d.runs /\ x.events = d.events
             /\ \A u \in Threads : HasThread(x, u) <=> HasThread(d, u)
<1> DEFINE x     == RefreshThread(d, t, loaded, thread)
           shown == Titled(RowsOf(d, t), thread)
           back  == WriteBack(d.threads[t], loaded, shown)
<1>0. d \in Database /\ Dated(d, n) /\ d.threads[t] \in ThreadRow
  BY DEF Database, HasThread
<1>1. /\ x \in Database
      /\ x.runs = d.runs /\ x.events = d.events /\ x.runCache = d.runCache
      /\ x.threads = [d.threads EXCEPT ![t] = WriteBack(d.threads[t], loaded, shown)]
      /\ x.threadCache = [d.threadCache EXCEPT ![t] = ThreadProjection(RowsOf(d, t), shown)]
      /\ x.threads[t] = WriteBack(d.threads[t], loaded, shown)
      /\ x.threads[t] \in ThreadRow
  BY <1>0, RefreshThreadFacts
<1>2. d.threads \in [Threads -> ThreadRow \cup {Null}] /\ d.threads[t] # Null
  BY DEF Database, HasThread
<1> HIDE DEF x, back
<1>3. \A u \in Threads : HasThread(x, u) <=> HasThread(d, u)
  BY <1>1, <1>2, Constants DEF HasThread
<1>4. QED
  BY <1>1, <1>3 DEF x

(* A refreshed thread is kept, if its new last_run_id is one of its runs,   *)
(* and nothing else changes.                                                *)
LEMMA RefreshThreadKeeps ==
  ASSUME NEW n \in Nat, NEW d, Truth(d, n), RunCached(d), NEW t \in Threads, HasThread(d, t),
         \A u \in Threads \ {t} : ThreadKept(d, u),
         NEW loaded \in ThreadRow, NEW thread \in ThreadRow,
         LET last == IF thread.last # loaded.last THEN thread.last ELSE d.threads[t].last
         IN  IF RunsOf(d, t) = {} THEN last = Null ELSE last \in RunsOf(d, t)
  PROVE  Kept(RefreshThread(d, t, loaded, thread), n)
<1> DEFINE x     == RefreshThread(d, t, loaded, thread)
           shown == Titled(RowsOf(d, t), thread)
<1>0. d \in Database /\ Dated(d, n) /\ d.threads[t] \in ThreadRow
  BY DEF Truth, Database, HasThread
<1>1. /\ x \in Database
      /\ x.runs = d.runs /\ x.events = d.events /\ x.runCache = d.runCache
      /\ x.threads = [d.threads EXCEPT ![t] = WriteBack(d.threads[t], loaded, shown)]
      /\ x.threadCache = [d.threadCache EXCEPT ![t] = ThreadProjection(RowsOf(d, t), shown)]
      /\ x.threads[t] = WriteBack(d.threads[t], loaded, shown)
      /\ x.threads[t] \in ThreadRow
      /\ x.threadCache[t] \in ThreadCacheRow
  BY <1>0, RefreshThreadFacts
<1>2. /\ \A u \in Threads \ {t} : x.threads[u] = d.threads[u] /\ x.threadCache[u] = d.threadCache[u]
      /\ \A u \in Threads : HasThread(x, u) <=> HasThread(d, u)
  <2>1. \A u \in Threads \ {t} : x.threads[u] = d.threads[u] /\ x.threadCache[u] = d.threadCache[u]
    BY <1>0, <1>1 DEF Database
  <2>2. HasThread(x, t)
    BY <1>1, Constants DEF HasThread
  <2>3. QED
    BY <2>1, <2>2 DEF HasThread
<1>3. shown \in ThreadRow /\ shown.last = thread.last
  BY <1>0, RowsOfFacts, TitledFacts
<1>4. x.threads[t].last = IF thread.last # loaded.last THEN thread.last ELSE d.threads[t].last
  BY <1>0, <1>1, <1>3, WriteBackFacts
<1> HIDE DEF x, shown
<1>5. /\ FreeRuns(x) = FreeRuns(d)
      /\ \A u : RunsOf(x, u) = RunsOf(d, u)
      /\ \A r : EventsOf(x, r) = EventsOf(d, r)
      /\ \A r : BuildRunProjection(x, r) = BuildRunProjection(d, r)
  BY <1>1, SameRuns
<1>6. Truth(x, n)
  <2>1. Rooted(x)
    <3>1. \A r \in RunIds \ FreeRuns(d) : d.runs[r].thread \in Threads
      BY <1>0 DEF Database, RunRow, FreeRuns
    <3>2. QED
      BY <1>1, <1>2, <1>5, <3>1 DEF Rooted, Truth
  <2>2. Dated(x, n)
    BY <1>1, <1>5 DEF Dated, Truth
  <2>3. Whole(x)
    BY <1>5 DEF Whole, Truth
  <2>4. QED
    BY <1>1, <2>1, <2>2, <2>3 DEF Truth
<1>7. RunCached(x)
  BY <1>1, <1>5 DEF RunCached
<1>8. ASSUME NEW u \in Threads PROVE ThreadKept(x, u)
  <2>1. CASE u = t
    BY <1>1, <1>4, <1>5, <2>1, Constants DEF ThreadKept
  <2>2. CASE u # t
    <3>1. ThreadKept(d, u)
      BY <2>2
    <3>2. QED
      BY <1>2, <1>5, <2>2, <3>1 DEF ThreadKept
  <2>3. QED
    BY <2>1, <2>2
<1>9. QED
  BY <1>6, <1>7, <1>8 DEF Kept, x


(* Later instants bound what earlier ones bound.                            *)
LEMMA KeptLater ==
  ASSUME NEW m \in Nat, NEW n \in Nat, m <= n, NEW d, Kept(d, m)
  PROVE  Kept(d, n)
<1>1. \A r \in RunIds \ FreeRuns(d) :
        d.runs[r].created \in Nat /\ d.runs[r].updated \in Nat /\ d.runs[r].ended \in Nat
  BY DEF Kept, Truth, Database, FreeRuns, RunRow
<1>2. Dated(d, n)
  BY <1>1 DEF Kept, Truth, Dated
<1>3. QED
  BY <1>2 DEF Kept, Truth

-----------------------------------------------------------------------------
(* Writing a run and its events.                                            *)

(* e is d with a row and a log for run r.                                   *)
Written(d, e, r, row) ==
  /\ e \in Database
  /\ e.threads = d.threads /\ e.threadCache = d.threadCache /\ e.runCache = d.runCache
  /\ e.runs = [d.runs EXCEPT ![r] = row]
  /\ \A q \in RunIds \ {r} : EventsOf(e, q) = EventsOf(d, q)
  /\ WholeLog(EventsOf(e, r), r)

(* A row that belongs where the run did, or where a new run may be.         *)
Fits(d, r, row, n) ==
  /\ row \in RunRow
  /\ row.created <= n /\ row.updated <= n /\ row.ended <= n
  /\ HasThread(d, row.thread)
  /\ d.runs[r] = Null \/ d.runs[r].thread = row.thread

LEMMA RunWritten ==
  ASSUME NEW n \in Nat, NEW d, Kept(d, n), NEW r \in RunIds, NEW row, Fits(d, r, row, n),
         NEW e, Written(d, e, r, row)
  PROVE  LET f == RefreshRun(e, r)
         IN  /\ Truth(f, n) /\ RunCached(f)
             /\ f.threads = d.threads /\ f.threadCache = d.threadCache
             /\ f.runs = [d.runs EXCEPT ![r] = row]
             /\ RunsOf(f, row.thread) = RunsOf(d, row.thread) \cup {r}
             /\ \A u \in Threads \ {row.thread} : /\ RunsOf(f, u) = RunsOf(d, u)
                                                  /\ RowsOf(f, u) = RowsOf(d, u)
<1> DEFINE f == RefreshRun(e, r)
           p == BuildRunProjection(e, r)
<1>0. /\ d \in Database /\ e \in Database /\ row \in RunRow /\ row # Null
      /\ row.thread \in Threads
  BY Constants DEF Kept, Truth, Written, Fits, RunRow
<1>1. /\ e.runs[r] = row
      /\ \A q \in RunIds \ {r} : e.runs[q] = d.runs[q]
      /\ FreeRuns(e) = FreeRuns(d) \ {r}
  BY <1>0 DEF Written, FreeRuns, Database
<1>2. Rooted(e)
  <2>1. ASSUME NEW q \in RunIds \ FreeRuns(e) PROVE HasThread(e, e.runs[q].thread)
    <3>1. CASE q = r
      BY <1>1, <3>1 DEF Fits, Written, HasThread
    <3>2. CASE q # r
      <4>1. HasThread(d, d.runs[q].thread)
        BY <1>1, <3>2 DEF Kept, Truth, Rooted
      <4>2. QED
        BY <1>1, <3>2, <4>1 DEF Written, HasThread
    <3>3. QED
      BY <3>1, <3>2
  <2>2. ASSUME NEW v \in e.events PROVE e.runs[v.run] # Null
    <3>1. v.run \in RunIds
      BY <1>0 DEF Database, EventRow
    <3>2. CASE v.run = r
      BY <1>0, <1>1, <3>2
    <3>3. CASE v.run # r
      <4>1. v \in EventsOf(d, v.run)
        BY <3>1, <3>3 DEF Written, EventsOf
      <4>2. d.runs[v.run] # Null
        BY <4>1 DEF EventsOf, Kept, Truth, Rooted
      <4>3. QED
        BY <1>1, <3>1, <3>3, <4>2
    <3>4. QED
      BY <3>2, <3>3
  <2>3. QED
    BY <2>1, <2>2 DEF Rooted
<1>3. Dated(e, n)
  BY <1>0, <1>1 DEF Dated, Fits, Kept, Truth
<1>4. Whole(e)
  BY DEF Whole, Written, Kept, Truth
<1>5. Truth(e, n)
  BY <1>0, <1>2, <1>3, <1>4 DEF Truth
<1>6. p \in RunCacheRow
  BY <1>0, <1>1, <1>5, RunProjectionOf DEF FreeRuns
<1>7. f = [e EXCEPT !.runCache = [e.runCache EXCEPT ![r] = p]]
  BY <1>0 DEF RefreshRun, Database
<1> HIDE DEF f, p
<1>8. /\ f \in Database
      /\ f.threads = d.threads /\ f.threadCache = d.threadCache
      /\ f.runs = e.runs /\ f.events = e.events
      /\ f.runCache = [d.runCache EXCEPT ![r] = p]
  BY <1>0, <1>6, <1>7 DEF Database, Written
<1>9. /\ FreeRuns(f) = FreeRuns(e)
      /\ \A t : RunsOf(f, t) = RunsOf(e, t)
      /\ \A q : EventsOf(f, q) = EventsOf(e, q)
      /\ \A q : BuildRunProjection(f, q) = BuildRunProjection(e, q)
  BY <1>8, SameRuns
<1>10. Truth(f, n)
  <2>1. Rooted(f)
    BY <1>2, <1>8, <1>9 DEF Rooted, HasThread, Written
  <2>2. Dated(f, n)
    BY <1>3, <1>8, <1>9 DEF Dated
  <2>3. Whole(f)
    BY <1>4, <1>9 DEF Whole
  <2>4. QED
    BY <1>8, <2>1, <2>2, <2>3 DEF Truth
<1>11. RunCached(f)
  <2> SUFFICES ASSUME NEW q \in RunIds
               PROVE  f.runCache[q] = IF f.runs[q] = Null THEN Null ELSE BuildRunProjection(f, q)
    BY DEF RunCached
  <2>1. CASE q = r
    <3>1. f.runCache[r] = p
      BY <1>0, <1>8 DEF Database
    <3>2. QED
      BY <1>0, <1>1, <1>8, <1>9, <2>1, <3>1 DEF p
  <2>2. CASE q # r
    <3>1. f.runCache[q] = d.runCache[q]
      BY <1>0, <1>8, <2>2 DEF Database
    <3>2. f.runs[q] = d.runs[q]
      BY <1>1, <1>8, <2>2
    <3>3. BuildRunProjection(f, q) = BuildRunProjection(d, q)
      BY <1>1, <1>9, <2>2 DEF BuildRunProjection, Written
    <3>4. QED
      BY <3>1, <3>2, <3>3 DEF Kept, RunCached
  <2>3. QED
    BY <2>1, <2>2
<1>12. RunsOf(f, row.thread) = RunsOf(d, row.thread) \cup {r}
  BY <1>1, <1>8, <1>9 DEF RunsOf
<1>13. ASSUME NEW u \in Threads \ {row.thread}
       PROVE  RunsOf(f, u) = RunsOf(d, u) /\ RowsOf(f, u) = RowsOf(d, u)
  <2>1. RunsOf(f, u) = RunsOf(d, u)
    <3>1. r \notin RunsOf(d, u) /\ r \notin RunsOf(e, u)
      BY <1>1 DEF RunsOf, FreeRuns, Fits
    <3>2. ASSUME NEW q \in RunIds \ {r} PROVE q \in RunsOf(e, u) <=> q \in RunsOf(d, u)
      BY <1>1 DEF RunsOf
    <3>3. RunsOf(d, u) \subseteq RunIds /\ RunsOf(e, u) \subseteq RunIds
      BY DEF RunsOf
    <3>4. QED
      BY <1>9, <3>1, <3>2, <3>3
  <2>2. r \notin RunsOf(d, u)
    BY DEF RunsOf, FreeRuns, Fits
  <2>3. \A q \in RunsOf(d, u) : f.runs[q] = d.runs[q]
    <3>1. RunsOf(d, u) \subseteq RunIds \ {r}
      BY <2>2 DEF RunsOf
    <3>2. QED
      BY <1>1, <1>8, <3>1
  <2>4. QED
    BY <2>1, <2>3 DEF RowsOf
<1>14. QED
  BY <1>8, <1>10, <1>11, <1>12, <1>13 DEF Written, f

(* Every operation on a run ends by refreshing the run and its thread.  The *)
(* thread as loaded may be out of date, if it does not name the run.        *)
LEMMA RefreshedKeeps ==
  ASSUME NEW n \in Nat, NEW d, Kept(d, n), NEW r \in RunIds, NEW row, Fits(d, r, row, n),
         NEW e, Written(d, e, r, row), NEW loaded \in ThreadRow,
         loaded.last # r \/ loaded = d.threads[row.thread]
  PROVE  Kept(Refreshed(e, row.thread, r, loaded), n)
<1> DEFINE t == row.thread
           f == RefreshRun(e, r)
           thread == TouchForRun(loaded, r, e.runs[r].updated)
<1>1. /\ Truth(f, n) /\ RunCached(f)
      /\ f.threads = d.threads /\ f.threadCache = d.threadCache
      /\ f.runs = [d.runs EXCEPT ![r] = row]
      /\ RunsOf(f, t) = RunsOf(d, t) \cup {r}
      /\ \A u \in Threads \ {t} : /\ RunsOf(f, u) = RunsOf(d, u)
                                  /\ RowsOf(f, u) = RowsOf(d, u)
  BY RunWritten
<1>2. row \in RunRow /\ t \in Threads /\ HasThread(d, t) /\ e.runs[r] = row
  <2>1. row \in RunRow /\ HasThread(d, row.thread) /\ d.runs \in [RunIds -> RunRow \cup {Null}]
    BY DEF Fits, Kept, Truth, Database
  <2>2. e.runs = [d.runs EXCEPT ![r] = row]
    BY DEF Written
  <2>3. QED
    BY <2>1, <2>2 DEF RunRow
<1>3. thread \in ThreadRow /\ thread.last = r
  BY <1>2 DEF TouchForRun, ThreadRow, RunRow
<1> HIDE DEF f, thread, t
<1>4. HasThread(f, t)
  BY <1>1, <1>2 DEF HasThread
<1>5. \A u \in Threads \ {t} : ThreadKept(f, u)
  BY <1>1 DEF ThreadKept, HasThread, Kept
<1>6. LET last == IF thread.last # loaded.last THEN thread.last ELSE f.threads[t].last
      IN  IF RunsOf(f, t) = {} THEN last = Null ELSE last \in RunsOf(f, t)
  BY <1>1, <1>3 DEF t
<1>7. Kept(RefreshThread(f, t, loaded, thread), n)
  BY <1>1, <1>2, <1>3, <1>4, <1>5, <1>6, RefreshThreadKeeps
<1>8. QED
  BY <1>7 DEF Refreshed, f, thread, t


-----------------------------------------------------------------------------
(* Exact projections of threads.                                            *)

(* The title that is not the user's and the projection are what the rows    *)
(* of the thread say.                                                       *)
ThreadExact(d, t) ==
  HasThread(d, t) =>
    /\ Titled(RowsOf(d, t), d.threads[t]) = d.threads[t]
    /\ d.threadCache[t] = ThreadProjection(RowsOf(d, t), d.threads[t])

Exact(d) == \A t \in Threads : ThreadExact(d, t)

(* They are after a refresh of the thread as it is.                         *)
LEMMA RefreshThreadExact ==
  ASSUME NEW n \in Nat, NEW d \in Database, Dated(d, n), NEW t \in Threads, HasThread(d, t),
         NEW thread \in ThreadRow
  PROVE  LET x == RefreshThread(d, t, d.threads[t], thread)
         IN  /\ ThreadExact(x, t)
             /\ \A u \in Threads \ {t} : ThreadExact(d, u) => ThreadExact(x, u)
<1> DEFINE row   == d.threads[t]
           x     == RefreshThread(d, t, row, thread)
           rows  == RowsOf(d, t)
           shown == Titled(rows, thread)
<1>1. row \in ThreadRow /\ d.threads \in [Threads -> ThreadRow \cup {Null}]
      /\ d.threadCache \in [Threads -> ThreadCacheRow \cup {Null}]
  BY DEF Database, HasThread
<1>2. /\ x.runs = d.runs /\ x.events = d.events
      /\ x.threads = [d.threads EXCEPT ![t] = WriteBack(row, row, shown)]
      /\ x.threadCache = [d.threadCache EXCEPT ![t] = ThreadProjection(rows, shown)]
      /\ x.threads[t] = WriteBack(row, row, shown)
      /\ x.threadCache[t] = ThreadProjection(rows, shown)
  BY <1>1, RefreshThreadFacts
<1>3. shown \in ThreadRow /\ Titled(rows, shown) = shown
  BY RowsOfFacts, TitledFacts
<1>4. x.threads[t] = shown
  BY <1>1, <1>2, <1>3, WriteBackFacts
<1> HIDE DEF row, x, rows, shown
<1>5. \A u : RowsOf(x, u) = RowsOf(d, u)
  BY <1>2, SameRuns
<1>6. ThreadExact(x, t)
  BY <1>2, <1>3, <1>4, <1>5 DEF ThreadExact, rows
<1>7. ASSUME NEW u \in Threads \ {t}, ThreadExact(d, u) PROVE ThreadExact(x, u)
  <2>1. x.threads[u] = d.threads[u] /\ x.threadCache[u] = d.threadCache[u]
    BY <1>1, <1>2
  <2>2. QED
    BY <1>5, <1>7, <2>1 DEF ThreadExact, HasThread
<1>8. QED
  BY <1>6, <1>7 DEF x, row

LEMMA RefreshedExact ==
  ASSUME NEW n \in Nat, NEW d, Kept(d, n), NEW r \in RunIds, NEW row, Fits(d, r, row, n),
         NEW e, Written(d, e, r, row), Exact(d)
  PROVE  Exact(Refreshed(e, row.thread, r, d.threads[row.thread]))
<1> DEFINE t == row.thread
           f == RefreshRun(e, r)
           loaded == d.threads[t]
           thread == TouchForRun(loaded, r, e.runs[r].updated)
<1>1. /\ Truth(f, n) /\ RunCached(f)
      /\ f.threads = d.threads /\ f.threadCache = d.threadCache
      /\ f.runs = [d.runs EXCEPT ![r] = row]
      /\ RunsOf(f, t) = RunsOf(d, t) \cup {r}
      /\ \A u \in Threads \ {t} : /\ RunsOf(f, u) = RunsOf(d, u)
                                  /\ RowsOf(f, u) = RowsOf(d, u)
  BY RunWritten
<1>2. /\ row \in RunRow /\ t \in Threads /\ HasThread(d, t) /\ e.runs[r] = row
      /\ loaded \in ThreadRow
  <2>1. /\ row \in RunRow /\ HasThread(d, row.thread)
        /\ d.runs \in [RunIds -> RunRow \cup {Null}]
        /\ d.threads \in [Threads -> ThreadRow \cup {Null}]
    BY DEF Fits, Kept, Truth, Database
  <2>2. e.runs = [d.runs EXCEPT ![r] = row]
    BY DEF Written
  <2>3. t \in Threads
    BY <2>1 DEF RunRow
  <2>4. QED
    BY <2>1, <2>2, <2>3 DEF HasThread
<1>3. thread \in ThreadRow
  BY <1>2 DEF TouchForRun, ThreadRow, RunRow
<1> HIDE DEF f, thread, t, loaded
<1>4. HasThread(f, t) /\ f \in Database /\ Dated(f, n) /\ f.threads[t] = loaded
  BY <1>1, <1>2 DEF HasThread, Truth, loaded
<1>5. /\ ThreadExact(RefreshThread(f, t, loaded, thread), t)
      /\ \A u \in Threads \ {t} :
           ThreadExact(f, u) => ThreadExact(RefreshThread(f, t, loaded, thread), u)
  BY <1>2, <1>3, <1>4, RefreshThreadExact
<1>6. \A u \in Threads \ {t} : ThreadExact(f, u)
  BY <1>1 DEF Exact, ThreadExact, HasThread
<1>7. Exact(RefreshThread(f, t, loaded, thread))
  BY <1>5, <1>6 DEF Exact
<1>8. QED
  BY <1>7 DEF Refreshed, f, thread, t, loaded

(* Rebuilding changes nothing in a database that is kept and exact.         *)
LEMMA ExactMeansRebuilt ==
  ASSUME NEW n \in Nat, NEW d, Kept(d, n), Exact(d)
  PROVE  Rebuilt(d) = d
<1> DEFINE cached == [r \in RunIds |-> IF d.runs[r] = Null THEN d.runCache[r]
                                       ELSE BuildRunProjection(d, r)]
           done == [d EXCEPT !.runCache = cached]
           refreshed(t) == RefreshThread(done, t, d.threads[t], d.threads[t])
           threads == [t \in Threads |->
             IF HasThread(d, t) THEN refreshed(t).threads[t] ELSE d.threads[t]]
           caches == [t \in Threads |->
             IF HasThread(d, t) THEN refreshed(t).threadCache[t] ELSE d.threadCache[t]]
<1>1. d \in Database /\ Dated(d, n)
  BY DEF Kept, Truth
<1>2. cached = d.runCache
  <2>1. \A r \in RunIds : cached[r] = d.runCache[r]
    BY DEF Kept, RunCached
  <2>2. d.runCache = [r \in RunIds |-> d.runCache[r]]
    BY <1>1 DEF Database
  <2>3. QED
    BY <2>1, <2>2
<1>3. done = d
  BY <1>1, <1>2 DEF Database
<1>4. ASSUME NEW t \in Threads, HasThread(d, t)
      PROVE  refreshed(t).threads[t] = d.threads[t] /\ refreshed(t).threadCache[t] = d.threadCache[t]
  <2>1. d.threads[t] \in ThreadRow
    BY <1>1, <1>4 DEF Database, HasThread
  <2>2. /\ Titled(RowsOf(d, t), d.threads[t]) = d.threads[t]
        /\ d.threadCache[t] = ThreadProjection(RowsOf(d, t), d.threads[t])
    BY <1>4 DEF Exact, ThreadExact
  <2>3. WriteBack(d.threads[t], d.threads[t], d.threads[t]) = d.threads[t]
    BY <2>1, WriteBackFacts
  <2> DEFINE row == d.threads[t]
             x == RefreshThread(d, t, row, row)
  <2>4. /\ x.threads = [d.threads EXCEPT ![t] = WriteBack(row, row, Titled(RowsOf(d, t), row))]
        /\ x.threadCache = [d.threadCache EXCEPT ![t] =
             ThreadProjection(RowsOf(d, t), Titled(RowsOf(d, t), row))]
        /\ x.threads[t] = WriteBack(row, row, Titled(RowsOf(d, t), row))
        /\ x.threadCache[t] = ThreadProjection(RowsOf(d, t), Titled(RowsOf(d, t), row))
    BY <1>1, <1>4, <2>1, RefreshThreadFacts
  <2>5. x.threads[t] = row /\ x.threadCache[t] = d.threadCache[t]
    BY <2>2, <2>3, <2>4
  <2> HIDE DEF done
  <2>6. refreshed(t) = x
    BY <1>3
  <2>7. QED
    BY <2>5, <2>6
<1> HIDE DEF done, refreshed
<1>5. threads = d.threads
  <2>1. d.threads = [t \in Threads |-> d.threads[t]]
    BY <1>1 DEF Database
  <2>2. QED
    BY <1>4, <2>1
<1>6. caches = d.threadCache
  <2>1. d.threadCache = [t \in Threads |-> d.threadCache[t]]
    BY <1>1 DEF Database
  <2>2. QED
    BY <1>4, <2>1
<1>7. Rebuilt(d) = [done EXCEPT !.threads = threads, !.threadCache = caches]
  BY DEF Rebuilt, refreshed, done
<1> HIDE DEF threads, caches
<1>8. QED
  BY <1>1, <1>3, <1>5, <1>6, <1>7 DEF Database


(* And the other way round: a rebuild that changes nothing found them exact. *)
LEMMA RebuiltMeansExact ==
  ASSUME NEW n \in Nat, NEW d, Kept(d, n), Rebuilt(d) = d
  PROVE  Exact(d)
<1> DEFINE cached == [r \in RunIds |-> IF d.runs[r] = Null THEN d.runCache[r]
                                       ELSE BuildRunProjection(d, r)]
           done == [d EXCEPT !.runCache = cached]
           refreshed(t) == RefreshThread(done, t, d.threads[t], d.threads[t])
           threads == [t \in Threads |->
             IF HasThread(d, t) THEN refreshed(t).threads[t] ELSE d.threads[t]]
           caches == [t \in Threads |->
             IF HasThread(d, t) THEN refreshed(t).threadCache[t] ELSE d.threadCache[t]]
<1>1. d \in Database /\ Dated(d, n)
  BY DEF Kept, Truth
<1>2. cached = d.runCache
  <2>1. \A r \in RunIds : cached[r] = d.runCache[r]
    BY DEF Kept, RunCached
  <2>2. d.runCache = [r \in RunIds |-> d.runCache[r]]
    BY <1>1 DEF Database
  <2>3. QED
    BY <2>1, <2>2
<1>3. done = d
  BY <1>1, <1>2 DEF Database
<1>4. Rebuilt(d) = [done EXCEPT !.threads = threads, !.threadCache = caches]
  BY DEF Rebuilt
<1>5. d.threads = threads /\ d.threadCache = caches
  <2> HIDE DEF done, threads, caches
  <2>1. [d EXCEPT !.threads = threads, !.threadCache = caches] = d
    BY <1>3, <1>4
  <2>2. [d EXCEPT !.threads = threads, !.threadCache = caches].threads = threads
    BY <1>1 DEF Database
  <2>3. [d EXCEPT !.threads = threads, !.threadCache = caches].threadCache = caches
    BY <1>1 DEF Database
  <2>4. QED
    BY <2>1, <2>2, <2>3
<1>6. ASSUME NEW t \in Threads, HasThread(d, t) PROVE ThreadExact(d, t)
  <2> DEFINE row == d.threads[t]
             shown == Titled(RowsOf(d, t), row)
             x == RefreshThread(d, t, row, row)
  <2>1. row \in ThreadRow
    BY <1>1, <1>6 DEF Database, HasThread
  <2>2. shown \in ThreadRow
    BY <1>1, <1>6, <2>1, RowsOfFacts, TitledFacts
  <2>3. /\ x.threads = [d.threads EXCEPT ![t] = WriteBack(row, row, shown)]
        /\ x.threadCache = [d.threadCache EXCEPT ![t] = ThreadProjection(RowsOf(d, t), shown)]
        /\ x.threads[t] = WriteBack(row, row, shown)
        /\ x.threadCache[t] = ThreadProjection(RowsOf(d, t), shown)
    BY <1>1, <1>6, <2>1, RefreshThreadFacts
  <2>4. WriteBack(row, row, shown) = shown
    <3> HIDE DEF row, shown
    <3>1. QED
      BY <2>1, <2>2, WriteBackFacts
  <2>5. refreshed(t).threads[t] = row /\ refreshed(t).threadCache[t] = d.threadCache[t]
    <3> HIDE DEF done, refreshed
    <3>1. threads[t] = refreshed(t).threads[t]
      BY <1>6
    <3>2. caches[t] = refreshed(t).threadCache[t]
      BY <1>6
    <3> HIDE DEF threads, caches
    <3>3. row = threads[t] /\ d.threadCache[t] = caches[t]
      BY <1>5
    <3>4. QED
      BY <3>1, <3>2, <3>3
  <2>6. refreshed(t) = x
    <3> HIDE DEF done
    <3>1. QED
      BY <1>3
  <2> HIDE DEF refreshed, x
  <2>7. shown = row /\ d.threadCache[t] = ThreadProjection(RowsOf(d, t), shown)
    BY <2>3, <2>4, <2>5, <2>6
  <2>8. QED
    BY <2>7 DEF ThreadExact
<1>7. QED
  BY <1>6 DEF Exact, ThreadExact

-----------------------------------------------------------------------------
(* What the operations on a run write.                                      *)

LEMMA MaxOfNumbers ==
  ASSUME NEW n \in Nat
  PROVE  Max({0} \cup 1 .. n) = n
<1>1. n \in {0} \cup 1 .. n /\ \A m \in {0} \cup 1 .. n : n >= m
  OBVIOUS
<1>2. \A x \in {0} \cup 1 .. n : (\A m \in {0} \cup 1 .. n : x >= m) => x = n
  BY <1>1
<1>3. QED
  BY <1>1, <1>2 DEF Max

(* A log stays whole when the next event is appended to it.                 *)
LEMMA AppendedLog ==
  ASSUME NEW r, NEW events, events \subseteq EventRow, WholeLog(events, r),
         NEW v, v.seq = Max({0} \cup {e.seq : e \in events}) + 1, v.owner = r
  PROVE  WholeLog(events \cup {v}, r)
<1> DEFINE n == Cardinality(events)
<1>1. n \in Nat /\ IsFiniteSet(events)
  BY FS_CardinalityType DEF WholeLog
<1>2. {e.seq : e \in events} = 1 .. n
  BY DEF WholeLog
<1>3. v.seq = n + 1
  BY <1>1, <1>2, MaxOfNumbers
<1>4. v \notin events
  <2> HIDE DEF n
  <2>1. v \in events => v.seq \in 1 .. n
    BY <1>2
  <2>2. QED
    BY <1>1, <1>3, <2>1
<1>5. IsFiniteSet(events \cup {v}) /\ Cardinality(events \cup {v}) = n + 1
  BY <1>1, <1>4, FS_AddElement
<1>6. {e.seq : e \in events \cup {v}} = 1 .. n + 1
  <2>1. {e.seq : e \in events \cup {v}} = {e.seq : e \in events} \cup {v.seq}
    OBVIOUS
  <2> HIDE DEF n
  <2>2. 1 .. n + 1 = (1 .. n) \cup {n + 1}
    BY <1>1
  <2>3. QED
    BY <1>2, <1>3, <2>1, <2>2
<1>7. QED
  BY <1>5, <1>6 DEF WholeLog

LEMMA RunAndEventsWritten ==
  ASSUME NEW n \in Nat, NEW d, Kept(d, n), NEW r \in RunIds, NEW row \in RunRow,
         NEW events, events \subseteq EventRow,
         \A q \in RunIds \ {r} : {e \in events : e.run = q} = EventsOf(d, q),
         WholeLog({e \in events : e.run = r}, r)
  PROVE  Written(d, [d EXCEPT !.runs[r] = row, !.events = events], r, row)
<1> DEFINE e == [d EXCEPT !.runs[r] = row, !.events = events]
<1>1. d \in Database
  BY DEF Kept, Truth
<1>2. e = [d EXCEPT !.runs = [d.runs EXCEPT ![r] = row], !.events = events]
  BY <1>1 DEF Database
<1> HIDE DEF e
<1>3. /\ e \in Database
      /\ e.threads = d.threads /\ e.threadCache = d.threadCache /\ e.runCache = d.runCache
      /\ e.runs = [d.runs EXCEPT ![r] = row] /\ e.events = events
  BY <1>1, <1>2 DEF Database
<1>4. \A q : EventsOf(e, q) = {v \in events : v.run = q}
  BY <1>3 DEF EventsOf
<1>5. QED
  BY <1>3, <1>4 DEF Written, e

(* A method of the record, or the time of the run, has changed.             *)
LEMMA ChangeRunKeeps ==
  ASSUME NEW n \in Nat, NEW d, Kept(d, n), NEW r \in RunIds, NEW row, Fits(d, r, row, n)
  PROVE  /\ Kept(ChangeRun(d, r, row, d.events), n)
         /\ Exact(d) => Exact(ChangeRun(d, r, row, d.events))
<1> DEFINE e == [d EXCEPT !.runs[r] = row, !.events = d.events]
<1>1. row \in RunRow /\ row.thread \in Threads /\ d.threads[row.thread] \in ThreadRow
      /\ d.events \subseteq EventRow
  BY DEF Fits, RunRow, HasThread, Kept, Truth, Database
<1>2. Written(d, e, r, row)
  BY <1>1, RunAndEventsWritten DEF Kept, Truth, Whole, EventsOf
<1> HIDE DEF e
<1>3. Kept(Refreshed(e, row.thread, r, d.threads[row.thread]), n)
  BY <1>1, <1>2, RefreshedKeeps
<1>4. Exact(d) => Exact(Refreshed(e, row.thread, r, d.threads[row.thread]))
  BY <1>2, RefreshedExact
<1>5. ChangeRun(d, r, row, d.events) = Refreshed(e, row.thread, r, d.threads[row.thread])
  BY DEF ChangeRun, e
<1>6. QED
  BY <1>3, <1>4, <1>5

(* The rows of a new event, before the refresh.                             *)
Stamped(row, instant) == [row EXCEPT !.updated = instant]

NewEvent(d, r, kind) == [run |-> r, seq |-> NextSeq(d, r), kind |-> kind, owner |-> r]

Noted(d, r, kind, instant) ==
  [d EXCEPT !.runs[r] = Stamped(d.runs[r], instant), !.events = d.events \cup {NewEvent(d, r, kind)}]

LEMMA AddEventWrites ==
  ASSUME NEW n \in Nat, NEW d, Kept(d, n), NEW r \in RunIds \ FreeRuns(d), NEW kind \in Kinds
  PROVE  LET row == Stamped(d.runs[r], n)
             e   == Noted(d, r, kind, n)
         IN  /\ Fits(d, r, row, n) /\ Written(d, e, r, row) /\ row.created = d.runs[r].created
             /\ row.thread = d.runs[r].thread /\ row.rec = d.runs[r].rec
             /\ d.threads[row.thread] \in ThreadRow
             /\ NewEvent(d, r, kind) \in EventRow
             /\ EventsOf(e, r) = EventsOf(d, r) \cup {NewEvent(d, r, kind)}
             /\ AddEvent(d, r, kind, n) = Refreshed(e, row.thread, r, d.threads[row.thread])
<1> DEFINE row    == Stamped(d.runs[r], n)
           v      == NewEvent(d, r, kind)
           events == d.events \cup {v}
           e      == [d EXCEPT !.runs[r] = row, !.events = events]
<1>1. d.runs[r] \in RunRow /\ d.events \subseteq EventRow /\ d \in Database
  BY DEF Kept, Truth, Database, FreeRuns
<1>2. /\ row \in RunRow /\ row.thread = d.runs[r].thread /\ row.updated = n
      /\ row.created = d.runs[r].created /\ row.ended = d.runs[r].ended
      /\ row.rec = d.runs[r].rec
  BY <1>1 DEF RunRow, Stamped
<1>3. Fits(d, r, row, n)
  <2>1. d.runs[r].created <= n /\ d.runs[r].ended <= n /\ HasThread(d, d.runs[r].thread)
    BY DEF Kept, Truth, Dated, Rooted
  <2> HIDE DEF row
  <2>2. QED
    BY <1>2, <2>1 DEF Fits
<1>4. WholeLog(EventsOf(d, r), r) /\ EventsOf(d, r) \subseteq EventRow
  BY <1>1 DEF Kept, Truth, Whole, EventsOf
<1>5. NextSeq(d, r) \in Nat
  <2>1. Cardinality(EventsOf(d, r)) \in Nat
    BY <1>4, FS_CardinalityType DEF WholeLog
  <2>2. NextSeq(d, r) = Cardinality(EventsOf(d, r)) + 1
    BY <1>4, <2>1, MaxOfNumbers DEF WholeLog, NextSeq
  <2>3. QED
    BY <2>1, <2>2
<1>6. v \in EventRow /\ v.run = r /\ v.owner = r /\ v.seq = NextSeq(d, r)
  BY <1>5 DEF EventRow, NewEvent
<1> HIDE DEF row, v
<1>7. events \subseteq EventRow
  BY <1>1, <1>6
<1>8. \A q \in RunIds \ {r} : {x \in events : x.run = q} = EventsOf(d, q)
  BY <1>6 DEF EventsOf
<1>9. {x \in events : x.run = r} = EventsOf(d, r) \cup {v}
  BY <1>6 DEF EventsOf
<1>10. WholeLog({x \in events : x.run = r}, r)
  BY <1>4, <1>6, <1>9, AppendedLog DEF NextSeq
<1> HIDE DEF events
<1>11. Written(d, e, r, row)
  BY <1>2, <1>7, <1>8, <1>10, RunAndEventsWritten
<1>12. d.threads[row.thread] \in ThreadRow
  BY <1>1, <1>2, <1>3 DEF Fits, RunRow, HasThread, Database
<1>13. EventsOf(e, r) = EventsOf(d, r) \cup {v}
  BY <1>1, <1>9 DEF EventsOf, Database
<1> HIDE DEF e
<1>14. e = Noted(d, r, kind, n)
  BY DEF e, row, v, events, Noted
<1>15. AddEvent(d, r, kind, n) = Refreshed(e, row.thread, r, d.threads[row.thread])
  BY DEF AddEvent, ChangeRun, e, events, v, row, Stamped, NewEvent
<1>16. QED
  BY <1>2, <1>3, <1>6, <1>11, <1>12, <1>13, <1>14, <1>15 DEF row, v

LEMMA AddEventKeeps ==
  ASSUME NEW n \in Nat, NEW d, Kept(d, n), NEW r \in RunIds \ FreeRuns(d), NEW kind \in Kinds
  PROVE  /\ Kept(AddEvent(d, r, kind, n), n)
         /\ Exact(d) => Exact(AddEvent(d, r, kind, n))
<1> DEFINE row == Stamped(d.runs[r], n)
           e   == Noted(d, r, kind, n)
<1>1. /\ Fits(d, r, row, n) /\ Written(d, e, r, row) /\ d.threads[row.thread] \in ThreadRow
      /\ AddEvent(d, r, kind, n) = Refreshed(e, row.thread, r, d.threads[row.thread])
  BY AddEventWrites
<1> HIDE DEF row, e
<1>2. Kept(Refreshed(e, row.thread, r, d.threads[row.thread]), n)
  BY <1>1, RefreshedKeeps
<1>3. Exact(d) => Exact(Refreshed(e, row.thread, r, d.threads[row.thread]))
  BY <1>1, RefreshedExact
<1>4. QED
  BY <1>1, <1>2, <1>3

(* The row of a new run, before the refresh.                                *)
Started(d, t, r, instant) == [d EXCEPT !.runs[r] = NewRun(t, r, instant)]

LEMMA AddRunWrites ==
  ASSUME NEW n \in Nat, NEW d, Kept(d, n), NEW t \in Threads, HasThread(d, t),
         NEW r \in FreeRuns(d)
  PROVE  LET row == NewRun(t, r, n)
             e   == Started(d, t, r, n)
         IN  /\ Fits(d, r, row, n) /\ Written(d, e, r, row)
             /\ row.thread = t /\ row.created = n /\ row.rec = NewRecord
             /\ EventsOf(e, r) = {}
             /\ \A loaded : AddRun(d, t, r, loaded, n) = Refreshed(e, t, r, loaded)
<1> DEFINE row == NewRun(t, r, n)
           e   == Started(d, t, r, n)
<1>1. d \in Database /\ r \in RunIds /\ d.runs[r] = Null
  BY DEF Kept, Truth, FreeRuns
<1>2. NewRecord \in {rec \in Record : rec.log = << >>}
  BY DEF NewRecord, Record, Status
<1>3. /\ row \in RunRow /\ row.thread = t /\ row.created = n /\ row.updated = n /\ row.ended = 0
      /\ row.rec = NewRecord
  BY <1>1, <1>2 DEF NewRun, RunRow
<1>4. \A loaded : AddRun(d, t, r, loaded, n) = Refreshed(e, t, r, loaded)
  BY DEF AddRun, Started
<1> HIDE DEF row
<1>5. Fits(d, r, row, n)
  BY <1>1, <1>3 DEF Fits
<1>6. EventsOf(d, r) = {}
  BY <1>1 DEF EventsOf, Kept, Truth, Rooted
<1>7. e = [d EXCEPT !.runs = [d.runs EXCEPT ![r] = row]]
  BY <1>1 DEF Database, Started, row
<1> HIDE DEF e
<1>8. /\ e \in Database
      /\ e.threads = d.threads /\ e.threadCache = d.threadCache /\ e.runCache = d.runCache
      /\ e.runs = [d.runs EXCEPT ![r] = row] /\ e.events = d.events
  BY <1>1, <1>3, <1>7 DEF Database
<1>9. \A q : EventsOf(e, q) = EventsOf(d, q)
  BY <1>8 DEF EventsOf
<1>10. WholeLog(EventsOf(e, r), r)
  BY <1>1, <1>9 DEF Kept, Truth, Whole
<1>11. Written(d, e, r, row)
  BY <1>8, <1>9, <1>10 DEF Written
<1>12. QED
  BY <1>3, <1>4, <1>5, <1>6, <1>9, <1>11 DEF e, row

(* A run is started with the thread as it was read.                         *)
LEMMA AddRunKeeps ==
  ASSUME NEW n \in Nat, NEW d, Kept(d, n), NEW t \in Threads, HasThread(d, t),
         NEW r \in FreeRuns(d), NEW loaded \in ThreadRow, loaded.last # r
  PROVE  /\ Kept(AddRun(d, t, r, loaded, n), n)
         /\ Exact(d) /\ loaded = d.threads[t] => Exact(AddRun(d, t, r, loaded, n))
<1> DEFINE row == NewRun(t, r, n)
           e   == Started(d, t, r, n)
<1>1. /\ Fits(d, r, row, n) /\ Written(d, e, r, row) /\ row.thread = t
      /\ AddRun(d, t, r, loaded, n) = Refreshed(e, t, r, loaded)
  BY AddRunWrites
<1>2. r \in RunIds
  BY DEF FreeRuns
<1> HIDE DEF row, e
<1>3. Kept(Refreshed(e, row.thread, r, loaded), n)
  BY <1>1, <1>2, RefreshedKeeps
<1>4. Exact(d) => Exact(Refreshed(e, row.thread, r, d.threads[row.thread]))
  BY <1>1, <1>2, RefreshedExact
<1>5. QED
  BY <1>1, <1>3, <1>4


-----------------------------------------------------------------------------
(* What the operations on a thread write.                                   *)

(* The other threads, their runs and logs are in x as they are in d.        *)
Elsewhere(d, x, t) ==
  \A u \in Threads \ {t} :
    /\ HasThread(x, u) <=> HasThread(d, u)
    /\ RunsOf(x, u) = RunsOf(d, u)
    /\ \A r \in RunsOf(d, u) : x.runs[r] = d.runs[r] /\ EventsOf(x, r) = EventsOf(d, r)

LEMMA NewThreadKeeps ==
  ASSUME NEW n \in Nat, NEW d, Kept(d, n), NEW t \in Threads, ~HasThread(d, t)
  PROVE  /\ Kept(AddThread(d, t, NewThread(n)), n)
         /\ Exact(d) => Exact(AddThread(d, t, NewThread(n)))
         /\ LET x == AddThread(d, t, NewThread(n))
            IN  Elsewhere(d, x, t) /\ HasThread(x, t) /\ RunsOf(x, t) = {}
<1> DEFINE row == NewThread(n)
           x   == [d EXCEPT !.threads[t] = row]
<1>1. row \in ThreadRow /\ row # Null /\ row.last = Null
  BY Constants DEF NewThread, ThreadRow, Titles
<1>2. d \in Database /\ Dated(d, n) /\ Rooted(d) /\ Whole(d)
  BY DEF Kept, Truth
<1> HIDE DEF row
<1>3. x = [d EXCEPT !.threads = [d.threads EXCEPT ![t] = row]]
  BY <1>2 DEF Database
<1> HIDE DEF x
<1>4. /\ x \in Database
      /\ x.runs = d.runs /\ x.events = d.events /\ x.runCache = d.runCache
      /\ x.threadCache = d.threadCache
      /\ x.threads[t] = row
      /\ \A u \in Threads \ {t} : x.threads[u] = d.threads[u]
  BY <1>1, <1>2, <1>3 DEF Database
<1>5. /\ FreeRuns(x) = FreeRuns(d)
      /\ \A u : RunsOf(x, u) = RunsOf(d, u)
      /\ \A u : RowsOf(x, u) = RowsOf(d, u)
      /\ \A r : EventsOf(x, r) = EventsOf(d, r)
      /\ \A r : BuildRunProjection(x, r) = BuildRunProjection(d, r)
  BY <1>4, SameRuns
<1>6. HasThread(x, t) /\ \A u \in Threads : HasThread(d, u) => HasThread(x, u)
  BY <1>1, <1>4 DEF HasThread
<1>7. Truth(x, n)
  <2>1. \A r \in RunIds \ FreeRuns(d) : d.runs[r].thread \in Threads
    BY <1>2 DEF Database, RunRow, FreeRuns
  <2>2. Rooted(x)
    BY <1>2, <1>4, <1>5, <1>6, <2>1 DEF Rooted
  <2>3. Dated(x, n) /\ Whole(x)
    BY <1>2, <1>4, <1>5 DEF Dated, Whole
  <2>4. QED
    BY <1>4, <2>2, <2>3 DEF Truth
<1>8. RunCached(x)
  BY <1>4, <1>5 DEF RunCached, Kept
<1>9. \A u \in Threads \ {t} : ThreadKept(x, u)
  BY <1>4, <1>5 DEF Kept, ThreadKept, HasThread
<1>10. RunsOf(x, t) = {}
  BY <1>2, <1>5 DEF RunsOf, Rooted
<1>11. Kept(RefreshThread(x, t, row, row), n)
  BY <1>1, <1>4, <1>6, <1>7, <1>8, <1>9, <1>10, RefreshThreadKeeps
<1>12. ASSUME Exact(d) PROVE Exact(RefreshThread(x, t, row, row))
  <2>1. Dated(x, n)
    BY <1>7 DEF Truth
  <2>2. /\ ThreadExact(RefreshThread(x, t, x.threads[t], row), t)
        /\ \A u \in Threads \ {t} :
             ThreadExact(x, u) => ThreadExact(RefreshThread(x, t, x.threads[t], row), u)
    BY <1>1, <1>4, <1>6, <2>1, RefreshThreadExact
  <2>3. \A u \in Threads \ {t} : ThreadExact(x, u)
    BY <1>4, <1>5, <1>12 DEF Exact, ThreadExact, HasThread
  <2>4. QED
    BY <1>4, <2>2, <2>3 DEF Exact
<1>13. AddThread(d, t, row) = RefreshThread(x, t, row, row)
  BY DEF AddThread, x
<1>14. LET y == RefreshThread(x, t, row, row)
       IN  Elsewhere(d, y, t) /\ HasThread(y, t) /\ RunsOf(y, t) = {}
  <2> DEFINE y == RefreshThread(x, t, row, row)
  <2>1. Dated(x, n)
    BY <1>7 DEF Truth
  <2>2. /\ y.runs = x.runs /\ y.events = x.events
        /\ \A u \in Threads : HasThread(y, u) <=> HasThread(x, u)
    BY <1>1, <1>4, <1>6, <2>1, RefreshThreadShows
  <2> HIDE DEF y
  <2>3. \A u : RunsOf(y, u) = RunsOf(x, u) /\ EventsOf(y, u) = EventsOf(x, u)
    BY <2>2, SameRuns
  <2>4. HasThread(y, t) /\ \A u \in Threads \ {t} : HasThread(y, u) <=> HasThread(d, u)
    BY <1>4, <1>6, <2>2 DEF HasThread
  <2>5. QED
    BY <1>4, <1>5, <1>10, <2>2, <2>3, <2>4 DEF Elsewhere, y
<1>15. QED
  BY <1>11, <1>12, <1>13, <1>14 DEF row

(* A rename may write back a thread it read long ago.                       *)
LEMMA RenameKeeps ==
  ASSUME NEW n \in Nat, NEW d, Kept(d, n), NEW t \in Threads, HasThread(d, t),
         NEW loaded \in ThreadRow
  PROVE  LET renamed == [loaded EXCEPT !.title = "renamed", !.source = "manual", !.updated = n]
         IN  /\ Kept(RefreshThread(d, t, loaded, renamed), n)
             /\ Exact(d) /\ loaded = d.threads[t] => Exact(RefreshThread(d, t, loaded, renamed))
             /\ LET x == RefreshThread(d, t, loaded, renamed)
                IN  /\ x.runs = d.runs /\ x.events = d.events
                    /\ \A u \in Threads : HasThread(x, u) <=> HasThread(d, u)
<1> DEFINE renamed == [loaded EXCEPT !.title = "renamed", !.source = "manual", !.updated = n]
<1>1. renamed \in ThreadRow /\ renamed.last = loaded.last
  BY DEF ThreadRow, Titles
<1> HIDE DEF renamed
<1>2. d \in Database /\ Dated(d, n) /\ Truth(d, n) /\ RunCached(d) /\ \A u \in Threads : ThreadKept(d, u)
  BY DEF Kept, Truth
<1>3. IF RunsOf(d, t) = {} THEN d.threads[t].last = Null ELSE d.threads[t].last \in RunsOf(d, t)
  BY <1>2 DEF ThreadKept
<1>4. Kept(RefreshThread(d, t, loaded, renamed), n)
  BY <1>1, <1>2, <1>3, RefreshThreadKeeps
<1>5. ASSUME Exact(d), loaded = d.threads[t] PROVE Exact(RefreshThread(d, t, loaded, renamed))
  <2>1. /\ ThreadExact(RefreshThread(d, t, d.threads[t], renamed), t)
        /\ \A u \in Threads \ {t} :
             ThreadExact(d, u) => ThreadExact(RefreshThread(d, t, d.threads[t], renamed), u)
    BY <1>1, <1>2, RefreshThreadExact
  <2>2. QED
    BY <1>5, <2>1 DEF Exact
<1>6. LET x == RefreshThread(d, t, loaded, renamed)
      IN  /\ x.runs = d.runs /\ x.events = d.events
          /\ \A u \in Threads : HasThread(x, u) <=> HasThread(d, u)
  BY <1>1, <1>2, RefreshThreadShows
<1>7. QED
  BY <1>4, <1>5, <1>6 DEF renamed

(* A deletion leaves nothing of the thread and everything of the others.    *)
LEMMA RemoveThreadKeeps ==
  ASSUME NEW n \in Nat, NEW d, Kept(d, n), NEW t \in Threads
  PROVE  /\ Kept(RemoveThread(d, t), n)
         /\ Exact(d) => Exact(RemoveThread(d, t))
         /\ LET x == RemoveThread(d, t)
            IN  Elsewhere(d, x, t) /\ ~HasThread(x, t) /\ RunsOf(x, t) = {}
<1> DEFINE gone == RunsOf(d, t)
           x    == RemoveThread(d, t)
<1>1. d \in Database /\ Dated(d, n) /\ Rooted(d) /\ Whole(d) /\ RunCached(d)
  BY DEF Kept, Truth
<1>2. /\ x \in Database
      /\ x.threads = [d.threads EXCEPT ![t] = Null]
      /\ x.threadCache = [d.threadCache EXCEPT ![t] = Null]
      /\ x.runs = [r \in RunIds |-> IF r \in gone THEN Null ELSE d.runs[r]]
      /\ x.runCache = [r \in RunIds |-> IF r \in gone THEN Null ELSE d.runCache[r]]
      /\ x.events = {e \in d.events : e.run \notin gone}
  BY <1>1 DEF RemoveThread, Database
<1> HIDE DEF gone, x
<1>3. /\ x.threads[t] = Null /\ x.threadCache[t] = Null
      /\ \A u \in Threads \ {t} : x.threads[u] = d.threads[u] /\ x.threadCache[u] = d.threadCache[u]
  BY <1>1, <1>2 DEF Database
<1>4. /\ FreeRuns(x) = FreeRuns(d) \cup gone
      /\ \A r \in RunIds \ FreeRuns(x) : x.runs[r] = d.runs[r]
  <2>1. gone \subseteq RunIds
    BY DEF gone, RunsOf
  <2>2. QED
    BY <1>2, <2>1 DEF FreeRuns
<1>5. \A r \in RunIds \ FreeRuns(x) : EventsOf(x, r) = EventsOf(d, r)
  BY <1>2, <1>4 DEF EventsOf
<1>6. \A r \in RunIds \ FreeRuns(x) : BuildRunProjection(x, r) = BuildRunProjection(d, r)
  BY <1>4, <1>5 DEF BuildRunProjection
<1>7. \A r \in FreeRuns(x) : EventsOf(x, r) = {}
  <2>1. \A e \in x.events : e \in d.events /\ e.run \notin gone /\ e.run \notin FreeRuns(d)
    BY <1>1, <1>2 DEF Rooted, FreeRuns
  <2>2. QED
    BY <1>4, <2>1 DEF EventsOf
<1>8. Rooted(x)
  <2>1. ASSUME NEW r \in RunIds \ FreeRuns(x) PROVE HasThread(x, x.runs[r].thread)
    <3>1. r \in RunIds \ FreeRuns(d) /\ r \notin gone /\ x.runs[r] = d.runs[r]
      BY <1>4
    <3>2. HasThread(d, d.runs[r].thread) /\ d.runs[r].thread # t /\ d.runs[r].thread \in Threads
      BY <1>1, <3>1 DEF Rooted, gone, RunsOf, FreeRuns, Database, RunRow
    <3>3. QED
      BY <1>3, <3>1, <3>2 DEF HasThread
  <2>2. ASSUME NEW e \in x.events PROVE x.runs[e.run] # Null
    <3>1. e \in d.events /\ e.run \notin gone /\ e.run \in RunIds /\ d.runs[e.run] # Null
      BY <1>1, <1>2 DEF Rooted, Database, EventRow
    <3>2. QED
      BY <1>2, <3>1
  <2>3. QED
    BY <2>1, <2>2 DEF Rooted
<1>9. Dated(x, n)
  BY <1>1, <1>4 DEF Dated
<1>10. Whole(x)
  <2> SUFFICES ASSUME NEW r \in RunIds PROVE WholeLog(EventsOf(x, r), r)
    BY DEF Whole
  <2>1. CASE r \notin FreeRuns(x)
    BY <1>1, <1>5, <2>1 DEF Whole
  <2>2. CASE r \in FreeRuns(x)
    <3>1. WholeLog({}, r)
      <4>1. IsFiniteSet({}) /\ Cardinality({}) = 0
        BY FS_EmptySet
      <4>2. 1 .. 0 = {}
        OBVIOUS
      <4>3. QED
        BY <4>1, <4>2 DEF WholeLog
    <3>2. QED
      BY <1>7, <2>2, <3>1
  <2>3. QED
    BY <2>1, <2>2
<1>11. RunCached(x)
  <2> SUFFICES ASSUME NEW r \in RunIds
               PROVE  x.runCache[r] = IF x.runs[r] = Null THEN Null ELSE BuildRunProjection(x, r)
    BY DEF RunCached
  <2>1. CASE r \in gone
    BY <1>2, <2>1
  <2>2. CASE r \notin gone
    <3>1. x.runCache[r] = d.runCache[r] /\ x.runs[r] = d.runs[r]
      BY <1>2, <2>2
    <3>2. d.runCache[r] = IF d.runs[r] = Null THEN Null ELSE BuildRunProjection(d, r)
      BY <1>1 DEF RunCached
    <3>3. x.runs[r] # Null => r \in RunIds \ FreeRuns(x)
      BY DEF FreeRuns
    <3>4. QED
      BY <1>6, <3>1, <3>2, <3>3
  <2>3. QED
    BY <2>1, <2>2
<1>12. ASSUME NEW u \in Threads \ {t}
       PROVE  RunsOf(x, u) = RunsOf(d, u) /\ RowsOf(x, u) = RowsOf(d, u)
  <2>1. \A r \in RunsOf(d, u) : r \notin gone
    BY DEF gone, RunsOf
  <2>2. RunsOf(x, u) = RunsOf(d, u)
    BY <1>4, <2>1 DEF RunsOf
  <2>3. \A r \in RunsOf(d, u) : x.runs[r] = d.runs[r]
    BY <1>4, <2>2 DEF RunsOf
  <2>4. QED
    BY <2>2, <2>3 DEF RowsOf
<1>13. ASSUME NEW u \in Threads PROVE ThreadKept(x, u)
  <2>1. CASE u = t
    BY <1>3, <2>1 DEF ThreadKept, HasThread
  <2>2. CASE u # t
    <3>1. ThreadKept(d, u) /\ u \in Threads \ {t}
      BY <2>2 DEF Kept
    <3>2. QED
      BY <1>3, <1>12, <3>1 DEF ThreadKept, HasThread
  <2>3. QED
    BY <2>1, <2>2
<1>14. Kept(x, n)
  BY <1>2, <1>8, <1>9, <1>10, <1>11, <1>13 DEF Kept, Truth
<1>15. Exact(d) => Exact(x)
  <2> SUFFICES ASSUME Exact(d), NEW u \in Threads, HasThread(x, u)
               PROVE  /\ Titled(RowsOf(x, u), x.threads[u]) = x.threads[u]
                      /\ x.threadCache[u] = ThreadProjection(RowsOf(x, u), x.threads[u])
    BY DEF Exact, ThreadExact
  <2>1. u \in Threads \ {t}
    BY <1>3 DEF HasThread
  <2>2. QED
    BY <1>3, <1>12, <2>1 DEF Exact, ThreadExact, HasThread
<1>16. Elsewhere(d, x, t) /\ ~HasThread(x, t) /\ RunsOf(x, t) = {}
  <2>1. ASSUME NEW u \in Threads \ {t}, NEW r \in RunsOf(d, u)
        PROVE  x.runs[r] = d.runs[r] /\ EventsOf(x, r) = EventsOf(d, r)
    <3>1. r \in RunIds \ FreeRuns(x)
      BY <1>12 DEF RunsOf
    <3>2. QED
      BY <1>4, <1>5, <3>1
  <2>2. RunsOf(x, t) = {}
    BY <1>4 DEF RunsOf, gone
  <2>3. QED
    BY <1>3, <1>12, <2>1, <2>2 DEF Elsewhere, HasThread
<1>17. QED
  BY <1>14, <1>15, <1>16 DEF x


(* The copy of a whole log is whole.                                        *)
LEMMA ClonedLog ==
  ASSUME NEW s, NEW events, events \subseteq EventRow, \A e \in events : e.run = s,
         WholeLog(events, s), NEW copyOf, copyOf[s] \in RunIds
  PROVE  LET clones == {ClonedEvent(e, copyOf) : e \in events}
         IN  /\ clones \subseteq EventRow
             /\ \A v \in clones : v.run = copyOf[s]
             /\ WholeLog(clones, copyOf[s])
<1> DEFINE clones == {ClonedEvent(e, copyOf) : e \in events}
           clone  == [e \in events |-> ClonedEvent(e, copyOf)]
<1>1. ASSUME NEW e \in events
      PROVE  /\ ClonedEvent(e, copyOf) \in EventRow
             /\ ClonedEvent(e, copyOf).run = copyOf[s]
             /\ ClonedEvent(e, copyOf).owner = copyOf[s]
             /\ ClonedEvent(e, copyOf).seq = e.seq
             /\ ClonedEvent(e, copyOf).kind = e.kind
  <2>1. e \in EventRow /\ e.run = s /\ e.owner = s
    BY DEF WholeLog
  <2>2. QED
    BY <2>1 DEF ClonedEvent, EventRow
<1>2. clone \in Bijection(events, clones)
  <2>1. clone \in [events -> clones] /\ \A v \in clones : \E e \in events : clone[e] = v
    OBVIOUS
  <2>2. ASSUME NEW e \in events, NEW f \in events, clone[e] = clone[f] PROVE e = f
    <3>1. e.seq = f.seq /\ e.kind = f.kind
      BY <1>1, <2>2
    <3>2. /\ e \in EventRow /\ e.run = s /\ e.owner = s
          /\ f \in EventRow /\ f.run = s /\ f.owner = s
      BY DEF WholeLog
    <3>3. QED
      BY <3>1, <3>2 DEF EventRow
  <2>3. QED
    BY <2>1, <2>2 DEF Bijection, Injection, Surjection, IsInjective
<1>3. IsFiniteSet(clones) /\ Cardinality(clones) = Cardinality(events)
  <2>1. ExistsBijection(events, clones)
    BY <1>2 DEF ExistsBijection
  <2>2. QED
    BY <2>1, FS_Bijection DEF WholeLog
<1>4. {v.seq : v \in clones} = {e.seq : e \in events}
  BY <1>1
<1>5. WholeLog(clones, copyOf[s])
  BY <1>1, <1>3, <1>4 DEF WholeLog
<1>6. QED
  BY <1>1, <1>5

(* x is d with thread u as a copy of thread t, run by run.                  *)
Copied(d, x, t, u, copyOf) ==
  /\ Elsewhere(d, x, u) /\ HasThread(x, u)
  /\ RunsOf(x, u) = {copyOf[s] : s \in RunsOf(d, t)}
  /\ \A s \in RunsOf(d, t) :
       /\ x.runs[copyOf[s]].rec = d.runs[s].rec
       /\ x.runs[copyOf[s]].created = d.runs[s].created
       /\ EventsOf(x, copyOf[s]) = {ClonedEvent(e, copyOf) : e \in EventsOf(d, s)}

(* A thread is copied with its runs, their events and their projections.    *)
LEMMA CopyThreadKeeps ==
  ASSUME NEW n \in Nat, NEW d, Kept(d, n), NEW t \in Threads,
         NEW u \in Threads, ~HasThread(d, u),
         NEW copyOf \in Injection(RunsOf(d, t), FreeRuns(d))
  PROVE  /\ Kept(CopyThread(d, t, u, copyOf, n), n)
         /\ Exact(d) => Exact(CopyThread(d, t, u, copyOf, n))
         /\ Copied(d, CopyThread(d, t, u, copyOf, n), t, u, copyOf)
<1> DEFINE source == RunsOf(d, t)
           last   == IF source = {} THEN Null ELSE copyOf[LastRun(RowsOf(d, t))]
           row    == [title |-> "copy", source |-> "manual", last |-> last, updated |-> n]
           copies == {copyOf[s] : s \in source}
           runs   == [r \in RunIds |->
                        IF \E s \in source : copyOf[s] = r
                        THEN CopiedRun(d, t, u, CHOOSE s \in source : copyOf[s] = r, n)
                        ELSE d.runs[r]]
           clones == UNION {{ClonedEvent(e, copyOf) : e \in EventsOf(d, s)} : s \in source}
           copied == [d EXCEPT !.runs = runs, !.events = d.events \cup clones]
           caches == [r \in RunIds |-> IF \E s \in source : copyOf[s] = r
                                       THEN BuildRunProjection(copied, r) ELSE d.runCache[r]]
           x      == [d EXCEPT !.threads = [d.threads EXCEPT ![u] = row], !.runs = runs,
                               !.events = d.events \cup clones, !.runCache = caches]
<1>1. /\ d \in Database /\ Dated(d, n) /\ Rooted(d) /\ Whole(d) /\ RunCached(d)
      /\ \A v \in Threads : ThreadKept(d, v)
  BY DEF Kept, Truth
<1>2. /\ source \subseteq RunIds /\ copies \subseteq FreeRuns(d)
      /\ \A s \in source : copyOf[s] \in FreeRuns(d) /\ copyOf[s] \in RunIds
      /\ \A r, s \in source : copyOf[r] = copyOf[s] => r = s
  BY DEF Injection, IsInjective, RunsOf, FreeRuns
<1>3. row \in ThreadRow /\ row.last = last /\ row # Null
      /\ IF source = {} THEN last = Null ELSE last \in copies
  <2>1. source # {} => LastRun(RowsOf(d, t)) \in source
    BY <1>1, RowsOfFacts, EndsOfRows
  <2>2. IF source = {} THEN last = Null ELSE last \in copies
    BY <2>1
  <2>3. last \in RunIds \cup {Null}
    BY <1>2, <2>2
  <2> HIDE DEF last
  <2>4. row \in ThreadRow
    BY <2>3 DEF ThreadRow, Titles
  <2>5. QED
    BY <2>2, <2>4, Constants
<1>4. ASSUME NEW s \in source
      PROVE  /\ runs[copyOf[s]] = CopiedRun(d, t, u, s, n)
             /\ CopiedRun(d, t, u, s, n) \in RunRow
             /\ CopiedRun(d, t, u, s, n).thread = u
             /\ CopiedRun(d, t, u, s, n).rec = d.runs[s].rec
             /\ CopiedRun(d, t, u, s, n).created = d.runs[s].created
             /\ CopiedRun(d, t, u, s, n).created <= n
             /\ CopiedRun(d, t, u, s, n).updated <= n
             /\ CopiedRun(d, t, u, s, n).ended <= n
  <2>1. (CHOOSE r \in source : copyOf[r] = copyOf[s]) = s
    BY <1>2
  <2>2. runs[copyOf[s]] = CopiedRun(d, t, u, s, n)
    BY <1>2, <2>1
  <2>3. d.runs[s] \in RunRow /\ d.runs[s].created <= n /\ d.runs[s].updated <= n /\ d.runs[s].ended <= n
    BY <1>1 DEF RunsOf, FreeRuns, Database, Dated
  <2>4. n <= n
    OBVIOUS
  <2> HIDE DEF runs
  <2>5. QED
    BY <2>2, <2>3, <2>4 DEF CopiedRun, RunRow
<1>5. \A r \in RunIds \ copies : runs[r] = d.runs[r]
  OBVIOUS
<1>6. ASSUME NEW s \in source
      PROVE  /\ {ClonedEvent(e, copyOf) : e \in EventsOf(d, s)} \subseteq EventRow
             /\ \A v \in {ClonedEvent(e, copyOf) : e \in EventsOf(d, s)} : v.run = copyOf[s]
             /\ WholeLog({ClonedEvent(e, copyOf) : e \in EventsOf(d, s)}, copyOf[s])
  <2>1. /\ EventsOf(d, s) \subseteq EventRow /\ \A e \in EventsOf(d, s) : e.run = s
        /\ WholeLog(EventsOf(d, s), s) /\ copyOf[s] \in RunIds
    BY <1>1, <1>2 DEF EventsOf, Database, Whole
  <2>2. QED
    BY <2>1, ClonedLog
<1>7. clones \subseteq EventRow /\ \A v \in clones : v.run \in copies
  BY <1>6
<1> HIDE DEF row, last, runs
<1>8. copied \in Database /\ copied.runs = runs /\ copied.events = d.events \cup clones
  <2>1. runs \in [RunIds -> RunRow \cup {Null}]
    <3>1. ASSUME NEW r \in RunIds PROVE runs[r] \in RunRow \cup {Null}
      <4>1. CASE r \in copies
        BY <1>4, <4>1
      <4>2. CASE r \notin copies
        BY <1>1, <1>5, <4>2 DEF Database
      <4>3. QED
        BY <4>1, <4>2
    <3>2. QED
      BY <3>1 DEF runs
  <2> HIDE DEF clones
  <2>2. QED
    BY <1>1, <1>7, <2>1 DEF Database
<1> HIDE DEF copied, copies, clones
<1>9. \A q \in RunIds \ copies : EventsOf(copied, q) = EventsOf(d, q)
  BY <1>7, <1>8 DEF EventsOf
<1>10. ASSUME NEW s \in source
       PROVE  EventsOf(copied, copyOf[s]) = {ClonedEvent(e, copyOf) : e \in EventsOf(d, s)}
  <2>1. \A e \in d.events : e.run # copyOf[s]
    BY <1>1, <1>2 DEF Rooted, FreeRuns
  <2>2. \A v \in clones : v.run = copyOf[s] => v \in {ClonedEvent(e, copyOf) : e \in EventsOf(d, s)}
    BY <1>2, <1>6 DEF clones
  <2>3. {ClonedEvent(e, copyOf) : e \in EventsOf(d, s)} \subseteq clones
    BY DEF clones
  <2>4. QED
    BY <1>6, <1>8, <2>1, <2>2, <2>3 DEF EventsOf
<1>11. ASSUME NEW r \in RunIds PROVE WholeLog(EventsOf(copied, r), r)
  <2>1. CASE r \in copies
    BY <1>6, <1>10, <2>1 DEF copies
  <2>2. CASE r \notin copies
    BY <1>1, <1>9, <2>2 DEF Whole
  <2>3. QED
    BY <2>1, <2>2
<1>12. \A r \in copies : runs[r] \in RunRow /\ runs[r] # Null /\ runs[r].thread = u
                         /\ runs[r].created <= n /\ runs[r].updated <= n /\ runs[r].ended <= n
  BY <1>4, Constants DEF copies
<1>13. \A r \in copies : BuildRunProjection(copied, r) \in RunCacheRow
  <2> SUFFICES ASSUME NEW r \in copies PROVE BuildRunProjection(copied, r) \in RunCacheRow
    OBVIOUS
  <2>1. r \in RunIds /\ copied.runs[r].rec \in Record
    BY <1>2, <1>8, <1>12 DEF RunRow, FreeRuns
  <2>2. EventsOf(copied, r) \subseteq EventRow
    BY <1>8 DEF EventsOf, Database
  <2>3. QED
    BY <1>11, <2>1, <2>2, RunProjectionType DEF BuildRunProjection
<1>14. /\ \A r \in copies : caches[r] = BuildRunProjection(copied, r)
       /\ \A r \in RunIds \ copies : caches[r] = d.runCache[r]
       /\ caches \in [RunIds -> RunCacheRow \cup {Null}]
  <2>1. \A r : (\E s \in source : copyOf[s] = r) <=> r \in copies
    BY DEF copies
  <2>2. copies \subseteq RunIds
    BY <1>2 DEF FreeRuns
  <2>3. /\ \A r \in copies : caches[r] = BuildRunProjection(copied, r)
        /\ \A r \in RunIds \ copies : caches[r] = d.runCache[r]
    BY <2>1, <2>2
  <2>4. \A r \in RunIds : caches[r] \in RunCacheRow \cup {Null}
    BY <1>1, <1>13, <2>3 DEF Database
  <2>5. QED
    BY <2>3, <2>4
<1> HIDE DEF caches
<1>15. /\ x \in Database
       /\ x.threads = [d.threads EXCEPT ![u] = row] /\ x.threadCache = d.threadCache
       /\ x.runs = runs /\ x.events = d.events \cup clones /\ x.runCache = caches
  <2>1. runs \in [RunIds -> RunRow \cup {Null}] /\ d.events \cup clones \in SUBSET EventRow
    BY <1>8 DEF Database
  <2>2. QED
    BY <1>1, <1>3, <1>14, <2>1 DEF Database
<1> HIDE DEF x
<1>16. /\ x.threads[u] = row
       /\ \A v \in Threads \ {u} : x.threads[v] = d.threads[v]
       /\ HasThread(x, u) /\ \A v \in Threads : HasThread(d, v) => HasThread(x, v)
  <2>1. x.threads[u] = row /\ \A v \in Threads \ {u} : x.threads[v] = d.threads[v]
    BY <1>1, <1>15 DEF Database
  <2>2. QED
    BY <1>3, <2>1 DEF HasThread
<1>17. FreeRuns(x) = FreeRuns(d) \ copies
  <2>1. \A r \in RunIds : r \in FreeRuns(x) <=> (r \in FreeRuns(d) /\ r \notin copies)
    BY <1>5, <1>12, <1>15 DEF FreeRuns, copies
  <2>2. QED
    BY <2>1 DEF FreeRuns
<1>18. /\ \A r : EventsOf(x, r) = EventsOf(copied, r)
       /\ \A r : BuildRunProjection(x, r) = BuildRunProjection(copied, r)
  BY <1>8, <1>15, SameRuns
<1>19. \A r \in RunIds \ copies : x.runs[r] = d.runs[r]
  BY <1>5, <1>15 DEF copies
<1>20. Rooted(x)
  <2>1. ASSUME NEW r \in RunIds \ FreeRuns(x) PROVE HasThread(x, x.runs[r].thread)
    <3>1. CASE r \in copies
      BY <1>12, <1>15, <1>16, <3>1
    <3>2. CASE r \notin copies
      <4>1. r \in RunIds \ FreeRuns(d) /\ x.runs[r] = d.runs[r]
        BY <1>17, <1>19, <3>2
      <4>2. HasThread(d, d.runs[r].thread) /\ d.runs[r].thread \in Threads
        BY <1>1, <4>1 DEF Rooted, Database, RunRow, FreeRuns
      <4>3. QED
        BY <1>16, <4>1, <4>2
    <3>3. QED
      BY <3>1, <3>2
  <2>2. ASSUME NEW e \in x.events PROVE x.runs[e.run] # Null
    <3>1. CASE e \in clones
      BY <1>7, <1>12, <1>15, <3>1 DEF clones, copies
    <3>2. CASE e \in d.events
      <4>1. e.run \in RunIds /\ d.runs[e.run] # Null
        BY <1>1, <3>2 DEF Rooted, Database, EventRow
      <4>2. e.run \notin copies
        BY <1>2, <4>1 DEF FreeRuns
      <4>3. QED
        BY <1>19, <4>1, <4>2
    <3>3. QED
      BY <1>15, <3>1, <3>2
  <2>3. QED
    BY <2>1, <2>2 DEF Rooted
<1>21. Dated(x, n)
  <2>1. ASSUME NEW r \in RunIds \ FreeRuns(x)
        PROVE  x.runs[r].created <= n /\ x.runs[r].updated <= n /\ x.runs[r].ended <= n
    <3>1. CASE r \in copies
      BY <1>12, <1>15, <3>1
    <3>2. CASE r \notin copies
      BY <1>1, <1>17, <1>19, <3>2 DEF Dated
    <3>3. QED
      BY <3>1, <3>2
  <2>2. QED
    BY <2>1 DEF Dated
<1>22. Truth(x, n)
  BY <1>11, <1>15, <1>18, <1>20, <1>21 DEF Truth, Whole
<1>23. RunCached(x)
  <2> SUFFICES ASSUME NEW r \in RunIds
               PROVE  x.runCache[r] = IF x.runs[r] = Null THEN Null ELSE BuildRunProjection(x, r)
    BY DEF RunCached
  <2>1. CASE r \in copies
    BY <1>12, <1>14, <1>15, <1>18, <2>1
  <2>2. CASE r \notin copies
    <3>1. x.runCache[r] = d.runCache[r] /\ x.runs[r] = d.runs[r]
      BY <1>14, <1>15, <1>19, <2>2
    <3>2. BuildRunProjection(x, r) = BuildRunProjection(d, r)
      BY <1>9, <1>18, <2>2, <3>1 DEF BuildRunProjection
    <3>3. QED
      BY <1>1, <3>1, <3>2 DEF RunCached
  <2>3. QED
    BY <2>1, <2>2
<1>24. RunsOf(x, u) = copies
  <2>1. copies \subseteq RunIds \ FreeRuns(x)
    BY <1>2, <1>17 DEF FreeRuns
  <2>2. ASSUME NEW r \in RunIds \ FreeRuns(x), x.runs[r].thread = u PROVE r \in copies
    <3>1. ASSUME r \notin copies PROVE FALSE
      <4>1. r \in RunIds \ FreeRuns(d) /\ d.runs[r].thread = u
        BY <1>17, <1>19, <2>2, <3>1
      <4>2. QED
        BY <1>1, <4>1 DEF Rooted
    <3>2. QED
      BY <3>1
  <2>3. QED
    BY <1>12, <1>15, <2>1, <2>2 DEF RunsOf
<1>25. ASSUME NEW v \in Threads \ {u}
       PROVE  RunsOf(x, v) = RunsOf(d, v) /\ RowsOf(x, v) = RowsOf(d, v)
  <2>1. ASSUME NEW r \in RunIds PROVE r \in RunsOf(x, v) <=> r \in RunsOf(d, v)
    <3>1. CASE r \in copies
      <4>1. r \notin RunsOf(x, v)
        BY <1>12, <1>15, <3>1 DEF RunsOf
      <4>2. r \notin RunsOf(d, v)
        BY <1>2, <3>1 DEF RunsOf
      <4>3. QED
        BY <4>1, <4>2
    <3>2. CASE r \notin copies
      BY <1>17, <1>19, <3>2 DEF RunsOf
    <3>3. QED
      BY <3>1, <3>2
  <2>2. RunsOf(x, v) = RunsOf(d, v)
    BY <2>1 DEF RunsOf
  <2>3. \A r \in RunsOf(d, v) : x.runs[r] = d.runs[r]
    BY <1>2, <1>19 DEF RunsOf
  <2>4. QED
    BY <2>2, <2>3 DEF RowsOf
<1>26. ASSUME NEW v \in Threads \ {u} PROVE ThreadKept(x, v)
  BY <1>1, <1>15, <1>16, <1>25 DEF ThreadKept, HasThread
<1>27. Kept(RefreshThread(x, u, row, row), n)
  <2>1. IF RunsOf(x, u) = {} THEN row.last = Null ELSE row.last \in RunsOf(x, u)
    BY <1>3, <1>24 DEF copies
  <2>2. QED
    BY <1>3, <1>16, <1>22, <1>23, <1>26, <2>1, RefreshThreadKeeps
<1>28. ASSUME Exact(d) PROVE Exact(RefreshThread(x, u, row, row))
  <2> x \in Database /\ Dated(x, n) /\ HasThread(x, u) /\ row \in ThreadRow
    BY <1>3, <1>15, <1>16, <1>21
  <2>1. /\ ThreadExact(RefreshThread(x, u, x.threads[u], row), u)
        /\ \A v \in Threads \ {u} :
             ThreadExact(x, v) => ThreadExact(RefreshThread(x, u, x.threads[u], row), v)
    BY RefreshThreadExact
  <2>2. \A v \in Threads \ {u} : ThreadExact(x, v)
    BY <1>15, <1>16, <1>25, <1>28 DEF Exact, ThreadExact, HasThread
  <2>3. QED
    BY <1>16, <2>1, <2>2 DEF Exact
<1>29. CopyThread(d, t, u, copyOf, n) = RefreshThread(x, u, row, row)
  <2> DEFINE cached == [copied EXCEPT !.runCache = [r \in RunIds |->
                          IF \E s \in source : copyOf[s] = r
                          THEN BuildRunProjection(copied, r) ELSE @[r]]]
  <2>1. CopyThread(d, t, u, copyOf, n) = AddThread(cached, u, row)
    BY DEF CopyThread, copied, runs, row, last, clones
  <2>2. copied.runCache = d.runCache /\ copied.threads = d.threads
    BY <1>1 DEF copied, Database
  <2>3. cached = [copied EXCEPT !.runCache = caches]
    BY <2>2 DEF caches
  <2>4. [cached EXCEPT !.threads[u] = row] = x
    BY <1>1, <2>2, <2>3 DEF copied, x, Database
  <2>5. QED
    BY <2>1, <2>4 DEF AddThread
<1>30. Copied(d, RefreshThread(x, u, row, row), t, u, copyOf)
  <2> DEFINE y == RefreshThread(x, u, row, row)
  <2>1. /\ y.runs = x.runs /\ y.events = x.events
        /\ \A v \in Threads : HasThread(y, v) <=> HasThread(x, v)
    BY <1>3, <1>15, <1>16, <1>21, RefreshThreadShows
  <2> HIDE DEF y
  <2>2. \A v : RunsOf(y, v) = RunsOf(x, v) /\ EventsOf(y, v) = EventsOf(x, v)
    BY <2>1, SameRuns
  <2>3. HasThread(y, u) /\ \A v \in Threads \ {u} : HasThread(y, v) <=> HasThread(d, v)
    BY <1>16, <2>1 DEF HasThread
  <2>4. RunsOf(y, u) = {copyOf[s] : s \in RunsOf(d, t)}
    BY <1>24, <2>2 DEF copies
  <2>5. ASSUME NEW v \in Threads \ {u}, NEW r \in RunsOf(d, v)
        PROVE  y.runs[r] = d.runs[r] /\ EventsOf(y, r) = EventsOf(d, r)
    <3>1. r \in RunIds \ copies
      BY <1>2 DEF RunsOf
    <3>2. QED
      BY <1>9, <1>18, <1>19, <2>1, <2>2, <3>1
  <2>6. ASSUME NEW s \in RunsOf(d, t)
        PROVE  /\ y.runs[copyOf[s]].rec = d.runs[s].rec
               /\ y.runs[copyOf[s]].created = d.runs[s].created
               /\ EventsOf(y, copyOf[s]) = {ClonedEvent(e, copyOf) : e \in EventsOf(d, s)}
    <3>1. y.runs[copyOf[s]] = CopiedRun(d, t, u, s, n)
      BY <1>4, <1>15, <2>1
    <3>2. QED
      BY <1>4, <1>10, <1>18, <2>2, <3>1
  <2>7. \A v \in Threads \ {u} : RunsOf(y, v) = RunsOf(d, v)
    BY <1>25, <2>2
  <2>8. QED
    BY <2>3, <2>4, <2>5, <2>6, <2>7 DEF Copied, Elsewhere, y
<1>31. QED
  BY <1>27, <1>28, <1>29, <1>30


-----------------------------------------------------------------------------
(* Lists in order.                                                          *)

(* A finite set and a different number for each of its elements.            *)
Keyed(S, key) ==
  /\ IsFiniteSet(S)
  /\ \A x \in S : key[x] \in Nat
  /\ \A x, y \in S : key[x] = key[y] => x = y

Below(S, key, x) == {y \in S : key[y] < key[x]}

Ascending(list, key) == \A i, j \in DOMAIN list : i < j => key[list[i]] < key[list[j]]

LEMMA Ranks ==
  ASSUME NEW S, NEW key, Keyed(S, key)
  PROVE  /\ \A x \in S : Cardinality(Below(S, key, x)) \in 0 .. Cardinality(S) - 1
         /\ \A x, y \in S : key[x] < key[y] =>
              Cardinality(Below(S, key, x)) < Cardinality(Below(S, key, y))
         /\ \A i \in 1 .. Cardinality(S) : \E x \in S : Cardinality(Below(S, key, x)) = i - 1
<1> DEFINE n == Cardinality(S)
           rank == [x \in S |-> Cardinality(Below(S, key, x))]
<1>1. n \in Nat
  BY FS_CardinalityType DEF Keyed
<1>2. ASSUME NEW x \in S PROVE rank[x] \in 0 .. n - 1
  <2>1. Below(S, key, x) \in SUBSET (S \ {x})
    BY DEF Below, Keyed
  <2>2. IsFiniteSet(S \ {x}) /\ Cardinality(S \ {x}) = n - 1
    BY FS_RemoveElement DEF Keyed
  <2>3. IsFiniteSet(Below(S, key, x)) /\ Cardinality(Below(S, key, x)) <= n - 1
    BY <2>1, <2>2, FS_Subset
  <2>4. Cardinality(Below(S, key, x)) \in Nat
    BY <2>3, FS_CardinalityType
  <2> HIDE DEF n
  <2>5. QED
    BY <1>1, <2>3, <2>4
<1>3. ASSUME NEW x \in S, NEW y \in S, key[x] < key[y] PROVE rank[x] < rank[y]
  <2>1. Below(S, key, x) \cup {x} \in SUBSET Below(S, key, y)
    BY <1>3 DEF Below, Keyed
  <2>2. x \notin Below(S, key, x)
    BY DEF Below, Keyed
  <2>3. Below(S, key, x) \in SUBSET S /\ Below(S, key, y) \in SUBSET S
    BY DEF Below
  <2>4. IsFiniteSet(Below(S, key, x)) /\ IsFiniteSet(Below(S, key, y))
    BY <2>3, FS_Subset DEF Keyed
  <2>5. Cardinality(Below(S, key, x) \cup {x}) = Cardinality(Below(S, key, x)) + 1
    BY <2>2, <2>4, FS_AddElement
  <2>6. Cardinality(Below(S, key, x) \cup {x}) <= Cardinality(Below(S, key, y))
    BY <2>1, <2>4, FS_Subset
  <2>7. Cardinality(Below(S, key, x)) \in Nat /\ Cardinality(Below(S, key, y)) \in Nat
    BY <2>4, FS_CardinalityType
  <2>8. QED
    BY <2>5, <2>6, <2>7
<1>4. rank \in Injection(S, 0 .. n - 1)
  <2>1. ASSUME NEW x \in S, NEW y \in S, rank[x] = rank[y] PROVE x = y
    <3>1. ~ (key[x] < key[y]) /\ ~ (key[y] < key[x])
      <4> HIDE DEF rank
      <4>1. \A z \in S : rank[z] \in 0 .. n - 1
        BY <1>2
      <4> HIDE DEF n
      <4>2. QED
        BY <1>1, <1>3, <2>1, <4>1
    <3>2. key[x] \in Nat /\ key[y] \in Nat
      BY DEF Keyed
    <3>3. QED
      BY <3>1, <3>2 DEF Keyed
  <2>2. rank \in [S -> 0 .. n - 1]
    BY <1>2
  <2> HIDE DEF rank
  <2>3. QED
    BY <2>1, <2>2 DEF Injection, IsInjective
<1>5. rank \in Surjection(S, 0 .. n - 1)
  <2> HIDE DEF rank
  <2>1. IsFiniteSet(0 .. n - 1) /\ Cardinality(0 .. n - 1) = n
    <3> HIDE DEF n
    <3>1. 0 \in Int /\ n - 1 \in Int
      BY <1>1
    <3>2. QED
      BY <1>1, <3>1, FS_Interval
  <2>2. QED
    BY <1>4, <2>1, FS_Injection
<1>6. ASSUME NEW i \in 1 .. n PROVE \E x \in S : rank[x] = i - 1
  <2> HIDE DEF rank
  <2>1. i - 1 \in 0 .. n - 1
    <3> HIDE DEF n
    <3>1. QED
      BY <1>1
  <2>2. QED
    BY <1>5, <2>1 DEF Surjection
<1>7. QED
  BY <1>2, <1>3, <1>6

(* InOrder lists every element once, by its key.                            *)
LEMMA InOrderFacts ==
  ASSUME NEW S, NEW key, Keyed(S, key)
  PROVE  /\ InOrder(S, key) \in [1 .. Cardinality(S) -> S]
         /\ Ascending(InOrder(S, key), key)
<1> DEFINE n == Cardinality(S)
           list == InOrder(S, key)
<1>1. n \in Nat
  BY FS_CardinalityType DEF Keyed
<1>2. ASSUME NEW i \in 1 .. n
      PROVE  list[i] \in S /\ Cardinality(Below(S, key, list[i])) = i - 1
  <2>1. \E x \in S : Cardinality(Below(S, key, x)) = i - 1
    BY Ranks
  <2>2. list[i] = CHOOSE x \in S : Cardinality(Below(S, key, x)) = i - 1
    BY DEF InOrder, Below
  <2>3. QED
    BY <2>1, <2>2
<1>3. list \in [1 .. n -> S]
  BY <1>2 DEF InOrder
<1>4. ASSUME NEW i \in 1 .. n, NEW j \in 1 .. n, i < j
      PROVE  key[list[i]] < key[list[j]]
  <2> HIDE DEF list
  <2>1. \A k \in {i, j} : list[k] \in S /\ Cardinality(Below(S, key, list[k])) = k - 1
    BY <1>2
  <2>2. key[list[i]] \in Nat /\ key[list[j]] \in Nat
    BY <2>1 DEF Keyed
  <2>3. ~ (key[list[j]] < key[list[i]])
    <3>1. key[list[j]] < key[list[i]] =>
            Cardinality(Below(S, key, list[j])) < Cardinality(Below(S, key, list[i]))
      BY <2>1, Ranks
    <3> HIDE DEF n
    <3>2. QED
      BY <1>1, <1>4, <2>1, <3>1
  <2>4. key[list[j]] # key[list[i]]
    <3>1. key[list[j]] = key[list[i]] => list[j] = list[i]
      BY <2>1 DEF Keyed
    <3> HIDE DEF n
    <3>2. QED
      BY <1>1, <1>4, <2>1, <3>1
  <2>5. QED
    BY <2>2, <2>3, <2>4
<1>5. QED
  BY <1>3, <1>4 DEF Ascending

(* No other list does.                                                      *)
LEMMA InOrderOnly ==
  ASSUME NEW S, NEW key, Keyed(S, key),
         NEW f \in [1 .. Cardinality(S) -> S],
         Ascending(f, key)
  PROVE  InOrder(S, key) = f
<1> DEFINE n == Cardinality(S)
<1>1. n \in Nat /\ IsFiniteSet(S)
  BY FS_CardinalityType DEF Keyed
<1>2. /\ \A i \in 1 .. n : f[i] \in S /\ key[f[i]] \in Nat
      /\ \A i, j \in 1 .. n : i < j => key[f[i]] < key[f[j]]
  BY DEF Keyed, Ascending
<1>3. f \in Injection(1 .. n, S)
  <2> HIDE DEF n
  <2>1. ASSUME NEW i \in 1 .. n, NEW j \in 1 .. n, f[i] = f[j] PROVE i = j
    <3>1. ~ (i < j) /\ ~ (j < i)
      BY <1>2, <2>1 DEF n
    <3>2. QED
      BY <1>1, <3>1
  <2>2. f \in [1 .. n -> S]
    BY DEF n
  <2>3. QED
    BY <2>1, <2>2 DEF Injection, IsInjective
<1>4. f \in Surjection(1 .. n, S)
  <2>1. Cardinality(1 .. n) = n
    <3> HIDE DEF n
    <3>1. QED
      BY <1>1, FS_Interval
  <2>2. QED
    BY <1>1, <1>3, <2>1, FS_Injection
<1>5. ASSUME NEW i \in 1 .. n PROVE InOrder(S, key)[i] = f[i]
  <2>1. Below(S, key, f[i]) = {f[j] : j \in 1 .. i - 1}
    <3>1. ASSUME NEW y \in Below(S, key, f[i]) PROVE y \in {f[j] : j \in 1 .. i - 1}
      <4>1. PICK j \in 1 .. n : f[j] = y
        BY <1>4 DEF Surjection, Below
      <4>2. key[f[j]] < key[f[i]]
        BY <4>1 DEF Below
      <4>3. ~ (i < j) /\ i # j
        BY <1>2, <4>2
      <4> HIDE DEF n
      <4>4. j \in 1 .. i - 1
        BY <1>1, <4>3
      <4>5. QED
        BY <4>1, <4>4
    <3>2. ASSUME NEW j \in 1 .. i - 1 PROVE f[j] \in Below(S, key, f[i])
      <4>1. j \in 1 .. n /\ j < i
        <5> HIDE DEF n
        <5>1. QED
          BY <1>1
      <4>2. QED
        BY <1>2, <4>1 DEF Below
    <3>3. QED
      BY <3>1, <3>2
  <2>2. Cardinality(Below(S, key, f[i])) = i - 1
    <3> DEFINE g == [j \in 1 .. i - 1 |-> f[j]]
    <3>1. 1 .. i - 1 \subseteq 1 .. n /\ i - 1 \in Nat
      <4> HIDE DEF n
      <4>1. QED
        BY <1>1
    <3>2. g \in Bijection(1 .. i - 1, Below(S, key, f[i]))
      <4>1. g \in [1 .. i - 1 -> Below(S, key, f[i])]
        BY <2>1
      <4>2. ASSUME NEW j \in 1 .. i - 1, NEW k \in 1 .. i - 1, g[j] = g[k] PROVE j = k
        BY <1>3, <3>1, <4>2 DEF Injection, IsInjective
      <4>3. \A y \in Below(S, key, f[i]) : \E j \in 1 .. i - 1 : g[j] = y
        BY <2>1
      <4> HIDE DEF g
      <4>4. QED
        BY <4>1, <4>2, <4>3 DEF Bijection, Injection, Surjection, IsInjective
    <3>3. ExistsBijection(1 .. i - 1, Below(S, key, f[i]))
      BY <3>2 DEF ExistsBijection
    <3>4. QED
      BY <3>1, <3>3, FS_CountingElements
  <2>3. ASSUME NEW x \in S, Cardinality(Below(S, key, x)) = i - 1 PROVE x = f[i]
    <3>1. f[i] \in S /\ key[x] \in Nat /\ key[f[i]] \in Nat
      BY DEF Keyed
    <3>2. i - 1 \in Nat
      <4> HIDE DEF n
      <4>1. QED
        BY <1>1
    <3>3. ~ (key[x] < key[f[i]]) /\ ~ (key[f[i]] < key[x])
      BY <2>2, <2>3, <3>1, <3>2, Ranks
    <3>4. QED
      BY <3>1, <3>3 DEF Keyed
  <2>4. InOrder(S, key)[i] = CHOOSE x \in S : Cardinality(Below(S, key, x)) = i - 1
    BY DEF InOrder, Below
  <2>5. QED
    BY <1>2, <2>2, <2>3, <2>4
<1> DEFINE list == InOrder(S, key)
<1>6. list \in [1 .. n -> S]
  BY InOrderFacts
<1>7. \A i \in 1 .. n : list[i] = f[i]
  BY <1>5
<1> HIDE DEF list
<1>8. list = f
  <2>1. list = [i \in 1 .. n |-> list[i]] /\ f = [i \in 1 .. n |-> f[i]]
    BY <1>6
  <2> HIDE DEF n
  <2>2. QED
    BY <1>7, <2>1
<1>9. QED
  BY <1>8 DEF list

(* The keys of S with one more element, whose key is above them all.        *)
Above(S, key, x, wider) ==
  wider[x] \in Nat /\ \A y \in S : wider[y] = key[y] /\ key[y] < wider[x]

(* Append as an operator the provers leave alone.                           *)
Longer(list, x) == Append(list, x)

(* What is last in the order is appended.                                   *)
LEMMA InOrderAppends ==
  ASSUME NEW S, NEW key, Keyed(S, key), NEW x, x \notin S, NEW wider, Above(S, key, x, wider)
  PROVE  /\ Keyed(S \cup {x}, wider)
         /\ InOrder(S \cup {x}, wider) = Longer(InOrder(S, key), x)
<1> DEFINE n == Cardinality(S)
           list == InOrder(S, key)
<1> USE DEF Above, Longer
<1>1. n \in Nat /\ IsFiniteSet(S \cup {x}) /\ Cardinality(S \cup {x}) = n + 1
  BY FS_CardinalityType, FS_AddElement DEF Keyed
<1>2. Keyed(S \cup {x}, wider)
  <2>1. \A y \in S : wider[y] \in Nat /\ wider[y] < wider[x]
    BY DEF Keyed
  <2>2. QED
    BY <1>1, <2>1 DEF Keyed
<1>3. list \in [1 .. n -> S] /\ \A i, j \in 1 .. n : i < j => key[list[i]] < key[list[j]]
  BY InOrderFacts DEF Ascending
<1> DEFINE longer == Append(list, x)
<1> HIDE DEF list, n
<1>4. list \in Seq(S \cup {x}) /\ Len(list) = n
  BY <1>1, <1>3
<1>5. /\ longer \in [1 .. n + 1 -> S \cup {x}]
      /\ \A i \in 1 .. n : longer[i] = list[i]
      /\ longer[n + 1] = x
  <2>1. /\ longer \in Seq(S \cup {x}) /\ Len(longer) = n + 1
        /\ \A i \in 1 .. n : longer[i] = list[i]
        /\ longer[n + 1] = x
    BY <1>1, <1>4, AppendProperties
  <2> HIDE DEF longer
  <2>2. QED
    BY <2>1
<1> HIDE DEF longer
<1>6. ASSUME NEW i \in 1 .. n + 1, NEW j \in 1 .. n + 1, i < j
      PROVE  wider[longer[i]] < wider[longer[j]]
  <2>1. i \in 1 .. n /\ (j \in 1 .. n \/ j = n + 1)
    BY <1>1, <1>6
  <2>2. longer[i] = list[i] /\ list[i] \in S
    BY <1>3, <1>5, <2>1
  <2>3. CASE j \in 1 .. n
    BY <1>3, <1>5, <1>6, <2>1, <2>2, <2>3
  <2>4. CASE j = n + 1
    BY <1>5, <2>2, <2>4
  <2>5. QED
    BY <2>1, <2>3, <2>4
<1>7. InOrder(S \cup {x}, wider) = longer
  <2> DEFINE T == S \cup {x}
  <2>1. Keyed(T, wider) /\ longer \in [1 .. Cardinality(T) -> T]
    BY <1>1, <1>2, <1>5
  <2>2. Ascending(longer, wider)
    BY <1>5, <1>6 DEF Ascending
  <2> HIDE DEF T
  <2>3. InOrder(T, wider) = longer
    BY <2>1, <2>2, InOrderOnly
  <2>4. QED
    BY <2>3 DEF T
<1>8. QED
  BY <1>2, <1>7 DEF list, longer

-----------------------------------------------------------------------------
(* Histories.                                                               *)

Created(d, t) == [r \in RunsOf(d, t) |-> d.runs[r].created]

(* No thread has two runs of the same instant.                              *)
Ordered(d) == \A t \in Threads : Keyed(RunsOf(d, t), Created(d, t))

(* The runs of a thread as its readers see them.                            *)
ThreadRuns(d, t) ==
  [i \in 1 .. Cardinality(RunsOf(d, t)) |-> Shown(d, ListedRuns(d, t)[i])]

Seqs(events) == [e \in events |-> e.seq]

LEMMA ListedFacts ==
  ASSUME NEW d, NEW t, Keyed(RunsOf(d, t), Created(d, t))
  PROVE  /\ Cardinality(RunsOf(d, t)) \in Nat
         /\ ListedRuns(d, t) \in [1 .. Cardinality(RunsOf(d, t)) -> RunsOf(d, t)]
         /\ Ascending(ListedRuns(d, t), Created(d, t))
<1>1. Cardinality(RunsOf(d, t)) \in Nat
  BY FS_CardinalityType DEF Keyed
<1>2. ListedRuns(d, t) = InOrder(RunsOf(d, t), Created(d, t))
  BY DEF ListedRuns, Created
<1>3. QED
  BY <1>1, <1>2, InOrderFacts

(* The numbers of a whole log order it.                                     *)
LEMMA WholeLogKeyed ==
  ASSUME NEW r, NEW events, events \subseteq EventRow, WholeLog(events, r)
  PROVE  Keyed(events, Seqs(events))
<1> DEFINE n == Cardinality(events)
           f == Seqs(events)
<1>1. IsFiniteSet(events) /\ n \in Nat /\ {e.seq : e \in events} = 1 .. n
  BY FS_CardinalityType DEF WholeLog
<1>2. Cardinality(1 .. n) = n
  <2> HIDE DEF n
  <2>1. QED
    BY <1>1, FS_Interval
<1>3. f \in Surjection(events, 1 .. n)
  BY <1>1 DEF Surjection, Seqs
<1>4. f \in Injection(events, 1 .. n)
  BY <1>1, <1>2, <1>3, FS_SurjSameCardinalityImpliesInj
<1>5. \A e \in events : f[e] \in Nat
  BY DEF EventRow, Seqs
<1>6. DOMAIN f = events
  BY DEF Seqs
<1> HIDE DEF f
<1>7. QED
  BY <1>1, <1>4, <1>5, <1>6 DEF Keyed, Injection, IsInjective, f

LEMMA ListedEventsFacts ==
  ASSUME NEW d, NEW r, EventsOf(d, r) \subseteq EventRow, WholeLog(EventsOf(d, r), r)
  PROVE  /\ Keyed(EventsOf(d, r), Seqs(EventsOf(d, r)))
         /\ Cardinality(EventsOf(d, r)) \in Nat
         /\ ListedEvents(d, r) = InOrder(EventsOf(d, r), Seqs(EventsOf(d, r)))
         /\ ListedEvents(d, r) \in [1 .. Cardinality(EventsOf(d, r)) -> EventsOf(d, r)]
         /\ Ascending(ListedEvents(d, r), Seqs(EventsOf(d, r)))
<1>1. Keyed(EventsOf(d, r), Seqs(EventsOf(d, r))) /\ Cardinality(EventsOf(d, r)) \in Nat
  BY WholeLogKeyed, FS_CardinalityType DEF WholeLog
<1>2. ListedEvents(d, r) = InOrder(EventsOf(d, r), Seqs(EventsOf(d, r)))
  BY DEF ListedEvents, Seqs
<1>3. QED
  BY <1>1, <1>2, InOrderFacts

(* The log a reader is shown.                                               *)
ShownLog(d, r) == [i \in 1 .. Cardinality(EventsOf(d, r)) |-> ListedEvents(d, r)[i].kind]

LEMMA ShownType ==
  ASSUME NEW n, NEW d, Kept(d, n), NEW r \in RunIds \ FreeRuns(d)
  PROVE  /\ d.runs[r].rec \in Record /\ d.runs[r].rec.log = << >>
         /\ ShownLog(d, r) \in Seq(RunEvent)
         /\ Shown(d, r) = [d.runs[r].rec EXCEPT !.log = ShownLog(d, r)]
         /\ Shown(d, r) \in Record
<1>1. d.runs[r].rec \in Record /\ d.runs[r].rec.log = << >>
  BY DEF Kept, Truth, Database, FreeRuns, RunRow
<1>2. EventsOf(d, r) \subseteq EventRow /\ WholeLog(EventsOf(d, r), r)
  BY DEF Kept, Truth, Whole, Database, EventsOf
<1>3. ShownLog(d, r) \in Seq(RunEvent)
  <2> DEFINE m == Cardinality(EventsOf(d, r))
             list == ListedEvents(d, r)
  <2>1. m \in Nat /\ list \in [1 .. m -> EventRow]
    BY <1>2, ListedEventsFacts
  <2> HIDE DEF m, list
  <2>2. \A i \in 1 .. m : list[i].kind \in RunEvent
    BY <2>1, Constants DEF EventRow
  <2>3. [i \in 1 .. m |-> list[i].kind] \in Seq(RunEvent)
    BY <2>1, <2>2
  <2>4. QED
    BY <2>3 DEF ShownLog, m, list
<1>4. Shown(d, r) = [d.runs[r].rec EXCEPT !.log = ShownLog(d, r)]
  BY DEF Shown, ShownLog
<1>5. QED
  BY <1>1, <1>3, <1>4 DEF Record

LEMMA ShownSame ==
  ASSUME NEW d, NEW e, NEW q, NEW r,
         e.runs[r].rec = d.runs[q].rec, ShownLog(e, r) = ShownLog(d, q)
  PROVE  Shown(e, r) = Shown(d, q)
BY DEF Shown, ShownLog

LEMMA SameLog ==
  ASSUME NEW d, NEW e, NEW r, EventsOf(e, r) = EventsOf(d, r)
  PROVE  ShownLog(e, r) = ShownLog(d, r)
BY DEF ShownLog, ListedEvents

(* A run whose log has one event more.                                      *)
LEMMA LongerLog ==
  ASSUME NEW d, NEW e, NEW r, EventsOf(d, r) \subseteq EventRow, WholeLog(EventsOf(d, r), r),
         NEW v \in EventRow, v.seq = NextSeq(d, r), EventsOf(e, r) = EventsOf(d, r) \cup {v},
         ShownLog(d, r) \in Seq(RunEvent)
  PROVE  ShownLog(e, r) = Longer(ShownLog(d, r), v.kind)
<1> DEFINE old == EventsOf(d, r)
           m   == Cardinality(old)
           list == ListedEvents(d, r)
<1>1. /\ Keyed(old, Seqs(old)) /\ m \in Nat /\ IsFiniteSet(old)
      /\ list = InOrder(old, Seqs(old)) /\ list \in [1 .. m -> old]
  BY ListedEventsFacts DEF WholeLog
<1>2. \A x \in old : x.seq \in Nat /\ x.seq <= m
  <2>1. {x.seq : x \in old} = 1 .. m
    BY DEF WholeLog
  <2> HIDE DEF m, old
  <2>2. \A x \in old : x.seq \in 1 .. m
    BY <2>1
  <2>3. QED
    BY <1>1, <2>2
<1>3. v.seq = m + 1
  BY <1>1, MaxOfNumbers DEF WholeLog, NextSeq
<1>4. v \notin old
  <2> HIDE DEF m, old
  <2>1. QED
    BY <1>1, <1>2, <1>3
<1>5. Cardinality(old \cup {v}) = m + 1
  BY <1>1, <1>4, FS_AddElement
<1>6. InOrder(old \cup {v}, Seqs(old \cup {v})) = Append(list, v)
  <2> DEFINE key == Seqs(old)
             wider == Seqs(old \cup {v})
  <2> HIDE DEF m, old, list
  <2>1. /\ wider[v] \in Nat
        /\ \A y \in old : wider[y] = key[y] /\ key[y] < wider[v]
    BY <1>1, <1>2, <1>3 DEF Seqs
  <2> HIDE DEF key, wider
  <2>2. Keyed(old, key)
    BY <1>1 DEF key
  <2>3. InOrder(old \cup {v}, wider) = Longer(InOrder(old, key), v)
    <3>1. Above(old, key, v, wider)
      BY <2>1 DEF Above
    <3>2. QED
      BY <1>4, <2>2, <3>1, InOrderAppends
  <2>4. list = InOrder(old, key)
    BY <1>1 DEF key, old
  <2>5. InOrder(old \cup {v}, wider) = Append(list, v)
    BY <2>3, <2>4 DEF Longer
  <2> HIDE DEF old, list
  <2>6. QED
    BY <2>5 DEF wider
<1>7. ListedEvents(e, r) = Append(list, v) /\ EventsOf(e, r) = old \cup {v}
  BY <1>6 DEF ListedEvents, Seqs
<1> HIDE DEF list, m, old
<1>8. list \in Seq(old \cup {v}) /\ Len(list) = m
  BY <1>1
<1>9. /\ \A i \in 1 .. m : Append(list, v)[i] = list[i]
      /\ Append(list, v)[m + 1] = v
  BY <1>8, AppendProperties
<1>10. ShownLog(d, r) = [i \in 1 .. m |-> list[i].kind]
  BY DEF ShownLog, list, m, old
<1>11. ShownLog(e, r) = [i \in 1 .. m + 1 |-> Append(list, v)[i].kind]
  BY <1>5, <1>7 DEF ShownLog
<1> DEFINE log == ShownLog(d, r)
<1>12. Len(log) = m /\ \A i \in 1 .. m : log[i] = list[i].kind
  BY <1>1, <1>10
<1>13. Append(log, v.kind) = [i \in 1 .. m + 1 |-> IF i = m + 1 THEN v.kind ELSE log[i]]
  <2> HIDE DEF log
  <2>1. log \in Seq(RunEvent) /\ v.kind \in RunEvent
    BY Constants DEF log, EventRow
  <2> DEFINE longer == Append(log, v.kind)
  <2>2. /\ longer \in Seq(RunEvent) /\ Len(longer) = m + 1
        /\ \A i \in 1 .. m : longer[i] = log[i]
        /\ longer[m + 1] = v.kind
    <3>1. Len(log) = m
      BY <1>12 DEF log
    <3>2. QED
      BY <2>1, <3>1, AppendProperties
  <2> HIDE DEF longer
  <2>3. longer = [i \in 1 .. m + 1 |-> longer[i]]
    BY <2>2
  <2>4. \A i \in 1 .. m + 1 : longer[i] = IF i = m + 1 THEN v.kind ELSE log[i]
    <3>1. \A i \in 1 .. m + 1 : i = m + 1 \/ (i # m + 1 /\ i \in 1 .. m)
      BY <1>1
    <3>2. QED
      BY <2>2, <3>1
  <2>5. QED
    BY <2>3, <2>4 DEF longer
<1>14. \A i \in 1 .. m + 1 :
         Append(list, v)[i].kind = IF i = m + 1 THEN v.kind ELSE log[i]
  <2> HIDE DEF log
  <2>1. \A i \in 1 .. m + 1 : i = m + 1 \/ i \in 1 .. m
    BY <1>1
  <2>2. QED
    BY <1>9, <1>12, <2>1
<1> HIDE DEF log
<1>15. QED
  BY <1>11, <1>13, <1>14 DEF log, Longer


(* A thread whose runs have not changed.                                    *)
LEMMA ThreadSame ==
  ASSUME NEW d, NEW e, NEW u, Keyed(RunsOf(d, u), Created(d, u)),
         RunsOf(e, u) = RunsOf(d, u),
         \A r \in RunsOf(d, u) : /\ e.runs[r].created = d.runs[r].created
                                 /\ Shown(e, r) = Shown(d, r)
  PROVE  Created(e, u) = Created(d, u) /\ ThreadRuns(e, u) = ThreadRuns(d, u)
<1> DEFINE n == Cardinality(RunsOf(d, u))
           list == ListedRuns(d, u)
<1>1. Created(e, u) = Created(d, u)
  BY DEF Created
<1>2. ListedRuns(e, u) = list /\ list \in [1 .. n -> RunsOf(d, u)]
  BY <1>1, ListedFacts DEF ListedRuns, Created
<1> HIDE DEF list
<1>3. \A i \in 1 .. n : Shown(e, list[i]) = Shown(d, list[i])
  BY <1>2
<1>4. QED
  BY <1>1, <1>2, <1>3 DEF ThreadRuns, list

(* A thread of whose runs one has changed.                                  *)
LEMMA ThreadRunChanged ==
  ASSUME NEW d, NEW e, NEW u, Keyed(RunsOf(d, u), Created(d, u)),
         NEW r \in RunsOf(d, u), RunsOf(e, u) = RunsOf(d, u),
         \A q \in RunsOf(d, u) : e.runs[q].created = d.runs[q].created,
         \A q \in RunsOf(d, u) \ {r} : Shown(e, q) = Shown(d, q)
  PROVE  /\ Created(e, u) = Created(d, u)
         /\ \E i \in DOMAIN ThreadRuns(d, u) :
              /\ ThreadRuns(d, u)[i] = Shown(d, r)
              /\ ThreadRuns(e, u) = [ThreadRuns(d, u) EXCEPT ![i] = Shown(e, r)]
<1> DEFINE n == Cardinality(RunsOf(d, u))
           list == ListedRuns(d, u)
<1>1. Created(e, u) = Created(d, u)
  BY DEF Created
<1>2. ListedRuns(e, u) = list /\ list \in [1 .. n -> RunsOf(d, u)] /\ n \in Nat
      /\ Ascending(list, Created(d, u))
  BY <1>1, ListedFacts DEF ListedRuns, Created
<1>3. list \in Bijection(1 .. n, RunsOf(d, u))
  <2> HIDE DEF list
  <2>1. \A i, j \in 1 .. n : list[i] = list[j] => i = j
    <3> DEFINE key == Created(d, u)
    <3>1. \A i \in 1 .. n : list[i] \in RunsOf(d, u) /\ key[list[i]] \in Nat
      BY <1>2 DEF Keyed
    <3>2. \A i, j \in 1 .. n : i < j => key[list[i]] < key[list[j]]
      BY <1>2 DEF Ascending
    <3> HIDE DEF n, key
    <3>3. QED
      BY <1>2, <3>1, <3>2
  <2>2. list \in Injection(1 .. n, RunsOf(d, u))
    <3>1. list \in [1 .. n -> RunsOf(d, u)]
      BY <1>2
    <3> HIDE DEF n
    <3>2. QED
      BY <2>1, <3>1 DEF Injection, IsInjective
  <2>3. Cardinality(1 .. n) = n
    <3> HIDE DEF n
    <3>1. QED
      BY <1>2, FS_Interval
  <2>4. list \in Surjection(1 .. n, RunsOf(d, u))
    BY <2>2, <2>3, FS_Injection DEF Keyed
  <2>5. QED
    BY <2>2, <2>4 DEF Bijection
<1>4. PICK i \in 1 .. n : list[i] = r
  BY <1>3 DEF Bijection, Surjection
<1>5. \A j \in 1 .. n : j # i => list[j] \in RunsOf(d, u) \ {r}
  <2> HIDE DEF list, n
  <2>1. QED
    BY <1>2, <1>3, <1>4 DEF Bijection, Injection, IsInjective
<1> HIDE DEF list
<1>6. /\ ThreadRuns(d, u) = [j \in 1 .. n |-> Shown(d, list[j])]
      /\ ThreadRuns(e, u) = [j \in 1 .. n |-> Shown(e, list[j])]
  BY <1>2 DEF ThreadRuns, list
<1>7. ThreadRuns(e, u) = [ThreadRuns(d, u) EXCEPT ![i] = Shown(e, r)]
  <2> HIDE DEF n
  <2>1. \A j \in 1 .. n : j # i => Shown(e, list[j]) = Shown(d, list[j])
    BY <1>5
  <2>2. QED
    BY <1>4, <1>6, <2>1
<1>8. ThreadRuns(d, u)[i] = Shown(d, r) /\ i \in DOMAIN ThreadRuns(d, u)
  BY <1>4, <1>6
<1>9. QED
  BY <1>1, <1>7, <1>8

(* Run r of e is later than every run of thread u in d, and those look the  *)
(* same.                                                                    *)
StartsLast(d, e, u, r) ==
  /\ r \notin RunsOf(d, u)
  /\ RunsOf(e, u) = RunsOf(d, u) \cup {r}
  /\ e.runs[r].created \in Nat
  /\ \A q \in RunsOf(d, u) : /\ e.runs[q].created = d.runs[q].created
                              /\ d.runs[q].created < e.runs[r].created
                              /\ Shown(e, q) = Shown(d, q)

(* A thread with one run more, the last one started.                        *)
LEMMA ThreadRunAdded ==
  ASSUME NEW d, NEW e, NEW u, Keyed(RunsOf(d, u), Created(d, u)),
         NEW r, StartsLast(d, e, u, r)
  PROVE  /\ Keyed(RunsOf(e, u), Created(e, u))
         /\ ThreadRuns(e, u) = Longer(ThreadRuns(d, u), Shown(e, r))
<1> DEFINE n == Cardinality(RunsOf(d, u))
           list == ListedRuns(d, u)
           old == RunsOf(d, u)
<1> USE DEF StartsLast
<1>1. /\ n \in Nat /\ list \in [1 .. n -> old] /\ list = InOrder(old, Created(d, u))
      /\ IsFiniteSet(old)
  BY ListedFacts DEF ListedRuns, Created, Keyed
<1>2. /\ Keyed(old \cup {r}, Created(e, u))
      /\ InOrder(old \cup {r}, Created(e, u)) = Append(InOrder(old, Created(d, u)), r)
  <2> DEFINE key == Created(d, u)
             wider == Created(e, u)
  <2>1. wider[r] \in Nat /\ \A q \in old : wider[q] = key[q] /\ key[q] < wider[r]
    BY DEF Created
  <2> HIDE DEF key, wider, old
  <2>2. Keyed(old, key) /\ r \notin old
    BY DEF old, key
  <2>3. /\ Keyed(old \cup {r}, wider)
        /\ InOrder(old \cup {r}, wider) = Longer(InOrder(old, key), r)
    <3>1. Above(old, key, r, wider)
      BY <2>1 DEF Above
    <3>2. QED
      BY <2>2, <3>1, InOrderAppends
  <2>4. QED
    BY <2>3 DEF key, wider, old, Longer
<1>3. ListedRuns(e, u) = Append(list, r)
  BY <1>1, <1>2 DEF ListedRuns, Created
<1>4. Cardinality(RunsOf(e, u)) = n + 1
  BY <1>1, FS_AddElement
<1>5. ThreadRuns(e, u) = [i \in 1 .. n + 1 |-> Shown(e, Append(list, r)[i])]
  BY <1>3, <1>4 DEF ThreadRuns
<1>6. ThreadRuns(d, u) = [i \in 1 .. n |-> Shown(d, list[i])]
  BY DEF ThreadRuns
<1> HIDE DEF list, n, old
<1>7. /\ \A i \in 1 .. n : Append(list, r)[i] = list[i]
      /\ Append(list, r)[n + 1] = r
  <2>1. list \in Seq(old \cup {r}) /\ Len(list) = n
    BY <1>1
  <2>2. QED
    BY <2>1, AppendProperties
<1> DEFINE runs == ThreadRuns(d, u)
           shown == {Shown(d, q) : q \in old} \cup {Shown(e, r)}
           longer == Append(runs, Shown(e, r))
<1>8. runs \in Seq(shown) /\ Len(runs) = n /\ \A i \in 1 .. n : runs[i] = Shown(d, list[i])
  BY <1>1, <1>6
<1>9. /\ longer \in Seq(shown) /\ Len(longer) = n + 1
      /\ \A i \in 1 .. n : longer[i] = runs[i]
      /\ longer[n + 1] = Shown(e, r)
  <2> HIDE DEF runs
  <2>1. Shown(e, r) \in shown
    OBVIOUS
  <2> HIDE DEF shown
  <2>2. QED
    BY <1>8, <2>1, AppendProperties
<1>10. \A i \in 1 .. n + 1 : longer[i] = Shown(e, Append(list, r)[i])
  <2> HIDE DEF longer, runs
  <2>1. \A i \in 1 .. n + 1 : i = n + 1 \/ i \in 1 .. n
    BY <1>1
  <2>2. \A i \in 1 .. n : list[i] \in old
    BY <1>1
  <2>3. \A i \in 1 .. n : Shown(e, list[i]) = Shown(d, list[i])
    BY <2>2 DEF old
  <2>4. ASSUME NEW i \in 1 .. n PROVE longer[i] = Shown(e, Append(list, r)[i])
    <3>1. longer[i] = Shown(d, list[i])
      BY <1>8, <1>9
    <3>2. Append(list, r)[i] = list[i] /\ Shown(e, list[i]) = Shown(d, list[i])
      BY <1>7, <2>3
    <3>3. QED
      BY <3>1, <3>2
  <2>5. longer[n + 1] = Shown(e, Append(list, r)[n + 1])
    BY <1>7, <1>9
  <2>6. QED
    BY <2>1, <2>4, <2>5
<1> HIDE DEF longer, runs, shown
<1>11. longer = [i \in 1 .. n + 1 |-> longer[i]]
  BY <1>9
<1>12. QED
  BY <1>2, <1>5, <1>10, <1>11 DEF longer, runs, old, Longer

(* What the readers see of a thread.                                        *)
LEMMA HistoryOf ==
  ASSUME NEW d, NEW t \in Threads
  PROVE  History(d)[t] = IF HasThread(d, t) THEN ThreadRuns(d, t) ELSE Null
BY DEF History, ThreadRuns

(* Only thread t looks different.                                           *)
LEMMA HistoryExcept ==
  ASSUME NEW d, NEW x, NEW t \in Threads, NEW runs,
         \A u \in Threads \ {t} : /\ HasThread(x, u) <=> HasThread(d, u)
                                  /\ HasThread(d, u) => ThreadRuns(x, u) = ThreadRuns(d, u),
         runs = IF HasThread(x, t) THEN ThreadRuns(x, t) ELSE Null
  PROVE  History(x) = [History(d) EXCEPT ![t] = runs]
<1>1. \A u \in Threads : History(x)[u] = IF u = t THEN runs ELSE History(d)[u]
  BY HistoryOf
<1>2. History(d) = [u \in Threads |-> History(d)[u]] /\ History(x) = [u \in Threads |-> History(x)[u]]
  BY DEF History
<1>3. QED
  BY <1>1, <1>2

(* One row of a run, and what hangs on it, has changed.                     *)
RunStep(d, x, r, row) ==
  /\ x.runs = [d.runs EXCEPT ![r] = row]
  /\ \A q \in RunIds \ {r} : EventsOf(x, q) = EventsOf(d, q)
  /\ \A u \in Threads : HasThread(x, u) <=> HasThread(d, u)
  /\ RunsOf(x, row.thread) = RunsOf(d, row.thread) \cup {r}
  /\ \A u \in Threads \ {row.thread} : RunsOf(x, u) = RunsOf(d, u)

LEMMA RefreshedIsRunStep ==
  ASSUME NEW n \in Nat, NEW d, Kept(d, n), NEW r \in RunIds, NEW row, Fits(d, r, row, n),
         NEW e, Written(d, e, r, row), NEW loaded \in ThreadRow
  PROVE  LET x == Refreshed(e, row.thread, r, loaded)
         IN  RunStep(d, x, r, row) /\ x.events = e.events
<1> DEFINE t == row.thread
           f == RefreshRun(e, r)
           thread == TouchForRun(loaded, r, e.runs[r].updated)
           x == RefreshThread(f, t, loaded, thread)
<1>1. /\ Truth(f, n) /\ f.threads = d.threads /\ f.runs = [d.runs EXCEPT ![r] = row]
      /\ RunsOf(f, t) = RunsOf(d, t) \cup {r}
      /\ \A u \in Threads \ {t} : RunsOf(f, u) = RunsOf(d, u)
  BY RunWritten
<1>2. f.events = e.events
  BY DEF RefreshRun, Written, Database
<1>3. t \in Threads /\ HasThread(f, t) /\ f \in Database /\ Dated(f, n)
  BY <1>1 DEF Fits, RunRow, HasThread, Truth
<1>4. thread \in ThreadRow
  <2>1. e.runs[r] = row /\ row.updated \in Nat
    BY DEF Written, Fits, Kept, Truth, Database, RunRow
  <2>2. QED
    BY <2>1 DEF TouchForRun, ThreadRow
<1> HIDE DEF f, thread
<1>5. /\ x.runs = f.runs /\ x.events = f.events
      /\ \A u \in Threads : HasThread(x, u) <=> HasThread(f, u)
  BY <1>3, <1>4, RefreshThreadShows
<1> HIDE DEF x
<1>6. \A u : RunsOf(x, u) = RunsOf(f, u) /\ EventsOf(x, u) = EventsOf(e, u)
  BY <1>2, <1>5, SameRuns DEF EventsOf
<1>7. \A u \in Threads : HasThread(x, u) <=> HasThread(d, u)
  BY <1>1, <1>5 DEF HasThread
<1>8. RunStep(d, x, r, row) /\ x.events = e.events
  BY <1>1, <1>2, <1>5, <1>6, <1>7 DEF RunStep, Written
<1>9. x = Refreshed(e, t, r, loaded)
  <2>1. f.runs[r] = e.runs[r]
    BY <1>1 DEF Written
  <2>2. QED
    BY DEF Refreshed, x, f, thread
<1>10. QED
  BY <1>8, <1>9

(* The other runs of a run step look as they did.                           *)
LEMMA RunStepOthers ==
  ASSUME NEW d, NEW x, NEW r \in RunIds, NEW row, RunStep(d, x, r, row),
         NEW u, NEW q \in RunsOf(d, u), q # r
  PROVE  x.runs[q] = d.runs[q] /\ Shown(x, q) = Shown(d, q)
<1>1. q \in RunIds
  BY DEF RunsOf
<1>2. x.runs[q] = d.runs[q] /\ EventsOf(x, q) = EventsOf(d, q)
  BY <1>1 DEF RunStep
<1>3. QED
  BY <1>2, SameLog, ShownSame

(* What a reader may see from one instant to the next: nothing new, or one  *)
(* of the changes of ThreadHistory.                                         *)
Becomes(h, k) ==
  \/ k = h
  \/ \E t \in Threads : h[t] = Null /\ k = [h EXCEPT ![t] = << >>]
  \/ \E t \in Threads : h[t] # Null /\ k = [h EXCEPT ![t] = Append(h[t], NewRecord)]
  \/ \E t \in Threads : h[t] # Null /\ k = [h EXCEPT ![t] = Null]
  \/ \E t \in Threads : h[t] # Null /\ \E i \in DOMAIN h[t] :
       \/ \E e \in RunEvent : k = [h EXCEPT ![t] = [h[t] EXCEPT ![i] = AppendEvent(h[t][i], e)]]
       \/ \E m \in Methods(h[t][i]) : k = [h EXCEPT ![t] = [h[t] EXCEPT ![i] = m]]
  \/ \E t, u \in Threads : h[t] # Null /\ h[u] = Null /\ k = [h EXCEPT ![u] = h[t]]

(* A sequence of runs is a thread.                                          *)
LEMMA ThreadRunsType ==
  ASSUME NEW n, NEW d, Kept(d, n), Ordered(d), NEW t \in Threads
  PROVE  ThreadRuns(d, t) \in Seq(Record) /\ ThreadRuns(d, t) # Null
<1> DEFINE m == Cardinality(RunsOf(d, t))
           list == ListedRuns(d, t)
<1>1. m \in Nat /\ list \in [1 .. m -> RunsOf(d, t)]
  BY ListedFacts DEF Ordered
<1>2. \A r \in RunsOf(d, t) : Shown(d, r) \in Record
  BY ShownType DEF RunsOf
<1> HIDE DEF m, list
<1>3. \A i \in 1 .. m : Shown(d, list[i]) \in Record
  BY <1>1, <1>2
<1>4. [i \in 1 .. m |-> Shown(d, list[i])] \in Seq(Record)
  BY <1>1, <1>3
<1>5. ThreadRuns(d, t) \in Seq(Record)
  BY <1>4 DEF ThreadRuns, m, list
<1>6. QED
  BY <1>5, StoreAssumption

(* One run of thread t is shown as new where it was shown as old.           *)
RunChanges(h, k, t, old, new) ==
  /\ h[t] # Null
  /\ \E i \in DOMAIN h[t] : /\ h[t][i] = old
                            /\ k = [h EXCEPT ![t] = [h[t] EXCEPT ![i] = new]]

(* The run is shown differently.                                            *)
LEMMA HistoryRunChanged ==
  ASSUME NEW n, NEW d, Kept(d, n), Ordered(d), NEW r \in RunIds \ FreeRuns(d),
         NEW row \in RunRow, row.thread = d.runs[r].thread, row.created = d.runs[r].created,
         NEW x, RunStep(d, x, r, row)
  PROVE  /\ Ordered(x)
         /\ RunChanges(History(d), History(x), row.thread, Shown(d, r), Shown(x, r))
<1> DEFINE t == row.thread
<1>1. /\ t \in Threads /\ r \in RunsOf(d, t) /\ HasThread(d, t) /\ HasThread(x, t)
      /\ x.runs[r] = row /\ d.runs[r] \in RunRow
  BY DEF RunsOf, RunRow, Kept, Truth, Rooted, Database, FreeRuns, RunStep
<1>2. RunsOf(x, t) = RunsOf(d, t)
  BY <1>1 DEF RunStep
<1>3. ASSUME NEW u, NEW q \in RunsOf(d, u), q # r
      PROVE  x.runs[q].created = d.runs[q].created /\ Shown(x, q) = Shown(d, q)
  BY <1>3, RunStepOthers
<1>4. \A q \in RunsOf(d, t) : x.runs[q].created = d.runs[q].created
  BY <1>1, <1>3
<1>5. \A q \in RunsOf(d, t) \ {r} : Shown(x, q) = Shown(d, q)
  BY <1>3
<1>6. Keyed(RunsOf(d, t), Created(d, t))
  BY <1>1 DEF Ordered
<1> HIDE DEF t
<1>7. /\ Created(x, t) = Created(d, t)
      /\ \E i \in DOMAIN ThreadRuns(d, t) :
           /\ ThreadRuns(d, t)[i] = Shown(d, r)
           /\ ThreadRuns(x, t) = [ThreadRuns(d, t) EXCEPT ![i] = Shown(x, r)]
  BY <1>1, <1>2, <1>4, <1>5, <1>6, ThreadRunChanged
<1>8. ASSUME NEW u \in Threads \ {t}
      PROVE  /\ RunsOf(x, u) = RunsOf(d, u)
             /\ Created(x, u) = Created(d, u) /\ ThreadRuns(x, u) = ThreadRuns(d, u)
  <2>1. RunsOf(x, u) = RunsOf(d, u)
    BY DEF RunStep, t
  <2>2. r \notin RunsOf(d, u)
    BY <1>1 DEF RunsOf
  <2>3. \A q \in RunsOf(d, u) : x.runs[q].created = d.runs[q].created /\ Shown(x, q) = Shown(d, q)
    BY <1>3, <2>2
  <2>4. Keyed(RunsOf(d, u), Created(d, u))
    BY DEF Ordered
  <2>5. QED
    BY <2>1, <2>3, <2>4, ThreadSame
<1>9. Ordered(x)
  <2>1. ASSUME NEW u \in Threads PROVE RunsOf(x, u) = RunsOf(d, u) /\ Created(x, u) = Created(d, u)
    BY <1>2, <1>7, <1>8
  <2>2. QED
    BY <2>1 DEF Ordered
<1>10. History(d)[t] = ThreadRuns(d, t) /\ ThreadRuns(d, t) # Null
  BY <1>1, HistoryOf, ThreadRunsType
<1>11. History(x) = [History(d) EXCEPT ![t] = ThreadRuns(x, t)]
  <2>1. \A u \in Threads \ {t} : /\ HasThread(x, u) <=> HasThread(d, u)
                                 /\ HasThread(d, u) => ThreadRuns(x, u) = ThreadRuns(d, u)
    BY <1>8 DEF RunStep
  <2>2. QED
    BY <1>1, <2>1, HistoryExcept
<1>12. QED
  BY <1>7, <1>9, <1>10, <1>11 DEF t, RunChanges

(* A run is started after all the others.                                   *)
LEMMA HistoryRunAdded ==
  ASSUME NEW m \in Nat, NEW n \in Nat, m < n, NEW d, Kept(d, m), Ordered(d),
         NEW r \in FreeRuns(d), NEW row \in RunRow, row.created = n,
         HasThread(d, row.thread), NEW x, RunStep(d, x, r, row)
  PROVE  /\ Ordered(x)
         /\ History(d)[row.thread] # Null
         /\ History(x) = [History(d) EXCEPT ![row.thread] =
                            Longer(History(d)[row.thread], Shown(x, r))]
<1> DEFINE t == row.thread
<1>1. /\ t \in Threads /\ HasThread(x, t) /\ r \in RunIds /\ x.runs[r] = row
      /\ \A u : r \notin RunsOf(d, u)
  BY DEF RunsOf, RunRow, Kept, Truth, Database, FreeRuns, RunStep
<1>2. RunsOf(x, t) = RunsOf(d, t) \cup {r}
  BY DEF RunStep
<1>3. ASSUME NEW u, NEW q \in RunsOf(d, u)
      PROVE  /\ x.runs[q].created = d.runs[q].created /\ Shown(x, q) = Shown(d, q)
             /\ d.runs[q].created < x.runs[r].created
  <2>1. x.runs[q] = d.runs[q] /\ Shown(x, q) = Shown(d, q)
    BY <1>1, RunStepOthers
  <2>2. d.runs[q].created \in Nat /\ d.runs[q].created <= m
    BY DEF RunsOf, FreeRuns, Kept, Truth, Dated, Database, RunRow
  <2>3. QED
    BY <1>1, <2>1, <2>2
<1>4. Keyed(RunsOf(d, t), Created(d, t))
  BY <1>1 DEF Ordered
<1> HIDE DEF t
<1>5. /\ Keyed(RunsOf(x, t), Created(x, t))
      /\ ThreadRuns(x, t) = Longer(ThreadRuns(d, t), Shown(x, r))
  <2>1. StartsLast(d, x, t, r)
    BY <1>1, <1>2, <1>3 DEF RunRow, StartsLast
  <2>2. QED
    BY <1>4, <2>1, ThreadRunAdded
<1>6. ASSUME NEW u \in Threads \ {t}
      PROVE  /\ RunsOf(x, u) = RunsOf(d, u)
             /\ Created(x, u) = Created(d, u) /\ ThreadRuns(x, u) = ThreadRuns(d, u)
  <2>1. RunsOf(x, u) = RunsOf(d, u)
    BY DEF RunStep, t
  <2>2. \A q \in RunsOf(d, u) : x.runs[q].created = d.runs[q].created /\ Shown(x, q) = Shown(d, q)
    BY <1>3
  <2>3. Keyed(RunsOf(d, u), Created(d, u))
    BY DEF Ordered
  <2>4. QED
    BY <2>1, <2>2, <2>3, ThreadSame
<1>7. Ordered(x)
  <2>1. ASSUME NEW u \in Threads \ {t} PROVE Keyed(RunsOf(x, u), Created(x, u))
    BY <1>6 DEF Ordered
  <2>2. QED
    BY <1>5, <2>1 DEF Ordered
<1>8. History(d)[t] = ThreadRuns(d, t) /\ ThreadRuns(d, t) # Null
  BY <1>1, HistoryOf, ThreadRunsType DEF t
<1>9. History(x) = [History(d) EXCEPT ![t] = ThreadRuns(x, t)]
  <2>1. \A u \in Threads \ {t} : /\ HasThread(x, u) <=> HasThread(d, u)
                                 /\ HasThread(d, u) => ThreadRuns(x, u) = ThreadRuns(d, u)
    BY <1>6 DEF RunStep
  <2>2. QED
    BY <1>1, <2>1, HistoryExcept
<1>10. QED
  BY <1>5, <1>7, <1>8, <1>9 DEF t

(* rec is old, or what a method makes of old, whatever the log.             *)
Moves(old, rec) ==
  \/ rec = old
  \/ \A log \in Seq(RunEvent) : [rec EXCEPT !.log = log] \in Methods([old EXCEPT !.log = log])

LEMMA MethodsMove ==
  ASSUME NEW rec \in Record
  PROVE  /\ Moves(rec, MarkStreaming(rec)) /\ Moves(rec, RequestCancel(rec))
         /\ Moves(rec, MarkCompleted(rec)) /\ Moves(rec, MarkFailed(rec, FALSE))
         /\ Moves(rec, MarkCancelled(rec))
<1> SUFFICES ASSUME NEW log \in Seq(RunEvent)
             PROVE  LET shown == [rec EXCEPT !.log = log]
                    IN  /\ [MarkStreaming(rec) EXCEPT !.log = log] = MarkStreaming(shown)
                        /\ [RequestCancel(rec) EXCEPT !.log = log] = RequestCancel(shown)
                        /\ [MarkCompleted(rec) EXCEPT !.log = log] = MarkCompleted(shown)
                        /\ [MarkFailed(rec, FALSE) EXCEPT !.log = log] = MarkFailed(shown, FALSE)
                        /\ [MarkCancelled(rec) EXCEPT !.log = log] = MarkCancelled(shown)
  BY DEF Moves, Methods
<1> DEFINE shown == [rec EXCEPT !.log = log]
<1>1. \A status : [MarkTerminal(rec, status) EXCEPT !.log = log] = MarkTerminal(shown, status)
  BY DEF MarkTerminal, Record
<1>2. [MarkStreaming(rec) EXCEPT !.log = log] = MarkStreaming(shown)
  BY DEF MarkStreaming, IsTerminal, Record
<1>3. [RequestCancel(rec) EXCEPT !.log = log] = RequestCancel(shown)
  <2>1. shown.status = rec.status
    BY DEF Record
  <2>2. CASE rec.status \in TerminalStatus
    BY <2>1, <2>2 DEF RequestCancel, IsTerminal, TerminalStatus
  <2>3. CASE rec.status \notin TerminalStatus /\ rec.status = "pending"
    BY <2>1, <2>3 DEF RequestCancel, IsTerminal, Record
  <2>4. CASE rec.status \notin TerminalStatus /\ rec.status # "pending"
    BY <2>1, <2>4 DEF RequestCancel, IsTerminal, Record
  <2>5. QED
    BY <2>2, <2>3, <2>4
<1>4. [MarkCompleted(rec) EXCEPT !.log = log] = MarkCompleted(shown)
  BY DEF MarkCompleted, MarkTerminal, Record
<1>5. [MarkFailed(rec, FALSE) EXCEPT !.log = log] = MarkFailed(shown, FALSE)
  BY DEF MarkFailed, MarkTerminal, Record
<1>6. [MarkCancelled(rec) EXCEPT !.log = log] = MarkCancelled(shown)
  BY DEF MarkCancelled, MarkTerminal, Record
<1>7. QED
  BY <1>2, <1>3, <1>4, <1>5, <1>6

(* A change of a run shows as a method, or not at all.                      *)
LEMMA ChangeRunShows ==
  ASSUME NEW n \in Nat, NEW d, Kept(d, n), Ordered(d), NEW r \in RunIds \ FreeRuns(d),
         NEW row, Fits(d, r, row, n), row.thread = d.runs[r].thread,
         row.created = d.runs[r].created, Moves(d.runs[r].rec, row.rec)
  PROVE  LET x == ChangeRun(d, r, row, d.events)
         IN  Ordered(x) /\ Becomes(History(d), History(x))
<1> DEFINE t == row.thread
           e == [d EXCEPT !.runs[r] = row, !.events = d.events]
           x == ChangeRun(d, r, row, d.events)
           h == History(d)
<1>1. row \in RunRow /\ t \in Threads /\ d.threads[t] \in ThreadRow /\ d.events \subseteq EventRow
  BY DEF Fits, RunRow, HasThread, Kept, Truth, Database
<1>2. Written(d, e, r, row) /\ e.events = d.events
  BY <1>1, RunAndEventsWritten DEF Kept, Truth, Whole, EventsOf, Database
<1>3. x = Refreshed(e, t, r, d.threads[t])
  BY DEF ChangeRun
<1> HIDE DEF e, x
<1>4. RunStep(d, x, r, row) /\ x.events = d.events
  BY <1>1, <1>2, <1>3, RefreshedIsRunStep
<1>5. Shown(x, r) = [row.rec EXCEPT !.log = ShownLog(d, r)]
  <2>1. x.runs[r] = row /\ EventsOf(x, r) = EventsOf(d, r)
    BY <1>4 DEF RunStep, EventsOf, Kept, Truth, Database
  <2>2. ShownLog(x, r) = ShownLog(d, r)
    BY <2>1, SameLog
  <2>3. QED
    BY <2>1, <2>2 DEF Shown, ShownLog
<1>6. /\ Shown(d, r) = [d.runs[r].rec EXCEPT !.log = ShownLog(d, r)]
      /\ ShownLog(d, r) \in Seq(RunEvent)
  BY ShownType
<1>7. Shown(x, r) = Shown(d, r) \/ Shown(x, r) \in Methods(Shown(d, r))
  BY <1>5, <1>6 DEF Moves
<1> HIDE DEF t
<1>8. Ordered(x) /\ RunChanges(h, History(x), t, Shown(d, r), Shown(x, r))
  BY <1>1, <1>4, HistoryRunChanged DEF t
<1>9. PICK i \in DOMAIN h[t] :
        /\ h[t][i] = Shown(d, r)
        /\ History(x) = [h EXCEPT ![t] = [h[t] EXCEPT ![i] = Shown(x, r)]]
  BY <1>8 DEF RunChanges
<1>10. t \in Threads /\ h[t] # Null
  BY <1>1, <1>8 DEF t, RunChanges
<1> HIDE DEF h
<1>11. ASSUME Shown(x, r) \in Methods(Shown(d, r)) PROVE Becomes(h, History(x))
  <2>1. \E m \in Methods(h[t][i]) : History(x) = [h EXCEPT ![t] = [h[t] EXCEPT ![i] = m]]
    BY <1>9, <1>11
  <2>2. QED
    BY <1>10, <2>1 DEF Becomes
<1>12. ASSUME Shown(x, r) = Shown(d, r) PROVE Becomes(h, History(x))
  <2>1. h = [u \in Threads |-> h[u]]
    BY DEF h, History
  <2>2. h[t] = [j \in DOMAIN h[t] |-> h[t][j]]
    <3>1. h[t] = ThreadRuns(d, t)
      BY <1>10, HistoryOf DEF h
    <3>2. QED
      BY <3>1 DEF ThreadRuns
  <2>3. [h[t] EXCEPT ![i] = Shown(x, r)] = h[t]
    BY <1>9, <1>12, <2>2
  <2>4. History(x) = h
    BY <1>9, <2>1, <2>3
  <2>5. QED
    BY <2>4 DEF Becomes
<1>13. Becomes(h, History(x))
  BY <1>7, <1>11, <1>12
<1>14. QED
  BY <1>8, <1>13 DEF h, x

(* A recorded event is the next one its readers see.                        *)
LEMMA AddEventShows ==
  ASSUME NEW n \in Nat, NEW d, Kept(d, n), Ordered(d), NEW r \in RunIds \ FreeRuns(d),
         NEW kind \in Kinds
  PROVE  LET x == AddEvent(d, r, kind, n)
         IN  Ordered(x) /\ Becomes(History(d), History(x))
<1> DEFINE row == Stamped(d.runs[r], n)
           t   == row.thread
           v   == NewEvent(d, r, kind)
           e   == Noted(d, r, kind, n)
           x   == AddEvent(d, r, kind, n)
           h   == History(d)
<1>1. /\ Fits(d, r, row, n) /\ Written(d, e, r, row) /\ row.created = d.runs[r].created
      /\ row.thread = d.runs[r].thread /\ row.rec = d.runs[r].rec
      /\ d.threads[row.thread] \in ThreadRow
      /\ v \in EventRow
      /\ EventsOf(e, r) = EventsOf(d, r) \cup {v}
      /\ x = Refreshed(e, row.thread, r, d.threads[row.thread])
  BY AddEventWrites
<1>2. v.seq = NextSeq(d, r) /\ v.kind = kind /\ kind \in RunEvent
  BY Constants DEF NewEvent
<1> HIDE DEF row, v, e, x
<1>3. RunStep(d, x, r, row) /\ x.events = e.events
  BY <1>1, RefreshedIsRunStep
<1>4. row \in RunRow /\ t \in Threads /\ x.runs[r] = row /\ EventsOf(x, r) = EventsOf(d, r) \cup {v}
  BY <1>1, <1>3 DEF RunStep, Fits, RunRow, Kept, Truth, Database, EventsOf
<1>5. /\ d.runs[r].rec \in Record
      /\ Shown(d, r) = [d.runs[r].rec EXCEPT !.log = ShownLog(d, r)]
      /\ ShownLog(d, r) \in Seq(RunEvent)
  BY ShownType
<1>6. ShownLog(x, r) = Longer(ShownLog(d, r), kind)
  <2>1. EventsOf(d, r) \subseteq EventRow /\ WholeLog(EventsOf(d, r), r)
    BY DEF Kept, Truth, Whole, Database, EventsOf
  <2>2. ShownLog(x, r) = Longer(ShownLog(d, r), v.kind)
    BY <1>1, <1>2, <1>4, <1>5, <2>1, LongerLog
  <2>3. QED
    BY <1>2, <2>2
<1>7. Shown(x, r) = AppendEvent(Shown(d, r), kind)
  <2>1. Shown(x, r) = [row.rec EXCEPT !.log = ShownLog(x, r)]
    BY <1>4 DEF Shown, ShownLog
  <2>2. Shown(d, r).log = ShownLog(d, r)
    BY <1>5 DEF Record
  <2> DEFINE old == d.runs[r].rec
             log == ShownLog(d, r)
             more == Longer(log, kind)
  <2>3. [[old EXCEPT !.log = log] EXCEPT !.log = more] = [old EXCEPT !.log = more]
    <3> HIDE DEF old, log, more
    <3>1. QED
      OBVIOUS
  <2>4. AppendEvent(Shown(d, r), kind) = [Shown(d, r) EXCEPT !.log = more]
    BY <2>2 DEF AppendEvent, Longer
  <2> HIDE DEF more
  <2>5. QED
    BY <1>1, <1>5, <1>6, <2>1, <2>3, <2>4 DEF more
<1> HIDE DEF t
<1>8. Ordered(x) /\ RunChanges(h, History(x), t, Shown(d, r), Shown(x, r))
  BY <1>1, <1>3, <1>4, HistoryRunChanged DEF t
<1>9. t \in Threads
  BY <1>4 DEF t
<1> HIDE DEF h
<1>10. Becomes(h, History(x))
  <2>1. PICK i \in DOMAIN h[t] :
          /\ h[t][i] = Shown(d, r)
          /\ History(x) = [h EXCEPT ![t] = [h[t] EXCEPT ![i] = Shown(x, r)]]
    BY <1>8 DEF RunChanges
  <2>2. \E f \in RunEvent :
          History(x) = [h EXCEPT ![t] = [h[t] EXCEPT ![i] = AppendEvent(h[t][i], f)]]
    BY <1>2, <1>7, <2>1
  <2>3. QED
    BY <1>8, <1>9, <2>2 DEF Becomes, RunChanges
<1>11. QED
  BY <1>8, <1>10 DEF h, x

(* A new run is the last of its thread.                                     *)
LEMMA AddRunShows ==
  ASSUME NEW m \in Nat, NEW n \in Nat, m < n, NEW d, Kept(d, m), Kept(d, n), Ordered(d),
         NEW t \in Threads, HasThread(d, t), NEW r \in FreeRuns(d), NEW loaded \in ThreadRow
  PROVE  LET x == AddRun(d, t, r, loaded, n)
         IN  Ordered(x) /\ Becomes(History(d), History(x))
<1> DEFINE row == NewRun(t, r, n)
           e   == Started(d, t, r, n)
           x   == AddRun(d, t, r, loaded, n)
           h   == History(d)
<1>1. /\ Fits(d, r, row, n) /\ Written(d, e, r, row)
      /\ row.thread = t /\ row.created = n /\ row.rec = NewRecord
      /\ EventsOf(e, r) = {} /\ r \in RunIds
      /\ x = Refreshed(e, t, r, loaded)
  BY AddRunWrites DEF FreeRuns
<1> HIDE DEF row, e, x
<1>2. RunStep(d, x, r, row) /\ x.events = e.events
  BY <1>1, RefreshedIsRunStep
<1>3. row \in RunRow /\ x.runs[r] = row /\ EventsOf(x, r) = {}
  BY <1>1, <1>2 DEF RunStep, Fits, Kept, Truth, Database, EventsOf
<1>4. Shown(x, r) = NewRecord
  <2>1. Cardinality({}) = 0
    BY FS_EmptySet
  <2>2. Shown(x, r) = [NewRecord EXCEPT !.log = ShownLog(x, r)]
    BY <1>1, <1>3 DEF Shown, ShownLog
  <2>3. ShownLog(x, r) = << >>
    BY <1>3, <2>1 DEF ShownLog
  <2>4. QED
    BY <2>2, <2>3 DEF NewRecord
<1>5. /\ Ordered(x) /\ h[t] # Null
      /\ History(x) = [h EXCEPT ![t] = Longer(h[t], Shown(x, r))]
  BY <1>1, <1>2, <1>3, HistoryRunAdded
<1> HIDE DEF h
<1>6. Becomes(h, History(x))
  BY <1>4, <1>5 DEF Becomes, Longer
<1>7. QED
  BY <1>5, <1>6 DEF h, x

(* T is the image of S under g, and g keeps the keys.                       *)
Carries(g, S, key, T, other) ==
  T = {g[x] : x \in S} /\ \A x \in S : other[g[x]] = key[x]

Along(g, list, n) == [i \in 1 .. n |-> g[list[i]]]

(* The order carries over to an image whose elements keep their keys.       *)
LEMMA InOrderImage ==
  ASSUME NEW S, NEW key, Keyed(S, key), NEW g, NEW T, NEW other, Carries(g, S, key, T, other)
  PROVE  /\ Keyed(T, other) /\ Cardinality(T) = Cardinality(S)
         /\ InOrder(T, other) = Along(g, InOrder(S, key), Cardinality(S))
<1> USE DEF Carries
<1> DEFINE n    == Cardinality(S)
           list == InOrder(S, key)
           b    == [x \in S |-> g[x]]
           f    == [i \in 1 .. n |-> g[list[i]]]
<1>1. /\ IsFiniteSet(S) /\ n \in Nat
      /\ \A x \in S : key[x] \in Nat
      /\ \A x, y \in S : key[x] = key[y] => x = y
  BY FS_CardinalityType DEF Keyed
<1>2. b \in Bijection(S, T)
  <2>1. b \in [S -> T] /\ \A y \in T : \E x \in S : b[x] = y
    OBVIOUS
  <2>2. \A x, y \in S : b[x] = b[y] => x = y
    BY <1>1
  <2> HIDE DEF b
  <2>3. QED
    BY <2>1, <2>2 DEF Bijection, Injection, Surjection, IsInjective
<1>3. IsFiniteSet(T) /\ Cardinality(T) = n
  <2>1. ExistsBijection(S, T)
    BY <1>2 DEF ExistsBijection
  <2> HIDE DEF b
  <2>2. QED
    BY <1>1, <2>1, FS_Bijection
<1>4. Keyed(T, other)
  BY <1>1, <1>3 DEF Keyed
<1>5. list \in [1 .. n -> S] /\ \A i, j \in 1 .. n : i < j => key[list[i]] < key[list[j]]
  BY InOrderFacts DEF Ascending
<1> HIDE DEF list, n
<1>6. f \in [1 .. n -> T]
  BY <1>5
<1>7. Ascending(f, other)
  <2>1. \A i \in 1 .. n : other[f[i]] = key[list[i]]
    BY <1>5
  <2>2. DOMAIN f = 1 .. n
    OBVIOUS
  <2> HIDE DEF f
  <2>3. QED
    BY <1>5, <2>1, <2>2 DEF Ascending
<1> HIDE DEF f
<1>8. InOrder(T, other) = f
  BY <1>3, <1>4, <1>6, <1>7, InOrderOnly
<1>9. QED
  BY <1>3, <1>4, <1>8 DEF f, n, list, Along

(* Outside of thread t nothing looks different.                             *)
LEMMA HistoryElsewhere ==
  ASSUME NEW d, Ordered(d), NEW t \in Threads, NEW x, Elsewhere(d, x, t),
         Keyed(RunsOf(x, t), Created(x, t))
  PROVE  /\ Ordered(x)
         /\ History(x) = [History(d) EXCEPT ![t] =
                            IF HasThread(x, t) THEN ThreadRuns(x, t) ELSE Null]
<1>1. ASSUME NEW u \in Threads \ {t}
      PROVE  /\ HasThread(x, u) <=> HasThread(d, u)
             /\ RunsOf(x, u) = RunsOf(d, u)
             /\ Created(x, u) = Created(d, u) /\ ThreadRuns(x, u) = ThreadRuns(d, u)
  <2>1. ASSUME NEW r \in RunsOf(d, u)
        PROVE  x.runs[r].created = d.runs[r].created /\ Shown(x, r) = Shown(d, r)
    <3>1. x.runs[r] = d.runs[r] /\ EventsOf(x, r) = EventsOf(d, r)
      BY DEF Elsewhere
    <3>2. QED
      BY <3>1, SameLog, ShownSame
  <2>2. (HasThread(x, u) <=> HasThread(d, u)) /\ RunsOf(x, u) = RunsOf(d, u)
    BY DEF Elsewhere
  <2>3. Keyed(RunsOf(d, u), Created(d, u))
    BY DEF Ordered
  <2>4. QED
    BY <2>1, <2>2, <2>3, ThreadSame
<1>2. Ordered(x)
  <2>1. ASSUME NEW u \in Threads \ {t} PROVE Keyed(RunsOf(x, u), Created(x, u))
    BY <1>1 DEF Ordered
  <2>2. QED
    BY <2>1 DEF Ordered
<1> DEFINE runs == IF HasThread(x, t) THEN ThreadRuns(x, t) ELSE Null
<1>3. History(x) = [History(d) EXCEPT ![t] = runs]
  <2> HIDE DEF runs
  <2>1. runs = IF HasThread(x, t) THEN ThreadRuns(x, t) ELSE Null
    BY DEF runs
  <2>2. \A u \in Threads \ {t} : /\ HasThread(x, u) <=> HasThread(d, u)
                                 /\ HasThread(d, u) => ThreadRuns(x, u) = ThreadRuns(d, u)
    BY <1>1
  <2>3. QED
    BY <2>1, <2>2, HistoryExcept
<1>4. QED
  BY <1>2, <1>3

(* A thread without runs.                                                   *)
LEMMA NoRuns ==
  ASSUME NEW d, NEW t, RunsOf(d, t) = {}
  PROVE  Keyed(RunsOf(d, t), Created(d, t)) /\ ThreadRuns(d, t) = << >>
<1>1. IsFiniteSet({}) /\ Cardinality({}) = 0
  BY FS_EmptySet
<1>2. QED
  BY <1>1 DEF Keyed, ThreadRuns

(* A new thread shows no runs.                                              *)
LEMMA NewThreadShows ==
  ASSUME NEW n \in Nat, NEW d, Kept(d, n), Ordered(d), NEW t \in Threads, ~HasThread(d, t)
  PROVE  LET x == AddThread(d, t, NewThread(n))
         IN  Ordered(x) /\ Becomes(History(d), History(x))
<1> DEFINE x == AddThread(d, t, NewThread(n))
           h == History(d)
<1>1. Elsewhere(d, x, t) /\ HasThread(x, t) /\ RunsOf(x, t) = {}
  BY NewThreadKeeps
<1> HIDE DEF x
<1>2. Keyed(RunsOf(x, t), Created(x, t)) /\ ThreadRuns(x, t) = << >>
  BY <1>1, NoRuns
<1>3. Ordered(x) /\ History(x) = [h EXCEPT ![t] = << >>]
  BY <1>1, <1>2, HistoryElsewhere
<1>4. h[t] = Null
  BY HistoryOf
<1> HIDE DEF h
<1>5. Becomes(h, History(x))
  BY <1>3, <1>4 DEF Becomes
<1>6. QED
  BY <1>3, <1>5 DEF h, x

(* A rename shows in no history.                                            *)
LEMMA RenameShows ==
  ASSUME NEW n \in Nat, NEW d, Kept(d, n), Ordered(d), NEW x, x.runs = d.runs, x.events = d.events,
         \A u \in Threads : HasThread(x, u) <=> HasThread(d, u)
  PROVE  Ordered(x) /\ Becomes(History(d), History(x))
<1>1. /\ \A u : RunsOf(x, u) = RunsOf(d, u) /\ Created(x, u) = Created(d, u)
      /\ \A r : Shown(x, r) = Shown(d, r)
  <2>1. \A u : RunsOf(x, u) = RunsOf(d, u) /\ EventsOf(x, u) = EventsOf(d, u)
    BY SameRuns
  <2>2. \A r : ShownLog(x, r) = ShownLog(d, r)
    BY <2>1, SameLog
  <2>3. \A r : Shown(x, r) = Shown(d, r)
    BY <2>2, ShownSame
  <2>4. QED
    BY <2>1, <2>3 DEF Created
<1>2. Ordered(x)
  BY <1>1 DEF Ordered
<1>3. \A u : ListedRuns(x, u) = ListedRuns(d, u)
  BY <1>1 DEF ListedRuns, Created
<1>4. History(x) = History(d)
  <2>1. \A u \in Threads : ThreadRuns(x, u) = ThreadRuns(d, u)
    BY <1>1, <1>3 DEF ThreadRuns
  <2>2. \A u \in Threads : History(x)[u] = History(d)[u]
    BY <2>1, HistoryOf
  <2>3. QED
    BY <2>2 DEF History
<1>5. QED
  BY <1>2, <1>4 DEF Becomes

(* A deletion takes the whole thread and leaves the others.                 *)
LEMMA RemoveThreadShows ==
  ASSUME NEW n \in Nat, NEW d, Kept(d, n), Ordered(d), NEW t \in Threads, HasThread(d, t)
  PROVE  LET x == RemoveThread(d, t)
         IN  Ordered(x) /\ Becomes(History(d), History(x))
<1> DEFINE x == RemoveThread(d, t)
           h == History(d)
<1>1. Elsewhere(d, x, t) /\ ~HasThread(x, t) /\ RunsOf(x, t) = {}
  BY RemoveThreadKeeps
<1> HIDE DEF x
<1>2. Keyed(RunsOf(x, t), Created(x, t))
  BY <1>1, NoRuns
<1>3. Ordered(x) /\ History(x) = [h EXCEPT ![t] = Null]
  BY <1>1, <1>2, HistoryElsewhere
<1>4. h[t] # Null
  BY HistoryOf, ThreadRunsType
<1> HIDE DEF h
<1>5. Becomes(h, History(x))
  BY <1>3, <1>4 DEF Becomes
<1>6. QED
  BY <1>3, <1>5 DEF h, x

(* The copy of a run looks like the run.                                    *)
LEMMA CopiedShown ==
  ASSUME NEW n \in Nat, NEW d, Kept(d, n), NEW t, NEW u, NEW copyOf, NEW x,
         Copied(d, x, t, u, copyOf), NEW s \in RunsOf(d, t)
  PROVE  Shown(x, copyOf[s]) = Shown(d, s)
<1> DEFINE old == EventsOf(d, s)
           new == EventsOf(x, copyOf[s])
           g   == [e \in old |-> ClonedEvent(e, copyOf)]
           m   == Cardinality(old)
<1>1. /\ x.runs[copyOf[s]].rec = d.runs[s].rec
      /\ new = {ClonedEvent(e, copyOf) : e \in old}
  BY DEF Copied
<1>2. old \subseteq EventRow /\ WholeLog(old, s)
  BY DEF RunsOf, EventsOf, Kept, Truth, Whole, Database
<1>3. /\ Keyed(old, Seqs(old)) /\ m \in Nat
      /\ ListedEvents(d, s) = InOrder(old, Seqs(old))
      /\ ListedEvents(d, s) \in [1 .. m -> old]
  BY <1>2, ListedEventsFacts
<1>4. \A e \in old : /\ ClonedEvent(e, copyOf).seq = e.seq
                     /\ ClonedEvent(e, copyOf).kind = e.kind
  BY <1>2 DEF ClonedEvent, EventRow
<1>5. ListedEvents(x, copyOf[s]) = InOrder(new, Seqs(new))
  BY DEF ListedEvents, Seqs
<1> HIDE DEF old, new
<1>6. new = {g[e] : e \in old}
  BY <1>1
<1>7. \A e \in old : Seqs(new)[g[e]] = Seqs(old)[e]
  BY <1>1, <1>4 DEF Seqs
<1>8. \A e \in old : g[e].kind = e.kind
  BY <1>4
<1> HIDE DEF g, m
<1>9. /\ Cardinality(new) = Cardinality(old)
      /\ InOrder(new, Seqs(new)) = Along(g, InOrder(old, Seqs(old)), Cardinality(old))
  <2>1. Carries(g, old, Seqs(old), new, Seqs(new))
    BY <1>6, <1>7 DEF Carries
  <2>2. QED
    BY <1>3, <2>1, InOrderImage
<1>10. ShownLog(x, copyOf[s]) = ShownLog(d, s)
  <2>1. \A i \in 1 .. m : ListedEvents(x, copyOf[s])[i].kind = ListedEvents(d, s)[i].kind
    BY <1>3, <1>5, <1>8, <1>9 DEF m, Along
  <2>2. ShownLog(x, copyOf[s]) = [i \in 1 .. m |-> ListedEvents(x, copyOf[s])[i].kind]
    BY <1>9 DEF ShownLog, new, m
  <2>3. ShownLog(d, s) = [i \in 1 .. m |-> ListedEvents(d, s)[i].kind]
    BY DEF ShownLog, old, m
  <2>4. QED
    BY <2>1, <2>2, <2>3
<1>11. QED
  BY <1>1, <1>10, ShownSame

(* A copy shows what its source shows, or nothing if the source has gone.   *)
LEMMA CopyThreadShows ==
  ASSUME NEW n \in Nat, NEW d, Kept(d, n), Ordered(d), NEW t \in Threads,
         NEW u \in Threads, ~HasThread(d, u), NEW copyOf, NEW x, Copied(d, x, t, u, copyOf)
  PROVE  Ordered(x) /\ Becomes(History(d), History(x))
<1> DEFINE old == RunsOf(d, t)
           new == RunsOf(x, u)
           m   == Cardinality(old)
           h   == History(d)
<1>1. /\ Elsewhere(d, x, u) /\ HasThread(x, u)
      /\ new = {copyOf[s] : s \in old}
      /\ \A s \in old : x.runs[copyOf[s]].created = d.runs[s].created
  BY DEF Copied
<1>2. \A s \in old : Shown(x, copyOf[s]) = Shown(d, s)
  BY CopiedShown
<1>3. /\ Keyed(old, Created(d, t)) /\ m \in Nat
      /\ ListedRuns(d, t) = InOrder(old, Created(d, t))
      /\ ListedRuns(d, t) \in [1 .. m -> old]
  BY ListedFacts DEF Ordered, ListedRuns, Created
<1>4. ListedRuns(x, u) = InOrder(new, Created(x, u))
  BY DEF ListedRuns, Created
<1>5. \A s \in old : Created(x, u)[copyOf[s]] = Created(d, t)[s]
  BY <1>1 DEF Created
<1> HIDE DEF old, new, m, h
<1>6. /\ Keyed(new, Created(x, u)) /\ Cardinality(new) = Cardinality(old)
      /\ InOrder(new, Created(x, u)) =
           Along(copyOf, InOrder(old, Created(d, t)), Cardinality(old))
  <2>1. Carries(copyOf, old, Created(d, t), new, Created(x, u))
    BY <1>1, <1>5 DEF Carries
  <2>2. QED
    BY <1>3, <2>1, InOrderImage
<1>7. ThreadRuns(x, u) = ThreadRuns(d, t)
  <2>1. \A i \in 1 .. m : Shown(x, ListedRuns(x, u)[i]) = Shown(d, ListedRuns(d, t)[i])
    BY <1>2, <1>3, <1>4, <1>6 DEF m, Along
  <2>2. ThreadRuns(x, u) = [i \in 1 .. m |-> Shown(x, ListedRuns(x, u)[i])]
    BY <1>6 DEF ThreadRuns, new, m
  <2>3. ThreadRuns(d, t) = [i \in 1 .. m |-> Shown(d, ListedRuns(d, t)[i])]
    BY DEF ThreadRuns, old, m
  <2>4. QED
    BY <2>1, <2>2, <2>3
<1>8. Ordered(x) /\ History(x) = [h EXCEPT ![u] = ThreadRuns(d, t)]
  BY <1>1, <1>6, <1>7, HistoryElsewhere DEF new, h
<1>9. h[u] = Null
  BY HistoryOf DEF h
<1>10. CASE HasThread(d, t)
  <2>1. h[t] = ThreadRuns(d, t) /\ h[t] # Null
    BY <1>10, HistoryOf, ThreadRunsType DEF h
  <2>2. Becomes(h, History(x))
    BY <1>8, <1>9, <2>1 DEF Becomes
  <2>3. QED
    BY <1>8, <2>2 DEF h
<1>11. CASE ~HasThread(d, t)
  <2>1. RunsOf(d, t) = {}
    BY <1>11 DEF RunsOf, Kept, Truth, Rooted
  <2>2. ThreadRuns(d, t) = << >>
    BY <2>1, NoRuns
  <2>3. Becomes(h, History(x))
    BY <1>8, <1>9, <2>2 DEF Becomes
  <2>4. QED
    BY <1>8, <2>3 DEF h
<1>12. QED
  BY <1>10, <1>11

-----------------------------------------------------------------------------
(* The steps.                                                               *)

(* What the readers are shown of d is one change of what they are shown now. *)
Shows(d) == Ordered(db) => Ordered(d) /\ Becomes(History(db), History(d))

(* A whole transaction of actor a, and the second half of one.              *)
Does(a, d) == Do(a, d) /\ Kept(d, now + 1) /\ Shows(d) /\ (Exact(db) => Exact(d))

(* The thread the transaction of actor a loaded is as it was, if it is there. *)
Current(a) ==
  LET t == pending[a].thread
  IN  HasThread(db, t) => pending[a].loaded = db.threads[t]

Finishes(a, d) ==
  /\ pending[a] # Null
  /\ Write(a, d)
  /\ Kept(d, now + 1)
  /\ Shows(d)
  /\ Exact(db) /\ Current(a) => Exact(d)

(* The methods of the record keep its type, and the store its empty log.    *)
LEMMA MethodTypes ==
  ASSUME NEW rec \in Record
  PROVE  /\ MarkStreaming(rec) \in Record /\ MarkStreaming(rec).log = rec.log
         /\ RequestCancel(rec) \in Record /\ RequestCancel(rec).log = rec.log
         /\ MarkCompleted(rec) \in Record /\ MarkCompleted(rec).log = rec.log
         /\ MarkFailed(rec, FALSE) \in Record /\ MarkFailed(rec, FALSE).log = rec.log
         /\ MarkCancelled(rec) \in Record /\ MarkCancelled(rec).log = rec.log
<1>1. \A status \in TerminalStatus :
        MarkTerminal(rec, status) \in Record /\ MarkTerminal(rec, status).log = rec.log
  BY DEF MarkTerminal, Record, Status
<1>2. MarkStreaming(rec) \in Record /\ MarkStreaming(rec).log = rec.log
  BY DEF MarkStreaming, Record, Status
<1>3. RequestCancel(rec) \in Record /\ RequestCancel(rec).log = rec.log
  BY DEF RequestCancel, Record, Status, TerminalStatus
<1>4. MarkCompleted(rec) \in Record /\ MarkCompleted(rec).log = rec.log
  BY <1>1 DEF MarkCompleted, Record, TerminalStatus
<1>5. MarkFailed(rec, FALSE) \in Record /\ MarkFailed(rec, FALSE).log = rec.log
  BY <1>1 DEF MarkFailed, Record, TerminalStatus
<1>6. MarkCancelled(rec) \in Record /\ MarkCancelled(rec).log = rec.log
  BY <1>1 DEF MarkCancelled, Record, TerminalStatus
<1>7. QED
  BY <1>2, <1>3, <1>4, <1>5, <1>6

(* The time of a transaction.                                               *)
LEMMA NextInstant ==
  ASSUME IInv
  PROVE  now \in Nat /\ now + 1 \in Nat /\ Kept(db, now + 1) /\ "loop" \in Actors
<1>1. now \in Nat /\ now + 1 \in Nat /\ now <= now + 1
  BY Constants DEF IInv
<1>2. Kept(db, now + 1)
  BY <1>1, KeptLater DEF IInv
<1>3. QED
  BY <1>1, <1>2 DEF Actors

(* The row of a run after one of its methods.                               *)
Changed(old, rec, m, touches, ends) ==
  [old EXCEPT !.rec = rec,
              !.updated = IF touches THEN m ELSE @,
              !.ended = IF ends THEN m ELSE @]

LEMMA ChangedRow ==
  ASSUME NEW m \in Nat, NEW old \in RunRow,
         old.created <= m, old.updated <= m, old.ended <= m,
         NEW rec \in Record, rec.log = << >>, NEW touches, NEW ends
  PROVE  LET row == Changed(old, rec, m, touches, ends)
         IN  /\ row \in RunRow /\ row.thread = old.thread /\ row.rec = rec
             /\ row.created = old.created
             /\ row.created <= m /\ row.updated <= m /\ row.ended <= m
<1> DEFINE updated == IF touches THEN m ELSE old.updated
           ended   == IF ends THEN m ELSE old.ended
<1>1. updated \in Nat /\ updated <= m /\ ended \in Nat /\ ended <= m
  BY DEF RunRow
<1> HIDE DEF updated, ended
<1>2. /\ [old EXCEPT !.rec = rec, !.updated = updated, !.ended = ended] \in RunRow
      /\ [old EXCEPT !.rec = rec, !.updated = updated, !.ended = ended].thread = old.thread
      /\ [old EXCEPT !.rec = rec, !.updated = updated, !.ended = ended].rec = rec
      /\ [old EXCEPT !.rec = rec, !.updated = updated, !.ended = ended].created = old.created
      /\ [old EXCEPT !.rec = rec, !.updated = updated, !.ended = ended].updated = updated
      /\ [old EXCEPT !.rec = rec, !.updated = updated, !.ended = ended].ended = ended
  BY <1>1 DEF RunRow
<1>3. QED
  BY <1>1, <1>2 DEF Changed, updated, ended

LEMMA MutateRunDoes ==
  ASSUME IInv, NEW r \in RunIds, NEW rec \in Record, rec.log = << >>, NEW touches, NEW ends,
         MutateRun(r, rec, touches, ends), Moves(db.runs[r].rec, rec)
  PROVE  \E a \in Actors : \E d : Does(a, d)
<1> DEFINE row == Changed(db.runs[r], rec, now + 1, touches, ends)
           d   == ChangeRun(db, r, row, db.events)
<1>1. Do("loop", d) /\ db.runs[r] # Null
  BY DEF MutateRun, Changed
<1>2. /\ db.runs[r] \in RunRow /\ HasThread(db, db.runs[r].thread)
      /\ db.runs[r].created <= now + 1 /\ db.runs[r].updated <= now + 1
      /\ db.runs[r].ended <= now + 1
  BY <1>1, NextInstant DEF Kept, Truth, Database, FreeRuns, Rooted, Dated
<1>3. /\ row \in RunRow /\ row.thread = db.runs[r].thread /\ row.rec = rec
      /\ row.created = db.runs[r].created
      /\ row.created <= now + 1 /\ row.updated <= now + 1 /\ row.ended <= now + 1
  BY <1>2, NextInstant, ChangedRow
<1> HIDE DEF row
<1>4. Fits(db, r, row, now + 1)
  BY <1>2, <1>3 DEF Fits
<1>5. Kept(d, now + 1) /\ (Exact(db) => Exact(d))
  BY <1>4, NextInstant, ChangeRunKeeps
<1>6. Shows(d)
  BY <1>1, <1>3, <1>4, NextInstant, ChangeRunShows DEF Shows, FreeRuns
<1>7. QED
  BY <1>1, <1>5, <1>6, NextInstant DEF Does

(* The transactions that are one step.                                      *)
LEMMA LoopDoes ==
  ASSUME IInv, NEW r \in RunIds,
         \/ RecordRunEvent(r) \/ MarkRunStreaming(r) \/ RequestRunCancel(r)
         \/ MarkRunTerminal(r) \/ TouchRun(r)
  PROVE  \E a \in Actors : \E d : Does(a, d)
<1>1. CASE RecordRunEvent(r)
  <2>1. r \in RunIds \ FreeRuns(db)
    BY <1>1 DEF RecordRunEvent, FreeRuns
  <2>2. PICK kind \in Kinds : Do("loop", AddEvent(db, r, kind, now + 1))
    BY <1>1 DEF RecordRunEvent
  <2>3. /\ Kept(AddEvent(db, r, kind, now + 1), now + 1)
        /\ Exact(db) => Exact(AddEvent(db, r, kind, now + 1))
    BY <2>1, NextInstant, AddEventKeeps
  <2>4. Shows(AddEvent(db, r, kind, now + 1))
    BY <2>1, NextInstant, AddEventShows DEF Shows
  <2>5. QED
    BY <2>2, <2>3, <2>4, NextInstant DEF Does
<1>2. CASE MarkRunStreaming(r) \/ RequestRunCancel(r) \/ MarkRunTerminal(r) \/ TouchRun(r)
  <2> DEFINE rec == db.runs[r].rec
  <2>1. rec \in Record /\ rec.log = << >>
    <3>1. db.runs[r] # Null
      BY <1>2 DEF MarkRunStreaming, RequestRunCancel, MarkRunTerminal, TouchRun, MutateRun
    <3>2. QED
      BY <3>1 DEF IInv, Kept, Truth, Database, RunRow
  <2>2. CASE MarkRunStreaming(r)
    BY <2>1, <2>2, MethodTypes, MethodsMove, MutateRunDoes DEF MarkRunStreaming
  <2>3. CASE RequestRunCancel(r)
    BY <2>1, <2>3, MethodTypes, MethodsMove, MutateRunDoes DEF RequestRunCancel
  <2>4. CASE MarkRunTerminal(r)
    BY <2>1, <2>4, MethodTypes, MethodsMove, MutateRunDoes DEF MarkRunTerminal
  <2>5. CASE TouchRun(r)
    BY <2>1, <2>5, MutateRunDoes DEF TouchRun, Moves
  <2>6. QED
    BY <1>2, <2>2, <2>3, <2>4, <2>5
<1>3. QED
  BY <1>1, <1>2

LEMMA ThreadDoes ==
  ASSUME IInv, NEW t \in Threads,
         CreateThread(t) \/ \E w \in Workers : DeleteThread(w, t)
  PROVE  \E a \in Actors : \E d : Does(a, d)
<1>1. CASE CreateThread(t)
  <2>1. Shows(AddThread(db, t, NewThread(now + 1)))
    BY <1>1, NextInstant, NewThreadShows DEF CreateThread, Shows
  <2>2. QED
    BY <1>1, <2>1, NextInstant, NewThreadKeeps DEF CreateThread, Does
<1>2. CASE \E w \in Workers : DeleteThread(w, t)
  <2>1. Shows(RemoveThread(db, t))
    BY <1>2, NextInstant, RemoveThreadShows DEF DeleteThread, Shows
  <2>2. QED
    BY <1>2, <2>1, NextInstant, RemoveThreadKeeps DEF DeleteThread, Does, Actors
<1>3. QED
  BY <1>1, <1>2

(* The second halves.                                                       *)
LEMMA PendingFacts ==
  ASSUME IInv, NEW a \in Actors, pending[a] # Null
  PROVE  pending[a].thread \in Threads /\ pending[a].loaded \in ThreadRow
BY DEF IInv, Transaction

LEMMA RunFinishes ==
  ASSUME IInv, CreateRunWrites
  PROVE  \E a \in Actors : \E d : Finishes(a, d)
<1> DEFINE t == pending["loop"].thread
           loaded == pending["loop"].loaded
<1>1. pending["loop"] # Null /\ HasThread(db, t)
  BY DEF CreateRunWrites, Reading
<1>2. PICK r \in FreshRuns : Write("loop", AddRun(db, t, r, loaded, now + 1))
  BY DEF CreateRunWrites
<1>3. r \in FreeRuns(db) /\ loaded.last # r
  BY <1>1, <1>2, NextInstant DEF FreshRuns
<1>4. t \in Threads /\ loaded \in ThreadRow
  BY <1>1, NextInstant, PendingFacts
<1>5. /\ Kept(AddRun(db, t, r, loaded, now + 1), now + 1)
      /\ Exact(db) /\ loaded = db.threads[t] => Exact(AddRun(db, t, r, loaded, now + 1))
  BY <1>1, <1>3, <1>4, NextInstant, AddRunKeeps
<1>6. Shows(AddRun(db, t, r, loaded, now + 1))
  <2>1. Kept(db, now) /\ now < now + 1
    BY NextInstant DEF IInv
  <2>2. QED
    BY <1>1, <1>3, <1>4, <2>1, NextInstant, AddRunShows DEF Shows
<1>7. QED
  BY <1>1, <1>2, <1>5, <1>6, NextInstant DEF Finishes, Current

LEMMA RenameFinishes ==
  ASSUME IInv, NEW w \in Workers, RenameWrites(w)
  PROVE  \E a \in Actors : \E d : Finishes(a, d)
<1> DEFINE t == pending[w].thread
           loaded == pending[w].loaded
           renamed == [loaded EXCEPT !.title = "renamed", !.source = "manual", !.updated = now + 1]
<1>1. /\ pending[w] # Null /\ HasThread(db, t) /\ w \in Actors
      /\ Write(w, RefreshThread(db, t, loaded, renamed))
  BY DEF RenameWrites, Reading, Actors
<1>2. t \in Threads /\ loaded \in ThreadRow
  BY <1>1, PendingFacts
<1>3. /\ Kept(RefreshThread(db, t, loaded, renamed), now + 1)
      /\ Exact(db) /\ loaded = db.threads[t] => Exact(RefreshThread(db, t, loaded, renamed))
      /\ LET x == RefreshThread(db, t, loaded, renamed)
         IN  /\ x.runs = db.runs /\ x.events = db.events
             /\ \A u \in Threads : HasThread(x, u) <=> HasThread(db, u)
  BY <1>1, <1>2, NextInstant, RenameKeeps
<1> HIDE DEF renamed
<1>4. Shows(RefreshThread(db, t, loaded, renamed))
  BY <1>3, NextInstant, RenameShows DEF Shows
<1>5. QED
  BY <1>1, <1>3, <1>4 DEF Finishes, Current

LEMMA DuplicateFinishes ==
  ASSUME IInv, NEW w \in Workers, DuplicateWrites(w)
  PROVE  \E a \in Actors : \E d : Finishes(a, d)
<1> DEFINE t == pending[w].thread
<1>1. pending[w] # Null /\ w \in Actors
  BY DEF DuplicateWrites, Reading, Actors
<1>2. PICK u \in Threads, copyOf \in Injection(RunsOf(db, t), FreshRuns) :
        ~HasThread(db, u) /\ Write(w, CopyThread(db, t, u, copyOf, now + 1))
  BY DEF DuplicateWrites
<1>3. t \in Threads
  BY <1>1, PendingFacts
<1>4. copyOf \in Injection(RunsOf(db, t), FreeRuns(db))
  BY <1>2 DEF FreshRuns, Injection, IsInjective
<1>5. /\ Kept(CopyThread(db, t, u, copyOf, now + 1), now + 1)
      /\ Exact(db) => Exact(CopyThread(db, t, u, copyOf, now + 1))
      /\ Copied(db, CopyThread(db, t, u, copyOf, now + 1), t, u, copyOf)
  BY <1>2, <1>3, <1>4, NextInstant, CopyThreadKeeps
<1>6. Shows(CopyThread(db, t, u, copyOf, now + 1))
  BY <1>2, <1>3, <1>5, NextInstant, CopyThreadShows DEF Shows
<1>7. QED
  BY <1>1, <1>2, <1>5, <1>6 DEF Finishes

(* What a step can be.                                                      *)
LEMMA Steps ==
  ASSUME IInv, Next
  PROVE  \/ \E a \in Actors : \E d : Does(a, d)
         \/ \E a \in Actors : \E d : Finishes(a, d)
         \/ \E a \in Actors, o \in {"create_run", "rename", "duplicate"}, t \in Threads : Read(a, o, t)
         \/ \E a \in Actors : RollBack(a)
         \/ \E w \in Workers : BackupDatabase(w) \/ RestoreDatabase(w)
<1>1. CASE Loop
  BY <1>1, LoopDoes, ThreadDoes, RunFinishes DEF Loop, CreateRunReads, Actors
<1>2. CASE \E w \in Workers : Worker(w)
  BY <1>2, ThreadDoes, RenameFinishes, DuplicateFinishes
     DEF Worker, RenameReads, DuplicateReads, Actors
<1>3. QED
  BY <1>1, <1>2 DEF Next


-----------------------------------------------------------------------------
(* Whatever the interleaving.                                               *)

LEMMA InitKept == Init => IInv /\ Exact(db)
<1> SUFFICES ASSUME Init PROVE IInv /\ Exact(db)
  OBVIOUS
<1>1. /\ now = 0 /\ db = EmptyDatabase /\ backup = Null
      /\ pending \in [Actors -> Transaction \cup {Null}]
  BY DEF Init
<1>2. /\ EmptyDatabase \in Database
      /\ FreeRuns(EmptyDatabase) = RunIds
      /\ \A t \in Threads : ~HasThread(EmptyDatabase, t) /\ RunsOf(EmptyDatabase, t) = {}
      /\ \A r \in RunIds : EventsOf(EmptyDatabase, r) = {}
  BY DEF EmptyDatabase, Database, FreeRuns, HasThread, RunsOf, EventsOf
<1>3. \A r : WholeLog({}, r)
  BY FS_EmptySet DEF WholeLog
<1>4. Truth(EmptyDatabase, 0)
  BY <1>2, <1>3 DEF Truth, Rooted, Dated, Whole, EmptyDatabase
<1>5. RunCached(EmptyDatabase) /\ \A t \in Threads : ThreadKept(EmptyDatabase, t)
  BY <1>2 DEF RunCached, ThreadKept, EmptyDatabase
<1>6. Exact(EmptyDatabase)
  BY <1>2 DEF Exact, ThreadExact
<1>7. now \in 0 .. MaxTime
  BY <1>1, Constants
<1>8. QED
  BY <1>1, <1>4, <1>5, <1>6, <1>7 DEF IInv, Kept

(* A transaction commits a database that is kept.                           *)
LEMMA CommitKeeps ==
  ASSUME IInv, NEW d, Kept(d, now + 1), Commit(d),
         pending' \in [Actors -> Transaction \cup {Null}]
  PROVE  IInv'
<1>1. db' = d /\ now' = now + 1 /\ backup' = backup /\ now' \in 0 .. MaxTime
  BY Constants DEF Commit, Tick, IInv
<1>2. ASSUME backup # Null PROVE Kept(backup, now + 1)
  <2>1. now \in Nat /\ now + 1 \in Nat /\ now <= now + 1
    BY NextInstant
  <2>2. QED
    BY <1>2, <2>1, KeptLater DEF IInv
<1>3. QED
  BY <1>1, <1>2 DEF IInv

LEMMA IInvStep == IInv /\ [Next]_vars => IInv'
<1> SUFFICES ASSUME IInv, [Next]_vars PROVE IInv'
  OBVIOUS
<1> USE DEF IInv
<1>1. CASE UNCHANGED vars
  BY <1>1 DEF vars
<1>2. CASE Next
  <2>1. ASSUME NEW a \in Actors, NEW d, Does(a, d) PROVE IInv'
    BY <2>1, CommitKeeps DEF Does, Do
  <2>2. ASSUME NEW a \in Actors, NEW d, Finishes(a, d) PROVE IInv'
    BY <2>2, CommitKeeps DEF Finishes, Write
  <2>3. ASSUME NEW a \in Actors, NEW o \in {"create_run", "rename", "duplicate"},
               NEW t \in Threads, Read(a, o, t)
        PROVE  IInv'
    <3>1. db.threads[t] \in ThreadRow
      BY <2>3 DEF Read, HasThread, Kept, Truth, Database
    <3>2. [operation |-> o, thread |-> t, loaded |-> db.threads[t]] \in Transaction
      BY <3>1 DEF Transaction
    <3>3. QED
      BY <2>3, <3>2 DEF Read
  <2>4. ASSUME NEW a \in Actors, RollBack(a) PROVE IInv'
    BY <2>4 DEF RollBack
  <2>5. ASSUME NEW w \in Workers, BackupDatabase(w) PROVE IInv'
    BY <2>5 DEF BackupDatabase
  <2>6. ASSUME NEW w \in Workers, RestoreDatabase(w) PROVE IInv'
    BY <2>6 DEF RestoreDatabase
  <2>7. QED
    BY <1>2, <2>1, <2>2, <2>3, <2>4, <2>5, <2>6, Steps
<1>3. QED
  BY <1>1, <1>2

(* The rows and the projections of runs are sound at every commit, in the   *)
(* database and in its backup, whichever transactions overlap               *)
(* (SQLiteSessionStore).                                                    *)
THEOREM StoreInvariant == Spec => []IInv
<1>1. Init => IInv
  BY InitKept
<1>2. QED
  BY <1>1, IInvStep, PTL DEF Spec

(* The tables, the open transactions and the backup have the types of the   *)
(* schema (models.py).                                                      *)
THEOREM StoreTypes == Spec => []TypeOK
<1>1. IInv => TypeOK
  BY DEF IInv, TypeOK, Kept, Truth
<1>2. QED
  BY <1>1, StoreInvariant, PTL

(* Deletions, runs, copies and restores in any order leave no row without   *)
(* the row it belongs to and no run without its exact projection            *)
(* (delete_thread, record_run_event, duplicate_thread).                     *)
THEOREM NoOrphansEver == Spec => []NoOrphans
<1>1. IInv => NoOrphans
  <2> SUFFICES ASSUME IInv PROVE NoOrphans
    OBVIOUS
  <2>1. Rooted(db) /\ RunCached(db) /\ \A t \in Threads : ThreadKept(db, t)
    BY DEF IInv, Kept, Truth
  <2>2. \A r \in RunIds \ FreeRuns(db) : db.runs[r] # Null
    BY DEF FreeRuns
  <2>3. db \in Database /\ Dated(db, now) /\ now \in Nat
    BY Constants DEF IInv, Kept, Truth
  <2>4. \A r \in RunIds \ FreeRuns(db) : BuildRunProjection(db, r) # Null
    <3> SUFFICES ASSUME NEW r \in RunIds \ FreeRuns(db) PROVE BuildRunProjection(db, r) # Null
      OBVIOUS
    <3>1. db.runs[r].rec \in Record /\ EventsOf(db, r) \subseteq EventRow
      BY <2>2, <2>3 DEF Database, RunRow, EventsOf
    <3>2. WholeLog(EventsOf(db, r), r)
      BY DEF IInv, Kept, Truth, Whole
    <3>3. QED
      BY <3>1, <3>2, RunProjectionType, Constants DEF BuildRunProjection
  <2>5. \A r \in RunIds : (db.runCache[r] = Null) <=> (db.runs[r] = Null)
    BY <2>1, <2>4 DEF RunCached, FreeRuns
  <2>6. \A r \in RunIds \ FreeRuns(db) : db.runCache[r] = BuildRunProjection(db, r)
    BY <2>1, <2>2 DEF RunCached
  <2>7. QED
    BY <2>1, <2>5, <2>6 DEF NoOrphans, Rooted, ThreadKept
<1>2. QED
  BY <1>1, StoreInvariant, PTL

(* The log of a run has no gap and names its run, as recorded, copied or    *)
(* restored (append_event, _clone_event_for_run).                           *)
THEOREM LogsStayWhole == Spec => []LogsAreWhole
<1>1. IInv => LogsAreWhole
  BY DEF IInv, Kept, Truth, Whole, WholeLog, LogsAreWhole
<1>2. QED
  BY <1>1, StoreInvariant, PTL

-----------------------------------------------------------------------------
(* What the caches say.                                                     *)

BothExact == Exact(db) /\ (backup # Null => Exact(backup))

LEMMA ExactMeansAllExact ==
  ASSUME IInv
  PROVE  BothExact <=> AllExact
<1>1. now \in Nat /\ Kept(db, now) /\ (backup # Null => Kept(backup, now))
  BY Constants DEF IInv
<1>2. Exact(db) <=> CachesAreExact
  BY <1>1, ExactMeansRebuilt, RebuiltMeansExact DEF CachesAreExact
<1>3. backup # Null => (Exact(backup) <=> Rebuilt(backup) = backup)
  BY <1>1, ExactMeansRebuilt, RebuiltMeansExact
<1>4. QED
  BY <1>2, <1>3 DEF BothExact, AllExact

LEMMA LaterExact ==
  ASSUME IInv', BothExact'
  PROVE  AllExact'
<1>1. now' \in Nat /\ Kept(db', now') /\ (backup' # Null => Kept(backup', now'))
  BY Constants DEF IInv
<1>2. Exact(db') /\ (backup' # Null => Exact(backup'))
  BY DEF BothExact, Exact, ThreadExact
<1>3. Rebuilt(db') = db' /\ (backup' # Null => Rebuilt(backup') = backup')
  BY <1>1, <1>2, ExactMeansRebuilt
<1>4. QED
  BY <1>3 DEF AllExact, CachesAreExact

LEMMA SpoiledStep ==
  ASSUME IInv, BothExact, [Next]_vars
  PROVE  BothExact' \/ \E a \in Actors : StaleWrite(a)
<1>1. CASE UNCHANGED vars
  BY <1>1 DEF vars, BothExact, Exact, ThreadExact
<1>2. CASE Next
  <2>1. ASSUME NEW a \in Actors, NEW d, Does(a, d) PROVE BothExact'
    <3>1. db' = d /\ backup' = backup /\ Exact(d)
      BY <2>1 DEF Does, Do, Commit, BothExact
    <3>2. QED
      BY <3>1 DEF BothExact
  <2>2. ASSUME NEW a \in Actors, NEW d, Finishes(a, d), ~StaleWrite(a) PROVE BothExact'
    <3>1. db' = d /\ backup' = backup /\ pending[a] # Null
      BY <2>2 DEF Finishes, Write, Commit
    <3>2. Current(a)
      BY <2>2, <3>1 DEF Finishes, StaleWrite, Current
    <3>3. Exact(d)
      BY <2>2, <3>2 DEF Finishes, BothExact
    <3>4. QED
      BY <3>1, <3>3 DEF BothExact
  <2>3. ASSUME UNCHANGED <<db, backup>> PROVE BothExact'
    BY <2>3 DEF BothExact, Exact, ThreadExact
  <2>4. ASSUME NEW w \in Workers, BackupDatabase(w) PROVE BothExact'
    BY <2>4 DEF BackupDatabase, BothExact, Exact, ThreadExact
  <2>5. ASSUME NEW w \in Workers, RestoreDatabase(w) PROVE BothExact'
    BY <2>5 DEF RestoreDatabase, BothExact
  <2>6. ASSUME NEW a \in Actors,
               \/ RollBack(a)
               \/ \E o \in {"create_run", "rename", "duplicate"}, t \in Threads : Read(a, o, t)
        PROVE  UNCHANGED <<db, backup>>
    BY <2>6 DEF RollBack, Read
  <2>7. QED
    BY <1>2, <2>1, <2>2, <2>3, <2>4, <2>5, <2>6, Steps
<1>3. QED
  BY <1>1, <1>2

(* Whichever transactions overlap, every step leaves the caches what a      *)
(* rebuild would make of the rows, but for the write of a transaction whose *)
(* row another one has changed: no operation forgets a refresh              *)
(* (refresh_run_in_transaction, refresh_thread_in_transaction,              *)
(* rebuild_all).                                                            *)
THEOREM CachesStayExact == Spec => CachesAreExact /\ OnlyStaleRowsSpoilCaches
<1>1. Init => CachesAreExact
  <2> SUFFICES ASSUME Init PROVE CachesAreExact
    OBVIOUS
  <2>1. IInv /\ BothExact
    BY InitKept DEF Init, BothExact
  <2>2. QED
    BY <2>1, ExactMeansAllExact DEF AllExact
<1>2. IInv /\ IInv' /\ [Next]_vars
        => [AllExact => AllExact' \/ \E a \in Actors : StaleWrite(a)]_vars
  <2> SUFFICES ASSUME IInv, IInv', [Next]_vars, AllExact
               PROVE  AllExact' \/ \E a \in Actors : StaleWrite(a)
    OBVIOUS
  <2>1. BothExact
    BY ExactMeansAllExact
  <2>2. CASE BothExact'
    <3>1. AllExact'
      BY <2>2, LaterExact
    <3>2. QED
      BY <3>1
  <2>3. QED
    BY <2>1, <2>2, SpoiledStep
<1>3. QED
  BY <1>1, <1>2, StoreInvariant, PTL DEF Spec, OnlyStaleRowsSpoilCaches

-----------------------------------------------------------------------------
(* The refinement.                                                          *)

OrderedInv == Ordered(db) /\ (backup # Null => Ordered(backup))

SavedHistory == IF backup = Null THEN Null ELSE History(backup)

LEMMA HistoryType ==
  ASSUME NEW n, NEW d, Kept(d, n), Ordered(d)
  PROVE  History(d) \in [Threads -> Seq(Record) \cup {Null}] /\ History(d) # Null
<1>1. \A t \in Threads : ThreadRuns(d, t) \in Seq(Record)
  BY ThreadRunsType
<1>2. History(d) = [t \in Threads |-> IF ~HasThread(d, t) THEN Null ELSE ThreadRuns(d, t)]
  BY DEF History, ThreadRuns
<1>3. History(d) \in [Threads -> Seq(Record) \cup {Null}]
  BY <1>1, <1>2
<1>4. QED
  BY <1>3, StoreAssumption

(* The promise speaks of the same records.                                  *)
LEMMA SameRecords ==
  /\ Promise!NewRecord = NewRecord
  /\ Promise!RunEvent = RunEvent
  /\ \A rec : Promise!Methods(rec) = Methods(rec)
  /\ \A rec, e : Promise!AppendEvent(rec, e) = AppendEvent(rec, e)
<1>1. Promise!NewRecord = NewRecord /\ Promise!RunEvent = RunEvent
  BY DEF Promise!NewRecord, NewRecord, Promise!RunEvent, RunEvent, Promise!BodyEvent, BodyEvent,
         Promise!TerminalEvent, TerminalEvent
<1>2. /\ Promise!TerminalStatus = TerminalStatus
      /\ \A rec : Promise!IsTerminal(rec) <=> IsTerminal(rec)
  BY DEF Promise!TerminalStatus, TerminalStatus, Promise!IsTerminal, IsTerminal
<1>3. \A rec, status : Promise!MarkTerminal(rec, status) = MarkTerminal(rec, status)
  BY DEF Promise!MarkTerminal, MarkTerminal
<1>4. \A rec : /\ Promise!MarkStreaming(rec) = MarkStreaming(rec)
               /\ Promise!RequestCancel(rec) = RequestCancel(rec)
  BY <1>2 DEF Promise!MarkStreaming, MarkStreaming, Promise!RequestCancel, RequestCancel
<1>5. \A rec : /\ Promise!MarkCompleted(rec) = MarkCompleted(rec)
               /\ Promise!MarkCancelled(rec) = MarkCancelled(rec)
               /\ \A awaiting : Promise!MarkFailed(rec, awaiting) = MarkFailed(rec, awaiting)
  BY <1>3 DEF Promise!MarkCompleted, MarkCompleted, Promise!MarkCancelled, MarkCancelled,
              Promise!MarkFailed, MarkFailed
<1>6. \A rec : Promise!Methods(rec) = Methods(rec)
  BY <1>4, <1>5 DEF Promise!Methods, Methods
<1>7. \A rec, e : Promise!AppendEvent(rec, e) = AppendEvent(rec, e)
  BY DEF Promise!AppendEvent, AppendEvent
<1>8. QED
  BY <1>1, <1>6, <1>7

(* A transaction is one change of the promise, or changes nothing.          *)
LEMMA CommitShows ==
  ASSUME Becomes(History(db), History(db')), backup' = backup
  PROVE  [Promise!Next]_<<History(db), SavedHistory>>
<1> DEFINE h == History(db)
           k == History(db')
<1>1. History(db)' = k /\ SavedHistory' = SavedHistory
  BY DEF SavedHistory
<1>2. ASSUME NEW t \in Threads, h[t] = Null, k = [h EXCEPT ![t] = << >>] PROVE Promise!Change
  BY <1>1, <1>2 DEF Promise!Change, Promise!Open, Promise!Exists
<1>3. ASSUME NEW t \in Threads, h[t] # Null, k = [h EXCEPT ![t] = Append(h[t], NewRecord)]
      PROVE  Promise!Change
  BY <1>1, <1>3, SameRecords DEF Promise!Change, Promise!Start, Promise!Exists
<1>4. ASSUME NEW t \in Threads, h[t] # Null, k = [h EXCEPT ![t] = Null] PROVE Promise!Change
  BY <1>1, <1>4 DEF Promise!Change, Promise!Drop, Promise!Exists
<1>5. ASSUME NEW t \in Threads, h[t] # Null, NEW i \in DOMAIN h[t], NEW e \in RunEvent,
             k = [h EXCEPT ![t] = [h[t] EXCEPT ![i] = AppendEvent(h[t][i], e)]]
      PROVE  Promise!Change
  <2>1. e \in Promise!RunEvent /\ Promise!AppendEvent(h[t][i], e) = AppendEvent(h[t][i], e)
    BY SameRecords
  <2>2. k = [h EXCEPT ![t] = [h[t] EXCEPT ![i] = Promise!AppendEvent(h[t][i], e)]]
    BY <1>5, <2>1
  <2>3. Promise!Note(t, i)
    BY <1>1, <2>1, <2>2 DEF Promise!Note
  <2>4. QED
    BY <1>5, <2>3 DEF Promise!Change, Promise!Exists
<1>6. ASSUME NEW t \in Threads, h[t] # Null, NEW i \in DOMAIN h[t], NEW m \in Methods(h[t][i]),
             k = [h EXCEPT ![t] = [h[t] EXCEPT ![i] = m]]
      PROVE  Promise!Change
  BY <1>1, <1>6, SameRecords DEF Promise!Change, Promise!Move, Promise!Exists
<1>7. ASSUME NEW t \in Threads, NEW u \in Threads, h[t] # Null, h[u] = Null,
             k = [h EXCEPT ![u] = h[t]]
      PROVE  Promise!Change
  BY <1>1, <1>7 DEF Promise!Change, Promise!Copy, Promise!Exists
<1>8. k = h \/ Promise!Change
  BY <1>2, <1>3, <1>4, <1>5, <1>6, <1>7 DEF Becomes
<1>9. QED
  BY <1>1, <1>8 DEF Promise!Next, SavedHistory

LEMMA InitShows == Init => OrderedInv /\ Promise!Init
<1> SUFFICES ASSUME Init PROVE OrderedInv /\ Promise!Init
  OBVIOUS
<1>1. db = EmptyDatabase /\ backup = Null
  BY DEF Init
<1>2. \A t \in Threads : ~HasThread(db, t) /\ RunsOf(db, t) = {}
  BY <1>1 DEF EmptyDatabase, HasThread, RunsOf, FreeRuns
<1>3. Ordered(db)
  BY <1>2, NoRuns DEF Ordered
<1>4. History(db) = [t \in Threads |-> Null]
  BY <1>2 DEF History
<1>5. QED
  BY <1>1, <1>3, <1>4 DEF OrderedInv, Promise!Init

LEMMA StepShows ==
  IInv /\ OrderedInv /\ [Next]_vars => OrderedInv' /\ [Promise!Next]_<<History(db), SavedHistory>>
<1> SUFFICES ASSUME IInv, OrderedInv, [Next]_vars
             PROVE  OrderedInv' /\ [Promise!Next]_<<History(db), SavedHistory>>
  OBVIOUS
<1> DEFINE Goal == OrderedInv' /\ [Promise!Next]_<<History(db), SavedHistory>>
<1>1. ASSUME db' = db, backup' = backup PROVE Goal
  BY <1>1 DEF OrderedInv, SavedHistory
<1>2. ASSUME NEW d, Commit(d), Shows(d) PROVE Goal
  <2>1. db' = d /\ backup' = backup /\ Ordered(d) /\ Becomes(History(db), History(d))
    BY <1>2 DEF Commit, Shows, OrderedInv
  <2>2. OrderedInv'
    BY <2>1 DEF OrderedInv
  <2>3. QED
    BY <2>1, <2>2, CommitShows
<1>3. ASSUME NEW w \in Workers, BackupDatabase(w) PROVE Goal
  <2>1. db' = db /\ backup' = db
    BY <1>3 DEF BackupDatabase
  <2>2. db # Null
    BY Constants DEF IInv, Kept, Truth
  <2>3. SavedHistory' = History(db) /\ History(db)' = History(db)
    BY <2>1, <2>2 DEF SavedHistory
  <2>4. Promise!Save
    BY <2>3 DEF Promise!Save, SavedHistory
  <2>5. OrderedInv'
    BY <2>1 DEF OrderedInv
  <2>6. QED
    BY <2>4, <2>5 DEF Promise!Next
<1>4. ASSUME NEW w \in Workers, RestoreDatabase(w) PROVE Goal
  <2>1. backup # Null /\ db' = backup /\ backup' = backup
    BY <1>4 DEF RestoreDatabase
  <2>2. Ordered(backup) /\ Kept(backup, now)
    BY <2>1 DEF OrderedInv, IInv
  <2>3. SavedHistory = History(backup) /\ SavedHistory # Null
    BY <2>1, <2>2, HistoryType DEF SavedHistory
  <2>4. History(db)' = SavedHistory /\ SavedHistory' = SavedHistory
    BY <2>1, <2>3 DEF SavedHistory
  <2>5. Promise!Restore
    BY <2>3, <2>4 DEF Promise!Restore, SavedHistory
  <2>6. OrderedInv'
    BY <2>1, <2>2 DEF OrderedInv
  <2>7. QED
    BY <2>5, <2>6 DEF Promise!Next
<1>5. CASE UNCHANGED vars
  BY <1>1, <1>5 DEF vars
<1>6. CASE Next
  <2>1. ASSUME NEW a \in Actors, NEW d, Does(a, d) PROVE Goal
    BY <1>2, <2>1 DEF Does, Do
  <2>2. ASSUME NEW a \in Actors, NEW d, Finishes(a, d) PROVE Goal
    BY <1>2, <2>2 DEF Finishes, Write
  <2>3. ASSUME NEW a \in Actors, NEW o \in {"create_run", "rename", "duplicate"},
               NEW t \in Threads, Read(a, o, t)
        PROVE  Goal
    BY <1>1, <2>3 DEF Read
  <2>4. ASSUME NEW a \in Actors, RollBack(a) PROVE Goal
    BY <1>1, <2>4 DEF RollBack
  <2>5. QED
    BY <1>3, <1>4, <1>6, <2>1, <2>2, <2>3, <2>4, Steps
<1>7. QED
  BY <1>5, <1>6

(* Readers see what ThreadHistory promises, whichever transactions overlap: *)
(* runs in the order they were started, events in the order they were       *)
(* recorded, copies and deletions of whole threads, and a restored database *)
(* as it was saved (list_for_thread, list_for_run, duplicate_thread,        *)
(* delete_thread, backup and restore).                                      *)
THEOREM StoreKeepsItsPromise == Spec => KeepsItsPromise
<1>1. IInv /\ OrderedInv /\ [Next]_vars =>
        [Promise!Next]_<<History(db), IF backup = Null THEN Null ELSE History(backup)>>
  BY StepShows DEF SavedHistory
<1>2. IInv /\ OrderedInv /\ [Next]_vars => OrderedInv'
  BY StepShows
<1>3. QED
  BY <1>1, <1>2, InitShows, StoreInvariant, PTL DEF Spec, KeepsItsPromise, Promise!Spec

=============================================================================
