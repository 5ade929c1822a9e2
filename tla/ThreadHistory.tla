---------------------------- MODULE ThreadHistory ----------------------------
(***************************************************************************)
(* What the session store promises its readers (list_runs, list_messages,  *)
(* list_run_events): every thread is a sequence of runs in the order they  *)
(* were started, every run carries its events in the order they were       *)
(* recorded.  Nothing is said of rows, ids, clocks or caches.              *)
(*                                                                         *)
(* A history only grows, one run or one event at a time, and the status of *)
(* a run moves by the methods of the run record.  A copy shows the whole   *)
(* history of its source at one instant, a deletion removes all of it, and *)
(* a restored database shows every thread as it was when it was saved.     *)
(***************************************************************************)
EXTENDS RunRecord

CONSTANTS Threads, Null

VARIABLES hist,    \* thread |-> its runs, Null when there is no such thread
          saved    \* the history in the backup file, Null when there is none

Exists(t) == hist[t] # Null

Init == hist = [t \in Threads |-> Null] /\ saved = Null

Open(t) == ~Exists(t) /\ hist' = [hist EXCEPT ![t] = << >>]

Start(t) == Exists(t) /\ hist' = [hist EXCEPT ![t] = Append(@, NewRecord)]

Note(t, i) == \E e \in RunEvent : hist' = [hist EXCEPT ![t][i] = AppendEvent(@, e)]

Move(t, i) == \E r \in Methods(hist[t][i]) : hist' = [hist EXCEPT ![t][i] = r]

Copy(t, u) == Exists(t) /\ ~Exists(u) /\ hist' = [hist EXCEPT ![u] = hist[t]]

Drop(t) == Exists(t) /\ hist' = [hist EXCEPT ![t] = Null]

Change ==
  \/ \E t \in Threads :
       \/ Open(t) \/ Start(t) \/ Drop(t)
       \/ Exists(t) /\ \E i \in DOMAIN hist[t] : Note(t, i) \/ Move(t, i)
  \/ \E t, u \in Threads : Copy(t, u)

Save == saved' = hist /\ UNCHANGED hist

Restore == saved # Null /\ hist' = saved /\ UNCHANGED saved

Next == (Change /\ UNCHANGED saved) \/ Save \/ Restore

Spec == Init /\ [][Next]_<<hist, saved>>
=============================================================================
