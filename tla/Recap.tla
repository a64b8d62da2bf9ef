------------------------------- MODULE Recap --------------------------------
(***************************************************************************)
(* The recap (memory/recap.py): each turn that closes and each stop of a   *)
(* factory run is queued, one worker distils it into an episode of the     *)
(* graph, and a marker in the log says that it was done.  A start of the   *)
(* process queues what has no marker.                                      *)
(*                                                                         *)
(* What a model writes is a choice: whether an episode is worth keeping,   *)
(* and whether the call of the model fails.                                *)
(***************************************************************************)
EXTENDS Naturals, Sequences, FiniteSets

CONSTANTS
    Work,        \* turns and run stops to recap
    Stops,       \* those that are a factory run's stop
    MaxTold,     \* bound: times the hub tells a stop
    MaxRestarts, MaxFailures \* bounds

VARIABLES
    ended,      \* the work that ended, in order: the closing events and run.stopped events
    marks,      \* how many memory.recapped events each piece of work has
    queue,      \* RecapWriter._queue
    worker,     \* the request RecapWriter._work is at, and how far it got
    written,    \* the files of episodes in the graph
    told, restarts,
    failed      \* requests whose recap failed since the process started

recapVars == <<ended, marks, queue, worker, written, told, restarts, failed>>

NoWork == [w |-> "none", phase |-> "idle"]

Ended == {ended[i] : i \in DOMAIN ended}
Recapped == {w \in Work : marks[w] > 0}

Init ==
    /\ ended = <<>> /\ marks = [w \in Work |-> 0]
    /\ queue = <<>> /\ worker = NoWork
    /\ written = {}
    /\ told = 0 /\ restarts = 0 /\ failed = {}

-----------------------------------------------------------------------------

\* A turn appends its closing event, and after_turn schedules its recap.
Close(w) ==
    /\ w \notin Stops /\ w \notin Ended
    /\ ended' = Append(ended, w)
    /\ queue' = Append(queue, w)
    /\ UNCHANGED <<marks, worker, written, told, restarts, failed>>

\* record_run_stop: the stop is appended and scheduled once, however often the hub tells it.
Tell(w) ==
    /\ w \in Stops /\ told < MaxTold
    /\ told' = told + 1
    /\ IF w \in Ended THEN UNCHANGED <<ended, queue>>
       ELSE ended' = Append(ended, w) /\ queue' = Append(queue, w)
    /\ UNCHANGED <<marks, worker, written, restarts, failed>>

\* _work takes the next request; _is_recapped drops one that has its marker.
Take ==
    /\ worker = NoWork /\ queue # <<>>
    /\ queue' = Tail(queue)
    /\ worker' = IF Head(queue) \in Recapped THEN NoWork
                 ELSE [w |-> Head(queue), phase |-> "draft"]
    /\ UNCHANGED <<ended, marks, written, told, restarts, failed>>

\* _write_turn and _write_run: the draft fails and is warned about, is not worth an episode (a
\* stop's always is), or is kept.
Draft ==
    /\ worker.phase = "draft"
    /\ \/ /\ Cardinality(failed) < MaxFailures
          /\ worker' = NoWork /\ failed' = failed \union {worker.w}
       \/ /\ worker.w \notin Stops
          /\ worker' = [worker EXCEPT !.phase = "mark"] /\ UNCHANGED failed
       \/ /\ worker' = [worker EXCEPT !.phase = "remember"] /\ UNCHANGED failed
    /\ UNCHANGED <<ended, marks, queue, written, told, restarts>>

\* new_node_id: a new node for a turn, always the same one for a run's stop.
Node(w) ==
    [w |-> w, n |-> IF w \in Stops THEN 1
                    ELSE 1 + Cardinality({node \in written : node.w = w})]

\* _finish writes the episode's node...
Remember ==
    /\ worker.phase = "remember"
    /\ written' = written \union {Node(worker.w)}
    /\ worker' = [worker EXCEPT !.phase = "mark"]
    /\ UNCHANGED <<ended, marks, queue, told, restarts, failed>>

\* ...and then the marker.
Mark ==
    /\ worker.phase = "mark"
    /\ marks' = [marks EXCEPT ![worker.w] = @ + 1]
    /\ worker' = NoWork
    /\ UNCHANGED <<ended, queue, written, told, restarts, failed>>

\* A mutant of Unrecapped that ends at the newest work that has its marker.
UnrecappedTail ==
    LET recapped == {0} \union {i \in DOMAIN ended : ended[i] \in Recapped}
        newest == CHOOSE i \in recapped : \A j \in recapped : j <= i
    IN {[k \in 1 .. Len(ended) - newest |-> newest + k]}

\* _unrecapped: the places in the log of the ended work that has no marker, in the order it ended.
Unrecapped ==
    LET owed == {i \in DOMAIN ended : ended[i] \notin Recapped}
    IN {place \in [1 .. Cardinality(owed) -> owed] :
          /\ \A i \in owed : \E k \in DOMAIN place : place[k] = i
          /\ \A k, l \in DOMAIN place : k < l => place[k] < place[l]}

\* The process stops, and boot_instance catches up.
Restart ==
    /\ restarts < MaxRestarts
    /\ restarts' = restarts + 1
    /\ \E place \in Unrecapped : queue' = [k \in DOMAIN place |-> ended[place[k]]]
    /\ worker' = NoWork
    /\ failed' = {}
    /\ UNCHANGED <<ended, marks, written, told>>

Next ==
    \/ \E w \in Work : Close(w) \/ Tell(w)
    \/ Take \/ Draft \/ Remember \/ Mark \/ Restart

Spec == Init /\ [][Next]_recapVars

-----------------------------------------------------------------------------

(* A run's stop leaves one episode however often its recap is tried again (recap.py:499: "under  *)
(* an id a retried recap of the stop writes again"), and only a stop of the process between an   *)
(* episode and its marker gives a turn a second one.                                             *)
OneEpisode ==
    /\ \A w \in Stops : Cardinality({node \in written : node.w = w}) <= 1
    /\ Cardinality(written) <= Cardinality(Ended) + restarts

(* No work is marked twice, and one without its marker is in the queue, in the worker's hands,   *)
(* or failed and waits for the next start: no order of ends, repeats, failures and restarts      *)
(* forgets one (recap.py: catch_up, _is_recapped, _work; dispatcher.py: record_run_stop), and    *)
(* none is in the graph more often than OneEpisode says.                                         *)
RecapOwed ==
    /\ \A w \in Work : marks[w] <= 1
    /\ \A w \in Ended \ Recapped :
          worker.w = w \/ w \in failed \/ \E i \in DOMAIN queue : queue[i] = w
    /\ OneEpisode

=============================================================================
