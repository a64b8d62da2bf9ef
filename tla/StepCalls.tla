----------------------------- MODULE StepCalls -----------------------------
(***************************************************************************)
(* How one factory run's steps are asked of the instance that runs them:   *)
(* the hub's worker and its record of attempts (src/kinby/hub/runs.py,     *)
(* hub/registry.py, hub/control.py), and the results the instance holds    *)
(* (src/kinby/core/held_results.py).                                       *)
(*                                                                         *)
(* Either process may stop at any point and start again, a connection may  *)
(* be lost before or after the instance takes a call, and a drained        *)
(* instance refuses.  The run is tried again until its retries are spent,  *)
(* then it stops for a human, who may retry it.                            *)
(*                                                                         *)
(* The instance takes calls in the order they were sent, and the needs-    *)
(* human report is made by the instance that runs the steps.  How a step   *)
(* waits for the instance's other work is the subject of module Turns.     *)
(***************************************************************************)
EXTENDS Integers, Sequences

CONSTANTS
    LastStep,             \* the run's steps are 1..LastStep
    Retries,              \* _retries: how often a failed step is tried again
    MaxUserRetries,       \* bound on the user's retries
    MaxHubRestarts,       \* bound on the hub's restarts
    MaxTornRestarts,      \* bound on those between two transactions of one settling
    MaxInstanceRestarts,  \* bound on the instance's restarts
    MaxLosses,            \* bound on the connections lost
    MayRemove,            \* whether the instance may be removed
    NoCall

ASSUME StepCallsBounds ==
    /\ LastStep \in Nat \ {0}
    /\ {Retries, MaxUserRetries, MaxHubRestarts, MaxTornRestarts,
        MaxInstanceRestarts, MaxLosses} \subseteq Nat
    /\ MayRemove \in BOOLEAN

Steps == 1..LastStep
Numbers == 1..((Retries + 1) * (MaxUserRetries + 1))
Attempts == [step : Steps, attempt : Numbers]
Results == {"clean", "failed"}
ReportCall == [step |-> 0, attempt |-> 0]   \* a call that is no attempt
ASSUME NoCallIsNone == NoCall \notin Attempts \cup {ReportCall}

VARIABLES
    \* The hub's registry, which survives its restarts.
    status, at,  \* the run's status and step
    ended,       \* how many attempts at each step have ended
    open,        \* whether the attempt after them is open
    recorded,    \* how each attempt ended
    spent,       \* counted_attempts: the failures at each step since the user's retry
    stops,       \* stop_generation
    reported,    \* whether the latest stop's needs-human report was delivered
    \* The hub's memory.
    queue,       \* the instance's queue: 0 for the run's step, or a stop to report
    worker,      \* what the worker is at: pc, what it took, and the step call it made
    later,       \* the reports waiting out their backoff
    \* The control connection.
    conn,        \* the worker's call: "none", "sent", "taken", "answered" or "lost"
    answer,      \* what it was answered
    pending,     \* calls the instance has yet to take, some of them given up
    \* The instance.
    held,        \* on disk: the run's latest call, and its result if it has one
    latest,      \* _running: the call whose task runs
    task,        \* the task of each attempt
    admitting,
    installed,
    \* History: what executing each attempt came to, and how often it began.
    execution, began,
    \* Bounded events.
    userRetries, hubRestarts, torn, instanceRestarts, losses

registry == <<status, at, ended, open, recorded, spent, stops, reported>>
memory   == <<queue, worker, later>>
line     == <<conn, answer, pending>>
instance == <<held, latest, task, admitting, installed, execution, began>>
counters == <<userRetries, hubRestarts, torn, instanceRestarts, losses>>
vars     == <<registry, memory, line, instance, counters>>

-----------------------------------------------------------------------------
Nothing == [call |-> NoCall, result |-> "none"]
Idle == [pc |-> "idle", took |-> 0, command |-> NoCall]
Asked == IF worker.took = 0 THEN worker.command ELSE ReportCall

Init ==
    /\ status = "queued" /\ at = 1
    /\ ended = [s \in Steps |-> 0]
    /\ open = FALSE
    /\ recorded = [k \in Attempts |-> "nothing"]
    /\ spent = [s \in Steps |-> 0]
    /\ stops = 0 /\ reported = FALSE
    /\ queue = <<0>> /\ worker = Idle /\ later = {}
    /\ conn = "none" /\ answer = "none" /\ pending = <<>>
    /\ held = Nothing /\ latest = NoCall
    /\ task = [k \in Attempts |-> "none"]
    /\ admitting = TRUE /\ installed = TRUE
    /\ execution = [k \in Attempts |-> "never"]
    /\ began = [k \in Attempts |-> 0]
    /\ userRetries = 0 /\ hubRestarts = 0 /\ torn = 0
    /\ instanceRestarts = 0 /\ losses = 0

-----------------------------------------------------------------------------
(* The run's moves.  Each is one stretch of the hub's event loop.          *)

\* begin_attempt: the next number at the step, counting the attempts that ended.
NextAttempt(s) == [step |-> s, attempt |-> ended[s] + 1]

\* _move to needs_human, and the report it queues behind what is queued already.
StopForHuman(queued) ==
    /\ status' = "needs_human"
    /\ stops' = stops + 1
    /\ reported' = FALSE
    /\ queue' = IF installed THEN Append(queued, stops + 1) ELSE queued

\* _enqueue with no instance to ask: an attempt fails at once, and the retries too.
RefuseAtOnce(s, n, failures, queued) ==
    LET last == n + Retries - failures + 1 IN
    /\ ended' = [ended EXCEPT ![s] = last]
    /\ recorded' = [k \in Attempts |->
                      IF k.step = s /\ k.attempt \in (n + 1)..last
                        THEN "refused" ELSE recorded[k]]
    /\ spent' = [spent EXCEPT ![s] = Retries + 1]
    /\ at' = s /\ open' = FALSE
    /\ StopForHuman(queued)

\* _enqueue of step s, n of whose attempts ended and failures of them failed.
Enqueue(s, n, failures, queued) ==
    IF installed
      THEN /\ status' = "queued" /\ at' = s /\ open' = FALSE
           /\ ended' = [ended EXCEPT ![s] = n]
           /\ spent' = [spent EXCEPT ![s] = failures]
           /\ queue' = Append(queued, 0)
           /\ UNCHANGED <<recorded, stops, reported>>
      ELSE RefuseAtOnce(s, n, failures, queued)

\* _deliver's next pass: an attempt is opened unless the call keeps the one it has.
Offer(command) ==
    /\ status' = "running" /\ open' = TRUE
    /\ worker' = [pc |-> "offering", took |-> 0, command |-> command]
    /\ UNCHANGED <<at, ended, recorded, spent, stops, reported, later>>

TakeStep ==
    /\ worker.pc = "idle" /\ queue # <<>> /\ Head(queue) = 0
    /\ Offer(NextAttempt(at))
    /\ queue' = Tail(queue)
    /\ UNCHANGED <<line, instance, counters>>

\* drop_attempt deletes the open attempt, so its number is the next one's again.
DropAttempt ==
    /\ status' = "queued" /\ open' = FALSE
    /\ UNCHANGED <<at, ended, recorded, spent, stops, reported>>

Backoff(command) == worker' = [worker EXCEPT !.pc = "backoff", !.command = command]
ReportLater ==
    /\ worker' = Idle
    /\ later' = later \cup {worker.took}

\* UndeliveredCall: no answering endpoint or probe, no socket, or a drain's refusal.
Undelivered ==
    \/ /\ worker.took = 0
       /\ DropAttempt /\ Backoff(NoCall)
       /\ UNCHANGED <<queue, later>>
    \/ /\ worker.took # 0
       /\ ReportLater
       /\ UNCHANGED <<registry, queue>>

Unreached ==
    /\ worker.pc = "offering"
    /\ Undelivered
    /\ UNCHANGED <<line, instance, counters>>

\* The probe answered and the frame left on a socket of its own.
Send ==
    /\ worker.pc = "offering" /\ installed
    /\ worker' = [worker EXCEPT !.pc = "waiting"]
    /\ conn' = "sent" /\ answer' = "none"
    /\ pending' = Append(pending, Asked)
    /\ UNCHANGED <<registry, queue, later, instance, counters>>

\* A mutant of Lost that offers a lost call as a fresh attempt.
LostCharged ==
    /\ worker.pc = "waiting" /\ conn = "lost"
    /\ conn' = "none"
    /\ \/ /\ worker.took = 0
          /\ Backoff(NoCall)
          /\ recorded' = [recorded EXCEPT ![worker.command] = "failed"]
          /\ ended' = [ended EXCEPT ![at] = @ + 1]
          /\ open' = FALSE /\ status' = "queued"
          /\ UNCHANGED <<at, spent, stops, reported, queue, later>>
       \/ /\ worker.took # 0
          /\ ReportLater
          /\ UNCHANGED <<registry, queue>>
    /\ UNCHANGED <<answer, pending, instance, counters>>

\* LostAnswer keeps the attempt open; a report was no attempt, and counts as failed.
Lost ==
    /\ worker.pc = "waiting" /\ conn = "lost"
    /\ conn' = "none"
    /\ \/ /\ worker.took = 0
          /\ Backoff(worker.command)
          /\ UNCHANGED <<queue, later>>
       \/ /\ worker.took # 0
          /\ ReportLater
          /\ UNCHANGED queue
    /\ UNCHANGED <<registry, answer, pending, instance, counters>>

Refused ==
    /\ worker.pc = "waiting" /\ conn = "answered" /\ answer = "draining"
    /\ conn' = "none"
    /\ Undelivered
    /\ UNCHANGED <<answer, pending, instance, counters>>

\* A mutant of Resend that leaves a lost call to whoever asks next.
ResendNothing ==
    /\ worker.pc = "backoff"
    /\ IF worker.command = NoCall
         THEN Offer(NextAttempt(at)) /\ UNCHANGED queue
         ELSE worker' = Idle /\ UNCHANGED <<registry, queue, later>>
    /\ UNCHANGED <<line, instance, counters>>

\* The backoff is over.  A removed instance gets the call no more.
Resend ==
    /\ worker.pc = "backoff"
    /\ IF installed
         THEN /\ Offer(IF worker.command = NoCall THEN NextAttempt(at) ELSE worker.command)
              /\ UNCHANGED queue
         ELSE /\ worker' = Idle
              /\ Enqueue(at, ended[at], spent[at], queue)
              /\ UNCHANGED later
    /\ UNCHANGED <<line, instance, counters>>

\* end_attempt, the first transaction of _settle.
EndAttempt ==
    /\ worker.pc = "waiting" /\ worker.took = 0
    /\ conn = "answered" /\ answer # "draining"
    /\ conn' = "none"
    /\ recorded' = [recorded EXCEPT ![worker.command] =
                      IF answer \in Results THEN answer ELSE "failed"]
    /\ ended' = [ended EXCEPT ![at] = @ + 1]
    /\ open' = FALSE
    /\ worker' = [worker EXCEPT !.pc = "settling"]
    /\ UNCHANGED <<status, at, spent, stops, reported, queue, later, answer, pending,
                   instance, counters>>

\* move_run, and what the move queues.  Nothing else of the hub runs in between.
Settle ==
    /\ worker.pc = "settling"
    /\ worker' = Idle
    /\ \/ /\ recorded[worker.command] = "clean" /\ at = LastStep
          /\ status' = "done"
          /\ UNCHANGED <<at, ended, open, recorded, spent, stops, reported, queue>>
       \/ /\ recorded[worker.command] = "clean" /\ at < LastStep
          /\ Enqueue(at + 1, ended[at + 1], spent[at + 1], queue)
       \/ /\ recorded[worker.command] # "clean" /\ spent[at] < Retries
          /\ Enqueue(at, ended[at], spent[at] + 1, queue)
       \/ /\ recorded[worker.command] # "clean" /\ spent[at] = Retries
          /\ spent' = [spent EXCEPT ![at] = @ + 1]
          /\ StopForHuman(queue)
          /\ UNCHANGED <<at, ended, open, recorded>>
    /\ UNCHANGED <<later, line, instance, counters>>

\* retry: the step the run stopped at, its retries counted afresh.
UserRetry ==
    /\ status = "needs_human" /\ worker.pc # "settling"
    /\ userRetries < MaxUserRetries
    /\ userRetries' = userRetries + 1
    /\ Enqueue(at, ended[at], 0, queue)
    /\ UNCHANGED <<worker, later, line, instance, hubRestarts, torn, instanceRestarts, losses>>

-----------------------------------------------------------------------------
(* The needs-human report, which is no attempt (_send_report).             *)

Stale(stop) == status # "needs_human" \/ stops # stop

TakeReport ==
    /\ worker.pc = "idle" /\ queue # <<>> /\ Head(queue) # 0
    /\ queue' = Tail(queue)
    /\ worker' = IF Stale(Head(queue)) THEN Idle
                   ELSE [pc |-> "offering", took |-> Head(queue), command |-> NoCall]
    /\ UNCHANGED <<registry, later, line, instance, counters>>

\* mark_reported marks the stop the report was for, and no later one.
Reported ==
    /\ worker.pc = "waiting" /\ worker.took # 0 /\ conn = "answered" /\ answer # "draining"
    /\ conn' = "none"
    /\ IF answer = "clean"
         THEN /\ reported' = (reported \/ stops = worker.took)
              /\ worker' = Idle
              /\ UNCHANGED later
         ELSE ReportLater /\ UNCHANGED reported
    /\ UNCHANGED <<status, at, ended, open, recorded, spent, stops, queue, answer, pending,
                   instance, counters>>

\* The report's backoff is over, and _put_report queues it again.
ReportAgain(stop) ==
    /\ stop \in later /\ worker.pc # "settling"
    /\ later' = later \ {stop}
    /\ queue' = IF installed THEN Append(queue, stop) ELSE queue
    /\ UNCHANGED <<registry, worker, line, instance, counters>>

-----------------------------------------------------------------------------
(* The instance (HeldResults.answer and its task).                         *)

\* The oldest call not yet taken; the worker still listens only for its own.
Listening == conn = "sent" /\ Len(pending) = 1
Answered(result) == conn' = "answered" /\ answer' = result
Take(call) ==
    /\ pending # <<>> /\ Head(pending) = call
    /\ pending' = Tail(pending)

TakeReportCall ==
    /\ Take(ReportCall)
    /\ held' = Nothing
    /\ conn' = IF Listening THEN "taken" ELSE conn
    /\ UNCHANGED <<registry, memory, answer, latest, task, admitting, installed, execution,
                   began, counters>>

\* The call's own task still runs, and the call waits for it.
JoinTask(k) ==
    /\ Take(k) /\ latest = k
    /\ conn' = IF Listening THEN "taken" ELSE conn
    /\ UNCHANGED <<registry, memory, answer, instance, counters>>

\* The result held, or word of the restart that the call's task did not survive.
AnswerHeld(k) ==
    /\ Take(k) /\ latest # k /\ held.call = k
    /\ IF Listening
         THEN Answered(IF held.result = "none" THEN "restarted" ELSE held.result)
         ELSE UNCHANGED <<conn, answer>>
    /\ UNCHANGED <<registry, memory, instance, counters>>

\* The start is on disk before the task exists.
StartTask(k) ==
    /\ Take(k) /\ latest # k /\ held.call # k
    /\ held' = [call |-> k, result |-> "none"]
    /\ latest' = k
    /\ task' = [task EXCEPT ![k] = "waiting"]
    /\ conn' = IF Listening THEN "taken" ELSE conn
    /\ UNCHANGED <<registry, memory, answer, admitting, installed, execution, began, counters>>

\* The step has the instance to itself (Turns.step).
BeginStep(k) ==
    /\ task[k] = "waiting" /\ admitting
    /\ task' = [task EXCEPT ![k] = "working"]
    /\ execution' = [execution EXCEPT ![k] = "running"]
    /\ began' = [began EXCEPT ![k] = @ + 1]
    /\ UNCHANGED <<registry, memory, line, held, latest, admitting, installed, counters>>

\* What _run does at its end, for a task no later call of the run replaced.
TaskOver(k, result) ==
    /\ task' = [task EXCEPT ![k] = "none"]
    /\ latest' = IF latest = k THEN NoCall ELSE latest
    /\ held' = IF latest # k THEN held
                 ELSE IF result \in Results THEN [call |-> k, result |-> result] ELSE Nothing
    /\ IF conn = "taken" /\ Asked = k THEN Answered(result) ELSE UNCHANGED <<conn, answer>>
    /\ UNCHANGED <<registry, memory, pending, admitting, installed, counters>>

StepEnds(k, r) ==
    /\ task[k] = "working" /\ r \in Results
    /\ TaskOver(k, r)
    /\ execution' = [execution EXCEPT ![k] = r]
    /\ UNCHANGED began

\* A step, its hook or its log raised: the call holds nothing.
StepRaises(k) ==
    /\ task[k] = "working"
    /\ TaskOver(k, "error")
    /\ execution' = [execution EXCEPT ![k] = "raised"]
    /\ UNCHANGED began

\* A draining instance takes no step, and one that waited for its turn is refused.
StepRefused(k) ==
    /\ task[k] = "waiting" /\ ~admitting
    /\ TaskOver(k, "draining")
    /\ UNCHANGED <<execution, began>>

\* The report's tool ran, failed, or was refused.
ReportEnds ==
    /\ conn = "taken" /\ Asked = ReportCall
    /\ \/ admitting /\ \E r \in Results : Answered(r)
       \/ ~admitting /\ Answered("draining")
    /\ UNCHANGED <<registry, memory, pending, instance, counters>>

-----------------------------------------------------------------------------
(* What goes wrong.                                                        *)

\* The connection is lost, and with it a frame that did not arrive.
LoseConnection ==
    /\ conn \in {"sent", "taken", "answered"} /\ losses < MaxLosses
    /\ losses' = losses + 1
    /\ conn' = "lost"
    /\ \/ UNCHANGED pending
       \/ /\ conn = "sent"
          /\ pending' = SubSeq(pending, 1, Len(pending) - 1)
    /\ UNCHANGED <<registry, memory, answer, instance, userRetries, hubRestarts, torn,
                   instanceRestarts>>

Drain ==
    /\ admitting /\ instanceRestarts < MaxInstanceRestarts
    /\ admitting' = FALSE
    /\ UNCHANGED <<registry, memory, line, held, latest, task, installed, execution, began,
                   counters>>

\* The instance stops: its tasks die, and every connection to it is lost.
StopInstance ==
    /\ latest' = NoCall
    /\ task' = [k \in Attempts |-> "none"]
    /\ execution' = [k \in Attempts |->
                       IF task[k] = "working" THEN "killed" ELSE execution[k]]
    /\ pending' = <<>>
    /\ conn' = IF conn = "none" THEN "none" ELSE "lost"
    /\ UNCHANGED <<answer, held, began>>

RestartInstance ==
    /\ installed /\ instanceRestarts < MaxInstanceRestarts
    /\ instanceRestarts' = instanceRestarts + 1
    /\ StopInstance
    /\ admitting' = TRUE
    /\ UNCHANGED <<registry, memory, installed, userRetries, hubRestarts, torn, losses>>

\* Removed from the hub: no longer active, and its container stopped.
RemoveInstance ==
    /\ MayRemove /\ installed /\ worker.pc # "settling"
    /\ installed' = FALSE
    /\ StopInstance
    /\ UNCHANGED <<registry, memory, admitting, counters>>

\* A mutant of RestartHub that only looks for queued runs.
RestartHubForgetsOpen ==
    /\ hubRestarts < MaxHubRestarts /\ worker.pc # "settling"
    /\ hubRestarts' = hubRestarts + 1
    /\ later' = {} /\ worker' = Idle /\ conn' = "none"
    /\ IF status = "queued"
         THEN Enqueue(at, ended[at], spent[at], <<>>)
         ELSE queue' = (IF status = "needs_human" /\ ~reported /\ installed
                          THEN <<stops>> ELSE <<>>) /\ UNCHANGED registry
    /\ UNCHANGED <<answer, pending, instance, userRetries, torn, instanceRestarts, losses>>

\* The hub stops and FactoryRuns.resume picks its runs up: an open attempt is
\* dropped, a queued step and an undelivered report are queued again.  A stop
\* between the two transactions of a settling leaves neither.
RestartHub ==
    /\ hubRestarts < MaxHubRestarts
    /\ hubRestarts' = hubRestarts + 1
    /\ torn' = IF worker.pc = "settling" THEN torn + 1 ELSE torn
    /\ torn' <= MaxTornRestarts
    /\ later' = {} /\ worker' = Idle /\ conn' = "none"
    /\ \/ /\ status = "queued" \/ (status = "running" /\ open)
          /\ Enqueue(at, ended[at], spent[at], <<>>)
       \/ /\ status = "needs_human" /\ ~reported /\ installed
          /\ queue' = <<stops>>
          /\ UNCHANGED registry
       \/ /\ \/ status = "done" \/ (status = "running" /\ ~open)
             \/ status = "needs_human" /\ (reported \/ ~installed)
          /\ queue' = <<>>
          /\ UNCHANGED registry
    /\ UNCHANGED <<answer, pending, instance, userRetries, instanceRestarts, losses>>

-----------------------------------------------------------------------------
\* What the hub and the instance do by themselves.
LeftAlone ==
    \/ TakeStep \/ Unreached \/ Send \/ Lost \/ Refused \/ Resend \/ EndAttempt \/ Settle
    \/ TakeReport \/ Reported \/ \E stop \in later : ReportAgain(stop)
    \/ TakeReportCall \/ ReportEnds
    \/ \E k \in Attempts : \/ JoinTask(k) \/ AnswerHeld(k) \/ StartTask(k)
                           \/ BeginStep(k) \/ StepRaises(k) \/ StepRefused(k)
    \/ \E k \in Attempts, r \in Results : StepEnds(k, r)
    \/ LoseConnection \/ Drain \/ RestartInstance \/ RemoveInstance \/ RestartHub

Next == LeftAlone \/ UserRetry

Spec == Init /\ [][Next]_vars

\* The hub's worker goes on, and the waits it makes end; the instance takes the calls
\* that reach it; a call offered again and again is sent at last; a step has its turn
\* and ends; and a drained instance is started again.
Fairness ==
    /\ WF_vars(TakeStep \/ TakeReport)
    /\ WF_vars(Lost \/ Refused \/ Resend \/ EndAttempt \/ Reported)
    /\ WF_vars(Settle)
    /\ WF_vars(Send \/ Unreached) /\ SF_vars(Send)
    /\ WF_vars(TakeReportCall \/ \E k \in Attempts : JoinTask(k) \/ AnswerHeld(k) \/ StartTask(k))
    /\ WF_vars(ReportEnds)
    /\ SF_vars(\E k \in Attempts : BeginStep(k))
    /\ WF_vars(\E k \in Attempts : StepRefused(k) \/ StepRaises(k) \/
                 \E r \in Results : StepEnds(k, r))
    /\ WF_vars(RestartInstance /\ ~admitting)

FairSpec == Init /\ [][LeftAlone]_vars /\ Fairness

-----------------------------------------------------------------------------
(* Properties.                                                             *)

\* Every variable keeps the type of what the hub and the instance keep in it.
TypeOK ==
    /\ status \in {"queued", "running", "needs_human", "done"}
    /\ at \in Steps
    /\ ended \in [Steps -> 0..((Retries + 1) * (MaxUserRetries + 1))]
    /\ open \in BOOLEAN
    /\ recorded \in [Attempts -> {"nothing", "clean", "failed", "refused"}]
    /\ spent \in [Steps -> 0..Retries + 1]
    /\ stops \in 0..MaxUserRetries + 1
    /\ reported \in BOOLEAN
    /\ queue \in Seq(0..stops)
    /\ worker \in [pc : {"idle", "offering", "waiting", "settling", "backoff"},
                   took : 0..stops, command : Attempts \cup {NoCall}]
    /\ later \in SUBSET (1..stops)
    /\ conn \in {"none", "sent", "taken", "answered", "lost"}
    /\ answer \in Results \cup {"none", "restarted", "error", "draining"}
    /\ pending \in Seq(Attempts \cup {ReportCall})
    /\ held \in [call : Attempts \cup {NoCall}, result : Results \cup {"none"}]
    /\ latest \in Attempts \cup {NoCall}
    /\ task \in [Attempts -> {"none", "waiting", "working"}]
    /\ admitting \in BOOLEAN /\ installed \in BOOLEAN
    /\ execution \in [Attempts -> Results \cup {"never", "running", "raised", "killed"}]
    /\ began \in [Attempts -> 0..MaxInstanceRestarts + MaxLosses + MaxHubRestarts + 1]
    /\ userRetries \in 0..MaxUserRetries
    /\ hubRestarts \in 0..MaxHubRestarts
    /\ torn \in 0..MaxTornRestarts
    /\ instanceRestarts \in 0..MaxInstanceRestarts
    /\ losses \in 0..MaxLosses

\* Two executions of the run never share the instance: no call starts beside a
\* task of an earlier one.
OneSession == \A k, l \in Attempts : task[k] # "none" /\ task[l] # "none" => k = l

\* A finished execution the hub has no answer of yet is still held for it.
HeldForTheHub ==
    \A k \in Attempts : execution[k] \in Results /\ recorded[k] = "nothing" =>
        held = [call |-> k, result |-> execution[k]]

\* A run that is queued or running has one step queued or offered, and no other.
OneDriver ==
    LET queued == {i \in DOMAIN queue : queue[i] = 0}
        offered == worker.pc # "idle" /\ worker.took = 0 IN
    IF status \in {"queued", "running"}
      THEN (offered /\ queued = {}) \/ (~offered /\ \E i \in queued : queued = {i})
      ELSE queued = {} /\ ~offered

\* The report of the stop the run is at is delivered, or still owed in exactly one
\* place: queued, offered, or waiting out its backoff ("sent until they land").
ReportOwed ==
    status = "needs_human" /\ installed =>
        LET queued == {i \in DOMAIN queue : queue[i] = stops}
            offered == worker.took = stops
            waiting == stops \in later IN
        IF reported THEN queued = {} /\ ~offered /\ ~waiting
          ELSE \/ ~offered /\ ~waiting /\ \E i \in queued : queued = {i}
               \/ queued = {} /\ offered # waiting

(* The worker, the hub's record and what the instance holds stay in step: a run at work has one  *)
(* driver, a finished execution is held until the hub has its answer, two executions never share *)
(* the instance, and a stop's report is owed in one place (hub/runs.py, core/held_results.py).   *)
StepCallsInv == TypeOK /\ OneSession /\ HeldForTheHub /\ OneDriver /\ ReportOwed

\* Outside the worker's hands, the run is not left running: a restart of the hub
\* picks it up wherever it left it.
NeverStranded == status = "running" => worker.pc # "idle"

\* The whole of it, with no word of queues, sockets or restarts: an attempt executes
\* once and is recorded as what that execution came to (ADR 0102, ADR 0107).
Once == INSTANCE StepOnce WITH execution <- execution, recorded <- recorded
ImplementsStepOnce == Once!Spec

\* A result the instance holds reaches the hub, whatever was lost on its way.
HeldIsRecorded ==
    \A k \in Attempts : execution[k] \in Results ~> recorded[k] # "nothing"

\* A run that was queued comes to a stop: it is done, or it needs a human.
RunStops == status \in {"queued", "running"} ~> status \in {"done", "needs_human"}

\* A step call comes to its end, at the instance, in the hub's record and for its run.
StepsEnd == HeldIsRecorded /\ RunStops
=============================================================================
