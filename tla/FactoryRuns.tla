---------------------------- MODULE FactoryRuns ----------------------------
(***************************************************************************)
(* The factory runs of one hub (src/kinby/hub/runs.py and the runs of      *)
(* src/kinby/hub/registry.py): how a run moves through its factory's       *)
(* steps, what it parks on, and the calls each of its stops owes.          *)
(*                                                                         *)
(* The registry survives a restart of the hub; the queues, their workers,  *)
(* the timers and the matched waits do not.  FactoryRuns runs on one event *)
(* loop, so a handler is atomic between its awaits, but each of its        *)
(* registry writes commits alone: while "moving" names a run, _advance has *)
(* queued it and _enqueue has not placed it yet, and only a crash can come *)
(* between.  StepCalls models what happens inside one step call.           *)
(***************************************************************************)
EXTENDS Integers, Sequences

CONSTANTS
    Runs,           \* the runs a factory is handed
    LastStep,       \* the number of the factory's last step
    Factories,      \* the factory files considered, each a record of Factory
    Instances,      \* the factory's instances
    Home,           \* the instance that hands the runs in
    Caller,         \* the instance that makes the needs_human and ended calls
    MaxUserMoves,   \* bound on retries, send-backs, approvals and cancels
    MaxRestarts,    \* bound on restarts of the hub between two handlers
    MaxTorn,        \* bound on restarts of the hub while a handler moves a run
    MaxLimited,     \* bound on steps a plan window cuts short
    MaxSignals,     \* bound on signals an instance accepts
    MaxRefused,     \* bound on steps that cannot start
    MaxUnsent,      \* bound on calls that do not get through
    MaxTroubles,    \* bound on all of these together
    NoRun, NoWork

Steps == 1 .. LastStep
NoStep == 0                     \* a finished run is at no step
OrNone == {0} \cup Steps
Timers == {"none", "quiet", "deadline"}

\* What a queue holds: the calls of a run's stops, by generation, and steps.
Calls == [kind : {"stop", "needs_human", "ended"}, run : Runs, n : Nat]
StepsOf(r) == [kind : {"step"}, run : {r}, n : Steps]
Entries == Calls \cup UNION {StepsOf(r) : r \in Runs}

\* What a factory file declares that the runs tell apart: each step's kind and
\* instance, where its "back" outcome and its failures are sent (0: nowhere),
\* how often along one edge, how often it is retried, and what ends a wait.
Factory == [kind : [Steps -> {"work", "wait", "approve"}], role : [Steps -> Instances],
            back : [Steps -> OrNone], failed : [Steps -> OrNone], max : Nat,
            retries : [Steps -> Nat], timer : [Steps -> Timers]]

\* factories/check.py: work is only ever sent back to an earlier step, and a
\* step whose failures are sent back declares no retry.
Checked(f) ==
    /\ f \in Factory /\ f.max >= 1
    /\ \A s \in Steps : f.back[s] < s /\ f.failed[s] < s
    /\ \A s \in Steps : f.failed[s] # 0 => f.retries[s] = 0

ASSUME CheckedFactories == \A f \in Factories : Checked(f)
ASSUME Roles == Home \in Instances /\ Caller \in Instances /\ LastStep \in Nat \ {0}
ASSUME Nobody == NoRun \notin Runs /\ NoWork \notin Entries
ASSUME Bounds ==
    {MaxUserMoves, MaxRestarts, MaxTorn, MaxLimited, MaxSignals, MaxRefused, MaxUnsent,
     MaxTroubles} \subseteq Nat

VARIABLES
    factory,    \* the factory file
    \* The registry.
    status, step,
    open,       \* whether the run has an attempt that has not ended
    failures,   \* failed attempts of each step since the user's restart
    sent,       \* attempts that took each send-back edge since the user's restart
    wakes,      \* whether wakes_at is set
    gen,        \* stop_generation
    reported,   \* whether the needs_human call of the latest stop was made
    owes,       \* ended_call
    told,       \* the stops, by run and generation, the handing-in instance took
    \* The hub's memory.
    queue,      \* _queues
    work,       \* what each instance's worker is sending
    paused,     \* the workers that back off before they offer their step again
    later,      \* the calls that back off before they are queued again
    armed,      \* _deadlines: how each parked run's timer ends its park
    strays,     \* the timers still running that _deadlines no longer names
    woken,      \* _woken
    moving,     \* the run _enqueue is about to place
    resuming,   \* what resume has still to queue
    used        \* how much of each bound is used up

registry == <<status, step, open, failures, sent, wakes, gen, reported, owes, told>>
timers   == <<armed, strays>>
workers  == <<work, paused, later>>
vars     == <<factory, registry, queue, workers, timers, woken, moving, resuming, used>>

-----------------------------------------------------------------------------
Ends  == {"done", "cancelled"}
Stops == Ends \cup {"needs_human"}
Unfinished == {"queued", "running", "parked", "needs_human"}
Edges == Steps \X Steps
Waits == {s \in Steps : factory.kind[s] = "wait"}

StepEntry(r)    == [kind |-> "step", run |-> r, n |-> step[r]]
Call(k, r, g)   == [kind |-> k, run |-> r, n |-> g]
Receiver(call) == IF call.kind = "stop" THEN Home ELSE Caller

NotResuming == [on |-> FALSE, todo |-> {}, owed |-> {}]
AtRest == moving = NoRun /\ ~resuming.on /\ resuming.owed = {}

Bounded == {"user", "hub", "torn", "limited", "signal", "refused", "unsent"}
Troubles == used["user"] + used["hub"] + used["torn"] + used["limited"] + used["signal"]
            + used["refused"] + used["unsent"]
Can(what, bound) == used[what] < bound /\ Troubles < MaxTroubles
Uses(what) == used' = [used EXCEPT ![what] = @ + 1]

Init ==
    /\ factory \in Factories
    /\ status = [r \in Runs |-> "new"] /\ step = [r \in Runs |-> NoStep]
    /\ open = [r \in Runs |-> FALSE]
    /\ failures = [r \in Runs |-> [s \in Steps |-> 0]]
    /\ sent = [r \in Runs |-> [e \in Edges |-> 0]]
    /\ wakes = [r \in Runs |-> FALSE]
    /\ gen = [r \in Runs |-> 0] /\ reported = [r \in Runs |-> FALSE]
    /\ owes = [r \in Runs |-> FALSE] /\ told = {}
    /\ queue = [i \in Instances |-> <<>>] /\ work = [i \in Instances |-> NoWork]
    /\ paused = {} /\ later = {}
    /\ armed = [r \in Runs |-> "none"] /\ strays = [r \in Runs |-> {}]
    /\ woken = [r \in Runs |-> {}]
    /\ moving = NoRun /\ resuming = NotResuming
    /\ used = [w \in Bounded |-> 0]

-----------------------------------------------------------------------------
(* Where a result sends a run.  A result is what _settled tells apart: the *)
(* clean outcomes, a failure, an ending that is never tried again and one  *)
(* a plan window cut short.                                                *)

Results == {"next", "done", "stop", "back", "failed", "never", "limited"}

Edge(s, result) ==
    CASE result = "back"   -> factory.back[s]
      [] result = "failed" -> factory.failed[s]
      [] OTHER             -> 0

To(st, s) == [status |-> st, step |-> s]

\* _settled, for a result that is not limited.
Settled(r, s, result) ==
    LET back == Edge(s, result)
    IN  CASE back # 0 /\ sent[r][<<s, back>>] < factory.max -> To("queued", back)
          [] result = "stop"                                -> To("cancelled", s)
          [] result = "next" /\ s < LastStep                -> To("queued", s + 1)
          [] result = "done" \/ (result = "next" /\ s = LastStep) -> To("done", NoStep)
          [] result = "failed" /\ back = 0 /\ failures[r][s] < factory.retries[s]
                                                            -> To("queued", s)
          [] OTHER                                          -> To("needs_human", s)

\* A mutant of Counted that forgets the attempts that sent the work back.
CountedFailures(r, s, result) ==
    /\ failures' = IF Edge(s, result) = 0 /\ result \in {"failed", "never"}
                   THEN [failures EXCEPT ![r][s] = @ + 1] ELSE failures
    /\ UNCHANGED sent

\* _tally counts the attempt that ends: along the edge it names, or as a failure.
Counted(r, s, result) ==
    LET back == Edge(s, result)
    IN  /\ sent' = IF back = 0 THEN sent ELSE [sent EXCEPT ![r][<<s, back>>] = @ + 1]
        /\ failures' = IF back = 0 /\ result \in {"failed", "never"}
                       THEN [failures EXCEPT ![r][s] = @ + 1] ELSE failures

\* _put_stop and _put_report, on the queues q.
Queued(q, call) == [q EXCEPT ![Receiver(call)] = Append(@, call)]

\* The call besides the telling that a stop makes.
StopCall(r, st, g) == Call(IF st \in Ends THEN "ended" ELSE "needs_human", r, g)

\* move_run in _move, and the calls it owes: the telling first.
Move(r, to) ==
    /\ status' = [status EXCEPT ![r] = to.status]
    /\ step' = [step EXCEPT ![r] = to.step]
    /\ wakes' = [wakes EXCEPT ![r] = FALSE]
    /\ owes' = [owes EXCEPT ![r] = to.status \in Ends]
    /\ moving' = IF to.status = "queued" THEN r ELSE NoRun
    /\ IF to.status \in Stops
       THEN /\ gen' = [gen EXCEPT ![r] = @ + 1]
            /\ reported' = [reported EXCEPT ![r] = @ /\ to.status # "needs_human"]
            /\ queue' = Queued(Queued(queue, Call("stop", r, gen[r] + 1)), StopCall(r, to.status, gen[r] + 1))
       ELSE UNCHANGED <<gen, reported, queue>>
    /\ UNCHANGED told

\* end_attempt, then the move the result asks for.
Settle(r, s, result) ==
    /\ open' = [open EXCEPT ![r] = FALSE]
    /\ Counted(r, s, result)
    /\ Move(r, Settled(r, s, result))

\* A step that is approved, signalled or quiet ends clean; but the last one fails when the run lacks
\* a value its factory's done_requires names (_checked_done).
Passes(r) ==
    \E result \in IF step[r] = LastStep THEN {"next", "failed"} ELSE {"next"} :
        Settle(r, step[r], result)

\* The timers of a run that no longer time the park it is in.
Estranged(r) == {[t EXCEPT !.own = FALSE] : t \in strays[r]}
Stray(r, own) == [ends |-> armed[r], at |-> step[r], own |-> own]

\* The run leaves its park: _disarm, or the timer that ended it, drops its entry.
Disarm(r) ==
    /\ armed' = [armed EXCEPT ![r] = "none"]
    /\ strays' = [strays EXCEPT ![r] = Estranged(r)]

\* _arm and _wake_at put each run's timer in _deadlines, and stop none that is there.
Arm(ends) ==
    /\ armed' = [r \in Runs |-> IF r \in DOMAIN ends THEN ends[r] ELSE armed[r]]
    /\ strays' = [r \in Runs |-> IF r \in DOMAIN ends /\ armed[r] # "none"
                                 THEN strays[r] \cup {Stray(r, TRUE)} ELSE strays[r]]

-----------------------------------------------------------------------------
(* The user, and the instance that hands work in.                          *)

\* intake and open_run, for a work item no unfinished run of the instance has.
Accept(r) ==
    /\ AtRest /\ status[r] = "new"
    /\ status' = [status EXCEPT ![r] = "queued"]
    /\ step' = [step EXCEPT ![r] = 1]
    /\ moving' = r
    /\ UNCHANGED <<factory, open, failures, sent, wakes, gen, reported, owes, told,
                   queue, workers, timers, woken, resuming, used>>

\* _restart: the step's retries and send-backs count afresh.
Restart(r, s) ==
    /\ status' = [status EXCEPT ![r] = "queued"]
    /\ step' = [step EXCEPT ![r] = s]
    /\ open' = [open EXCEPT ![r] = FALSE]
    /\ failures' = [failures EXCEPT ![r] = [t \in Steps |-> 0]]
    /\ sent' = [sent EXCEPT ![r] = [e \in Edges |-> 0]]
    /\ moving' = r
    /\ UNCHANGED <<wakes, gen, reported, owes, told, queue>>

\* What the user's call leaves alone; each counts against its bound.
ByUser ==
    /\ AtRest /\ Can("user", MaxUserMoves) /\ Uses("user")
    /\ UNCHANGED <<factory, workers, woken, resuming>>

AwaitsApproval(r) == status[r] = "parked" /\ factory.kind[step[r]] = "approve"

\* retry, and an intake that hands in the work item of a run that needs a human.
Retry(r) ==
    /\ ByUser /\ status[r] = "needs_human"
    /\ Restart(r, step[r])
    /\ UNCHANGED timers

SendBack(r, s) ==
    /\ ByUser
    /\ status[r] = "needs_human" \/ AwaitsApproval(r)
    /\ s < step[r]
    /\ Restart(r, s)
    /\ UNCHANGED timers

Approve(r) ==
    /\ ByUser /\ AwaitsApproval(r)
    /\ Passes(r)
    /\ UNCHANGED timers

\* A mutant of Cancel that leaves the timer of a parked run armed.
CancelArmed(r) ==
    /\ ByUser /\ status[r] \in {"parked", "needs_human"}
    /\ open' = [open EXCEPT ![r] = FALSE]
    /\ Move(r, To("cancelled", step[r]))
    /\ UNCHANGED <<failures, sent, timers>>

Cancel(r) ==
    /\ ByUser /\ status[r] \in {"parked", "needs_human"}
    /\ open' = [open EXCEPT ![r] = FALSE]
    /\ Move(r, To("cancelled", step[r]))
    /\ IF status[r] = "parked" THEN Disarm(r) ELSE UNCHANGED timers
    /\ UNCHANGED <<failures, sent>>

-----------------------------------------------------------------------------
(* _enqueue: the step the run moved to is placed, refused or parked at.     *)

Place(r) ==
    /\ moving = r /\ factory.kind[step[r]] = "work"
    /\ queue' = [queue EXCEPT ![factory.role[step[r]]] = Append(@, StepEntry(r))]
    /\ moving' = NoRun
    /\ UNCHANGED <<factory, registry, workers, timers, woken, resuming, used>>

\* A step that cannot start fails an attempt of its own, or of the step that
\* should have recorded a value it requires.
Refuse(r, s) ==
    /\ moving = r /\ s <= step[r]
    /\ Can("refused", MaxRefused) /\ Uses("refused")
    /\ Settle(r, s, "failed")
    /\ UNCHANGED <<factory, workers, timers, woken, resuming>>

Parks(r) == moving = r /\ factory.kind[step[r]] # "work"

\* _park, at a wait no signal matched yet or at an approval.
Park(r) ==
    /\ Parks(r) /\ step[r] \notin woken[r]
    /\ status' = [status EXCEPT ![r] = "parked"]
    /\ open' = [open EXCEPT ![r] = TRUE]
    /\ IF factory.kind[step[r]] = "wait" /\ factory.timer[step[r]] # "none"
       THEN Arm([q \in {r} |-> factory.timer[step[q]]]) ELSE UNCHANGED timers
    /\ moving' = NoRun
    /\ UNCHANGED <<factory, step, failures, sent, wakes, gen, reported, owes, told,
                   queue, workers, woken, resuming, used>>

\* _park, at a wait a signal matched while the run was on its way to it.
PassWait(r) ==
    /\ Parks(r) /\ step[r] \in woken[r]
    /\ woken' = [woken EXCEPT ![r] = @ \ {step[r]}]
    /\ Passes(r)
    /\ UNCHANGED <<factory, workers, timers, resuming, used>>

-----------------------------------------------------------------------------
(* The worker of an instance's queue.                                      *)

Takes(i, kind) ==
    /\ AtRest /\ work[i] = NoWork /\ queue[i] # <<>>
    /\ (Head(queue[i]).kind = "step") = (kind = "step")

\* begin_attempt for the step the worker offers.
Offer(r, s) ==
    /\ status' = [status EXCEPT ![r] = "running"]
    /\ step' = [step EXCEPT ![r] = s]
    /\ open' = [open EXCEPT ![r] = TRUE]
    /\ UNCHANGED <<failures, sent, wakes, gen, reported, owes, told, timers, woken,
                   moving, resuming, used, factory, later>>

TakeStep(i) ==
    /\ Takes(i, "step")
    /\ work' = [work EXCEPT ![i] = Head(queue[i])]
    /\ queue' = [queue EXCEPT ![i] = Tail(@)]
    /\ Offer(Head(queue[i]).run, Head(queue[i]).n)
    /\ UNCHANGED paused

OfferAgain(i) ==
    /\ AtRest /\ i \in paused
    /\ paused' = paused \ {i}
    /\ Offer(work[i].run, work[i].n)
    /\ UNCHANGED <<queue, work>>

AtStep(i) == AtRest /\ work[i] # NoWork /\ work[i].kind = "step" /\ i \notin paused
Done(i) == work' = [work EXCEPT ![i] = NoWork]

Answer(i, result) ==
    /\ AtStep(i) /\ result # "limited"
    /\ result = "back" => factory.back[work[i].n] # 0
    /\ Done(i)
    /\ Settle(work[i].run, work[i].n, result)
    /\ UNCHANGED <<factory, paused, later, timers, woken, resuming, used>>

\* _park_until: the plan window that cut the step short resets later.
Limited(i) ==
    LET r == work[i].run
    IN  /\ AtStep(i) /\ Can("limited", MaxLimited) /\ Uses("limited")
        /\ Done(i)
        /\ open' = [open EXCEPT ![r] = FALSE]
        /\ status' = [status EXCEPT ![r] = "parked"]
        /\ wakes' = [wakes EXCEPT ![r] = TRUE]
        /\ Arm([q \in {r} |-> "wake"])
        /\ UNCHANGED <<factory, step, failures, sent, gen, reported, owes, told, queue,
                       paused, later, woken, moving, resuming>>

\* A call the instance did not take is no attempt; the worker backs off with it.
Undelivered(i) ==
    LET r == work[i].run
    IN  /\ AtStep(i) /\ Can("unsent", MaxUnsent) /\ Uses("unsent")
        /\ open' = [open EXCEPT ![r] = FALSE]
        /\ status' = [status EXCEPT ![r] = "queued"]
        /\ paused' = paused \cup {i}
        /\ UNCHANGED <<factory, step, failures, sent, wakes, gen, reported, owes, told,
                       queue, work, later, timers, woken, moving, resuming>>

\* _stale: the run has moved on since the stop the call is for.
Stale(call) ==
    /\ call.kind # "stop"
    /\ \/ gen[call.run] # call.n
       \/ status[call.run] \notin IF call.kind = "ended" THEN Ends ELSE {"needs_human"}

TakeCall(i) ==
    /\ Takes(i, "call")
    /\ queue' = [queue EXCEPT ![i] = Tail(@)]
    /\ work' = [work EXCEPT ![i] = IF Stale(Head(queue[i])) THEN NoWork ELSE Head(queue[i])]
    /\ UNCHANGED <<factory, registry, paused, later, timers, woken, moving, resuming, used>>

AtCall(i) == AtRest /\ work[i] # NoWork /\ work[i].kind # "step"

\* mark_told, mark_reported for the stop the call was queued for, mark_ended_called.
CallMade(i) ==
    LET call == work[i]  r == call.run
    IN  /\ AtCall(i)
        /\ Done(i)
        /\ told' = IF call.kind = "stop" THEN told \cup {<<r, call.n>>} ELSE told
        /\ reported' = [reported EXCEPT ![r] = @ \/ (call.kind = "needs_human" /\ gen[r] = call.n)]
        /\ owes' = [owes EXCEPT ![r] = @ /\ call.kind # "ended"]
        /\ UNCHANGED <<factory, status, step, open, failures, sent, wakes, gen, queue,
                       paused, later, timers, woken, moving, resuming, used>>

\* A mutant of CallFailed that never tries the call again.
CallFailedForGood(i) ==
    /\ AtCall(i) /\ Can("unsent", MaxUnsent) /\ Uses("unsent")
    /\ Done(i)
    /\ UNCHANGED <<factory, registry, queue, paused, later, timers, woken, moving, resuming>>

\* The call failed: _tell_later and _report_later queue it again after a backoff.
CallFailed(i) ==
    /\ AtCall(i) /\ Can("unsent", MaxUnsent) /\ Uses("unsent")
    /\ Done(i)
    /\ later' = later \cup {work[i]}
    /\ UNCHANGED <<factory, registry, queue, paused, timers, woken, moving, resuming>>

CallAgain(call) ==
    /\ AtRest /\ call \in later
    /\ later' = later \ {call}
    /\ queue' = Queued(queue, call)
    /\ UNCHANGED <<factory, registry, work, paused, timers, woken, moving, resuming, used>>

-----------------------------------------------------------------------------
(* Signals and timers.  A signal that matches several runs is one signal   *)
(* for each: runs share nothing but the queues.                            *)

BySignal ==
    /\ AtRest /\ Can("signal", MaxSignals) /\ Uses("signal")
    /\ UNCHANGED <<factory, workers, resuming>>

\* The signal matches a filter of each wait in matched.
SignalParked(r, matched) ==
    /\ BySignal /\ status[r] = "parked" /\ step[r] \in matched /\ matched \subseteq Waits
    /\ Disarm(r)
    /\ Passes(r)
    /\ UNCHANGED woken

SignalWorking(r, matched) ==
    /\ BySignal /\ status[r] \in {"queued", "running"} /\ matched \subseteq Waits
    /\ woken' = [woken EXCEPT ![r] = @ \cup matched]
    /\ UNCHANGED <<registry, queue, timers, moving>>

\* A parked run hears only the signals that match the wait it is parked at.
SignalPassesBy(r, matched) ==
    /\ BySignal /\ status[r] = "parked" /\ step[r] \notin matched /\ matched \subseteq Waits
    /\ UNCHANGED <<registry, queue, timers, woken, moving>>

\* One of the factory's closing signals says the work finished elsewhere.
SignalCloses(r, end) ==
    /\ BySignal /\ status[r] = "needs_human"
    /\ Move(r, To(end, IF end = "done" THEN NoStep ELSE step[r]))
    /\ UNCHANGED <<open, failures, sent, timers, woken>>

\* How a timer ends the park: a reset queues the step again, a wait's timer settles it.
Ended(r, ends, at) ==
    CASE ends = "wake"     -> Move(r, To("queued", at)) /\ UNCHANGED <<open, failures, sent>>
      [] ends = "quiet"    -> Passes(r)
      [] ends = "deadline" -> Settle(r, step[r], "failed")

Expire(r) ==
    /\ AtRest /\ armed[r] # "none"
    /\ Disarm(r)
    /\ Ended(r, armed[r], step[r])
    /\ UNCHANGED <<factory, workers, woken, resuming, used>>

\* A timer whose entry another one overwrote: it drops whatever entry the run
\* has and ends the park the run is in, or finds no entry and raises KeyError.
StrayExpires(r, t) ==
    /\ AtRest /\ t \in strays[r]
    /\ IF armed[r] = "none"
       THEN strays' = [strays EXCEPT ![r] = @ \ {t}] /\ UNCHANGED <<registry, queue, armed, moving>>
       ELSE /\ armed' = [armed EXCEPT ![r] = "none"]
            /\ strays' = [strays EXCEPT ![r] = (Estranged(r) \ {[t EXCEPT !.own = FALSE]})
                                               \cup {Stray(r, FALSE)}]
            /\ Ended(r, t.ends, t.at)
    /\ UNCHANGED <<factory, workers, woken, resuming, used>>

-----------------------------------------------------------------------------
(* A restart of the hub, and resume.                                       *)

\* unreported_runs, uncalled_ends and untold_stops.
Owed ==
    {Call("needs_human", r, gen[r]) : r \in {q \in Runs : status[q] = "needs_human" /\ ~reported[q]}}
    \cup {Call("ended", r, gen[r]) : r \in {q \in Runs : owes[q]}}
    \cup UNION {{Call("stop", r, g) : g \in {h \in 1 .. gen[r] : <<r, h>> \notin told}} : r \in Runs}

\* resume queues the needs_human calls first, then the ended calls, then the stops.
Rank(call) == CASE call.kind = "needs_human" -> 1 [] call.kind = "ended" -> 2 [] OTHER -> 3
Before(c, d) == Rank(c) < Rank(d) \/ (Rank(c) = Rank(d) /\ c.n < d.n)

\* A mutant of RestartHub that picks only the runs that were queued.
RestartHubSkipsDropped ==
    LET dropped == {r \in Runs : status[r] = "running"}
    IN  /\ \/ AtRest /\ Can("hub", MaxRestarts) /\ Uses("hub")
           \/ ~AtRest /\ Can("torn", MaxTorn) /\ Uses("torn")
        /\ status' = [r \in Runs |-> IF r \in dropped THEN "queued" ELSE status[r]]
        /\ open' = [r \in Runs |-> open[r] /\ r \notin dropped]
        /\ queue' = [i \in Instances |-> <<>>] /\ work' = [i \in Instances |-> NoWork]
        /\ paused' = {} /\ later' = {}
        /\ armed' = [r \in Runs |-> "none"] /\ strays' = [r \in Runs |-> {}]
        /\ woken' = [r \in Runs |-> {}]
        /\ moving' = NoRun
        /\ resuming' = [on |-> TRUE, todo |-> {r \in Runs : status[r] = "queued"}, owed |-> Owed]
        /\ UNCHANGED <<factory, step, failures, sent, wakes, gen, reported, owes, told>>

\* The hub dies, between two handlers or while a run is moving, and the next one
\* resumes: it drops each running run's attempt, after it collected what is owed.
RestartHub ==
    LET dropped == {r \in Runs : status[r] = "running"}
    IN  /\ \/ AtRest /\ Can("hub", MaxRestarts) /\ Uses("hub")
           \/ ~AtRest /\ Can("torn", MaxTorn) /\ Uses("torn")
        /\ status' = [r \in Runs |-> IF r \in dropped THEN "queued" ELSE status[r]]
        /\ open' = [r \in Runs |-> open[r] /\ r \notin dropped]
        /\ queue' = [i \in Instances |-> <<>>] /\ work' = [i \in Instances |-> NoWork]
        /\ paused' = {} /\ later' = {}
        /\ armed' = [r \in Runs |-> "none"] /\ strays' = [r \in Runs |-> {}]
        /\ woken' = [r \in Runs |-> {}]
        /\ moving' = NoRun
        /\ resuming' = [on |-> TRUE, todo |-> {r \in Runs : status'[r] = "queued"}, owed |-> Owed]
        /\ UNCHANGED <<factory, step, failures, sent, wakes, gen, reported, owes, told>>

\* resume queues the runs one by one; each is placed, refused or parked before the next.
ResumeQueued(r) ==
    /\ moving = NoRun /\ r \in resuming.todo
    /\ moving' = r
    /\ resuming' = [resuming EXCEPT !.todo = @ \ {r}]
    /\ UNCHANGED <<factory, registry, queue, workers, timers, woken, used>>

Timed(r) == status[r] = "parked"
            /\ (wakes[r] \/ (step[r] \in Waits /\ factory.timer[step[r]] # "none"))

\* Then it arms the parked runs, among them one that parked in this very pass.
ResumeParked ==
    /\ resuming.on /\ moving = NoRun /\ resuming.todo = {}
    /\ Arm([r \in {q \in Runs : Timed(q)} |-> IF wakes[r] THEN "wake" ELSE factory.timer[step[r]]])
    /\ resuming' = [resuming EXCEPT !.on = FALSE]
    /\ UNCHANGED <<factory, registry, queue, workers, woken, moving, used>>

\* Last, it queues the calls it collected.
ResumeOwed(call) ==
    /\ ~resuming.on /\ call \in resuming.owed
    /\ \A other \in resuming.owed : ~Before(other, call)
    /\ queue' = Queued(queue, call)
    /\ resuming' = [resuming EXCEPT !.owed = @ \ {call}]
    /\ UNCHANGED <<factory, registry, workers, timers, woken, moving, used>>

-----------------------------------------------------------------------------
\* What the user and signals do, the timers they leave behind, steps that are refused, and plan
\* windows that run out.
Disturbed ==
    \/ \E r \in Runs :
        \/ Retry(r) \/ Approve(r) \/ Cancel(r) \/ PassWait(r)
        \/ \E s \in Steps : SendBack(r, s) \/ Refuse(r, s)
        \/ \E matched \in SUBSET Waits \ {{}} :
            SignalParked(r, matched) \/ SignalWorking(r, matched) \/ SignalPassesBy(r, matched)
        \/ \E end \in Ends : SignalCloses(r, end)
        \/ \E t \in strays[r] : StrayExpires(r, t)
    \/ \E i \in Instances : Limited(i)

\* What the hub and its instances do by themselves.
LeftAlone ==
    \/ \E r \in Runs :
        \/ Accept(r) \/ Place(r) \/ Park(r) \/ Expire(r) \/ ResumeQueued(r)
    \/ \E i \in Instances :
        \/ TakeStep(i) \/ OfferAgain(i) \/ Undelivered(i)
        \/ TakeCall(i) \/ CallMade(i) \/ CallFailed(i)
        \/ AtStep(i) /\ \E result \in Results : Answer(i, result)
    \/ \E call \in later : CallAgain(call)
    \/ RestartHub \/ ResumeParked
    \/ \E call \in resuming.owed : ResumeOwed(call)

Next == LeftAlone \/ Disturbed

Spec == Init /\ [][Next]_vars

-----------------------------------------------------------------------------
\* What the worker of an instance has, at 0, then its queue.
Slots(i) == 0 .. Len(queue[i])
Held(i, k) == IF k = 0 THEN work[i] ELSE queue[i][k]

Unheld(entries) == \A i \in Instances : \A k \in Slots(i) : Held(i, k) \notin entries

HeldAt(entries, i, k) ==
    \A j \in Instances : \A l \in Slots(j) : (Held(j, l) \in entries) <=> (j = i /\ l = k)

\* One of the entries is held by a worker or a queue, or is kept in one of two other places.
Nowhere(entries, here, there) == Unheld(entries) /\ ~here /\ ~there
Once(entries, here, there) ==
    \/ (\E i \in Instances : \E k \in Slots(i) : HeldAt(entries, i, k)) /\ ~here /\ ~there
    \/ Unheld(entries) /\ (here <=> ~there)

\* A step of the run is about to be run.
Driven(r)   == Once(StepsOf(r), moving = r, r \in resuming.todo)
Undriven(r) == Nowhere(StepsOf(r), moving = r, r \in resuming.todo)

\* The call is about to be made.
Pending(call)  == Once({call}, call \in later, call \in resuming.owed)
Dismissed(call) == Nowhere({call}, call \in later, call \in resuming.owed)

\* Every variable keeps the type of what the registry and FactoryRuns keep in it.
TypeOK ==
    /\ factory \in Factories
    /\ status \in [Runs -> Unfinished \cup Ends \cup {"new"}]
    /\ step \in [Runs -> OrNone] /\ open \in [Runs -> BOOLEAN]
    /\ failures \in [Runs -> [Steps -> Nat]] /\ sent \in [Runs -> [Edges -> Nat]]
    /\ wakes \in [Runs -> BOOLEAN] /\ gen \in [Runs -> Nat]
    /\ reported \in [Runs -> BOOLEAN] /\ owes \in [Runs -> BOOLEAN]
    /\ told \subseteq Runs \X Nat
    /\ queue \in [Instances -> Seq(Entries)] /\ work \in [Instances -> Entries \cup {NoWork}]
    /\ paused \subseteq Instances /\ later \subseteq Calls
    /\ armed \in [Runs -> Timers \cup {"wake"}]
    /\ strays \in [Runs -> SUBSET [ends : Timers \cup {"wake"}, at : Steps, own : BOOLEAN]]
    /\ woken \in [Runs -> SUBSET Steps]
    /\ moving \in Runs \cup {NoRun}
    /\ resuming \in [on : BOOLEAN, todo : SUBSET Runs, owed : SUBSET Calls]
    /\ used \in [Bounded -> Nat]

\* A queued or running run is in exactly one place that will run its step, the
\* step it is at, and no other run is in any; a run parked at a timed wait, or
\* until its plan window resets, has its timer.  A second driver would run the
\* step twice, and without one the run would stay where it is for good
\* (_enqueue and resume).
OneDriver ==
    \A r \in Runs :
        /\ IF status[r] \in {"queued", "running"} THEN Driven(r) ELSE Undriven(r)
        /\ \A i \in Instances : \A k \in Slots(i) : Held(i, k) \in StepsOf(r) => Held(i, k) = StepEntry(r)
        /\ status[r] = "running" => \E i \in Instances \ paused : work[i] = StepEntry(r)
        /\ ~resuming.on => ((armed[r] # "none") = Timed(r))

\* Each call a stop owes and nobody took yet is about to be made exactly once,
\* and a call that was made is not about to be made again.  A needs_human call
\* of an earlier stop may still be about, to be dropped as stale; taking one for
\* the latest stop's would leave that stop unreported (mark_reported), and
\* collecting the owed calls after the runs are queued again would make a fresh
\* stop's calls twice (resume).
CallsOwed ==
    \A r \in Runs : \A g \in 1 .. gen[r] :
        /\ IF <<r, g>> \in told
           THEN Dismissed(Call("stop", r, g)) ELSE Pending(Call("stop", r, g))
        /\ IF owes[r] /\ g = gen[r]
           THEN Pending(Call("ended", r, g)) ELSE Dismissed(Call("ended", r, g))
        /\ Pending(Call("needs_human", r, g)) \/ Dismissed(Call("needs_human", r, g))
        /\ status[r] = "needs_human" /\ g = gen[r]
            => (Pending(Call("needs_human", r, g)) <=> ~reported[r])

\* A run that is done or cancelled stays as it ended and stops no more, whatever
\* timer, answer, signal or call about it is still under way.
FinishedStay ==
    \A r \in Runs : status[r] \in Ends =>
        status'[r] = status[r] /\ step'[r] = step[r] /\ gen'[r] = gen[r]
FinishedIsFinal == [][FinishedStay]_vars

\* What the event loop, the instances and the clock do in the end; a user, a
\* signal and a restart may never come.  That an offered step is answered is what
\* StepCalls shows.
Fairness ==
    /\ \A r \in Runs : /\ WF_vars(Place(r) \/ Park(r))
                       /\ WF_vars(ResumeQueued(r)) /\ WF_vars(Expire(r))
    /\ WF_vars(ResumeParked \/ \E call \in resuming.owed : ResumeOwed(call))
    /\ \A i \in Instances :
        /\ WF_vars(TakeStep(i) \/ TakeCall(i)) /\ WF_vars(OfferAgain(i))
        /\ WF_vars(\E result \in Results : Answer(i, result))
        /\ WF_vars(CallMade(i))
    /\ WF_vars(\E call \in later : CallAgain(call))

\* The runs left alone.
FairSpec == Init /\ [][LeftAlone]_vars /\ Fairness

\* What only the user or a signal takes further.
Rests(r) ==
    \/ status[r] \in Stops \cup {"new"}
    \/ status[r] = "parked" /\ ~Timed(r)

\* Left alone, a run ends or waits for its user or a signal: retries, send-backs and quiet
\* times cannot keep it going for ever.
RunsRest == \A r \in Runs : []<>Rests(r)

\* Each stop is told to the instance that handed the run in, each end gets its
\* ended call, and a run left needing a human gets its needs_human call, over a
\* restart of the hub and calls that fail.
CallsMade ==
    /\ \A r \in Runs, g \in 1 .. MaxUserMoves + 2 : gen[r] >= g ~> <<r, g>> \in told
    /\ \A r \in Runs : status[r] \in Ends ~> ~owes[r]
    /\ \A r \in Runs : []<>(status[r] = "needs_human" => reported[r])

=============================================================================
