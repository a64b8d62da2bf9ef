------------------------------- MODULE Turns -------------------------------
(***************************************************************************)
(* Turn admission in one kinby instance (src/kinby/core/turns.py): who may *)
(* start a turn, a factory step or a revert on the shared workspace, how a *)
(* turn parks on the user and resumes, how it is interrupted or abandoned, *)
(* and how the instance drains and restarts.                               *)
(*                                                                         *)
(* The instance is one asyncio process, so a handler is atomic from one    *)
(* await to the next.  Each action below is such a stretch; the awaits     *)
(* (workspace snapshots, the runner, restoring a checkpoint, the settle    *)
(* timeout of an interrupt) lie between actions.  EventLog.append holds    *)
(* its lock over no await, so an append never suspends its caller.         *)
(*                                                                         *)
(* An asyncio task that finished and one that _forget_task already removed *)
(* are not told apart: every reader asks for a task that is not done.      *)
(***************************************************************************)
EXTENDS Integers, FiniteSets

CONSTANTS
    Threads,        \* conversation threads
    UserTurns,      \* turns a user or the home instance asks for
    RoutineTurns,   \* turns of routines, scheduled or started by a delivery
    Deliveries,     \* the routine turns a recorded delivery starts
    StepTurns,      \* factory steps; an agent step's turn has its step's name
    Reverts,        \* revert calls
    Previews,       \* the revert calls that only preview
    AskKinds,       \* what a turn parks on: "approval", "takeover"
    MaxAsks,        \* bound on the times one turn parks
    MaxRestarts,    \* bound on restarts of the instance
    NoTurn, NoThread

Turns == UserTurns \cup RoutineTurns \cup StepTurns
ParkingKinds == {"approval", "takeover"}
Sealer  == "seal"    \* the waiter of Turns.seal
Sweeper == "sweep"   \* the waiter of Turns.interrupt_all

ASSUME DistinctTurns ==
    /\ UserTurns \cap RoutineTurns = {}
    /\ UserTurns \cap StepTurns = {}
    /\ RoutineTurns \cap StepTurns = {}
    /\ Threads \cap StepTurns = {}
    /\ NoTurn \notin Turns
    /\ NoThread \notin Threads
    /\ {Sealer, Sweeper} \cap StepTurns = {}
ASSUME Subkinds ==
    /\ Deliveries \subseteq RoutineTurns
    /\ Previews \subseteq Reverts
    /\ AskKinds \subseteq ParkingKinds
ASSUME Bounds == MaxAsks \in Nat /\ MaxRestarts \in Nat

VARIABLES
    \* The event log, which survives a restart.
    thread,     \* the thread of each turn
    last,       \* the last event of each turn that is not a notification
    asks,       \* how many times each turn asked; names its latest request
    closed,     \* the kinds of closing event each turn has
    asked,      \* per thread, the turn of its latest approval or takeover request
    \* The Turns object.
    running,    \* _running: the turn whose task each thread has
    claims,     \* _claims: what reserves each thread, or the instance for a step
    admitting,  \* _admitting
    answering,  \* _answering
    \* Calls and tasks between two awaits.
    task,       \* the runner task of each turn
    admission,  \* the start or resume of each turn in progress
    cut,        \* the interrupt of each turn in progress
    armed,      \* _deadlines: the takeover requests of each turn whose deadline runs
    ending,     \* the turns whose takeover deadline passed and is being recorded
    step,       \* each step call
    revert,     \* the thread each revert call works on
    drain,      \* InstanceRuntime.drain
    sweep,      \* Turns.interrupt_all
    asleep,     \* the waiters on _changed
    restarts

log   == <<thread, last, asks, closed, asked>>
calls == <<admission, cut, ending, step, revert>>
vars  == <<log, running, claims, admitting, answering, task, armed, calls,
           drain, sweep, asleep, restarts>>

-----------------------------------------------------------------------------
(* Claims, and what the thread's events say.                               *)

Claim(kind, of) == [kind |-> kind, of |-> of]
Free == Claim("free", NoTurn)
Claims == {Free} \cup [kind : {"turn", "cut", "abandon"}, of : Turns]
                 \cup [kind : {"revert"}, of : Reverts]
                 \cup [kind : {"step"}, of : StepTurns]
Keys == Threads \cup StepTurns
InterruptedClaims == {"cut", "abandon"}   \* both are an InterruptedTurnClaim

Claimed == \E k \in Keys : claims[k] # Free
ClaimHeld(kind) == \E k \in Keys : claims[k].kind = kind

\* parked_on(thread_events): the turn the thread's latest request still waits for.
Waits(t, th) == asked[th] = t /\ t # NoTurn /\ last[t] \in ParkingKinds

\* _parked: latest_in_open_turns leaves out a turn that has closed.
ParkedOpen(t, th) == Waits(t, th) /\ closed[t] = {}

Reserved(th) == claims[th].kind = "turn"
Live == {th \in Threads : running[th] # NoTurn \/ Reserved(th)}
LiveTurn(th) == IF Reserved(th) THEN claims[th].of ELSE running[th]
Parked == {th \in Threads : \E t \in Turns : ParkedOpen(t, th)}
Holding == Live \cup {th \in Threads : \E t \in Turns \ RoutineTurns : ParkedOpen(t, th)}

\* A mutant of Available that lets a user's turn in beside a routine's.
AvailableBesideRoutines(t) ==
    /\ admitting
    /\ ~ClaimHeld("revert")
    /\ ~ClaimHeld("step")
    /\ t \in RoutineTurns => Holding = {}

\* What require_available refuses a turn for, and a routine besides.
Available(t) ==
    /\ admitting
    /\ ~ClaimHeld("revert")
    /\ ~ClaimHeld("step")
    /\ \A th \in Live : LiveTurn(th) \notin RoutineTurns
    /\ t \in RoutineTurns => Holding = {}

Fresh(th) == \A t \in Turns : thread[t] # th
Unstarted(t) == last[t] = "none" /\ admission[t] = "none"

\* _owned_running_turn: the task may still write events for its turn.
Owned(t) == thread[t] # NoThread /\ running[thread[t]] = t /\ cut[t] = "none"

Changed == asleep' = {}   \* _changed.set() wakes every waiter

Append(t, event) == last' = [last EXCEPT ![t] = event]
AppendClosing(t, event) ==
    /\ Append(t, event)
    /\ closed' = [closed EXCEPT ![t] = @ \cup {event}]

\* _release_claim: only the claim the call made itself.
Release(key, claim) ==
    claims' = IF claims[key] = claim THEN [claims EXCEPT ![key] = Free] ELSE claims

\* The task is done, and _forget_task takes it out of _running if it is there.
TaskDone(t) ==
    /\ task' = [task EXCEPT ![t] = "none"]
    /\ running' = IF running[thread[t]] = t
                    THEN [running EXCEPT ![thread[t]] = NoTurn] ELSE running
    /\ Changed

Spawn(t) ==
    /\ task' = [task EXCEPT ![t] = "live"]
    /\ running' = [running EXCEPT ![thread[t]] = t]

-----------------------------------------------------------------------------
\* Every variable keeps the type of what the code keeps in it.
TypeOK ==
    /\ thread \in [Turns -> Threads \cup {NoThread}]
    /\ last \in [Turns -> {"none", "started", "work", "finished", "interrupted",
                           "abandoned"} \cup ParkingKinds]
    /\ asks \in [Turns -> 0..MaxAsks]
    /\ closed \in [Turns -> SUBSET {"finished", "interrupted", "abandoned"}]
    /\ asked \in [Threads -> Turns \cup {NoTurn}]
    /\ running \in [Threads -> Turns \cup {NoTurn}]
    /\ claims \in [Keys -> Claims]
    /\ admitting \in BOOLEAN /\ answering \in BOOLEAN
    /\ task \in [Turns -> {"none", "live", "parking", "closing"}]
    /\ admission \in [Turns -> {"none", "waking", "resuming"}]
    /\ cut \in [Turns -> {"none", "settling", "capturing"}]
    /\ armed \in [Turns -> SUBSET (1..MaxAsks)]
    /\ ending \in SUBSET Turns
    /\ step \in [StepTurns -> {"idle", "waiting", "holding", "done"}]
    /\ revert \in [Reverts -> Threads \cup {NoThread}]
    /\ drain \in {"none", "waiting", "sealed"}
    /\ sweep \in [pc : {"idle", "scan", "cutting", "done"}, todo : SUBSET Threads,
                  on : Turns \cup {NoTurn}]
    /\ asleep \in SUBSET (StepTurns \cup {Sealer, Sweeper})
    /\ restarts \in 0..MaxRestarts

NoSweep == [pc |-> "idle", todo |-> {}, on |-> NoTurn]

Init ==
    /\ thread = [t \in Turns |-> NoThread]
    /\ last = [t \in Turns |-> "none"]
    /\ asks = [t \in Turns |-> 0]
    /\ closed = [t \in Turns |-> {}]
    /\ asked = [th \in Threads |-> NoTurn]
    /\ step = [s \in StepTurns |-> "idle"]
    /\ running = [th \in Threads |-> NoTurn]
    /\ claims = [k \in Keys |-> Free]
    /\ admitting = TRUE /\ answering = TRUE
    /\ task = [t \in Turns |-> "none"]
    /\ admission = [t \in Turns |-> "none"]
    /\ cut = [t \in Turns |-> "none"]
    /\ armed = [t \in Turns |-> {}]
    /\ ending = {}
    /\ revert = [v \in Reverts |-> NoThread]
    /\ drain = "none"
    /\ sweep = NoSweep
    /\ asleep = {}
    /\ restarts = 0

-----------------------------------------------------------------------------
(* Starting a turn: wake, wake_recorded, wake_new_thread and step_turn all *)
(* end in _wake, which claims the thread, takes the snapshot the turn      *)
(* starts from, and only then records turn.started.                        *)

\* Scheduler._receive gives each delivery a thread of its own to wait on.
Receive(t, th) ==
    /\ t \in Deliveries /\ thread[t] = NoThread /\ Fresh(th)
    /\ thread' = [thread EXCEPT ![t] = th]
    /\ UNCHANGED <<last, asks, closed, asked, running, claims, admitting, answering,
                   task, armed, calls, drain, sweep, asleep, restarts>>

\* The claim takes the key whatever it holds.
Reserve(t, th) ==
    /\ thread' = [thread EXCEPT ![t] = th]
    /\ claims' = [claims EXCEPT ![th] = Claim("turn", t)]
    /\ admission' = [admission EXCEPT ![t] = "waking"]
    /\ UNCHANGED <<last, asks, closed, asked, running, admitting, answering, task, armed,
                   cut, ending, step, revert, drain, sweep, asleep, restarts>>

Wake(t, th) ==
    /\ t \in UserTurns /\ Unstarted(t)
    /\ Available(t)
    /\ claims[th] = Free /\ running[th] = NoTurn
    /\ \A u \in Turns : ~Waits(u, th)
    /\ Reserve(t, th)

\* A delivery's turn looks at the instance, and not at its thread.
WakeRecorded(t) ==
    /\ t \in Deliveries /\ thread[t] # NoThread /\ Unstarted(t)
    /\ Available(t)
    /\ Reserve(t, thread[t])

WakeNewThread(t, th) ==
    /\ t \in (UserTurns \cup RoutineTurns) \ Deliveries /\ Unstarted(t)
    /\ Available(t)
    /\ Fresh(th)
    /\ Reserve(t, th)

\* The step already holds the instance, so its turn asks only whether it drains.
StepTurn(s, th) ==
    /\ step[s] = "holding" /\ Unstarted(s)
    /\ admitting
    /\ Fresh(th)
    /\ Reserve(s, th)

Started(t) ==
    /\ admission[t] = "waking"
    /\ Append(t, "started")
    /\ admission' = [admission EXCEPT ![t] = "none"]
    /\ Release(thread[t], Claim("turn", t))
    /\ Spawn(t)
    /\ Changed
    /\ UNCHANGED <<thread, asks, closed, asked, admitting, answering, armed, cut, ending,
                   step, revert, drain, sweep, restarts>>

\* turn.started could not be appended: the claim goes and there is no turn.
WakeFailed(t) ==
    /\ admission[t] = "waking"
    /\ admission' = [admission EXCEPT ![t] = "none"]
    /\ Release(thread[t], Claim("turn", t))
    /\ Changed
    /\ UNCHANGED <<log, running, admitting, answering, task, armed, cut, ending, step,
                   revert, drain, sweep, restarts>>

-----------------------------------------------------------------------------
(* The runner's task (_finish).  emit appends only for the turn the thread *)
(* runs and nobody interrupted; it checks again after each await.          *)

Work(t) ==
    /\ task[t] = "live" /\ Owned(t)
    /\ Append(t, "work")
    /\ UNCHANGED <<thread, asks, closed, asked, running, claims, admitting, answering,
                   task, armed, calls, drain, sweep, asleep, restarts>>

\* The request is in the log before the task that raised it is done.
Ask(t, kind) ==
    /\ task[t] = "live" /\ Owned(t) /\ asks[t] < MaxAsks
    /\ Append(t, kind)
    /\ asks' = [asks EXCEPT ![t] = @ + 1]
    /\ asked' = [asked EXCEPT ![thread[t]] = t]
    /\ task' = [task EXCEPT ![t] = "parking"]
    /\ UNCHANGED <<thread, closed, running, claims, admitting, answering, armed, calls,
                   drain, sweep, asleep, restarts>>

\* A mutant of Park whose deadline is for the request after the turn's own.
ParkOffByOne(t) ==
    /\ task[t] = "parking"
    /\ armed' = [armed EXCEPT ![t] = @ \cup {asks[t] + 1}]
    /\ TaskDone(t)
    /\ UNCHANGED <<log, claims, admitting, answering, calls, drain, sweep, restarts>>

\* The runner returned ParkedTurn; a takeover starts its deadline.
Park(t) ==
    /\ task[t] = "parking"
    /\ armed' = [armed EXCEPT ![t] = IF last[t] = "takeover" THEN @ \cup {asks[t]} ELSE @]
    /\ TaskDone(t)
    /\ UNCHANGED <<log, claims, admitting, answering, calls, drain, sweep, restarts>>

\* The runner returned or raised; the closing snapshot is awaited next.
Finishing(t) ==
    /\ task[t] \in {"live", "parking"} /\ Owned(t)
    /\ task' = [task EXCEPT ![t] = "closing"]
    /\ UNCHANGED <<log, running, claims, admitting, answering, armed, calls, drain,
                   sweep, asleep, restarts>>

\* A mutant of Finished that trusts the check made before the snapshot.
FinishedUnchecked(t) ==
    /\ task[t] = "closing"
    /\ AppendClosing(t, "finished")
    /\ TaskDone(t)
    /\ UNCHANGED <<thread, asks, asked, claims, admitting, answering, armed, calls,
                   drain, sweep, restarts>>

\* turn.completed or turn.failed.
Finished(t) ==
    /\ task[t] = "closing" /\ Owned(t)
    /\ AppendClosing(t, "finished")
    /\ TaskDone(t)
    /\ UNCHANGED <<thread, asks, asked, claims, admitting, answering, armed, calls,
                   drain, sweep, restarts>>

\* A task that lost its turn ends without an event: cancelled, or refused by emit.
Stopped(t) ==
    /\ task[t] # "none" /\ ~Owned(t)
    /\ TaskDone(t)
    /\ UNCHANGED <<log, claims, admitting, answering, armed, calls, drain, sweep, restarts>>

-----------------------------------------------------------------------------
(* Answering a parked turn: respond and resume_takeover, then              *)
(* _resume_parked.  The answer appends nothing, so the turn stays parked   *)
(* in the log until its own next event.                                    *)

\* A mutant of Resume for which a parked routine still owns the instance.
ResumeRoutineAtOnce(t) ==
    LET th == thread[t] IN
    /\ th # NoThread
    /\ answering
    /\ Waits(t, th)
    /\ claims[th] = Free /\ running[th] = NoTurn
    /\ claims' = [claims EXCEPT ![th] = Claim("turn", t)]
    /\ admission' = [admission EXCEPT ![t] = "resuming"]
    /\ UNCHANGED <<log, running, admitting, answering, task, armed, cut, ending, step,
                   revert, drain, sweep, asleep, restarts>>

Resume(t) ==
    LET th == thread[t] IN
    /\ th # NoThread
    /\ answering
    /\ Waits(t, th)
    /\ claims[th] = Free /\ running[th] = NoTurn
    /\ t \in RoutineTurns => Available(t)
    /\ claims' = [claims EXCEPT ![th] = Claim("turn", t)]
    /\ admission' = [admission EXCEPT ![t] = "resuming"]
    /\ UNCHANGED <<log, running, admitting, answering, task, armed, cut, ending, step,
                   revert, drain, sweep, asleep, restarts>>

\* The checkpoint is read.  An interrupt meanwhile replaced the claim.
Restored(t) ==
    /\ admission[t] = "resuming"
    /\ claims[thread[t]] = Claim("turn", t)
    /\ admission' = [admission EXCEPT ![t] = "none"]
    /\ Release(thread[t], Claim("turn", t))
    /\ Spawn(t)
    /\ Changed
    /\ UNCHANGED <<log, admitting, answering, armed, cut, ending, step, revert, drain,
                   sweep, restarts>>

\* The claim was replaced, or the checkpoint no longer holds the turn.
NotRestored(t) ==
    /\ admission[t] = "resuming"
    /\ admission' = [admission EXCEPT ![t] = "none"]
    /\ Release(thread[t], Claim("turn", t))
    /\ Changed
    /\ UNCHANGED <<log, running, admitting, answering, task, armed, cut, ending, step,
                   revert, drain, sweep, restarts>>

-----------------------------------------------------------------------------
(* Interrupting.  A running turn is cancelled and given a while to settle; *)
(* a parked one is only claimed.  Then the closing snapshot, and the event.*)

CutsRunning(t, th) == running[th] = t /\ t # NoTurn /\ cut[t] = "none"
CutsParked(t, th) ==
    /\ \A u \in Turns : running[th] = u => cut[u] # "none"
    /\ Waits(t, th)
    /\ claims[th].kind \notin InterruptedClaims
Interruptible(th) == \E t \in Turns : CutsRunning(t, th) \/ CutsParked(t, th)

\* What an interrupt does before its first await.
BeginCut(t, th) ==
    /\ CutsRunning(t, th) \/ CutsParked(t, th)
    /\ claims' = [claims EXCEPT ![th] = Claim("cut", t)]
    /\ cut' = [cut EXCEPT ![t] = IF CutsRunning(t, th) THEN "settling" ELSE "capturing"]

Interrupt(t, th) ==
    /\ BeginCut(t, th)
    /\ UNCHANGED <<log, running, admitting, answering, task, armed, admission, ending,
                   step, revert, drain, sweep, asleep, restarts>>

\* A mutant of Settled that waits for a runner however long it takes.
SettledOnlyWhenDone(t) ==
    /\ cut[t] = "settling" /\ task[t] = "none"
    /\ cut' = [cut EXCEPT ![t] = "capturing"]
    /\ UNCHANGED <<log, running, claims, admitting, answering, task, armed, admission,
                   ending, step, revert, drain, sweep, asleep, restarts>>

\* The task is done, or _SETTLE_SECONDS passed.
Settled(t) ==
    /\ cut[t] = "settling"
    /\ cut' = [cut EXCEPT ![t] = "capturing"]
    /\ UNCHANGED <<log, running, claims, admitting, answering, task, armed, admission,
                   ending, step, revert, drain, sweep, asleep, restarts>>

\* A task still alive is no longer the thread's: it goes on, and owns nothing.
Interrupted(t) ==
    /\ cut[t] = "capturing"
    /\ AppendClosing(t, "interrupted")
    /\ cut' = [cut EXCEPT ![t] = "none"]
    /\ Release(thread[t], Claim("cut", t))
    /\ running' = IF running[thread[t]] = t
                    THEN [running EXCEPT ![thread[t]] = NoTurn] ELSE running
    /\ Changed
    /\ UNCHANGED <<thread, asks, asked, admitting, answering, task, armed, admission,
                   ending, step, revert, drain, sweep, restarts>>

-----------------------------------------------------------------------------
(* The deadline of a takeover (_abandon).                                  *)

\* It looks at the log and the claims, and not at the thread's task.
Deadline(t, n) ==
    /\ n \in armed[t]
    /\ armed' = [armed EXCEPT ![t] = @ \ {n}]
    /\ IF last[t] = "takeover" /\ asks[t] = n /\ claims[thread[t]] = Free
         THEN /\ claims' = [claims EXCEPT ![thread[t]] = Claim("abandon", t)]
              /\ ending' = ending \cup {t}
         ELSE UNCHANGED <<claims, ending>>
    /\ UNCHANGED <<log, running, admitting, answering, task, admission, cut, step, revert,
                   drain, sweep, asleep, restarts>>

Abandoned(t) ==
    /\ t \in ending
    /\ AppendClosing(t, "abandoned")
    /\ ending' = ending \ {t}
    /\ Release(thread[t], Claim("abandon", t))
    /\ Changed
    /\ UNCHANGED <<thread, asks, asked, running, admitting, answering, task, armed,
                   admission, cut, step, revert, drain, sweep, restarts>>

-----------------------------------------------------------------------------
(* A factory step holds the whole instance (Turns.step, run_step).         *)

StepCall(s) ==
    /\ step[s] = "idle"
    /\ step' = [step EXCEPT ![s] = "waiting"]
    /\ UNCHANGED <<log, running, claims, admitting, answering, task, armed, admission, cut,
                   ending, revert, drain, sweep, asleep, restarts>>

\* One pass of the waiter: refused, the instance taken, or asleep on _changed.
StepWaiter(s) ==
    /\ step[s] = "waiting" /\ s \notin asleep
    /\ \/ /\ ~admitting
          /\ step' = [step EXCEPT ![s] = "done"]
          /\ UNCHANGED <<claims, asleep>>
       \/ /\ admitting /\ Holding = {} /\ ~Claimed
          /\ step' = [step EXCEPT ![s] = "holding"]
          /\ claims' = [claims EXCEPT ![s] = Claim("step", s)]
          /\ UNCHANGED asleep
       \/ /\ admitting /\ (Holding # {} \/ Claimed)
          /\ asleep' = asleep \cup {s}
          /\ UNCHANGED <<step, claims>>
    /\ UNCHANGED <<log, running, admitting, answering, task, armed, admission, cut, ending,
                   revert, drain, sweep, restarts>>

\* The step ran no turn, or its turn has its closing event.
StepDone(s) ==
    /\ step[s] = "holding"
    /\ admission[s] = "none"
    /\ last[s] = "none" \/ closed[s] # {}
    /\ step' = [step EXCEPT ![s] = "done"]
    /\ Release(s, Claim("step", s))
    /\ Changed
    /\ UNCHANGED <<log, running, admitting, answering, task, armed, admission, cut, ending,
                   revert, drain, sweep, restarts>>

-----------------------------------------------------------------------------
(* A revert of the workspace, and its preview, which a drain still takes.  *)

\* A mutant of BeginRevert that looks at the turns and not at the claims.
BeginRevertUnclaimed(v, th) ==
    /\ revert[v] = NoThread
    /\ v \in Previews \/ admitting
    /\ Holding = {}
    /\ \E t \in Turns : thread[t] = th /\ closed[t] # {}
    /\ claims' = [claims EXCEPT ![th] = Claim("revert", v)]
    /\ revert' = [revert EXCEPT ![v] = th]
    /\ UNCHANGED <<log, running, admitting, answering, task, armed, admission, cut, ending,
                   step, drain, sweep, asleep, restarts>>

BeginRevert(v, th) ==
    /\ revert[v] = NoThread
    /\ v \in Previews \/ admitting
    /\ Holding = {} /\ ~Claimed
    /\ \E t \in Turns : thread[t] = th /\ closed[t] # {}
    /\ claims' = [claims EXCEPT ![th] = Claim("revert", v)]
    /\ revert' = [revert EXCEPT ![v] = th]
    /\ UNCHANGED <<log, running, admitting, answering, task, armed, admission, cut, ending,
                   step, drain, sweep, asleep, restarts>>

\* A mutant of EndRevert that wakes nobody.
EndRevertQuietly(v) ==
    /\ revert[v] # NoThread
    /\ Release(revert[v], Claim("revert", v))
    /\ revert' = [revert EXCEPT ![v] = NoThread]
    /\ UNCHANGED <<log, running, admitting, answering, task, armed, admission, cut, ending,
                   step, drain, sweep, asleep, restarts>>

EndRevert(v) ==
    /\ revert[v] # NoThread
    /\ Release(revert[v], Claim("revert", v))
    /\ revert' = [revert EXCEPT ![v] = NoThread]
    /\ Changed
    /\ UNCHANGED <<log, running, admitting, answering, task, armed, admission, cut, ending,
                   step, drain, sweep, restarts>>

-----------------------------------------------------------------------------
(* Draining (InstanceRuntime.drain).  A forced drain interrupts everything *)
(* first; a plain one already waiting may be escalated.                    *)

Drain ==
    /\ drain = "none" /\ sweep.pc = "idle"
    /\ admitting' = FALSE
    /\ drain' = "waiting"
    /\ UNCHANGED <<log, running, claims, answering, task, armed, calls, sweep, asleep,
                   restarts>>

ForceDrain ==
    /\ drain # "sealed" /\ sweep.pc = "idle"
    /\ admitting' = FALSE
    /\ sweep' = [sweep EXCEPT !.pc = "scan"]
    /\ UNCHANGED <<log, running, claims, answering, task, armed, calls, drain, asleep,
                   restarts>>

\* Nothing to interrupt: the sweep is over, or waits for a turn mid-reservation.
SweepIdle ==
    /\ sweep.pc = "scan" /\ Sweeper \notin asleep
    /\ \A th \in Live \cup Parked : ~Interruptible(th)
    /\ IF Live \cup Parked = {}
         THEN /\ sweep' = [sweep EXCEPT !.pc = "done"]
              /\ drain' = "waiting"
              /\ UNCHANGED asleep
         ELSE /\ asleep' = asleep \cup {Sweeper}
              /\ UNCHANGED <<sweep, drain>>
    /\ UNCHANGED <<log, running, claims, admitting, answering, task, armed, calls, restarts>>

\* The threads seen at the start of a pass are interrupted one after another.
SweepCut(th, todo) ==
    /\ th \in todo
    /\ \E t \in Turns :
         /\ BeginCut(t, th)
         /\ sweep' = [pc |-> "cutting", todo |-> todo \ {th}, on |-> t]
    /\ UNCHANGED <<log, running, admitting, answering, task, armed, admission, ending, step,
                   revert, drain, asleep, restarts>>
SweepPass(th) == sweep.pc = "scan" /\ Sweeper \notin asleep /\ SweepCut(th, Live \cup Parked)
SweepNext(th) == sweep.pc = "cutting" /\ cut[sweep.on] = "none" /\ SweepCut(th, sweep.todo)

SweepAgain ==
    /\ sweep.pc = "cutting" /\ cut[sweep.on] = "none"
    /\ \A th \in sweep.todo : ~Interruptible(th)
    /\ sweep' = [pc |-> "scan", todo |-> {}, on |-> NoTurn]
    /\ UNCHANGED <<log, running, claims, admitting, answering, task, armed, calls, drain,
                   asleep, restarts>>

\* A mutant of Seal that waits for turns and not for claims.
SealUnclaimed ==
    /\ drain = "waiting" /\ Sealer \notin asleep
    /\ IF Live = {}
         THEN answering' = FALSE /\ drain' = "sealed" /\ UNCHANGED asleep
         ELSE asleep' = asleep \cup {Sealer} /\ UNCHANGED <<answering, drain>>
    /\ UNCHANGED <<log, running, claims, admitting, task, armed, calls, sweep, restarts>>

\* Turns.seal: one pass of its waiter.
Seal ==
    /\ drain = "waiting" /\ Sealer \notin asleep
    /\ IF Live = {} /\ ~Claimed
         THEN answering' = FALSE /\ drain' = "sealed" /\ UNCHANGED asleep
         ELSE asleep' = asleep \cup {Sealer} /\ UNCHANGED <<answering, drain>>
    /\ UNCHANGED <<log, running, claims, admitting, task, armed, calls, sweep, restarts>>

\* The process ends, drained or not, and boots again over the same log.
Restart ==
    /\ restarts < MaxRestarts
    /\ restarts' = restarts + 1
    /\ step' = [s \in StepTurns |-> IF step[s] = "idle" THEN "idle" ELSE "done"]
    /\ running' = [th \in Threads |-> NoTurn]
    /\ claims' = [k \in Keys |-> Free]
    /\ admitting' = TRUE /\ answering' = TRUE
    /\ task' = [t \in Turns |-> "none"]
    /\ admission' = [t \in Turns |-> "none"]
    /\ cut' = [t \in Turns |-> "none"]
    /\ armed' = [t \in Turns |-> {}]
    /\ ending' = {}
    /\ revert' = [v \in Reverts |-> NoThread]
    /\ drain' = "none"
    /\ sweep' = NoSweep
    /\ asleep' = {}
    /\ UNCHANGED log

-----------------------------------------------------------------------------
Next ==
    \/ \E t \in Turns : Started(t) \/ WakeFailed(t)
    \/ \E t \in Turns : Work(t) \/ Park(t) \/ Finishing(t) \/ Finished(t) \/ Stopped(t)
    \/ \E t \in Turns, kind \in AskKinds : Ask(t, kind)
    \/ \E t \in Turns : Resume(t) \/ Restored(t) \/ NotRestored(t)
    \/ \E t \in Turns : Settled(t) \/ Interrupted(t) \/ Abandoned(t)
    \/ \E t \in Turns, n \in 1..MaxAsks : Deadline(t, n)
    \/ \E t \in Turns, th \in Threads :
         Receive(t, th) \/ Wake(t, th) \/ WakeNewThread(t, th) \/ Interrupt(t, th)
    \/ \E t \in Turns : WakeRecorded(t)
    \/ \E s \in StepTurns : StepCall(s) \/ StepWaiter(s) \/ StepDone(s)
    \/ \E s \in StepTurns, th \in Threads : StepTurn(s, th)
    \/ \E v \in Reverts : EndRevert(v)
    \/ \E v \in Reverts, th \in Threads : BeginRevert(v, th)
    \/ \E th \in Threads : SweepPass(th) \/ SweepNext(th)
    \/ Drain \/ ForceDrain \/ SweepIdle \/ SweepAgain \/ Seal
    \/ Restart

Spec == Init /\ [][Next]_vars

\* What asyncio and the code's timeouts bring to an end.  Nothing makes a user
\* answer, a runner return or a client ask for anything.
Fairness ==
    /\ \A t \in Turns : /\ WF_vars(Started(t))
                        /\ WF_vars(Restored(t) \/ NotRestored(t))
                        /\ WF_vars(Settled(t))
                        /\ WF_vars(Interrupted(t))
                        /\ WF_vars(Abandoned(t))
    /\ \A s \in StepTurns : WF_vars(StepWaiter(s)) /\ WF_vars(StepDone(s))
    /\ \A v \in Reverts : WF_vars(EndRevert(v))
    /\ WF_vars(SweepIdle \/ SweepAgain \/ \E th \in Threads : SweepPass(th) \/ SweepNext(th))
    /\ WF_vars(Seal)

FairSpec == Spec /\ Fairness

-----------------------------------------------------------------------------
(* Properties.                                                             *)

\* A turn has one closing event and nothing after it: an interrupt, a
\* completion and a resume that race leave one of them in the log.  A turn whose
\* takeover was abandoned is the exception: its deadline may fail a turn that was resumed.
ClosedIsFinal ==
    [][\A t \in Turns : closed[t] # {} /\ "abandoned" \notin closed'[t]
         => closed'[t] = closed[t] /\ last'[t] = last[t]]_vars

\* A routine at work, running or reserved, is the only one at work in the
\* workspace (require_available).
RoutineAlone ==
    \A th \in Live : LiveTurn(th) \in RoutineTurns => Live = {th}

\* While a factory step holds the instance, no turn but its own is at work.
StepAlone ==
    \A s \in StepTurns : step[s] = "holding" => \A th \in Live : LiveTurn(th) = s

\* While a revert's claim stands, no turn is at work under it.
RevertClaimAlone ==
    \A v \in Reverts :
        revert[v] # NoThread /\ claims[revert[v]] = Claim("revert", v) => Live = {}

\* Once sealed, no turn is at work or can be, and no step holds the instance,
\* until the next start: the process may be stopped.
SealedIsQuiet ==
    ~answering => /\ ~admitting
                  /\ Live = {}
                  /\ \A t \in Turns : admission[t] # "waking"
                  /\ \A s \in StepTurns : step[s] # "holding"

\* A waiter asleep on _changed has something left to wait for, so the change
\* that ends its wait has yet to wake it.
NoLostWakeup ==
    /\ \A s \in StepTurns \cap asleep : Holding # {} \/ Claimed
    /\ Sealer \in asleep => Live # {} \/ Claimed
    /\ Sweeper \in asleep => /\ Live \cup Parked # {}
                             /\ \A th \in Threads : ~Interruptible(th)

\* A forced drain ends, with no turn at work and none parked.
ForcedDrainEnds ==
    sweep.pc = "scan" ~> (drain = "sealed" /\ Live \cup Parked = {})

=============================================================================
