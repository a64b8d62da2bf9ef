----------------------------- MODULE Scheduler -----------------------------
(***************************************************************************)
(* The scheduler of one instance (src/kinby/core/scheduler.py): the        *)
(* deliveries it keeps for its routines, the passes that fire one routine  *)
(* at a time, the failure policy that turns a routine off, and the         *)
(* notifications it raises on the hub (plugins/notify.py).                 *)
(*                                                                         *)
(* The event log and the routines' files survive a restart; the armed      *)
(* times, the pass and the turn under way do not.  An append suspends      *)
(* nothing (core/events.py holds its lock across no await), so a handler   *)
(* is atomic up to its next await: a call to the hub, the snapshot before  *)
(* a turn, the wait for the turn to end.  Each append and each file write  *)
(* is durable alone, so a crash may come between two of them (TornAt).     *)
(* Turns models what holds the instance in full; here one routine's turn   *)
(* does.                                                                   *)
(***************************************************************************)
EXTENDS Integers, Sequences, FiniteSets, Functions

CONSTANTS
    Routines,       \* the routines, all of them on a schedule
    Deliveries,     \* the deliveries, each with the provider's id or from a user
    For,            \* the routine a delivery is for
    Manual,         \* the deliveries that are payloads of routine.run
    DISABLE_AFTER,  \* failed firings in a row that turn a routine off
    TornAt,         \* where a crash may part two writes of one handler
    MaxFirings,     \* bound on due times and on routine.run without a payload
    MaxEdits,       \* bound on the user's edits of a routine's enabled field
    MaxNotes,       \* bound on the notifications turns raise
    MaxTroubles,    \* bound on firings a budget or a failure stops, and on lost answers and
                    \* refusals of the hub
    MaxRestarts,    \* bound on restarts of the instance
    Nobody, Nothing \* no routine and no delivery

ASSUME Named == IsFiniteSet(Routines) /\ For \in [Deliveries -> Routines] /\ Manual \subseteq Deliveries
ASSUME Apart == Routines \cap Deliveries = {} /\ Nobody \notin Routines /\ Nothing \notin Deliveries
ASSUME Limit == DISABLE_AFTER \in Nat /\ DISABLE_AFTER >= 2
ASSUME Points == TornAt \subseteq {"start", "policy", "notice"}
ASSUME Bounds == {MaxFirings, MaxEdits, MaxNotes, MaxTroubles, MaxRestarts} \subseteq Nat

VARIABLES
    \* The event log, the bodies beside it and the routines' files.
    arrivals,   \* how often each delivery's signal.received was appended
    starts,     \* how often a turn of the delivery was started
    bodies,     \* waiting_deliveries
    streak,     \* the fold of each routine's failures
    parked,     \* the routines with a turn parked on an approval
    last,       \* what became of each routine's latest turn
    raised,     \* how many notification.raised events there are
    accepted,   \* those a notification.accepted was recorded for
    refused,    \* those a notification.refused was recorded for
    enabled,    \* the enabled field of each ROUTINE.md
    \* The instance's memory.
    armed,      \* the routines armed at a later time
    ready,      \* deliveries that wait and routines that are due, oldest first
    turn,       \* what holds the instance
    pc,         \* where the pass is
    todo,       \* the notifications the pass still raises, the oldest first
    telling,    \* the notification a turn is raising (0: none)
    \* The hub.
    hub,        \* the keys of the notifications recorded
    \* History: what the user has seen of each routine since turning it on again.
    turnedOff,  \* whether the failure policy turned it off, as its notice in the log says, and no
                \* turn of it has completed with work since
    seen,       \* its failed firings in a row since, as far as the policy counts
    used        \* what is spent of each bound

\* pending_notifications leaves out what the hub has answered, either way.
answered == accepted \cup refused

log == <<arrivals, starts, bodies, streak, parked, last, raised, accepted, refused>>
pass == <<pc, todo>>
vars == <<log, enabled, armed, ready, turn, pass, telling, hub, turnedOff, seen, used>>

Waiting == Deliveries \cup Routines
Holders == Routines \cup {Nobody}
NoTurn == [phase |-> "none", who |-> Nobody, delivery |-> Nothing, by |-> "client"]
Streaks == [count : Nat, off : BOOLEAN, failed : Seq(Nat)]
Clean == [count |-> 0, off |-> FALSE, failed |-> <<>>]
Spent == {"firings", "edits", "notes", "troubles", "restarts"}

Can(what, bound) == used[what] < bound
Use(what) == used' = [used EXCEPT ![what] = @ + 1]

Init ==
    /\ arrivals = [d \in Deliveries |-> 0] /\ starts = [d \in Deliveries |-> 0]
    /\ bodies = {} /\ streak = [r \in Routines |-> Clean] /\ parked = {}
    /\ last = [r \in Routines |-> "never"] /\ raised = 0
    /\ accepted = {} /\ refused = {}
    /\ enabled = [r \in Routines |-> TRUE]
    /\ armed = Routines /\ ready = <<>> /\ turn = NoTurn
    /\ pc = "waiting" /\ todo = {} /\ telling = 0 /\ hub = <<>>
    /\ turnedOff = [r \in Routines |-> FALSE] /\ seen = [r \in Routines |-> 0]
    /\ used = [s \in Spent |-> 0]

(***************************************************************************)
(* The failure policy.                                                     *)
(***************************************************************************)
\* A routine that is on again after the policy turned it off starts afresh.
Reset(s, on) == IF on /\ s.off THEN Clean ELSE s
ResetFailures(rs) ==
    streak' = [r \in Routines |-> IF r \in rs THEN Reset(streak[r], enabled[r]) ELSE streak[r]]

Disables(s, on) == on /\ \E c \in Range(s.failed) : c >= DISABLE_AFTER
Handled(s, on) == [s EXCEPT !.off = @ \/ Disables(s, on), !.failed = <<>>]
Notices(s, on) == (IF 1 \in Range(s.failed) THEN {"first"} ELSE {})
                  \cup (IF Disables(s, on) THEN {"disabled"} ELSE {})

\* Mutant of After: a pass resets nothing.
AfterNoReset(r) == streak[r]

\* The routines the policy turns off now, and the notices it raises.
After(r) == Reset(streak[r], enabled[r])
TurnsOff == {r \in Routines : Disables(After(r), enabled[r])}
NewNotices == {n \in Routines \X {"first", "disabled"} : n[2] \in Notices(After(n[1]), enabled[n[1]])}

\* disable_routine writes the file before anything is appended.
TurnOff(rs) ==
    /\ enabled' = [r \in Routines |-> enabled[r] /\ r \notin rs]
    /\ turnedOff' = [r \in Routines |-> turnedOff[r] \/ r \in rs]
    /\ UNCHANGED seen

\* Mutant of HandleFailures: only this pass's own notices are raised.
HandleOwnNotices ==
    /\ TurnOff(TurnsOff)
    /\ streak' = [r \in Routines |-> Handled(After(r), enabled[r])]
    /\ raised' = raised + Cardinality(NewNotices)
    /\ todo' = raised + 1 .. raised'

HandleFailures ==
    /\ TurnOff(TurnsOff)
    /\ streak' = [r \in Routines |-> Handled(After(r), enabled[r])]
    /\ raised' = raised + Cardinality(NewNotices)
    /\ todo' = (1 .. raised') \ answered

(***************************************************************************)
(* Deliveries and schedules.                                               *)
(***************************************************************************)
\* Mutant of Unseen: only a delivery that still waits is known.
UnseenWaiting(d) == d \notin Range(ready) /\ arrivals[d] < 2

\* _receive answers a provider's repeated id with the first arrival.
Unseen(d) == arrivals[d] = 0

Receive(d) ==
    /\ Unseen(d)
    /\ d \in Manual \/ enabled[For[d]]      \* the receiver answers 410 for a disabled routine
    /\ ResetFailures(IF d \in Manual THEN {For[d]} ELSE {})
    /\ arrivals' = [arrivals EXCEPT ![d] = @ + 1]
    /\ bodies' = bodies \cup {d}
    /\ ready' = Append(ready, d)
    /\ UNCHANGED <<starts, parked, last, raised, accepted, refused, enabled, armed, turn, pass, telling,
                   hub, turnedOff, seen, used>>

Due(r) ==
    /\ r \in armed /\ Can("firings", MaxFirings) /\ Use("firings")
    /\ armed' = armed \ {r}
    /\ ready' = Append(ready, r)
    /\ UNCHANGED <<log, enabled, turn, pass, telling, hub, turnedOff, seen>>

\* _arm: an enabled routine that is not armed yet is, at a later time, and a
\* disabled one is no longer.
On == {r \in Routines : enabled[r]}
Arm == On \ Range(ready)

\* What is ready and in xs, in the order it became ready (there is one such sequence).
Orders(xs) == {order \in [1 .. Cardinality(xs) -> xs] : IsInjective(order)}
Kept(xs) ==
    {[k \in DOMAIN place |-> ready[place[k]]] :
        place \in {order \in Orders({i \in DOMAIN ready : ready[i] \in xs}) :
                      \A k, l \in DOMAIN order : k < l => order[k] < order[l]}}
Keep(xs) == ready' \in Kept(xs)
KeepReady == Keep(Deliveries \cup On)

\* What a pass may start, the oldest: any delivery of a routine that is on,
\* a user's payload of any, and a due schedule.
MayStart(x) == x \in Manual \cup On \/ (x \in Deliveries /\ enabled[For[x]])
Oldest == {x \in Range(ready) : MayStart(x) /\ \E i \in DOMAIN ready :
             ready[i] = x /\ \A j \in 1 .. i - 1 : ~MayStart(ready[j])}

Owner(x) == IF x \in Deliveries THEN For[x] ELSE x
Reserved(r, d, by) == [phase |-> "reserved", who |-> r, delivery |-> d, by |-> by]

(***************************************************************************)
(* A pass: the worker handles failures, raises what the hub has not        *)
(* answered, starts the oldest work and waits for its turn to end.         *)
(***************************************************************************)
Begin ==
    /\ pc = "waiting" /\ turn = NoTurn
    /\ HandleFailures
    /\ pc' = "raising"
    /\ UNCHANGED <<arrivals, starts, bodies, parked, last, accepted, refused, armed, ready, turn, telling,
                   hub, used>>

Rest ==
    /\ pc = "closing" /\ todo = {}
    /\ pc' = "waiting"
    /\ UNCHANGED <<log, enabled, armed, ready, turn, todo, telling, hub, turnedOff, seen,
                   used>>

\* Nothing waits, or what holds the instance began while the pass called the hub.
NothingToStart ==
    /\ pc = "raising" /\ todo = {}
    /\ Oldest = {} \/ turn # NoTurn
    /\ armed' = Arm /\ KeepReady
    /\ pc' = "waiting"
    /\ UNCHANGED <<log, enabled, turn, todo, telling, hub, turnedOff, seen, used>>

Choose ==
    /\ pc = "raising" /\ todo = {} /\ turn = NoTurn
    /\ armed' = Arm /\ KeepReady
    /\ \E x \in Oldest :
          turn' = Reserved(Owner(x), IF x \in Deliveries THEN x ELSE Nothing, "pass")
    /\ pc' = "starting"
    /\ UNCHANGED <<log, enabled, todo, telling, hub, turnedOff, seen, used>>

\* Mutant of OverBudget: a delivery is put off like a schedule.
OverBudgetDrops ==
    /\ pc = "raising" /\ todo = {} /\ turn = NoTurn
    /\ Can("troubles", MaxTroubles) /\ Use("troubles")
    /\ \E x \in Oldest : armed' = Arm \cup ({x} \cap Routines) /\ Keep((Deliveries \cup On) \ {x})
    /\ pc' = "waiting"
    /\ UNCHANGED <<log, enabled, turn, todo, telling, hub, turnedOff, seen>>

\* The day's budget is spent: the schedule waits for its next time, a delivery
\* for a later pass.
OverBudget ==
    /\ pc = "raising" /\ todo = {} /\ turn = NoTurn
    /\ Can("troubles", MaxTroubles) /\ Use("troubles")
    /\ \E x \in Oldest :
          IF x \in Deliveries THEN armed' = Arm /\ KeepReady
          ELSE armed' = Arm \cup {x} /\ Keep((Deliveries \cup On) \ {x})
    /\ pc' = "waiting"
    /\ UNCHANGED <<log, enabled, turn, todo, telling, hub, turnedOff, seen>>

AfterTurn ==
    /\ pc = "drained"
    /\ HandleFailures
    /\ pc' = "closing"
    /\ UNCHANGED <<arrivals, starts, bodies, parked, last, accepted, refused, armed, ready, turn, telling,
                   hub, used>>

(***************************************************************************)
(* Turns.                                                                  *)
(***************************************************************************)
\* routine.run without a payload fires at once, unless something holds the instance.
RunNow(r) ==
    /\ turn = NoTurn /\ Can("firings", MaxFirings) /\ Use("firings")
    /\ ResetFailures({r})
    /\ turn' = Reserved(r, Nothing, "client")
    /\ UNCHANGED <<arrivals, starts, bodies, parked, last, raised, accepted, refused, enabled, armed, ready,
                   pass, telling, hub, turnedOff, seen>>

\* What starting the turn of item x leaves armed and ready.
Rearmed(r) == armed \cup {r}
Starts(x) == Keep(Waiting \ {x})

\* _wake appends turn.started, and _start drops the body then.
Started ==
    /\ turn.phase = "reserved"
    /\ turn' = [turn EXCEPT !.phase = "running"]
    /\ last' = [last EXCEPT ![turn.who] = "run"]
    /\ IF turn.delivery # Nothing
       THEN /\ starts' = [starts EXCEPT ![turn.delivery] = @ + 1]
            /\ bodies' = bodies \ {turn.delivery}
            /\ Starts(turn.delivery) /\ UNCHANGED armed
       ELSE /\ armed' = Rearmed(turn.who) /\ Starts(turn.who)
            /\ UNCHANGED <<starts, bodies>>
    /\ pc' = IF turn.by = "pass" THEN "draining" ELSE pc
    /\ UNCHANGED <<arrivals, streak, parked, raised, accepted, refused, enabled, todo, telling, hub,
                   turnedOff, seen, used>>

\* The snapshot before the turn failed: the pass ends, and a later one tries again.
StartFails ==
    /\ turn.phase = "reserved" /\ Can("troubles", MaxTroubles) /\ Use("troubles")
    /\ turn' = NoTurn
    /\ pc' = IF turn.by = "pass" THEN "waiting" ELSE pc
    /\ UNCHANGED <<log, enabled, armed, ready, todo, telling, hub, turnedOff, seen>>

Running(r) == turn.phase = "running" /\ turn.who = r

\* The turn ends or parks: what holds the instance, and the pass that waited for it.
TurnOver ==
    /\ turn' = NoTurn
    /\ pc' = IF turn.by = "pass" THEN "drained" ELSE pc
    /\ UNCHANGED <<arrivals, starts, bodies, raised, accepted, refused, enabled, armed, ready, todo, hub,
                   used>>

\* turn.completed with work ends the streak, and with it what the user would reset by turning
\* the routine on; without work it leaves the streak alone.
Completes(r) ==
    /\ Running(r) /\ telling = 0
    /\ \/ /\ streak' = [streak EXCEPT ![r] = Clean]
          /\ turnedOff' = [turnedOff EXCEPT ![r] = FALSE] /\ seen' = [seen EXCEPT ![r] = 0]
       \/ UNCHANGED <<streak, turnedOff, seen>>
    /\ TurnOver
    /\ UNCHANGED <<parked, last, telling>>

Counted(s) == [s EXCEPT !.count = @ + 1, !.failed = Append(@, s.count + 1)]

Fails(r) ==
    /\ Running(r) /\ telling = 0
    /\ streak' = [streak EXCEPT ![r] = Counted(@)]
    /\ seen' = [seen EXCEPT ![r] = IF @ < DISABLE_AFTER THEN @ + 1 ELSE @]
    /\ TurnOver
    /\ UNCHANGED <<parked, last, telling, turnedOff>>

\* An interrupt also cancels the call of the notify tool.
Interrupted(r) ==
    /\ Running(r)
    /\ last' = [last EXCEPT ![r] = "interrupted"]
    /\ telling' = 0
    /\ TurnOver
    /\ UNCHANGED <<streak, parked, turnedOff, seen>>

\* A routine has at most one parked turn here, a bound.
Parks(r) ==
    /\ Running(r) /\ telling = 0 /\ r \notin parked
    /\ parked' = parked \cup {r}
    /\ last' = [last EXCEPT ![r] = "parked"]
    /\ TurnOver
    /\ UNCHANGED <<streak, telling, turnedOff, seen>>

Resumes(r) ==
    /\ r \in parked /\ turn = NoTurn
    /\ parked' = parked \ {r}
    /\ turn' = [Reserved(r, Nothing, "client") EXCEPT !.phase = "running"]
    /\ UNCHANGED <<arrivals, starts, bodies, streak, last, raised, accepted, refused, enabled, armed, ready,
                   pass, telling, hub, turnedOff, seen, used>>

(***************************************************************************)
(* Notifications.  A turn raises its own as soon as it is recorded; a pass *)
(* raises again whatever has no answer recorded.                           *)
(***************************************************************************)
TurnNotifies ==
    /\ turn.phase = "running" /\ telling = 0 /\ Can("notes", MaxNotes) /\ Use("notes")
    /\ raised' = raised + 1
    /\ telling' = raised + 1
    /\ UNCHANGED <<arrivals, starts, bodies, streak, parked, last, accepted, refused, enabled, armed, ready,
                   turn, pass, hub, turnedOff, seen>>

Note(by) ==
    IF by = "turn" THEN {telling} \ {0}
    ELSE {n \in todo : pc \in {"raising", "closing"} /\ \A m \in todo : n <= m}

\* Mutant of Known: each call of the hub makes a notification.
KnownNever(k) == FALSE

\* hub/outbox.py: a key the instance raised before names the notification it made then.
Known(k) == k \in Range(hub)
Recorded(k) == hub' = IF Known(k) THEN hub ELSE Append(hub, k)

\* The call is over: a pass goes on to the next one only with an answer.
CallOver(by, left) ==
    /\ telling' = IF by = "turn" THEN 0 ELSE telling
    /\ todo' = IF by = "pass" THEN left ELSE todo
    /\ UNCHANGED <<arrivals, starts, bodies, streak, parked, last, raised, enabled, armed, ready,
                   turn, pc, turnedOff, seen>>

HubTakes(by) ==
    /\ \E n \in Note(by) :
          /\ Recorded(n)
          /\ accepted' = accepted \cup {n}
          /\ CallOver(by, todo \ {n})
    /\ UNCHANGED <<refused, used>>

\* The hub has enough of the instance's notifications for the day, its daily cap, and takes no key
\* it does not know.  The refusal is recorded, and no pass raises the notification again.
HubRefuses(by) ==
    /\ Can("troubles", MaxTroubles) /\ Use("troubles")
    /\ \E n \in Note(by) :
          /\ ~Known(n)
          /\ refused' = refused \cup {n}
          /\ CallOver(by, todo \ {n})
    /\ UNCHANGED <<accepted, hub>>

HubAnswers(by) == HubTakes(by) \/ HubRefuses(by)

\* The hub is out of reach, or its answer is lost.
Unanswered(by) ==
    /\ Can("troubles", MaxTroubles) /\ Use("troubles")
    /\ \E n \in Note(by) : Recorded(n) \/ UNCHANGED hub
    /\ CallOver(by, {})
    /\ UNCHANGED <<accepted, refused>>

(***************************************************************************)
(* The user, and restarts.                                                 *)
(***************************************************************************)
List ==
    /\ ResetFailures(Routines)
    /\ armed' = Arm /\ KeepReady
    /\ UNCHANGED <<arrivals, starts, bodies, parked, last, raised, accepted, refused, enabled, turn, pass,
                   telling, hub, turnedOff, seen, used>>

\* By the app, the agent's tool or a hand edit of ROUTINE.md.
Edit(r) ==
    /\ Can("edits", MaxEdits) /\ Use("edits")
    /\ enabled' = [enabled EXCEPT ![r] = ~@]
    /\ seen' = [seen EXCEPT ![r] = IF turnedOff[r] THEN 0 ELSE @]
    /\ turnedOff' = [turnedOff EXCEPT ![r] = FALSE]
    /\ UNCHANGED <<log, armed, ready, turn, pass, telling, hub>>

\* A routine whose latest turn was not interrupted catches up on a time that
\* passed since, ahead of or behind the deliveries that still wait.
CatchUps == {r \in Routines : last[r] \in {"run", "parked"}}

Forgotten ==
    /\ Can("restarts", MaxRestarts) /\ Use("restarts")
    /\ turn' = NoTurn /\ pc' = "waiting" /\ todo' = {} /\ telling' = 0

Boot(on, waiting) ==
    \E missed \in SUBSET {r \in CatchUps : on[r]} :
       /\ armed' = {r \in Routines : on[r]} \ missed
       /\ \E pending \in Kept(waiting), due \in Orders(missed) : ready' \in {due \o pending, pending \o due}

Restart ==
    /\ Forgotten
    /\ Boot(enabled, Deliveries)
    /\ UNCHANGED <<log, enabled, hub, turnedOff, seen>>

\* Between turn.started and the drop of the body.
RestartAtStart ==
    /\ "start" \in TornAt
    /\ turn.phase = "reserved" /\ turn.delivery # Nothing
    /\ starts' = [starts EXCEPT ![turn.delivery] = @ + 1]
    /\ last' = [last EXCEPT ![turn.who] = "run"]
    /\ Forgotten
    /\ Boot(enabled, Deliveries \ {turn.delivery})
    /\ UNCHANGED <<arrivals, bodies, streak, parked, raised, accepted, refused, enabled, hub, turnedOff, seen>>

Handling == (pc = "waiting" /\ turn = NoTurn) \/ pc = "drained"

\* Between the last routine.failure.handled and its notification.raised.
RestartAtNotice ==
    /\ "notice" \in TornAt /\ Handling /\ NewNotices # {}
    /\ TurnOff(TurnsOff)
    /\ streak' = [r \in Routines |-> Handled(After(r), enabled[r])]
    /\ raised' = raised + Cardinality(NewNotices) - 1
    /\ Forgotten
    /\ Boot(enabled', Deliveries)
    /\ UNCHANGED <<arrivals, starts, bodies, parked, last, accepted, refused, hub>>

\* The failures of done are handled, and r's up to its i-th, whose turning off is only in r's file.
HandledUpTo(r, i, done) ==
    /\ streak' = [q \in Routines |->
          IF q \in done THEN Handled(After(q), enabled[q])
          ELSE IF q = r THEN [After(r) EXCEPT !.failed = SubSeq(@, i, Len(@))]
          ELSE After(q)]
    /\ raised' = raised + Cardinality({n \in NewNotices : n[1] \in done \/ n = <<r, "first">>})
    /\ enabled' = [q \in Routines |-> enabled[q] /\ q \notin {r} \cup (done \cap TurnsOff)]
    /\ turnedOff' = [q \in Routines |-> turnedOff[q] \/ q \in done \cap TurnsOff]
    /\ UNCHANGED seen

\* Between the write of routine r's file and its routine.failure.handled, with the
\* failures of some other routines handled before: the notice is never written.
RestartAtPolicy ==
    /\ "policy" \in TornAt /\ Handling
    /\ \E r \in TurnsOff : \E done \in SUBSET (Routines \ {r}), i \in DOMAIN After(r).failed :
          /\ After(r).failed[i] >= DISABLE_AFTER
          /\ \A j \in 1 .. i - 1 : After(r).failed[j] < DISABLE_AFTER
          /\ HandledUpTo(r, i, done)
    /\ Forgotten
    /\ Boot(enabled', Deliveries)
    /\ UNCHANGED <<arrivals, starts, bodies, parked, last, accepted, refused, hub>>

Pass == Begin \/ Choose \/ OverBudget \/ NothingToStart \/ AfterTurn \/ Rest
Callers == {"turn", "pass"}

Next ==
    \/ \E d \in Deliveries : Receive(d)
    \/ \E r \in Routines : Due(r) \/ RunNow(r) \/ Edit(r)
    \/ \E r \in Routines : Completes(r) \/ Fails(r) \/ Interrupted(r) \/ Parks(r) \/ Resumes(r)
    \/ Pass \/ Started \/ StartFails \/ TurnNotifies \/ List
    \/ \E by \in Callers : HubAnswers(by) \/ Unanswered(by)
    \/ Restart \/ RestartAtStart \/ RestartAtPolicy \/ RestartAtNotice

Spec == Init /\ [][Next]_vars

\* The worker goes on, a call to the hub comes to an end, and so does a turn: its
\* budgets end it, however often it parks on the way.
Fairness ==
    /\ WF_vars(Pass) /\ WF_vars(Started)
    /\ \A r \in Routines : SF_vars(Completes(r) \/ Fails(r) \/ Interrupted(r))
    /\ \A by \in Callers : WF_vars(HubAnswers(by))
FairSpec == Spec /\ Fairness

\* Every variable keeps its type (the state of core/scheduler.py and the log it folds).
TypeOK ==
    /\ arrivals \in [Deliveries -> 0 .. 2] /\ starts \in [Deliveries -> 0 .. 2]
    /\ bodies \subseteq Deliveries /\ streak \in [Routines -> Streaks] /\ parked \subseteq Routines
    /\ last \in [Routines -> {"never", "run", "parked", "interrupted"}]
    /\ raised \in Nat /\ answered \subseteq 1 .. raised
    /\ enabled \in [Routines -> BOOLEAN] /\ armed \subseteq Routines
    /\ ready \in Seq(Waiting) /\ IsInjective(ready) /\ Range(ready) \cap armed = {}
    /\ turn \in [phase : {"none", "reserved", "running"}, who : Holders,
                  delivery : Deliveries \cup {Nothing}, by : {"pass", "client"}]
    /\ pc \in {"waiting", "raising", "starting", "draining", "drained", "closing"}
    /\ todo \subseteq 1 .. raised /\ telling \in 0 .. raised
    /\ hub \in Seq(1 .. raised)
    /\ turnedOff \in [Routines -> BOOLEAN] /\ seen \in [Routines -> Nat]
    /\ used \in [Spent -> Nat]

\* A provider that sends a delivery again, before or after its turn, gets the
\* first arrival back (Scheduler._receive), and no restart starts it again.
FiredOnce == \A d \in Deliveries : starts[d] <= arrivals[d] /\ arrivals[d] <= 1

\* A delivery that waits still has the body its turn is handed, over restarts (ADR 0117).
BodyWaits == \A d \in Deliveries : d \in bodies \/ starts[d] = arrivals[d]

\* A delivery is one turn with its body, whatever its provider sends again and
\* whatever restarts come between its arrival and its turn.
DeliveriesKept == TypeOK /\ FiredOnce /\ BodyWaits

\* A notification reaches the hub's outbox once, whichever of the turn and the
\* passes raise it and whichever answers are lost, and the log says of none that the
\* hub accepted it which the hub does not have (plugins/notify.py, hub/outbox.py).
NotifiedOnce == IsInjective(hub) /\ accepted \subseteq Range(hub)

\* ADR 0087: the failure policy turns a routine off only for failed firings in a row
\* since the user turned it on again after a disable that has its notice in the log,
\* unless a turn completed with work before he did: then the streak was over.
\* (After a crash between the routine's file and the notice, RestartAtPolicy, the old
\* streak goes on: turnedOff does not count such a disable.)
FreshStart ==
    [][\A r \in Routines : ~turnedOff[r] /\ turnedOff'[r] => seen[r] >= DISABLE_AFTER]_vars

\* A delivery that waits is started, unless its routine is turned off meanwhile.
DeliveriesFire ==
    \A d \in Deliveries :
        arrivals[d] > 0 ~> starts[d] > 0 \/ (d \notin Manual /\ ~enabled[For[d]])

\* Once the hub is in reach, it answers every notification the log holds: takes or refuses it.
NoticesReach == <>[](answered = 1 .. raised)
=============================================================================
