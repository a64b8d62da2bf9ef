# kinby in TLA+

A verification project for kinby (`src/src/kinby`): agent *instances*, each one
process with an event log and a workspace, and a *hub* that runs their
containers, drives factory runs over them and carries their notifications.

Paths below are relative to `src/src/kinby` unless they start with `docs/`.

- [The modules](#the-modules)
- [Inventory](#inventory)
- What runs the work: [Turns](#turns), [GatedTurn](#gatedturn), [StepCalls](#stepcalls-and-steponce), [FactoryRuns](#factoryruns), [RunValues](#runvalues), [Scheduler](#scheduler)
- What keeps it: [Snapshots](#snapshots), [Ticket](#ticket), [Recap and Dreams](#recap-and-dreams), [Picks](#picks), [Configuration](#configuration)
- What serves it: [Lifecycle](#lifecycle), [Desk](#desk), [Pairing](#pairing), [Transcript](#transcript-and-feed), [Browsers](#browsers)
- [The runs](#the-runs), [Findings](#findings), [Other divergences](#other-divergences)
- [What is proved](#what-is-proved)
- [What is not modelled](#what-is-not-modelled), [Plan](#plan)

## The modules

| module | what it is | code |
|---|---|---|
| `Turns` | who may work in one instance's workspace: turns, factory steps, reverts, interrupts, takeover deadlines, drain | `core/turns.py`, `core/runtime.py` |
| `GatedTurn` | the tool calls of one routine's turn: the gate, its asks, the answers over replays and restarts | `core/turn_runner.py`, `core/gate.py` |
| `StepOnce` | abstract: an attempt at a step executes at most once and is recorded as what it came to | ADR 0102, 0107 |
| `StepCalls` | the exchange that achieves it: hub worker, attempts, connection, held results; implements `StepOnce` | `hub/runs.py`, `core/held_results.py` |
| `FactoryRuns` | the journey of runs through a factory's steps, what they park on, the calls their stops owe | `hub/runs.py`, `hub/registry.py`, `factories/` |
| `RunValues` | what a run holds from step to step: recorded values, retries, send-backs, resumed sessions, the factory check | `hub/runs.py`, `factories/check.py` |
| `Scheduler` | deliveries, schedules, passes, the failure policy and notifications of one instance | `core/scheduler.py`, `core/routine_history.py`, `plugins/notify.py` |
| `Snapshots` | captures, reverts and previews over the shadow repository's one index | `core/snapshots.py`, `core/turns.py` |
| `Ticket` | one issue of the shipped software factory: worktree, agent branch, pull request, labels | `core/run_worktrees.py`, `factories/shipped/software/` |
| `Recap` | the queue that writes an episode for each turn and each stop of a run | `memory/recap.py` |
| `Dreams` | consolidation, reflection and pruning over episodes and facts, beside the user's forgets | `memory/` |
| `Picks` | a library skill and an instance's copy of it, picked or supplied | `hub/library.py`, `hub/template_sync.py` |
| `Configuration` | edits of routines, skills and files, beside the scheduler's disables and the grants | `core/config.py`, `plugins/instance_tools.py`, `instance/` |
| `Lifecycle` | create, start, stop, recreate, update, remove, restore, delete, adopt; images; recovery | `hub/service.py`, `hub/recovery.py`, `hub/registry.py` |
| `Desk` | notifications through channels, replies back, approvals of the hub's own writes | `hub/outbox.py`, `replies.py`, `approvals.py` |
| `Pairing` | the channels themselves: set-up, secrets, the route a service calls, the user each is paired with | `hub/channels.py`, `hub/secrets.py`, `hub/telegram.py` |
| `Feed` | abstract: a reader is given every event of a thread once, in order, in the end | |
| `Transcript` | the subscription that achieves it over two sockets; implements `Feed` | `core/events.py`, `hub/relay.py`, `cli/contract_socket.py` |
| `Browsers` | the cap on browsers and the service that runs while one is lent | `hub/browser.py`, `hub/playwright_browser.py` |
| `TurnsProofs`, `StepCallsProofs`, `FactoryRunsProofs`, `RunsProofs`, `KeepingProofs`, `SchedulerProofs`, `ServingProofs`, `LifecycleProofs` | theorems, for every value of the constants | |
| `MCServing` | composes `Desk`, `Pairing`, `Transcript`, `Browsers` on small instances | |
| `MCKeeping` | composes `Recap`, `Dreams`, `Picks`, `Configuration`, `Ticket`, `Snapshots` | |
| `MCRuns` | composes `StepCalls`, `FactoryRuns`, `RunValues`, `GatedTurn` | |
| `MCTurns`, `MCStepCalls`, `MCFactoryRuns`, `MCScheduler`, `MCLifecycle`, `MCGatedTurn`, `MCSnapshots`, `MCFactories`, `MCLines` | the small instances, factories and lines of steps | |

The detailed modules meet at narrow seams. A factory step that `FactoryRuns`
offers as one action is the whole exchange of `StepCalls`. The execution in
`StepCalls` waits for the instance as `Turns`' `StepWaiter` does. The turn that
`Scheduler` starts goes through `Turns`' `WakeRecorded` or `WakeNewThread`. What a
turn does between its start and its end is one choice in `Turns`, and `GatedTurn`
opens it up. Each module abstracts its neighbour to what the neighbour's own
properties justify: `FactoryRuns` takes from `StepCalls` that an offer is answered
once, `RunValues` takes from `FactoryRuns` that one driver moves a run, and
`Scheduler` takes from `Turns` that a routine works alone.

`MCServing`, `MCKeeping` and `MCRuns` check several modules in one run. Their parts
share no state, so **a behaviour is one part's**: the variable `part` is chosen at
the start, that part moves, and the others stay as they start (`MCServing`) or at 0.
A property of a part is stated as `part = "..." => ...`, and the run's states are the
sum and not the product of the parts'.

All of the Python is asyncio, one event loop per process: a handler is atomic
from one `await` to the next, and that is the grain of the actions. Two things
fix which awaits count. `EventLog.append` (`core/events.py`) holds its lock over
no await, so appending never suspends. Every registry method (`hub/registry.py`)
is one synchronous SQLite transaction. A crash may come between two appends, two
transactions or a file write and an append. Each module names the crash points it
takes into account. Edits of an instance's files are the one thing that runs in a
worker thread (`Configuration`). Git and Docker are the other grain: one command at a time.

## Inventory

What each part keeps, does and talks to, where it is hard, and what makes it
correct. `PROJECT.json` lists the same parts with their status, and every hazard
with its line.

**Turn admission (`core/turns.py`).** State: `_running` (a task per thread),
`_claims` (what reserves a thread or the instance), `_admitting`, `_answering`,
`_deadlines`, the condition `_changed`; and the event log it reads back.
Operations: wake, wake a recorded delivery, wake in a new thread, start a step's
turn, respond to an approval, finish a takeover, interrupt, interrupt all,
preview and revert, step, drain, seal. Called by the dispatcher, the scheduler
and the step runner. Hard: admission reads claims, tasks and the log, which
change at different awaits; parked turns resume at any time; interrupts,
deadlines and completions race for the closing event. Correct when nothing shares
the workspace that must not, each turn ends once, no waiter sleeps for ever, and
a sealed instance stays quiet.

**Scheduler (`core/scheduler.py`, `core/routine_history.py`).** State: armed
times, one worker and one lock per pass; in the log `signal.received`, turns,
`routine.failure.handled`, `routine.failures.reset`, notifications and their
answers; stored bodies; the `enabled` field of each `ROUTINE.md`. Hard: provider
repeats, restarts with work waiting, edits by any path between passes, a hub out
of reach. Correct when a delivery starts once and is not lost, the failure policy
counts what it should, and each notification is made on the hub at most once and
answered in the end.

**Held results and steps (`core/held_results.py`, `core/steps.py`).** State: one
file per run with its latest call and, once there, the result; the tasks under
way. Hard: repeats of a call before, during and after its execution, and over a
restart of the instance. Correct when an attempt executes once, and its result
waits for the hub.

**Factory runs (`hub/runs.py`, tables of `hub/registry.py`).** State: runs,
attempts, owed calls and reports in SQLite; per instance a queue and a worker;
timers; matched waits; per-call backoffs. Operations: intake, retry, send back,
approve, cancel, signal, resume, and the workers. Talks to the instances by
contract calls, each over a control socket of its own (`hub/control.py`). Hard: two
transactions per move, timers against signals against users, restarts of the hub,
calls that fail. Correct when one thing drives a run at a time, finished is
final, owed calls are made once, and a run left alone comes to rest.

**Outbox, replies, approvals (`hub/outbox.py`, `replies.py`, `approvals.py`).**
State: notifications, a delivery per channel, replies, the hub's writes that wait
for a word. Hard: a channel that fails for hours, a crash after sending or between
marking a reply and calling the instance, two replies to one notification. Correct
when a notification is delivered or given up, one reply counts, and a write is made
once and only on the user's word.

**Channels (`hub/channels.py`, `hub/secrets.py`, `hub/telegram.py`, `discord.py`, `email.py`).**
State: a row per channel in the registry, its secret settings in one protected file.
Operations: create, update, delete, test, and the public route a service calls. Hard:
the row is read before an await, and the service is told its route before anything is
kept. Correct when one user is paired, the first with the code, only his replies count,
and what is kept is what the service was told.

**Hub lifecycle (`hub/service.py`, `recovery.py`, `images.py`, `adoption.py`).**
State: a record and a list of operations per instance, its container, its directory
and volume, the images. Hard: a crash between the record and the container, an
update that must roll back, a collection of images beside a create. Correct when
recovery leaves each record agreeing with a container, and nothing in use goes.

**Event log and transcript (`core/events.py`, `hub/relay.py`, `cli/contract_socket.py`).**
State: append-only rows, a bounded queue per subscriber, the reader's cursor. Hard:
replay meeting the live queue, overflow, a drop at any point. Correct when a reader
is given every event once and in order.

**The tools of a turn (`core/turn_runner.py`, `gate.py`).** State: the graph's
checkpoint with its grants and marks, the answers so far, the log. Hard: a resume
runs the node again from its first call and meets asks with answers by position,
while policy, tools, grants and marks change. Correct when a call runs once and on
the answer to that very call.

**Memory (`memory/`).** State: a queue of recaps with a marker for each done one, a
graph of nodes, the dream's routines. Hard: a stop between an episode and its
marker; turns that park while nodes they framed are pruned or forgotten. Correct when
no recap is forgotten, a cited episode stays, and no fact escapes reflection.

**Snapshots (`core/snapshots.py`).** State: the shadow repository with its one index
and its lock, the refs, the log's `snapshot` and `workspace.reverted` entries. Hard:
captures on several threads share the index; git fails or is killed; a death part
way through a restore. Correct when a snapshot is one moment's workspace and what a
revert overwrites can be had back.

**Run worktrees and the shipped factory (`core/run_worktrees.py`, `factories/`).**
State: a worktree and an agent branch per issue, origin, the pull request, labels.
Hard: late calls of an earlier run, sweeps, cuts between two commands of git. Correct
when the work of a run that is not over is never thrown away.

**Library, picks and templates (`hub/library.py`, `template_sync.py`).** State: the
library's folders, the rows of git skills, each instance's copies with their lock
file. Hard: updates cut short, a template's skill that becomes a pick. Correct when
what the agent made of its copy stays.

**Configuration (`core/config.py`, `plugins/instance_tools.py`, `instance/config_changes.py`, `routine_grants.py`).**
State: the files and folders under the instance, the `config.changed` log, the grants of
each routine, a lock for routines, one for skills, one for single files. Hard: an edit in a
thread beside the scheduler and a parked turn's answer on the event loop, which take no
lock; a crash between a change, its record and the revocation. Correct when an edit
lands over what its caller read, is on record, and leaves no grant to a routine that is
no longer what the user granted it to.

**Browsers (`hub/browser.py`, `playwright_browser.py`, `takeovers.py`).** State: who
has a browser lent, the service, an idle timer, a lock per page. Hard: a page asked
for just as the idle wait passes, a service that dies. Correct when the service never
stops under a lent browser and does not run on for nobody.

**Other parts**: method tables, prompt, plugins, vault, usage, the setup wizard,
command line, web app, contracts, statistics. They hold little state that a protocol
depends on; `PROJECT.json` says of each what is modelled or why nothing is.

## Turns

*State.* `thread`, `last`, `asks`, `closed` and `asked` are what the log says of
each turn and thread (`parked_on`, `latest_in_open_turns`). `running` is
`_running`, `claims` is `_claims` (one record per claim class), `admitting` and
`answering` are the two flags, `armed` is `_deadlines`. `admission`, `cut`,
`ending`, `step` and `revert` are calls between two of their awaits. `asleep` holds
the waiters inside `_changed.wait()`: every `_changed.set()` clears it (`Changed`).

*Actions.* `Wake`, `WakeRecorded`, `WakeNewThread` and `StepTurn` are the checks and
the claim of `_wake` before the workspace snapshot, and `Started` or `WakeFailed`
what follows it. `Work`, `Ask`, `Park`, `Finishing`, `Finished` and `Stopped` are
`_finish`. `Resume` then `Restored` or `NotRestored` are `_resume_parked`.
`Interrupt`, `Settled`, `Interrupted` are `interrupt`. `Deadline`, `Abandoned` are
`_abandon`. `StepCall`, `StepWaiter`, `StepDone` are `step`. `BeginRevert`, `EndRevert`
are `revert` and its preview. `Drain`, `ForceDrain`, the `Sweep...` actions and
`Seal` are the drain. `Restart` is `boot_instance`: memory is gone and the log stays.

*Abstracted.* What a turn does between start and end is one choice of outcome
(`Work`, `Ask`, `Finishing`). Snapshots succeed or fail. A task that is done and one
that was removed are not told apart, because every reader asks for tasks that are
not done.

*Fairness* (`FairSpec`). What asyncio and the code's timeouts bring to an end goes
on: starts, restores, the settle timeout of an interrupt, the sweep, the seal. No
fairness is assumed of users, of runners or of clients.

## GatedTurn

*State.* The files (`policy`, `grants`, `marks`), the graph's checkpoint (`state`,
`msg`, `round`, `saved`, `answers`), the node in progress (`node`, `next`,
`emitted`), what the runner was given at its start (`loaded`), and the log (`asked`,
`called`, `ran`). `said`, `asUser`, `given` and `moved` are history: what the user
answered of each call, which calls ran on his word, which grants came from the turn,
and whether two runs of the graph met different policies.

*Actions.* `CallModel` draws a message of up to `MaxCalls` calls; `LogCall`,
`GateCall`, `MeetAnswer`, `Stop` are the gate over the calls in order; `RunCall` runs
them. `Respond` and `ResumeAsOfNow` answer the pending ask and run the node again
from its first call. `ChangePolicy`, `EditRoutine`, `GrantOrRevoke` and
`MarkOrUnmark` change the files at any time, `Restart` stops the process.

*Abstracted.* Effects, modes and `permissions.toml` are one choice per tool of
"allow", "ask", "deny", "always" and "gone". A tool's result is left out.

## StepCalls and StepOnce

*State.* The registry's view of one run (`status`, `at`, `ended`, `open`,
`recorded`, `spent`, `stops`, `reported`), the hub's memory (`queue`, `worker`,
`later`), the control socket (`conn`, `answer`, `pending`), and the instance
(`held` on disk; `latest`, `task` in memory). `execution` and `began` are history.

*Actions.* `TakeStep`, `Send`, `Lost`, `Refused`, `Resend`, `EndAttempt`, `Settle`
and `Unreached` are the worker's loop (`_run_queued`); `TakeReport`, `Reported` and
`ReportAgain` the needs-human report; `JoinTask`, `AnswerHeld`, `StartTask`,
`BeginStep`, `StepEnds`, `StepRaises` and `StepRefused` are `held_results.py`.
`RestartHub` is `FactoryRuns.resume`. `LoseConnection`, `Drain`, `RestartInstance` and
`RemoveInstance` are the environment.

*Abstracted.* Only instances with the `step_once` capability. The instance takes
calls in the order they were sent, also over two sockets. The report goes to the
instance that runs the steps. Results are clean or failed; `FactoryRuns` has the
rest. Removal stops the instance. An execution that raised may be repeated, as
`held_results.py:71-80` forgets it.

*Refinement.* `Once == INSTANCE StepOnce` with the history variables, and
`ImplementsStepOnce == Once!Spec`: every step of the exchange executes, ends,
records or refuses an attempt, or stutters.

*Fairness.* The worker goes on and backoffs end. A call offered again and again is
sent at last (strong fairness on `Send`): the hub opens a socket for each offer
(`hub/control.py`) and offers for ever. A step gets its turn (strong fairness on `BeginStep`, which `Turns`' waiters
on `_changed` justify) and ends, because its budgets end it. A drained instance is
started again.

## FactoryRuns

*State.* The registry's run rows (`status`, `step`, `open`, `failures`, `sent`,
`wakes`, `gen`, `reported`, `owes`; `told` for `mark_told`), the hub's memory
(`queue`, `work`, `paused`, `later`, `armed`, `strays`, `woken`), `moving` for the
stretch between the move of a run and its `_enqueue`, and `resuming` for `resume`.

*Actions.* `Accept`, `Retry`, `SendBack`, `Approve` and `Cancel` are the user's and
the instance's calls. `Place`, `Refuse`, `Park` and `PassWait` are `_enqueue`.
`TakeStep`, `OfferAgain`, `Limited`, `Undelivered` and `Answer` are the worker on a
step; `TakeCall`, `CallMade`, `CallFailed` and `CallAgain` the calls a stop owes.
The `Signal...` actions are `signal_accepted`, `Expire` and `StrayExpires` the timers
of `_arm`, and `RestartHub`, `ResumeQueued`, `ResumeParked` and `ResumeOwed` are
`resume`: it collects what is owed, queues the runs one by one, arms the parked ones,
and queues the collected calls, the needs_human calls first.

*Abstracted.* A factory is a record of what the runs tell apart: the kind of each
step, where "back" and failures are sent, limits and timers. The outcomes "stop"
and "done" are allowed at any step. Instances stay. Lost answers are `StepCalls`'.
`end_attempt` and `move_run` are one step here, and the crash between them is
`step_calls_torn`; a crash between a move and its `_enqueue` is in (`MaxTorn`). A
refused placement stands for a role nobody holds or a value that is not there (`RunValues`). A
signal that matches several runs is one signal per run. The needs-human and ended
calls are always declared. A stop's notification is raised by `Desk`, which takes it
as it comes.

*Fairness.* Placing and resuming go on, workers take entries, an offered step is
answered (`StepCalls`), timers expire, backoffs end, calls get through again. All
bad events have a bound, so weak fairness is enough. Nothing is assumed of users
or signals: a run parked on either counts as at rest.

## RunValues

*State.* The attempts of a run in order, each with the values it recorded and the
attempt its session was resumed from; the run's place and status. *Actions.*
`Begin` and `Refuse` take a step or charge the step whose lack stops it; `Settle`
ends it clean, failed, sent back or over; `Limit`, `Wake` and `Restart` are windows of
a plan and the user's retry. `Fold` is `_results`, the code's fold over the attempts;
`ResultsOfThisPass` states what it should come to without a fold. `LineFactories` are the
factories considered; `Declared` says what the file of any can say at all and is
assumed of them, `Passes` is `factories/check.py`, and only lines that pass it run.
`WithinMax` bounds the times work went from one step to another by the largest max
of the edges between the two, since two outcomes of a step may lead to the same
one and `_tally` counts by steps; one more for the attempt that stopped at it.

*Abstracted.* A value is typed right, typed wrong or false. Times and sizes are out.

## Scheduler

*State.* The log as its folds (`arrivals`, `starts`, `streak`, `parked`, `last`,
`raised`, `accepted`, `refused`), `bodies` (`waiting_deliveries`) and `enabled` survive;
`armed`, `ready`, `turn`, `pc`, `todo` and `telling` do not. `ready` is the order in
which waiting deliveries and due times came, which is all the scheduler asks of
time. `hub` is the outbox's keys. `turnedOff` (the policy turned it off and its notice
is in the log) and `seen` (failed firings in a row since the routine was last on
afresh) are history.

*Actions.* `Receive` is `_receive`. `Begin`, `Choose`, `OverBudget`,
`NothingToStart`, `AfterTurn` and `Rest` are `tick`. `HandleFailures` is
`_handle_failures` with `_reset_failures` first. `Started` and `StartFails` end
`_start` and `_fire`. `HubTakes`, `HubRefuses` and `Unanswered` are `raise_recorded` on
both of its paths, the turn's own and the pass's: a refusal is recorded and the
notification is not raised again, though the hub holds nothing of it
(`test_notify.py` 203-217). `Edit` is any change of `enabled`; `List`
is `Scheduler.list`, which resets streaks too. There are four crashes: between two
handlers, between `turn.started` and the drop of the body, between the routine's
file and `routine.failure.handled`, and between that and `notification.raised`.

*Abstracted.* One holder of the instance, a routine's turn; `Turns` has the rest,
and a user's turn holds as `RunNow`'s does. Every routine has a schedule with
`catch_up`. A routine has at most one parked turn. The daily cap is a
refusal the hub may give for any key it does not know, one of the bounded troubles;
the notification the hub makes of the cap itself has a key of the hub's and is not
in `hub`. Catch-ups
come ahead of or behind the deliveries that wait. Draining is `Turns`'.

*Fairness.* The pass goes on, a start comes to an end, the hub answers once it is
in reach (troubles are bounded), and a turn ends however often it parks on the way
(strong fairness: its budgets end it).

## Snapshots

*State.* `files` with `rules`, the names the live `.gitignore` lists; the one
`index` and who holds its lock; `refs`, the recorded trees; the `log` of turns and
reverts; a `job` per thread, the git command it is at; `rebuilding`, whose capture
rebuilds the index. `seen` (in a job) and `lost` are history: the workspaces of the
capture so far, and what restores overwrote.

*Actions.* `StartTurn`, `FinishTurn`, `StartRevert` and `StartPreview` open a job;
`TakeIndex`, `Empty`, `Add`, `Write`, `Record` and `Checkout` are its git commands;
`GitFails`, `Interrupt` and `Die` cut it anywhere. `Edit` is a turn of another thread
that writes meanwhile. A job that was cut goes on to its end, as the code shields it.

*Known and so modelled.* With two threads at work a snapshot holds the other's
changes (`CONTEXT.md:339-343`). A killed git may leave `index.lock`, after which every
capture fails and turns go on without snapshots. *Left out:* a runner that goes on
writing after its interrupt, and the user's own edits during a revert.

## Ticket

*State.* The issue's labels, the run (`run`, `owed`), its worktree (`tree`), the agent
branch here and on origin (`refs`, `has`), where a command sequence was cut (`at`), the
pull request, the review thread, a blocker's branch. A branch is the set of commits
past its base. `missed` is history: commits someone pushed that no fetch has seen.

*Actions.* `Prepare` with `Recut`, the three ends of `code`, `LandBase` and
`CherryPick`, `PushBranch`, `OpenPull` and `RepliesPosted`, `Assess`; the calls
`ReportNeedsHuman` and `ReportEnded`; the sweep inside `OtherPrepares`; `Retry`,
`SendBack`, `Cancel`; the maintainer's and GitHub's `LabelReady`, `CloseIssue`,
`MergePull`, `ClosePull`, `Review`, `SomeonePushes` and `BlockerMerges`. `DieInPublish`
cuts a publish between its commands.

*Abstracted.* What the hub does between steps is only what the tools ask of it.
Kinds of checks, stacks and the trust of authors are `StepFails`; labels do not lag.

## Recap and Dreams

`Recap`: `Close` and `Tell` end a turn or tell a run's stop; `Take`, `Draft`, `Remember`
and `Mark` are the one worker; `Restart` queues what has no marker, in the order it
ended (`Unrecapped` is the set of those orders, which is one). An episode of a stop has
the stop's id, one of a turn a fresh id; hence at most one more episode per restart.

`Dreams`: the stages are turns that `Start`, `Consolidate`, `Reflect`, `Prune`, `Park`
and `Answer`, and end by `Complete` or `Interrupt`. `Forget` is the user's, `Midnight`
dates things. `WriteFact` and `Cover` are apart, as the fact's file and its event are
two writes. What a model writes is a choice over the sources a frame shows.

## Picks

One skill with two texts. `held` is the instance's copy with what `skills-lock.json`
says of it; `shelf`, `shipped`, `gitSkill` are the library; `mover` is a move of files
under way. `Pick`, `PickIn`, `DropPick`, `Add`, `Remove` and `Update` are the library's
methods, `Received` an instance's update of a template, `HubStops` a stop between two
steps of any of them, `AgentEdits` and `EditTemplate` the other hands. `held.based` is
whether the hub has a baseline for the instance: one installed before hubs kept them has
none until its first update, and `Init` chooses.

## Configuration

*State.* `folder`, `logged` (the last change on record of each name) and `grant` are on
disk; `lock`, `job` (an edit in its thread), `off` and `answer` (the two stretches on
the event loop) in memory. A text stands for all that a file or folder says but
`enabled`. `crossed` and `torn` are history: the names an edit of which met a stretch
of the loop or an edit without its lock, and the names whose edit failed half way or was cut
short. Both are cleared by the next edit that ends alone.

*Actions.* `Ask`, `Begin` or `Refuse` an edit, under the lock of its kind: the hash its
client sent must still be that of the file (`Unchanged`), and `Sound` has the other
checks. `PutAside` and `Place` write, `Enable`, `Erase`, `Rename` and `GrantStep` are the other
edits, `Record` is the entry in the log and `End` revokes the grants; `RecordFails` and
`Restart` cut it anywhere. `Interrupt` is the user's interrupt of a turn in the middle of an
agent's edit: the cancelled `await` lets the lock go and the thread goes on, so another edit
may `Begin` beside it, and one of the two may find its folder gone or taken (`Fails`). `Load`, `ReadOff`, `WriteOff`, `RecordOff`, `RevokeOff` are the
scheduler's disable, `Park`, `CheckRevision` and `GrantTool` the answer that grants for
good, `Revoke` the user's revocation.

*Left out.* The tools that write code take no lock; what a loader refuses is one choice.

## Lifecycle

*State.* In the registry `rec`, `ops`, `artifacts`, `described`; in Docker `box`,
`images` and the volume in `data`, with the directory; in memory `line` (an instance's
tasks, in order), `pc` and `landed` (the call its first task is in, and whether it has
taken effect), `login`, `doomed`. A restart between a call's effect and its answer
keeps the one and loses the other.

*Actions.* `Create`, `Start`, `Stop`, `Recreate`, `Update`, `SetSecrets`, `Remove`,
`Restore`, `Delete`, `Adopt` and `SignIn` are requests; `Begin...` start their tasks;
each Docker call has a landing and an answer (`ImageBuilt`, `Probed`, `Halt`,
`RemoveContainer`, `CreateContainer`, `StartContainer`, `Ready`, `EraseDirectory`,
`EraseVolume`), and `Raises` is its failure. `Collect` and `RemoveImage` collect
images. `RestartHub`, `Recover` and what they call are `recovery.py`.

*Fairness.* Tasks, recoveries, sign-ins and collections go on, and a forced drain
ends; a drain that is not forced waits for the instance's own work.

## Desk

*State.* `raised`, `delivery`, `channel`, `muted` and `reply` in the registry;
`sending`, `tasks`, `applying` and `seen` in memory; `waits` and `took` at the instance.
*Actions.* `Raise`, `Sent`, `SendFails`, `Switch`, `DeleteChannel`, `MuteOrUnmute`;
`Reply`, then `Apply` and `Moved`, `InstanceTakes`, `AnswerComes`, `AnswerLost`,
`CannotTake` for the reply under the lock; `Decides` and `HomeWrites` for approvals;
`DayPasses`, `Restart`. *Fairness.* Deliveries and replies run on and days pass.

## Pairing

*State.* `row` in the registry and `secret` in the hub's secrets file; `request`, the calls
of the web app and of services that wait. `told` is what each service was told its route
with. `first`, `willed`, `taken`, `crossed` and `cut` are history: the first sender of the
code in time, what the user asked for call by call, the replies handed on, the
channels changed while an update of them waited, those at which the hub stopped
between two writes.

*Actions.* `Create` and `Update` tell a bot's service first (`Begins`, `Tell`), then keep the
secret and write the row (`Answered`), unless it refuses (`Refused`). `Delete` and `Test`
with `Tested` are the user's, `Receive` and `Received` a call of the service, `Lapse` the end
of the code's quarter of an hour, `Restart` a stop between two of these and
`KeepsSecretOnly` one between two writes.

*Abstracted.* One text for a configuration, one token for all secret settings; a call that
is not authentic says nothing. Mutes are `Desk`'s.

## Transcript and Feed

The log (`head`), the server's `streams` with their queues, the frames `up` and `down`,
and the client: `live`, `sub`, what the reader `got`. `Receive` opens a stream, `Fill`
and `Drain` its replay and queue; `ReadAhead` fills the queue of events before the
socket takes them and overflows when it is full; `Drop` ends both sockets at any moment; `Connect`,
`Subscribe`, `Answer` and `Render` are the client. `Promise == INSTANCE Feed` with
`seen <- got`: each step gives the reader the next event, or stutters, and the ends
of the socket bring it all of them. *Fairness.* The two ends run on.

## Browsers

A call opens or closes a page; `calls` has its phase, `turnLock` the pages' locks, `lent`
the cap, `service`, `address`, `idle` and `stopping` the service and its timer. `Enter`,
`Lend`, `LendTimesOut`, `StartService`, `Connect`, `Close` and `GiveBack` are a call's
steps, `IdlePasses` and `StopService` the timer's, `Dies` the service's own end. A start and
a stop may fail; `astray` is history: what they left running that no address names.

## The runs

TLC finishes each passing run with no error. Deadlock is not checked, because each
of these systems really may stop: users may ask for nothing more, a run may be
done, and the bounded events may be used up.

| run | question | instance |
|---|---|---|
| `turns_exclusion` | does any order of starts, parks, answers, interrupts, steps, reverts, drains and a restart put two turns together that must not be, lose a wake-up or end a turn twice? | one user's turn, one delivery's routine, one step, one revert, three threads, one park per turn, one restart |
| `turns_forced_drain` | does a forced drain end? | a user's turn and a delivery that park on takeovers with their deadlines, two threads; fair |
| `step_calls_liveness` | does each result arrive, does each run stop? (`StepsEnd`) | two steps, one retry, one loss, a restart of each end, removal; fair |
| `step_calls_torn` | does a restart pick up every run? (no) | a crash between `end_attempt` and `move_run` |
| `factory_runs_liveness` | do runs come to rest, are the calls made? | two runs sharing the workers of one factory, a restart, an unsent call; fair |
| `scheduler` | deliveries start once with their body, fresh streaks, each notification made at most once and answered in the end | one routine, a provider's delivery and a user's payload, each trouble once; fair |
| `lifecycle` | is nothing in use taken, does the record tell the truth, does every operation end? | an instance that is there, one to create under its name, one to adopt; an image to update to; three requests, one refusal of Docker, one restart, one exit; fair |
| `gated_turn_shift` | does a call only run on the answer to it, also when policy and tools change while the turn is parked? (no) | three tools, one message of two calls, one change |
| `serving` | `Desk`, `Pairing`, `Transcript`, `Browsers` | a capped instance, an approval and a stop with one channel and two replies; a bot and an email channel, two users, two tokens, two calls that wait, three set-ups and calls together, one stop; three events, a queue of one, two drops; four calls for two pages under a cap of one, one death; fair |
| `keeping` | `Recap`, `Dreams`, `Picks`, `Configuration`, `Ticket`, `Snapshots` | two turns and a stop told twice, two restarts; two episodes and three dreams; two texts; two editors, a routine that is there and one that is not, a file, three edits, disables, answers, interrupts and crashes in all; two runs of an issue and two commits; two turns and two reverts of two files, one ignorable, one git trouble |
| `work` | `StepCalls`, `FactoryRuns`, `RunValues`, `GatedTurn` | one step with a retry and a user's retry, one of each trouble; one run through each of two factories; five attempts of each of four lines; two messages of two calls |
| `snapshots_undo` | does reverting a revert bring everything back? (no) | one turn that takes a file off `.gitignore`, two reverts |

Several properties are conjunctions of named parts, so that a run checks them in one
pass: `StepCallsInv` is `TypeOK`, `OneSession` (an attempt has one coding session),
`HeldForTheHub` (a held result is the one the hub waits for), `OneDriver` and
`ReportOwed`. `StepsEnd` says that what is held gets recorded and that a run stops.
`RunDriver` is `TypeOK`, `OneDriver`, `CallsOwed`. `RunValuesInv` is `TypeOK`,
`ResultsOfThisPass`, `DoneHolds`, `OwnSession`, `WithinMax`. `DeliveriesKept` is
`TypeOK`, `FiredOnce`, `BodyWaits`. `LifecycleInv` is `TypeOK`, `Mounted`, `AtRest`.
`DeskInv` is `DeskTypeOK`, `OneAnswer`, `AskedOnce`, `WrittenOnce`. `SnapshotsInv` is
`SnapshotsTypeOK`, `TakenWhole`, `Recoverable`, `RevertsAlone`. `DreamsInv` is
`FactsRecorded`, `CitedKept`, `NoneSkipped`. `RecapOwed` includes `OneEpisode`.
`ConfigurationInv` is `EditedAsRead`, `NoneBeside`, `OffKeepsEdits`, `LoggedAsIs`,
`GrantedAsIs`. `PairingInv` is
`FirstIsUser`, `HisAlone`, `SetUpAsWilled`.

*Why these bounds are enough.* A conflict in `Turns` has two parties and sometimes
a third that opens the door (an interrupt, a revert), so one of each kind reaches
every pair and triple of kinds; the third thread lets each be elsewhere. The parties
are told apart by kind and not by number, and threads are interchangeable, hence
`SYMMETRY`. In `StepCalls` one retry and one user retry give up to four attempts,
so an old task, a held result and a new offer coexist; the second step is in the
fair run, where going on matters. In `FactoryRuns` a bad event is one of each kind:
the hazards are pairs of different events, such as a restart and a timer, or a
crash and an owed call, and each pair occurs. A behaviour has at most four of the seven
kinds together, two in the fair run (`MaxTroubles`). Two runs matter where they share a
worker, which is in the fair run. In `Scheduler` `DISABLE_AFTER` is 2 instead of 3:
the policy tells apart the first failure, one that reaches the limit, and
others, and the failing turns it takes come from two deliveries, a due time and a
resumed turn. In `RunValues` five attempts let work be sent back, tried again and sent
back once more. In `GatedTurn` the second call is the one whose answer could be
met by another, and the second message the one that grants carry over to. A snapshot
needs one file the other hides and two threads to share the index; a revert needs a
second one to undo it. Two edits, or an edit and a stretch of the event loop, are the parties to
a lost change, and two calls of one channel to a stale row; there a third event, such as a
crash, comes between them. A `Lifecycle` request meets another that is under way and one
that waits. Where a module is proved, the theorem has no bound.

Each property of a passing run has a mutant in `PROJECT.json`, an operator named
beside the definition it changes (such as `SealUnclaimed`, `StepEndsUnheld`,
`AfterNoReset`), under which TLC finds the property violated by the same run.

## Findings

Three runs end in a violation: the code does not do what its own docstring, comment
or ADR says. `PROJECT.json` has the lines.

1. `step_calls_torn` (`hub/runs.py:951`): a crash between ending an attempt and moving
   its run leaves a run "running" that nothing drives and nobody may retry.
2. `gated_turn_shift` (`core/turn_runner.py:1116`): when a tool or the policy changes
   while a turn is parked, the replay asks about other calls than before, and the
   user's answer to one call lets another one run.
3. `snapshots_undo` (`core/snapshots.py:128`): reverting a revert leaves out a file that
   the `.gitignore` the first revert brought back lists. A second revert to the same
   target does bring it back.

## Other divergences

Seen while modelling. The models do what the code does; a property that would say
otherwise excepts the case by name.

- `core/turns.py:815`: a takeover's deadline that passes after the answer has spawned
  the turn, and before its first event, appends `turn.failed` and closes the browser of
  a running turn. `ClosedIsFinal` excepts it, and the proofs about `Turns` assume
  `"takeover" \notin AskKinds`.
- `core/turns.py:716`: an interrupt overwrites a `RevertClaim`, so a turn may be admitted
  while the revert restores. `RevertClaimAlone` speaks of the claim as it stands.
- `hub/runs.py:894`: after `resume`, `_arm` may store a second timer without
  cancelling the first, which then ends a later park early (`strays`).
- `hub/runs.py:372`: a signal for a wait ahead of a run is dropped while the run is
  parked elsewhere.
- `core/scheduler.py`: a crash between the write of `enabled: false` and
  `routine.failure.handled` (`RestartAtPolicy`) leaves no disable notice, so a routine
  the user turns on again keeps its old streak, against ADR 0087. `FreshStart` excepts
  it.
- `hub/runs.py:1176`: in the shipped factory, when `assess` uses up its send-backs the run
  needs a human while a clean attempt of `assess` holds `pr`. The user's retry drops
  that attempt's values, `assess` is refused for want of `pr`, and `publish` is charged
  with a value "which this step did not record". An undeclared value a hook returns is
  kept, and can make a lack the work item's.
- `Ticket`: a death between `reset --hard` and `cherry-pick` in `_landed_base` loses the
  commits, and a retried publish pushes the emptied branch over origin's (`WorkKept`
  excepts the step). A late ended call of an earlier run takes `ready-for-human` off an
  issue whose later run needs one. A new `prepare` drops the recorded branch, so a run
  cancelled after it failed leaves its worktree. Another issue's `fetch` renews the
  lease of a push (`PushesKept` counts it as a fetch). A publish cut between its
  replies replies twice. A working run whose issue is closed can have its clean
  worktree swept.
- `Picks`: a stop between the `rmtree` and the rename of `_copy_in` loses the skill, one
  before the row is written makes an unedited skill count as edited, and a delete cut
  before `forget_git_skill` leaves the row. The first update of an instance with no baseline
  (`hub/registry.py:78`) writes the template's file over the instance's own, edited or not
  (`hub/template_sync.py:64`, as ADR 0084 says and `tests/test_hub_template_sync.py:205`
  asserts), but removes nothing: `AgentsKept` excepts exactly that.
- `Configuration`: the scheduler turns a failing routine off (`core/scheduler.py:459`) and an
  approval grants a tool for good (`core/turn_runner.py:541`) without `routine_lock`, so an
  edit in its thread may be written back over, or a grant may outlive the edit it crossed
  (`crossed`). The agent's edits wait for their thread in `async with routine_lock` without a
  shield (`plugins/instance_tools.py:514`, and its siblings), so an interrupt of the turn
  (`core/turns.py:702`) frees the lock while the thread writes on: the app's next edit passes
  `_check_unchanged` (`core/config.py:142`) and then writes over a text it never read, or
  fails, and the log and the grants may lag (`crossed`, `torn`). `consolidation.py:207`
  shields its own call. A crash between a change and its revocation, or a record that fails, leaves the
  grants of a routine that has changed (`torn`), while ADR 0112 says that any edit revokes them.
- `Browsers`: the idle stop forgets the address before the call to Docker (`hub/browser.py:94`),
  and a start that fails after it ran the container (`hub/docker.py:525`) sets none, so the
  service is not stopped until another page is asked for, though the module says that it "runs
  only while one is open" (`IdleStops` excepts `astray`).
- `Pairing`: an update that waits for its service writes back the name, `enabled` and
  settings it read before, over an update that came meanwhile, and one that crosses a
  deletion leaves the channel's secret behind (`crossed`). A stop between the secret and the
  row leaves a new token with old settings, or a secret without a channel (`cut`).
- `Lifecycle`: a sign-in may begin while a removal is accepted; a forced stop before a
  recreate's drain leaves the stop to its own drain; a deletion that fails half way and
  is restored takes the half for the whole (`hub/service.py:508`). A collection draws up
  its list once (`hub/images.py:103`) and `preparing_images` (`hub/registry.py:1741`)
  does not count adoptions, so one under way may take the image of a container adopted
  meanwhile, if this hub built that image too; the model gives what another manager
  brings an image of its own (`Brought`).
- `core/turns.py:518`: the log's `restored` falls back to what was recorded before,
  though ignored files were left out.

## What is proved

The theorems listed in `PROJECT.json` are checked by TLAPS, for every value of the
constants, from the assumptions their modules name. Each rests on an inductive
invariant: the property is seldom inductive, since it says that something bad did
not happen and not what keeps it from happening. Each invariant was checked by TLC
on the run's instance before it was proved.

### Turns

`TurnsProofs`, for every set of threads, turns, deliveries, steps and reverts
(`DistinctTurns`, `Subkinds`, `Bounds`).

- `TypeCorrect`: `Spec => []TypeOK`. It needs `Counted`: a turn that waits on its user
  has asked, so that the takeover it arms a deadline for is one of `1..MaxAsks`.
- `SealedStaysQuiet`: once sealed, no turn is at work or about to be, and no step
  holds the instance, until it starts again.
- `ClosedStaysFinal`: a turn has one closing event and nothing after it.
- `NobodySleepsOn`: whoever sleeps until something changes has something to wait for.
- `RoutineStaysAlone`, `StepStaysAlone`, `RevertClaimStaysAlone`: a routine at work, a
  factory step that holds the instance and a revert whose claim stands have the
  workspace to themselves.

All but the first assume `"takeover" \notin AskKinds`, because of `core/turns.py:815`
(see [Other divergences](#other-divergences)): a turn whose takeover was abandoned
after the user finished it may run on. That is `ClosedIsFinal`'s exception. It also
breaks `RoutineAlone`: the log says the turn is closed, so when it asks again it waits
unseen by `Holding`, a routine may start, and the user's answer resumes the turn
beside it. The fair drain run checks the seal with takeovers on its instance.

`Seal` finds nothing live and nothing claimed, but that nothing *becomes* live needs to
know what every call in progress still holds; and a task about to append must be
known to own an open turn. `Inv` says that, part by part:

- `OwnThreads`, `RoutineThreads`: a turn runs, waits and is reserved on its own
  thread only, and no two routine turns share one. Without the second a delivery
  could start where another routine waits, since `Holding` leaves routines out.
- `NotBegun`: a turn without events has no task, no request and no interrupt.
- `Reservations`: a start in progress keeps its claim to the end, and each turn
  claim belongs to a start in progress. This links `claims` to `admission` and is
  what the seal rests on.
- `OneOfEach`: a thread runs a turn, or reserves one, or has one waiting, never two
  different turns.
- `Cutting`: a turn being interrupted keeps the interrupt's claim, or cannot resume
  any more. Two interrupts of one turn overwrite each other's claim, so the second
  half is needed.
- `Over`: a closed turn has no task and no claim that could write to it.
- `Stepping`, `StepClaims`: the claims of steps and those of threads stay apart.
- `Draining`: whoever drains has stopped admission first.
- `NoDeadlines`, `ApprovalsOnly`: what the assumption on `AskKinds` comes to.
- `SealedIsQuiet` itself.

`InvInit` and `InvStep` prove it inductive, with one lemma per action that disturbs
more than one part (`ReserveKeepsInv` serves all four starts). `ClosedStays` then
gives the action property from `Inv` and `Inv'`.

The wake-ups rest on one fact of every action: a step that takes away a reason to
wait wakes whoever sleeps (`Changed`), and whoever goes to sleep has seen a reason.
`SameReasons` names what the reasons read, so the actions that touch none of it are
dealt with at once, and each of the others has its lemma. A sweep needs the
strengthening `SweepWaits`: it sleeps only over interrupts it has begun.

The exclusions are not inductive. `Resume` asks for nothing but its own thread: a user's
turn that waits may go on at any moment, so a routine must find no such turn when it
starts and none may come to wait while it works. `Exclusion` therefore speaks of
turns that are `Busy`, at work or (routines aside) waiting, where the properties
speak of live ones: `RoutineOnly`, `StepOnly` and `RevertOnly` say nothing is busy beside
a routine at work, a step that holds the instance or a revert's claim, and `OneStep`
that one step holds the instance at a time. A routine that waits is not busy, since
it may resume only through `Available`, and admission does look past it.
`ExclusionStep` proves the invariant on top of `Inv`, which says that a turn at work is
the live turn of its thread and of no other (`LiveAtWork`). `AvailableFinds` states what
the admission test has ruled out, and each start uses it.

### StepCalls

`StepCallsProofs`, for any number of steps, retries, losses and restarts. At most one
attempt is being made, the current one; `IInv` says what the hub and the instance
may have of it, of those before and of those after, at each point of the worker and
of its call: `Driven` (where its command is), `Owing` (where its report is owed),
`OnTheLine` (what the connection carries), `ReportsFirst` (the order of the calls),
`Tasks`, `Record`, `Elsewhere` and `Beginnings` (each execution after the first has a
loss or a restart of its own).

- `HeldAndOwed`: its three parts hold over every crash.
- `DrivenUntilTorn`: a run is driven by exactly one thing as long as no crash fell
  between ending an attempt and moving its run. With the finding of `step_calls_torn`
  this settles it: that crash is the only way to strand a run.
- `InStep`: `StepCallsInv` where `MaxTornRestarts = 0`. The hypothesis is the finding
  again. `StepCallsInv` speaks of a hub that does not die there, and the run that
  checks it has that value too.
- `StepOnceImplemented`: every behaviour implements `StepOnce`, step by step, under the
  refinement mapping `Once`. It needs `Killed`, of what is held and of what was killed.

### FactoryRuns

`FactoryRunsProofs`, for any number of runs, steps and instances, every set of checked
factories and every bound; `RunsProofs` carries the results over to the run `work`
(`RunsDriven`, `FinishedRunsStay`), for which it instantiates that module and shows that
its assumptions and definitions are those of `MCRuns`.

- `RunsHaveOneDriver`: `OneDriver`, over restarts, torn moves, and timers that nothing
  stopped.
- `CallsStayOwed`: `CallsOwed`, over calls that fail and stops that come while `resume`
  is still queueing what it collected.
- `FinishedRunsAreFinal`: `FinishedIsFinal`.

Where the properties say that a run's step is in one place, the invariant must say what
may be anywhere at all, since the worker trusts what it takes. Of a run, the lines (a
worker and its queue) hold no step but the one it is at, and only if that is work
(`BadSteps`), and no call of a stop that has not been (`BadCalls`). A worker that backs off
has a step (`Backing`), and a hub that is not resuming has no run left to queue (`Idle`).
`Clocked` says of every timer what it times: the entry of `_deadlines` is that of the park
the run is in, `wakes_at` is set only at a parked step of work, and a stray timer ends a
wait or a window. That is what makes a stray timer harmless to `OneDriver`, though it may
end a park early. `CallOwed` relates the call of each stop to `told`, `owes` and
`reported`, and a needs_human call that is not the latest stop's is at most in one place.

`Free`, `Only` and the lemmas on them say what joining a queue, taking its first entry
and emptying all of them do to an entry's only place. `MoveKeeps` serves the actions that
move a run, whatever moved it. For the proof `resume` queues the collected calls one
by one and not all at once, which the model can tell apart only by a crash in
between, and that collects them again.

### RunValues

`RunsProofs`, for any factories a file can declare and any number of attempts.
`RunValuesHold`: `RunValuesInv`.

- `ResultsOfThisPass`. `Fold` goes over the attempts, so its claim is an induction
  over data. It is had without the induction theorems: if the claim failed after some
  attempt there would be a least one (`LeastOf`, `ByLeast`, from the well-foundedness
  of < on the naturals), and one step of the fold keeps the claim (`RightAfter`). So
  what a step is handed follows from the attempts alone, whatever led to them.
- `OwnSession`. A step may resume the session of a step that itself resumes one. Each
  names an earlier step, so such a chain has a first (`FirstsExist`), and the check
  makes the steps of a chain those of one client in one instance.
- `WithinMax` is not inductive: only an attempt that stops the run may go past the max. The
  invariant keeps the max itself except while the run waits for the user
  (`WithinEach`), and counting starts anew where the user moves it on.
- `DoneHolds` needs that what `_checked_done` saw still holds when the run is done.
- `RunTypes` says what the lists of attempts are: one attempt is open while the run
  runs, the last one, of the step it is at.

### What one turn, the workspace and the recap keep

`RunsProofs`, about `GatedTurn`: `TurnsOwnAnswer`, `TurnsRanOnce`, `TurnsNoStaleGrant`. The
node is replayed from its first line after each answer, so its invariant relates
three orders of the same calls: those of the message, the answers given so far, and
the verdicts of the replay under way. `Enumerates` is the bijection between answers
and the calls they were given to, `AtTheGate` says how far the replay has met them,
and `Waiting` that what the checkpoint holds is all but the call that asks. All that
is conditional on `~moved`: what becomes of it otherwise is the second finding.

`KeepingProofs`: `SnapshotsSafe` needs to know what each thread's git work is for
(`Errands`), that one thread rebuilds the index (`Rebuilding`), which workspaces a
capture has seen (`Seen`) and that a revert saw one only (`Reverting`).
`RecapsOwed` counts: there are as many episodes as `Distilled` works, those with a
marker and the one about to get it, plus one for each restart that came between an
episode and its marker.

- `DreamsSafe`: one dream works at a time (`OneWorks`), so while a prune is under way
  only a dream that ended can still write, and no other live fact cites what the prune
  read (`PrunesUncited`). `ShowsAll` is why no fact is skipped although reflections
  complete in another order than they started: what a reflection was framed with, and
  what others completed before have shown, is together all that was recorded before it
  started. `Logged` says that its start is in the log once.
- `AgentsAreKept`: the lock's and the baseline's entries are texts the hub knows the
  folder by, and no write of an update is over any other. The proof attempt refuted
  an earlier form of the property: an agent that types the very text at which the hub
  locked its folder has a copy that counts as unedited (`library.py` compares hashes), and
  an update writes over it. It takes three texts, and the run has two; `supplies` now
  has what a lock names.
- `PushesAreKept` and `WorkIsKept`: `CloneInv` says that what someone else pushed since the
  last fetch is nowhere in the clone, so that a lease that holds means there is nothing of
  it that has not landed; `RunInv` that a late call is of an earlier run, and that the tree
  is of the run that works or of none, in which case its branch has nothing.

- `ConfigurationSafe`: what an edit under way has read is what is there, unless a stretch
  of the loop or another edit crossed it (`EditOf`, `Undisturbed`); the invariant says of the two
  stretches what they have read too (`OnTheLoop`), and that an edit and whatever meets it at one
  name know of each other (`Crossing`). One lock per kind makes the rest local: two edits
  of one name are under way only after an interrupt (`BothCross`).

### Scheduler, desk, channels and browsers

`SchedulerProofs`: `DeliveredOnce`, `RaisedOnce`, `StartsAfresh`. `IInv` has a part for
each thing the scheduler keeps: failures (`Policy`), the line (`Queue`), the turn (`Held`), the
deliveries (`Arrived`), the notifications (`Noticed`). The proof attempt showed
an earlier `FreshStart` to be more than the code does: a routine whose policy crashed
half way and that is turned on again keeps its streak (ADR 0087's divergence above),
and the property now counts what the user saw.

`ServingProofs`: `DeskSafe` and `BrowsersSafe`. The desk's invariant ties the reply that
holds the lock (`Locked`) to what nothing answered yet, and the mark made before a
call to the call (`Marked`), which is what survives a crash. The browsers' says who
may have been lent one while the service is off: only a call that is starting it.

`ChannelsArePaired`: a call that waits has a row read before its await, and the invariant says
what still holds of it. `Hearing`: a row that named a user named the first, for good, so an
option of his is still his; a code is checked again in the transaction (`StillCoded`).
`Updating`: unless something crossed it, what an update will write is what is there but
for what it was asked to change, and what it told its service is that very thing.
`Making`: a channel that is being made is nobody else's matter yet, since its id is drawn
(`Undrawn`).

`ReaderFollows` is the refinement of `Feed` by `Transcript` without its fairness: the
reader's list starts empty and each step of the two ends gives it the thread's next
event, or nothing, over drops, overflows and late frames of what it had
subscribed to before. The invariant follows the reader's way. What its subscription
holds, the frames on the socket and what the server's stream still has are the
thread's events one by one, from the one it has reached: `Chain` gives for each frame
the event before it, `StreamFrom` what the stream has after the last of them. A
stream that is not open yet asks from there (`AskedFrom`), and an overflow is the last
thing it sends. A reader that has left, or met an error, is owed nothing until it
asks again, and then from the last event it was given.

### Lifecycle

`LifecycleProofs`, for every set of instances and images and every bound.

- `RecordsTellTruth`: `LifecycleInv`, over any requests, failed calls, exits and restarts.
- `ImagesStay`: `ImagesKept`, if `Brought` is no image this hub builds (the divergence
  above).

What a record may say in the middle of an operation depends on the operation, so the
invariant follows each instance's line of tasks. `InTurn`: the tasks in line are the
operations that are not over, in the order they were opened, and only the first has
begun, so that the latest change (`LastOperation`, what recovery goes by) is the one
in a call. `Lined`: what may wait behind what: a deletion or a restoration is alone in
line, a stop does not wait behind a removal. That is why a task may go on, after the
lock, from what its request found before it. `UnderWay`: the call an operation is in is
one of its kind's, and what it found still holds. `Recorded`: what the hub owns and
has not deleted is there. `Truthful`: the two facts of `AtRest` that must hold during
operations for it to hold after them.

For the images, `Spared` says that what a collection still removes is in nobody's record,
that a build and a collection exclude each other, and that the image of every container
is there. The proof attempt found two operators whose `CASE` guards overlapped
(`TakeDown`, `Reconciled`), which TLA+ leaves open; they are now chains of conditions, as
in the code.

### What stays with TLC

All liveness, and the fairness in `Transcript`'s refinement of `Feed` (that the reader is
given every event in the end): they need ENABLED. No invariant that a passing run checks is
without a theorem, and no module declares a RECURSIVE operator.

## What is not modelled

- The agent graph around a turn's tools, prompts and models: an external library and
  what a model says.
- Rendering, validation, schemas, statistics, the command line and the web app:
  pure functions or clients.
- The vault, the secrets linked to instances, usage, the setup wizard and the build of an
  image: single transactions or one command.
- Time as a number: deadlines, backoffs and schedules are events that may come at
  any point at which they are armed. That is more than the code allows, so the
  safety properties hold a fortiori.
- Data loss of SQLite or of the file system.
- Two processes on one instance directory: `core/runtime_lock.py` excludes it.
- Frames of an old connection read after a newer one's. The models take calls in
  the order they were sent.
- Hazards seen and left to tests: the deadlines of takeovers kept only in memory
  (`core/turns.py:977`), the matched waits of a run (`hub/runs.py:239`), secrets
  rewritten one by one (`hub/service.py:1765`).

## Plan

All eighteen modules of the table are written and checked, and those named above
are proved about. Next, in this order:

1. The settings that reach runs and routines only through these modules' choices: usage
   windows, the vault's names, templates.
