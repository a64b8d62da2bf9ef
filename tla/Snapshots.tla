------------------------------ MODULE Snapshots ------------------------------
(***************************************************************************)
(* Workspace snapshots and reverts (core/snapshots.py and core/turns.py):  *)
(* the shadow repository's one index, which each capture, preview and      *)
(* restore rebuilds with several git commands while turns on other threads *)
(* write the workspace; what a revert overwrites; what a failed, killed or *)
(* cut short git leaves.                                                   *)
(*                                                                         *)
(* Admission is Turns': here a turn starts unless a revert or a preview    *)
(* claims the instance, and those claim it only when it is idle.           *)
(***************************************************************************)
EXTENDS Naturals, Sequences, FiniteSets

CONSTANTS
    Files,        \* the files of the workspace beside its .gitignore
    Ignorable,    \* those a .gitignore may name
    Contents,     \* what a file may hold
    Threads,
    MaxTurns, MaxEdits, MaxReverts,
    MaxTroubles   \* bound: git commands that fail, interrupts, deaths of the instance

VARIABLES
    files, rules,      \* the workspace: what each file holds, and what .gitignore names
    index, indexLock,  \* the shadow repository's index, and whether an index.lock was left
    refs,              \* the trees refs/kinby/snapshots holds
    log,               \* turns and reverts: their two snapshots, and whether they closed
    turn,              \* what each thread does, and the log entry it is at
    job,               \* its git work
    rebuilding,        \* _rebuilding_the_index: the thread that holds it
    lost,              \* the file contents restores overwrote or removed
    spent

workspace == <<files, rules>>
store == <<index, indexLock, refs>>
snapshotsVars == <<workspace, store, log, turn, job, rebuilding, lost, spent>>

None == "none"
NoFiles == [f \in {} |-> None]
NoTree == [rules |-> {}, held |-> NoFiles, is |-> FALSE]

\* A tree of git's: a .gitignore and the files it holds.
Tree(names, held) == [rules |-> names, held |-> held, is |-> TRUE]
Without(held, gone) == [f \in DOMAIN held \ gone |-> held[f]]

\* What git add --all stages: the workspace's files, ignored ones left out.
Visible == Tree(rules, Without(files, rules))

NoJob == [why |-> None, pc |-> None, tree |-> NoTree, previous |-> NoTree, seen |-> {}]
Idle == [is |-> None, entry |-> 0]

\* A job that waits for the index.  tree is the historical tree a restore or a preview is given.
Job(why, tree, previous) ==
    [why |-> why, pc |-> "lock", tree |-> tree, previous |-> previous, seen |-> {Visible}]

Init ==
    /\ files = [f \in Files |-> CHOOSE c \in Contents : TRUE] /\ rules = {}
    /\ index = NoTree /\ indexLock = FALSE /\ refs = {} /\ log = <<>>
    /\ turn = [t \in Threads |-> Idle] /\ job = [t \in Threads |-> NoJob]
    /\ rebuilding = None /\ lost = {}
    /\ spent = [turns |-> 0, edits |-> 0, reverts |-> 0, troubles |-> 0]

Can(what, most) == spent[what] < most
Use(what) == spent' = [spent EXCEPT ![what] = @ + 1]

\* _claim_revert: no turn runs, and nothing claims a thread.
Unclaimed == \A t \in Threads : turn[t] = Idle

\* _recorded_snapshots: closed, and started with a snapshot.
Target(i) == log[i].closed /\ log[i].before.is

-----------------------------------------------------------------------------
(* Turns. *)

\* _wake: the claim, and the snapshot before the turn.
StartTurn(t) ==
    /\ turn[t] = Idle /\ \A u \in Threads : turn[u].is \notin {"reverting", "previewing"}
    /\ Can("turns", MaxTurns) /\ Use("turns")
    /\ turn' = [turn EXCEPT ![t] = [is |-> "starting", entry |-> 0]]
    /\ job' = [job EXCEPT ![t] = Job("before", NoTree, NoTree)]
    /\ UNCHANGED <<workspace, store, log, rebuilding, lost>>

\* The turn writes a file, or .gitignore.  A capture may be under way on another thread.
Edit(t) ==
    /\ turn[t].is = "running" /\ Can("edits", MaxEdits) /\ Use("edits")
    /\ \/ /\ \E f \in Files, c \in Contents :
                files' = [g \in DOMAIN files \union {f} |-> IF g = f THEN c ELSE files[g]]
          /\ files' # files /\ UNCHANGED rules
       \/ \E f \in DOMAIN files : files' = Without(files, {f}) /\ UNCHANGED rules
       \/ rules' \in {{}, Ignorable} \ {rules} /\ UNCHANGED files
    /\ job' = [u \in Threads |-> IF job[u] = NoJob THEN NoJob
                                 ELSE [job[u] EXCEPT !.seen = @ \union {Visible'}]]
    /\ UNCHANGED <<store, log, turn, rebuilding, lost>>

\* _finish: the turn's work is over, and the snapshot after it is taken.
FinishTurn(t) ==
    /\ turn[t].is = "running"
    /\ turn' = [turn EXCEPT ![t].is = "closing"]
    /\ job' = [job EXCEPT ![t] = Job("after", NoTree, NoTree)]
    /\ UNCHANGED <<workspace, store, log, rebuilding, lost, spent>>

\* interrupt, of a turn that takes its closing snapshot: _run_git_output lets the git command
\* finish or kills it, and the interrupt takes the snapshot itself.
Interrupt(t) ==
    /\ turn[t].is = "closing" /\ Can("troubles", MaxTroubles) /\ Use("troubles")
    /\ job' = [job EXCEPT ![t] = Job("after", NoTree, NoTree)]
    /\ rebuilding' = IF rebuilding = t THEN None ELSE rebuilding
    /\ indexLock' \in {indexLock, indexLock \/ job[t].pc \in {"empty", "add"}}
    /\ UNCHANGED <<workspace, index, refs, log, turn, lost>>

\* revert and preview_revert: the claim, and the snapshot a revert takes first.
StartRevert(t, i) ==
    /\ Unclaimed /\ Target(i) /\ Can("reverts", MaxReverts) /\ Use("reverts")
    /\ turn' = [turn EXCEPT ![t] = [is |-> "reverting", entry |-> i]]
    /\ job' = [job EXCEPT ![t] = Job("previous", NoTree, NoTree)]
    /\ UNCHANGED <<workspace, store, log, rebuilding, lost>>

StartPreview(t, i) ==
    /\ Unclaimed /\ Target(i) /\ Can("reverts", MaxReverts) /\ Use("reverts")
    /\ turn' = [turn EXCEPT ![t] = [is |-> "previewing", entry |-> i]]
    /\ job' = [job EXCEPT ![t] = Job("preview", log[i].before, NoTree)]
    /\ UNCHANGED <<workspace, store, log, rebuilding, lost>>

-----------------------------------------------------------------------------
(* What follows a job. *)

\* The claim is released.
Release(t) == turn' = [turn EXCEPT ![t] = Idle] /\ job' = [job EXCEPT ![t] = NoJob]

\* _capture returned tree, or none: TurnStarted, the closing event or WorkspaceReverted is appended.
Captured(t, tree) ==
    \/ /\ job[t].why = "before"
       /\ log' = Append(log, [before |-> tree, after |-> NoTree, closed |-> FALSE, revert |-> FALSE])
       /\ turn' = [turn EXCEPT ![t] = [is |-> "running", entry |-> Len(log')]]
       /\ job' = [job EXCEPT ![t] = NoJob]
    \/ /\ job[t].why = "after"
       /\ log' = [log EXCEPT ![turn[t].entry].after = tree, ![turn[t].entry].closed = TRUE]
       /\ Release(t)
    \/ /\ job[t].why = "previous"
       /\ IF tree.is
          THEN job' = [job EXCEPT ![t] = Job("restore", log[turn[t].entry].before, tree)]
               /\ UNCHANGED turn
          ELSE Release(t)
       /\ UNCHANGED log
    \/ /\ job[t].why = "restored"
       /\ log' = Append(log, [before |-> job[t].previous, closed |-> TRUE, revert |-> TRUE,
                    after |-> IF tree.is THEN tree ELSE log[turn[t].entry].before])
       /\ Release(t)

\* SnapshotError: a turn goes on without a snapshot, a revert or a preview gives up.
Errs(t) ==
    /\ rebuilding' = None
    /\ IF job[t].why \in {"preview", "restore"} THEN Release(t) /\ UNCHANGED log
       ELSE Captured(t, NoTree)

-----------------------------------------------------------------------------
(* The git commands. *)

At(t, pc) == job[t].pc = pc
Then(t, pc) == job' = [job EXCEPT ![t].pc = pc]

\* A mutant of Free that lets threads rebuild the index together.
FreeAlways == TRUE

\* Nobody rebuilds the index.
Free == rebuilding = None

\* async with _rebuilding_the_index
TakeIndex(t) ==
    /\ At(t, "lock") /\ Free
    /\ rebuilding' = t
    /\ Then(t, IF job[t].why \in {"preview", "restore"} THEN "restorable" ELSE "empty")
    /\ UNCHANGED <<workspace, store, log, turn, lost, spent>>

\* _restorable_tree: the historical tree without what the live workspace ignores.
Restorable(t) ==
    LET ignored == DOMAIN job[t].tree.held \intersect rules
    IN /\ At(t, "restorable") /\ (indexLock => ignored = {})
       /\ job' = [job EXCEPT ![t].pc = "empty", ![t].tree.held = Without(@, ignored)]
       /\ index' = IF ignored = {} THEN index ELSE job'[t].tree
       /\ UNCHANGED <<workspace, indexLock, refs, log, turn, rebuilding, lost, spent>>

\* _stage_work_tree: read-tree --empty, then add --all.
Empty(t) ==
    /\ At(t, "empty") /\ ~indexLock
    /\ index' = Tree({}, NoFiles) /\ Then(t, "add")
    /\ UNCHANGED <<workspace, indexLock, refs, log, turn, rebuilding, lost, spent>>

Add(t) ==
    /\ At(t, "add") /\ ~indexLock
    /\ index' = Visible
    /\ Then(t, IF job[t].why = "restore" THEN "checkout" ELSE "write")
    /\ UNCHANGED <<workspace, indexLock, refs, log, turn, rebuilding, lost, spent>>

\* write-tree.  A preview only compares it.
Write(t) ==
    /\ At(t, "write")
    /\ IF job[t].why = "preview"
       THEN Release(t) /\ rebuilding' = None
       ELSE /\ job' = [job EXCEPT ![t].pc = "record", ![t].tree = index]
            /\ UNCHANGED <<turn, rebuilding>>
    /\ UNCHANGED <<workspace, store, log, lost, spent>>

\* commit-tree and update-ref.
Record(t) ==
    /\ At(t, "record")
    /\ refs' = refs \union {job[t].tree}
    /\ rebuilding' = None
    /\ Captured(t, job[t].tree)
    /\ UNCHANGED <<workspace, index, indexLock, lost, spent>>

\* read-tree --reset -u, which writes what the tree holds and removes what only the index does, of
\* the files in done.
Written(t, done) ==
    LET held == job[t].tree.held
        gone == {f \in done : f \notin DOMAIN held /\ f \in DOMAIN index.held}
        over == done \intersect DOMAIN held
        changed == {f \in DOMAIN files \intersect (gone \union over) :
                        f \notin over \/ held[f] # files[f]}
    IN /\ files' = [f \in (DOMAIN files \ gone) \union over |->
                        IF f \in over THEN held[f] ELSE files[f]]
       /\ lost' = lost \union {<<f, files[f]>> : f \in changed}

Checkout(t) ==
    /\ At(t, "checkout") /\ ~indexLock
    /\ Written(t, Files) /\ rules' = job[t].tree.rules
    /\ index' = job[t].tree
    /\ job' = [job EXCEPT ![t] = [Job("restored", NoTree, job[t].previous) EXCEPT
                                    !.seen = {Visible'}]]
    /\ rebuilding' = None
    /\ UNCHANGED <<indexLock, refs, log, turn, spent>>

\* A git command fails, or its index.lock is in the way; a checkout may fail part way.
GitFails(t) ==
    /\ \/ /\ indexLock /\ job[t].pc \in {"restorable", "empty", "add", "checkout"}
          /\ UNCHANGED <<workspace, lost, spent>>
       \/ /\ rebuilding = t /\ Can("troubles", MaxTroubles) /\ Use("troubles")
          /\ IF At(t, "checkout")
             THEN /\ \E done \in SUBSET Files : Written(t, done)
                  /\ rules' \in {rules, job[t].tree.rules}
             ELSE UNCHANGED <<workspace, lost>>
    /\ Errs(t)
    /\ UNCHANGED store

\* The instance dies with every turn it runs and the git command under way.
Die ==
    /\ ~Unclaimed /\ Can("troubles", MaxTroubles) /\ Use("troubles")
    /\ turn' = [t \in Threads |-> Idle] /\ job' = [t \in Threads |-> NoJob] /\ rebuilding' = None
    /\ indexLock' \in {indexLock, indexLock \/ rebuilding # None}
    /\ IF \E t \in Threads : At(t, "checkout")
       THEN LET t == CHOOSE u \in Threads : At(u, "checkout")
            IN /\ \E done \in SUBSET Files : Written(t, done)
               /\ rules' \in {rules, job[t].tree.rules}
       ELSE UNCHANGED <<workspace, lost>>
    /\ UNCHANGED <<index, refs, log>>

Next ==
    \/ \E t \in Threads :
        \/ StartTurn(t) \/ Edit(t) \/ FinishTurn(t) \/ Interrupt(t)
        \/ \E i \in DOMAIN log : StartRevert(t, i) \/ StartPreview(t, i)
        \/ TakeIndex(t) \/ Restorable(t) \/ Empty(t) \/ Add(t) \/ Write(t) \/ Record(t)
        \/ Checkout(t) \/ GitFails(t)
    \/ Die

Spec == Init /\ [][Next]_snapshotsVars

-----------------------------------------------------------------------------

Trees == {NoTree} \union [rules : SUBSET Ignorable, is : {TRUE},
                          held : UNION {[S -> Contents] : S \in SUBSET Files}]

SnapshotsTypeOK ==
    /\ Visible \in Trees /\ index \in Trees /\ refs \subseteq Trees
    /\ rebuilding \in Threads \union {None}
    /\ \A t \in Threads : turn[t].entry \in 0 .. Len(log) /\ job[t].tree \in Trees

\* A snapshot is the workspace as it stood at one moment while it was taken, whatever captures of
\* other threads' turns, interrupts and failing git commands share the one index ("every command
\* that rebuilds the index waits its turn here", core/snapshots.py).
TakenWhole == \A t \in Threads : At(t, "record") => job[t].tree \in job[t].seen

\* Everything a restore overwrites or removes, also one that fails or dies part way, is in a
\* recorded snapshot: ignored files stay where they are, and the rest was captured first.
Recoverable == \A o \in lost : \E tree \in refs : o[1] \in DOMAIN tree.held /\ tree.held[o[1]] = o[2]

\* A revert's target was closed and recorded, and nothing else runs beside it.
RevertsAlone ==
    \A t \in Threads : turn[t].is \in {"reverting", "previewing"} =>
        Target(turn[t].entry) /\ \A u \in Threads \ {t} : turn[u] = Idle

SnapshotsInv == SnapshotsTypeOK /\ TakenWhole /\ Recoverable /\ RevertsAlone

\* "A revert [...] takes its own snapshot first, so a revert can be reverted" (docs/adr/0027 and
\* core/turns.py): reverting a revert, when the workspace still is as it left it, brings back the
\* files that were there before it.
RevertUndone ==
    [][\A t \in Threads :
        LET i == turn[t].entry
        IN Checkout(t) /\ log[i].revert /\ Visible = log[i].after => Visible' = log[i].before]_snapshotsVars
=============================================================================
