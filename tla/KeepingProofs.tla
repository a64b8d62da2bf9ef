--------------------------- MODULE KeepingProofs ---------------------------
(***************************************************************************)
(* Theorems about what an instance keeps (MCKeeping), for every set of     *)
(* files, threads, works and texts and every bound: the snapshots of a     *)
(* workspace, the recap of what ended, the dreams, an instance's copy of a *)
(* skill, the work of an issue's runs, and an instance's configuration.    *)
(***************************************************************************)
EXTENDS MCKeeping, FiniteSetTheorems, SequenceTheorems, TLAPS

-----------------------------------------------------------------------------
(* Snapshots.  A capture holds the index from its first command to its     *)
(* last, a revert holds the workspace, and what it overwrites is what it   *)
(* captured first.                                                         *)

Whys == {"none", "before", "after", "previous", "preview", "restore", "restored"}
Commands == {"restorable", "empty", "add", "write", "record", "checkout"}
Entries == [before : S!Trees, after : S!Trees, closed : BOOLEAN, revert : BOOLEAN]
Jobs == [why : Whys, pc : {"none", "lock"} \cup Commands, tree : S!Trees, previous : S!Trees,
         seen : SUBSET S!Trees]
Turns == [is : {"none", "starting", "running", "closing", "reverting", "previewing"}, entry : Nat]

SnapshotTypes ==
    /\ files \in UNION {[F -> Contents] : F \in SUBSET Files} /\ rules \in SUBSET Ignorable
    /\ index \in S!Trees /\ trees \in SUBSET S!Trees /\ turnLog \in Seq(Entries)
    /\ turn \in [Threads -> Turns] /\ job \in [Threads -> Jobs]
    /\ rebuilding \in Threads \cup {"none"} /\ lost \in SUBSET (Files \X Contents)

\* What a thread's git work is for, by what the thread does; an entry it is at is in the log.
Errands(t) ==
    /\ turn[t].is \in {"none", "running"} <=> job[t] = S!NoJob
    /\ turn[t].is = "none" <=> turn[t] = S!Idle
    /\ job[t].why = "none" <=> job[t] = S!NoJob
    /\ job[t].pc = "none" <=> job[t] = S!NoJob
    /\ turn[t].is = "starting" => job[t].why = "before"
    /\ turn[t].is = "closing" => job[t].why = "after"
    /\ turn[t].is = "reverting" => job[t].why \in {"previous", "restore", "restored"}
    /\ turn[t].is = "previewing" => job[t].why = "preview"
    /\ turn[t].is \in {"running", "closing", "reverting", "previewing"} => turn[t].entry >= 1
    /\ turn[t].entry <= Len(turnLog)

\* One thread rebuilds the index, and only a restore checks it out.
Rebuilding(t) ==
    /\ job[t].pc \in Commands => rebuilding = t
    /\ job[t].pc = "restorable" => job[t].why \in {"preview", "restore"}
    /\ job[t].pc = "checkout" => job[t].why = "restore"
    /\ job[t].pc \in {"write", "record"} => job[t].why # "restore"
    /\ job[t].pc = "record" => job[t].why # "preview"
    /\ job[t].why \in {"preview", "restore"} => job[t].tree.is

\* A capture has seen the workspace as it is, and its index is one it has seen.
Seen(t) ==
    /\ job[t].pc # "none" => S!Visible \in job[t].seen
    /\ job[t].pc = "write" => index \in job[t].seen
    /\ job[t].pc = "record" => job[t].tree \in job[t].seen

\* A revert sees one workspace, captured it before it restores, and restores nothing over what the
\* workspace ignores.
Reverting(t) ==
    /\ job[t].why \in {"previous"} => job[t].seen = {S!Visible}
    /\ job[t].why = "restore" => job[t].previous = S!Visible /\ S!Visible \in trees
    /\ job[t].why = "restore" /\ job[t].pc \in {"empty", "add", "checkout"} =>
          DOMAIN job[t].tree.held \cap rules = {}
    /\ job[t].pc = "checkout" => index = S!Visible

SnapshotsIInv ==
    /\ SnapshotTypes
    /\ \A t \in Threads : Errands(t) /\ Rebuilding(t) /\ Seen(t) /\ Reverting(t)
    /\ S!Recoverable /\ S!RevertsAlone

LEMMA SnapshotsTyped == SnapshotTypes => S!Visible \in S!Trees /\ S!Visible.is /\ S!Visible.rules = rules
  <1> SUFFICES ASSUME SnapshotTypes PROVE S!Visible \in S!Trees /\ S!Visible.is /\ S!Visible.rules = rules
    OBVIOUS
  <1> DEFINE kept == S!Without(files, rules)
  <1>1. kept \in [DOMAIN files \ rules -> Contents] /\ DOMAIN files \ rules \in SUBSET Files
    BY DEF SnapshotTypes, S!Without
  <1>2. kept \in UNION {[F -> Contents] : F \in SUBSET Files}
    BY <1>1
  <1>3. S!Visible = [rules |-> rules, held |-> kept, is |-> TRUE]
    BY DEF S!Visible, S!Tree
  <1>4. QED
    BY <1>2, <1>3 DEF SnapshotTypes, S!Trees

\* A tree without some of its files is one.
LEMMA TreeWithout ==
  ASSUME NEW tr \in S!Trees, tr.is, NEW gone
  PROVE  /\ [tr EXCEPT !.held = S!Without(@, gone)] \in S!Trees
         /\ [tr EXCEPT !.held = S!Without(@, gone)].is
         /\ DOMAIN [tr EXCEPT !.held = S!Without(@, gone)].held = DOMAIN tr.held \ gone
  <1> DEFINE Held == UNION {[F -> Contents] : F \in SUBSET Files}
  <1>1. tr \in [rules : SUBSET Ignorable, is : {TRUE}, held : Held]
    <2>1. tr \in {S!NoTree} \union [rules : SUBSET Ignorable, is : {TRUE}, held : Held]
      BY DEF S!Trees
    <2>2. S!NoTree.is = FALSE
      BY DEF S!NoTree
    <2> HIDE DEF Held
    <2>3. QED
      BY <2>1, <2>2
  <1>2. PICK F \in SUBSET Files : tr.held \in [F -> Contents]
    BY <1>1
  <1>3. S!Without(tr.held, gone) \in [F \ gone -> Contents] /\ F \ gone \in SUBSET Files
    BY <1>2 DEF S!Without
  <1>4. S!Without(tr.held, gone) \in Held
    BY <1>3
  <1> HIDE DEF Held
  <1>5. [tr EXCEPT !.held = S!Without(@, gone)] \in [rules : SUBSET Ignorable, is : {TRUE}, held : Held]
    BY <1>1, <1>4
  <1>6. [tr EXCEPT !.held = S!Without(@, gone)] \in S!Trees
    BY <1>5 DEF S!Trees, Held
  <1>7. QED
    BY <1>1, <1>2, <1>3, <1>5, <1>6

LEMMA NoJobIs == /\ S!NoTree \in S!Trees /\ S!NoJob \in Jobs /\ S!NoJob.why = "none" /\ S!NoJob.pc = "none"
                 /\ S!NoJob.seen = {} /\ S!Idle \in Turns /\ S!Idle.is = "none" /\ S!Idle.entry = 0
  BY DEF S!NoJob, Jobs, Whys, S!NoTree, S!Trees, S!None, S!Idle, Turns

\* A job that waits for the index.
LEMMA NewJob ==
  ASSUME SnapshotTypes, NEW why \in Whys \ {"none"}, NEW tr \in S!Trees, NEW pr \in S!Trees
  PROVE  /\ S!Job(why, tr, pr) \in Jobs /\ S!Job(why, tr, pr) # S!NoJob
         /\ S!Job(why, tr, pr).why = why /\ S!Job(why, tr, pr).pc = "lock"
         /\ S!Job(why, tr, pr).seen = {S!Visible} /\ S!Job(why, tr, pr).previous = pr
  <1>1. S!Job(why, tr, pr) \in Jobs
    BY SnapshotsTyped DEF S!Job, Jobs
  <1>2. QED
    BY <1>1 DEF S!Job, S!NoJob, S!None

-----------------------------------------------------------------------------
\* What a step of one thread leaves of another's work.
LEMMA OtherThread ==
  ASSUME SnapshotsIInv, NEW t \in Threads, NEW u \in Threads, u # t,
         UNCHANGED <<files, rules>>, trees \subseteq trees', Len(turnLog') >= Len(turnLog), Len(turnLog) \in Nat,
         Len(turnLog') \in Nat, job'[u] = job[u], turn'[u] = turn[u],
         rebuilding' # rebuilding => {rebuilding, rebuilding'} = {t, "none"},
         index' # index => rebuilding = t
  PROVE  (Errands(u) /\ Rebuilding(u) /\ Seen(u) /\ Reverting(u))'
  <1> USE DEF SnapshotsIInv
  <1>0. u # "none" /\ t # "none"
    BY SnapshotsAssumption
  <1>1. turn[u].entry \in Nat
    BY DEF SnapshotTypes, Turns
  <1>2. Errands(u)'
    BY <1>1 DEF Errands, S!NoJob, S!NoTree, S!NoFiles, S!None, S!Idle
  <1>3. Rebuilding(u)'
    BY <1>0 DEF Rebuilding, Commands
  <1>4. S!Visible' = S!Visible
    BY DEF S!Visible
  <1>5. job[u].pc \in {"write", "checkout"} => index' = index
    BY DEF Rebuilding, Commands
  <1>6. Seen(u)'
    BY <1>4, <1>5 DEF Seen
  <1>7. Reverting(u)'
    BY <1>4, <1>5 DEF Reverting
  <1>8. QED
    BY <1>2, <1>3, <1>6, <1>7

\* Reverts stay alone as long as no turn begins one or works beside one.
LEMMA StillAlone ==
  ASSUME SnapshotsIInv, NEW t \in Threads, \A u \in Threads \ {t} : turn'[u] = turn[u],
         turn'[t].is \in {"reverting", "previewing"} => turn[t] = turn'[t],
         turn'[t] # turn[t] /\ turn'[t] # S!Idle =>
            \A u \in Threads \ {t} : turn[u].is \notin {"reverting", "previewing"},
         \A i \in DOMAIN turnLog : S!Target(i) => S!Target(i)'
  PROVE  S!RevertsAlone'
  <1> SUFFICES ASSUME NEW u \in Threads, turn'[u].is \in {"reverting", "previewing"}
               PROVE  S!Target(turn[u].entry)' /\ \A v \in Threads \ {u} : turn'[v] = S!Idle
    BY DEF S!RevertsAlone, S!Idle, S!None
  <1>1. turn[u] = turn'[u]
    OBVIOUS
  <1>2. S!Target(turn[u].entry) /\ \A v \in Threads \ {u} : turn[v] = S!Idle
    BY <1>1 DEF SnapshotsIInv, S!RevertsAlone
  <1>3. turn[u].entry \in DOMAIN turnLog
    BY <1>1 DEF SnapshotsIInv, Errands, SnapshotTypes, Turns
  <1>4. S!Target(turn[u].entry)'
    BY <1>1, <1>2, <1>3 DEF S!Target
  <1>5. \A v \in Threads \ {u} : turn'[v] = S!Idle
    BY <1>1, <1>2
  <1>6. QED
    BY <1>4, <1>5

\* A step of one thread that leaves the workspace as it is.
LEMMA ThreadStep ==
  ASSUME SnapshotsIInv, NEW t \in Threads, SnapshotTypes', (Errands(t) /\ Rebuilding(t) /\ Seen(t) /\ Reverting(t))',
         UNCHANGED <<files, rules, lost>>, trees \subseteq trees', Len(turnLog') >= Len(turnLog),
         \A u \in Threads \ {t} : job'[u] = job[u] /\ turn'[u] = turn[u],
         rebuilding' # rebuilding => {rebuilding, rebuilding'} = {t, "none"},
         index' # index => rebuilding = t, S!RevertsAlone'
  PROVE  SnapshotsIInv'
  <1>1. Len(turnLog) \in Nat /\ Len(turnLog') \in Nat
    BY DEF SnapshotsIInv, SnapshotTypes
  <1>2. \A u \in Threads \ {t} : (Errands(u) /\ Rebuilding(u) /\ Seen(u) /\ Reverting(u))'
    BY <1>1, OtherThread
  <1>3. S!Recoverable'
    BY DEF SnapshotsIInv, S!Recoverable
  <1>4. QED
    BY <1>2, <1>3 DEF SnapshotsIInv

\* A job that waits for the index is in order with what its thread does.
LEMMA Waits ==
  ASSUME SnapshotTypes, SnapshotTypes', NEW t \in Threads, UNCHANGED <<files, rules>>,
         NEW why \in Whys \ {"none", "restore", "preview"}, job'[t] = S!Job(why, S!NoTree, S!NoTree),
         turn'[t].is = (CASE why = "before" -> "starting" [] why = "after" -> "closing" [] OTHER -> "reverting"),
         turn'[t].entry <= Len(turnLog'), why # "before" => turn'[t].entry >= 1
  PROVE  (Errands(t) /\ Rebuilding(t) /\ Seen(t) /\ Reverting(t))'
  <1>1. /\ job'[t].why = why /\ job'[t].pc = "lock" /\ job'[t].seen = {S!Visible} /\ job'[t] # S!NoJob
    BY NewJob, NoJobIs
  <1>2. S!Visible' = S!Visible
    BY DEF S!Visible
  <1>3. S!NoJob' = S!NoJob /\ S!Idle' = S!Idle
    BY DEF S!NoJob, S!NoTree, S!NoFiles, S!None, S!Idle
  <1>4. turn'[t] # S!Idle /\ turn'[t].is \in {"starting", "closing", "reverting"}
    BY DEF Whys, S!Idle, S!None
  <1>5. Errands(t)'
    BY <1>1, <1>3, <1>4 DEF Errands, Whys
  <1>6. (Rebuilding(t) /\ Seen(t) /\ Reverting(t))'
    BY <1>1, <1>2 DEF Rebuilding, Seen, Reverting, Commands
  <1>7. QED
    BY <1>5, <1>6

LEMMA StartTurnKeeps ==
  ASSUME SnapshotsIInv, NEW t \in Threads, S!StartTurn(t) PROVE SnapshotsIInv'
  <1> USE DEF S!workspace, S!store
  <1>1. SnapshotTypes
    BY DEF SnapshotsIInv
  <1>2. S!Job("before", S!NoTree, S!NoTree) \in Jobs
    BY <1>1, NewJob, NoJobIs DEF Whys
  <1>3. [is |-> "starting", entry |-> 0] \in Turns
    BY DEF Turns
  <1>4. SnapshotTypes'
    BY <1>1, <1>2, <1>3 DEF SnapshotTypes, S!StartTurn
  <1>5. turn'[t] = [is |-> "starting", entry |-> 0] /\ job'[t] = S!Job("before", S!NoTree, S!NoTree)
    BY <1>1 DEF SnapshotTypes, S!StartTurn
  <1>6. 0 <= Len(turnLog')
    BY <1>4 DEF SnapshotTypes
  <1>7. (Errands(t) /\ Rebuilding(t) /\ Seen(t) /\ Reverting(t))'
    BY <1>1, <1>4, <1>5, <1>6, Waits DEF S!StartTurn, Whys
  <1>8. \A u \in Threads \ {t} : job'[u] = job[u] /\ turn'[u] = turn[u]
    BY <1>1 DEF SnapshotTypes, S!StartTurn
  <1>9. S!RevertsAlone'
    BY <1>5, <1>8, StillAlone DEF S!StartTurn, S!Target
  <1>10. QED
    BY <1>1, <1>4, <1>7, <1>8, <1>9, ThreadStep DEF S!StartTurn, SnapshotTypes

LEMMA FinishTurnKeeps ==
  ASSUME SnapshotsIInv, NEW t \in Threads, S!FinishTurn(t) PROVE SnapshotsIInv'
  <1> USE DEF S!workspace, S!store
  <1>1. SnapshotTypes /\ turn[t].entry >= 1 /\ turn[t].entry <= Len(turnLog)
    BY DEF SnapshotsIInv, S!FinishTurn, Errands
  <1>2. S!Job("after", S!NoTree, S!NoTree) \in Jobs
    BY <1>1, NewJob, NoJobIs DEF Whys
  <1>3. [turn[t] EXCEPT !.is = "closing"] \in Turns
    BY <1>1 DEF Turns, SnapshotTypes
  <1>4. SnapshotTypes'
    BY <1>1, <1>2, <1>3 DEF SnapshotTypes, S!FinishTurn
  <1>5. /\ turn'[t].is = "closing" /\ turn'[t].entry = turn[t].entry
        /\ job'[t] = S!Job("after", S!NoTree, S!NoTree)
    BY <1>1 DEF SnapshotTypes, S!FinishTurn, Turns
  <1>7. (Errands(t) /\ Rebuilding(t) /\ Seen(t) /\ Reverting(t))'
    BY <1>1, <1>4, <1>5, Waits DEF S!FinishTurn, Whys
  <1>8. \A u \in Threads \ {t} : job'[u] = job[u] /\ turn'[u] = turn[u]
    BY <1>1 DEF SnapshotTypes, S!FinishTurn
  <1>9. S!RevertsAlone'
    <2>1. \A u \in Threads \ {t} : turn[u].is \notin {"reverting", "previewing"}
      BY DEF SnapshotsIInv, S!RevertsAlone, S!FinishTurn, S!Idle, S!None
    <2>2. QED
      BY <1>5, <1>8, <2>1, StillAlone DEF S!FinishTurn, S!Target
  <1>10. QED
    BY <1>1, <1>4, <1>7, <1>8, <1>9, ThreadStep DEF S!FinishTurn, SnapshotTypes

LEMMA InterruptKeeps ==
  ASSUME SnapshotsIInv, NEW t \in Threads, S!Interrupt(t) PROVE SnapshotsIInv'
  <1> USE DEF S!workspace, S!store
  <1>1. SnapshotTypes /\ turn[t].entry >= 1 /\ turn[t].entry <= Len(turnLog)
    BY DEF SnapshotsIInv, S!Interrupt, Errands
  <1>2. S!Job("after", S!NoTree, S!NoTree) \in Jobs
    BY <1>1, NewJob, NoJobIs DEF Whys
  <1>3. SnapshotTypes'
    BY <1>1, <1>2 DEF SnapshotTypes, S!Interrupt, S!None
  <1>4. job'[t] = S!Job("after", S!NoTree, S!NoTree)
    BY <1>1 DEF SnapshotTypes, S!Interrupt
  <1>5. (Errands(t) /\ Rebuilding(t) /\ Seen(t) /\ Reverting(t))'
    BY <1>1, <1>3, <1>4, Waits DEF S!Interrupt, Whys
  <1>6. \A u \in Threads : u # t => job'[u] = job[u] /\ turn'[u] = turn[u]
    BY <1>1 DEF SnapshotTypes, S!Interrupt
  <1>7. S!RevertsAlone'
    BY <1>6, StillAlone DEF S!Interrupt, S!Target
  <1>8. QED
    BY <1>1, <1>3, <1>5, <1>6, <1>7, ThreadStep DEF S!Interrupt, SnapshotTypes, S!None

\* A revert and a preview begin while nothing else is at work.
LEMMA BeginsAlone ==
  ASSUME SnapshotsIInv, NEW t \in Threads, NEW i \in DOMAIN turnLog, S!Unclaimed, S!Target(i),
         UNCHANGED turnLog, turn'[t].entry = i, \A u \in Threads \ {t} : turn'[u] = turn[u]
  PROVE  S!RevertsAlone'
  <1>1. S!Idle' = S!Idle
    BY DEF S!Idle, S!None
  <1>2. \A u \in Threads \ {t} : turn'[u] = S!Idle /\ turn'[u].is = "none"
    BY DEF S!Unclaimed, S!Idle, S!None
  <1>3. S!Target(turn[t].entry)'
    BY DEF S!Target
  <1>4. QED
    BY <1>1, <1>2, <1>3 DEF S!RevertsAlone

LEMMA StartRevertKeeps ==
  ASSUME SnapshotsIInv, NEW t \in Threads, NEW i \in DOMAIN turnLog, S!StartRevert(t, i) PROVE SnapshotsIInv'
  <1> USE DEF S!workspace, S!store
  <1>1. SnapshotTypes /\ i \in 1..Len(turnLog) /\ Len(turnLog) \in Nat
    BY DEF SnapshotsIInv, SnapshotTypes
  <1>2. S!Job("previous", S!NoTree, S!NoTree) \in Jobs
    BY <1>1, NewJob, NoJobIs DEF Whys
  <1>3. [is |-> "reverting", entry |-> i] \in Turns
    BY <1>1 DEF Turns
  <1>4. SnapshotTypes'
    BY <1>1, <1>2, <1>3 DEF SnapshotTypes, S!StartRevert
  <1>5. turn'[t] = [is |-> "reverting", entry |-> i] /\ job'[t] = S!Job("previous", S!NoTree, S!NoTree)
    BY <1>1 DEF SnapshotTypes, S!StartRevert
  <1>6. turn'[t].is = "reverting" /\ turn'[t].entry = i /\ i >= 1 /\ i <= Len(turnLog')
    BY <1>1, <1>5 DEF S!StartRevert
  <1>7. (Errands(t) /\ Rebuilding(t) /\ Seen(t) /\ Reverting(t))'
    BY <1>1, <1>4, <1>5, <1>6, Waits DEF S!StartRevert, Whys
  <1>8. \A u \in Threads \ {t} : job'[u] = job[u] /\ turn'[u] = turn[u]
    BY <1>1 DEF SnapshotTypes, S!StartRevert
  <1>9. S!RevertsAlone'
    BY <1>6, <1>8, BeginsAlone DEF S!StartRevert
  <1>10. QED
    BY <1>1, <1>4, <1>7, <1>8, <1>9, ThreadStep DEF S!StartRevert

LEMMA StartPreviewKeeps ==
  ASSUME SnapshotsIInv, NEW t \in Threads, NEW i \in DOMAIN turnLog, S!StartPreview(t, i) PROVE SnapshotsIInv'
  <1> USE DEF S!workspace, S!store
  <1> DEFINE j == S!Job("preview", turnLog[i].before, S!NoTree)
  <1>1. SnapshotTypes /\ i \in 1..Len(turnLog) /\ Len(turnLog) \in Nat
    BY DEF SnapshotsIInv, SnapshotTypes
  <1>2. turnLog[i].before \in S!Trees /\ turnLog[i].before.is
    <2>1. turnLog[i] \in Entries
      BY <1>1 DEF SnapshotTypes
    <2>2. S!Target(i)
      BY DEF S!StartPreview
    <2>3. QED
      BY <2>1, <2>2 DEF Entries, S!Target
  <1>3. /\ j \in Jobs /\ j # S!NoJob /\ j.why = "preview" /\ j.pc = "lock" /\ j.seen = {S!Visible}
        /\ j.tree = turnLog[i].before
    BY <1>1, <1>2, NewJob, NoJobIs DEF Whys, S!Job
  <1> HIDE DEF j
  <1>4. [is |-> "previewing", entry |-> i] \in Turns
    BY <1>1 DEF Turns
  <1>5. SnapshotTypes'
    BY <1>1, <1>3, <1>4 DEF SnapshotTypes, S!StartPreview, j
  <1>6. turn'[t] = [is |-> "previewing", entry |-> i] /\ job'[t] = j
    BY <1>1 DEF SnapshotTypes, S!StartPreview, j
  <1>7. /\ S!Visible' = S!Visible /\ S!NoJob' = S!NoJob /\ S!Idle' = S!Idle
        /\ turn'[t].is = "previewing" /\ turn'[t].entry = i /\ turn'[t] # S!Idle
    BY <1>6 DEF S!Visible, S!NoJob, S!NoTree, S!NoFiles, S!None, S!Idle, S!StartPreview
  <1>8. Errands(t)'
    BY <1>1, <1>3, <1>6, <1>7 DEF Errands, S!StartPreview
  <1>9. (Rebuilding(t) /\ Seen(t) /\ Reverting(t))'
    BY <1>2, <1>3, <1>6, <1>7 DEF Rebuilding, Seen, Reverting, Commands
  <1>10. \A u \in Threads \ {t} : job'[u] = job[u] /\ turn'[u] = turn[u]
    BY <1>1 DEF SnapshotTypes, S!StartPreview
  <1>11. S!RevertsAlone'
    BY <1>7, <1>10, BeginsAlone DEF S!StartPreview
  <1>12. QED
    BY <1>1, <1>5, <1>8, <1>9, <1>10, <1>11, ThreadStep DEF S!StartPreview

-----------------------------------------------------------------------------
(* The git commands of a job. *)

\* A command that leaves the thread's errand as it is.
LEMMA Goes ==
  ASSUME SnapshotsIInv, NEW t \in Threads, UNCHANGED <<files, rules, lost, trees, turnLog, turn>>,
         NEW j \in Jobs, job' = [job EXCEPT ![t] = j], j.why = job[t].why, j.pc \in {"lock"} \cup Commands,
         job[t].pc # "none", index' \in S!Trees, rebuilding' = t, rebuilding \in {"none", t},
         index' # index => rebuilding = t, (Rebuilding(t) /\ Seen(t) /\ Reverting(t))'
  PROVE  SnapshotsIInv'
  <1>1. SnapshotTypes
    BY DEF SnapshotsIInv
  <1>2. SnapshotTypes'
    BY <1>1 DEF SnapshotTypes
  <1>3. job'[t] = j
    BY <1>1 DEF SnapshotTypes
  <1>4. S!NoJob' = S!NoJob /\ S!Idle' = S!Idle
    BY DEF S!NoJob, S!NoTree, S!NoFiles, S!None, S!Idle
  <1>5. j # S!NoJob /\ job[t] # S!NoJob
    BY NoJobIs DEF Commands
  <1>6. Errands(t)'
    <2>1. Errands(t)
      BY DEF SnapshotsIInv
    <2> HIDE DEF SnapshotsIInv
    <2>2. QED
      BY <1>3, <1>4, <1>5, <2>1 DEF Errands, Commands
  <1>7. \A u \in Threads \ {t} : job'[u] = job[u] /\ turn'[u] = turn[u]
    BY <1>1 DEF SnapshotTypes
  <1>8. S!RevertsAlone'
    BY <1>7, StillAlone DEF S!Target
  <1>9. QED
    BY <1>1, <1>2, <1>6, <1>7, <1>8, ThreadStep DEF SnapshotTypes

LEMMA TakeIndexKeeps ==
  ASSUME SnapshotsIInv, NEW t \in Threads, S!TakeIndex(t) PROVE SnapshotsIInv'
  <1> USE DEF S!workspace, S!store
  <1> DEFINE pc == IF job[t].why \in {"preview", "restore"} THEN "restorable" ELSE "empty"
             j == [job[t] EXCEPT !.pc = pc]
  <1>1. SnapshotTypes /\ Rebuilding(t) /\ Seen(t) /\ Reverting(t) /\ job[t].pc = "lock" /\ rebuilding = "none"
    BY DEF SnapshotsIInv, S!TakeIndex, S!At, S!Free, S!None
  <1>2. job[t] \in Jobs
    BY <1>1 DEF SnapshotTypes
  <1>3. /\ j \in Jobs /\ j.why = job[t].why /\ j.pc = pc /\ j.tree = job[t].tree /\ j.seen = job[t].seen
        /\ j.previous = job[t].previous
    BY <1>2 DEF Jobs, Commands
  <1>4. job' = [job EXCEPT ![t] = j] /\ job'[t] = j
    BY <1>1 DEF SnapshotTypes, S!TakeIndex, S!Then
  <1>5. pc \in {"restorable", "empty"} /\ (pc = "restorable" <=> job[t].why \in {"preview", "restore"})
    OBVIOUS
  <1> HIDE DEF j, pc
  <1>6. S!Visible' = S!Visible /\ trees' = trees /\ rules' = rules
    BY DEF S!Visible, S!TakeIndex
  <1>7. (Rebuilding(t) /\ Seen(t) /\ Reverting(t))'
    BY <1>1, <1>3, <1>4, <1>5, <1>6 DEF Rebuilding, Seen, Reverting, Commands, S!TakeIndex
  <1>8. QED
    BY <1>1, <1>3, <1>4, <1>5, <1>7, Goes DEF S!TakeIndex, Commands, SnapshotTypes

LEMMA RestorableKeeps ==
  ASSUME SnapshotsIInv, NEW t \in Threads, S!Restorable(t) PROVE SnapshotsIInv'
  <1> USE DEF S!workspace, S!store
  <1> DEFINE ignored == DOMAIN job[t].tree.held \intersect rules
             tr == [job[t].tree EXCEPT !.held = S!Without(@, ignored)]
             j == [job[t] EXCEPT !.pc = "empty", !.tree = tr]
  <1>1. /\ SnapshotTypes /\ Rebuilding(t) /\ Seen(t) /\ Reverting(t) /\ job[t].pc = "restorable"
        /\ rebuilding = t /\ job[t].why \in {"preview", "restore"} /\ job[t].tree.is
    BY DEF SnapshotsIInv, S!Restorable, S!At, Rebuilding, Commands
  <1>2. job[t] \in Jobs /\ job[t].tree \in S!Trees
    BY <1>1 DEF SnapshotTypes, Jobs
  <1>3. tr \in S!Trees /\ tr.is /\ DOMAIN tr.held = DOMAIN job[t].tree.held \ ignored
    BY <1>1, <1>2, TreeWithout
  <1>4. DOMAIN tr.held \cap rules = {}
    BY <1>3
  <1>5. job' = [job EXCEPT ![t] = j]
    BY <1>1, <1>2 DEF SnapshotTypes, S!Restorable, Jobs
  <1>6. index' \in {index, job'[t].tree}
    BY DEF S!Restorable
  <1> HIDE DEF tr
  <1>7. /\ j \in Jobs /\ j.why = job[t].why /\ j.pc = "empty" /\ j.tree = tr /\ j.seen = job[t].seen
        /\ j.previous = job[t].previous
    BY <1>2, <1>3 DEF Jobs, Commands
  <1> HIDE DEF j
  <1>8. job'[t] = j /\ index' \in S!Trees
    BY <1>1, <1>3, <1>5, <1>6, <1>7 DEF SnapshotTypes
  <1>9. S!Visible' = S!Visible /\ trees' = trees /\ rules' = rules /\ rebuilding' = t
    BY <1>1 DEF S!Visible, S!Restorable
  <1>10. (Rebuilding(t) /\ Seen(t) /\ Reverting(t))'
    BY <1>1, <1>3, <1>4, <1>7, <1>8, <1>9 DEF Rebuilding, Seen, Reverting, Commands
  <1>11. QED
    BY <1>1, <1>5, <1>7, <1>8, <1>9, <1>10, Goes DEF S!Restorable, Commands

LEMMA EmptyKeeps ==
  ASSUME SnapshotsIInv, NEW t \in Threads, S!Empty(t) PROVE SnapshotsIInv'
  <1> USE DEF S!workspace, S!store
  <1> DEFINE j == [job[t] EXCEPT !.pc = "add"]
  <1>1. /\ SnapshotTypes /\ Rebuilding(t) /\ Seen(t) /\ Reverting(t) /\ job[t].pc = "empty" /\ rebuilding = t
    BY DEF SnapshotsIInv, S!Empty, S!At, Rebuilding, Commands
  <1>2. job[t] \in Jobs
    BY <1>1 DEF SnapshotTypes
  <1>3. /\ j \in Jobs /\ j.why = job[t].why /\ j.pc = "add" /\ j.tree = job[t].tree /\ j.seen = job[t].seen
        /\ j.previous = job[t].previous
    BY <1>2 DEF Jobs, Commands
  <1>4. job' = [job EXCEPT ![t] = j] /\ job'[t] = j
    BY <1>1 DEF SnapshotTypes, S!Empty, S!Then
  <1> HIDE DEF j
  <1>5. S!Tree({}, S!NoFiles) \in S!Trees
    <2>1. S!NoFiles \in [{} -> Contents]
      BY DEF S!NoFiles
    <2>2. S!NoFiles \in UNION {[F -> Contents] : F \in SUBSET Files}
      BY <2>1
    <2>3. QED
      BY <2>2 DEF S!Tree, S!Trees
  <1>6. S!Visible' = S!Visible /\ trees' = trees /\ rules' = rules /\ rebuilding' = t /\ index' \in S!Trees
    BY <1>1, <1>5 DEF S!Visible, S!Empty
  <1>7. (Rebuilding(t) /\ Seen(t) /\ Reverting(t))'
    BY <1>1, <1>3, <1>4, <1>6 DEF Rebuilding, Seen, Reverting, Commands
  <1>8. QED
    BY <1>1, <1>3, <1>4, <1>6, <1>7, Goes DEF S!Empty, Commands

LEMMA AddKeeps ==
  ASSUME SnapshotsIInv, NEW t \in Threads, S!Add(t) PROVE SnapshotsIInv'
  <1> USE DEF S!workspace, S!store
  <1> DEFINE pc == IF job[t].why = "restore" THEN "checkout" ELSE "write"
             j == [job[t] EXCEPT !.pc = pc]
  <1>1. /\ SnapshotTypes /\ Rebuilding(t) /\ Seen(t) /\ Reverting(t) /\ job[t].pc = "add" /\ rebuilding = t
    BY DEF SnapshotsIInv, S!Add, S!At, Rebuilding, Commands
  <1>2. job[t] \in Jobs
    BY <1>1 DEF SnapshotTypes
  <1>3. /\ j \in Jobs /\ j.why = job[t].why /\ j.pc = pc /\ j.tree = job[t].tree /\ j.seen = job[t].seen
        /\ j.previous = job[t].previous
    BY <1>2 DEF Jobs, Commands
  <1>4. job' = [job EXCEPT ![t] = j] /\ job'[t] = j
    BY <1>1 DEF SnapshotTypes, S!Add, S!Then
  <1>5. pc \in {"checkout", "write"} /\ (pc = "checkout" <=> job[t].why = "restore")
    OBVIOUS
  <1> HIDE DEF j, pc
  <1>6. /\ S!Visible' = S!Visible /\ trees' = trees /\ rules' = rules /\ rebuilding' = t
        /\ index' = S!Visible /\ index' \in S!Trees
    BY <1>1, SnapshotsTyped DEF S!Visible, S!Add
  <1>7. (Rebuilding(t) /\ Seen(t) /\ Reverting(t))'
    BY <1>1, <1>3, <1>4, <1>5, <1>6 DEF Rebuilding, Seen, Reverting, Commands
  <1>8. QED
    BY <1>1, <1>3, <1>4, <1>5, <1>6, <1>7, Goes DEF S!Add, Commands

-----------------------------------------------------------------------------
(* What follows a job. *)

\* A thread that is done with its job holds nothing.
LEMMA Rests ==
  ASSUME NEW t \in Threads, job'[t] = S!NoJob, turn'[t] \in Turns,
         turn'[t] # S!Idle => turn'[t].is = "running" /\ turn'[t].entry >= 1,
         turn'[t].entry <= Len(turnLog')
  PROVE  (Errands(t) /\ Rebuilding(t) /\ Seen(t) /\ Reverting(t))'
  <1>1. S!NoJob' = S!NoJob /\ S!Idle' = S!Idle
    BY DEF S!NoJob, S!NoTree, S!NoFiles, S!None, S!Idle
  <1>2. turn'[t].is = "running" => turn'[t] # S!Idle
    BY NoJobIs
  <1>3. Errands(t)'
    BY <1>1, <1>2, NoJobIs DEF Errands
  <1>4. (Rebuilding(t) /\ Seen(t) /\ Reverting(t))'
    BY NoJobIs DEF Rebuilding, Seen, Reverting, Commands
  <1>5. QED
    BY <1>3, <1>4

LEMMA ReleaseKeeps ==
  ASSUME SnapshotsIInv, NEW t \in Threads, S!Release(t), UNCHANGED <<files, rules, lost, index>>,
         trees \subseteq trees', trees' \in SUBSET S!Trees, rebuilding' = "none", rebuilding \in {"none", t}, turnLog' \in Seq(Entries), Len(turnLog') >= Len(turnLog),
         \A i \in DOMAIN turnLog : S!Target(i) => S!Target(i)'
  PROVE  SnapshotsIInv'
  <1>1. SnapshotTypes
    BY DEF SnapshotsIInv
  <1>2. turn' = [turn EXCEPT ![t] = S!Idle] /\ job' = [job EXCEPT ![t] = S!NoJob]
    BY DEF S!Release
  <1>3. SnapshotTypes'
    BY <1>1, <1>2, NoJobIs DEF SnapshotTypes
  <1>4. turn'[t] = S!Idle /\ job'[t] = S!NoJob /\ \A u \in Threads \ {t} : job'[u] = job[u] /\ turn'[u] = turn[u]
    BY <1>1, <1>2 DEF SnapshotTypes
  <1>5. turn'[t] \in Turns /\ turn'[t].entry <= Len(turnLog')
    BY <1>1, <1>4, NoJobIs DEF SnapshotTypes
  <1>6. (Errands(t) /\ Rebuilding(t) /\ Seen(t) /\ Reverting(t))'
    BY <1>4, <1>5, Rests, SMT
  <1>7. S!RevertsAlone'
    BY <1>4, NoJobIs, StillAlone
  <1>8. QED
    BY <1>3, <1>4, <1>6, <1>7, ThreadStep

\* What a thread does follows from what its job is for.
LEMMA ByErrand ==
  ASSUME SnapshotsIInv, NEW t \in Threads
  PROVE  /\ turn[t] \in Turns /\ job[t] \in Jobs /\ Errands(t) /\ Rebuilding(t) /\ Seen(t) /\ Reverting(t)
         /\ job[t].why = "before" => turn[t].is = "starting"
         /\ job[t].why = "after" => turn[t].is = "closing"
         /\ job[t].why \in {"previous", "restore", "restored"} => turn[t].is = "reverting"
         /\ job[t].why # "none" => turn[t] # S!Idle
         /\ turn[t] # S!Idle => \A u \in Threads \ {t} : turn[u].is \notin {"reverting", "previewing"}
  <1>1. turn[t] \in Turns /\ job[t] \in Jobs /\ Errands(t) /\ Rebuilding(t) /\ Seen(t) /\ Reverting(t)
    BY DEF SnapshotsIInv, SnapshotTypes
  <1>2. turn[t].is \in {"none", "starting", "running", "closing", "reverting", "previewing"}
    BY <1>1 DEF Turns
  <1>3. turn[t] # S!Idle => \A u \in Threads \ {t} : turn[u].is \notin {"reverting", "previewing"}
    BY DEF SnapshotsIInv, S!RevertsAlone
  <1>4. QED
    BY <1>1, <1>2, <1>3 DEF Errands

LEMMA CapturedKeeps ==
  ASSUME SnapshotsIInv, NEW t \in Threads, NEW tr \in S!Trees, S!Captured(t, tr),
         UNCHANGED <<files, rules, lost, index>>, trees \subseteq trees', trees' \in SUBSET S!Trees,
         rebuilding' = "none", rebuilding = t, tr.is => tr \in trees',
         job[t].why = "previous" /\ tr.is => tr = S!Visible
  PROVE  SnapshotsIInv'
  <1> DEFINE en == turn[t].entry
  <1>1. /\ SnapshotTypes /\ Errands(t) /\ turn[t] \in Turns /\ job[t] \in Jobs /\ Len(turnLog) \in Nat
        /\ turnLog \in Seq(Entries) /\ en \in Nat
    BY ByErrand DEF SnapshotsIInv, SnapshotTypes, Turns
  <1>2. \A u \in Threads : S!NoTree \in S!Trees
    BY NoJobIs
  <1>3. CASE job[t].why = "before"
    <2> DEFINE e == [before |-> tr, after |-> S!NoTree, closed |-> FALSE, revert |-> FALSE]
               n == [is |-> "running", entry |-> Len(turnLog')]
    <2>1. /\ turnLog' = Append(turnLog, e) /\ turn' = [turn EXCEPT ![t] = n]
          /\ job' = [job EXCEPT ![t] = S!NoJob]
      BY <1>3 DEF S!Captured
    <2>2. e \in Entries
      BY <1>2 DEF Entries
    <2> HIDE DEF e
    <2>3. /\ turnLog' \in Seq(Entries) /\ Len(turnLog') = Len(turnLog) + 1
          /\ \A i \in DOMAIN turnLog : turnLog'[i] = turnLog[i]
      BY <1>1, <2>1, <2>2
    <2>4. n \in Turns /\ n.is = "running" /\ n.entry >= 1 /\ n.entry <= Len(turnLog')
      BY <1>1, <2>3 DEF Turns
    <2> HIDE DEF n
    <2>5. SnapshotTypes'
      BY <1>1, <2>1, <2>3, <2>4, NoJobIs DEF SnapshotTypes
    <2>6. turn'[t] = n /\ job'[t] = S!NoJob /\ \A u \in Threads \ {t} : job'[u] = job[u] /\ turn'[u] = turn[u]
      BY <1>1, <2>1 DEF SnapshotTypes
    <2>7. (Errands(t) /\ Rebuilding(t) /\ Seen(t) /\ Reverting(t))'
      BY <2>4, <2>6, Rests
    <2>8. S!RevertsAlone'
      <3>1. \A u \in Threads \ {t} : turn[u].is \notin {"reverting", "previewing"}
        BY <1>3, ByErrand
      <3>2. \A i \in DOMAIN turnLog : S!Target(i) => S!Target(i)'
        BY <2>3 DEF S!Target
      <3>3. QED
        BY <2>4, <2>6, <3>1, <3>2, StillAlone
    <2>9. QED
      BY <1>1, <2>3, <2>5, <2>6, <2>7, <2>8, ThreadStep
  <1>4. CASE job[t].why = "after"
    <2>1. /\ turnLog' = [turnLog EXCEPT ![en].after = tr, ![en].closed = TRUE] /\ S!Release(t)
      BY <1>4 DEF S!Captured
    <2>2. en \in 1..Len(turnLog)
      BY <1>1, <1>4, ByErrand DEF Errands
    <2>3. turnLog[en] \in Entries
      BY <1>1, <2>2
    <2>4. [turnLog[en] EXCEPT !.after = tr, !.closed = TRUE] \in Entries
      BY <2>3 DEF Entries
    <2> DEFINE e == [turnLog[en] EXCEPT !.after = tr, !.closed = TRUE]
    <2>5. e \in Entries /\ e.closed /\ e.before = turnLog[en].before
      BY <2>3, <2>4 DEF Entries
    <2>6. turnLog' = [turnLog EXCEPT ![en] = e]
      BY <1>1, <2>1, <2>2, <2>3 DEF Entries
    <2> HIDE DEF e, en
    <2>7. /\ turnLog' \in Seq(Entries) /\ Len(turnLog') = Len(turnLog) /\ DOMAIN turnLog = 1..Len(turnLog)
          /\ \A i \in 1..Len(turnLog) : turnLog'[i] = IF i = en THEN e ELSE turnLog[i]
      BY <1>1, <2>2, <2>5, <2>6
    <2>8. \A i \in DOMAIN turnLog : S!Target(i) => S!Target(i)'
      BY <2>5, <2>7 DEF S!Target
    <2>9. QED
      BY <1>1, <2>1, <2>7, <2>8, ReleaseKeeps
  <1>5. CASE job[t].why = "previous"
    <2>0. turn[t].is = "reverting" /\ turnLog' = turnLog
      BY <1>5, ByErrand DEF S!Captured
    <2>1. S!Target(en) /\ en \in 1..Len(turnLog)
      <3>1. S!Target(en)
        BY <2>0 DEF SnapshotsIInv, S!RevertsAlone
      <3>2. QED
        BY <1>1, <2>0, <3>1 DEF Errands
    <2>2. turnLog[en].before \in S!Trees /\ turnLog[en].before.is
      <3>1. turnLog[en] \in Entries
        BY <1>1, <2>1
      <3>2. QED
        BY <2>1, <3>1 DEF Entries, S!Target
    <2>3. CASE tr.is
      <3> DEFINE j == S!Job("restore", turnLog[en].before, tr)
      <3>1. job' = [job EXCEPT ![t] = j] /\ turn' = turn
        BY <1>5, <2>3 DEF S!Captured
      <3>2. /\ j \in Jobs /\ j # S!NoJob /\ j.why = "restore" /\ j.pc = "lock" /\ j.seen = {S!Visible}
            /\ j.previous = tr /\ j.tree = turnLog[en].before
        <4>1. j.tree = turnLog[en].before
          BY DEF S!Job
        <4>2. QED
          BY <1>1, <2>2, <4>1, NewJob DEF Whys
      <3> HIDE DEF j
      <3>3. job'[t] = j /\ \A u \in Threads \ {t} : job'[u] = job[u] /\ turn'[u] = turn[u]
        BY <1>1, <3>1 DEF SnapshotTypes
      <3>4. SnapshotTypes'
        BY <1>1, <2>0, <3>1, <3>2, NoJobIs DEF SnapshotTypes
      <3>5. S!Visible' = S!Visible /\ S!NoJob' = S!NoJob /\ S!Idle' = S!Idle
        BY DEF S!Visible, S!NoJob, S!NoTree, S!NoFiles, S!None, S!Idle
      <3>6. Errands(t)'
        <4>1. Errands(t) /\ job[t] # S!NoJob
          BY <1>1, <1>5, NoJobIs
        <4> HIDE DEF SnapshotsIInv
        <4>2. QED
          BY <2>0, <3>1, <3>2, <3>3, <3>5, <4>1 DEF Errands
      <3>7. (Rebuilding(t) /\ Seen(t) /\ Reverting(t))'
        BY <1>5, <2>2, <2>3, <3>2, <3>3, <3>5 DEF Rebuilding, Seen, Reverting, Commands
      <3>8. S!RevertsAlone'
        BY <2>0, <3>1, <3>3, StillAlone DEF S!Target
      <3>9. QED
        BY <1>1, <2>0, <3>3, <3>4, <3>6, <3>7, <3>8, ThreadStep
    <2>4. CASE ~tr.is
      <3>1. S!Release(t)
        BY <1>5, <2>4 DEF S!Captured
      <3>2. QED
        BY <1>1, <2>0, <3>1, ReleaseKeeps DEF S!Target
    <2>5. QED
      BY <2>3, <2>4
  <1>6. CASE job[t].why = "restored"
    <2> DEFINE e == [before |-> job[t].previous, closed |-> TRUE, revert |-> TRUE,
                     after |-> IF tr.is THEN tr ELSE turnLog[en].before]
    <2>1. turnLog' = Append(turnLog, e) /\ S!Release(t)
      BY <1>6 DEF S!Captured
    <2>2. en \in 1..Len(turnLog)
      BY <1>1, <1>6, ByErrand DEF Errands
    <2>3. turnLog[en] \in Entries
      BY <1>1, <2>2
    <2>4. e \in Entries
      BY <1>1, <2>3 DEF Entries, Jobs
    <2> HIDE DEF e, en
    <2>5. /\ turnLog' \in Seq(Entries) /\ Len(turnLog') = Len(turnLog) + 1
          /\ \A i \in DOMAIN turnLog : turnLog'[i] = turnLog[i]
      BY <1>1, <2>1, <2>4
    <2>6. \A i \in DOMAIN turnLog : S!Target(i) => S!Target(i)'
      BY <2>5 DEF S!Target
    <2>7. QED
      BY <1>1, <2>1, <2>5, <2>6, ReleaseKeeps
  <1>7. QED
    BY <1>3, <1>4, <1>5, <1>6 DEF S!Captured

LEMMA ErrsKeeps ==
  ASSUME SnapshotsIInv, NEW t \in Threads, S!Errs(t), UNCHANGED <<files, rules, lost, index, trees>>, rebuilding = t
  PROVE  SnapshotsIInv'
  <1>1. rebuilding' = "none" /\ trees' \in SUBSET S!Trees /\ turnLog \in Seq(Entries)
    BY DEF S!Errs, S!None, SnapshotsIInv, SnapshotTypes
  <1>2. CASE job[t].why \in {"preview", "restore"}
    <2>1. S!Release(t) /\ turnLog' = turnLog
      BY <1>2 DEF S!Errs
    <2>2. \A i \in DOMAIN turnLog : S!Target(i) => S!Target(i)'
      BY <2>1 DEF S!Target
    <2>3. Len(turnLog') >= Len(turnLog) /\ turnLog' \in Seq(Entries)
      BY <1>1, <2>1
    <2>4. QED
      BY <1>1, <2>1, <2>2, <2>3, ReleaseKeeps
  <1>3. CASE job[t].why \notin {"preview", "restore"}
    <2>1. S!Captured(t, S!NoTree) /\ S!NoTree.is = FALSE
      BY <1>3 DEF S!Errs, S!NoTree
    <2>2. QED
      BY <1>1, <2>1, NoJobIs, CapturedKeeps
  <1>4. QED
    BY <1>2, <1>3

LEMMA WriteKeeps ==
  ASSUME SnapshotsIInv, NEW t \in Threads, S!Write(t) PROVE SnapshotsIInv'
  <1> USE DEF S!workspace, S!store
  <1>1. /\ SnapshotTypes /\ Rebuilding(t) /\ Seen(t) /\ Reverting(t) /\ job[t].pc = "write" /\ rebuilding = t
        /\ job[t] \in Jobs /\ turnLog \in Seq(Entries)
    BY ByErrand DEF SnapshotsIInv, SnapshotTypes, S!Write, S!At, Rebuilding, Commands
  <1>2. CASE job[t].why = "preview"
    <2>1. S!Release(t) /\ rebuilding' = "none" /\ turnLog' = turnLog /\ trees' = trees
      BY <1>2 DEF S!Write, S!None
    <2>2. \A i \in DOMAIN turnLog : S!Target(i) => S!Target(i)'
      BY <2>1 DEF S!Target
    <2>3. Len(turnLog') >= Len(turnLog) /\ turnLog' \in Seq(Entries) /\ trees' \in SUBSET S!Trees
      BY <1>1, <2>1 DEF SnapshotTypes
    <2>4. QED
      BY <1>1, <2>1, <2>2, <2>3, ReleaseKeeps DEF S!Write
  <1>3. CASE job[t].why # "preview"
    <2> DEFINE j == [job[t] EXCEPT !.pc = "record", !.tree = index]
    <2>1. job' = [job EXCEPT ![t] = j]
      BY <1>1, <1>3 DEF S!Write, SnapshotTypes, Jobs
    <2>2. /\ j \in Jobs /\ j.why = job[t].why /\ j.pc = "record" /\ j.tree = index /\ j.seen = job[t].seen
          /\ j.previous = job[t].previous
      BY <1>1 DEF Jobs, Commands, SnapshotTypes
    <2> HIDE DEF j
    <2>3. job'[t] = j
      BY <1>1, <2>1 DEF SnapshotTypes
    <2>4. /\ S!Visible' = S!Visible /\ trees' = trees /\ rules' = rules /\ rebuilding' = t /\ index' = index
          /\ index \in S!Trees /\ turn' = turn
      BY <1>1, <1>3 DEF S!Visible, S!Write, SnapshotTypes
    <2>5. (Rebuilding(t) /\ Seen(t) /\ Reverting(t))'
      BY <1>1, <1>3, <2>2, <2>3, <2>4 DEF Rebuilding, Seen, Reverting, Commands
    <2>6. QED
      BY <1>1, <2>1, <2>2, <2>4, <2>5, Goes DEF S!Write, Commands
  <1>4. QED
    BY <1>2, <1>3

LEMMA RecordKeeps ==
  ASSUME SnapshotsIInv, NEW t \in Threads, S!Record(t) PROVE SnapshotsIInv'
  <1> USE DEF S!workspace, S!store
  <1> DEFINE tr == job[t].tree
  <1>1. /\ SnapshotTypes /\ Rebuilding(t) /\ Seen(t) /\ Reverting(t) /\ job[t].pc = "record" /\ rebuilding = t
        /\ job[t] \in Jobs
    BY ByErrand DEF SnapshotsIInv, SnapshotTypes, S!Record, S!At, Rebuilding, Commands
  <1>2. tr \in S!Trees
    BY <1>1 DEF Jobs
  <1>3. trees \subseteq trees' /\ trees' \in SUBSET S!Trees /\ tr \in trees' /\ rebuilding' = "none"
    BY <1>1, <1>2 DEF S!Record, S!None, SnapshotTypes
  <1>4. job[t].why = "previous" => tr = S!Visible
    BY <1>1 DEF Seen, Reverting
  <1>5. S!Captured(t, tr)
    BY DEF S!Record
  <1> HIDE DEF tr
  <1>6. QED
    BY <1>1, <1>2, <1>3, <1>4, <1>5, CapturedKeeps DEF S!Record

-----------------------------------------------------------------------------
(* The restore, which no other thread works beside. *)

LEMMA RestoreAlone ==
  ASSUME SnapshotsIInv, NEW t \in Threads, job[t].pc = "checkout"
  PROVE  /\ job[t].why = "restore" /\ turn[t].is = "reverting" /\ rebuilding = t
         /\ \A u \in Threads \ {t} : turn[u] = S!Idle /\ job[u] = S!NoJob
         /\ index = S!Visible /\ S!Visible \in trees /\ job[t].previous = S!Visible
         /\ DOMAIN job[t].tree.held \cap rules = {} /\ job[t].tree \in S!Trees /\ job[t].tree.is
  <1>1. job[t].why = "restore" /\ turn[t].is = "reverting" /\ rebuilding = t /\ job[t] \in Jobs
    BY ByErrand DEF Rebuilding, Commands
  <1>2. \A u \in Threads \ {t} : turn[u] = S!Idle
    BY <1>1 DEF SnapshotsIInv, S!RevertsAlone
  <1>3. \A u \in Threads \ {t} : job[u] = S!NoJob
    BY <1>2, ByErrand, NoJobIs DEF Errands
  <1>4. QED
    BY <1>1, <1>2, <1>3, ByErrand DEF Rebuilding, Reverting, Jobs

\* What a checkout writes, of all the files or some of them, is typed, and what it overwrites or
\* removes is in the snapshot the revert took.
LEMMA Overwrites ==
  ASSUME SnapshotsIInv, NEW t \in Threads, job[t].pc = "checkout", NEW done \in SUBSET Files, S!Written(t, done),
         trees' = trees
  PROVE  /\ files' \in UNION {[F -> Contents] : F \in SUBSET Files}
         /\ lost' \in SUBSET (Files \X Contents) /\ S!Recoverable'
  <1> DEFINE kept == job[t].tree.held
             gone == {f \in done : f \notin DOMAIN kept /\ f \in DOMAIN index.held}
             over == done \intersect DOMAIN kept
             changed == {f \in DOMAIN files \intersect (gone \union over) : f \notin over \/ kept[f] # files[f]}
             Domain == (DOMAIN files \ gone) \union over
  <1>1. /\ files' = [f \in Domain |-> IF f \in over THEN kept[f] ELSE files[f]]
        /\ lost' = lost \union {<<f, files[f]>> : f \in changed}
    BY DEF S!Written
  <1>2. PICK F \in SUBSET Files : files \in [F -> Contents]
    BY DEF SnapshotsIInv, SnapshotTypes
  <1>3. PICK H \in SUBSET Files : kept \in [H -> Contents]
    <2>1. job[t].tree \in S!Trees /\ job[t].tree.is
      BY RestoreAlone
    <2>2. S!NoTree.is = FALSE
      BY DEF S!NoTree
    <2>3. job[t].tree \in {S!NoTree} \union [rules : SUBSET Ignorable, is : {TRUE},
                                            held : UNION {[E -> Contents] : E \in SUBSET Files}]
      BY <2>1 DEF S!Trees
    <2>4. job[t].tree.held \in UNION {[E -> Contents] : E \in SUBSET Files}
      BY <2>1, <2>2, <2>3
    <2>5. QED
      BY <2>4
  <1>4. Domain \in SUBSET Files /\ \A f \in Domain : (IF f \in over THEN kept[f] ELSE files[f]) \in Contents
    BY <1>2, <1>3
  <1>5. files' \in [Domain -> Contents]
    BY <1>1, <1>4
  <1>6. \A f \in changed : f \in Files /\ files[f] \in Contents
    BY <1>2
  <1>7. lost' \in SUBSET (Files \X Contents)
    BY <1>1, <1>6 DEF SnapshotsIInv, SnapshotTypes
  <1>8. \A f \in changed : f \in DOMAIN files \ rules
    <2>1. DOMAIN index.held = DOMAIN files \ rules
      <3>1. S!Visible.held = [f \in DOMAIN files \ rules |-> files[f]]
        BY DEF S!Visible, S!Tree, S!Without
      <3>2. index = S!Visible
        BY RestoreAlone
      <3>3. QED
        BY <3>1, <3>2
    <2>2. DOMAIN kept \cap rules = {}
      BY RestoreAlone
    <2>3. QED
      BY <2>1, <2>2
  <1>9. \A f \in changed : f \in DOMAIN S!Visible.held /\ S!Visible.held[f] = files[f]
    BY <1>8 DEF S!Visible, S!Tree, S!Without
  <1>10. S!Visible \in trees /\ S!Recoverable
    BY RestoreAlone DEF SnapshotsIInv
  <1> HIDE DEF changed
  <1>11. S!Recoverable'
    <2> SUFFICES ASSUME NEW o \in lost'
                 PROVE  \E tr \in trees' : o[1] \in DOMAIN tr.held /\ tr.held[o[1]] = o[2]
      BY DEF S!Recoverable
    <2>1. CASE o \in lost
      BY <1>10, <2>1 DEF S!Recoverable
    <2>2. CASE o \notin lost
      <3>1. PICK f \in changed : o = <<f, files[f]>>
        BY <1>1, <2>2
      <3>2. o[1] = f /\ o[2] = files[f]
        BY <3>1
      <3>3. QED
        BY <1>9, <1>10, <3>2
    <2>3. QED
      BY <2>1, <2>2
  <1>12. QED
    BY <1>4, <1>5, <1>7, <1>11

\* When every thread rests, the rest of the invariant holds.
LEMMA AllRest ==
  ASSUME SnapshotTypes', S!Recoverable', \A u \in Threads : turn'[u] = S!Idle /\ job'[u] = S!NoJob
  PROVE  SnapshotsIInv'
  <1>1. \A u \in Threads : S!Idle.entry <= Len(turnLog') /\ S!Idle \in Turns
    BY NoJobIs DEF SnapshotTypes
  <1>2. \A u \in Threads : (Errands(u) /\ Rebuilding(u) /\ Seen(u) /\ Reverting(u))'
    BY <1>1, NoJobIs, Rests
  <1>3. S!RevertsAlone'
    BY NoJobIs DEF S!RevertsAlone
  <1>4. QED
    BY <1>2, <1>3 DEF SnapshotsIInv

LEMMA CheckoutKeeps ==
  ASSUME SnapshotsIInv, NEW t \in Threads, S!Checkout(t) PROVE SnapshotsIInv'
  <1> USE DEF S!workspace, S!store
  <1> DEFINE base == S!Job("restored", S!NoTree, job[t].previous)
             j == [base EXCEPT !.seen = {S!Visible'}]
  <1>1. job[t].pc = "checkout" /\ SnapshotTypes /\ job[t] \in Jobs
    BY ByErrand DEF S!Checkout, S!At, SnapshotsIInv
  <1>2. /\ turn[t].is = "reverting" /\ rebuilding = t
        /\ \A u \in Threads \ {t} : turn[u] = S!Idle /\ job[u] = S!NoJob
        /\ job[t].tree \in S!Trees /\ job[t].tree.is
    BY <1>1, RestoreAlone
  <1>3. trees' = trees /\ turnLog' = turnLog /\ turn' = turn /\ index' = job[t].tree /\ rules' = job[t].tree.rules
        /\ rebuilding' = "none" /\ job' = [job EXCEPT ![t] = j]
    BY DEF S!Checkout, S!None
  <1>4. /\ files' \in UNION {[F -> Contents] : F \in SUBSET Files}
        /\ lost' \in SUBSET (Files \X Contents) /\ S!Recoverable'
    <2>1. S!Written(t, Files)
      BY DEF S!Checkout
    <2>2. Files \in SUBSET Files
      OBVIOUS
    <2>3. QED
      BY <1>1, <1>3, <2>1, <2>2, Overwrites
  <1>5. rules' \in SUBSET Ignorable
    <2>1. job[t].tree \in {S!NoTree} \union [rules : SUBSET Ignorable, is : {TRUE},
                                            held : UNION {[E -> Contents] : E \in SUBSET Files}]
      BY <1>2 DEF S!Trees
    <2>2. S!NoTree.is = FALSE
      BY DEF S!NoTree
    <2>3. QED
      BY <1>2, <1>3, <2>1, <2>2
  <1>6. S!Visible' \in S!Trees
    <2> DEFINE kept == S!Without(files, rules)'
    <2>1. PICK F \in SUBSET Files : files' \in [F -> Contents]
      BY <1>4
    <2>2. kept \in [F \ rules' -> Contents] /\ F \ rules' \in SUBSET Files
      BY <2>1 DEF S!Without
    <2>3. kept \in UNION {[E -> Contents] : E \in SUBSET Files}
      BY <2>2
    <2>4. S!Visible' = [rules |-> rules', held |-> kept, is |-> TRUE]
      BY DEF S!Visible, S!Tree
    <2>5. QED
      BY <1>5, <2>3, <2>4 DEF S!Trees
  <1>7. /\ base \in Jobs /\ base.why = "restored" /\ base.pc = "lock" /\ base # S!NoJob
    BY <1>1, NewJob, NoJobIs DEF Whys, Jobs
  <1> HIDE DEF base
  <1>8. j \in Jobs /\ j.why = "restored" /\ j.pc = "lock" /\ j.seen = {S!Visible'}
    BY <1>6, <1>7 DEF Jobs
  <1> HIDE DEF j
  <1>9. job'[t] = j /\ \A u \in Threads \ {t} : job'[u] = job[u]
    BY <1>1, <1>3 DEF SnapshotTypes
  <1>10. SnapshotTypes'
    BY <1>1, <1>2, <1>3, <1>4, <1>5, <1>8 DEF SnapshotTypes
  <1>11. S!NoJob' = S!NoJob /\ S!Idle' = S!Idle
    BY DEF S!NoJob, S!NoTree, S!NoFiles, S!None, S!Idle
  <1>12. (Errands(t) /\ Rebuilding(t) /\ Seen(t) /\ Reverting(t))'
    <2>1. Errands(t) /\ j # S!NoJob /\ job[t] # S!NoJob
      BY <1>1, <1>8, NoJobIs, ByErrand
    <2>2. Errands(t)'
      BY <1>2, <1>3, <1>8, <1>9, <1>11, <2>1 DEF Errands
    <2>3. QED
      BY <1>8, <1>9, <2>2 DEF Rebuilding, Seen, Reverting, Commands
  <1>13. \A u \in Threads \ {t} : (Errands(u) /\ Rebuilding(u) /\ Seen(u) /\ Reverting(u))'
    <2> SUFFICES ASSUME NEW u \in Threads \ {t} PROVE (Errands(u) /\ Rebuilding(u) /\ Seen(u) /\ Reverting(u))'
      OBVIOUS
    <2>1. job'[u] = S!NoJob /\ turn'[u] = S!Idle /\ S!Idle.entry <= Len(turnLog') /\ turn'[u] \in Turns
      BY <1>2, <1>3, <1>9, <1>10, NoJobIs DEF SnapshotTypes
    <2>2. QED
      BY <2>1, NoJobIs, Rests
  <1>14. S!RevertsAlone'
    BY <1>3, StillAlone DEF S!Target
  <1>15. QED
    BY <1>4, <1>10, <1>12, <1>13, <1>14 DEF SnapshotsIInv

LEMMA GitFailsKeeps ==
  ASSUME SnapshotsIInv, NEW t \in Threads, S!GitFails(t) PROVE SnapshotsIInv'
  <1> USE DEF S!workspace, S!store
  <1>0. rebuilding = t
    <2>1. job[t].pc \in {"restorable", "empty", "add", "checkout"} => rebuilding = t
      BY ByErrand DEF Rebuilding, Commands
    <2>2. QED
      BY <2>1 DEF S!GitFails
  <1>1. S!Errs(t) /\ UNCHANGED <<index, trees>>
    BY DEF S!GitFails
  <1>2. CASE UNCHANGED <<files, rules, lost>>
    BY <1>0, <1>1, <1>2, ErrsKeeps
  <1>3. CASE ~UNCHANGED <<files, rules, lost>>
    <2>1. /\ job[t].pc = "checkout" /\ \E done \in SUBSET Files : S!Written(t, done)
          /\ rules' \in {rules, job[t].tree.rules}
      BY <1>3 DEF S!GitFails, S!At
    <2>2. /\ turn[t].is = "reverting" /\ job[t].why = "restore"
          /\ \A u \in Threads \ {t} : turn[u] = S!Idle /\ job[u] = S!NoJob
          /\ job[t].tree \in S!Trees /\ job[t].tree.is
      BY <2>1, RestoreAlone
    <2>3. /\ files' \in UNION {[F -> Contents] : F \in SUBSET Files}
          /\ lost' \in SUBSET (Files \X Contents) /\ S!Recoverable'
      BY <1>1, <2>1, Overwrites
    <2>4. SnapshotTypes
      BY DEF SnapshotsIInv
    <2>5. rules' \in SUBSET Ignorable
      <3>1. job[t].tree \in {S!NoTree} \union [rules : SUBSET Ignorable, is : {TRUE},
                                              held : UNION {[E -> Contents] : E \in SUBSET Files}]
        BY <2>2 DEF S!Trees
      <3>2. S!NoTree.is = FALSE
        BY DEF S!NoTree
      <3>3. rules \in SUBSET Ignorable
        BY <2>4 DEF SnapshotTypes
      <3>4. QED
        BY <2>1, <2>2, <3>1, <3>2, <3>3
    <2>6. S!Release(t) /\ turnLog' = turnLog /\ rebuilding' = "none"
      BY <1>1, <2>2 DEF S!Errs, S!None
    <2>7. turn' = [turn EXCEPT ![t] = S!Idle] /\ job' = [job EXCEPT ![t] = S!NoJob]
      BY <2>6 DEF S!Release
    <2>8. \A u \in Threads : turn'[u] = S!Idle /\ job'[u] = S!NoJob
      BY <2>2, <2>4, <2>7 DEF SnapshotTypes
    <2>9. SnapshotTypes'
      BY <1>1, <2>3, <2>4, <2>5, <2>6, <2>7, NoJobIs DEF SnapshotTypes
    <2>10. QED
      BY <2>3, <2>8, <2>9, AllRest
  <1>4. QED
    BY <1>2, <1>3

LEMMA DieKeeps ==
  ASSUME SnapshotsIInv, S!Die PROVE SnapshotsIInv'
  <1> USE DEF S!workspace, S!store
  <1>1. SnapshotTypes
    BY DEF SnapshotsIInv
  <1>2. /\ turn' = [t \in Threads |-> S!Idle] /\ job' = [t \in Threads |-> S!NoJob] /\ rebuilding' = "none"
        /\ UNCHANGED <<index, trees, turnLog>>
    BY DEF S!Die, S!None
  <1>3. \A u \in Threads : turn'[u] = S!Idle /\ job'[u] = S!NoJob
    BY <1>2
  <1>4. /\ files' \in UNION {[F -> Contents] : F \in SUBSET Files} /\ rules' \in SUBSET Ignorable
        /\ lost' \in SUBSET (Files \X Contents) /\ S!Recoverable'
    <2>1. CASE ~\E t \in Threads : S!At(t, "checkout")
      <3>1. UNCHANGED <<files, rules, lost>>
        BY <2>1 DEF S!Die
      <3>2. S!Recoverable'
        BY <1>2, <3>1 DEF SnapshotsIInv, S!Recoverable
      <3>3. QED
        BY <1>1, <3>1, <3>2 DEF SnapshotTypes
    <2>2. CASE \E t \in Threads : S!At(t, "checkout")
      <3> DEFINE t == CHOOSE u \in Threads : S!At(u, "checkout")
      <3>1. t \in Threads /\ job[t].pc = "checkout"
        BY <2>2 DEF S!At
      <3>2. (\E done \in SUBSET Files : S!Written(t, done)) /\ rules' \in {rules, job[t].tree.rules}
        BY <2>2 DEF S!Die
      <3> HIDE DEF t
      <3>3. job[t].tree \in S!Trees /\ job[t].tree.is
        BY <3>1, RestoreAlone
      <3>4. job[t].tree \in {S!NoTree} \union [rules : SUBSET Ignorable, is : {TRUE},
                                              held : UNION {[E -> Contents] : E \in SUBSET Files}]
        BY <3>3 DEF S!Trees
      <3>5. S!NoTree.is = FALSE /\ rules \in SUBSET Ignorable
        BY <1>1 DEF S!NoTree, SnapshotTypes
      <3>6. rules' \in SUBSET Ignorable
        BY <3>2, <3>3, <3>4, <3>5
      <3>7. QED
        BY <1>2, <3>1, <3>2, <3>6, Overwrites
    <2>3. QED
      BY <2>1, <2>2
  <1>5. SnapshotTypes'
    BY <1>1, <1>2, <1>4, NoJobIs DEF SnapshotTypes
  <1>6. QED
    BY <1>3, <1>4, <1>5, AllRest

-----------------------------------------------------------------------------
\* A turn writes the workspace while others capture it, never under a revert.
LEMMA EditKeeps ==
  ASSUME SnapshotsIInv, NEW t \in Threads, S!Edit(t) PROVE SnapshotsIInv'
  <1> USE DEF S!workspace, S!store
  <1>1. SnapshotTypes
    BY DEF SnapshotsIInv
  <1>2. files' \in UNION {[F -> Contents] : F \in SUBSET Files} /\ rules' \in SUBSET Ignorable
    <2>1. PICK F \in SUBSET Files : files \in [F -> Contents]
      BY <1>1 DEF SnapshotTypes
    <2>2. CASE rules' = rules /\ \E f \in Files, c \in Contents :
                 files' = [g \in DOMAIN files \union {f} |-> IF g = f THEN c ELSE files[g]]
      <3>1. PICK f \in Files, c \in Contents :
              files' = [g \in DOMAIN files \union {f} |-> IF g = f THEN c ELSE files[g]]
        BY <2>2
      <3>2. files' \in [F \union {f} -> Contents] /\ F \union {f} \in SUBSET Files
        BY <2>1, <3>1
      <3>3. files' \in UNION {[E -> Contents] : E \in SUBSET Files}
        BY <3>2
      <3>4. QED
        BY <1>1, <2>2, <3>3 DEF SnapshotTypes
    <2>3. CASE rules' = rules /\ \E f \in DOMAIN files : files' = S!Without(files, {f})
      <3>1. PICK f \in F : files' = S!Without(files, {f})
        BY <2>1, <2>3
      <3>2. files' \in [F \ {f} -> Contents] /\ F \ {f} \in SUBSET Files
        BY <2>1, <3>1 DEF S!Without
      <3>3. files' \in UNION {[E -> Contents] : E \in SUBSET Files}
        BY <3>2
      <3>4. QED
        BY <1>1, <2>3, <3>3 DEF SnapshotTypes
    <2>4. CASE files' = files /\ rules' \in {{}, Ignorable} \ {rules}
      BY <1>1, <2>4 DEF SnapshotTypes
    <2>5. QED
      BY <2>2, <2>3, <2>4 DEF S!Edit
  <1>3. S!Visible' \in S!Trees
    <2> DEFINE kept == S!Without(files, rules)'
    <2>1. PICK F \in SUBSET Files : files' \in [F -> Contents]
      BY <1>2
    <2>2. kept \in [F \ rules' -> Contents] /\ F \ rules' \in SUBSET Files
      BY <2>1 DEF S!Without
    <2>3. kept \in UNION {[E -> Contents] : E \in SUBSET Files}
      BY <2>2
    <2>4. S!Visible' = [rules |-> rules', held |-> kept, is |-> TRUE]
      BY DEF S!Visible, S!Tree
    <2>5. QED
      BY <1>2, <2>3, <2>4 DEF S!Trees
  <1>4. UNCHANGED <<index, trees, turnLog, turn, rebuilding, lost>>
    BY DEF S!Edit
  <1> DEFINE New(u) == IF job[u] = S!NoJob THEN S!NoJob ELSE [job[u] EXCEPT !.seen = @ \union {S!Visible'}]
  <1>5. job' = [u \in Threads |-> New(u)]
    BY DEF S!Edit
  <1>6. \A u \in Threads : /\ New(u) \in Jobs /\ New(u).why = job[u].why /\ New(u).pc = job[u].pc
                           /\ New(u).tree = job[u].tree /\ New(u).previous = job[u].previous
                           /\ job[u].seen \subseteq New(u).seen
                           /\ New(u) = S!NoJob <=> job[u] = S!NoJob
                           /\ job[u] # S!NoJob => S!Visible' \in New(u).seen
    <2> SUFFICES ASSUME NEW u \in Threads, job[u] # S!NoJob
                 PROVE  /\ New(u) \in Jobs /\ New(u).why = job[u].why /\ New(u).pc = job[u].pc
                        /\ New(u).tree = job[u].tree /\ New(u).previous = job[u].previous
                        /\ job[u].seen \subseteq New(u).seen
                        /\ New(u) # S!NoJob
                        /\ S!Visible' \in New(u).seen
      BY NoJobIs
    <2>1. job[u] \in Jobs
      BY <1>1 DEF SnapshotTypes
    <2> DEFINE n == [job[u] EXCEPT !.seen = @ \union {S!Visible'}]
    <2>2. /\ n \in Jobs /\ n.why = job[u].why /\ n.pc = job[u].pc
          /\ n.tree = job[u].tree /\ n.previous = job[u].previous /\ n.seen = job[u].seen \union {S!Visible'}
      BY <1>3, <2>1 DEF Jobs
    <2>3. New(u) = n
      OBVIOUS
    <2> HIDE DEF n
    <2>4. n # S!NoJob
      BY <2>2, NoJobIs
    <2> HIDE DEF New
    <2>5. QED
      BY <2>2, <2>3, <2>4
  <1>7. \A u \in Threads : job'[u] = New(u)
    BY <1>5
  <1> HIDE DEF New
  <1>8. SnapshotTypes'
    BY <1>1, <1>2, <1>4, <1>5, <1>6 DEF SnapshotTypes
  <1>9. \A u \in Threads : job[u].why \notin {"preview", "previous", "restore", "restored"}
    <2>1. \A u \in Threads : turn[u].is \notin {"reverting", "previewing"}
      BY ByErrand, NoJobIs DEF S!Edit
    <2>2. \A u \in Threads : turn[u] \in Turns /\ Errands(u) /\ job[u] \in Jobs
      BY ByErrand
    <2>3. QED
      BY <2>1, <2>2 DEF Errands, Turns
  <1>10. S!NoJob' = S!NoJob /\ S!Idle' = S!Idle
    BY DEF S!NoJob, S!NoTree, S!NoFiles, S!None, S!Idle
  <1>11. \A u \in Threads : (Errands(u) /\ Rebuilding(u) /\ Seen(u) /\ Reverting(u))'
    <2> SUFFICES ASSUME NEW u \in Threads PROVE (Errands(u) /\ Rebuilding(u) /\ Seen(u) /\ Reverting(u))'
      OBVIOUS
    <2>1. Errands(u) /\ Rebuilding(u) /\ Seen(u) /\ Reverting(u)
      BY ByErrand
    <2>2. Errands(u)'
      BY <1>4, <1>6, <1>7, <1>10, <2>1 DEF Errands
    <2>3. Rebuilding(u)' /\ Seen(u)'
      BY <1>4, <1>6, <1>7, <2>1 DEF Rebuilding, Seen, Errands
    <2>4. Reverting(u)'
      BY <1>4, <1>6, <1>7, <1>9, <2>1 DEF Reverting, Rebuilding
    <2>5. QED
      BY <2>2, <2>3, <2>4
  <1>12. S!Recoverable' /\ S!RevertsAlone'
    <2>1. S!RevertsAlone'
      BY <1>4, StillAlone DEF S!Target
    <2>2. S!Recoverable'
      BY <1>4 DEF SnapshotsIInv, S!Recoverable
    <2>3. QED
      BY <2>1, <2>2
  <1>13. QED
    BY <1>8, <1>11, <1>12 DEF SnapshotsIInv

LEMMA SnapshotsStart == S!Init => SnapshotsIInv
  <1> SUFFICES ASSUME S!Init PROVE SnapshotsIInv
    OBVIOUS
  <1>1. \A t \in Threads : turn[t] = S!Idle /\ job[t] = S!NoJob
    BY DEF S!Init
  <1>2. files \in UNION {[F -> Contents] : F \in SUBSET Files}
    <2>1. (CHOOSE c \in Contents : TRUE) \in Contents
      BY SnapshotsAssumption
    <2>2. files \in [Files -> Contents]
      BY <2>1 DEF S!Init
    <2>3. QED
      BY <2>2
  <1>3. SnapshotTypes
    BY <1>2, NoJobIs DEF S!Init, SnapshotTypes, S!None
  <1>4. \A t \in Threads : Errands(t) /\ Rebuilding(t) /\ Seen(t) /\ Reverting(t)
    <2> SUFFICES ASSUME NEW t \in Threads PROVE Errands(t) /\ Rebuilding(t) /\ Seen(t) /\ Reverting(t)
      OBVIOUS
    <2>1. turn[t].entry <= Len(turnLog)
      BY <1>1, NoJobIs DEF S!Init
    <2>2. Errands(t)
      BY <1>1, <2>1, NoJobIs DEF Errands
    <2>3. QED
      BY <1>1, <2>2, NoJobIs DEF Rebuilding, Seen, Reverting, Commands
  <1>5. S!Recoverable /\ S!RevertsAlone
    BY <1>1, NoJobIs DEF S!Init, S!Recoverable, S!RevertsAlone
  <1>6. QED
    BY <1>3, <1>4, <1>5 DEF SnapshotsIInv

LEMMA SnapshotsStep == SnapshotsIInv /\ [S!Next]_snapshotsVars => SnapshotsIInv'
  <1> SUFFICES ASSUME SnapshotsIInv, [S!Next]_snapshotsVars PROVE SnapshotsIInv'
    OBVIOUS
  <1>1. CASE UNCHANGED snapshotsVars
    BY <1>1 DEF snapshotsVars, SnapshotsIInv, SnapshotTypes, Errands, Rebuilding, Seen, Reverting, S!Recoverable,
       S!RevertsAlone, S!Target, S!Visible, S!NoJob, S!NoTree, S!NoFiles, S!None, S!Idle
  <1>2. CASE S!Die
    BY <1>2, DieKeeps
  <1>3. ASSUME NEW t \in Threads,
               \/ S!StartTurn(t) \/ S!Edit(t) \/ S!FinishTurn(t) \/ S!Interrupt(t)
               \/ S!TakeIndex(t) \/ S!Restorable(t) \/ S!Empty(t) \/ S!Add(t) \/ S!Write(t) \/ S!Record(t)
               \/ S!Checkout(t) \/ S!GitFails(t)
        PROVE  SnapshotsIInv'
    BY <1>3, StartTurnKeeps, EditKeeps, FinishTurnKeeps, InterruptKeeps, TakeIndexKeeps, RestorableKeeps,
       EmptyKeeps, AddKeeps, WriteKeeps, RecordKeeps, CheckoutKeeps, GitFailsKeeps
  <1>4. ASSUME NEW t \in Threads, NEW i \in DOMAIN turnLog, S!StartRevert(t, i) \/ S!StartPreview(t, i)
        PROVE  SnapshotsIInv'
    BY <1>4, StartRevertKeeps, StartPreviewKeeps
  <1>5. QED
    BY <1>1, <1>2, <1>3, <1>4 DEF S!Next

LEMMA SnapshotsImplied == SnapshotsIInv => S!SnapshotsInv
  <1> SUFFICES ASSUME SnapshotsIInv PROVE S!SnapshotsInv
    OBVIOUS
  <1>1. SnapshotTypes
    BY DEF SnapshotsIInv
  <1>2. \A t \in Threads : turn[t].entry \in 0..Len(turnLog) /\ job[t].tree \in S!Trees
    BY <1>1, ByErrand DEF Turns, Jobs, Errands, SnapshotTypes
  <1>3. S!SnapshotsTypeOK
    BY <1>1, <1>2, SnapshotsTyped DEF SnapshotTypes, S!SnapshotsTypeOK, S!None
  <1>4. S!TakenWhole
    BY ByErrand DEF S!TakenWhole, S!At, Seen
  <1>5. QED
    BY <1>3, <1>4 DEF S!SnapshotsInv, SnapshotsIInv

(* A snapshot is the workspace as it stood at one moment while it was taken, everything a revert  *)
(* overwrites is in a recorded snapshot, and a revert works alone, for every set of files,        *)
(* contents and threads, however captures, interrupts, edits, failing git commands and deaths of  *)
(* the instance come together (core/snapshots.py, core/turns.py).                                 *)
THEOREM SnapshotsSafe == Spec => []SnapshotsInv
  <1> DEFINE I == part = "snapshots" => SnapshotsIInv
  <1>1. Init => I
    BY SnapshotsStart DEF Init
  <1>2. I /\ [Next]_vars => I'
    <2> SUFFICES ASSUME I, [Next]_vars, part' = "snapshots" PROVE SnapshotsIInv'
      OBVIOUS
    <2>1. part' = part /\ [S!Next]_snapshotsVars
      BY DEF Next, vars, Recap, Dreams, Picks, Ticket, Snapshots, Configuration, snapshotsVars
    <2>2. QED
      BY <2>1, SnapshotsStep
  <1>3. I => SnapshotsInv
    BY SnapshotsImplied DEF SnapshotsInv
  <1> HIDE DEF I
  <1>4. QED
    BY <1>1, <1>2, <1>3, PTL DEF Spec

-----------------------------------------------------------------------------
(* Recap.  What ended and has no marker is in the worker's hands, in its   *)
(* queue or among what failed; an episode beyond one for each work comes   *)
(* of a restart.                                                           *)

Workers == {R!NoWork} \cup [w : Work, phase : {"draft", "remember", "mark"}]

RecapTypes ==
    /\ ended \in Seq(Work) /\ marks \in [Work -> Nat] /\ queue \in Seq(Work) /\ worker \in Workers
    /\ written \in SUBSET [w : Work, n : Nat] /\ IsFiniteSet(written)
    /\ recapRestarts \in Nat /\ failed \in SUBSET Work

\* The worker is at something that ended and has no marker.
Working ==
    /\ worker.phase # "idle" => worker.w \in R!Ended \ R!Recapped
    /\ \A i \in DOMAIN queue : queue[i] \in R!Ended
    /\ \A w \in Work : marks[w] <= 1 /\ (marks[w] > 0 => w \in R!Ended)

Owed ==
    \A w \in R!Ended \ R!Recapped :
        (worker.phase # "idle" /\ worker.w = w) \/ w \in failed \/ \E i \in DOMAIN queue : queue[i] = w

\* What has its marker, or has its episode and gets its marker next.
Distilled == R!Recapped \cup {w \in Work : worker.phase = "mark" /\ worker.w = w}

Episodes ==
    /\ \A node \in written : node.w \in Stops => node.n = 1
    /\ Cardinality(written) <= Cardinality(Distilled) + recapRestarts

RecapIInv == RecapTypes /\ Working /\ Owed /\ Episodes

\* The instance's Cardinality is the library's.
LEMMA CardinalityIs == ASSUME NEW X PROVE R!Cardinality(X) = Cardinality(X)
  BY DEF R!Cardinality, Cardinality

LEMMA NoWorkIs == R!NoWork.w = "none" /\ R!NoWork.phase = "idle" /\ R!NoWork' = R!NoWork
  BY DEF R!NoWork

\* A worker is at something, or it is idle and nobody.
LEMMA WorkerIs ==
  ASSUME RecapTypes
  PROVE  /\ worker = R!NoWork <=> worker.phase = "idle"
         /\ worker.phase # "idle" => worker.w \in Work /\ worker.phase \in {"draft", "remember", "mark"}
         /\ worker.phase # "idle" => worker \in [w : Work, phase : {"draft", "remember", "mark"}]
  BY NoWorkIs DEF RecapTypes, Workers

LEMMA DistilledFinite ==
  ASSUME RecapTypes, Working
  PROVE  /\ IsFiniteSet(Distilled) /\ Cardinality(Distilled) \in Nat /\ Distilled \subseteq R!Ended
         /\ Cardinality(Distilled) <= Cardinality(R!Ended) /\ Cardinality(R!Ended) \in Nat
         /\ Cardinality(written) \in Nat
  <1>1. R!Ended \in SUBSET Work
    BY DEF R!Ended, RecapTypes
  <1>2. IsFiniteSet(R!Ended) /\ Cardinality(R!Ended) \in Nat
    BY <1>1, RecapAssumption, FS_Subset, FS_CardinalityType
  <1>3. Distilled \in SUBSET R!Ended
    BY WorkerIs DEF Distilled, Working, R!Recapped
  <1>4. QED
    BY <1>2, <1>3, FS_Subset, FS_CardinalityType DEF RecapTypes

\* Work that ends joins what ended and the queue.
LEMMA EndsKeeps ==
  ASSUME RecapIInv, NEW w \in Work, ended' = Append(ended, w), queue' = Append(queue, w),
         UNCHANGED <<marks, worker, written, recapRestarts, failed>>
  PROVE  RecapIInv'
  <1> USE DEF RecapIInv
  <1>1. RecapTypes'
    BY DEF RecapTypes
  <1>2. /\ DOMAIN queue = 1..Len(queue) /\ DOMAIN queue' = 1..(Len(queue) + 1) /\ Len(queue) \in Nat
        /\ queue'[Len(queue) + 1] = w /\ \A i \in DOMAIN queue : queue'[i] = queue[i]
    BY DEF RecapTypes
  <1>3. /\ DOMAIN ended = 1..Len(ended) /\ DOMAIN ended' = 1..(Len(ended) + 1) /\ Len(ended) \in Nat
        /\ ended'[Len(ended) + 1] = w /\ \A i \in DOMAIN ended : ended'[i] = ended[i]
    BY DEF RecapTypes
  <1>4. R!Ended' = R!Ended \cup {w}
    <2>1. \A i \in DOMAIN ended' : i \in DOMAIN ended \/ i = Len(ended) + 1
      BY <1>3
    <2>2. \A i \in DOMAIN ended : i \in DOMAIN ended'
      BY <1>3
    <2>3. Len(ended) + 1 \in DOMAIN ended'
      BY <1>3
    <2>4. QED
      BY <1>3, <2>1, <2>2, <2>3 DEF R!Ended
  <1>5. R!Recapped' = R!Recapped
    BY DEF R!Recapped
  <1>6. \A i \in DOMAIN queue' : i \in DOMAIN queue \/ i = Len(queue) + 1
    BY <1>2
  <1>7. DOMAIN queue \subseteq DOMAIN queue' /\ Len(queue) + 1 \in DOMAIN queue'
    BY <1>2
  <1>8. Working'
    BY <1>2, <1>4, <1>5, <1>6 DEF Working
  <1>9. Owed'
    BY <1>2, <1>4, <1>5, <1>7 DEF Owed
  <1>10. Episodes'
    <2>1. Distilled' = Distilled
      BY <1>5 DEF Distilled
    <2>2. QED
      BY <2>1 DEF Episodes
  <1>11. QED
    BY <1>1, <1>8, <1>9, <1>10

LEMMA TakeKeeps ==
  ASSUME RecapIInv, R!Take PROVE RecapIInv'
  <1> USE DEF RecapIInv
  <1> DEFINE w == Head(queue)
  <1>1. /\ Len(queue) \in Nat \ {0} /\ w = queue[1] /\ w \in Work /\ queue' \in Seq(Work) /\ Len(queue') = Len(queue) - 1
        /\ \A i \in 1..Len(queue') : queue'[i] = queue[i + 1]
    BY DEF R!Take, RecapTypes
  <1>2. /\ 1 \in DOMAIN queue /\ \A i \in DOMAIN queue' : i + 1 \in DOMAIN queue /\ queue'[i] = queue[i + 1]
        /\ \A i \in DOMAIN queue : i # 1 => i - 1 \in DOMAIN queue' /\ queue'[i - 1] = queue[i]
    <2>1. DOMAIN queue = 1..Len(queue) /\ DOMAIN queue' = 1..Len(queue')
      BY <1>1 DEF RecapTypes
    <2>2. \A i \in 1..Len(queue') : i + 1 \in 1..Len(queue)
      BY <1>1
    <2>3. \A i \in 1..Len(queue) : i # 1 => i - 1 \in 1..Len(queue') /\ (i - 1) + 1 = i
      BY <1>1
    <2>4. 1 \in 1..Len(queue)
      BY <1>1
    <2>5. \A i \in 1..Len(queue) : i # 1 => queue'[i - 1] = queue[i]
      BY <1>1, <2>3
    <2>6. QED
      BY <1>1, <2>1, <2>2, <2>3, <2>4, <2>5
  <1>3. UNCHANGED <<ended, marks, written, recapRestarts, failed>> /\ worker = R!NoWork
        /\ worker' = IF w \in R!Recapped THEN R!NoWork ELSE [w |-> w, phase |-> "draft"]
    BY DEF R!Take
  <1> HIDE DEF w
  <1>4. R!Ended' = R!Ended /\ R!Recapped' = R!Recapped
    BY <1>3 DEF R!Ended, R!Recapped
  <1>5. w \notin R!Recapped => /\ worker' = [w |-> w, phase |-> "draft"] /\ worker'.w = w /\ worker'.phase = "draft"
                               /\ worker' \in [w : Work, phase : {"draft", "remember", "mark"}]
    BY <1>1, <1>3
  <1>6. RecapTypes'
    BY <1>1, <1>3, <1>5, NoWorkIs DEF RecapTypes, Workers
  <1>7. Working'
    <2>1. w \in R!Ended
      BY <1>1, <1>2 DEF Working
    <2>2. worker'.phase # "idle" => worker'.w \in R!Ended \ R!Recapped
      BY <1>3, <1>5, <2>1, NoWorkIs
    <2>3. \A i \in DOMAIN queue' : queue'[i] \in R!Ended
      BY <1>2 DEF Working
    <2>4. QED
      BY <1>3, <1>4, <2>2, <2>3 DEF Working
  <1>8. Owed'
    <2> SUFFICES ASSUME NEW v \in R!Ended \ R!Recapped, v \notin failed
                 PROVE  (worker'.phase # "idle" /\ worker'.w = v) \/ \E i \in DOMAIN queue' : queue'[i] = v
      BY <1>3, <1>4 DEF Owed
    <2>1. PICK i \in DOMAIN queue : queue[i] = v
      BY <1>3, NoWorkIs DEF Owed
    <2>2. CASE i = 1
      BY <1>1, <1>5, <2>1, <2>2
    <2>3. CASE i # 1
      BY <1>2, <2>1, <2>3
    <2>4. QED
      BY <2>2, <2>3
  <1>9. Episodes'
    <2>1. Distilled' = Distilled
      BY <1>3, <1>4, <1>5, NoWorkIs DEF Distilled
    <2>2. QED
      BY <1>3, <2>1 DEF Episodes
  <1>10. QED
    BY <1>6, <1>7, <1>8, <1>9

LEMMA DraftKeeps ==
  ASSUME RecapIInv, R!Draft PROVE RecapIInv'
  <1> USE DEF RecapIInv
  <1>1. /\ UNCHANGED <<ended, marks, queue, written, recapRestarts>> /\ worker.phase = "draft"
        /\ worker.w \in Work /\ worker \in [w : Work, phase : {"draft", "remember", "mark"}]
    BY WorkerIs DEF R!Draft
  <1>2. R!Ended' = R!Ended /\ R!Recapped' = R!Recapped
    BY <1>1 DEF R!Ended, R!Recapped
  <1>3. Distilled = R!Recapped
    BY <1>1 DEF Distilled
  <1>4. CASE worker' = R!NoWork /\ failed' = failed \union {worker.w}
    <2>1. RecapTypes'
      BY <1>1, <1>4, NoWorkIs DEF RecapTypes, Workers
    <2>2. Working'
      BY <1>1, <1>2, <1>4, NoWorkIs DEF Working
    <2>3. Owed'
      BY <1>1, <1>2, <1>4, NoWorkIs DEF Owed
    <2>4. Distilled' = Distilled
      BY <1>2, <1>3, <1>4, NoWorkIs DEF Distilled
    <2>5. QED
      BY <1>1, <2>1, <2>2, <2>3, <2>4 DEF Episodes
  <1>5. ASSUME NEW phase \in {"mark", "remember"}, worker' = [worker EXCEPT !.phase = phase], UNCHANGED failed
        PROVE  RecapIInv'
    <2>1. worker'.w = worker.w /\ worker'.phase = phase /\ worker' \in [w : Work, phase : {"draft", "remember", "mark"}]
      BY <1>1, <1>5
    <2>2. RecapTypes'
      BY <1>1, <1>5, <2>1, NoWorkIs DEF RecapTypes, Workers
    <2>3. Working' /\ Owed'
      BY <1>1, <1>2, <1>5, <2>1 DEF Working, Owed
    <2>4. Distilled \subseteq Distilled'
      BY <1>2, <1>3 DEF Distilled
    <2>5. Cardinality(Distilled) <= Cardinality(Distilled') /\ Cardinality(Distilled) \in Nat /\ Cardinality(Distilled') \in Nat
      <3>1. IsFiniteSet(Distilled')
        <4>1. Distilled' \in SUBSET Work
          BY DEF Distilled, R!Recapped
        <4>2. QED
          BY <4>1, RecapAssumption, FS_Subset
      <3>2. QED
        BY <2>4, <3>1, FS_Subset, FS_CardinalityType
    <2>6. Episodes'
      BY <1>1, <2>5, DistilledFinite DEF Episodes, RecapTypes
    <2>7. QED
      BY <2>2, <2>3, <2>6
  <1>6. QED
    BY <1>4, <1>5 DEF R!Draft

LEMMA RememberKeeps ==
  ASSUME RecapIInv, R!Remember PROVE RecapIInv'
  <1> USE DEF RecapIInv
  <1> DEFINE node == R!Node(worker.w)
  <1>1. /\ UNCHANGED <<ended, marks, queue, failed, recapRestarts>> /\ worker.phase = "remember"
        /\ worker.w \in Work /\ worker \in [w : Work, phase : {"draft", "remember", "mark"}]
        /\ worker.w \in R!Ended \ R!Recapped
    BY WorkerIs DEF R!Remember, Working
  <1>2. R!Ended' = R!Ended /\ R!Recapped' = R!Recapped
    BY <1>1 DEF R!Ended, R!Recapped
  <1>3. node \in [w : Work, n : Nat] /\ (node.w \in Stops => node.n = 1)
    <2> DEFINE before == {each \in written : each.w = worker.w}
    <2>1. Cardinality(before) \in Nat
      <3>1. before \in SUBSET written
        OBVIOUS
      <3>2. QED
        BY <3>1, FS_Subset, FS_CardinalityType DEF RecapTypes
    <2>2. CASE worker.w \in Stops
      BY <1>1, <2>2 DEF R!Node
    <2>3. CASE worker.w \notin Stops
      <3>1. node = [w |-> worker.w, n |-> 1 + Cardinality(before)]
        BY <2>3, CardinalityIs DEF R!Node
      <3> HIDE DEF before, node
      <3>2. QED
        BY <1>1, <2>1, <2>3, <3>1
    <2>4. QED
      BY <2>2, <2>3
  <1>4. written' = written \cup {node} /\ worker' = [worker EXCEPT !.phase = "mark"]
    BY DEF R!Remember
  <1> HIDE DEF node
  <1>5. worker'.w = worker.w /\ worker'.phase = "mark" /\ worker' \in [w : Work, phase : {"draft", "remember", "mark"}]
    BY <1>1, <1>4
  <1>6. IsFiniteSet(written') /\ Cardinality(written') <= Cardinality(written) + 1 /\ Cardinality(written') \in Nat
    <2>1. IsFiniteSet(written) /\ Cardinality(written) \in Nat
      BY FS_CardinalityType DEF RecapTypes
    <2>2. /\ IsFiniteSet(written \cup {node})
          /\ Cardinality(written \cup {node}) = IF node \in written THEN Cardinality(written) ELSE Cardinality(written) + 1
      BY <2>1, FS_AddElement
    <2>3. QED
      BY <1>4, <2>1, <2>2
  <1>7. RecapTypes'
    BY <1>1, <1>3, <1>4, <1>5, <1>6 DEF RecapTypes, Workers
  <1>8. Working' /\ Owed'
    BY <1>1, <1>2, <1>5 DEF Working, Owed
  <1>9. Distilled' = Distilled \cup {worker.w} /\ worker.w \notin Distilled
    BY <1>1, <1>2, <1>5 DEF Distilled
  <1>10. Cardinality(Distilled') = Cardinality(Distilled) + 1
    BY <1>9, DistilledFinite, FS_AddElement
  <1>11. Episodes'
    <2>1. Cardinality(written') <= Cardinality(Distilled') + recapRestarts'
      BY <1>1, <1>6, <1>10, DistilledFinite DEF Episodes, RecapTypes
    <2>2. QED
      BY <1>3, <1>4, <2>1 DEF Episodes
  <1>12. QED
    BY <1>7, <1>8, <1>11

LEMMA MarkKeeps ==
  ASSUME RecapIInv, R!Mark PROVE RecapIInv'
  <1> USE DEF RecapIInv
  <1>1. /\ UNCHANGED <<ended, queue, written, recapRestarts, failed>> /\ worker.phase = "mark"
        /\ worker.w \in Work /\ worker.w \in R!Ended \ R!Recapped
        /\ marks' = [marks EXCEPT ![worker.w] = @ + 1] /\ worker' = R!NoWork
    BY WorkerIs DEF R!Mark, Working
  <1>2. marks[worker.w] = 0
    BY <1>1 DEF R!Recapped, RecapTypes
  <1>3. /\ marks' \in [Work -> Nat] /\ marks'[worker.w] = 1
        /\ \A w \in Work : w # worker.w => marks'[w] = marks[w]
    BY <1>1, <1>2 DEF RecapTypes
  <1>4. R!Ended' = R!Ended /\ R!Recapped' = R!Recapped \cup {worker.w}
    BY <1>1, <1>3 DEF R!Ended, R!Recapped
  <1>5. RecapTypes'
    BY <1>1, <1>3, NoWorkIs DEF RecapTypes, Workers
  <1>6. Working'
    BY <1>1, <1>3, <1>4, NoWorkIs DEF Working
  <1>7. Owed'
    BY <1>1, <1>4, NoWorkIs DEF Owed
  <1>8. Distilled' = Distilled
    BY <1>1, <1>4, NoWorkIs DEF Distilled
  <1>9. Episodes'
    BY <1>1, <1>8 DEF Episodes
  <1>10. QED
    BY <1>5, <1>6, <1>7, <1>9

LEMMA RecapRestartKeeps ==
  ASSUME RecapIInv, R!Restart PROVE RecapIInv'
  <1> USE DEF RecapIInv
  <1> DEFINE left == {i \in DOMAIN ended : ended[i] \notin R!Recapped}
  <1>1. UNCHANGED <<ended, marks, written>> /\ recapRestarts' = recapRestarts + 1 /\ worker' = R!NoWork /\ failed' = {}
    BY DEF R!Restart
  <1>2. PICK place \in R!Unrecapped : queue' = [k \in DOMAIN place |-> ended[place[k]]]
    BY DEF R!Restart
  <1>3. /\ place \in [1..Cardinality(left) -> left] /\ \A i \in left : \E k \in DOMAIN place : place[k] = i
    <2>1. R!Unrecapped = {order \in [1..Cardinality(left) -> left] :
                             /\ \A i \in left : \E k \in DOMAIN order : order[k] = i
                             /\ \A k, l \in DOMAIN order : k < l => order[k] < order[l]}
      BY CardinalityIs DEF R!Unrecapped
    <2> HIDE DEF left
    <2>2. QED
      BY <2>1
  <1>4. Cardinality(left) \in Nat
    <2>1. left \in SUBSET (1..Len(ended)) /\ Len(ended) \in Nat
      BY DEF RecapTypes
    <2>2. IsFiniteSet(1..Len(ended))
      BY <2>1, FS_Interval
    <2>3. QED
      BY <2>1, <2>2, FS_Subset, FS_CardinalityType
  <1>5. \A i \in left : ended[i] \in Work /\ ended[i] \in R!Ended
    BY DEF RecapTypes, R!Ended
  <1>6. queue' \in Seq(Work) /\ DOMAIN queue' = DOMAIN place
    <2> DEFINE n == Cardinality(left)
    <2> HIDE DEF left
    <2>1. DOMAIN place = 1..n /\ \A k \in 1..n : ended[place[k]] \in Work
      BY <1>3, <1>5
    <2>2. n \in Nat
      BY <1>4
    <2> HIDE DEF n
    <2>3. [k \in 1..n |-> ended[place[k]]] \in Seq(Work)
      BY <2>1, <2>2
    <2>4. QED
      BY <1>2, <2>1, <2>3
  <1>7. \A k \in DOMAIN queue' : queue'[k] \in R!Ended
    BY <1>2, <1>3, <1>5
  <1>8. R!Ended' = R!Ended /\ R!Recapped' = R!Recapped
    BY <1>1 DEF R!Ended, R!Recapped
  <1>9. RecapTypes'
    BY <1>1, <1>6, NoWorkIs DEF RecapTypes, Workers
  <1>10. Working'
    BY <1>1, <1>7, <1>8, NoWorkIs DEF Working
  <1>11. Owed'
    <2> SUFFICES ASSUME NEW w \in R!Ended \ R!Recapped PROVE \E k \in DOMAIN queue' : queue'[k] = w
      BY <1>8 DEF Owed
    <2>1. PICK i \in DOMAIN ended : ended[i] = w
      BY DEF R!Ended
    <2>2. i \in left
      BY <2>1
    <2>3. QED
      BY <1>2, <1>3, <2>1, <2>2
  <1>12. Episodes'
    <2> DEFINE w == worker.w
    <2>1. Distilled' = R!Recapped
      BY <1>1, <1>8, NoWorkIs DEF Distilled
    <2>2. IsFiniteSet(R!Recapped) /\ Cardinality(R!Recapped) \in Nat
      <3>1. R!Recapped \in SUBSET Work
        BY DEF R!Recapped
      <3>2. QED
        BY <3>1, RecapAssumption, FS_Subset, FS_CardinalityType
    <2>3. Distilled \in SUBSET (R!Recapped \cup {w})
      BY DEF Distilled
    <2> HIDE DEF w
    <2>4. Cardinality(Distilled) <= Cardinality(R!Recapped) + 1
      <3>1. IsFiniteSet(R!Recapped \cup {w}) /\ Cardinality(R!Recapped \cup {w}) <= Cardinality(R!Recapped) + 1
            /\ Cardinality(R!Recapped \cup {w}) \in Nat
        BY <2>2, FS_AddElement
      <3>2. QED
        BY <2>2, <2>3, <3>1, DistilledFinite, FS_Subset
    <2>5. QED
      BY <1>1, <2>1, <2>2, <2>4, DistilledFinite DEF Episodes, RecapTypes
  <1>13. QED
    BY <1>9, <1>10, <1>11, <1>12

LEMMA RecapStart == R!Init => RecapIInv
  <1> SUFFICES ASSUME R!Init PROVE RecapIInv
    OBVIOUS
  <1>1. ended = <<>> /\ queue = <<>> /\ worker = R!NoWork /\ written = {} /\ recapRestarts = 0 /\ failed = {}
        /\ marks = [w \in Work |-> 0]
    BY DEF R!Init
  <1>2. RecapTypes
    BY <1>1, FS_EmptySet DEF RecapTypes, Workers
  <1>3. R!Ended = {} /\ R!Recapped = {}
    BY <1>1 DEF R!Ended, R!Recapped
  <1>4. Working /\ Owed
    BY <1>1, <1>3, NoWorkIs DEF Working, Owed
  <1>5. Distilled = {}
    BY <1>1, <1>3, NoWorkIs DEF Distilled
  <1>6. QED
    BY <1>1, <1>2, <1>4, <1>5, FS_EmptySet DEF RecapIInv, Episodes

LEMMA RecapStep == RecapIInv /\ [R!Next]_recapVars => RecapIInv'
  <1> SUFFICES ASSUME RecapIInv, [R!Next]_recapVars PROVE RecapIInv'
    OBVIOUS
  <1>1. CASE UNCHANGED <<ended, marks, queue, worker, written, recapRestarts, failed>>
    BY <1>1 DEF RecapIInv, RecapTypes, Working, Owed, Episodes, Distilled, R!Ended, R!Recapped
  <1>2. ASSUME NEW w \in Work, R!Close(w) \/ R!Tell(w) PROVE RecapIInv'
    BY <1>1, <1>2, EndsKeeps DEF R!Close, R!Tell
  <1>3. QED
    BY <1>1, <1>2, TakeKeeps, DraftKeeps, RememberKeeps, MarkKeeps, RecapRestartKeeps DEF R!Next, recapVars

LEMMA RecapImplied == RecapIInv => R!RecapOwed
  <1> SUFFICES ASSUME RecapIInv PROVE R!RecapOwed
    OBVIOUS
  <1>1. \A w \in Stops : Cardinality({node \in written : node.w = w}) <= 1
    <2> SUFFICES ASSUME NEW w \in Stops PROVE Cardinality({node \in written : node.w = w}) <= 1
      OBVIOUS
    <2> DEFINE one == [w |-> w, n |-> 1]
               its == {node \in written : node.w = w}
    <2>1. its \in SUBSET {one}
      BY DEF RecapIInv, RecapTypes, Episodes
    <2> HIDE DEF one, its
    <2>2. Cardinality(its) <= Cardinality({one}) /\ Cardinality({one}) = 1 /\ IsFiniteSet({one})
      BY <2>1, FS_Singleton, FS_Subset
    <2>3. QED
      BY <2>2 DEF its
  <1>2. Cardinality(written) <= Cardinality(R!Ended) + recapRestarts
    BY DistilledFinite DEF RecapIInv, Episodes, RecapTypes
  <1>3. \A w \in Work : marks[w] <= 1
    BY DEF RecapIInv, Working
  <1>4. \A w \in R!Ended \ R!Recapped : worker.w = w \/ w \in failed \/ \E i \in DOMAIN queue : queue[i] = w
    BY DEF RecapIInv, Owed
  <1>5. QED
    BY <1>1, <1>2, <1>3, <1>4, CardinalityIs DEF R!RecapOwed, R!OneEpisode

(* No recap is forgotten or marked twice, a run's stop leaves one episode, and beyond one episode  *)
(* for each work there is at most one for each restart, for every finite set of turns and stops    *)
(* and every number of failures and restarts (memory/recap.py).                                    *)
THEOREM RecapsOwed == Spec => []RecapOwed
  <1> DEFINE I == part = "recap" => RecapIInv
  <1>1. Init => I
    BY RecapStart DEF Init
  <1>2. I /\ [Next]_vars => I'
    <2> SUFFICES ASSUME I, [Next]_vars, part' = "recap" PROVE RecapIInv'
      OBVIOUS
    <2>1. part' = part /\ [R!Next]_recapVars
      BY DEF Next, vars, Recap, Dreams, Picks, Ticket, Snapshots, Configuration, recapVars
    <2>2. QED
      BY <2>1, RecapStep
  <1>3. I => RecapOwed
    BY RecapImplied DEF RecapOwed
  <1> HIDE DEF I
  <1>4. QED
    BY <1>1, <1>2, <1>3, PTL DEF Spec

-----------------------------------------------------------------------------
(* Dreams.  One dream works at a time, so what a prune may take no dream   *)
(* that works can cite, and a reflection shows what earlier ones have not. *)

Learned == [t : Nat, sources : SUBSET Nat]
AllDreams == [stage : {"consolidation", "reflection"},
              state : {"started", "pruning", "framed", "parked", "done", "ended", "lost"},
              batch : SUBSET Nat, citable : SUBSET Nat, shown : SUBSET Learned]
LogEntries == [type : {"started", "completed"}, t : Nat]
              \cup [type : {"consolidated"}, t : Nat, episodes : SUBSET Nat, facts : SUBSET Learned]
Writes == [t : Nat, batch : SUBSET Nat, sources : SUBSET Nat, done : BOOLEAN]

DreamTypes ==
    /\ log \in Seq(LogEntries) /\ dreams \in Seq(AllDreams)
    /\ day \in Nat /\ dated \in Seq(Nat) /\ episodes \in SUBSET Nat
    /\ facts \in SUBSET Learned /\ writing \in SUBSET Writes
    /\ \A fact \in facts : fact.t \in DOMAIN dreams
    /\ \A each \in writing : each.t \in DOMAIN dreams

Gone(t) == dreams[t].state \in {"ended", "lost"}

\* One dream works; one that writes works too, unless it ended, and what it will cite is there.
OneWorks ==
    /\ \A t, u \in D!Working : t = u
    /\ \A t \in DOMAIN dreams : dreams[t].state = "pruning" => dreams[t].stage = "consolidation"
    /\ \A each \in writing :
          /\ dreams[each.t].state = "framed" \/ Gone(each.t)
          /\ dreams[each.t].state = "framed" => each.sources \subseteq episodes

\* What a dream is about to prune no fact cites, but for those of dreams that ended.
PrunesUncited ==
    \A t \in DOMAIN dreams : dreams[t].state = "pruning" =>
       \A fact \in D!Live : fact.sources \cap dreams[t].batch = {} \/ Gone(fact.t)

\* Every reflection started once, and one that completed is done.
Logged ==
    /\ \A i \in D!Events("started") : log[i].t \in D!Reflections
    /\ \A i, j \in D!Events("started") : log[i].t = log[j].t => i = j
    /\ \A t \in D!Reflections : \E i \in D!Events("started") : log[i].t = t
    /\ \A i \in D!Events("completed") : log[i].t \in D!Reflections /\ dreams[log[i].t].state = "done"
    /\ D!Completions # {} => \E i \in D!Completions : \A j \in D!Completions : j <= i
    /\ \A i \in D!Events("consolidated") : log[i].facts \subseteq facts

\* A completed reflection has shown the fact.
ShownOnce(fact) == \E j \in D!Completions : fact \in dreams[log[j].t].shown

\* A reflection that was framed shows what was recorded before it started and none has shown.
ShowsAll(t) ==
    \A s \in D!Events("started"), i \in D!Events("consolidated") : log[s].t = t /\ i <= s =>
       \A fact \in log[i].facts \ D!Forgotten : fact \in dreams[t].shown \/ ShownOnce(fact)

Framed(t) == dreams[t].state \in {"framed", "parked", "done"}

LogInv == Logged /\ \A t \in D!Reflections : Framed(t) => ShowsAll(t)
GraphInv == OneWorks /\ PrunesUncited /\ D!CitedKept
DreamsIInv == DreamTypes /\ GraphInv /\ LogInv /\ D!FactsRecorded

-----------------------------------------------------------------------------
(* The operators of a step. *)

LEMMA DreamIs ==
  ASSUME DreamTypes, NEW t \in DOMAIN dreams, NEW d \in AllDreams, dreams' = [dreams EXCEPT ![t] = d]
  PROVE  /\ dreams' \in Seq(AllDreams) /\ DOMAIN dreams' = DOMAIN dreams /\ Len(dreams') = Len(dreams)
         /\ dreams'[t] = d /\ \A u \in DOMAIN dreams : u # t => dreams'[u] = dreams[u]
  <1>1. dreams \in Seq(AllDreams) /\ DOMAIN dreams = 1 .. Len(dreams)
    BY DEF DreamTypes
  <1>2. QED
    BY <1>1, ExceptSeq

LEMMA ADream == ASSUME DreamTypes, NEW t \in DOMAIN dreams PROVE dreams[t] \in AllDreams /\ t \in Nat
  <1>1. dreams \in Seq(AllDreams) /\ t \in 1 .. Len(dreams)
    BY DEF DreamTypes
  <1>2. QED
    BY <1>1, ElementOfSeq

LEMMA ClosedIs ==
  ASSUME DreamTypes, NEW t \in DOMAIN dreams, NEW state \in {"done", "ended", "lost"}
  PROVE  /\ D!Closed(t, state) \in AllDreams
         /\ D!Closed(t, state).stage = dreams[t].stage /\ D!Closed(t, state).state = state
         /\ D!Closed(t, state).shown = dreams[t].shown
  BY ADream DEF D!Closed, D!NewDream, AllDreams

LEMMA EventsAre ==
  ASSUME DreamTypes
  PROVE  /\ Len(log) \in Nat
         /\ \A i \in 1 .. Len(log) : log[i] \in LogEntries
         /\ \A i \in D!Events("started") \cup D!Events("completed") : i \in 1 .. Len(log) /\ log[i].t \in Nat
         /\ \A i \in D!Events("consolidated") : i \in 1 .. Len(log) /\ log[i].facts \in SUBSET Learned /\ log[i].t \in Nat
  <1>1. Len(log) \in Nat /\ \A i \in 1 .. Len(log) : log[i] \in LogEntries
    BY ElementOfSeq DEF DreamTypes
  <1>2. \A i \in 1 .. Len(log) : log[i].t \in Nat /\ (log[i].type = "consolidated" => log[i].facts \in SUBSET Learned)
    BY <1>1 DEF LogEntries
  <1>3. QED
    BY <1>1, <1>2 DEF D!Events

\* What an appended event adds.
LEMMA Appended ==
  ASSUME DreamTypes, NEW e \in LogEntries, log' = Append(log, e)
  PROVE  /\ log' \in Seq(LogEntries) /\ Len(log) \in Nat
         /\ log'[Len(log) + 1] = e /\ \A i \in 1 .. Len(log) : log'[i] = log[i]
         /\ \A type : D!Events(type)' = D!Events(type) \cup (IF e.type = type THEN {Len(log) + 1} ELSE {})
         /\ \A type : \A i \in D!Events(type) : i \in 1 .. Len(log) /\ log'[i] = log[i] /\ i # Len(log) + 1
  <1>1. /\ log' \in Seq(LogEntries) /\ Len(log) \in Nat /\ Len(log') = Len(log) + 1
        /\ log'[Len(log) + 1] = e /\ \A i \in 1 .. Len(log) : log'[i] = log[i]
    BY AppendProperties DEF DreamTypes
  <1>2. \A i : i \in 1 .. Len(log') <=> i \in 1 .. Len(log) \/ i = Len(log) + 1
    BY <1>1
  <1>3. ASSUME NEW type PROVE D!Events(type)' = D!Events(type) \cup (IF e.type = type THEN {Len(log) + 1} ELSE {})
    BY <1>1, <1>2 DEF D!Events
  <1>4. \A type : \A i \in D!Events(type) : i \in 1 .. Len(log) /\ log'[i] = log[i] /\ i # Len(log) + 1
    BY <1>1 DEF D!Events
  <1>5. QED
    BY <1>1, <1>3, <1>4

-----------------------------------------------------------------------------
(* What reflections show. *)

LEMMA CompletionsAre == Logged => D!Completions = D!Events("completed")
  BY DEF Logged, D!Completions

LEMMA SinceIs ==
  ASSUME DreamTypes, Logged
  PROVE  \/ D!Since = 0
         \/ /\ D!Since \in D!Events("started")
            /\ \E j \in D!Completions : log[D!Since].t = log[j].t
  <1>1. CASE D!Completions = {}
    BY <1>1 DEF D!Since
  <1>2. CASE D!Completions # {}
    <2> DEFINE last == CHOOSE i \in D!Completions : \A j \in D!Completions : j <= i
    <2>1. last \in D!Completions
      BY <1>2 DEF Logged
    <2>2. D!LastReflected = log[last].t
      BY DEF D!LastReflected
    <2> HIDE DEF last
    <2>3. log[last].t \in D!Reflections
      BY <2>1 DEF D!Completions
    <2>4. \E i \in D!Events("started") : log[i].t = D!LastReflected
      BY <2>2, <2>3 DEF Logged
    <2>5. D!Since = CHOOSE i \in D!Events("started") : log[i].t = D!LastReflected
      BY <1>2 DEF D!Since
    <2>6. D!Since \in D!Events("started") /\ log[D!Since].t = D!LastReflected
      BY <2>4, <2>5
    <2>7. QED
      BY <2>1, <2>2, <2>6
  <1>3. QED
    BY <1>1, <1>2

\* What was recorded before the last completed reflection started some completed one has shown.
LEMMA ShownBefore ==
  ASSUME DreamTypes, LogInv, NEW i \in D!Events("consolidated"), NEW fact \in log[i].facts \ D!Forgotten
  PROVE  i <= D!Since => ShownOnce(fact)
  <1> SUFFICES ASSUME i <= D!Since PROVE ShownOnce(fact)
    OBVIOUS
  <1>1. i \in 1 .. Len(log) /\ Len(log) \in Nat
    BY EventsAre
  <1>2. D!Since # 0
    BY <1>1
  <1>3. Logged
    BY DEF LogInv
  <1>4. PICK j \in D!Completions : D!Since \in D!Events("started") /\ log[D!Since].t = log[j].t
    BY <1>2, <1>3, SinceIs
  <1>5. log[j].t \in D!Reflections /\ Framed(log[j].t)
    BY <1>3, <1>4, CompletionsAre DEF Logged, Framed
  <1>6. ShowsAll(log[j].t)
    BY <1>5 DEF LogInv
  <1>7. fact \in dreams[log[j].t].shown \/ ShownOnce(fact)
    BY <1>4, <1>6 DEF ShowsAll
  <1>8. QED
    BY <1>4, <1>7 DEF ShownOnce

LEMMA NoneSkippedHolds == DreamTypes /\ LogInv => D!NoneSkipped
  <1> SUFFICES ASSUME DreamTypes, LogInv PROVE D!NoneSkipped
    OBVIOUS
  <1>1. ASSUME NEW i \in D!Events("consolidated"), NEW fact \in log[i].facts \ D!Forgotten, i <= D!Since
        PROVE  \E j \in D!Completions : fact \in dreams[log[j].t].shown
    BY <1>1, ShownBefore DEF ShownOnce
  <1>2. QED
    BY <1>1 DEF D!NoneSkipped

\* A frame of reflection shows whatever none has shown.
LEMMA FrameShows ==
  ASSUME DreamTypes, LogInv, NEW i \in D!Events("consolidated"), NEW fact \in log[i].facts \ D!Forgotten
  PROVE  ShownOnce(fact) \/ fact \in D!Fresh \cap D!Live
  <1>1. i \in 1 .. Len(log) /\ Len(log) \in Nat
    BY EventsAre
  <1>2. D!Since \in Nat
    <2>1. Logged
      BY DEF LogInv
    <2>2. QED
      <3>1. D!Since = 0 \/ D!Since \in D!Events("started")
        BY <2>1, SinceIs
      <3>2. D!Since = 0 \/ D!Since \in 1 .. Len(log)
        BY <3>1, EventsAre
      <3>3. QED
        BY <1>1, <3>2
  <1>3. CASE i <= D!Since
    BY <1>3, ShownBefore
  <1>4. CASE i > D!Since
    <2>1. fact \in D!Fresh
      BY <1>4 DEF D!Fresh
    <2>2. fact \in facts
      BY DEF LogInv, Logged
    <2>3. QED
      BY <2>1, <2>2 DEF D!Live
  <1>5. QED
    BY <1>1, <1>2, <1>3, <1>4

\* A step that writes no event, and frames and completes no reflection.
LEMMA LogStays ==
  ASSUME DreamTypes, LogInv, log' = log, DOMAIN dreams' = DOMAIN dreams, facts \subseteq facts',
         D!Forgotten \subseteq D!Forgotten',
         \A t \in DOMAIN dreams :
            /\ dreams'[t].stage = dreams[t].stage /\ dreams'[t].shown = dreams[t].shown
            /\ dreams[t].state = "done" => dreams'[t].state = "done"
            /\ dreams[t].stage = "reflection" /\ Framed(t)' => Framed(t)
  PROVE  LogInv'
  <1>1. /\ D!Events("started")' = D!Events("started") /\ D!Events("completed")' = D!Events("completed")
        /\ D!Events("consolidated")' = D!Events("consolidated")
    BY DEF D!Events
  <1>2. D!Reflections' = D!Reflections
    BY DEF D!Reflections
  <1>3. D!Completions' = D!Completions
    BY <1>1, <1>2 DEF D!Completions
  <1>4. D!Reflections \subseteq DOMAIN dreams /\ \A t \in D!Reflections : dreams[t].stage = "reflection"
    BY DEF D!Reflections
  <1>5. Logged'
    BY <1>1, <1>2, <1>3, <1>4 DEF LogInv, Logged
  <1>6. ASSUME NEW fact, ShownOnce(fact) PROVE ShownOnce(fact)'
    BY <1>3, <1>4, <1>6 DEF ShownOnce, D!Completions
  <1>7. ASSUME NEW t \in D!Reflections, Framed(t)' PROVE ShowsAll(t)'
    <2>1. ShowsAll(t) /\ dreams'[t].shown = dreams[t].shown
      BY <1>4, <1>7 DEF LogInv
    <2>2. QED
      BY <1>1, <1>6, <2>1 DEF ShowsAll
  <1>8. QED
    BY <1>2, <1>5, <1>7 DEF LogInv

LEMMA ReflectionCloses ==
  ASSUME DreamTypes, LogInv, NEW t \in D!Reflections, D!Close(t), ShowsAll(t), UNCHANGED <<facts, forgotten>>
  PROVE  LogInv' /\ log' \in Seq(LogEntries)
  <1> DEFINE e == [type |-> "completed", t |-> t]
             n == Len(log) + 1
  <1>1. t \in DOMAIN dreams /\ dreams[t].stage = "reflection" /\ t \in Nat
    BY ADream DEF D!Reflections
  <1>2. log' = Append(log, e) /\ e \in LogEntries /\ dreams' = [dreams EXCEPT ![t] = D!Closed(t, "done")]
    BY <1>1 DEF D!Close, LogEntries
  <1>3. /\ DOMAIN dreams' = DOMAIN dreams
        /\ dreams'[t].stage = "reflection" /\ dreams'[t].shown = dreams[t].shown /\ dreams'[t].state = "done"
        /\ \A u \in DOMAIN dreams : u # t => dreams'[u] = dreams[u]
    BY <1>1, <1>2, DreamIs, ClosedIs
  <1>4. /\ D!Events("started")' = D!Events("started")
        /\ D!Events("consolidated")' = D!Events("consolidated")
        /\ D!Events("completed")' = D!Events("completed") \cup {n}
    <2>1. \A type : D!Events(type)' = D!Events(type) \cup (IF e.type = type THEN {n} ELSE {})
      BY <1>2, Appended
    <2>2. e.type = "completed"
      OBVIOUS
    <2> HIDE DEF e, n
    <2>3. QED
      BY <2>1, <2>2
  <1>5. /\ log'[n] = e /\ n \in Nat /\ log' \in Seq(LogEntries)
        /\ \A i \in D!Events("started") \cup D!Events("consolidated") \cup D!Events("completed") :
              log'[i] = log[i] /\ i \in Nat /\ i < n
    <2>1. \A i \in 1 .. Len(log) : i \in Nat /\ i < n
      BY EventsAre
    <2>2. QED
      BY <1>2, <2>1, Appended
  <1> HIDE DEF n
  <1>6. D!Reflections' = D!Reflections
    BY <1>1, <1>3 DEF D!Reflections
  <1>7. D!Completions = D!Events("completed") /\ log'[n].t = t
    BY <1>5, CompletionsAre DEF LogInv
  <1> HIDE DEF e
  <1>8. D!Completions' = D!Completions \cup {n}
    BY <1>4, <1>5, <1>6, <1>7 DEF D!Completions
  <1>9. Logged'
    <2>1. \A j \in D!Completions' : j <= n
      BY <1>4, <1>5, <1>7, <1>8
    <2>2. \A i \in D!Events("completed")' : log'[i].t \in D!Reflections' /\ dreams'[log'[i].t].state = "done"
      <3>1. \A i \in D!Events("completed") : log[i].t \in D!Reflections /\ dreams[log[i].t].state = "done"
        BY DEF LogInv, Logged
      <3>2. D!Reflections \subseteq DOMAIN dreams
        BY DEF D!Reflections
      <3>3. QED
        BY <1>3, <1>4, <1>5, <1>6, <1>7, <3>1, <3>2
    <2>3. /\ \A i \in D!Events("started")' : log'[i].t \in D!Reflections'
          /\ \A i, j \in D!Events("started")' : log'[i].t = log'[j].t => i = j
          /\ \A u \in D!Reflections' : \E i \in D!Events("started")' : log'[i].t = u
      BY <1>4, <1>5, <1>6 DEF LogInv, Logged
    <2>4. \A i \in D!Events("consolidated")' : log'[i].facts \subseteq facts'
      BY <1>4, <1>5 DEF LogInv, Logged
    <2>5. QED
      BY <1>8, <2>1, <2>2, <2>3, <2>4 DEF Logged
  <1>10. ASSUME NEW fact, ShownOnce(fact) PROVE ShownOnce(fact)'
    <2>1. PICK j \in D!Completions : fact \in dreams[log[j].t].shown
      BY <1>10 DEF ShownOnce
    <2>2. log[j].t \in DOMAIN dreams /\ log'[j] = log[j]
      BY <1>5, <1>7 DEF D!Completions, D!Reflections
    <2>3. fact \in dreams'[log'[j].t].shown
      BY <1>3, <2>1, <2>2
    <2>4. QED
      BY <1>8, <2>3 DEF ShownOnce
  <1>11. D!Forgotten' = D!Forgotten
    BY DEF D!Forgotten
  <1>12. ASSUME NEW u \in D!Reflections, Framed(u)' PROVE ShowsAll(u)'
    <2>1. ShowsAll(u) /\ dreams'[u].shown = dreams[u].shown
      BY <1>3, <1>12 DEF LogInv, Framed, D!Reflections
    <2>2. QED
      BY <1>4, <1>5, <1>10, <1>11, <2>1 DEF ShowsAll
  <1>13. QED
    BY <1>5, <1>6, <1>9, <1>12 DEF LogInv

LEMMA ReflectionFrames ==
  ASSUME DreamTypes, LogInv, NEW t \in D!Reflections, dreams[t].state = "started", UNCHANGED <<log, facts, forgotten>>,
         NEW d \in AllDreams, d.stage = "reflection", d.shown = D!Fresh \cap D!Live,
         dreams' = [dreams EXCEPT ![t] = d]
  PROVE  LogInv'
  <1>1. t \in DOMAIN dreams /\ dreams[t].stage = "reflection"
    BY DEF D!Reflections
  <1>2. /\ DOMAIN dreams' = DOMAIN dreams /\ dreams'[t] = d
        /\ \A u \in DOMAIN dreams : u # t => dreams'[u] = dreams[u]
    BY <1>1, DreamIs
  <1>3. /\ D!Events("started")' = D!Events("started") /\ D!Events("completed")' = D!Events("completed")
        /\ D!Events("consolidated")' = D!Events("consolidated")
    BY DEF D!Events
  <1>4. D!Reflections' = D!Reflections
    BY <1>1, <1>2 DEF D!Reflections
  <1>5. D!Completions' = D!Completions
    BY <1>3, <1>4 DEF D!Completions
  <1>6. D!Reflections \subseteq DOMAIN dreams
    BY DEF D!Reflections
  <1>7. \A i \in D!Completions : log[i].t # t /\ log[i].t \in DOMAIN dreams
    BY <1>6, CompletionsAre DEF LogInv, Logged
  <1>8. Logged'
    <2>1. \A i \in D!Events("completed") : log[i].t # t /\ log[i].t \in DOMAIN dreams
      BY <1>7, CompletionsAre DEF LogInv
    <2>2. QED
      BY <1>2, <1>3, <1>4, <1>5, <2>1 DEF LogInv, Logged
  <1>9. ASSUME NEW fact, ShownOnce(fact) PROVE ShownOnce(fact)'
    BY <1>2, <1>5, <1>7, <1>9 DEF ShownOnce
  <1>10. D!Forgotten' = D!Forgotten
    BY DEF D!Forgotten
  <1>11. ASSUME NEW u \in D!Reflections, Framed(u)' PROVE ShowsAll(u)'
    <2>1. CASE u = t
      <3>1. dreams'[u].shown = D!Fresh \cap D!Live
        BY <1>2, <2>1
      <3>2. QED
        BY <1>3, <1>9, <1>10, <3>1, FrameShows DEF ShowsAll
    <2>2. CASE u # t
      <3>1. ShowsAll(u) /\ dreams'[u].shown = dreams[u].shown
        BY <1>2, <1>6, <1>11, <2>2 DEF LogInv, Framed
      <3>2. QED
        BY <1>3, <1>9, <1>10, <3>1 DEF ShowsAll
    <2>3. QED
      BY <2>1, <2>2
  <1>12. QED
    BY <1>4, <1>8, <1>11 DEF LogInv

LEMMA NewDreamIs ==
  ASSUME NEW stage \in {"consolidation", "reflection"}
  PROVE  D!NewDream(stage) \in AllDreams /\ D!NewDream(stage).stage = stage /\ D!NewDream(stage).state = "started"
  BY DEF D!NewDream, AllDreams

LEMMA DreamAppended ==
  ASSUME DreamTypes, NEW d \in AllDreams, dreams' = Append(dreams, d)
  PROVE  /\ dreams' \in Seq(AllDreams) /\ Len(dreams) \in Nat
         /\ DOMAIN dreams' = DOMAIN dreams \cup {Len(dreams) + 1} /\ Len(dreams) + 1 \notin DOMAIN dreams
         /\ dreams'[Len(dreams) + 1] = d /\ \A u \in DOMAIN dreams : dreams'[u] = dreams[u]
  <1>1. /\ dreams' \in Seq(AllDreams) /\ Len(dreams) \in Nat /\ Len(dreams') = Len(dreams) + 1
        /\ dreams'[Len(dreams) + 1] = d /\ \A u \in 1 .. Len(dreams) : dreams'[u] = dreams[u]
    BY AppendProperties DEF DreamTypes
  <1>2. DOMAIN dreams = 1 .. Len(dreams) /\ DOMAIN dreams' = 1 .. Len(dreams')
    BY <1>1 DEF DreamTypes
  <1>3. QED
    BY <1>1, <1>2

\* A dream starts, and a reflection is logged as it does.
LEMMA LogStarts ==
  ASSUME DreamTypes, LogInv, NEW stage \in {"consolidation", "reflection"}, D!Start(stage)
  PROVE  LogInv' /\ log' \in Seq(LogEntries)
  <1> DEFINE new == Len(dreams) + 1
             d == D!NewDream(stage)
  <1>1. dreams' = Append(dreams, d) /\ UNCHANGED <<facts, forgotten>> /\ d \in AllDreams /\ d.stage = stage /\ d.state = "started"
    BY NewDreamIs DEF D!Start, D!graph
  <1> HIDE DEF d
  <1>2. /\ DOMAIN dreams' = DOMAIN dreams \cup {new} /\ new \notin DOMAIN dreams /\ new \in Nat
        /\ dreams'[new] = d /\ \A u \in DOMAIN dreams : dreams'[u] = dreams[u]
    BY <1>1, DreamAppended
  <1>3. D!Reflections \subseteq DOMAIN dreams /\ D!Forgotten' = D!Forgotten
    BY <1>1 DEF D!Reflections, D!Forgotten
  <1>4. CASE stage = "consolidation"
    <2>1. log' = log
      BY <1>4 DEF D!Start
    <2>2. D!Reflections' = D!Reflections
      BY <1>1, <1>2, <1>4 DEF D!Reflections
    <2>3. /\ D!Events("started")' = D!Events("started") /\ D!Events("completed")' = D!Events("completed")
          /\ D!Events("consolidated")' = D!Events("consolidated")
      BY <2>1 DEF D!Events
    <2>4. D!Completions' = D!Completions
      BY <2>1, <2>2, <2>3 DEF D!Completions
    <2>5. Logged'
      BY <1>1, <1>2, <1>3, <2>1, <2>2, <2>3, <2>4 DEF LogInv, Logged
    <2>6. ASSUME NEW fact, ShownOnce(fact) PROVE ShownOnce(fact)'
      BY <1>2, <1>3, <2>1, <2>4, <2>6 DEF ShownOnce, D!Completions
    <2>7. ASSUME NEW t \in D!Reflections, Framed(t)' PROVE ShowsAll(t)'
      <3>1. ShowsAll(t) /\ dreams'[t].shown = dreams[t].shown
        BY <1>2, <1>3, <2>7 DEF LogInv, Framed
      <3>2. QED
        BY <1>3, <2>1, <2>3, <2>6, <3>1 DEF ShowsAll
    <2>8. QED
      BY <2>1, <2>2, <2>5, <2>7 DEF LogInv, DreamTypes
  <1>5. CASE stage = "reflection"
    <2> DEFINE e == [type |-> "started", t |-> new]
               n == Len(log) + 1
    <2>1. log' = Append(log, e)
      BY <1>5 DEF D!Start
    <2>2. e \in LogEntries /\ e.type = "started" /\ e.t = new
      BY <1>2 DEF LogEntries
    <2> HIDE DEF e
    <2>3. /\ log' \in Seq(LogEntries) /\ log'[n] = e /\ n \in Nat
          /\ \A type : D!Events(type)' = D!Events(type) \cup (IF e.type = type THEN {n} ELSE {})
          /\ \A type : \A i \in D!Events(type) : log'[i] = log[i] /\ i \in Nat /\ i < n
      BY <2>1, <2>2, Appended
    <2> HIDE DEF n, new
    <2>4. /\ D!Events("started")' = D!Events("started") \cup {n}
          /\ D!Events("completed")' = D!Events("completed")
          /\ D!Events("consolidated")' = D!Events("consolidated")
      BY <2>2, <2>3
    <2>5. D!Reflections' = D!Reflections \cup {new}
      BY <1>1, <1>2, <1>5 DEF D!Reflections
    <2>6. D!Completions' = D!Completions
      <3>1. \A i \in D!Events("completed") : log[i].t \in D!Reflections /\ log'[i] = log[i]
        BY <2>3 DEF LogInv, Logged
      <3>2. QED
        BY <2>4, <2>5, <3>1 DEF D!Completions
    <2>7. Logged'
      <3>1. \A i \in D!Events("started") : log'[i].t \in DOMAIN dreams /\ log'[i].t # new /\ log'[i].t = log[i].t
        BY <1>2, <1>3, <2>3 DEF LogInv, Logged
      <3>2. \A i \in D!Events("started")' : log'[i].t \in D!Reflections'
        BY <2>2, <2>3, <2>4, <2>5 DEF LogInv, Logged
      <3>3. \A i, j \in D!Events("started")' : log'[i].t = log'[j].t => i = j
        BY <2>2, <2>3, <2>4, <3>1 DEF LogInv, Logged
      <3>4. \A t \in D!Reflections' : \E i \in D!Events("started")' : log'[i].t = t
        BY <2>2, <2>3, <2>4, <2>5 DEF LogInv, Logged
      <3>5. \A i \in D!Events("completed")' : log'[i].t \in D!Reflections' /\ dreams'[log'[i].t].state = "done"
        BY <1>2, <1>3, <2>3, <2>4, <2>5 DEF LogInv, Logged
      <3>6. D!Completions' # {} => \E i \in D!Completions' : \A j \in D!Completions' : j <= i
        BY <2>6 DEF LogInv, Logged
      <3>7. \A i \in D!Events("consolidated")' : log'[i].facts \subseteq facts'
        BY <1>1, <2>3, <2>4 DEF LogInv, Logged
      <3>8. QED
        BY <3>2, <3>3, <3>4, <3>5, <3>6, <3>7 DEF Logged
    <2>8. ASSUME NEW fact, ShownOnce(fact) PROVE ShownOnce(fact)'
      <3>1. PICK j \in D!Completions : fact \in dreams[log[j].t].shown
        BY <2>8 DEF ShownOnce
      <3>2. log'[j] = log[j] /\ log[j].t \in DOMAIN dreams
        BY <1>3, <2>3 DEF D!Completions
      <3>3. QED
        BY <1>2, <2>6, <3>1, <3>2 DEF ShownOnce
    <2>9. ASSUME NEW t \in D!Reflections, Framed(t)' PROVE ShowsAll(t)'
      <3>1. ShowsAll(t) /\ dreams'[t].shown = dreams[t].shown /\ t # new
        BY <1>2, <1>3, <2>9 DEF LogInv, Framed
      <3>2. \A s \in D!Events("started")' : log'[s].t = t => s \in D!Events("started") /\ log'[s] = log[s]
        BY <2>2, <2>3, <2>4, <3>1
      <3>3. \A i \in D!Events("consolidated")' : i \in D!Events("consolidated") /\ log'[i] = log[i]
        BY <2>3, <2>4
      <3>4. QED
        BY <1>3, <2>8, <3>1, <3>2, <3>3 DEF ShowsAll
    <2>10. ASSUME NEW t \in D!Reflections', t \notin D!Reflections PROVE ~Framed(t)'
      <3>1. dreams'[t].state = "started"
        BY <1>1, <1>2, <2>5, <2>10
      <3>2. QED
        BY <3>1 DEF Framed
    <2>11. QED
      BY <2>3, <2>5, <2>7, <2>9, <2>10 DEF LogInv
  <1>6. QED
    BY <1>4, <1>5

Logs(e) == log' = Append(log, e)

\* A consolidation is logged: later than any start there is.
LEMMA LogCovers ==
  ASSUME DreamTypes, LogInv, NEW e \in LogEntries, e.type = "consolidated", e.facts \subseteq facts,
         Logs(e), UNCHANGED <<facts, forgotten, dreams>>
  PROVE  LogInv' /\ log' \in Seq(LogEntries)
  <1> DEFINE n == Len(log) + 1
  <1>1. /\ log' \in Seq(LogEntries) /\ log'[n] = e /\ n \in Nat
        /\ \A type : D!Events(type)' = D!Events(type) \cup (IF e.type = type THEN {n} ELSE {})
        /\ \A type : \A i \in D!Events(type) : log'[i] = log[i] /\ i \in Nat /\ i < n
    BY Appended DEF Logs
  <1> HIDE DEF n
  <1>2. /\ D!Events("started")' = D!Events("started")
        /\ D!Events("completed")' = D!Events("completed")
        /\ D!Events("consolidated")' = D!Events("consolidated") \cup {n}
    BY <1>1
  <1>3. D!Reflections' = D!Reflections /\ D!Forgotten' = D!Forgotten
    BY DEF D!Reflections, D!Forgotten
  <1>4. D!Completions' = D!Completions
    BY <1>1, <1>2, <1>3 DEF D!Completions
  <1>9. \A i \in D!Events("started") \cup D!Events("completed") \cup D!Events("consolidated") :
           log'[i] = log[i] /\ i \in Nat /\ i < n
    BY <1>1
  <1>5. Logged'
    <2>1. log'[n].facts \subseteq facts'
      BY <1>1
    <2>2. /\ \A i \in D!Events("started")' : log'[i].t \in D!Reflections'
          /\ \A i, j \in D!Events("started")' : log'[i].t = log'[j].t => i = j
          /\ \A t \in D!Reflections' : \E i \in D!Events("started")' : log'[i].t = t
      BY <1>2, <1>3, <1>9 DEF LogInv, Logged
    <2>3. \A i \in D!Events("completed")' : log'[i].t \in D!Reflections' /\ dreams'[log'[i].t].state = "done"
      BY <1>2, <1>3, <1>9 DEF LogInv, Logged
    <2>4. \A i \in D!Events("consolidated")' : log'[i].facts \subseteq facts'
      BY <1>2, <1>9, <2>1 DEF LogInv, Logged
    <2>5. QED
      BY <1>4, <2>2, <2>3, <2>4 DEF LogInv, Logged
  <1>6. ASSUME NEW fact, ShownOnce(fact) PROVE ShownOnce(fact)'
    BY <1>1, <1>4, <1>6 DEF ShownOnce, D!Completions
  <1>7. ASSUME NEW t \in D!Reflections, Framed(t)' PROVE ShowsAll(t)'
    <2>1. ShowsAll(t)
      BY <1>7 DEF LogInv, Framed
    <2>2. \A s \in D!Events("started")', i \in D!Events("consolidated")' : i <= s =>
             /\ s \in D!Events("started") /\ i \in D!Events("consolidated")
             /\ log'[s] = log[s] /\ log'[i] = log[i]
      <3>1. \A s \in D!Events("started") : s < n /\ s \in Nat /\ n \in Nat /\ ~(n <= s)
        BY <1>1, <1>9
      <3>2. QED
        BY <1>2, <1>9, <3>1
    <2>3. QED
      BY <1>3, <1>6, <2>1, <2>2 DEF ShowsAll
  <1>8. QED
    BY <1>1, <1>3, <1>5, <1>7 DEF LogInv

-----------------------------------------------------------------------------
(* The graph. *)

\* A step that writes no fact, deletes no episode and starts no prune.
LEMMA GraphStays ==
  ASSUME DreamTypes, GraphInv, UNCHANGED facts, D!Live' \subseteq D!Live, episodes \subseteq episodes',
         \A t, u \in D!Working' : t = u,
         \A t \in DOMAIN dreams : t \in DOMAIN dreams' /\ dreams'[t].stage = dreams[t].stage /\ (Gone(t) => Gone(t)'),
         \A t \in DOMAIN dreams' : dreams'[t].state = "pruning" =>
            t \in DOMAIN dreams /\ dreams[t].state = "pruning" /\ dreams'[t].batch = dreams[t].batch,
         \A each \in writing' : each \in writing /\ (dreams'[each.t].state = "framed" \/ Gone(each.t)')
            /\ (dreams'[each.t].state = "framed" => dreams[each.t].state = "framed")
  PROVE  GraphInv'
  <1>1. \A fact \in D!Live' : fact \in D!Live /\ fact.t \in DOMAIN dreams
    BY DEF DreamTypes, D!Live
  <1>2. OneWorks'
    BY DEF GraphInv, OneWorks
  <1>3. PrunesUncited'
    BY <1>1 DEF GraphInv, PrunesUncited
  <1>4. D!CitedKept'
    BY <1>1 DEF GraphInv, D!CitedKept, Gone
  <1>5. QED
    BY <1>2, <1>3, <1>4 DEF GraphInv

\* What is recorded, being written or cut off stays so.
LEMMA RecordedStays ==
  ASSUME D!FactsRecorded, UNCHANGED <<log, facts>>, cut \subseteq cut',
         \A each \in writing : each.t \in cut' \/ \E other \in writing' : other.t = each.t
  PROVE  D!FactsRecorded'
  <1>1. D!Events("consolidated")' = D!Events("consolidated")
    BY DEF D!Events
  <1>2. QED
    BY <1>1 DEF D!FactsRecorded

\* An appended event that records no fact.
LEMMA RecordedAppended ==
  ASSUME DreamTypes, D!FactsRecorded, NEW e \in LogEntries, log' = Append(log, e), UNCHANGED <<facts, writing, cut>>
  PROVE  D!FactsRecorded'
  <1>1. D!Events("consolidated") \subseteq D!Events("consolidated")' /\ \A i \in D!Events("consolidated") : log'[i] = log[i]
    BY Appended
  <1>2. QED
    BY <1>1 DEF D!FactsRecorded

-----------------------------------------------------------------------------
(* The steps. *)

\* One dream goes from a state to another, and prunes and writes nothing.
LEMMA DreamMoves ==
  ASSUME DreamTypes, GraphInv, NEW t \in DOMAIN dreams, NEW d \in AllDreams, dreams' = [dreams EXCEPT ![t] = d],
         d.stage = dreams[t].stage, d.state # "pruning", Gone(t) => d.state \in {"ended", "lost"},
         d.state \in {"started", "framed"} => D!Working \subseteq {t},
         \A each \in writing : each.t = t => d.state \in {"ended", "lost"},
         log' \in Seq(LogEntries), UNCHANGED <<day, dated, episodes, facts, forgotten, writing>>
  PROVE  GraphInv' /\ DreamTypes'
  <1>1. /\ dreams' \in Seq(AllDreams) /\ DOMAIN dreams' = DOMAIN dreams
        /\ dreams'[t] = d /\ \A u \in DOMAIN dreams : u # t => dreams'[u] = dreams[u]
    BY DreamIs
  <1>2. DreamTypes'
    BY <1>1 DEF DreamTypes
  <1>3. D!Live' = D!Live
    BY DEF D!Live, D!Forgotten
  <1>4. \A u \in D!Working' : u \in D!Working \/ (u = t /\ d.state \in {"started", "framed"})
    BY <1>1 DEF D!Working
  <1>5. \A u, v \in D!Working' : u = v
    BY <1>4 DEF GraphInv, OneWorks
  <1>6. \A u \in DOMAIN dreams : u \in DOMAIN dreams' /\ dreams'[u].stage = dreams[u].stage /\ (Gone(u) => Gone(u)')
    BY <1>1 DEF Gone
  <1>7. \A u \in DOMAIN dreams' : dreams'[u].state = "pruning" =>
           u \in DOMAIN dreams /\ dreams[u].state = "pruning" /\ dreams'[u].batch = dreams[u].batch
    BY <1>1
  <1>8. \A each \in writing' : each \in writing /\ (dreams'[each.t].state = "framed" \/ Gone(each.t)')
            /\ (dreams'[each.t].state = "framed" => dreams[each.t].state = "framed")
    BY <1>1 DEF GraphInv, OneWorks, DreamTypes, Gone
  <1>9. GraphInv'
    BY <1>3, <1>5, <1>6, <1>7, <1>8, GraphStays
  <1>10. QED
    BY <1>2, <1>9

\* Nothing of the dreams, and no event: recaps, forgets and nights.
LEMMA ElsewhereKeeps ==
  ASSUME DreamsIInv, UNCHANGED <<log, dreams, facts, writing, cut>>, day' \in Nat, dated' \in Seq(Nat),
         episodes \subseteq episodes', episodes' \in SUBSET Nat, forgotten \subseteq forgotten'
  PROVE  DreamsIInv'
  <1>1. DreamTypes /\ GraphInv /\ LogInv /\ D!FactsRecorded
    BY DEF DreamsIInv
  <1>2. DreamTypes'
    BY <1>1 DEF DreamTypes
  <1>3. D!Forgotten \subseteq D!Forgotten' /\ D!Live' \subseteq D!Live
    BY DEF D!Forgotten, D!Live
  <1>4. D!Working' = D!Working
    BY DEF D!Working
  <1>5. GraphInv'
    BY <1>1, <1>3, <1>4, GraphStays DEF GraphInv, OneWorks, Gone
  <1>6. LogInv'
    BY <1>1, <1>3, LogStays DEF Framed
  <1>7. QED
    BY <1>1, <1>2, <1>5, <1>6, RecordedStays DEF DreamsIInv

LEMMA DreamRestartKeeps == ASSUME DreamsIInv, D!Restart PROVE DreamsIInv'
  <1>1. DreamTypes /\ GraphInv /\ LogInv /\ D!FactsRecorded
    BY DEF DreamsIInv
  <1>2. /\ writing' = {} /\ cut' = cut \cup {each.t : each \in writing}
        /\ UNCHANGED <<log, day, dated, episodes, facts, forgotten>>
        /\ dreams' = [t \in DOMAIN dreams |->
              IF dreams[t].state \in {"started", "pruning", "framed"} THEN D!Closed(t, "lost") ELSE dreams[t]]
    BY DEF D!Restart, D!graph
  <1>3. DOMAIN dreams' = DOMAIN dreams
    BY <1>2
  <1>4. \A t \in DOMAIN dreams :
          /\ dreams'[t] \in AllDreams
          /\ dreams'[t].stage = dreams[t].stage /\ dreams'[t].shown = dreams[t].shown
          /\ dreams'[t] = dreams[t] \/ dreams'[t].state = "lost"
          /\ dreams'[t].state \notin {"started", "pruning", "framed"}
          /\ dreams[t].state \in {"done", "ended", "lost"} => dreams'[t] = dreams[t]
    <2> SUFFICES ASSUME NEW t \in DOMAIN dreams
                 PROVE  /\ dreams'[t] \in AllDreams
                        /\ dreams'[t].stage = dreams[t].stage /\ dreams'[t].shown = dreams[t].shown
                        /\ dreams'[t] = dreams[t] \/ dreams'[t].state = "lost"
                        /\ dreams'[t].state \notin {"started", "pruning", "framed"}
                        /\ dreams[t].state \in {"done", "ended", "lost"} => dreams'[t] = dreams[t]
      OBVIOUS
    <2>1. dreams[t] \in AllDreams
      BY <1>1, ADream
    <2>2. CASE dreams[t].state \in {"started", "pruning", "framed"}
      <3>1. dreams'[t] = D!Closed(t, "lost")
        BY <1>2, <2>2
      <3>2. QED
        BY <1>1, <2>2, <3>1, ClosedIs
    <2>3. CASE dreams[t].state \notin {"started", "pruning", "framed"}
      BY <1>2, <2>1, <2>3
    <2>4. QED
      BY <2>2, <2>3
  <1>5. dreams' \in Seq(AllDreams)
    <2>1. DOMAIN dreams = 1 .. Len(dreams) /\ Len(dreams) \in Nat
      BY <1>1 DEF DreamTypes
    <2>2. dreams' \in [1 .. Len(dreams) -> AllDreams]
      BY <1>2, <1>4, <2>1
    <2>3. QED
      BY <2>1, <2>2, SeqDef
  <1>6. DreamTypes'
    BY <1>1, <1>2, <1>3, <1>5 DEF DreamTypes
  <1>7. D!Forgotten' = D!Forgotten /\ D!Live' = D!Live
    BY <1>2 DEF D!Forgotten, D!Live
  <1>8. GraphInv'
    <2>1. D!Working' = {}
      BY <1>3, <1>4 DEF D!Working
    <2>2. QED
      BY <1>1, <1>2, <1>3, <1>4, <1>7, <2>1, GraphStays DEF Gone
  <1>9. LogInv'
    <2>1. \A t \in DOMAIN dreams : Framed(t)' => Framed(t)
      BY <1>4 DEF Framed
    <2>2. QED
      BY <1>1, <1>2, <1>3, <1>4, <1>7, <2>1, LogStays
  <1>10. D!FactsRecorded'
    BY <1>1, <1>2, RecordedStays
  <1>11. QED
    BY <1>6, <1>8, <1>9, <1>10 DEF DreamsIInv

LEMMA StartKeeps == ASSUME DreamsIInv, NEW stage \in {"consolidation", "reflection"}, D!Start(stage) PROVE DreamsIInv'
  <1>1. DreamTypes /\ GraphInv /\ LogInv /\ D!FactsRecorded
    BY DEF DreamsIInv
  <1>2. LogInv' /\ log' \in Seq(LogEntries)
    BY <1>1, LogStarts
  <1> DEFINE new == Len(dreams) + 1
             d == D!NewDream(stage)
  <1>3. /\ dreams' = Append(dreams, d) /\ d \in AllDreams /\ d.stage = stage /\ d.state = "started" /\ D!Working = {}
        /\ UNCHANGED <<day, dated, episodes, facts, forgotten, writing, cut>>
    BY NewDreamIs DEF D!Start, D!graph
  <1> HIDE DEF d
  <1>4. /\ DOMAIN dreams' = DOMAIN dreams \cup {new} /\ new \notin DOMAIN dreams /\ new \in Nat
        /\ dreams' \in Seq(AllDreams)
        /\ dreams'[new] = d /\ \A u \in DOMAIN dreams : dreams'[u] = dreams[u]
    BY <1>1, <1>3, DreamAppended
  <1> HIDE DEF new
  <1>5. DreamTypes'
    BY <1>1, <1>2, <1>3, <1>4 DEF DreamTypes
  <1>6. D!Live' = D!Live
    BY <1>3 DEF D!Live, D!Forgotten
  <1>7. D!Working' \subseteq {new}
    BY <1>3, <1>4 DEF D!Working
  <1>8. GraphInv'
    <2>1. \A each \in writing : each.t \in DOMAIN dreams /\ (dreams[each.t].state = "framed" \/ Gone(each.t))
      BY <1>1 DEF DreamTypes, GraphInv, OneWorks
    <2>2. QED
      BY <1>1, <1>3, <1>4, <1>6, <1>7, <2>1, GraphStays DEF Gone
  <1>9. D!FactsRecorded'
    <2>1. CASE log' = log
      BY <1>1, <1>3, <2>1, RecordedStays
    <2>2. CASE stage = "reflection"
      <3> DEFINE e == [type |-> "started", t |-> new]
      <3>1. log' = Append(log, e)
        BY <2>2 DEF D!Start, new
      <3>2. e \in LogEntries
        BY <1>4 DEF LogEntries
      <3> HIDE DEF e
      <3>3. QED
        BY <1>1, <1>3, <3>1, <3>2, RecordedAppended
    <2>3. QED
      BY <2>1, <2>2 DEF D!Start
  <1>10. QED
    BY <1>2, <1>5, <1>8, <1>9 DEF DreamsIInv

\* What is prunable no live fact cites.
LEMMA PruneKeeps == ASSUME DreamsIInv, NEW t \in DOMAIN dreams, NEW prune \in BOOLEAN, D!Prune(t, prune) PROVE DreamsIInv'
  <1>1. DreamTypes /\ GraphInv /\ LogInv /\ D!FactsRecorded
    BY DEF DreamsIInv
  <1> DEFINE batch == IF prune THEN D!Prunable ELSE {}
             d == [dreams[t] EXCEPT !.state = "pruning", !.batch = batch]
  <1>2. /\ dreams' = [dreams EXCEPT ![t] = d] /\ dreams[t].stage = "consolidation" /\ dreams[t].state = "started"
        /\ UNCHANGED <<log, day, dated, episodes, facts, forgotten, writing, cut>>
    BY DEF D!Prune, D!graph
  <1>3. batch \in SUBSET Nat /\ batch \cap D!Cited = {}
    BY <1>1 DEF D!Prunable, DreamTypes
  <1>4. dreams[t] \in AllDreams
    BY <1>1, ADream
  <1> HIDE DEF batch
  <1>5. d \in AllDreams /\ d.stage = "consolidation" /\ d.state = "pruning" /\ d.batch = batch /\ d.shown = dreams[t].shown
    BY <1>2, <1>3, <1>4 DEF AllDreams
  <1> HIDE DEF d
  <1>6. /\ dreams' \in Seq(AllDreams) /\ DOMAIN dreams' = DOMAIN dreams
        /\ dreams'[t] = d /\ \A u \in DOMAIN dreams : u # t => dreams'[u] = dreams[u]
    BY <1>1, <1>2, <1>5, DreamIs
  <1>7. DreamTypes'
    BY <1>1, <1>2, <1>6 DEF DreamTypes
  <1>8. D!Live' = D!Live /\ D!Forgotten' = D!Forgotten /\ D!Working' = D!Working
    BY <1>2, <1>5, <1>6 DEF D!Live, D!Forgotten, D!Working
  <1>9. \A u \in DOMAIN dreams : Gone(u)' = Gone(u)
    BY <1>2, <1>5, <1>6 DEF Gone
  <1>10. OneWorks'
    <2>1. \A each \in writing : each.t # t /\ each.t \in DOMAIN dreams
      BY <1>1, <1>2 DEF GraphInv, OneWorks, Gone, DreamTypes
    <2>2. QED
      BY <1>1, <1>2, <1>5, <1>6, <1>8, <1>9, <2>1 DEF GraphInv, OneWorks
  <1>11. PrunesUncited'
    <2>1. \A fact \in D!Live : fact.sources \cap batch = {}
      BY <1>3 DEF D!Cited
    <2>2. \A fact \in D!Live : fact.t \in DOMAIN dreams
      BY <1>1 DEF DreamTypes, D!Live
    <2>3. QED
      BY <1>1, <1>2, <1>5, <1>6, <1>8, <1>9, <2>1, <2>2 DEF GraphInv, PrunesUncited
  <1>12. D!CitedKept'
    <2>1. \A fact \in D!Live : fact.t \in DOMAIN dreams
      BY <1>1 DEF DreamTypes, D!Live
    <2>2. QED
      BY <1>1, <1>2, <1>8, <1>9, <2>1 DEF GraphInv, D!CitedKept, Gone
  <1>13. LogInv'
    BY <1>1, <1>2, <1>5, <1>6, <1>8, LogStays DEF Framed
  <1>14. QED
    BY <1>1, <1>2, <1>7, <1>10, <1>11, <1>12, <1>13, RecordedStays DEF DreamsIInv, GraphInv

\* A prune deletes what it read before: no fact of a dream that did not end was written since.
LEMMA ConsolidateKeeps == ASSUME DreamsIInv, NEW t \in DOMAIN dreams, D!Consolidate(t) PROVE DreamsIInv'
  <1>1. DreamTypes /\ GraphInv /\ LogInv /\ D!FactsRecorded
    BY DEF DreamsIInv
  <1> DEFINE kept == episodes \ dreams[t].batch
             batch == kept \ D!Covered
             earlier == {node \in kept : node \in D!Covered /\ node \notin D!Cited /\ ~D!Old(node)}
             citable == batch \cup earlier \cup UNION {fact.sources : fact \in facts}
             f == [dreams[t] EXCEPT !.state = "framed", !.batch = batch, !.citable = citable]
  <1>2. dreams[t].state = "pruning" /\ dreams[t].stage = "consolidation" /\ dreams[t] \in AllDreams
    BY <1>1, ADream DEF D!Consolidate, GraphInv, OneWorks
  <1>3. /\ episodes' = kept /\ UNCHANGED <<day, dated, facts, forgotten, writing, cut>>
        /\ \/ D!Close(t)
           \/ dreams' = [dreams EXCEPT ![t] = f] /\ UNCHANGED log
    <2>1. episodes' = kept /\ UNCHANGED <<day, dated, facts, forgotten, writing, cut>>
      BY DEF D!Consolidate
    <2>2. D!Close(t) \/ (dreams' = [dreams EXCEPT ![t] = f] /\ UNCHANGED log)
      BY Zenon DEF D!Consolidate
    <2>3. QED
      BY <2>1, <2>2
  <1>4. batch \in SUBSET Nat /\ citable \in SUBSET Nat
    <2>1. kept \subseteq Nat /\ \A fact \in facts : fact.sources \subseteq Nat
      BY <1>1 DEF DreamTypes, Learned
    <2> HIDE DEF kept
    <2>2. batch \subseteq Nat /\ earlier \subseteq Nat
      BY <2>1
    <2>3. citable \subseteq Nat
      BY <2>1, <2>2
    <2>4. QED
      BY <2>2, <2>3
  <1> HIDE DEF batch, citable
  <1>5. f \in AllDreams /\ f.stage = "consolidation" /\ f.state = "framed" /\ f.shown = dreams[t].shown
    BY <1>2, <1>4 DEF AllDreams
  <1> HIDE DEF f, kept
  <1>6. PICK d \in AllDreams : /\ dreams' = [dreams EXCEPT ![t] = d] /\ log' = log
                               /\ d.stage = "consolidation" /\ d.state \in {"framed", "done"} /\ d.shown = dreams[t].shown
    <2>1. CASE D!Close(t)
      BY <1>1, <1>2, <2>1, ClosedIs DEF D!Close
    <2>2. QED
      BY <1>3, <1>5, <2>1
  <1>7. /\ dreams' \in Seq(AllDreams) /\ DOMAIN dreams' = DOMAIN dreams
        /\ dreams'[t] = d /\ \A u \in DOMAIN dreams : u # t => dreams'[u] = dreams[u]
    BY <1>1, <1>6, DreamIs
  <1>8. DreamTypes'
    BY <1>1, <1>3, <1>6, <1>7 DEF DreamTypes, kept
  <1>9. D!Live' = D!Live /\ D!Forgotten' = D!Forgotten /\ D!Working' \subseteq D!Working
    BY <1>2, <1>3, <1>6, <1>7 DEF D!Live, D!Forgotten, D!Working
  <1>10. \A u \in DOMAIN dreams : (Gone(u) => Gone(u)') /\ (Gone(u)' => Gone(u))
    BY <1>2, <1>6, <1>7 DEF Gone
  <1>11. t \in D!Working /\ \A u \in DOMAIN dreams : dreams[u].state \in {"framed", "pruning"} => u \in D!Working
    BY <1>2 DEF D!Working
  <1>12. \A each \in writing : each.t # t /\ each.t \in DOMAIN dreams /\ Gone(each.t)
    BY <1>1, <1>2, <1>11 DEF GraphInv, OneWorks, DreamTypes, Gone
  <1>13. OneWorks'
    <2>1. \A each \in writing : dreams'[each.t].state # "framed" /\ Gone(each.t)'
      BY <1>10, <1>12 DEF Gone
    <2>2. QED
      BY <1>1, <1>2, <1>3, <1>6, <1>7, <1>9, <2>1 DEF GraphInv, OneWorks
  <1>14. PrunesUncited'
    <2>1. \A u \in DOMAIN dreams' : dreams'[u].state # "pruning"
      BY <1>1, <1>6, <1>7, <1>11 DEF GraphInv, OneWorks
    <2>2. QED
      BY <2>1 DEF PrunesUncited
  <1>15. D!CitedKept'
    <2>1. ASSUME NEW fact \in D!Live, ~Gone(fact.t) PROVE fact.sources \subseteq kept
      <3>1. fact.sources \subseteq episodes
        BY <1>1, <2>1 DEF GraphInv, D!CitedKept, Gone
      <3>2. fact.sources \cap dreams[t].batch = {}
        BY <1>1, <1>2, <2>1 DEF GraphInv, PrunesUncited
      <3>3. QED
        BY <3>1, <3>2 DEF kept
    <2>2. \A fact \in D!Live : fact.t \in DOMAIN dreams
      BY <1>1 DEF DreamTypes, D!Live
    <2>3. QED
      BY <1>3, <1>9, <1>10, <2>1, <2>2 DEF D!CitedKept, Gone
  <1>16. LogInv'
    <2>1. \A u \in DOMAIN dreams :
            /\ dreams'[u].stage = dreams[u].stage /\ dreams'[u].shown = dreams[u].shown
            /\ dreams[u].state = "done" => dreams'[u].state = "done"
            /\ dreams[u].stage = "reflection" /\ Framed(u)' => Framed(u)
      BY <1>2, <1>6, <1>7 DEF Framed
    <2>2. QED
      BY <1>1, <1>3, <1>6, <1>7, <1>9, <2>1, LogStays
  <1>17. D!FactsRecorded'
    BY <1>1, <1>3, <1>6, RecordedStays
  <1>18. QED
    BY <1>8, <1>13, <1>14, <1>15, <1>16, <1>17 DEF DreamsIInv, GraphInv

\* The checks of a consolidate call: what it cites is there.
LEMMA CallKeeps == ASSUME DreamsIInv, NEW t \in DOMAIN dreams, NEW sources \in SUBSET dreams[t].citable, D!Call(t, sources) PROVE DreamsIInv'
  <1>1. DreamTypes /\ GraphInv /\ LogInv /\ D!FactsRecorded
    BY DEF DreamsIInv
  <1> DEFINE new == [t |-> t, batch |-> dreams[t].batch, sources |-> sources, done |-> sources = {}]
  <1>2. writing' = writing \cup {new} /\ dreams[t].state = "framed"
        /\ UNCHANGED <<log, day, dated, episodes, facts, forgotten, dreams, cut>>
    BY DEF D!Call, D!graph
  <1>3. sources \subseteq episodes
    BY DEF D!Call, D!Refused
  <1>4. dreams[t] \in AllDreams /\ t \in Nat
    BY <1>1, ADream
  <1>5. new \in Writes /\ new.t = t /\ new.sources = sources
    BY <1>4 DEF AllDreams, Writes
  <1> HIDE DEF new
  <1>6. DreamTypes'
    BY <1>1, <1>2, <1>5 DEF DreamTypes
  <1>7. D!Live' = D!Live /\ D!Forgotten' = D!Forgotten /\ D!Working' = D!Working
    BY <1>2 DEF D!Live, D!Forgotten, D!Working
  <1>8. GraphInv'
    <2>1. OneWorks'
      BY <1>1, <1>2, <1>3, <1>5, <1>7 DEF GraphInv, OneWorks, Gone
    <2>2. PrunesUncited' /\ D!CitedKept'
      BY <1>1, <1>2, <1>7 DEF GraphInv, PrunesUncited, D!CitedKept, Gone
    <2>3. QED
      BY <2>1, <2>2 DEF GraphInv
  <1>9. LogInv'
    BY <1>1, <1>2, <1>7, LogStays DEF Framed
  <1>10. D!FactsRecorded'
    BY <1>1, <1>2, RecordedStays
  <1>11. QED
    BY <1>6, <1>8, <1>9, <1>10 DEF DreamsIInv

LEMMA WriteFactKeeps == ASSUME DreamsIInv, D!WriteFact PROVE DreamsIInv'
  <1>1. DreamTypes /\ GraphInv /\ LogInv /\ D!FactsRecorded
    BY DEF DreamsIInv
  <1>2. PICK each \in writing :
          /\ facts' = facts \cup {[t |-> each.t, sources |-> each.sources]}
          /\ writing' = (writing \ {each}) \cup {[each EXCEPT !.done = TRUE]}
          /\ UNCHANGED <<log, day, dated, episodes, forgotten, dreams, cut>>
    BY DEF D!WriteFact
  <1> DEFINE new == [t |-> each.t, sources |-> each.sources]
             still == [each EXCEPT !.done = TRUE]
  <1>3. /\ each.t \in DOMAIN dreams /\ each \in Writes
        /\ dreams[each.t].state = "framed" \/ Gone(each.t)
        /\ dreams[each.t].state = "framed" => each.sources \subseteq episodes
    BY <1>1 DEF DreamTypes, GraphInv, OneWorks
  <1>4. new \in Learned /\ new.t = each.t /\ new.sources = each.sources
    BY <1>3 DEF Learned, Writes
  <1>5. still \in Writes /\ still.t = each.t /\ still.sources = each.sources
    BY <1>3 DEF Writes
  <1>6. facts' = facts \cup {new} /\ writing' = (writing \ {each}) \cup {still}
    BY <1>2
  <1> HIDE DEF new, still
  <1>7. DreamTypes'
    BY <1>1, <1>2, <1>3, <1>4, <1>5, <1>6 DEF DreamTypes
  <1>8. D!Live' \subseteq D!Live \cup {new} /\ D!Forgotten' = D!Forgotten /\ D!Working' = D!Working
    BY <1>2, <1>6 DEF D!Live, D!Forgotten, D!Working
  <1>9. OneWorks'
    BY <1>1, <1>2, <1>3, <1>5, <1>6, <1>8 DEF GraphInv, OneWorks, Gone
  <1>10. PrunesUncited'
    <2> SUFFICES ASSUME NEW t \in DOMAIN dreams, dreams[t].state = "pruning"
                 PROVE  \A fact \in D!Live' : fact.sources \cap dreams[t].batch = {} \/ Gone(fact.t)
      BY <1>2 DEF PrunesUncited, Gone
    <2>1. dreams[each.t].state # "framed"
      BY <1>1, <1>3 DEF GraphInv, OneWorks, D!Working
    <2>2. Gone(new.t)
      BY <1>3, <1>4, <2>1
    <2>3. QED
      BY <1>1, <1>8, <2>2 DEF GraphInv, PrunesUncited
  <1>11. D!CitedKept'
    <2>1. new.sources \subseteq episodes \/ Gone(new.t)
      BY <1>3, <1>4
    <2>2. QED
      BY <1>1, <1>2, <1>8, <2>1 DEF GraphInv, D!CitedKept, Gone
  <1>12. LogInv'
    BY <1>1, <1>2, <1>6, <1>8, LogStays DEF Framed
  <1>13. D!FactsRecorded'
    <2>1. D!Events("consolidated")' = D!Events("consolidated")
      BY <1>2 DEF D!Events
    <2>2. ASSUME NEW other \in writing PROVE \E e \in writing' : e.t = other.t
      BY <1>5, <1>6
    <2>3. QED
      BY <1>1, <1>2, <1>4, <1>5, <1>6, <2>1, <2>2 DEF D!FactsRecorded
  <1>14. QED
    BY <1>7, <1>9, <1>10, <1>11, <1>12, <1>13 DEF DreamsIInv, GraphInv

LEMMA CoverKeeps == ASSUME DreamsIInv, D!Cover PROVE DreamsIInv'
  <1>1. DreamTypes /\ GraphInv /\ LogInv /\ D!FactsRecorded
    BY DEF DreamsIInv
  <1>2. PICK each \in writing :
          /\ log' = Append(log, [type |-> "consolidated", t |-> each.t, episodes |-> each.batch,
                                 facts |-> {fact \in facts : fact.t = each.t}])
          /\ writing' = writing \ {each}
          /\ UNCHANGED <<day, dated, episodes, facts, forgotten, dreams, cut>>
    BY DEF D!Cover, D!graph
  <1> DEFINE its == {fact \in facts : fact.t = each.t}
             e == [type |-> "consolidated", t |-> each.t, episodes |-> each.batch, facts |-> its]
  <1>3. its \in SUBSET Learned /\ its \subseteq facts /\ each \in Writes
    BY <1>1 DEF DreamTypes
  <1>4. e \in LogEntries /\ e.type = "consolidated" /\ e.facts = its
    BY <1>3 DEF LogEntries, Writes
  <1>5. Logs(e)
    BY <1>2 DEF Logs
  <1> HIDE DEF e
  <1>6. LogInv' /\ log' \in Seq(LogEntries)
    BY <1>1, <1>2, <1>3, <1>4, <1>5, LogCovers
  <1>7. DreamTypes'
    BY <1>1, <1>2, <1>6 DEF DreamTypes
  <1>8. D!Live' = D!Live /\ D!Working' = D!Working
    BY <1>2 DEF D!Live, D!Forgotten, D!Working
  <1>9. GraphInv'
    BY <1>1, <1>2, <1>8 DEF GraphInv, OneWorks, PrunesUncited, D!CitedKept, Gone
  <1>10. D!FactsRecorded'
    <2> DEFINE n == Len(log) + 1
    <2>1. /\ log'[n] = e /\ n \in D!Events("consolidated")'
          /\ \A i \in D!Events("consolidated") : i \in D!Events("consolidated")' /\ log'[i] = log[i]
      <3>1. D!Events("consolidated")' = D!Events("consolidated") \cup {n}
        BY <1>1, <1>4, <1>5, Appended DEF Logs
      <3>2. QED
        BY <1>1, <1>4, <1>5, <3>1, Appended DEF Logs
    <2> HIDE DEF n
    <2>2. ASSUME NEW fact \in facts, fact.t = each.t PROVE \E i \in D!Events("consolidated")' : fact \in log'[i].facts
      BY <1>4, <2>1, <2>2
    <2>3. ASSUME NEW fact \in facts, fact.t # each.t
          PROVE  \/ \E i \in D!Events("consolidated")' : fact \in log'[i].facts
                 \/ \E other \in writing' : other.t = fact.t
                 \/ fact.t \in cut'
      BY <1>1, <1>2, <2>1, <2>3 DEF D!FactsRecorded
    <2>4. QED
      BY <1>2, <2>2, <2>3 DEF D!FactsRecorded
  <1>11. QED
    BY <1>6, <1>7, <1>9, <1>10 DEF DreamsIInv

\* A reflection that completes: its frame has shown all, or there was nothing to show.
LEMMA CompletesKeeps ==
  ASSUME DreamsIInv, NEW t \in D!Reflections, D!Close(t), ShowsAll(t), ~Gone(t),
         \A each \in writing : each.t # t, UNCHANGED <<day, D!graph, writing, cut>>
  PROVE  DreamsIInv'
  <1>1. DreamTypes /\ GraphInv /\ LogInv /\ D!FactsRecorded
    BY DEF DreamsIInv
  <1>2. t \in DOMAIN dreams /\ dreams[t].stage = "reflection" /\ t \in Nat
    BY <1>1, ADream DEF D!Reflections
  <1>3. UNCHANGED <<dated, episodes, facts, forgotten>>
    BY DEF D!graph
  <1>4. LogInv' /\ log' \in Seq(LogEntries)
    BY <1>1, <1>3, ReflectionCloses
  <1>5. dreams' = [dreams EXCEPT ![t] = D!Closed(t, "done")]
    BY DEF D!Close
  <1>6. GraphInv' /\ DreamTypes'
    BY <1>1, <1>2, <1>3, <1>4, <1>5, ClosedIs, DreamMoves
  <1>7. D!FactsRecorded'
    <2> DEFINE e == [type |-> "completed", t |-> t]
    <2>1. log' = Append(log, e) /\ e \in LogEntries
      BY <1>2 DEF D!Close, LogEntries
    <2> HIDE DEF e
    <2>2. QED
      BY <1>1, <1>3, <2>1, RecordedAppended
  <1>8. QED
    BY <1>4, <1>6, <1>7 DEF DreamsIInv

LEMMA ReflectKeeps == ASSUME DreamsIInv, NEW t \in DOMAIN dreams, D!Reflect(t) PROVE DreamsIInv'
  <1>1. DreamTypes /\ GraphInv /\ LogInv /\ D!FactsRecorded
    BY DEF DreamsIInv
  <1>2. dreams[t].stage = "reflection" /\ dreams[t].state = "started" /\ t \in D!Reflections
        /\ UNCHANGED <<day, D!graph, writing, cut>>
    BY DEF D!Reflect, D!Reflections
  <1>3. dreams[t] \in AllDreams
    BY <1>1, ADream
  <1>4. \A each \in writing : each.t # t
    BY <1>1, <1>2 DEF GraphInv, OneWorks, Gone
  <1>5. CASE D!Fresh \cap D!Live = {} /\ D!Close(t)
    <2>1. ShowsAll(t)
      BY <1>1, <1>5, FrameShows DEF ShowsAll
    <2>2. QED
      BY <1>2, <1>4, <1>5, <2>1, CompletesKeeps DEF Gone
  <1>6. CASE dreams' = [dreams EXCEPT ![t].state = "framed", ![t].shown = D!Fresh \cap D!Live] /\ UNCHANGED log
    <2> DEFINE shows == D!Fresh \cap D!Live
               d == [dreams[t] EXCEPT !.state = "framed", !.shown = shows]
    <2>1. dreams' = [dreams EXCEPT ![t] = d]
      BY <1>6
    <2>2. shows \in SUBSET Learned
      BY <1>1 DEF D!Live, DreamTypes
    <2> HIDE DEF shows
    <2>3. d \in AllDreams /\ d.stage = "reflection" /\ d.state = "framed" /\ d.shown = shows
      BY <1>2, <1>3, <2>2 DEF AllDreams
    <2> HIDE DEF d
    <2>4. UNCHANGED <<dated, episodes, facts, forgotten>>
      BY <1>2 DEF D!graph
    <2>5. LogInv'
      BY <1>1, <1>2, <1>6, <2>1, <2>3, <2>4, ReflectionFrames DEF shows
    <2>6. D!Working \subseteq {t}
      BY <1>1, <1>2 DEF GraphInv, OneWorks, D!Working
    <2>7. GraphInv' /\ DreamTypes'
      <3>1. log' \in Seq(LogEntries)
        BY <1>1, <1>6 DEF DreamTypes
      <3>2. ~Gone(t)
        BY <1>2 DEF Gone
      <3>3. QED
        BY <1>1, <1>2, <1>4, <2>1, <2>3, <2>4, <2>6, <3>1, <3>2, DreamMoves
    <2>8. D!FactsRecorded'
      BY <1>1, <1>2, <1>6, <2>4, RecordedStays
    <2>9. QED
      BY <2>5, <2>7, <2>8 DEF DreamsIInv
  <1>7. QED
    BY <1>5, <1>6 DEF D!Reflect

\* A dream that waits, is answered, completes without an event, or is interrupted.
LEMMA TurnMoves ==
  ASSUME DreamsIInv, NEW t \in DOMAIN dreams, NEW d \in AllDreams, dreams' = [dreams EXCEPT ![t] = d],
         d.stage = dreams[t].stage, d.shown = dreams[t].shown, d.state \notin {"started", "pruning"},
         ~Gone(t), dreams[t].state # "done",
         d.state = "framed" => D!Working \subseteq {t},
         d.stage = "reflection" /\ d.state \in {"framed", "parked", "done"} => Framed(t),
         \A each \in writing : each.t = t => d.state \in {"ended", "lost"},
         UNCHANGED <<log, day, D!graph, writing, cut>>
  PROVE  DreamsIInv'
  <1>1. DreamTypes /\ GraphInv /\ LogInv /\ D!FactsRecorded
    BY DEF DreamsIInv
  <1>2. UNCHANGED <<dated, episodes, facts, forgotten>> /\ log' \in Seq(LogEntries)
    BY <1>1 DEF D!graph, DreamTypes
  <1>3. GraphInv' /\ DreamTypes'
    BY <1>1, <1>2, DreamMoves
  <1>4. /\ DOMAIN dreams' = DOMAIN dreams
        /\ dreams'[t] = d /\ \A u \in DOMAIN dreams : u # t => dreams'[u] = dreams[u]
    BY <1>1, DreamIs
  <1>5. D!Forgotten' = D!Forgotten
    BY <1>2 DEF D!Forgotten
  <1>6. LogInv'
    <2>1. \A u \in DOMAIN dreams :
            /\ dreams'[u].stage = dreams[u].stage /\ dreams'[u].shown = dreams[u].shown
            /\ dreams[u].state = "done" => dreams'[u].state = "done"
            /\ dreams[u].stage = "reflection" /\ Framed(u)' => Framed(u)
      BY <1>4 DEF Framed
    <2>2. QED
      BY <1>1, <1>2, <1>4, <1>5, <2>1, LogStays
  <1>7. QED
    BY <1>1, <1>2, <1>3, <1>6, RecordedStays DEF DreamsIInv

LEMMA TurnKeeps ==
  ASSUME DreamsIInv, NEW t \in DOMAIN dreams, D!Park(t) \/ D!Answer(t) \/ D!Complete(t) \/ D!Interrupt(t)
  PROVE  DreamsIInv'
  <1>1. DreamTypes /\ GraphInv /\ LogInv /\ D!FactsRecorded
    BY DEF DreamsIInv
  <1>2. dreams[t] \in AllDreams
    BY <1>1, ADream
  <1>3. CASE D!Park(t)
    <2>1. [dreams[t] EXCEPT !.state = "parked"] \in AllDreams
      BY <1>2 DEF AllDreams
    <2>2. dreams[t].state = "framed" /\ dreams' = [dreams EXCEPT ![t] = [dreams[t] EXCEPT !.state = "parked"]]
          /\ UNCHANGED <<log, day, D!graph, writing, cut>> /\ \A each \in writing : each.t # t
      BY <1>3 DEF D!Park, D!Called
    <2>3. QED
      BY <1>2, <2>1, <2>2, TurnMoves DEF AllDreams, Gone, Framed
  <1>4. CASE D!Answer(t)
    <2>1. [dreams[t] EXCEPT !.state = "framed"] \in AllDreams
      BY <1>2 DEF AllDreams
    <2>2. dreams[t].state = "parked" /\ dreams' = [dreams EXCEPT ![t] = [dreams[t] EXCEPT !.state = "framed"]]
          /\ UNCHANGED <<log, day, D!graph, writing, cut>> /\ D!Working = {}
      BY <1>4 DEF D!Answer
    <2>3. \A each \in writing : each.t # t
      BY <1>1, <2>2 DEF GraphInv, OneWorks, Gone
    <2>4. QED
      BY <1>2, <2>1, <2>2, <2>3, TurnMoves DEF AllDreams, Gone, Framed
  <1>5. CASE D!Complete(t)
    <2>1. dreams[t].state = "framed" /\ UNCHANGED <<day, D!graph, writing, cut>> /\ D!Close(t)
          /\ \A each \in writing : each.t # t
      BY <1>5 DEF D!Complete, D!Called
    <2>2. CASE dreams[t].stage = "reflection"
      <3>1. t \in D!Reflections /\ Framed(t) /\ ~Gone(t)
        BY <2>1, <2>2 DEF D!Reflections, Framed, Gone
      <3>2. QED
        BY <1>1, <2>1, <3>1, CompletesKeeps DEF LogInv
    <2>3. CASE dreams[t].stage # "reflection"
      <3>1. dreams' = [dreams EXCEPT ![t] = D!Closed(t, "done")] /\ log' = log
        BY <2>1, <2>3 DEF D!Close
      <3>2. QED
        BY <1>1, <2>1, <2>3, <3>1, ClosedIs, TurnMoves DEF Gone
    <2>4. QED
      BY <2>2, <2>3
  <1>6. CASE D!Interrupt(t)
    <2>1. dreams[t].state \in {"started", "pruning", "framed", "parked"} /\ dreams' = [dreams EXCEPT ![t] = D!Closed(t, "ended")]
          /\ UNCHANGED <<log, day, D!graph, writing, cut>>
      BY <1>6 DEF D!Interrupt
    <2>2. QED
      BY <1>1, <2>1, ClosedIs, TurnMoves DEF Gone
  <1>7. QED
    BY <1>3, <1>4, <1>5, <1>6

LEMMA DreamsStart == D!Init => DreamsIInv
  <1> SUFFICES ASSUME D!Init PROVE DreamsIInv
    OBVIOUS
  <1>1. /\ log = <<>> /\ dreams = <<>> /\ day = 0 /\ dated = <<>>
        /\ episodes = {} /\ facts = {} /\ forgotten = {} /\ writing = {}
    BY DEF D!Init
  <1>2. DreamTypes
    BY <1>1, EmptySeq DEF DreamTypes
  <1>3. DOMAIN dreams = {} /\ \A type : D!Events(type) = {}
    BY <1>1 DEF D!Events
  <1>4. GraphInv
    BY <1>1, <1>3 DEF GraphInv, OneWorks, PrunesUncited, D!CitedKept, D!Live, D!Working
  <1>5. D!Reflections = {} /\ D!Completions = {}
    BY <1>3 DEF D!Reflections, D!Completions
  <1>6. LogInv
    BY <1>3, <1>5 DEF LogInv, Logged
  <1>7. QED
    BY <1>1, <1>2, <1>4, <1>6 DEF DreamsIInv, D!FactsRecorded

LEMMA DreamsStep == DreamsIInv /\ [D!Next]_dreamsVars => DreamsIInv'
  <1> SUFFICES ASSUME DreamsIInv, [D!Next]_dreamsVars PROVE DreamsIInv'
    OBVIOUS
  <1>1. DreamTypes
    BY DEF DreamsIInv
  <1>2. CASE UNCHANGED dreamsVars
    BY <1>1, <1>2, ElsewhereKeeps DEF dreamsVars, DreamTypes
  <1>3. ASSUME NEW on \in 0 .. day, D!Recap(on) PROVE DreamsIInv'
    <2>1. on \in Nat /\ Len(dated) + 1 \in Nat
      BY <1>1 DEF DreamTypes
    <2>2. dated' \in Seq(Nat) /\ episodes' = episodes \cup {Len(dated) + 1}
      BY <1>1, <1>3, <2>1, AppendProperties DEF D!Recap, DreamTypes
    <2>3. QED
      BY <1>1, <1>3, <2>1, <2>2, ElsewhereKeeps DEF D!Recap, DreamTypes
  <1>4. ASSUME NEW fact \in facts, D!Forget(fact) PROVE DreamsIInv'
    BY <1>1, <1>4, ElsewhereKeeps DEF D!Forget, DreamTypes
  <1>5. ASSUME D!Midnight PROVE DreamsIInv'
    BY <1>1, <1>5, ElsewhereKeeps DEF D!Midnight, D!graph, DreamTypes
  <1>6. QED
    BY <1>2, <1>3, <1>4, <1>5, DreamRestartKeeps, StartKeeps, PruneKeeps, ConsolidateKeeps, CallKeeps,
       WriteFactKeeps, CoverKeeps, ReflectKeeps, TurnKeeps DEF D!Next

(* Facts have the events and the episodes they need, and no fact that was recorded escapes         *)
(* reflection, for every number of episodes, dreams, days and troubles (memory/consolidation.py,   *)
(* memory/reflection.py).                                                                          *)
THEOREM DreamsSafe == Spec => []DreamsInv
  <1> DEFINE I == part = "dreams" => DreamsIInv
  <1>1. Init => I
    BY DreamsStart DEF Init
  <1>2. I /\ [Next]_vars => I'
    <2> SUFFICES ASSUME I, [Next]_vars, part' = "dreams" PROVE DreamsIInv'
      OBVIOUS
    <2>1. part' = part /\ [D!Next]_dreamsVars
      BY DEF Next, vars, Recap, Dreams, Picks, Ticket, Snapshots, Configuration, dreamsVars
    <2>2. QED
      BY <2>1, DreamsStep
  <1>3. I => DreamsInv
    BY NoneSkippedHolds DEF DreamsIInv, GraphInv, DreamsInv, D!DreamsInv
  <1> HIDE DEF I
  <1>4. QED
    BY <1>1, <1>2, <1>3, PTL DEF Spec

-----------------------------------------------------------------------------
(* Picks.  What an instance's lock and its baseline name, the hub knows    *)
(* the folder by, and an update writes over no other text, but for the     *)
(* template's where no baseline is recorded yet.                           *)

IsHeld(h) ==
    /\ h = [copy |-> h.copy, locked |-> h.locked, supplied |-> h.supplied, based |-> h.based]
    /\ h.based \in BOOLEAN /\ (~h.based => h.supplied = "none")

PicksIInv == IsHeld(held) /\ {held.locked, held.supplied} \subseteq supplies \cup {"none"}

\* An instance without a baseline takes the template's folder over its own, and loses none.
TakesTemplate(h) == ~held.based /\ served # "none" /\ h.copy = served

\* What an update's writes make of an instance, field by field.
LEMMA TakenIs ==
  ASSUME NEW h, IsHeld(h)
  PROVE  /\ IsHeld(P!Taken(h)) /\ P!Taken(h).copy = h.copy /\ P!Taken(h).supplied = h.supplied
         /\ P!Taken(h).based = h.based
         /\ P!Taken(h).locked \in {h.locked, shelf} \/ (P!Taken(h).locked = h.supplied /\ h.supplied # "none")
  BY DEF P!Taken, P!None, IsHeld

LEMMA WrittenIs ==
  ASSUME NEW h, IsHeld(h)
  PROVE  /\ IsHeld(P!Written(h)) /\ P!Written(h).locked = h.locked /\ P!Written(h).supplied = h.supplied
         /\ P!Written(h).based = h.based
         /\ P!Written(h) # h => h.copy = h.locked /\ h.locked \notin {"none", shelf}
  BY DEF P!Written, P!Behind, P!None, IsHeld

LEMMA RelockedIs ==
  ASSUME NEW h, IsHeld(h)
  PROVE  /\ IsHeld(P!Relocked(h)) /\ P!Relocked(h).copy = h.copy /\ P!Relocked(h).supplied = h.supplied
         /\ P!Relocked(h).based = h.based
  BY DEF P!Relocked, IsHeld

LEMMA SyncedIs ==
  ASSUME NEW h, IsHeld(h)
  PROVE  /\ IsHeld(P!Synced(h)) /\ P!Synced(h).locked = h.locked /\ P!Synced(h).supplied = h.supplied
         /\ P!Synced(h).copy # h.copy =>
               h.copy \in {h.supplied, "none"} \/ (~h.based /\ served # "none" /\ P!Synced(h).copy = served)
  BY DEF P!Synced, P!Before, P!None, IsHeld

LEMMA RecordedIs ==
  ASSUME NEW h, IsHeld(h)
  PROVE  /\ IsHeld(P!Recorded(h)) /\ P!Recorded(h).copy = h.copy
         /\ P!Recorded(h).supplied \in {"none", h.supplied} \/ (P!Recorded(h).supplied = served /\ h.copy = served)
  <1> DEFINE before == P!Before(h)
             taken == IF served = before \/ h.copy = served THEN served ELSE before
  <1>1. before \in {"none", h.supplied}
    BY DEF P!Before, P!None
  <1>2. P!Recorded(h) = [h EXCEPT !.based = TRUE, !.supplied = taken]
    BY DEF P!Recorded
  <1>3. taken \in {"none", h.supplied} \/ (taken = served /\ h.copy = served)
    BY <1>1
  <1> HIDE DEF before, taken
  <1>4. P!Recorded(h) = [copy |-> h.copy, locked |-> h.locked, supplied |-> taken, based |-> TRUE]
    BY <1>2 DEF IsHeld
  <1>5. QED
    BY <1>3, <1>4 DEF IsHeld

\* What the hub does not know the folder by, no write of an update changes.
LEMMA WritesKeep ==
  ASSUME PicksIInv, held.copy \notin supplies \cup {"none"}
  PROVE  LET taken == P!Taken(held)
             rewritten == P!Written(taken)
             relocked == P!Relocked(rewritten)
             synced == P!Synced(relocked)
         IN /\ rewritten = taken /\ \A h \in {taken, relocked} : h.copy = held.copy
            /\ \A h \in {synced, P!Recorded(synced)} : h.copy = held.copy \/ TakesTemplate(h)
  <1> DEFINE taken == P!Taken(held)
             rewritten == P!Written(taken)
             relocked == P!Relocked(rewritten)
             synced == P!Synced(relocked)
  <1>1. IsHeld(taken) /\ taken.copy = held.copy /\ taken.supplied = held.supplied /\ taken.based = held.based
        /\ (taken.locked \in {held.locked, shelf} \/ (taken.locked = held.supplied /\ held.supplied # "none"))
    BY TakenIs DEF PicksIInv
  <1>2. rewritten = taken
    BY <1>1, WrittenIs DEF PicksIInv
  <1> HIDE DEF rewritten, taken
  <1>3. IsHeld(relocked) /\ relocked.copy = held.copy /\ relocked.supplied = held.supplied /\ relocked.based = held.based
    BY <1>1, <1>2, RelockedIs
  <1> HIDE DEF relocked
  <1>4. IsHeld(synced) /\ (synced.copy = held.copy \/ TakesTemplate(synced))
    BY <1>3, SyncedIs DEF PicksIInv, TakesTemplate
  <1> HIDE DEF synced
  <1>5. P!Recorded(synced).copy = held.copy \/ TakesTemplate(P!Recorded(synced))
    BY <1>4, RecordedIs DEF TakesTemplate
  <1>6. QED
    BY <1>1, <1>2, <1>3, <1>4, <1>5 DEF synced, relocked, rewritten, taken

\* An update, whole or cut short, leaves the baseline or takes what the template serves.
LEMMA WritesAre ==
  ASSUME PicksIInv
  PROVE  LET taken == P!Taken(held)
             rewritten == P!Written(taken)
             relocked == P!Relocked(rewritten)
             synced == P!Synced(relocked)
         IN /\ \A h \in {taken, rewritten, relocked, synced} : IsHeld(h) /\ h.supplied = held.supplied
            /\ IsHeld(P!Recorded(synced))
            /\ \/ P!Recorded(synced).supplied \in {"none", held.supplied}
               \/ P!Recorded(synced).supplied = served /\ P!Recorded(synced).copy = served
  <1> DEFINE taken == P!Taken(held)
             rewritten == P!Written(taken)
             relocked == P!Relocked(rewritten)
             synced == P!Synced(relocked)
  <1>1. IsHeld(taken) /\ taken.supplied = held.supplied
    BY TakenIs DEF PicksIInv
  <1> HIDE DEF taken
  <1>2. IsHeld(rewritten) /\ rewritten.supplied = held.supplied
    BY <1>1, WrittenIs
  <1> HIDE DEF rewritten
  <1>3. IsHeld(relocked) /\ relocked.supplied = held.supplied
    BY <1>2, RelockedIs
  <1> HIDE DEF relocked
  <1>4. IsHeld(synced) /\ synced.supplied = held.supplied
    BY <1>3, SyncedIs
  <1> HIDE DEF synced
  <1>5. /\ IsHeld(P!Recorded(synced)) /\ P!Recorded(synced).copy = synced.copy
        /\ P!Recorded(synced).supplied \in {"none", held.supplied} \/ (P!Recorded(synced).supplied = served /\ synced.copy = served)
    BY <1>4, RecordedIs
  <1>6. QED
    BY <1>1, <1>2, <1>3, <1>4, <1>5 DEF synced, relocked, rewritten, taken

LEMMA UpdateKeeps == ASSUME PicksIInv, P!Update PROVE PicksIInv' /\ P!CopyStays
  <1> DEFINE synced == P!Synced(P!Relocked(P!Written(P!Taken(held))))
  <1>1. held' = P!Recorded(synced) /\ UNCHANGED <<shelf, served>>
        /\ supplies' = supplies \cup P!Known(P!Written(P!Taken(held))) \cup P!Known(held')
    BY DEF P!Update, P!library
  <1>2. /\ IsHeld(held')
        /\ \/ held'.supplied \in {"none", held.supplied}
           \/ held'.supplied = served /\ held'.copy = served
    BY <1>1, WritesAre
  <1>3. held.copy \notin supplies \cup {"none"} => held'.copy = held.copy \/ TakesTemplate(held')
    BY <1>1, WritesKeep
  <1> HIDE DEF synced
  <1>4. held'.locked \in supplies' \cup {"none"} /\ (held'.copy = served => served \in supplies')
    BY <1>1 DEF P!Known, P!None
  <1>5. PicksIInv'
    BY <1>1, <1>2, <1>4 DEF PicksIInv
  <1>6. P!CopyStays
    BY <1>3, PicksAssumption DEF P!CopyStays, P!None, TakesTemplate
  <1>7. QED
    BY <1>5, <1>6

LEMMA HubStopsKeeps ==
  ASSUME PicksIInv, NEW build, NEW gitDir, NEW half, P!HubStops(build, gitDir, half)
  PROVE  PicksIInv' /\ P!CopyStays
  <1>1. held' = half /\ (half = held \/ half \in P!Halves(held))
        /\ supplies' = supplies \cup (IF half = held THEN {} ELSE P!Known(half))
    BY DEF P!HubStops
  <1>2. CASE half = held
    BY <1>1, <1>2 DEF PicksIInv, P!CopyStays
  <1>3. CASE half # held
    <2> DEFINE taken == P!Taken(held)
               rewritten == P!Written(taken)
               relocked == P!Relocked(rewritten)
               synced == P!Synced(relocked)
    <2>1. \A h \in {taken, rewritten, relocked, synced} : IsHeld(h) /\ h.supplied = held.supplied
      BY WritesAre
    <2>2. held.copy \notin supplies \cup {"none"} =>
             /\ rewritten = taken /\ taken.copy = held.copy /\ relocked.copy = held.copy
             /\ synced.copy = held.copy \/ TakesTemplate(synced)
      BY WritesKeep
    <2>3. \/ half \in {taken, rewritten, relocked, synced}
          \/ rewritten # taken /\ \E c : half = [taken EXCEPT !.copy = c]
      BY <1>1, <1>3 DEF P!Halves
    <2> HIDE DEF taken, rewritten, relocked, synced
    <2>4. IsHeld(half) /\ half.supplied = held.supplied
      <3>1. CASE half \in {taken, rewritten, relocked, synced}
        BY <2>1, <3>1
      <3>2. ASSUME NEW c, half = [taken EXCEPT !.copy = c] PROVE IsHeld(half) /\ half.supplied = held.supplied
        BY <2>1, <3>2 DEF IsHeld
      <3>3. QED
        BY <2>3, <3>1, <3>2
    <2>5. half.locked \in supplies' \cup {"none"}
      BY <1>1, <1>3 DEF P!Known, P!None
    <2>6. PicksIInv'
      BY <1>1, <2>4, <2>5 DEF PicksIInv
    <2>7. P!CopyStays
      BY <1>1, <2>2, <2>3, PicksAssumption DEF P!CopyStays, P!None, TakesTemplate
    <2>8. QED
      BY <2>6, <2>7
  <1>4. QED
    BY <1>2, <1>3

LEMMA InstancePicksKeep ==
  ASSUME PicksIInv, \/ P!Pick \/ P!PickIn \/ P!DropPick
                    \/ \E text \in Texts \cup {"none"} : P!AgentEdits(text) \/ P!EditTemplate(text)
  PROVE  PicksIInv' /\ P!CopyStays
  <1>1. CASE P!Pick \/ \E text \in Texts \cup {"none"} : P!EditTemplate(text)
    BY <1>1 DEF P!Pick, P!EditTemplate, PicksIInv, P!CopyStays, P!library
  <1>2. CASE P!PickIn
    <2>1. CASE held.copy = "none" /\ held' = [held EXCEPT !.copy = staged, !.locked = staged] /\ supplies' = supplies \cup {staged}
      BY <2>1, PicksAssumption DEF PicksIInv, IsHeld, P!CopyStays
    <2>2. CASE UNCHANGED <<held, supplies>>
      BY <2>2 DEF PicksIInv, P!CopyStays
    <2>3. QED
      BY <1>2, <2>1, <2>2 DEF P!PickIn, P!None
  <1>3. CASE P!DropPick
    <2>1. held' = [held EXCEPT !.copy = "none", !.locked = "none"] /\ supplies' = supplies
      BY <1>3 DEF P!DropPick, P!None
    <2>2. QED
      BY <1>3, <2>1 DEF PicksIInv, IsHeld, P!CopyStays
  <1>4. ASSUME NEW text \in Texts \cup {"none"}, P!AgentEdits(text) PROVE PicksIInv' /\ P!CopyStays
    <2>1. held' = [held EXCEPT !.copy = text] /\ supplies' = supplies
      BY <1>4 DEF P!AgentEdits
    <2>2. PicksIInv'
      BY <2>1 DEF PicksIInv, IsHeld
    <2>3. P!CopyStays
      BY <1>4 DEF P!CopyStays, P!None
    <2>4. QED
      BY <2>2, <2>3
  <1>5. QED
    BY <1>1, <1>2, <1>3, <1>4

LEMMA PicksStep == PicksIInv /\ [P!Next]_picksVars => PicksIInv' /\ P!CopyStays
  <1> SUFFICES ASSUME PicksIInv, [P!Next]_picksVars PROVE PicksIInv' /\ P!CopyStays
    OBVIOUS
  <1>1. CASE UNCHANGED <<held, supplies>>
    BY <1>1 DEF PicksIInv, P!CopyStays
  <1>2. CASE \/ \E text \in Texts : P!Write(text) \/ P!Add(text) \/ \E overwrite \in BOOLEAN : P!Move(text, overwrite)
             \/ P!Look \/ P!Delete \/ P!Remove \/ P!Place \/ P!Record
    BY <1>1, <1>2 DEF P!Write, P!Add, P!Move, P!Look, P!Delete, P!Remove, P!Place, P!Record
  <1>3. QED
    BY <1>1, <1>2, UpdateKeeps, HubStopsKeeps, InstancePicksKeep DEF P!Next, picksVars, P!None

(* What the agent made of its copy stays but for its user's drop, and for the first update of an     *)
(* instance with no recorded baseline, which takes the library's text over it: for every set of     *)
(* texts and every number of stops (hub/library.py, hub/template_sync.py, instance/skills_lock.py). *)
THEOREM AgentsAreKept == Spec => AgentsKept
  <1> DEFINE I == part = "picks" => PicksIInv
  <1>1. Init => I
    <2>1. P!Init => PicksIInv
      BY DEF P!Init, PicksIInv, IsHeld, P!None
    <2>2. QED
      BY <2>1 DEF Init
  <1>2. I /\ [Next]_vars => I' /\ [part = "picks" => P!CopyStays]_picksVars
    <2> SUFFICES ASSUME I, [Next]_vars, part = "picks" \/ part' = "picks" PROVE PicksIInv' /\ P!CopyStays
      OBVIOUS
    <2>1. part' = part /\ [P!Next]_picksVars
      BY DEF Next, vars, Recap, Dreams, Picks, Ticket, Snapshots, Configuration, picksVars
    <2>2. QED
      BY <2>1, PicksStep
  <1> HIDE DEF I
  <1>3. QED
    BY <1>1, <1>2, PTL DEF Spec, AgentsKept

-----------------------------------------------------------------------------
(* An issue's runs (Ticket).  A late call is of an earlier run, the tree   *)
(* is the run's that works, and what someone else pushed the clone has     *)
(* nowhere until it fetches.                                               *)

TicketRuns == [id : Nat, place : T!Places, stopped : BOOLEAN, base : {"default", "blocker"},
               branch : BOOLEAN, pr : BOOLEAN, feedback : BOOLEAN, fixed : BOOLEAN]
TicketCalls == [run : Nat, kind : {"needs_human", "ended"}, branch : BOOLEAN, noChange : BOOLEAN]

\* The run, the calls it left behind, and whose the run worktree is.
RunInv ==
    /\ run \in TicketRuns /\ owed \in SUBSET TicketCalls /\ at \in T!Phases
    /\ tree \in [owner : Nat, dirty : BOOLEAN]
    /\ run.place # "over" => run.id >= 1
    /\ run.stopped => run.place # "over"
    /\ at # "idle" => run.place = "publish" /\ ~run.stopped
    /\ run.place \notin {"over", "prepare"} => tree.owner \in {0, run.id}
    /\ \A call \in owed : call.kind = "ended" =>
          call.run <= run.id /\ (call.run = run.id => run.place = "over")

\* The branch in the clone and on origin, and what the clone has not seen of it.
CloneInv ==
    /\ refs \in SUBSET T!Refs /\ has \in [T!Refs -> SUBSET Nat]
    /\ own \in SUBSET Nat /\ landed \in SUBSET Nat /\ missed \in SUBSET Nat /\ made \in Nat
    /\ \A c \in has["local"] \cup has["tracking"] \cup has["origin"] \cup own \cup landed \cup missed : c <= made
    /\ missed \cap (has["local"] \cup has["tracking"] \cup own) = {}
    /\ "origin" \notin refs => missed = {}
    /\ missed \subseteq has["origin"] \cup landed
    /\ tree.owner = 0 => has["local"] = {} /\ ~tree.dirty
    /\ "local" \notin refs => has["local"] = {}
    /\ at = "rebasing" => tree.owner # 0 /\ "local" \in refs /\ has["local"] = {}

TicketIInv == RunInv /\ CloneInv

LEMMA TicketCardinality == ASSUME NEW X PROVE T!Cardinality(X) = Cardinality(X)
  BY DEF T!Cardinality, Cardinality


\* A run that stops or restarts stays where it is, or goes back to where it was before.
LEMMA RunMoves ==
  ASSUME RunInv, tree' = tree, NEW r \in TicketRuns,
         r.id = run.id, r.place # "over", run.place # "over",
         r.place = "prepare" \/ run.place # "prepare" \/ tree.owner \in {0, run.id},
         at' = "idle" \/ (at' \in T!Phases /\ r.place = "publish" /\ ~r.stopped),
         run' = r, owed' \subseteq owed \cup {T!NeedsHuman}
  PROVE  RunInv'
  <1>1. T!NeedsHuman \in TicketCalls /\ T!NeedsHuman.kind = "needs_human"
    BY DEF RunInv, TicketRuns, TicketCalls, T!NeedsHuman
  <1>2. run' \in TicketRuns /\ owed' \in SUBSET TicketCalls /\ at' \in T!Phases
    BY <1>1 DEF RunInv, T!Phases
  <1>3. \A call \in owed' : call.kind = "ended" => call.run <= run'.id /\ (call.run = run'.id => run'.place = "over")
    BY <1>1 DEF RunInv
  <1>4. QED
    BY <1>2, <1>3 DEF RunInv

\* A run that ends leaves its own call.
LEMMA RunEnds ==
  ASSUME RunInv, NEW noChange \in BOOLEAN, T!EndsRun(noChange), run.id >= 1, at = "idle", at' = at,
         tree' \in [owner : Nat, dirty : BOOLEAN]
  PROVE  RunInv'
  <1> DEFINE its == [run |-> run.id, kind |-> "ended", branch |-> run.branch, noChange |-> noChange]
  <1>1. its \in TicketCalls /\ its.run = run.id
    BY DEF RunInv, TicketRuns, TicketCalls
  <1>2. run' \in TicketRuns /\ run'.place = "over" /\ ~run'.stopped /\ run'.id = run.id
    BY DEF RunInv, TicketRuns, T!EndsRun, T!Places
  <1>3. owed' \subseteq owed \cup {its}
    BY DEF T!EndsRun
  <1> HIDE DEF its
  <1>4. owed' \in SUBSET TicketCalls
    BY <1>1, <1>3 DEF RunInv
  <1>5. \A call \in owed' : call.kind = "ended" => call.run <= run'.id /\ (call.run = run'.id => run'.place = "over")
    BY <1>1, <1>2, <1>3 DEF RunInv, TicketRuns
  <1>6. QED
    BY <1>2, <1>4, <1>5 DEF RunInv

LEMMA HandOverKeeps ==
  ASSUME RunInv, T!HandOver, at = "idle", at' = at, tree' = tree
  PROVE  RunInv'
  <1>1. CASE run.place = "over" /\ run'.id = run.id + 1 /\ UNCHANGED owed /\ run'.place = "prepare" /\ ~run'.stopped
             /\ run' \in TicketRuns
    BY <1>1 DEF RunInv, TicketRuns, TicketCalls
  <1>2. CASE run.stopped /\ T!Restarts(run)
    <2>1. [run EXCEPT !.stopped = FALSE] \in TicketRuns
      BY DEF RunInv, TicketRuns
    <2>2. QED
      BY <1>2, <2>1, RunMoves DEF RunInv, T!Restarts, TicketRuns
  <1>3. CASE UNCHANGED T!hub
    BY <1>3 DEF RunInv, T!hub
  <1>4. ASSUME run.place = "over",
               run' = [id |-> run.id + 1, place |-> "prepare", stopped |-> FALSE, base |-> "default",
                       branch |-> FALSE, pr |-> FALSE, feedback |-> FALSE, fixed |-> FALSE]
        PROVE  run'.id = run.id + 1 /\ run'.place = "prepare" /\ ~run'.stopped /\ run' \in TicketRuns
    BY <1>4 DEF RunInv, TicketRuns, T!Places
  <1>5. QED
    BY <1>1, <1>2, <1>3, <1>4 DEF T!HandOver

LEMMA RunStep == RunInv /\ [T!Next]_ticketVars => RunInv'
  <1> SUFFICES ASSUME RunInv, [T!Next]_ticketVars PROVE RunInv'
    OBVIOUS
  <1>1. CASE UNCHANGED <<run, owed, at, tree>>
    BY <1>1 DEF RunInv
  <1>2. CASE T!ScanEligible \/ T!ScanRelabeled
    BY <1>2, HandOverKeeps DEF T!ScanEligible, T!ScanRelabeled, T!Idle, T!clone
  <1>3. CASE T!Prepare
    <2>1. run' = [run EXCEPT !.place = "code", !.base = T!Base, !.branch = TRUE] /\ UNCHANGED <<owed, at>>
          /\ tree' = [owner |-> run.id, dirty |-> FALSE] /\ run.place = "prepare" /\ at = "idle"
      BY <1>3 DEF T!Prepare, T!Working, T!At, T!Idle
    <2>2. run' \in TicketRuns /\ run'.place = "code" /\ run'.id = run.id /\ run.stopped = run'.stopped
      BY <2>1 DEF RunInv, TicketRuns, T!Places, T!Base
    <2>3. tree' \in [owner : Nat, dirty : BOOLEAN] /\ tree'.owner = run.id
      BY <2>1 DEF RunInv, TicketRuns
    <2>4. QED
      BY <2>1, <2>2, <2>3 DEF RunInv, TicketCalls, TicketRuns
  <1>4. CASE T!OtherPrepares
    BY <1>4 DEF T!OtherPrepares, T!hub, RunInv, T!NoRun
  <1>5. CASE T!CodeCommits \/ T!CodeLeavesWork \/ T!LandBase \/ T!CodeNoChange
    <2>1. run.place \in {"code", "publish"} /\ ~run.stopped /\ at = "idle"
      BY <1>5 DEF T!CodeCommits, T!CodeLeavesWork, T!LandBase, T!CodeNoChange, T!Working, T!At, T!Idle
    <2>2. tree' \in [owner : Nat, dirty : BOOLEAN] /\ tree'.owner = run.id
      <3>1. T!TreeOf(run.id) = run.id /\ run.id \in Nat
        BY <2>1 DEF T!TreeOf, T!NoRun, RunInv, TicketRuns
      <3>2. PICK dirty \in BOOLEAN : tree' = [owner |-> T!TreeOf(run.id), dirty |-> dirty]
        BY <1>5 DEF T!CodeCommits, T!CodeLeavesWork, T!LandBase, T!CodeNoChange
      <3>3. QED
        BY <3>1, <3>2
    <2>3. CASE T!CodeCommits
      <3>1. PICK fixed \in BOOLEAN : run' = [run EXCEPT !.place = "publish", !.fixed = fixed] /\ UNCHANGED <<owed, at>>
        BY <2>3 DEF T!CodeCommits
      <3>2. run' \in TicketRuns /\ run'.place = "publish" /\ run'.id = run.id /\ run.stopped = run'.stopped
        BY <3>1 DEF RunInv, TicketRuns, T!Places
      <3>3. QED
        BY <2>1, <2>2, <3>1, <3>2 DEF RunInv, TicketRuns
    <2>4. CASE T!CodeLeavesWork
      <3>1. CASE UNCHANGED T!hub /\ at' = at
        BY <2>1, <2>2, <3>1 DEF RunInv, T!hub
      <3>2. CASE T!StopsRun(run) /\ at' = at
        <4>1. run' \in TicketRuns /\ run'.id = run.id /\ run'.place = run.place /\ owed' = owed \cup {T!NeedsHuman}
          BY <3>2 DEF T!StopsRun, RunInv, TicketRuns
        <4>2. T!NeedsHuman \in TicketCalls /\ T!NeedsHuman.kind = "needs_human"
          BY DEF RunInv, TicketRuns, TicketCalls, T!NeedsHuman
        <4>3. QED
          BY <2>1, <2>2, <3>2, <4>1, <4>2 DEF RunInv
      <3>3. QED
        BY <2>4, <3>1, <3>2 DEF T!CodeLeavesWork
    <2>5. CASE T!LandBase
      <3>1. run.place = "publish" /\ at' = "rebasing" /\ UNCHANGED <<run, owed>>
        BY <2>5 DEF T!LandBase, T!hub, T!Working, T!At
      <3>2. QED
        BY <2>1, <2>2, <3>1 DEF RunInv, T!Phases
    <2>6. CASE T!CodeNoChange
      BY <2>1, <2>2, <2>6, RunEnds DEF T!CodeNoChange, RunInv
    <2>7. QED
      BY <1>5, <2>3, <2>4, <2>5, <2>6
  <1>6. CASE T!StepFails
    <2> DEFINE r == [run EXCEPT !.branch = @ /\ run.place # "prepare"]
               s == [r EXCEPT !.stopped = TRUE]
    <2>1. run.place \in {"prepare", "code", "publish", "assess"} /\ run' = s /\ owed' = owed \cup {T!NeedsHuman}
          /\ at = "idle" /\ at' = at /\ tree' = tree
      BY <1>6 DEF T!StepFails, T!StopsRun, T!Idle, T!clone
    <2>2. s \in TicketRuns /\ s.id = run.id /\ s.place = run.place
      BY DEF RunInv, TicketRuns
    <2> HIDE DEF s, r
    <2>3. QED
      BY <2>1, <2>2, RunMoves
  <1>7. CASE T!CherryPick \/ T!PushBranch \/ T!OpenPull \/ T!DieInPublish
    <2>1. run.place = "publish" /\ tree' = tree /\ at' \in T!Phases
      BY <1>7 DEF T!CherryPick, T!PushBranch, T!OpenPull, T!DieInPublish, T!At, T!Idle, RunInv, T!Phases, T!clone
    <2>2. CASE UNCHANGED <<run, owed>>
      BY <1>7, <2>1, <2>2 DEF RunInv, T!CherryPick, T!PushBranch, T!OpenPull, T!DieInPublish, T!At, T!Idle, T!Phases
    <2>3. CASE at' = "idle" /\ T!StopsRun(run)
      <3>1. [run EXCEPT !.stopped = TRUE] \in TicketRuns
        BY DEF RunInv, TicketRuns
      <3>2. QED
        BY <2>1, <2>3, <3>1, RunMoves DEF T!StopsRun, RunInv, TicketRuns
    <2>4. QED
      BY <1>7, <2>2, <2>3 DEF T!CherryPick, T!PushBranch, T!OpenPull, T!DieInPublish, T!hub
  <1>8. CASE T!Published \/ T!RepliesPosted \/ T!Wake
    <2>1. PICK r \in TicketRuns : /\ r.id = run.id /\ r.place \in {"babysit", "assess"} /\ run' = r
                                  /\ run.place \in {"publish", "babysit"} /\ UNCHANGED <<owed, tree>> /\ at' = "idle"
      <3>1. CASE T!Published
        <4>1. [run EXCEPT !.place = "babysit", !.pr = TRUE] \in TicketRuns
          BY DEF RunInv, TicketRuns, T!Places
        <4>2. QED
          BY <3>1, <4>1 DEF T!Published, T!clone, RunInv, TicketRuns
      <3>2. CASE T!RepliesPosted
        <4>1. [run EXCEPT !.place = "babysit", !.feedback = FALSE] \in TicketRuns
          BY DEF RunInv, TicketRuns, T!Places
        <4>2. QED
          BY <3>2, <4>1 DEF T!RepliesPosted, T!clone, RunInv, TicketRuns
      <3>3. CASE T!Wake
        <4>1. [run EXCEPT !.place = "assess"] \in TicketRuns
          BY DEF RunInv, TicketRuns, T!Places
        <4>2. QED
          BY <3>3, <4>1 DEF T!Wake, T!At, T!clone, RunInv, TicketRuns, T!Phases
      <3>4. QED
        BY <1>8, <3>1, <3>2, <3>3
    <2>2. QED
      BY <2>1, RunMoves
  <1>9. CASE T!Assess
    <2>1. run.place = "assess" /\ at = "idle" /\ at' = at /\ tree' = tree
      BY <1>9 DEF T!Assess, T!Working, T!At, T!Idle, T!clone
    <2>2. CASE T!EndsRun(FALSE)
      BY <2>1, <2>2, RunEnds DEF RunInv
    <2>3. ASSUME NEW r \in TicketRuns, r.id = run.id, r.place \in {"code", "babysit", "assess"}, run' = r,
                 owed' \subseteq owed \cup {T!NeedsHuman}
          PROVE  RunInv'
      BY <2>1, <2>3, RunMoves
    <2>4. /\ [run EXCEPT !.place = "code"] \in TicketRuns
          /\ [run EXCEPT !.place = "babysit"] \in TicketRuns
          /\ [run EXCEPT !.stopped = TRUE] \in TicketRuns
      BY DEF RunInv, TicketRuns, T!Places
    <2>5. \A f \in TicketRuns : f = [run EXCEPT !.feedback = TRUE, !.pr = TRUE] =>
             /\ [f EXCEPT !.place = "code"] \in TicketRuns
             /\ [f EXCEPT !.stopped = TRUE] \in TicketRuns
      BY DEF RunInv, TicketRuns, T!Places
    <2>6. [run EXCEPT !.feedback = TRUE, !.pr = TRUE] \in TicketRuns
      BY DEF RunInv, TicketRuns
    <2>7. CASE \/ run' = [run EXCEPT !.place = "code"] /\ UNCHANGED owed
               \/ T!StopsRun(run)
               \/ run' = [run EXCEPT !.place = "babysit"] /\ UNCHANGED owed
      BY <2>1, <2>3, <2>4, <2>7 DEF T!StopsRun, RunInv, TicketRuns
    <2>8. CASE LET found == [run EXCEPT !.feedback = TRUE, !.pr = TRUE]
               IN  \/ run' = [found EXCEPT !.place = "code"] /\ UNCHANGED owed
                   \/ T!StopsRun(found)
      <3> DEFINE found == [run EXCEPT !.feedback = TRUE, !.pr = TRUE]
      <3>1. found \in TicketRuns /\ found.id = run.id /\ found.place = run.place
        BY <2>6 DEF RunInv, TicketRuns
      <3>2. /\ [found EXCEPT !.place = "code"] \in TicketRuns
            /\ [found EXCEPT !.stopped = TRUE] \in TicketRuns
        BY <2>5, <3>1
      <3>3. \/ run' = [found EXCEPT !.place = "code"] /\ UNCHANGED owed
            \/ run' = [found EXCEPT !.stopped = TRUE] /\ owed' = owed \cup {T!NeedsHuman}
        BY <2>8 DEF T!StopsRun
      <3> HIDE DEF found
      <3>4. PICK r \in TicketRuns : r.id = run.id /\ r.place \in {"code", "assess"} /\ run' = r
        <4>1. CASE run' = [found EXCEPT !.place = "code"]
          <5>1. [found EXCEPT !.place = "code"].id = run.id /\ [found EXCEPT !.place = "code"].place = "code"
            BY <3>1 DEF TicketRuns
          <5>2. QED
            BY <3>2, <4>1, <5>1
        <4>2. CASE run' = [found EXCEPT !.stopped = TRUE]
          <5>1. [found EXCEPT !.stopped = TRUE].id = run.id /\ [found EXCEPT !.stopped = TRUE].place = "assess"
            BY <2>1, <3>1 DEF TicketRuns
          <5>2. QED
            BY <3>2, <4>2, <5>1
        <4>3. QED
          BY <3>3, <4>1, <4>2
      <3>5. QED
        BY <2>3, <3>3, <3>4
    <2>9. QED
      BY <1>9, <2>2, <2>7, <2>8 DEF T!Assess
  <1>10. CASE T!ReportNeedsHuman
    BY <1>10 DEF T!ReportNeedsHuman, RunInv
  <1>11. ASSUME NEW call \in owed, T!ReportEnded(call) PROVE RunInv'
    <2>1. tree' = tree \/ tree' = [owner |-> 0, dirty |-> FALSE]
      BY <1>11 DEF T!ReportEnded, T!NoRun
    <2>2. tree' \in [owner : Nat, dirty : BOOLEAN] /\ tree'.owner \in {0, tree.owner}
      <3>1. CASE tree' = tree
        BY <3>1 DEF RunInv
      <3>2. CASE tree' = [owner |-> 0, dirty |-> FALSE]
        BY <3>2
      <3>3. QED
        BY <2>1, <3>1, <3>2
    <2>3. UNCHANGED <<run, at>> /\ owed' \subseteq owed
      BY <1>11 DEF T!ReportEnded
    <2>4. QED
      BY <2>2, <2>3 DEF RunInv
  <1>12. CASE T!Retry
    <2>1. [run EXCEPT !.stopped = FALSE] \in TicketRuns
      BY DEF RunInv, TicketRuns
    <2>2. QED
      BY <1>12, <2>1, RunMoves DEF RunInv, T!Retry, T!Restarts, TicketRuns, T!clone
  <1>13. CASE T!SendBack
    <2>1. PICK to \in T!Earlier(run.place), keeps \in BOOLEAN :
             T!Restarts([run EXCEPT !.place = to, !.pr = @ /\ keeps, !.feedback = @ /\ keeps])
      BY <1>13 DEF T!SendBack
    <2>2. run.stopped /\ at' = at /\ tree' = tree /\ run.place # "over" /\ at = "idle"
      BY <1>13 DEF T!SendBack, T!clone, RunInv
    <2>3. to \in {"prepare", "code", "publish"} /\ (run.place = "prepare" => to = "prepare")
      BY DEF T!Earlier, RunInv, TicketRuns, T!Places
    <2> DEFINE r == [run EXCEPT !.place = to, !.pr = @ /\ keeps, !.feedback = @ /\ keeps]
               s == [r EXCEPT !.stopped = FALSE]
    <2>4. run' = s /\ owed' \subseteq owed
      BY <2>1 DEF T!Restarts
    <2>5. r \in TicketRuns /\ r.id = run.id /\ r.place = to
      BY <2>3 DEF RunInv, TicketRuns, T!Places
    <2> HIDE DEF r
    <2>6. s \in TicketRuns /\ s.id = run.id /\ s.place = to
      BY <2>5 DEF TicketRuns
    <2> HIDE DEF s
    <2>7. QED
      BY <2>2, <2>3, <2>4, <2>6, RunMoves
  <1>14. CASE T!Cancel \/ T!CloseRun
    <2>1. T!EndsRun(FALSE) /\ run.place # "over" /\ at' = at /\ tree' = tree
      BY <1>14 DEF T!Cancel, T!CloseRun, T!At, T!clone, RunInv
    <2>2. at = "idle"
      BY <1>14 DEF T!Cancel, T!CloseRun, T!At, RunInv
    <2>3. QED
      BY <2>1, <2>2, RunEnds DEF RunInv
  <1>15. CASE \/ T!LabelReady \/ T!CloseIssue \/ T!MergePull \/ T!ClosePull \/ T!Review
              \/ T!SomeonePushes \/ T!BlockerMerges
    BY <1>1, <1>15 DEF T!LabelReady, T!CloseIssue, T!MergePull, T!ClosePull, T!Review, T!SomeonePushes,
         T!BlockerMerges, T!hub, T!clone
  <1>16. QED
    BY <1>1, <1>2, <1>3, <1>4, <1>5, <1>6, <1>7, <1>8, <1>9, <1>10, <1>11, <1>12, <1>13, <1>14, <1>15
       DEF T!Next, ticketVars

LEMMA RefsAre == T!Refs = {"local", "tracking", "origin"}
  BY DEF T!Refs

\* The branch a missing worktree is cut again from.
LEMMA RecutIs ==
  ASSUME CloneInv
  PROVE  /\ T!Recut \in [T!Refs -> SUBSET Nat]
         /\ T!Recut["tracking"] = has["tracking"] /\ T!Recut["origin"] = has["origin"]
         /\ has["local"] \subseteq T!Recut["local"]
         /\ T!Recut["local"] \subseteq has["local"] \cup has["tracking"]
  BY RefsAre DEF CloneInv, T!Recut

LEMMA CloneStays ==
  ASSUME CloneInv, UNCHANGED <<refs, has, own, landed, missed, made, tree>>, at' = "rebasing" => at = at'
  PROVE  CloneInv' /\ T!WorkStays
  BY DEF CloneInv, T!WorkStays

LEMMA PrepareKeeps ==
  ASSUME RunInv, CloneInv, T!Prepare
  PROVE  CloneInv' /\ T!WorkStays
  <1>1. /\ refs' = T!Fetched(refs) \cup {"local"} /\ at' = at /\ at = "idle"
        /\ tree' = [owner |-> run.id, dirty |-> FALSE] /\ run.id >= 1
        /\ missed' = {} /\ UNCHANGED <<own, made, landed>>
        /\ has' = [has EXCEPT !["local"] = {}, !["tracking"] = has["origin"]]
    BY DEF T!Prepare, T!Working, T!At, T!Idle, T!github, RunInv
  <1>2. /\ has' \in [T!Refs -> SUBSET Nat] /\ has'["local"] = {}
        /\ has'["tracking"] = has["origin"] /\ has'["origin"] = has["origin"]
    BY <1>1, RefsAre DEF CloneInv
  <1>3. refs' \in SUBSET T!Refs /\ "local" \in refs'
    BY <1>1, RefsAre DEF CloneInv, T!Fetched
  <1>4. tree'.owner # 0
    BY <1>1 DEF RunInv, TicketRuns
  <1>5. QED
    <2>1. CloneInv'
      BY <1>1, <1>2, <1>3, <1>4, RefsAre DEF CloneInv
    <2>2. T!WorkStays
      BY DEF T!WorkStays, T!HasNoWork, T!Prepare, T!Working, T!At
    <2>3. QED
      BY <2>1, <2>2

LEMMA OtherPreparesKeeps ==
  ASSUME RunInv, CloneInv, T!OtherPrepares
  PROVE  CloneInv' /\ T!WorkStays
  <1> DEFINE swept == /\ tree.owner # 0 /\ T!RunOver /\ ~tree.dirty
                      /\ has["local"] \subseteq has["origin"] \cup landed
  <1>1. /\ refs' = T!Fetched(refs) \ (IF swept THEN {"local"} ELSE {})
        /\ has' = [has EXCEPT !["tracking"] = has["origin"], !["local"] = IF swept THEN {} ELSE @]
        /\ tree' = IF swept THEN [owner |-> 0, dirty |-> FALSE] ELSE tree
        /\ missed' = {} /\ at = "idle" /\ at' = at
        /\ UNCHANGED <<own, made, landed>>
    BY DEF T!OtherPrepares, T!Idle, T!github, T!NoRun
  <1>2. /\ has' \in [T!Refs -> SUBSET Nat]
        /\ has'["local"] = IF swept THEN {} ELSE has["local"]
        /\ has'["tracking"] = has["origin"] /\ has'["origin"] = has["origin"]
    BY <1>1, RefsAre DEF CloneInv
  <1>3. refs' \in SUBSET T!Refs /\ ("local" \notin refs' => swept \/ "local" \notin refs)
    BY <1>1, RefsAre DEF CloneInv, T!Fetched
  <1>4. swept => has["local"] \subseteq has'["origin"] \cup landed' /\ ~tree.dirty
    BY <1>1, <1>2
  <1>5. swept => tree'.owner = 0 /\ ~tree'.dirty
    BY <1>1
  <1>6. ~swept => tree' = tree
    BY <1>1
  <1> HIDE DEF swept
  <1>7. CloneInv'
    BY <1>1, <1>2, <1>3, <1>5, <1>6 DEF CloneInv
  <1>8. T!WorkStays
    BY <1>2, <1>4, <1>6 DEF T!WorkStays
  <1>9. QED
    BY <1>7, <1>8

LEMMA CodeKeeps ==
  ASSUME RunInv, CloneInv, T!CodeCommits \/ T!CodeNoChange \/ T!CodeLeavesWork
  PROVE  CloneInv' /\ T!WorkStays
  <1>1. /\ refs' = refs \cup {"local"} /\ at = "idle" /\ at' = at /\ run.place = "code"
        /\ UNCHANGED <<own, landed, missed>>
    BY DEF T!CodeCommits, T!CodeNoChange, T!CodeLeavesWork, T!Working, T!At, T!Idle, T!github
  <1>2. run.id \in Nat /\ run.id >= 1 /\ tree.owner \in Nat
    BY <1>1 DEF RunInv, TicketRuns
  <1>3. T!TreeOf(run.id) # 0
    BY <1>2 DEF T!TreeOf, T!NoRun
  <1>4. /\ tree'.owner # 0
        /\ tree'.dirty \/ ~tree.dirty \/ T!CodeCommits
    <2>1. PICK dirty \in BOOLEAN : /\ tree' = [owner |-> T!TreeOf(run.id), dirty |-> dirty]
                                   /\ dirty \/ ~tree.dirty \/ T!CodeCommits
      BY DEF T!CodeCommits, T!CodeNoChange, T!CodeLeavesWork
    <2>2. QED
      BY <1>3, <2>1
  <1>5. PICK new :
          /\ has' = [T!Recut EXCEPT !["local"] = @ \cup new]
          /\ \/ new = {} /\ made' = made /\ (T!CodeCommits => ~tree.dirty)
             \/ new = {made + 1} /\ made' = made + 1
    <2>1. CASE T!CodeCommits
      <3>1. PICK new \in {{}} \cup (IF made < MaxCommits THEN {{made + 1}} ELSE {}) :
              /\ has' = [T!Recut EXCEPT !["local"] = @ \cup new]
              /\ made' = made + Cardinality(new)
              /\ tree.dirty => new # {}
        BY <2>1, TicketCardinality DEF T!CodeCommits, T!Implemented
      <3>2. CASE new = {}
        <4>1. Cardinality(new) = 0 /\ made \in Nat
          BY <3>2, FS_EmptySet DEF CloneInv
        <4>2. made' = made
          BY <3>1, <4>1
        <4>3. QED
          BY <3>1, <3>2, <4>2
      <3>3. CASE new = {made + 1}
        <4>1. Cardinality(new) = 1
          BY <3>3, FS_Singleton
        <4>2. made' = made + 1
          BY <3>1, <4>1
        <4>3. QED
          BY <3>1, <3>3, <4>2
      <3>4. QED
        BY <3>1, <3>2, <3>3
    <2>2. CASE T!CodeNoChange \/ T!CodeLeavesWork
      <3>1. has' = T!Recut /\ made' = made
        BY <2>2 DEF T!CodeNoChange, T!CodeLeavesWork
      <3>2. T!Recut = [T!Recut EXCEPT !["local"] = @ \cup {}]
        BY RecutIs, RefsAre
      <3>3. CASE ~T!CodeCommits
        BY <3>1, <3>2, <3>3
      <3>4. QED
        BY <2>1, <3>3
    <2>3. QED
      BY <2>1, <2>2
  <1>6. made \in Nat
    BY DEF CloneInv
  <1>7. /\ has' \in [T!Refs -> SUBSET Nat] /\ has'["local"] = T!Recut["local"] \cup new
        /\ has'["tracking"] = has["tracking"] /\ has'["origin"] = has["origin"]
    <2>1. new \in SUBSET Nat
      BY <1>5, <1>6
    <2>2. QED
      BY <1>5, <2>1, RecutIs, RefsAre
  <1>8. has["local"] \subseteq has'["local"] /\ has'["local"] \subseteq has["local"] \cup has["tracking"] \cup new
    BY <1>7, RecutIs
  <1>9. made' \in Nat /\ made' >= made /\ (new # {} => made' = made + 1)
    BY <1>5, <1>6
  <1>10. missed \cap new = {}
    <2>1. \A c \in missed : c \in Nat /\ c <= made
      BY DEF CloneInv
    <2>2. QED
      BY <1>5, <1>6, <2>1
  <1>11. \A c \in has'["local"] \cup has'["tracking"] \cup has'["origin"] \cup own' \cup landed' \cup missed' : c <= made'
    <2>1. \A c \in has["local"] \cup has["tracking"] \cup has["origin"] \cup own \cup landed \cup missed : c \in Nat /\ c <= made
      BY RefsAre DEF CloneInv
    <2>2. \A c \in has'["local"] \cup has'["tracking"] \cup has'["origin"] \cup own' \cup landed' \cup missed' :
             \/ c \in has["local"] \cup has["tracking"] \cup has["origin"] \cup own \cup landed \cup missed
             \/ c \in new
      BY <1>1, <1>7, <1>8
    <2>3. \A c \in new : c = made + 1 /\ made' = made + 1
      BY <1>5
    <2>4. SUFFICES ASSUME NEW c \in has'["local"] \cup has'["tracking"] \cup has'["origin"] \cup own' \cup landed' \cup missed'
                   PROVE  c <= made'
      OBVIOUS
    <2>5. CASE c \in new
      BY <1>6, <2>3, <2>5
    <2>6. CASE c \notin new
      <3>1. c \in Nat /\ c <= made
        BY <2>1, <2>2, <2>6
      <3>2. QED
        BY <1>6, <1>9, <3>1
    <2>7. QED
      BY <2>5, <2>6
  <1>12. missed' \cap (has'["local"] \cup has'["tracking"] \cup own') = {}
    BY <1>1, <1>7, <1>8, <1>10 DEF CloneInv
  <1>13. CloneInv'
    BY <1>1, <1>4, <1>7, <1>9, <1>11, <1>12, RefsAre DEF CloneInv
  <1>14. tree.dirty => tree'.dirty \/ made' > made
    BY <1>4, <1>5, <1>6
  <1>15. QED
    BY <1>8, <1>13, <1>14 DEF T!WorkStays

LEMMA LandBaseKeeps ==
  ASSUME RunInv, CloneInv, T!LandBase
  PROVE  CloneInv' /\ T!WorkStays
  <1>1. /\ at' = "rebasing" /\ own' = T!Recut["local"] /\ has' = [has EXCEPT !["local"] = {}]
        /\ refs' = refs \cup {"local"} /\ tree' = [owner |-> T!TreeOf(run.id), dirty |-> FALSE]
        /\ run.place = "publish" /\ UNCHANGED <<landed, missed, made>>
    BY DEF T!LandBase, T!Working, T!At, T!github
  <1>2. tree'.owner # 0
    <2>1. run.id \in Nat /\ run.id >= 1 /\ tree.owner \in Nat
      BY <1>1 DEF RunInv, TicketRuns
    <2>2. T!TreeOf(run.id) # 0
      BY <2>1 DEF T!TreeOf, T!NoRun
    <2>3. QED
      BY <1>1, <2>2
  <1>3. /\ has' \in [T!Refs -> SUBSET Nat] /\ has'["local"] = {}
        /\ has'["tracking"] = has["tracking"] /\ has'["origin"] = has["origin"]
    BY <1>1, RefsAre DEF CloneInv
  <1>4. own' \in SUBSET Nat /\ own' \subseteq has["local"] \cup has["tracking"]
    BY <1>1, RecutIs, RefsAre
  <1>5. QED
    BY <1>1, <1>2, <1>3, <1>4, RefsAre DEF CloneInv, T!WorkStays

LEMMA CherryPickKeeps ==
  ASSUME RunInv, CloneInv, T!CherryPick
  PROVE  CloneInv' /\ T!WorkStays
  <1>1. PICK picked \in SUBSET own : has' = [has EXCEPT !["local"] = picked]
    BY DEF T!CherryPick
  <1>2. /\ at = "rebasing" /\ at' \in {"based", "idle"} /\ own' = {}
        /\ UNCHANGED <<tree, refs, landed, missed, made>>
    BY DEF T!CherryPick, T!github
  <1>3. /\ has' \in [T!Refs -> SUBSET Nat] /\ has'["local"] = picked
        /\ has'["tracking"] = has["tracking"] /\ has'["origin"] = has["origin"]
    BY <1>1, RefsAre DEF CloneInv
  <1>4. QED
    BY <1>2, <1>3 DEF CloneInv, T!WorkStays

\* A push that may be refused: the clone saw all that origin has, or origin has no such branch.
LEMMA PushKeeps ==
  ASSUME RunInv, CloneInv, (T!Pushable /\ T!Push) \/ UNCHANGED <<refs, has>>,
         at' = "rebasing" => at = at', UNCHANGED <<tree, own, landed, missed, made>>
  PROVE  CloneInv' /\ T!WorkStays
  <1>1. CASE UNCHANGED <<refs, has>>
    BY <1>1, CloneStays
  <1>2. CASE T!Pushable /\ T!Push
    <2>1. /\ has' \in [T!Refs -> SUBSET Nat] /\ has'["local"] = has["local"]
          /\ has'["tracking"] = has["local"] /\ has'["origin"] = has["local"]
      BY <1>2, RefsAre DEF T!Push, CloneInv
    <2>2. missed \subseteq landed
      BY <1>2 DEF T!Pushable, T!Lease, CloneInv
    <2>3. refs' = refs \cup {"tracking", "origin"}
      BY <1>2 DEF T!Push
    <2>4. QED
      BY <2>1, <2>2, <2>3, RefsAre DEF CloneInv, T!WorkStays
  <1>3. QED
    BY <1>1, <1>2

\* A run that ended takes the branch with it that its own worktree holds, or none.
LEMMA ReportEndedKeeps ==
  ASSUME RunInv, CloneInv, NEW call \in owed, T!ReportEnded(call)
  PROVE  CloneInv' /\ T!WorkStays
  <1>1. at = "idle" /\ at' = at /\ UNCHANGED <<run, own, landed, missed, made>> /\ call.kind = "ended"
    BY DEF T!ReportEnded, T!CallDue, T!Idle
  <1>2. CASE UNCHANGED <<refs, has, tree>>
    BY <1>1, <1>2, CloneStays
  <1>3. CASE /\ tree.owner = 0 \/ tree.owner = call.run
             /\ refs' = refs \ {"local"} /\ has' = [has EXCEPT !["local"] = {}]
             /\ tree' = [owner |-> 0, dirty |-> FALSE]
    <2>1. /\ has' \in [T!Refs -> SUBSET Nat] /\ has'["local"] = {}
          /\ has'["tracking"] = has["tracking"] /\ has'["origin"] = has["origin"]
      BY <1>3, RefsAre DEF CloneInv
    <2>2. tree'.owner = 0 /\ ~tree'.dirty
      BY <1>3
    <2>3. CloneInv'
      BY <1>1, <1>3, <2>1, <2>2 DEF CloneInv
    <2>4. run.place \in {"over", "prepare"} \/ tree.owner = 0
      BY <1>1, <1>3 DEF RunInv
    <2>5. T!WorkStays
      BY <2>4 DEF T!WorkStays, T!HasNoWork, CloneInv
    <2>6. QED
      BY <2>3, <2>5
  <1>4. QED
    BY <1>2, <1>3 DEF T!ReportEnded, T!OwnedBy, T!NoRun

LEMMA MergePullKeeps ==
  ASSUME RunInv, CloneInv, T!MergePull
  PROVE  CloneInv' /\ T!WorkStays
  <1>1. at' = at /\ UNCHANGED <<tree, own, made>> /\ landed' \in {landed, landed \cup has["origin"]}
    BY DEF T!MergePull
  <1>2. landed \subseteq landed' /\ landed' \subseteq landed \cup has["origin"] /\ landed' \in SUBSET Nat
    BY <1>1, RefsAre DEF CloneInv
  <1>3. CASE UNCHANGED <<refs, has, missed>>
    BY <1>1, <1>2, <1>3 DEF CloneInv, T!WorkStays
  <1>4. CASE refs' = refs \ {"origin"} /\ has' = [has EXCEPT !["origin"] = {}] /\ missed' = {}
    <2>1. /\ has' \in [T!Refs -> SUBSET Nat] /\ has'["local"] = has["local"]
          /\ has'["tracking"] = has["tracking"] /\ has'["origin"] = {}
      BY <1>4, RefsAre DEF CloneInv
    <2>2. QED
      BY <1>1, <1>2, <1>4, <2>1 DEF CloneInv, T!WorkStays
  <1>5. QED
    BY <1>3, <1>4 DEF T!MergePull

LEMMA SomeonePushesKeeps ==
  ASSUME RunInv, CloneInv, T!SomeonePushes
  PROVE  CloneInv' /\ T!WorkStays
  <1>1. /\ made' = made + 1 /\ has' = [has EXCEPT !["origin"] = @ \cup {made + 1}]
        /\ missed' = missed \cup {made + 1} /\ at' = at /\ "origin" \in refs
        /\ UNCHANGED <<tree, refs, own, landed>>
    BY DEF T!SomeonePushes, T!github
  <1>2. made \in Nat /\ made' \in Nat
    BY <1>1 DEF CloneInv
  <1>3. /\ has' \in [T!Refs -> SUBSET Nat] /\ has'["local"] = has["local"]
        /\ has'["tracking"] = has["tracking"] /\ has'["origin"] = has["origin"] \cup {made + 1}
    BY <1>1, <1>2, RefsAre DEF CloneInv
  <1>4. \A c \in has["local"] \cup has["tracking"] \cup has["origin"] \cup own \cup landed \cup missed :
           c \in Nat /\ c <= made
    BY RefsAre DEF CloneInv
  <1>5. made + 1 \notin has["local"] \cup has["tracking"] \cup own
    BY <1>2, <1>4
  <1>6. \A c \in has'["local"] \cup has'["tracking"] \cup has'["origin"] \cup own' \cup landed' \cup missed' : c <= made'
    <2>1. \A c \in has'["local"] \cup has'["tracking"] \cup has'["origin"] \cup own' \cup landed' \cup missed' :
             \/ c \in has["local"] \cup has["tracking"] \cup has["origin"] \cup own \cup landed \cup missed
             \/ c = made + 1
      BY <1>1, <1>3
    <2>2. QED
      BY <1>1, <1>2, <1>4, <2>1
  <1>7. CloneInv'
    BY <1>1, <1>2, <1>3, <1>5, <1>6 DEF CloneInv
  <1>8. T!WorkStays
    BY <1>1, <1>3 DEF T!WorkStays
  <1>9. QED
    BY <1>7, <1>8

LEMMA CloneStep == RunInv /\ CloneInv /\ [T!Next]_ticketVars => CloneInv' /\ T!WorkStays
  <1> SUFFICES ASSUME RunInv, CloneInv, [T!Next]_ticketVars PROVE CloneInv' /\ T!WorkStays
    OBVIOUS
  <1>1. CASE UNCHANGED <<refs, has, own, landed, missed, made, tree, at>>
    BY <1>1, CloneStays
  <1>2. CASE \/ T!ScanEligible \/ T!ScanRelabeled \/ T!StepFails \/ T!Wake \/ T!Assess
             \/ T!Retry \/ T!SendBack \/ T!Cancel \/ T!CloseRun
    BY <1>1, <1>2 DEF T!ScanEligible, T!ScanRelabeled, T!StepFails, T!Wake, T!Assess, T!Retry, T!SendBack,
       T!Cancel, T!CloseRun, T!clone, T!github
  <1>3. CASE T!LabelReady \/ T!CloseIssue \/ T!ClosePull \/ T!Review \/ T!BlockerMerges
    BY <1>1, <1>3 DEF T!LabelReady, T!CloseIssue, T!ClosePull, T!Review, T!BlockerMerges, T!clone, T!github
  <1>4. CASE T!OpenPull \/ T!Published \/ T!RepliesPosted
    <2>1. UNCHANGED <<refs, has, own, landed, missed, made, tree>> /\ at' # "rebasing"
      BY <1>4 DEF T!OpenPull, T!Published, T!RepliesPosted, T!clone
    <2>2. QED
      BY <2>1, CloneStays
  <1>5. CASE T!DieInPublish
    BY <1>5 DEF T!DieInPublish, T!github, CloneInv, T!WorkStays
  <1>6. CASE T!PushBranch
    BY <1>6, PushKeeps DEF T!PushBranch, T!github
  <1>7. CASE T!ReportNeedsHuman
    BY <1>7, PushKeeps DEF T!ReportNeedsHuman
  <1>8. QED
    BY <1>1, <1>2, <1>3, <1>4, <1>5, <1>6, <1>7, PrepareKeeps, OtherPreparesKeeps, CodeKeeps, LandBaseKeeps,
       CherryPickKeeps, ReportEndedKeeps, MergePullKeeps, SomeonePushesKeeps
       DEF T!Next, ticketVars

LEMMA TicketStart == T!Init => TicketIInv
  <1> SUFFICES ASSUME T!Init PROVE TicketIInv
    OBVIOUS
  <1>1. /\ run = [id |-> 0, place |-> "over", stopped |-> FALSE, base |-> "default",
                  branch |-> FALSE, pr |-> FALSE, feedback |-> FALSE, fixed |-> FALSE]
        /\ tree = [owner |-> 0, dirty |-> FALSE] /\ at = "idle" /\ owed = {}
    BY DEF T!Init, T!NoRun
  <1>2. RunInv
    BY <1>1 DEF RunInv, TicketRuns, TicketCalls, T!Places, T!Phases
  <1>3. /\ has \in [T!Refs -> SUBSET Nat] /\ has["local"] = {} /\ has["tracking"] = {} /\ has["origin"] = {}
        /\ refs = {} /\ own = {} /\ landed = {} /\ missed = {} /\ made = 0
    BY RefsAre DEF T!Init
  <1>4. CloneInv
    BY <1>1, <1>3 DEF CloneInv
  <1>5. QED
    BY <1>2, <1>4 DEF TicketIInv

\* A behaviour that is the ticket's keeps its invariant.
Ticketed == part = "ticket" => TicketIInv

LEMMA TicketKept == Ticketed /\ [Next]_vars => Ticketed' /\ (part = "ticket" => T!WorkStays)
  <1> SUFFICES ASSUME Ticketed, [Next]_vars, part = "ticket" \/ part' = "ticket"
               PROVE  TicketIInv' /\ T!WorkStays
    BY DEF Ticketed
  <1>1. part' = part /\ [T!Next]_ticketVars
    BY DEF Next, vars, Recap, Dreams, Picks, Ticket, Snapshots, Configuration, ticketVars
  <1>2. QED
    BY <1>1, RunStep, CloneStep DEF Ticketed, TicketIInv

(* A push never discards what someone else pushed to the agent branch since the clone last        *)
(* fetched, for every number of runs, commits, mishaps and acts (core/run_worktrees.py _push).    *)
THEOREM PushesAreKept == Spec => []PushesKept
  <1>1. Init => Ticketed
    BY TicketStart DEF Init, Ticketed
  <1>2. Ticketed => PushesKept
    BY DEF Ticketed, TicketIInv, CloneInv, PushesKept, T!PushesKept
  <1>3. QED
    BY <1>1, <1>2, TicketKept, PTL DEF Spec

(* The work of a run that is not over is never thrown away, whatever other runs, late calls of an  *)
(* earlier run or the sweep do (core/run_worktrees.py).                                            *)
THEOREM WorkIsKept == Spec => WorkKept
  <1>1. Init => Ticketed
    BY TicketStart DEF Init, Ticketed
  <1>2. Ticketed /\ [Next]_vars => [part = "ticket" => T!WorkStays]_ticketVars
    BY TicketKept
  <1>3. QED
    BY <1>1, <1>2, TicketKept, PTL DEF Spec, WorkKept

-----------------------------------------------------------------------------
(* Configuration.  An edit holds the lock of its kind from its checks on,  *)
(* unless its turn was interrupted.  A stretch of the event loop, or       *)
(* another edit, at what it edits leaves it not alone, and the name        *)
(* crossed, until an edit has it alone.                                    *)

Configs == [text : Nat, on : BOOLEAN]
EditPhases == {"idle", "waiting"} \cup C!Under
AllEdits == [op : {"none", "enable", "grant", "overwrite", "erase"} \cup C!Checked,
             n : C!Names \cup {Nobody}, to : C!Names \cup {Nobody},
             read : Configs, on : BOOLEAN, phase : EditPhases, alone : BOOLEAN]
Stretches == [n : C!Names \cup {Nobody}, read : Configs,
              phase : {"idle", "loaded", "read", "changed", "logged", "parked", "checked"}]

ConfigurationTypes ==
    /\ folder \in [C!Names -> Configs] /\ logged \in [C!Names -> Configs]
    /\ grant \in [Routines -> Configs] /\ lock \in [C!Kinds -> Editors \cup {Nobody}]
    /\ edit \in [Editors -> AllEdits] /\ off \in Stretches /\ answer \in Stretches
    /\ times \in [edits : Nat, texts : Nat, offs : Nat, answers : Nat, troubles : Nat]

\* What an edit is of: two names of one kind, of one name but for a rename.
EditOf(e) ==
    edit[e].phase # "idle" =>
        /\ edit[e].n \in C!Names /\ edit[e].to \in C!Names
        /\ C!Kind(edit[e].to) = C!Kind(edit[e].n)
        /\ edit[e].op \in {"grant", "enable", "rename"} => edit[e].n \in Routines
        /\ edit[e].op # "rename" => edit[e].to = edit[e].n

\* What lets an edit of a name no longer be alone: a stretch of the event loop, or another edit.
Busy(e, n) == C!OnLoop(n) \/ \E d \in Editors \ {e} : C!Edits(d, n)

\* An edit has its lock but for the agent's, and what it read is there, and what it recorded, or
\* something crossed it.
Undisturbed(e) ==
    /\ edit[e].phase \in C!Under => edit[e].op \in C!Interruptible \/ lock[C!Kind(edit[e].n)] = e
    /\ edit[e].phase = "checked" =>
          folder[edit[e].n] = edit[e].read \/ (~edit[e].alone /\ edit[e].n \in crossed)
    /\ edit[e].phase = "logged" =>
          \A n \in C!Of(e) : logged[n] = folder[n] \/ (~edit[e].alone /\ n \in crossed)

Crossing(e) == \A n \in C!Names : C!Edits(e, n) /\ Busy(e, n) => ~edit[e].alone /\ n \in crossed

\* One stretch at a time is on the loop, and the routine is as it read it, or crossed.
OnTheLoop ==
    /\ off.phase # "idle" => off.n \in Routines
    /\ answer.phase # "idle" => answer.n \in Routines
    /\ ~(C!OffStretch /\ answer.phase = "checked")
    /\ answer.phase = "checked" => folder[answer.n] = answer.read \/ answer.n \in crossed

ConfigurationIInv ==
    /\ ConfigurationTypes /\ OnTheLoop
    /\ \A e \in Editors : EditOf(e) /\ Undisturbed(e) /\ Crossing(e)
    /\ C!OffKeepsEdits /\ C!LoggedAsIs /\ C!GrantedAsIs

LEMMA NothingIs ==
  /\ C!Nothing \in Configs
  /\ C!NoJob \in AllEdits /\ C!NoJob.phase = "idle" /\ C!NoJob.alone
  /\ C!NoStretch \in Stretches /\ C!NoStretch.phase = "idle"
  BY DEF C!Nothing, Configs, C!NoJob, AllEdits, EditPhases, C!NoStretch, Stretches

LEMMA KindIs == ASSUME NEW n PROVE C!Kind(n) \in C!Kinds
  BY DEF C!Kind, C!Kinds

\* What an edit under way is of is a name of its kind.
LEMMA EditHolds ==
  ASSUME ConfigurationIInv, NEW e \in Editors, NEW n, C!Edits(e, n)
  PROVE  n \in C!Names /\ C!Kind(n) = C!Kind(edit[e].n) /\ edit[e].phase # "idle"
  <1>1. edit[e].phase \in C!Under /\ n \in {edit[e].n, edit[e].to} /\ edit[e].phase # "idle"
    BY DEF C!Edits, C!Of, C!Under, C!Changing
  <1>2. EditOf(e)
    BY DEF ConfigurationIInv
  <1>3. QED
    BY <1>1, <1>2 DEF EditOf

\* Two edits of a name under way: one was interrupted, and the other began beside it.
LEMMA BothCross ==
  ASSUME ConfigurationIInv, NEW e \in Editors, NEW d \in Editors, d # e, NEW n, C!Edits(e, n), C!Edits(d, n)
  PROVE  ~edit[d].alone /\ n \in crossed
  <1>1. n \in C!Names /\ Busy(d, n) /\ Crossing(d)
    BY EditHolds DEF Busy, ConfigurationIInv
  <1>2. QED
    BY <1>1 DEF Crossing

\* An edit goes on: it writes and records what it is of alone.
LEMMA EditMoves ==
  ASSUME ConfigurationIInv, NEW e \in Editors, NEW p \in C!Changing, edit[e].phase \in C!Under,
         edit' = [edit EXCEPT ![e].phase = p], UNCHANGED <<lock, grant, off, answer, crossed, torn>>,
         folder' \in [C!Names -> Configs], logged' \in [C!Names -> Configs],
         times' \in [edits : Nat, texts : Nat, offs : Nat, answers : Nat, troubles : Nat],
         \A n \in C!Names \ C!Of(e) : folder'[n] = folder[n] /\ logged'[n] = logged[n],
         p = "logged" => \A n \in C!Of(e) : logged'[n] = folder'[n]
  PROVE  ConfigurationIInv'
  <1> USE DEF ConfigurationIInv
  <1>1. /\ edit'[e] = [edit[e] EXCEPT !.phase = p] /\ edit[e] \in AllEdits
        /\ \A d \in Editors : d # e => edit'[d] = edit[d]
        /\ p \in C!Under /\ p # "checked" /\ p # "idle"
    BY DEF ConfigurationTypes, C!Under, C!Changing
  <1>2. ConfigurationTypes'
    BY <1>1 DEF ConfigurationTypes, AllEdits, EditPhases
  <1>3. \A d \in Editors : /\ edit'[d].n = edit[d].n /\ edit'[d].to = edit[d].to /\ edit'[d].op = edit[d].op
                           /\ edit'[d].read = edit[d].read /\ edit'[d].alone = edit[d].alone
                           /\ edit'[d].phase = IF d = e THEN p ELSE edit[d].phase
    BY <1>1 DEF AllEdits
  <1>4. \A d \in Editors : \A n : C!Edits(d, n)' <=> C!Edits(d, n)
    BY <1>1, <1>3 DEF C!Edits, C!Of
  <1>5. \A n : (C!OnLoop(n)' <=> C!OnLoop(n)) /\ (C!OffStretch' <=> C!OffStretch)
    BY DEF C!OnLoop, C!OffStretch
  <1>6. \A n \in C!Of(e) : C!Edits(e, n) /\ n \in C!Names
    BY EditHolds DEF C!Edits
  <1>7. ASSUME NEW d \in Editors, d # e, NEW n, C!Edits(d, n)
        PROVE  (folder'[n] = folder[n] /\ logged'[n] = logged[n]) \/ (~edit[d].alone /\ n \in crossed)
    <2>1. n \in C!Names /\ (n \in C!Of(e) => C!Edits(e, n))
      BY <1>6, <1>7, EditHolds
    <2>2. QED
      BY <1>7, <2>1, BothCross
  <1>8. ASSUME NEW d \in Editors PROVE EditOf(d)' /\ Undisturbed(d)' /\ Crossing(d)'
    <2>1. EditOf(d)'
      <3>1. edit'[d].phase # "idle" => edit[d].phase # "idle"
        BY <1>3 DEF C!Under, C!Changing
      <3>2. QED
        BY <1>3, <3>1 DEF EditOf, C!Kind, C!Names
    <2>2. Crossing(d)'
      <3>1. \A n : Busy(d, n)' <=> Busy(d, n)
        BY <1>4, <1>5 DEF Busy
      <3>2. QED
        BY <1>3, <1>4, <3>1 DEF Crossing, C!Names
    <2>3. CASE d = e
      <3>1. /\ Undisturbed(e) /\ C!Of(e)' = C!Of(e)
            /\ edit'[e].op \in C!Interruptible \/ lock'[C!Kind(edit'[e].n)] = e
        BY <1>3 DEF Undisturbed, C!Of
      <3>2. QED
        BY <1>1, <1>3, <2>1, <2>2, <2>3, <3>1 DEF Undisturbed, C!Kind
    <2>4. CASE d # e
      <3>1. edit'[d] = edit[d] /\ C!Of(d)' = C!Of(d) /\ Undisturbed(d)
        BY <1>1, <2>4 DEF C!Of
      <3>2. edit[d].phase \in C!Under => \A n \in C!Of(d) :
               (folder'[n] = folder[n] /\ logged'[n] = logged[n]) \/ (~edit[d].alone /\ n \in crossed')
        BY <1>7, <2>4 DEF C!Edits
      <3>3. "checked" \in C!Under /\ "logged" \in C!Under /\ edit[d].n \in C!Of(d)
        BY DEF C!Under, C!Changing, C!Of
      <3>4. edit[d].phase \in C!Under => edit[d].op \in C!Interruptible \/ lock'[C!Kind(edit[d].n)] = d
        BY <3>1 DEF Undisturbed
      <3>5. edit[d].phase = "checked" =>
               folder'[edit[d].n] = edit[d].read \/ (~edit[d].alone /\ edit[d].n \in crossed')
        BY <3>1, <3>2, <3>3 DEF Undisturbed
      <3>6. edit[d].phase = "logged" =>
               \A n \in C!Of(d) : logged'[n] = folder'[n] \/ (~edit[d].alone /\ n \in crossed')
        BY <3>1, <3>2, <3>3 DEF Undisturbed
      <3>7. QED
        BY <2>1, <2>2, <3>1, <3>4, <3>5, <3>6 DEF Undisturbed, C!Kind
    <2>5. QED
      BY <2>3, <2>4
  <1>9. \A n \in C!Names : C!OnLoop(n) /\ folder'[n] # folder[n] => n \in crossed
    BY <1>6 DEF Crossing, Busy
  <1>10. OnTheLoop' /\ C!OffKeepsEdits'
    <2>1. answer.phase = "checked" => C!OnLoop(answer.n) /\ answer.n \in C!Names
      BY DEF OnTheLoop, C!OnLoop, C!Names
    <2>2. off.phase = "read" => C!OnLoop(off.n) /\ off.n \in C!Names
      BY DEF OnTheLoop, C!OnLoop, C!OffStretch, C!Names
    <2>3. QED
      BY <1>5, <1>9, <2>1, <2>2 DEF OnTheLoop, C!OffKeepsEdits
  <1>11. C!Whole' = C!Whole /\ C!Whole \subseteq C!Names
    BY DEF C!Whole, C!Names
  <1>12. \A d \in Editors : \A n : C!Changes(d, n) => C!Changes(d, n)' /\ (edit'[d].phase # "logged" \/ d = e \/ edit[d].phase = "logged")
    BY <1>1, <1>3 DEF C!Changes, C!Of
  <1>13. C!LoggedAsIs'
    <2> SUFFICES ASSUME NEW n \in C!Whole
                 PROVE  \/ logged'[n] = folder'[n] \/ (off.n = n /\ off.phase = "changed")
                        \/ \E d \in Editors : C!Changes(d, n)' /\ edit'[d].phase # "logged"
      BY <1>11 DEF C!LoggedAsIs
    <2>1. CASE n \in C!Of(e)
      <3>1. C!Changes(e, n)'
        BY <1>1, <1>3, <2>1 DEF C!Changes, C!Of
      <3>2. QED
        BY <1>3, <2>1, <3>1
    <2>2. CASE n \notin C!Of(e)
      <3>1. ASSUME NEW d \in Editors, C!Changes(d, n), edit[d].phase # "logged"
            PROVE  C!Changes(d, n)' /\ edit'[d].phase # "logged"
        <4>1. d # e
          BY <2>2, <3>1 DEF C!Changes
        <4>2. QED
          BY <1>12, <3>1, <4>1
      <3>2. folder'[n] = folder[n] /\ logged'[n] = logged[n]
        BY <1>11, <2>2
      <3>3. QED
        BY <3>1, <3>2 DEF C!LoggedAsIs
    <2>3. QED
      BY <2>1, <2>2
  <1>14. C!GrantedAsIs'
    <2> SUFFICES ASSUME NEW n \in Routines \cap C!Whole
                 PROVE  \/ grant[n] \in {C!Nothing, folder'[n]} \/ (off.n = n /\ off.phase \in {"changed", "logged"})
                        \/ \E d \in Editors : C!Changes(d, n)'
      BY <1>11 DEF C!GrantedAsIs, C!Nothing
    <2>1. CASE n \in C!Of(e)
      BY <1>1, <1>3, <2>1 DEF C!Changes, C!Of
    <2>2. CASE n \notin C!Of(e)
      BY <1>11, <1>12, <2>2 DEF C!GrantedAsIs
    <2>3. QED
      BY <2>1, <2>2
  <1>15. QED
    BY <1>2, <1>8, <1>10, <1>13, <1>14

LEMMA TimesCount ==
  ASSUME ConfigurationTypes, NEW what \in {"edits", "texts", "offs", "answers", "troubles"}, C!Uses(what)
  PROVE  times' \in [edits : Nat, texts : Nat, offs : Nat, answers : Nat, troubles : Nat]
  BY DEF ConfigurationTypes, C!Uses

\* An edit that does not hold its lock is asked, or is refused.
LEMMA EditWaits ==
  ASSUME ConfigurationIInv, NEW e \in Editors, NEW j \in AllEdits, edit[e].phase \notin C!Under,
         j.phase \notin C!Under, edit' = [edit EXCEPT ![e] = j], EditOf(e)',
         UNCHANGED <<folder, logged, grant, lock, off, answer, crossed, torn>>,
         times' \in [edits : Nat, texts : Nat, offs : Nat, answers : Nat, troubles : Nat]
  PROVE  ConfigurationIInv'
  <1> USE DEF ConfigurationIInv
  <1>1. edit'[e] = j /\ \A d \in Editors : d # e => edit'[d] = edit[d]
    BY DEF ConfigurationTypes
  <1>2. ConfigurationTypes'
    BY DEF ConfigurationTypes
  <1>3. \A d \in Editors : \A n : /\ C!Edits(d, n)' <=> C!Edits(d, n)
                                  /\ C!Changes(d, n)' <=> C!Changes(d, n)
    BY <1>1 DEF C!Edits, C!Changes, C!Of, C!Under
  <1>4. \A n : C!OnLoop(n)' <=> C!OnLoop(n)
    BY DEF C!OnLoop, C!OffStretch
  <1>5. ASSUME NEW d \in Editors PROVE EditOf(d)' /\ Undisturbed(d)' /\ Crossing(d)'
    <2>1. CASE d = e
      <3>1. edit'[d].phase \notin {"checked", "logged"}
        BY <1>1, <2>1 DEF C!Under, C!Changing
      <3>2. Undisturbed(d)'
        BY <1>1, <2>1, <3>1 DEF Undisturbed
      <3>3. Crossing(d)'
        BY <1>1, <2>1 DEF Crossing, C!Edits
      <3>4. QED
        BY <2>1, <3>2, <3>3
    <2>2. CASE d # e
      <3>1. edit'[d] = edit[d] /\ C!Of(d)' = C!Of(d)
        BY <1>1, <2>2 DEF C!Of
      <3>2. EditOf(d)' /\ Undisturbed(d)'
        BY <3>1 DEF EditOf, Undisturbed, C!Kind
      <3>3. Crossing(d)'
        BY <1>3, <1>4, <3>1 DEF Crossing, Busy, C!Names
      <3>4. QED
        BY <3>2, <3>3
    <2>3. QED
      BY <2>1, <2>2
  <1>6. OnTheLoop' /\ C!OffKeepsEdits'
    BY DEF OnTheLoop, C!OffKeepsEdits, C!OffStretch
  <1>7. \A d \in Editors : \A n : C!Changes(d, n) /\ edit[d].phase # "logged" => edit'[d].phase # "logged"
    BY <1>1 DEF C!Changes, C!Under
  <1>8. C!LoggedAsIs' /\ C!GrantedAsIs'
    BY <1>3, <1>7 DEF C!LoggedAsIs, C!GrantedAsIs, C!Whole, C!Names, C!Nothing
  <1>9. QED
    BY <1>2, <1>5, <1>6, <1>8

LEMMA AskKeeps ==
  ASSUME ConfigurationIInv, NEW e \in Editors, NEW n \in C!Names, NEW op \in C!Ops(n), C!Ask(e, n, op)
  PROVE  ConfigurationIInv'
  <1>1. op \in {"enable", "grant", "overwrite", "erase"} \cup C!Checked
        /\ (op \in {"grant", "enable", "rename"} => n \in Routines)
    BY DEF C!Ops, C!Checked
  <1>2. PICK to \in IF op = "rename" THEN Routines \ {n} ELSE {n}, on \in BOOLEAN :
           edit' = [edit EXCEPT ![e] = [op |-> op, n |-> n, to |-> to, read |-> folder[n], on |-> on,
                                        phase |-> "waiting", alone |-> TRUE]]
    BY DEF C!Ask
  <1> DEFINE j == [op |-> op, n |-> n, to |-> to, read |-> folder[n], on |-> on,
                   phase |-> "waiting", alone |-> TRUE]
  <1>3. to \in C!Names /\ C!Kind(to) = C!Kind(n) /\ (op # "rename" => to = n)
    BY <1>1, <1>2 DEF C!Names, C!Kind
  <1>4. folder[n] \in Configs
    BY DEF ConfigurationIInv, ConfigurationTypes
  <1>5. j \in AllEdits /\ j.phase = "waiting" /\ j.n = n /\ j.to = to /\ j.op = op
    BY <1>1, <1>3, <1>4 DEF AllEdits, EditPhases
  <1> HIDE DEF j
  <1>6. edit[e].phase \notin C!Under /\ edit'[e] = j
    BY <1>2, NothingIs DEF C!Ask, ConfigurationIInv, ConfigurationTypes, C!Under, C!Changing, j
  <1>7. EditOf(e)'
    BY <1>1, <1>3, <1>5, <1>6 DEF EditOf, C!Kind, C!Names
  <1>8. times' \in [edits : Nat, texts : Nat, offs : Nat, answers : Nat, troubles : Nat]
    BY TimesCount DEF C!Ask, ConfigurationIInv
  <1>9. j.phase \notin C!Under /\ edit' = [edit EXCEPT ![e] = j]
    BY <1>2, <1>5 DEF C!Under, C!Changing, j
  <1>10. UNCHANGED <<folder, logged, grant, lock, off, answer, crossed, torn>>
    BY DEF C!Ask
  <1>11. QED
    BY <1>5, <1>6, <1>7, <1>8, <1>9, <1>10, EditWaits

LEMMA RefuseKeeps == ASSUME ConfigurationIInv, NEW e \in Editors, C!Refuse(e) PROVE ConfigurationIInv'
  <1>1. edit' = [edit EXCEPT ![e] = C!NoJob] /\ edit[e].phase = "waiting" /\ edit'[e] = C!NoJob
    BY DEF C!Refuse, ConfigurationIInv, ConfigurationTypes
  <1>2. UNCHANGED <<folder, logged, grant, lock, off, answer, crossed, torn, times>>
    BY DEF C!Refuse, C!EditsOnly
  <1>3. EditOf(e)' /\ edit[e].phase \notin C!Under /\ C!NoJob.phase \notin C!Under
    BY <1>1, NothingIs DEF EditOf, C!Under, C!Changing
  <1>4. times' \in [edits : Nat, texts : Nat, offs : Nat, answers : Nat, troubles : Nat]
    BY <1>2 DEF ConfigurationIInv, ConfigurationTypes
  <1>5. QED
    BY <1>1, <1>2, <1>3, <1>4, NothingIs, EditWaits

\* The checks under the lock: who else edits what it is of was interrupted, and crosses it.
LEMMA BeginKeeps == ASSUME ConfigurationIInv, NEW e \in Editors, C!Begin(e) PROVE ConfigurationIInv'
  <1> USE DEF ConfigurationIInv
  <1> DEFINE crosses == {n \in C!Of(e) : C!OnLoop(n) \/ \E d \in Editors \ {e} : C!Edits(d, n)}
             read == IF edit[e].op \in C!Checked THEN edit[e].read ELSE folder[edit[e].n]
             lone == crosses = {}
             left(d) == edit[d].alone /\ \A n \in C!Of(e) : ~C!Edits(d, n)
             j == edit'[e]
  <1>1. /\ edit[e].phase = "waiting" /\ lock[C!Kind(edit[e].n)] = Nobody
        /\ edit[e].op \in C!Checked => folder[edit[e].n] = edit[e].read
        /\ lock' = [lock EXCEPT ![C!Kind(edit[e].n)] = e] /\ crossed' = crossed \cup crosses
        /\ UNCHANGED <<folder, logged, grant, off, answer, torn, times>>
    BY DEF C!Begin, C!Unchanged, C!EditsOnly
  <1>2. edit[e] \in AllEdits /\ edit[e].n \in C!Names /\ EditOf(e) /\ folder[edit[e].n] \in Configs
    BY <1>1 DEF ConfigurationTypes, EditOf
  <1>3. edit' = [d \in Editors |->
           IF d = e THEN [edit[e] EXCEPT !.phase = "checked", !.read = read, !.alone = lone]
           ELSE [edit[d] EXCEPT !.alone = left(d)]]
    BY DEF C!Begin
  <1>4. read = folder[edit[e].n] /\ read \in Configs /\ lone \in BOOLEAN /\ \A d \in Editors : left(d) \in BOOLEAN
    BY <1>1, <1>2
  <1>5. \A n \in C!Of(e) : Busy(e, n) => ~lone /\ n \in crossed'
    BY <1>1 DEF Busy
  <1>6. \A d \in Editors : left(d) => edit[d].alone /\ \A n \in C!Of(e) : ~C!Edits(d, n)
    OBVIOUS
  <1> HIDE DEF read, lone, left
  <1>7. /\ j \in AllEdits /\ j.n = edit[e].n /\ j.to = edit[e].to /\ j.op = edit[e].op /\ j.phase = "checked"
        /\ j.alone = lone /\ j.read = read
    <2>1. j = [edit[e] EXCEPT !.phase = "checked", !.read = read, !.alone = lone]
      BY <1>3
    <2>2. QED
      BY <1>2, <1>4, <2>1 DEF AllEdits, EditPhases, C!Under
  <1>8. ASSUME NEW d \in Editors, d # e
        PROVE  /\ edit'[d] \in AllEdits /\ edit'[d].n = edit[d].n /\ edit'[d].to = edit[d].to
               /\ edit'[d].op = edit[d].op /\ edit'[d].read = edit[d].read /\ edit'[d].phase = edit[d].phase
               /\ edit'[d].alone = left(d)
    <2>1. edit'[d] = [edit[d] EXCEPT !.alone = left(d)] /\ edit[d] \in AllEdits /\ left(d) \in BOOLEAN
      BY <1>3, <1>4, <1>8 DEF ConfigurationTypes
    <2>2. QED
      BY <2>1 DEF AllEdits
  <1>9. ConfigurationTypes'
    <2>1. edit' \in [Editors -> AllEdits]
      BY <1>3, <1>7, <1>8 DEF ConfigurationTypes
    <2>2. QED
      BY <1>1, <2>1, KindIs DEF ConfigurationTypes
  <1>10. /\ \A n : C!OnLoop(n)' <=> C!OnLoop(n)
         /\ \A d \in Editors : d # e => C!Of(d)' = C!Of(d) /\ \A n : C!Edits(d, n)' <=> C!Edits(d, n)
         /\ \A n : C!Edits(e, n)' <=> n \in C!Of(e)
    BY <1>1, <1>7, <1>8 DEF C!OnLoop, C!OffStretch, C!Edits, C!Of, C!Under
  <1>11. ASSUME NEW d \in Editors PROVE EditOf(d)' /\ Undisturbed(d)' /\ Crossing(d)'
    <2>1. CASE d = e
      <3>1. EditOf(e)'
        BY <1>2, <1>7, <1>1 DEF EditOf, C!Kind, C!Names
      <3>2. lock'[C!Kind(j.n)] = e
        BY <1>1, <1>7, KindIs DEF ConfigurationTypes
      <3>3. Undisturbed(e)'
        BY <1>1, <1>4, <1>7, <3>2 DEF Undisturbed, C!Kind
      <3>4. \A n : Busy(e, n)' => Busy(e, n)
        BY <1>10 DEF Busy
      <3>5. Crossing(e)'
        BY <1>5, <1>7, <1>10, <3>4 DEF Crossing, C!Names
      <3>6. QED
        BY <2>1, <3>1, <3>3, <3>5
    <2>2. CASE d # e
      <3>1. EditOf(d)'
        BY <1>8, <2>2 DEF EditOf, C!Kind, C!Names
      <3>2. edit[d].phase \in C!Under => edit[d].op \in C!Interruptible \/ lock'[C!Kind(edit[d].n)] = d
        <4>1. edit[d].phase \in C!Under => edit[d].op \in C!Interruptible \/ lock[C!Kind(edit[d].n)] = d
          BY DEF Undisturbed
        <4>2. QED
          BY <1>1, <4>1, ConfigurationAssumption
      <3>3. Undisturbed(d)'
        <4>1. edit[d].phase = "checked" =>
                 folder'[edit[d].n] = edit[d].read \/ (~edit'[d].alone /\ edit[d].n \in crossed')
          BY <1>1, <1>6, <1>8, <2>2 DEF Undisturbed
        <4>2. edit[d].phase = "logged" =>
                 \A n \in C!Of(d) : logged'[n] = folder'[n] \/ (~edit'[d].alone /\ n \in crossed')
          BY <1>1, <1>6, <1>8, <2>2 DEF Undisturbed
        <4>3. QED
          BY <1>8, <1>10, <2>2, <3>2, <4>1, <4>2 DEF Undisturbed, C!Kind
      <3>4. ASSUME NEW n \in C!Names, C!Edits(d, n), Busy(d, n)' PROVE ~edit'[d].alone /\ n \in crossed'
        <4>1. CASE n \in C!Of(e)
          BY <1>5, <1>6, <1>8, <2>2, <3>4, <4>1 DEF Busy
        <4>2. CASE n \notin C!Of(e)
          <5>1. Busy(d, n)
            BY <1>10, <3>4, <4>2 DEF Busy
          <5>2. QED
            BY <1>1, <1>6, <1>8, <2>2, <3>4, <5>1 DEF Crossing
        <4>3. QED
          BY <4>1, <4>2
      <3>5. Crossing(d)'
        BY <1>10, <2>2, <3>4 DEF Crossing, C!Names
      <3>6. QED
        BY <3>1, <3>3, <3>5
    <2>3. QED
      BY <2>1, <2>2
  <1>12. OnTheLoop' /\ C!OffKeepsEdits'
    BY <1>1 DEF OnTheLoop, C!OffKeepsEdits, C!OffStretch
  <1>13. \A d \in Editors : \A n : C!Changes(d, n) => C!Changes(d, n)' /\ edit'[d].phase = edit[d].phase
    BY <1>1, <1>8 DEF C!Changes, C!Changing, C!Of
  <1>14. C!Whole' \subseteq C!Whole
    BY <1>1 DEF C!Whole, C!Names
  <1>15. C!LoggedAsIs' /\ C!GrantedAsIs'
    BY <1>1, <1>13, <1>14 DEF C!LoggedAsIs, C!GrantedAsIs, C!Nothing
  <1>16. QED
    BY <1>9, <1>11, <1>12, <1>15

\* What an edit writes is of what it is of.
LEMMA EditWritesKeep ==
  ASSUME ConfigurationIInv, NEW e \in Editors,
         C!PutAside(e) \/ C!Place(e) \/ C!Enable(e) \/ C!Erase(e) \/ C!Rename(e)
  PROVE  ConfigurationIInv'
  <1>1. PICK p \in {"aside", "changed"} : edit' = [edit EXCEPT ![e].phase = p]
    BY DEF C!PutAside, C!Place, C!Enable, C!Erase, C!Rename, C!Step
  <1>2. edit[e].phase \in C!Under /\ edit[e].phase # "idle"
    BY DEF C!PutAside, C!Place, C!Enable, C!Erase, C!Rename, C!Under, C!Changing
  <1>3. UNCHANGED <<lock, grant, off, answer, crossed, torn, logged>>
    BY DEF C!PutAside, C!Place, C!Enable, C!Erase, C!Rename, C!EditsOnly
  <1>4. ConfigurationTypes /\ EditOf(e)
    BY DEF ConfigurationIInv
  <1>5. times' \in [edits : Nat, texts : Nat, offs : Nat, answers : Nat, troubles : Nat]
    BY <1>4, TimesCount DEF C!PutAside, C!Place, C!Enable, C!Erase, C!Rename, ConfigurationTypes
  <1>6. /\ folder \in [C!Names -> Configs] /\ logged' \in [C!Names -> Configs]
        /\ edit[e].n \in C!Names /\ edit[e].to \in C!Names /\ edit[e] \in AllEdits
        /\ times.texts \in Nat
    BY <1>2, <1>3, <1>4 DEF ConfigurationTypes, EditOf
  <1>7. PICK x \in Configs, y \in Configs :
           folder' = [folder EXCEPT ![edit[e].n] = x] \/ folder' = [folder EXCEPT ![edit[e].n] = x, ![edit[e].to] = y]
    <2>1. CASE C!PutAside(e) \/ C!Erase(e)
      BY <2>1, NothingIs DEF C!PutAside, C!Erase
    <2>2. CASE C!Place(e)
      <3>1. C!Written(e) \in Configs
        BY <1>6 DEF Configs, AllEdits, C!Written
      <3>2. QED
        BY <2>2, <3>1 DEF C!Place
    <2>3. CASE C!Enable(e)
      <3>1. [edit[e].read EXCEPT !.on = edit[e].on] \in Configs
        BY <1>6 DEF Configs, AllEdits
      <3>2. QED
        BY <2>3, <3>1 DEF C!Enable
    <2>4. CASE C!Rename(e)
      <3>1. folder[edit[e].n] \in Configs
        BY <1>6
      <3>2. QED
        BY <2>4, <3>1, NothingIs DEF C!Rename
    <2>5. QED
      BY <2>1, <2>2, <2>3, <2>4
  <1>8. folder' \in [C!Names -> Configs] /\ \A n \in C!Names \ C!Of(e) : folder'[n] = folder[n]
    BY <1>6, <1>7 DEF C!Of
  <1>9. p \in C!Changing /\ p # "logged"
    BY DEF C!Changing
  <1>10. QED
    BY <1>1, <1>2, <1>3, <1>5, <1>6, <1>8, <1>9, EditMoves

LEMMA RecordChangeKeeps == ASSUME ConfigurationIInv, NEW e \in Editors, C!Record(e) PROVE ConfigurationIInv'
  <1>1. /\ edit[e].phase = "changed" /\ edit' = [edit EXCEPT ![e].phase = "logged"]
        /\ UNCHANGED <<lock, grant, off, answer, crossed, torn, folder, times>>
    BY DEF C!Record, C!Step, C!EditsOnly
  <1>2. ConfigurationTypes /\ C!Of(e) \subseteq C!Names
    BY <1>1 DEF ConfigurationIInv, EditOf, C!Of
  <1>3. /\ logged' \in [C!Names -> Configs]
        /\ \A n \in C!Names : logged'[n] = IF n \in C!Of(e) THEN folder[n] ELSE logged[n]
    BY <1>2 DEF C!Record, ConfigurationTypes
  <1>4. folder' \in [C!Names -> Configs]
        /\ times' \in [edits : Nat, texts : Nat, offs : Nat, answers : Nat, troubles : Nat]
    BY <1>1, <1>2 DEF ConfigurationTypes
  <1>5. edit[e].phase \in C!Under /\ "logged" \in C!Changing
    BY <1>1 DEF C!Under, C!Changing
  <1>6. QED
    BY <1>1, <1>2, <1>3, <1>4, <1>5, EditMoves

\* A lock is let go by the edit that has it, and no other lock.
LEMMA LetGoIs ==
  ASSUME ConfigurationTypes, NEW e \in Editors, C!LetGo(e)
  PROVE  /\ lock' \in [C!Kinds -> Editors \cup {Nobody}]
         /\ \A d \in Editors : \A n : d # e /\ lock[C!Kind(n)] = d => lock'[C!Kind(n)] = d
  <1>1. lock' = [k \in C!Kinds |-> IF lock[k] = e THEN Nobody ELSE lock[k]]
    BY DEF C!LetGo
  <1>2. lock' \in [C!Kinds -> Editors \cup {Nobody}]
    BY <1>1 DEF ConfigurationTypes
  <1>3. ASSUME NEW d \in Editors, NEW n, d # e, lock[C!Kind(n)] = d PROVE lock'[C!Kind(n)] = d
    BY <1>1, <1>3, KindIs
  <1>4. QED
    BY <1>2, <1>3

\* An edit ends and lets its lock go: what it was of is as it is recorded, and what is granted.
LEMMA EditGoes ==
  ASSUME ConfigurationIInv, NEW e \in Editors, edit[e].phase \in C!Under,
         edit' = [edit EXCEPT ![e] = C!NoJob], C!LetGo(e),
         UNCHANGED <<folder, logged, off, answer>>, grant' \in [Routines -> Configs],
         times' \in [edits : Nat, texts : Nat, offs : Nat, answers : Nat, troubles : Nat],
         \A n \in Routines \ C!Of(e) : grant'[n] = grant[n],
         \A n \in C!Names \ C!Of(e) : (n \in crossed' <=> n \in crossed) /\ (n \in torn' <=> n \in torn),
         \A n \in C!Of(e) : Busy(e, n) /\ n \in crossed => n \in crossed',
         \A n \in C!Of(e) : n \in C!Whole' =>
            logged[n] = folder[n] /\ (n \in Routines => grant'[n] \in {C!Nothing, folder[n]})
  PROVE  ConfigurationIInv'
  <1> USE DEF ConfigurationIInv
  <1>1. edit'[e] = C!NoJob /\ \A d \in Editors : d # e => edit'[d] = edit[d]
    BY DEF ConfigurationTypes
  <1>2. ConfigurationTypes'
    <2>1. edit' \in [Editors -> AllEdits]
      BY NothingIs DEF ConfigurationTypes
    <2>2. lock' \in [C!Kinds -> Editors \cup {Nobody}]
      BY LetGoIs DEF ConfigurationTypes
    <2>3. QED
      BY <2>1, <2>2 DEF ConfigurationTypes
  <1>3. \A n : C!OnLoop(n)' <=> C!OnLoop(n)
    BY DEF C!OnLoop, C!OffStretch
  <1>4. \A n \in C!Of(e) : C!Edits(e, n) /\ n \in C!Names
    BY EditHolds DEF C!Edits
  <1>5. \A n \in C!Names : Busy(e, n) /\ n \in crossed => n \in crossed'
    OBVIOUS
  <1>6. ASSUME NEW d \in Editors PROVE EditOf(d)' /\ Undisturbed(d)' /\ Crossing(d)'
    <2>1. CASE d = e
      <3>1. edit'[d].phase = "idle" /\ "idle" \notin C!Under
        BY <1>1, <2>1, NothingIs DEF C!Under, C!Changing
      <3>2. QED
        BY <3>1 DEF EditOf, Undisturbed, Crossing, C!Edits
    <2>2. CASE d # e
      <3>1. edit'[d] = edit[d] /\ C!Of(d)' = C!Of(d) /\ \A n : C!Edits(d, n)' <=> C!Edits(d, n)
        BY <1>1, <2>2 DEF C!Of, C!Edits
      <3>2. EditOf(d)'
        BY <3>1 DEF EditOf, C!Kind, C!Names
      <3>3. ASSUME edit[d].phase \in C!Under
            PROVE  /\ edit[d].op \in C!Interruptible \/ lock'[C!Kind(edit[d].n)] = d
                   /\ \A n \in C!Of(d) : n \in C!Names /\ (n \in crossed => n \in crossed')
        <4>1. \A n \in C!Of(d) : C!Edits(d, n)
          BY <3>3 DEF C!Edits
        <4>2. \A n \in C!Of(d) : n \in C!Names /\ Busy(e, n)
          BY <2>2, <4>1, EditHolds DEF Busy
        <4>3. edit[d].op \in C!Interruptible \/ lock[C!Kind(edit[d].n)] = d
          BY <3>3 DEF Undisturbed
        <4>4. QED
          BY <1>5, <2>2, <4>2, <4>3, LetGoIs
      <3>4. "checked" \in C!Under /\ "logged" \in C!Under /\ edit[d].n \in C!Of(d)
        BY DEF C!Under, C!Changing, C!Of
      <3>5. Undisturbed(d)'
        <4>1. edit[d].phase = "checked" =>
                 folder'[edit[d].n] = edit[d].read \/ (~edit[d].alone /\ edit[d].n \in crossed')
          BY <3>3, <3>4 DEF Undisturbed
        <4>2. edit[d].phase = "logged" =>
                 \A n \in C!Of(d) : logged'[n] = folder'[n] \/ (~edit[d].alone /\ n \in crossed')
          BY <3>3, <3>4 DEF Undisturbed
        <4>3. QED
          BY <3>1, <3>3, <4>1, <4>2 DEF Undisturbed, C!Kind
      <3>6. Crossing(d)'
        <4>1. \A x \in Editors : \A n : C!Edits(x, n)' => C!Edits(x, n)
          BY <1>1, NothingIs DEF C!Edits, C!Of, C!Under, C!Changing
        <4>2. \A n \in C!Names : Busy(d, n)' => Busy(d, n)
          BY <1>3, <4>1 DEF Busy
        <4>3. \A n \in C!Names : C!Edits(d, n) => Busy(e, n)
          BY <2>2 DEF Busy
        <4>4. QED
          BY <1>5, <3>1, <4>2, <4>3 DEF Crossing, C!Names
      <3>7. QED
        BY <3>2, <3>5, <3>6
    <2>3. QED
      BY <2>1, <2>2
  <1>7. OnTheLoop' /\ C!OffKeepsEdits'
    <2>1. answer.phase = "checked" => C!OnLoop(answer.n) /\ answer.n \in C!Names
      BY DEF OnTheLoop, C!OnLoop, C!Names
    <2>2. off.phase = "read" => C!OnLoop(off.n) /\ off.n \in C!Names
      BY DEF OnTheLoop, C!OnLoop, C!OffStretch, C!Names
    <2>3. QED
      BY <1>5, <2>1, <2>2 DEF Busy, OnTheLoop, C!OffKeepsEdits, C!OffStretch
  <1>8. \A d \in Editors : \A n : C!Changes(d, n) /\ n \notin C!Of(e) => C!Changes(d, n)' /\ edit'[d] = edit[d]
    BY <1>1 DEF C!Changes, C!Of
  <1>9. \A n \in C!Whole' : n \in C!Names /\ (n \notin C!Of(e) => n \in C!Whole)
    BY DEF C!Whole, C!Names
  <1>10. C!LoggedAsIs'
    <2> SUFFICES ASSUME NEW n \in C!Whole'
                 PROVE  \/ logged[n] = folder[n] \/ (off.n = n /\ off.phase = "changed")
                        \/ \E d \in Editors : C!Changes(d, n)' /\ edit'[d].phase # "logged"
      BY DEF C!LoggedAsIs
    <2>1. CASE n \in C!Of(e)
      BY <2>1
    <2>2. CASE n \notin C!Of(e)
      BY <1>8, <1>9, <2>2 DEF C!LoggedAsIs
    <2>3. QED
      BY <2>1, <2>2
  <1>11. C!GrantedAsIs'
    <2> SUFFICES ASSUME NEW n \in Routines \cap C!Whole'
                 PROVE  \/ grant'[n] \in {C!Nothing, folder[n]} \/ (off.n = n /\ off.phase \in {"changed", "logged"})
                        \/ \E d \in Editors : C!Changes(d, n)'
      BY DEF C!GrantedAsIs, C!Nothing
    <2>1. CASE n \in C!Of(e)
      BY <2>1
    <2>2. CASE n \notin C!Of(e)
      BY <1>8, <1>9, <2>2 DEF C!GrantedAsIs
    <2>3. QED
      BY <2>1, <2>2
  <1>12. QED
    BY <1>2, <1>6, <1>7, <1>10, <1>11

LEMMA EditEndKeeps == ASSUME ConfigurationIInv, NEW e \in Editors, C!End(e) PROVE ConfigurationIInv'
  <1>1. /\ edit[e].phase = "logged" /\ grant' = C!Revoked(e) /\ edit' = [edit EXCEPT ![e] = C!NoJob]
        /\ C!LetGo(e) /\ UNCHANGED <<folder, logged, off, answer, times>>
        /\ IF edit[e].alone THEN crossed' = crossed \ C!Of(e) /\ torn' = torn \ C!Of(e)
           ELSE UNCHANGED <<crossed, torn>>
    BY DEF C!End, C!EditsOnly
  <1>2. ConfigurationTypes /\ Undisturbed(e) /\ Crossing(e) /\ edit[e].phase \in C!Under
    BY <1>1 DEF ConfigurationIInv, C!Under, C!Changing
  <1>3. /\ grant' \in [Routines -> Configs]
        /\ \A n \in Routines : grant'[n] = IF n \in C!Of(e) THEN C!Nothing ELSE grant[n]
    BY <1>1, <1>2, NothingIs DEF C!Revoked, ConfigurationTypes
  <1>4. \A n \in C!Of(e) : n \in C!Names /\ C!Edits(e, n)
    BY <1>2, EditHolds DEF C!Edits
  <1>5. \A n \in C!Of(e) : Busy(e, n) => ~edit[e].alone
    BY <1>2, <1>4 DEF Crossing
  <1>6. ASSUME NEW n \in C!Of(e), n \in C!Whole' PROVE logged[n] = folder[n]
    <2>1. logged[n] = folder[n] \/ (~edit[e].alone /\ n \in crossed)
      BY <1>1, <1>2 DEF Undisturbed
    <2>2. ~edit[e].alone => n \notin crossed
      BY <1>1, <1>6 DEF C!Whole
    <2>3. QED
      BY <2>1, <2>2
  <1>7. times' \in [edits : Nat, texts : Nat, offs : Nat, answers : Nat, troubles : Nat]
    BY <1>1, <1>2 DEF ConfigurationTypes
  <1>8. QED
    BY <1>1, <1>2, <1>3, <1>5, <1>6, <1>7, EditGoes

LEMMA EditFailsKeeps ==
  ASSUME ConfigurationIInv, NEW e \in Editors, C!RecordFails(e) \/ C!Fails(e)
  PROVE  ConfigurationIInv'
  <1>1. /\ edit[e].phase \in {"checked", "aside", "changed"} /\ edit' = [edit EXCEPT ![e] = C!NoJob]
        /\ C!LetGo(e) /\ torn' = torn \cup C!Of(e)
        /\ UNCHANGED <<folder, logged, grant, off, answer, crossed>>
    BY DEF C!RecordFails, C!Fails, C!EditsOnly
  <1>2. ConfigurationTypes /\ edit[e].phase \in C!Under
    BY <1>1 DEF ConfigurationIInv, C!Under, C!Changing
  <1>3. times' \in [edits : Nat, texts : Nat, offs : Nat, answers : Nat, troubles : Nat]
    BY <1>2, TimesCount DEF C!RecordFails, C!Fails, ConfigurationTypes
  <1>4. \A n \in C!Of(e) : n \notin C!Whole'
    BY <1>1 DEF C!Whole
  <1>5. grant' \in [Routines -> Configs]
    BY <1>1, <1>2 DEF ConfigurationTypes
  <1>6. QED
    BY <1>1, <1>2, <1>3, <1>4, <1>5, EditGoes

LEMMA GrantStepKeeps == ASSUME ConfigurationIInv, NEW e \in Editors, C!GrantStep(e) PROVE ConfigurationIInv'
  <1>1. /\ edit[e].phase = "checked" /\ edit[e].op = "grant" /\ edit' = [edit EXCEPT ![e] = C!NoJob]
        /\ C!LetGo(e)
        /\ grant' = [grant EXCEPT ![edit[e].n] = edit[e].read]
        /\ UNCHANGED <<folder, logged, off, answer, crossed, torn, times>>
    BY DEF C!GrantStep, C!EditsOnly
  <1>2. ConfigurationTypes /\ Undisturbed(e) /\ EditOf(e) /\ edit[e].phase \in C!Under
    BY <1>1 DEF ConfigurationIInv, C!Under, C!Changing
  <1>3. C!Of(e) = {edit[e].n} /\ edit[e].n \in Routines
    BY <1>1, <1>2 DEF EditOf, C!Of
  <1>4. grant' \in [Routines -> Configs] /\ edit[e].read \in Configs
    BY <1>1, <1>2 DEF ConfigurationTypes, AllEdits
  <1>5. grant'[edit[e].n] = edit[e].read /\ \A n \in Routines : n # edit[e].n => grant'[n] = grant[n]
    BY <1>1, <1>2, <1>3 DEF ConfigurationTypes
  <1>6. ASSUME edit[e].n \in C!Whole'
        PROVE  logged[edit[e].n] = folder[edit[e].n] /\ grant'[edit[e].n] = folder[edit[e].n]
    <2>1. edit[e].n \notin crossed /\ edit[e].n \in C!Whole /\ C!Edits(e, edit[e].n)
      BY <1>1, <1>2, <1>6 DEF C!Whole, C!Names, C!Edits, C!Of
    <2>2. grant'[edit[e].n] = folder[edit[e].n]
      BY <1>1, <1>2, <1>5, <2>1 DEF Undisturbed
    <2>3. ASSUME NEW d \in Editors, C!Changes(d, edit[e].n) PROVE FALSE
      <3>1. C!Edits(d, edit[e].n) /\ d # e
        BY <1>1, <2>3 DEF C!Changes, C!Changing, C!Edits, C!Under
      <3>2. QED
        BY <2>1, <3>1, BothCross
    <2>4. ~(off.n = edit[e].n /\ off.phase = "changed")
      <3>1. Crossing(e) /\ edit[e].n \in C!Names
        BY <1>3 DEF ConfigurationIInv, C!Names
      <3>2. QED
        BY <2>1, <3>1 DEF Crossing, Busy, C!OnLoop, C!OffStretch
    <2>5. logged[edit[e].n] = folder[edit[e].n]
      BY <2>1, <2>3, <2>4 DEF ConfigurationIInv, C!LoggedAsIs
    <2>6. QED
      BY <2>2, <2>5
  <1>7. times' \in [edits : Nat, texts : Nat, offs : Nat, answers : Nat, troubles : Nat]
    BY <1>1, <1>2 DEF ConfigurationTypes
  <1>8. QED
    BY <1>1, <1>2, <1>3, <1>4, <1>5, <1>6, <1>7, EditGoes

\* An interrupted edit loses its lock, and nothing else changes.
LEMMA EditInterruptKeeps == ASSUME ConfigurationIInv, NEW e \in Editors, C!Interrupt(e) PROVE ConfigurationIInv'
  <1> USE DEF ConfigurationIInv
  <1>1. /\ edit[e].op \in C!Interruptible /\ C!LetGo(e)
        /\ UNCHANGED <<folder, logged, grant, edit, off, answer, crossed, torn>>
    BY DEF C!Interrupt, C!EditsOnly
  <1>2. ConfigurationTypes'
    BY <1>1, LetGoIs, TimesCount DEF C!Interrupt, ConfigurationTypes
  <1>3. \A n : (C!OnLoop(n)' <=> C!OnLoop(n)) /\ \A d \in Editors : C!Edits(d, n)' <=> C!Edits(d, n)
    BY <1>1 DEF C!OnLoop, C!OffStretch, C!Edits, C!Of
  <1>4. ASSUME NEW d \in Editors PROVE EditOf(d)' /\ Undisturbed(d)' /\ Crossing(d)'
    <2>1. EditOf(d)'
      BY <1>1 DEF EditOf, C!Kind, C!Names
    <2>2. edit[d].phase \in C!Under => edit[d].op \in C!Interruptible \/ lock'[C!Kind(edit[d].n)] = d
      BY <1>1, LetGoIs DEF Undisturbed
    <2>3. Undisturbed(d)'
      BY <1>1, <2>2 DEF Undisturbed, C!Kind, C!Of
    <2>4. \A n : Busy(d, n)' <=> Busy(d, n)
      BY <1>3 DEF Busy
    <2>5. Crossing(d)'
      BY <1>1, <1>3, <2>4 DEF Crossing, C!Names
    <2>6. QED
      BY <2>1, <2>3, <2>5
  <1>5. OnTheLoop' /\ C!OffKeepsEdits' /\ C!LoggedAsIs' /\ C!GrantedAsIs'
    BY <1>1 DEF OnTheLoop, C!OffStretch, C!OffKeepsEdits, C!LoggedAsIs, C!GrantedAsIs, C!Whole, C!Names,
       C!Changes, C!Of, C!Nothing
  <1>6. QED
    BY <1>2, <1>4, <1>5

\* A step of the event loop takes no lock: an edit stays what it is, but no longer alone where it
\* crosses the stretch.
LEMMA LoopKeeps ==
  ASSUME ConfigurationIInv, ConfigurationTypes', OnTheLoop', C!OffKeepsEdits', UNCHANGED <<lock, torn>>,
         \A d \in Editors :
            /\ edit'[d].n = edit[d].n /\ edit'[d].to = edit[d].to /\ edit'[d].op = edit[d].op
            /\ edit'[d].read = edit[d].read /\ edit'[d].phase = edit[d].phase
            /\ edit'[d].alone => edit[d].alone,
         \A n \in C!Names : n \in crossed => n \in crossed',
         \A n \in C!Names : C!OnLoop(n)' /\ ~C!OnLoop(n) =>
            \A d \in Editors : C!Edits(d, n) => ~edit'[d].alone /\ n \in crossed',
         \A n \in C!Names : folder'[n] # folder[n] \/ logged'[n] # logged[n] => C!OnLoop(n),
         \A n \in C!Names :
            \/ logged'[n] = folder'[n] \/ (off'.n = n /\ off'.phase = "changed")
            \/ logged'[n] = logged[n] /\ folder'[n] = folder[n] /\ ~(off.n = n /\ off.phase = "changed"),
         \A n \in Routines \cap C!Whole' :
            \/ grant'[n] \in {C!Nothing, folder'[n]} \/ (off'.n = n /\ off'.phase \in {"changed", "logged"})
            \/ /\ grant'[n] = grant[n] /\ folder'[n] = folder[n]
               /\ ~(off.n = n /\ off.phase \in {"changed", "logged"})
  PROVE  ConfigurationIInv'
  <1> USE DEF ConfigurationIInv
  <1>1. \A d \in Editors : \A n : /\ C!Edits(d, n)' <=> C!Edits(d, n)
                                  /\ C!Changes(d, n)' <=> C!Changes(d, n)
    BY DEF C!Edits, C!Changes, C!Of
  <1>2. ASSUME NEW d \in Editors PROVE EditOf(d)' /\ Undisturbed(d)' /\ Crossing(d)'
    <2>1. EditOf(d)'
      BY DEF EditOf, C!Kind, C!Names
    <2>2. Crossing(d)'
      <3>1. ASSUME NEW n \in C!Names, C!Edits(d, n), Busy(d, n)'
            PROVE  ~edit'[d].alone /\ n \in crossed'
        <4>1. CASE Busy(d, n)
          BY <3>1, <4>1 DEF Crossing
        <4>2. CASE ~Busy(d, n)
          BY <1>1, <3>1, <4>2 DEF Busy
        <4>3. QED
          BY <4>1, <4>2
      <3>2. QED
        BY <1>1, <3>1 DEF Crossing, C!Names
    <2>3. ASSUME NEW n, C!Edits(d, n), folder'[n] # folder[n] \/ logged'[n] # logged[n]
          PROVE  ~edit'[d].alone /\ n \in crossed'
      <3>1. n \in C!Names
        BY <2>3, EditHolds
      <3>2. C!OnLoop(n) /\ Crossing(d)
        BY <2>3, <3>1
      <3>3. QED
        BY <2>3, <3>1, <3>2 DEF Crossing, Busy
    <2>4. "checked" \in C!Under /\ "logged" \in C!Under /\ edit[d].n \in C!Of(d)
      BY DEF C!Under, C!Changing, C!Of
    <2>5. edit[d].phase = "checked" =>
             folder'[edit[d].n] = edit[d].read \/ (~edit'[d].alone /\ edit[d].n \in crossed')
      <3>1. SUFFICES ASSUME edit[d].phase = "checked"
                     PROVE  folder'[edit[d].n] = edit[d].read \/ (~edit'[d].alone /\ edit[d].n \in crossed')
        OBVIOUS
      <3>2. C!Edits(d, edit[d].n) /\ edit[d].n \in C!Names
        BY <2>4, <3>1, EditHolds DEF C!Edits
      <3>3. folder[edit[d].n] = edit[d].read \/ (~edit[d].alone /\ edit[d].n \in crossed)
        BY <3>1 DEF Undisturbed
      <3>4. QED
        BY <2>3, <3>2, <3>3
    <2>6. ASSUME edit[d].phase = "logged", NEW n \in C!Of(d)
          PROVE  logged'[n] = folder'[n] \/ (~edit'[d].alone /\ n \in crossed')
      <3>1. C!Edits(d, n) /\ n \in C!Names
        BY <2>4, <2>6, EditHolds DEF C!Edits
      <3>2. logged[n] = folder[n] \/ (~edit[d].alone /\ n \in crossed)
        BY <2>6 DEF Undisturbed
      <3>3. QED
        BY <2>3, <3>1, <3>2
    <2>7. edit[d].phase \in C!Under => edit[d].op \in C!Interruptible \/ lock[C!Kind(edit[d].n)] = d
      BY DEF Undisturbed
    <2>8. C!Of(d)' = C!Of(d)
      BY DEF C!Of
    <2>9. QED
      BY <2>1, <2>2, <2>5, <2>6, <2>7, <2>8 DEF Undisturbed, C!Kind
  <1>3. C!Whole' \subseteq C!Whole /\ C!Whole \subseteq C!Names
    BY DEF C!Whole, C!Names
  <1>4. C!LoggedAsIs'
    <2> SUFFICES ASSUME NEW n \in C!Whole'
                 PROVE  \/ logged'[n] = folder'[n] \/ (off'.n = n /\ off'.phase = "changed")
                        \/ \E d \in Editors : C!Changes(d, n)' /\ edit'[d].phase # "logged"
      BY DEF C!LoggedAsIs
    <2>1. \/ logged[n] = folder[n] \/ (off.n = n /\ off.phase = "changed")
          \/ \E d \in Editors : C!Changes(d, n) /\ edit[d].phase # "logged"
      BY <1>3 DEF C!LoggedAsIs
    <2>2. QED
      BY <1>1, <1>3, <2>1
  <1>5. C!GrantedAsIs'
    <2> SUFFICES ASSUME NEW n \in Routines \cap C!Whole'
                 PROVE  \/ grant'[n] \in {C!Nothing, folder'[n]} \/ (off'.n = n /\ off'.phase \in {"changed", "logged"})
                        \/ \E d \in Editors : C!Changes(d, n)'
      BY DEF C!GrantedAsIs, C!Nothing
    <2>1. \/ grant[n] \in {C!Nothing, folder[n]} \/ (off.n = n /\ off.phase \in {"changed", "logged"})
          \/ \E d \in Editors : C!Changes(d, n)
      BY <1>3 DEF C!GrantedAsIs
    <2>2. QED
      BY <1>1, <2>1
  <1>6. QED
    BY <1>2, <1>4, <1>5

LEMMA CrossesIs ==
  ASSUME ConfigurationTypes, NEW n, C!Crosses(n)
  PROVE  /\ edit' \in [Editors -> AllEdits]
         /\ \A d \in Editors :
               /\ edit'[d].n = edit[d].n /\ edit'[d].to = edit[d].to /\ edit'[d].op = edit[d].op
               /\ edit'[d].read = edit[d].read /\ edit'[d].phase = edit[d].phase
               /\ edit'[d].alone => edit[d].alone
               /\ C!Edits(d, n) => ~edit'[d].alone /\ n \in crossed'
         /\ \A m : m \in crossed => m \in crossed'
  <1>1. edit' = [d \in Editors |-> [edit[d] EXCEPT !.alone = @ /\ ~C!Edits(d, n)]]
    BY DEF C!Crosses
  <1>2. ASSUME NEW d \in Editors, NEW lone \in BOOLEAN
        PROVE  /\ [edit[d] EXCEPT !.alone = lone] \in AllEdits
               /\ [edit[d] EXCEPT !.alone = lone].n = edit[d].n
               /\ [edit[d] EXCEPT !.alone = lone].to = edit[d].to
               /\ [edit[d] EXCEPT !.alone = lone].op = edit[d].op
               /\ [edit[d] EXCEPT !.alone = lone].read = edit[d].read
               /\ [edit[d] EXCEPT !.alone = lone].phase = edit[d].phase
               /\ [edit[d] EXCEPT !.alone = lone].alone = lone
    <2>1. edit[d] \in AllEdits
      BY DEF ConfigurationTypes
    <2>2. QED
      BY <2>1 DEF AllEdits
  <1>3. \A d \in Editors : edit'[d] = [edit[d] EXCEPT !.alone = edit[d].alone /\ ~C!Edits(d, n)]
                           /\ (edit[d].alone /\ ~C!Edits(d, n)) \in BOOLEAN
    BY <1>1
  <1>4. edit' \in [Editors -> AllEdits]
    BY <1>1, <1>2, <1>3
  <1>5. crossed' = IF \E d \in Editors : C!Edits(d, n) THEN crossed \cup {n} ELSE crossed
    BY DEF C!Crosses
  <1>6. ASSUME NEW d \in Editors
        PROVE  /\ edit'[d].n = edit[d].n /\ edit'[d].to = edit[d].to /\ edit'[d].op = edit[d].op
               /\ edit'[d].read = edit[d].read /\ edit'[d].phase = edit[d].phase
               /\ edit'[d].alone = (edit[d].alone /\ ~C!Edits(d, n))
    BY <1>2, <1>3
  <1>7. QED
    BY <1>4, <1>5, <1>6

LEMMA OffKeeps ==
  ASSUME ConfigurationIInv, C!WriteOff \/ C!RecordOff \/ C!RevokeOff
  PROVE  ConfigurationIInv'
  <1>1. /\ off.phase \in {"read", "changed", "logged"} /\ off.n \in Routines /\ off.n \in C!Names
        /\ answer.phase # "checked" /\ C!OnLoop(off.n)
    BY DEF C!WriteOff, C!RecordOff, C!RevokeOff, ConfigurationIInv, OnTheLoop, C!OffStretch, C!OnLoop, C!Names
  <1>2. UNCHANGED <<lock, edit, answer, crossed, torn, times>>
    BY DEF C!WriteOff, C!RecordOff, C!RevokeOff, C!LoopOnly
  <1>3. ConfigurationTypes
    BY DEF ConfigurationIInv
  <1>4. \/ UNCHANGED <<folder, logged, grant>> /\ off' = C!NoStretch /\ off.phase = "read"
        \/ /\ folder' = [folder EXCEPT ![off.n] = [off.read EXCEPT !.on = FALSE]] /\ UNCHANGED <<logged, grant>>
           /\ off' = [off EXCEPT !.phase = "changed"]
        \/ /\ logged' = [logged EXCEPT ![off.n] = folder[off.n]] /\ UNCHANGED <<folder, grant>>
           /\ off' = [off EXCEPT !.phase = "logged"]
        \/ /\ grant' = [grant EXCEPT ![off.n] = C!Nothing] /\ UNCHANGED <<folder, logged>>
           /\ off' = C!NoStretch /\ off.phase = "logged"
    BY DEF C!WriteOff, C!RecordOff, C!RevokeOff
  <1>5. off \in Stretches /\ \A p \in {"changed", "logged"} :
           [off EXCEPT !.phase = p] \in Stretches /\ [off EXCEPT !.phase = p].phase = p
           /\ [off EXCEPT !.phase = p].n = off.n
    BY <1>3 DEF ConfigurationTypes, Stretches
  <1>6. [off.read EXCEPT !.on = FALSE] \in Configs /\ folder[off.n] \in Configs
    BY <1>1, <1>3, <1>5 DEF ConfigurationTypes, Stretches, Configs
  <1>7. ConfigurationTypes'
    BY <1>2, <1>3, <1>4, <1>5, <1>6, NothingIs DEF ConfigurationTypes
  <1>8. off'.phase \in {"idle", "changed", "logged"} /\ (off'.phase # "idle" => off'.n = off.n)
    BY <1>4, <1>5, NothingIs
  <1>9. OnTheLoop' /\ C!OffKeepsEdits'
    BY <1>1, <1>2, <1>8 DEF ConfigurationIInv, OnTheLoop, C!OffKeepsEdits, C!OffStretch
  <1>10. \A n : C!OnLoop(n)' => C!OnLoop(n)
    BY <1>1, <1>2, <1>8 DEF C!OnLoop, C!OffStretch
  <1>11. \A n \in C!Names : n # off.n => folder'[n] = folder[n] /\ logged'[n] = logged[n]
    BY <1>3, <1>4 DEF ConfigurationTypes
  <1>12. \A n \in Routines : n # off.n => grant'[n] = grant[n]
    BY <1>3, <1>4 DEF ConfigurationTypes
  <1>13. \/ logged'[off.n] = folder'[off.n] \/ off'.phase = "changed"
         \/ (logged'[off.n] = logged[off.n] /\ folder'[off.n] = folder[off.n] /\ off.phase # "changed")
    BY <1>1, <1>3, <1>4, <1>5 DEF ConfigurationTypes
  <1>14. \/ grant'[off.n] = C!Nothing \/ off'.phase \in {"changed", "logged"}
         \/ (grant'[off.n] = grant[off.n] /\ folder'[off.n] = folder[off.n] /\ off.phase = "read")
    BY <1>1, <1>3, <1>4, <1>5 DEF ConfigurationTypes
  <1>15. \A n \in C!Names :
            \/ logged'[n] = folder'[n] \/ (off'.n = n /\ off'.phase = "changed")
            \/ logged'[n] = logged[n] /\ folder'[n] = folder[n] /\ ~(off.n = n /\ off.phase = "changed")
    BY <1>8, <1>11, <1>13
  <1>16. \A n \in Routines \cap C!Whole' :
            \/ grant'[n] \in {C!Nothing, folder'[n]} \/ (off'.n = n /\ off'.phase \in {"changed", "logged"})
            \/ /\ grant'[n] = grant[n] /\ folder'[n] = folder[n]
               /\ ~(off.n = n /\ off.phase \in {"changed", "logged"})
    <2>1. ASSUME NEW n \in Routines, n # off.n
          PROVE  grant'[n] = grant[n] /\ folder'[n] = folder[n] /\ off.n # n
      BY <1>11, <1>12, <2>1 DEF C!Names
    <2>2. QED
      BY <1>8, <1>14, <2>1
  <1>17. QED
    BY <1>1, <1>2, <1>7, <1>9, <1>10, <1>11, <1>15, <1>16, LoopKeeps

LEMMA ReadOffKeeps == ASSUME ConfigurationIInv, C!ReadOff PROVE ConfigurationIInv'
  <1>1. /\ off.phase = "loaded" /\ answer.phase # "checked" /\ off.n \in Routines /\ off.n \in C!Names
        /\ UNCHANGED <<lock, folder, logged, grant, answer, torn, times>>
    BY DEF C!ReadOff, C!LoopOnly, ConfigurationIInv, OnTheLoop, C!Names
  <1>2. ConfigurationTypes
    BY DEF ConfigurationIInv
  <1>3. folder[off.n] \in Configs /\ off \in Stretches
    BY <1>1, <1>2 DEF ConfigurationTypes
  <1>4. CASE off' = [off EXCEPT !.phase = "read", !.read = folder[off.n]] /\ C!Crosses(off.n)
    <2>1. off' \in Stretches /\ off'.phase = "read" /\ off'.n = off.n /\ off'.read = folder[off.n]
      BY <1>3, <1>4 DEF Stretches
    <2>2. ConfigurationTypes'
      BY <1>1, <1>2, <1>4, <2>1, CrossesIs DEF ConfigurationTypes
    <2>3. OnTheLoop' /\ C!OffKeepsEdits'
      BY <1>1, <2>1 DEF ConfigurationIInv, OnTheLoop, C!OffKeepsEdits, C!OffStretch
    <2>4. \A n : C!OnLoop(n)' => n = off.n
      BY <1>1, <2>1 DEF C!OnLoop
    <2>5. \A n \in C!Names : C!OnLoop(n)' /\ ~C!OnLoop(n) =>
             \A d \in Editors : C!Edits(d, n) => ~edit'[d].alone /\ n \in crossed'
      BY <1>2, <1>4, <2>4, CrossesIs
    <2>6. C!Whole' \subseteq C!Whole
      BY <1>1, <1>2, <1>4, CrossesIs DEF C!Whole, C!Names
    <2>7. QED
      BY <1>1, <1>2, <1>4, <2>2, <2>3, <2>5, <2>6, CrossesIs, LoopKeeps
  <1>5. CASE off' = C!NoStretch /\ UNCHANGED <<edit, crossed>>
    <2>1. ConfigurationTypes'
      BY <1>1, <1>2, <1>5, NothingIs DEF ConfigurationTypes
    <2>2. OnTheLoop' /\ C!OffKeepsEdits' /\ \A n : C!OnLoop(n)' => C!OnLoop(n)
      BY <1>1, <1>5, NothingIs DEF ConfigurationIInv, OnTheLoop, C!OffKeepsEdits, C!OffStretch, C!OnLoop
    <2>3. QED
      BY <1>1, <1>5, <2>1, <2>2, LoopKeeps
  <1>6. QED
    BY <1>4, <1>5 DEF C!ReadOff

LEMMA CheckRevisionKeeps == ASSUME ConfigurationIInv, C!CheckRevision PROVE ConfigurationIInv'
  <1>1. /\ answer.phase = "parked" /\ ~C!OffStretch /\ answer.n \in Routines /\ answer.n \in C!Names
        /\ UNCHANGED <<lock, folder, logged, grant, off, torn, times>>
    BY DEF C!CheckRevision, C!LoopOnly, ConfigurationIInv, OnTheLoop, C!Names
  <1>2. ConfigurationTypes /\ off.phase \notin {"read", "changed", "logged"}
    BY <1>1 DEF ConfigurationIInv, C!OffStretch
  <1>3. CASE /\ folder[answer.n] = answer.read /\ answer' = [answer EXCEPT !.phase = "checked"]
             /\ C!Crosses(answer.n)
    <2>1. answer' \in Stretches /\ answer'.phase = "checked" /\ answer'.n = answer.n /\ answer'.read = answer.read
      BY <1>2, <1>3 DEF ConfigurationTypes, Stretches
    <2>2. ConfigurationTypes'
      BY <1>1, <1>2, <1>3, <2>1, CrossesIs DEF ConfigurationTypes
    <2>3. OnTheLoop' /\ C!OffKeepsEdits'
      BY <1>1, <1>2, <1>3, <2>1 DEF ConfigurationIInv, OnTheLoop, C!OffKeepsEdits, C!OffStretch
    <2>4. \A n : C!OnLoop(n)' => n = answer.n
      BY <1>1, <2>1 DEF C!OnLoop, C!OffStretch
    <2>5. \A n \in C!Names : C!OnLoop(n)' /\ ~C!OnLoop(n) =>
             \A d \in Editors : C!Edits(d, n) => ~edit'[d].alone /\ n \in crossed'
      BY <1>2, <1>3, <2>4, CrossesIs
    <2>6. QED
      BY <1>1, <1>2, <1>3, <2>2, <2>3, <2>5, CrossesIs, LoopKeeps
  <1>4. CASE answer' = C!NoStretch /\ UNCHANGED <<edit, crossed>>
    <2>1. ConfigurationTypes'
      BY <1>1, <1>2, <1>4, NothingIs DEF ConfigurationTypes
    <2>2. OnTheLoop' /\ C!OffKeepsEdits' /\ \A n : C!OnLoop(n)' => C!OnLoop(n)
      BY <1>1, <1>4, NothingIs DEF ConfigurationIInv, OnTheLoop, C!OffKeepsEdits, C!OffStretch, C!OnLoop
    <2>3. QED
      BY <1>1, <1>2, <1>4, <2>1, <2>2, LoopKeeps
  <1>5. QED
    BY <1>3, <1>4 DEF C!CheckRevision

LEMMA GrantToolKeeps == ASSUME ConfigurationIInv, C!GrantTool PROVE ConfigurationIInv'
  <1>1. /\ answer.phase = "checked" /\ answer.n \in Routines /\ ~C!OffStretch /\ answer' = C!NoStretch
        /\ grant' = [grant EXCEPT ![answer.n] = answer.read]
        /\ folder[answer.n] = answer.read \/ answer.n \in crossed
        /\ UNCHANGED <<lock, folder, logged, edit, off, crossed, torn, times>>
    BY DEF C!GrantTool, C!LoopOnly, ConfigurationIInv, OnTheLoop
  <1>2. ConfigurationTypes /\ off.phase \notin {"read", "changed", "logged"}
    BY <1>1 DEF ConfigurationIInv, C!OffStretch
  <1>3. answer.read \in Configs
    BY <1>2 DEF ConfigurationTypes, Stretches
  <1>4. ConfigurationTypes'
    BY <1>1, <1>2, <1>3, NothingIs DEF ConfigurationTypes
  <1>5. OnTheLoop' /\ C!OffKeepsEdits' /\ \A n : C!OnLoop(n)' => C!OnLoop(n)
    BY <1>1, NothingIs DEF ConfigurationIInv, OnTheLoop, C!OffKeepsEdits, C!OffStretch, C!OnLoop
  <1>6. \A n \in Routines \cap C!Whole' : grant'[n] = folder[n] \/ grant'[n] = grant[n]
    BY <1>1, <1>2 DEF ConfigurationTypes, C!Whole
  <1>7. QED
    BY <1>1, <1>2, <1>4, <1>5, <1>6, LoopKeeps

LEMMA LoopElsewhereKeeps ==
  ASSUME ConfigurationIInv, NEW n \in Routines, C!Load(n) \/ C!Park(n) \/ C!Revoke(n)
  PROVE  ConfigurationIInv'
  <1>1. ConfigurationTypes /\ folder[n] \in Configs
    BY DEF ConfigurationIInv, ConfigurationTypes, C!Names
  <1>2. UNCHANGED <<lock, folder, logged, edit, crossed, torn>>
    BY DEF C!Load, C!Park, C!Revoke, C!LoopOnly
  <1>3. times' \in [edits : Nat, texts : Nat, offs : Nat, answers : Nat, troubles : Nat]
    BY <1>1, TimesCount DEF C!Load, C!Park, C!Revoke, ConfigurationTypes
  <1>4. /\ off' = off \/ (off.phase = "idle" /\ off' \in Stretches /\ off'.phase = "loaded" /\ off'.n = n)
        /\ answer' = answer \/ (answer.phase = "idle" /\ answer' \in Stretches /\ answer'.phase = "parked" /\ answer'.n = n)
    <2>1. [n |-> n, read |-> folder[n], phase |-> "parked"] \in Stretches
          /\ [n |-> n, read |-> C!Nothing, phase |-> "loaded"] \in Stretches
      BY <1>1, NothingIs DEF Stretches, C!Names
    <2>2. QED
      BY <2>1, NothingIs DEF C!Load, C!Park, C!Revoke
  <1>5. grant' \in [Routines -> Configs] /\ \A m \in Routines : grant'[m] = grant[m] \/ grant'[m] = C!Nothing
    BY <1>1, NothingIs DEF C!Load, C!Park, C!Revoke, ConfigurationTypes
  <1>6. ConfigurationTypes'
    BY <1>1, <1>2, <1>3, <1>4, <1>5 DEF ConfigurationTypes
  <1>7. OnTheLoop' /\ C!OffKeepsEdits' /\ (\A m : C!OnLoop(m)' => C!OnLoop(m))
        /\ \A m : off.n = m /\ off.phase \in {"changed", "logged"} => off' = off
    BY <1>2, <1>4 DEF ConfigurationIInv, OnTheLoop, C!OffKeepsEdits, C!OffStretch, C!OnLoop
  <1>8. QED
    BY <1>2, <1>5, <1>6, <1>7, LoopKeeps

\* A restart cuts every edit short, and every change it leaves unrecorded is torn.
LEMMA ConfigurationRestartKeeps == ASSUME ConfigurationIInv, C!Restart PROVE ConfigurationIInv'
  <1> USE DEF ConfigurationIInv
  <1>1. /\ torn' = torn \cup {n \in C!Names : C!Cut(n)} /\ lock' = [k \in C!Kinds |-> Nobody]
        /\ edit' = [e \in Editors |-> C!NoJob] /\ off' = C!NoStretch
        /\ answer' = IF answer.phase = "checked" THEN C!NoStretch ELSE answer
        /\ UNCHANGED <<folder, logged, grant, crossed>>
    BY DEF C!Restart
  <1>2. ConfigurationTypes'
    BY <1>1, TimesCount, NothingIs DEF C!Restart, ConfigurationTypes
  <1>3. \A d \in Editors : edit'[d].phase = "idle" /\ "idle" \notin C!Under
    BY <1>1, NothingIs DEF C!Under, C!Changing
  <1>4. \A d \in Editors : EditOf(d)' /\ Undisturbed(d)' /\ Crossing(d)'
    BY <1>3 DEF EditOf, Undisturbed, Crossing, C!Edits, C!Under, C!Changing
  <1>5. OnTheLoop' /\ C!OffKeepsEdits'
    BY <1>1, NothingIs DEF OnTheLoop, C!OffKeepsEdits, C!OffStretch
  <1>6. \A n \in C!Whole' : n \in C!Whole /\ ~C!Cut(n)
    BY <1>1 DEF C!Whole, C!Names
  <1>7. C!LoggedAsIs' /\ C!GrantedAsIs'
    BY <1>1, <1>6 DEF C!LoggedAsIs, C!GrantedAsIs, C!Cut, C!Nothing
  <1>8. QED
    BY <1>2, <1>4, <1>5, <1>7

LEMMA ConfigurationStep == ConfigurationIInv /\ [C!Next]_configurationVars => ConfigurationIInv'
  <1> SUFFICES ASSUME ConfigurationIInv, [C!Next]_configurationVars PROVE ConfigurationIInv'
    OBVIOUS
  <1>1. CASE UNCHANGED configurationVars
    BY <1>1 DEF configurationVars, ConfigurationIInv, ConfigurationTypes, EditOf, Undisturbed, Crossing, Busy,
       OnTheLoop, C!OffKeepsEdits, C!LoggedAsIs, C!GrantedAsIs, C!Whole, C!Names, C!Nothing, C!Kind, C!Of,
       C!OnLoop, C!OffStretch, C!Edits, C!Changes
  <1>2. ASSUME NEW e \in Editors, C!EditStep(e) PROVE ConfigurationIInv'
    BY <1>2, AskKeeps, BeginKeeps, RefuseKeeps, EditWritesKeep, RecordChangeKeeps, EditEndKeeps, GrantStepKeeps,
       EditFailsKeeps, EditInterruptKeeps DEF C!EditStep
  <1>3. QED
    BY <1>1, <1>2, LoopElsewhereKeeps, ReadOffKeeps, OffKeeps, CheckRevisionKeeps, GrantToolKeeps,
       ConfigurationRestartKeeps DEF C!Next

LEMMA ConfigurationStart == C!Init => ConfigurationIInv
  <1> SUFFICES ASSUME C!Init PROVE ConfigurationIInv
    OBVIOUS
  <1>1. /\ folder = [n \in C!Names |-> IF n \in Existing THEN C!First ELSE C!Nothing] /\ logged = folder
        /\ grant = [n \in Routines |-> C!Nothing] /\ lock = [k \in C!Kinds |-> Nobody]
        /\ edit = [e \in Editors |-> C!NoJob] /\ off = C!NoStretch /\ answer = C!NoStretch
        /\ times = [edits |-> 0, texts |-> 1, offs |-> 0, answers |-> 0, troubles |-> 0]
    BY DEF C!Init
  <1>2. C!First \in Configs
    BY DEF C!First, Configs
  <1>3. ConfigurationTypes
    BY <1>1, <1>2, NothingIs DEF ConfigurationTypes
  <1>4. \A e \in Editors : edit[e].phase = "idle" /\ "idle" \notin C!Under
    BY <1>1, NothingIs DEF C!Under, C!Changing
  <1>5. \A e \in Editors : EditOf(e) /\ Undisturbed(e) /\ Crossing(e)
    BY <1>4 DEF EditOf, Undisturbed, Crossing, C!Edits, C!Under, C!Changing
  <1>6. OnTheLoop /\ C!OffKeepsEdits
    BY <1>1, NothingIs DEF OnTheLoop, C!OffKeepsEdits, C!OffStretch
  <1>7. C!LoggedAsIs /\ C!GrantedAsIs
    BY <1>1 DEF C!LoggedAsIs, C!GrantedAsIs, C!Whole
  <1>8. QED
    BY <1>3, <1>5, <1>6, <1>7 DEF ConfigurationIInv

LEMMA ConfigurationImplied == ConfigurationIInv => C!ConfigurationInv
  <1> SUFFICES ASSUME ConfigurationIInv PROVE C!ConfigurationInv
    OBVIOUS
  <1>1. C!EditedAsRead
    BY DEF ConfigurationIInv, Undisturbed, C!EditedAsRead
  <1>2. ASSUME NEW d \in Editors, NEW e \in Editors, NEW n \in C!Names, d # e, C!Edits(d, n), C!Edits(e, n)
        PROVE  (edit[d].op \in C!Interruptible \/ edit[e].op \in C!Interruptible) /\ ~edit[d].alone /\ n \in crossed
    <2>1. edit[d].phase \in C!Under /\ edit[e].phase \in C!Under /\ Undisturbed(d) /\ Undisturbed(e)
      BY <1>2 DEF ConfigurationIInv, C!Edits
    <2>2. C!Kind(edit[d].n) = C!Kind(edit[e].n)
      BY <1>2, EditHolds
    <2>3. edit[d].op \in C!Interruptible \/ edit[e].op \in C!Interruptible
      BY <1>2, <2>1, <2>2 DEF Undisturbed
    <2>4. QED
      BY <1>2, <2>3, BothCross
  <1>3. C!NoneBeside
    BY <1>2 DEF C!NoneBeside
  <1>4. QED
    BY <1>1, <1>3 DEF ConfigurationIInv, C!ConfigurationInv

\* A behaviour that is the configuration's keeps its invariant.
Configured == part = "configuration" => ConfigurationIInv

(* An edit lands over what its caller read, the app's under its lock, and no config change or     *)
(* grant is left of what is no longer there, but for the names in which an edit crossed a         *)
(* disable, an answer or an edit whose turn was interrupted, and the changes cut short: for every *)
(* set of names and editors and every number of edits, disables, answers, interrupts and crashes  *)
(* (core/config.py, plugins/instance_tools.py, core/scheduler.py _handle_failures).               *)
THEOREM ConfigurationSafe == Spec => []ConfigurationInv
  <1>1. Init => Configured
    BY ConfigurationStart DEF Init, Configured
  <1>2. Configured /\ [Next]_vars => Configured'
    <2> SUFFICES ASSUME Configured, [Next]_vars, part' = "configuration" PROVE ConfigurationIInv'
      BY DEF Configured
    <2>1. part = "configuration" /\ [C!Next]_configurationVars
      BY DEF Next, vars, Recap, Dreams, Picks, Ticket, Snapshots, Configuration, configurationVars
    <2>2. QED
      BY <2>1, ConfigurationStep DEF Configured
  <1>3. Configured => ConfigurationInv
    BY ConfigurationImplied DEF Configured, ConfigurationInv
  <1>4. QED
    BY <1>1, <1>2, <1>3, PTL DEF Spec

=============================================================================
