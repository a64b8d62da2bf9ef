----------------------------- MODULE MCKeeping -----------------------------
(***************************************************************************)
(* What an instance and the hub keep, each part on a small instance: the   *)
(* recap of what ended, the dreams over its episodes, a skill of the       *)
(* library with an instance's copy, the work of an issue's runs, the       *)
(* snapshots of a workspace, and an instance's configuration.  They share  *)
(* no state but the graph, whose episodes Dreams takes as they come, so a  *)
(* behaviour is one part's: it is chosen at the start, and the others stay *)
(* at 0.                                                                   *)
(***************************************************************************)
EXTENDS Naturals, FiniteSets, TLC

CONSTANTS
    \* Recap
    Work, Stops, MaxTold, MaxRecapRestarts, MaxFailures,
    \* Dreams
    MaxEpisodes, MIN_SOURCES, PruneAge, MaxDays, MaxDreams, MaxTroubles, MaxMoments,
    \* Picks
    Texts, MaxHubStops,
    \* Ticket
    MaxRuns, MaxCommits, MaxMishaps, MaxActs, MaxUserActs,
    \* Snapshots
    Files, Ignorable, Contents, Threads, MaxTurns, MaxEdits, MaxReverts, MaxGitTroubles,
    \* Configuration
    Routines, Skills, Singles, Existing, Editors, Nobody, MaxChanges, MaxOffs, MaxAnswers, MaxCuts, MaxAtOnce

ASSUME RecapAssumption == IsFiniteSet(Work) /\ MaxRecapRestarts \in Nat
ASSUME PicksAssumption == "none" \notin Texts
ASSUME SnapshotsAssumption == "none" \notin Threads /\ Ignorable \subseteq Files /\ Contents # {}
ASSUME ConfigurationAssumption ==
    /\ Nobody \notin Editors /\ Existing \subseteq Routines \cup Skills \cup Singles
    /\ Routines \cap (Skills \cup Singles) = {} /\ Skills \cap Singles = {}

VARIABLES
    part,
    ended, marks, queue, worker, written, told, recapRestarts, failed,
    log, day, dated, episodes, facts, forgotten, dreams, writing, cut, restarts,
    shelf, ships, shipped, gitSkill, mover, shown, served, held, staged, supplies, hubStops,
    issue, run, owed, tree, refs, has, at, own, pull, thread, blocker, landed, made, missed, used,
    files, rules, index, indexLock, trees, turnLog, turn, job, rebuilding, lost, spent,
    folder, logged, grant, lock, edit, off, answer, crossed, torn, times

R == INSTANCE Recap WITH restarts <- recapRestarts, MaxRestarts <- MaxRecapRestarts
D == INSTANCE Dreams
P == INSTANCE Picks
T == INSTANCE Ticket
S == INSTANCE Snapshots WITH refs <- trees, log <- turnLog, MaxTroubles <- MaxGitTroubles
C == INSTANCE Configuration WITH job <- edit, used <- times, Files <- Singles, MaxEdits <- MaxChanges,
        MaxTroubles <- MaxCuts, MaxMoments <- MaxAtOnce

recapVars == <<ended, marks, queue, worker, written, told, recapRestarts, failed>>
dreamsVars == <<log, day, dated, episodes, facts, forgotten, dreams, writing, cut, restarts>>
picksVars == <<shelf, ships, shipped, gitSkill, mover, shown, served, held, staged, supplies, hubStops>>
ticketVars == <<issue, run, owed, tree, refs, has, at, own, pull, thread, blocker, landed, made,
                missed, used>>
snapshotsVars == <<files, rules, index, indexLock, trees, turnLog, turn, job, rebuilding, lost, spent>>
configurationVars == <<folder, logged, grant, lock, edit, off, answer, crossed, torn, times>>
vars == <<part, recapVars, dreamsVars, picksVars, ticketVars, snapshotsVars, configurationVars>>

Init ==
    /\ part \in {"recap", "dreams", "picks", "ticket", "snapshots", "configuration"}
    /\ IF part = "recap" THEN R!Init ELSE
            /\ ended = 0 /\ marks = 0 /\ queue = 0 /\ worker = 0 /\ written = 0 /\ told = 0
            /\ recapRestarts = 0 /\ failed = 0
    /\ IF part = "dreams" THEN D!Init ELSE
            /\ log = 0 /\ day = 0 /\ dated = 0 /\ episodes = 0 /\ facts = 0 /\ forgotten = 0
            /\ dreams = 0 /\ writing = 0 /\ cut = 0 /\ restarts = 0
    /\ IF part = "picks" THEN P!Init ELSE
            /\ shelf = 0 /\ ships = 0 /\ shipped = 0 /\ gitSkill = 0 /\ mover = 0 /\ shown = 0
            /\ served = 0 /\ held = 0 /\ staged = 0 /\ supplies = 0 /\ hubStops = 0
    /\ IF part = "ticket" THEN T!Init ELSE
            /\ issue = 0 /\ run = 0 /\ owed = 0 /\ tree = 0 /\ refs = 0 /\ has = 0 /\ at = 0
            /\ own = 0 /\ pull = 0 /\ thread = 0 /\ blocker = 0 /\ landed = 0 /\ made = 0
            /\ missed = 0 /\ used = 0
    /\ IF part = "snapshots" THEN S!Init ELSE
            /\ files = 0 /\ rules = 0 /\ index = 0 /\ indexLock = 0 /\ trees = 0 /\ turnLog = 0
            /\ turn = 0 /\ job = 0 /\ rebuilding = 0 /\ lost = 0 /\ spent = 0
    /\ IF part = "configuration" THEN C!Init ELSE
            /\ folder = 0 /\ logged = 0 /\ grant = 0 /\ lock = 0 /\ edit = 0 /\ off = 0
            /\ answer = 0 /\ crossed = 0 /\ torn = 0 /\ times = 0

\* A step of one part leaves the others alone.
Recap ==
    /\ part = "recap" /\ R!Next
    /\ UNCHANGED <<part, dreamsVars, picksVars, ticketVars, snapshotsVars, configurationVars>>
Dreams ==
    /\ part = "dreams" /\ D!Next
    /\ UNCHANGED <<part, recapVars, picksVars, ticketVars, snapshotsVars, configurationVars>>
Picks ==
    /\ part = "picks" /\ P!Next
    /\ UNCHANGED <<part, recapVars, dreamsVars, ticketVars, snapshotsVars, configurationVars>>
Ticket ==
    /\ part = "ticket" /\ T!Next
    /\ UNCHANGED <<part, recapVars, dreamsVars, picksVars, snapshotsVars, configurationVars>>
Snapshots ==
    /\ part = "snapshots" /\ S!Next
    /\ UNCHANGED <<part, recapVars, dreamsVars, picksVars, ticketVars, configurationVars>>
Configuration ==
    /\ part = "configuration" /\ C!Next
    /\ UNCHANGED <<part, recapVars, dreamsVars, picksVars, ticketVars, snapshotsVars>>

Next == Recap \/ Dreams \/ Picks \/ Ticket \/ Snapshots \/ Configuration

Spec == Init /\ [][Next]_vars

\* A text is told from another only by being another.
Symmetry == Permutations(Texts)

-----------------------------------------------------------------------------

\* No recap is forgotten or marked twice, and a stop leaves one episode (Recap).
RecapOwed == part = "recap" => R!RecapOwed

\* Facts have the events and the episodes they need, and every one is reflected on (Dreams).
DreamsInv == part = "dreams" => D!DreamsInv

\* What the agent made of its copy stays (Picks).
AgentsKept == [][part = "picks" => P!CopyStays]_picksVars

\* The work of a run that is not over is never thrown away (Ticket).
WorkKept == [][part = "ticket" => T!WorkStays]_ticketVars

\* A push never discards what someone else pushed since the last fetch (Ticket).
PushesKept == part = "ticket" => T!PushesKept

\* A snapshot is one moment's workspace, and what a revert overwrites is in one (Snapshots).
SnapshotsInv == part = "snapshots" => S!SnapshotsInv

\* An edit lands over what its caller read, and leaves no grant of what is no longer there
\* (Configuration).
ConfigurationInv == part = "configuration" => C!ConfigurationInv
=============================================================================
