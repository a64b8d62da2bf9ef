\* Two turns and a run's stop to recap; two episodes and three dreams; two texts of a skill;
\* two runs of an issue, whose coding client and someone else make two commits; two turns and two
\* reverts of two files; two edits of two routines and a file, with a disable, an answer and a crash or an interrupt.
SPECIFICATION Spec
CONSTANTS
    Work = {w1, w2, s1}
    Stops = {s1}
    MaxTold = 2
    MaxRecapRestarts = 2
    MaxFailures = 1
    MaxEpisodes = 2
    MIN_SOURCES = 1
    PruneAge = 0
    MaxDays = 1
    MaxDreams = 3
    MaxTroubles = 1
    MaxMoments = 4
    Texts = {a, b}
    MaxHubStops = 1
    MaxRuns = 2
    MaxCommits = 2
    MaxMishaps = 1
    MaxActs = 2
    MaxUserActs = 1
    Files = {"x", "y"}
    Ignorable = {"y"}
    Contents = {"a", "b"}
    Threads = {"t", "u"}
    MaxTurns = 2
    MaxEdits = 2
    MaxReverts = 2
    MaxGitTroubles = 1
    Routines = {"r", "q"}
    Skills = {}
    Singles = {"f"}
    Existing = {"r", "f"}
    Editors = {e1, e2}
    Nobody = nobody
    MaxChanges = 2
    MaxOffs = 1
    MaxAnswers = 1
    MaxCuts = 1
    MaxAtOnce = 3
INVARIANTS SnapshotsInv RecapOwed DreamsInv PushesKept ConfigurationInv
PROPERTIES AgentsKept WorkKept
SYMMETRY Symmetry
CHECK_DEADLOCK FALSE
