\* Two runs that share the workers; a restart and a call that does not get through.
SPECIFICATION FairSpec
CONSTANTS
    a = a
    b = b
    coder = coder
    intake = intake
    Runs = {a, b}
    LastStep = 3
    Factories <- MCBabysitting
    Instances = {coder, intake}
    Home = intake
    Caller = coder
    MaxUserMoves = 0
    MaxRestarts = 1
    MaxTorn = 0
    MaxLimited = 0
    MaxSignals = 0
    MaxRefused = 0
    MaxUnsent = 1
    MaxTroubles = 2
    NoRun = NoRun
    NoWork = NoWork
CHECK_DEADLOCK FALSE
PROPERTIES RunsRest CallsMade
