\* One attempted step with retries, restarts, losses; one run through each of two factories; five
\* attempts of each line of MCLines; and two messages of two tool calls with one edit elsewhere.
SPECIFICATION WorkSpec
CONSTANTS
    coder = coder
    intake = intake
    LastStep = 1
    Retries = 1
    MaxUserRetries = 1
    MaxHubRestarts = 1
    MaxTornRestarts = 0
    MaxInstanceRestarts = 1
    MaxLosses = 1
    MayRemove = TRUE
    NoCall = NoCall
    a = a
    Runs = {a}
    Factories <- MCRunFactories
    Instances = {coder, intake}
    Home = intake
    Caller = coder
    LastOfRun = 3
    MaxUserMoves = 1
    MaxRestarts = 1
    MaxTorn = 1
    MaxLimited = 1
    MaxSignals = 1
    MaxRefused = 1
    MaxUnsent = 1
    MaxTroubles = 4
    NoRun = NoRun
    NoWork = NoWork
    LineFactories <- MCLineFactories
    MaxAttempts = 5
    MaxRestartsByUser = 1
    MaxWindows = 1
    mcp = mcp
    own = own
    codeStep = codeStep
    Tools = {mcp, own, codeStep}
    Authored = {own}
    CodeStep = codeStep
    Policies <- TurnPolicies
    MaxCalls = 2
    MaxRounds = 2
    MaxEdits = 1
    MaxTurnRestarts = 1
INVARIANTS StepCallsInv RunDriver RunValuesInv OwnAnswer RanOnce NoStaleGrant
PROPERTIES ImplementsStepOnce FinishedIsFinal
CHECK_DEADLOCK FALSE
