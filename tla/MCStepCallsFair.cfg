\* Two steps, so that a run goes on; every loss and restart happens at most once.
SPECIFICATION FairSpec
CONSTANTS
    LastStep = 2
    Retries = 1
    MaxUserRetries = 0
    MaxHubRestarts = 1
    MaxTornRestarts = 0
    MaxInstanceRestarts = 1
    MaxLosses = 1
    MayRemove = TRUE
    NoCall = NoCall
CHECK_DEADLOCK FALSE
PROPERTY StepsEnd
