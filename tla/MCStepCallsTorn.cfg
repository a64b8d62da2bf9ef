\* A restart of the hub between the two transactions of one settling.
SPECIFICATION Spec
CONSTANTS
    LastStep = 1
    Retries = 1
    MaxUserRetries = 1
    MaxHubRestarts = 1
    MaxTornRestarts = 1
    MaxInstanceRestarts = 0
    MaxLosses = 0
    MayRemove = FALSE
    NoCall = NoCall
CHECK_DEADLOCK FALSE
INVARIANTS NeverStranded
