\* One turn of each kind and one revert over three threads, and a restart.
SPECIFICATION Spec
CONSTANTS
    u1 = u1
    u2 = u2
    r1 = r1
    s1 = s1
    v1 = v1
    th1 = th1
    th2 = th2
    th3 = th3
    Threads = {th1, th2, th3}
    UserTurns = {u1}
    RoutineTurns = {r1}
    Deliveries = {r1}
    StepTurns = {s1}
    Reverts = {v1}
    Previews = {}
    AskKinds = {"approval"}
    MaxAsks = 1
    MaxRestarts = 1
    NoTurn = NoTurn
    NoThread = NoThread
SYMMETRY Symmetry
CHECK_DEADLOCK FALSE
INVARIANTS TypeOK RoutineAlone StepAlone RevertClaimAlone SealedIsQuiet NoLostWakeup
PROPERTY ClosedIsFinal
