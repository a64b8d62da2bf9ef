\* A forced drain beside a user's turn and a delivery that park on takeovers.
SPECIFICATION FairSpec
CONSTANTS
    u1 = u1
    u2 = u2
    r1 = r1
    s1 = s1
    v1 = v1
    th1 = th1
    th2 = th2
    th3 = th3
    Threads = {th1, th2}
    UserTurns = {u1}
    RoutineTurns = {r1}
    Deliveries = {r1}
    StepTurns = {}
    Reverts = {}
    Previews = {}
    AskKinds = {"takeover"}
    MaxAsks = 1
    MaxRestarts = 0
    NoTurn = NoTurn
    NoThread = NoThread
CHECK_DEADLOCK FALSE
PROPERTY ForcedDrainEnds
