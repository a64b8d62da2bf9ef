\* One routine, a delivery from its provider and a payload from the user; each trouble once.
SPECIFICATION FairSpec
CONSTANTS
    scan = scan
    push = push
    payload = payload
    Nobody = Nobody
    Nothing = Nothing
    Routines = {scan}
    Deliveries = {push, payload}
    For <- ForScan
    Manual = {payload}
    DISABLE_AFTER = 2
    TornAt = {"start", "policy", "notice"}
    MaxFirings = 1
    MaxEdits = 1
    MaxNotes = 1
    MaxTroubles = 1
    MaxRestarts = 1
INVARIANTS DeliveriesKept NotifiedOnce
PROPERTIES FreshStart DeliveriesFire NoticesReach
CHECK_DEADLOCK FALSE
