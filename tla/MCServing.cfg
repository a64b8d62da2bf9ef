\* The desk with one channel and two replies, a queue of one item and two drops, four calls for two pages; a bot and an email channel.
SPECIFICATION ServingSpec
CONSTANTS
    ask = ask
    ok = ok
    stop = stop
    cap = cap
    Notes = {ask, ok, stop, cap}
    Channels = {c1}
    Kind <- MCKind
    Cases <- MCCases
    MaxReplies = 2
    Cap = 1
    App = app
    NoReply = none
    MaxRestarts = 1
    MaxSettings = 1
    Limit = 1
    MaxEvents = 3
    MaxDrops = 2
    MaxLeaves = 1
    Pages = {"p", "q"}
    BrowserCap = 1
    MaxCalls = 4
    MaxDeaths = 1
    Ids = {"bot", "email"}
    Bots = {"bot"}
    Texts = {1}
    Tokens = {1, 2}
    Users = {u1, u2}
    Nobody = nobody
    Requests = {r1, r2}
    MaxSetups = 3
    MaxHeard = 2
    MaxBoth = 3
    MaxStops = 1
INVARIANTS DeskInv NeverUnderneath PairingInv
PROPERTIES DeskSettles ImplementsFeed IdleStops
CHECK_DEADLOCK FALSE
