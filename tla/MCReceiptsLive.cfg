SPECIFICATION FairSpec
CONSTANTS
    c1 = c1
    c2 = c2
    id1 = id1
    id2 = id2
    p1 = p1
    p2 = p2
    Clients <- TwoClients
    Lifetime = 1
    Skew = 1
    Ids <- TwoIds
    Params = {p1}
    Issued <- Present
    Limit = 1
    Mishaps = {"crash", "io", "drop"}
    MaxMishaps = 1
    MaxClock = 2
INVARIANTS
    HistoryLoads
PROPERTIES
    RequestsAreAnswered
CHECK_DEADLOCK FALSE
