SPECIFICATION Spec
CONSTANTS
    c1 = c1
    c2 = c2
    id1 = id1
    id2 = id2
    p1 = p1
    p2 = p2
    Clients <- TwoClients
    Lifetime = 1
    Skew = 1
    Ids <- TwoIds
    Params = {p1}
    Issued <- Present
    Limit = 2
    Mishaps = {"drop"}
    MaxMishaps = 1
    MaxClock = 0
INVARIANT
    AtMostOnce
CHECK_DEADLOCK FALSE
