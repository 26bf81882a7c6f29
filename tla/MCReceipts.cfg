SPECIFICATION Spec
CONSTANTS
    c1 = c1
    c2 = c2
    id1 = id1
    id2 = id2
    p1 = p1
    p2 = p2
    Clients <- TwoClients
    Ids <- TwoIds
    Lifetime = 1
    Skew = 1
    Params <- TwoParams
    Issued <- OneAhead
    Limit = 2
    Mishaps = {"crash", "io"}
    MaxMishaps = 2
    MaxClock = 2
INVARIANTS
    AtMostOnce
    AnswersAreHonest
SYMMETRY Symmetric
CHECK_DEADLOCK FALSE
