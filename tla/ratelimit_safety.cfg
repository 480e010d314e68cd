SPECIFICATION Spec
CONSTANTS
    t1 = t1
    t2 = t2
    t3 = t3
    c1 = c1
    c2 = c2
    None = None
    Clients = {c1, c2}
    Requests = {t1, t2, t3}
    Limit = 1
    W = 3
    MaxRetries = 1
    LastArrival = 5
    LastTick = 6
SYMMETRY RequestSymmetry
INVARIANTS
    LimitHeld
    TwiceTheLimit
    RefusedForOwnTraffic
    RetryAfterEscapes
    ExpiryAccounted
