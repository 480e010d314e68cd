SPECIFICATION FairSpec
CONSTANTS
    p1 = p1
    p2 = p2
    r1 = r1
    r2 = r2
    None = None
    Procs = {p1, p2}
    Requests = {r1, r2}
    Served = {200}
    Environments <- OneVariable
ACTION_CONSTRAINT TakesOver
INVARIANTS
    TypeOK
    Audited
    TrailTruthful
    OrderlyStop
PROPERTIES
    ImplementsAuditLog
    SignalEndsRun
