CONSTANTS
    d1 = d1
    d2 = d2
    d3 = d3
    None = None
    Daemon = {d1, d2, d3}
    Req = {1, 2}
    Kinds = {"push", "query", "invalid", "garbage", "notdict"}
    MaxProcessed = 1
    MaxRate = 1
    Faults = {"crash", "spawn", "stream", "ttl"}
SPECIFICATION Spec
CHECK_DEADLOCK FALSE
SYMMETRY DaemonSymmetry
CONSTRAINT OneOrTheOther
INVARIANTS
    TypeOK
    PushExclusive
    LockHasOwner
    OkMeansSucceeded
    RefusedMeansNotStarted
PROPERTIES
    AtMostOncePerDaemon
    ServesCommands
