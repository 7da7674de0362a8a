CONSTANTS
    d1 = d1
    None = None
    Daemon = {d1}
    Req = {1, 2}
    Kinds = {"push", "query", "notdict"}
    MaxProcessed = 2
    MaxRate = 1
    Faults = {"spawn", "stream"}
SPECIFICATION FairSpec
CHECK_DEADLOCK FALSE
PROPERTY EveryRequestAnswered
