CONSTANTS
    d1 = d1
    d2 = d2
    None = None
    Daemon = {d1, d2}
    Req = {1, 2}
    Kinds = {"push"}
    MaxProcessed = 2
    MaxRate = 1
    Faults = {"crash", "stream", "ttl"}
SPECIFICATION Spec
CHECK_DEADLOCK FALSE
INVARIANT PushNeverConcurrent
