\* One form, one failed call: does an error leave it retryable?
SPECIFICATION Spec
CONSTANTS
    None = None
    t1 = t1
    t2 = t2
    j1 = j1
    j2 = j2
    Tab = {t1, t2}
    Job = {j1, j2}
    MaxCarts = 3
    MaxQuantity = 4
    MAX_ATTEMPTS = 6
    MaxFaults = 2
    MaxAsked = 3
    Loads <- MCLoads
INVARIANT RetryableAfterError
CHECK_DEADLOCK FALSE
