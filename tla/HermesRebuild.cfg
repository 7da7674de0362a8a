\* Four bridges (two calls, two waiters), two rebuilds, two faults.
SPECIFICATION MCSpec
CONSTANTS
    Bridge = {1, 2, 3, 4}
    Rebuild = {1, 2}
    None = None
    MaxFaults = 2
INVARIANTS
    TypeOK
    ServesAfterwards
    NameIsWhatRuns
    PoisonNeverStopsStack
    OneRebuildUnlessRaced
    OneWaiter
PROPERTIES
    SuccessIsNew
    ChatsKept
    WaiterEnds
CHECK_DEADLOCK FALSE
