\* Every load of the Medusa process, up to two product writes, one fault, one restart.
SPECIFICATION Spec
CONSTANTS
    None = None
    Search = {s1, s2, s3}
    Request = {r1, r2}
    Handler = {h1, h2}
    Currency = {"usd", "eur"}
    Asked = {"facets", "index", "sorted"}
    MaxProducts = 2
    MaxOrderEvents = 3
    MaxRequests = 3
    MaxFaults = 1
    MaxLives = 2
    Loads <- MCLoads
SYMMETRY Symmetry
INVARIANTS
    TypeOK
    RebuildsCoalesced
    StaleOnlyIfOverlapped
    PromiseLive
    StaleOnlyAcrossRestart
    SingleFlight
    JoinedIsBuilding
    CountsExactUnlessContended
CHECK_DEADLOCK FALSE
