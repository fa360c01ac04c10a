SPECIFICATION Spec
CONSTANTS
    None = None
    Names = {n1}
    Addrs = {a1}
    HexToAddress <- OneAddress
    Openers = {p1, p2}
    Setters = {s1, s2}
    Dbs = {d1, d2}
    Faults = {"registry", "fetch", "sqlite"}
    Subscribes = TRUE
    MaxSets = 3
INVARIANT TypeOK
INVARIANT OneFetcherPerPath
INVARIANT SubscribersAreInTable
INVARIANT OpenConnsAreRegistered
INVARIANT OnlyTwoDeadlocks
PROPERTY ImplementsReplica
CHECK_DEADLOCK FALSE
SYMMETRY Symmetry
