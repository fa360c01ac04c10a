SPECIFICATION FairSpec
CONSTANTS
    None = None
    Names = {n1}
    Addrs = {a1}
    HexToAddress <- OneAddress
    Openers = {p1, p2}
    Setters = {s1}
    Dbs = {d1}
    Faults = {}
    Subscribes = TRUE
    MaxSets = 2
PROPERTY OpenAndCloseReturn
PROPERTY SetGraphReturns
PROPERTY UpdateReachesConns
