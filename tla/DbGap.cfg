SPECIFICATION Spec
CONSTANTS
    None = None
    Names = {n1}
    Addrs = {a1}
    HexToAddress <- OneAddress
    Openers = {p1}
    Setters = {s1}
    Dbs = {d1}
    Faults = {}
    Subscribes = TRUE
    MaxSets = 1
INVARIANT ConnsFollowRegistry
