SPECIFICATION FairSpec
CONSTANTS
    None = None
    Names = {n1}
    Addrs = {a1}
    HexToAddress <- OneAddress
    Openers = {p1, p2}
    Setters = {s1}
    Dbs = {d1, d2}
    Faults = {"fetch"}
    Subscribes = TRUE
    MaxSets = 1
PROPERTY OpenAndCloseReturn
CHECK_DEADLOCK FALSE
