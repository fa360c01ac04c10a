SPECIFICATION FairSpec
CONSTANTS
    None = None
    Zero = Zero
    Empty = Empty
    Malformed = Malformed
    Addrs = {a1}
    Messages = {m1, m2}
    Signed = {m1}
    Callers = {p1, p2}
    Txs = {1, 2}
    BlockTimeout = 1
    MaxHeads = 1
    RpcFails = TRUE
INVARIANT TypeOK
INVARIANT OnlySignedGraphs
PROPERTY ImplementsSignedRegister
PROPERTY DoReturns
PROPERTY MinedIsReported
PROPERTY CloseReleases
