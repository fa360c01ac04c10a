SPECIFICATION FairSpec
CONSTANTS
    None = None
    Main = Main
    Stopper = Stopper
    r1 = r1
    r2 = r2
    Requests <- TwoRequests
    RootDapps = {TRUE, FALSE}
    MayFail = TRUE
INVARIANT TypeOK
INVARIANT OneClient
INVARIANT CachesAgree
INVARIANT OnlyRootDappDeadlocks
PROPERTY StartReturns
PROPERTY RequestReturns
PROPERTY CancelExits
CHECK_DEADLOCK FALSE
