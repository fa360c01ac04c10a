SPECIFICATION FairSpec
CONSTANTS
    None = None
    Main = Main
    Stopper = Stopper
    r1 = r1
    r2 = r2
    Requests <- TwoRequests
    RootDapps = {TRUE}
    MayFail = TRUE
PROPERTY RootDappStarts
CHECK_DEADLOCK FALSE
