SPECIFICATION Spec
CONSTANTS
    Clients = {c1, c2}
    Nodes = {n1}
    Items = {i1, i2}
    ValidClaims = {i1}
    SubscribeModes = {TRUE, FALSE}
    Restarts = TRUE
    MayFail = TRUE
    MaxJobs = 3
INVARIANT TypeOK
INVARIANT PublishedWhatWasSent
INVARIANT ServesPublished
INVARIANT PublishedIsStored
PROPERTY PublishedStays
PROPERTY ImplementsPublication
SYMMETRY ClientSymmetry
CHECK_DEADLOCK FALSE
