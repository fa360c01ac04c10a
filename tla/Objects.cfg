SPECIFICATION Spec
CONSTANTS
    Callers = {r1, r2}
    Ids = {i1, i2}
    Properties <- ThreeProperties
    Contents <- ThreeContents
    Variants = {v1, v2}
    Paths = {p1}
    Manifests = {m1, m2}
    None = None
    MayFail = TRUE
    MaxJobs = 3
INVARIANT TypeOK
INVARIANT AcknowledgedIsFound
INVARIANT LoadedClaimsVerify
INVARIANT DeployedIsFound
INVARIANT ServedIsUploaded
CHECK_DEADLOCK FALSE
SYMMETRY Symmetry
