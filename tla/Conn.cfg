SPECIFICATION Spec
CONSTANTS
    Clients = {c1, c2}
    Batches = {b1, b2, b3}
    Nobody = Nobody
    MaxFetches = 2
INVARIANT TypeOK
INVARIANT BatchesAreWhole
INVARIANT StoredHasBatch
INVARIANT UntilAnUpdate
SYMMETRY ClientSymmetry
CHECK_DEADLOCK FALSE
