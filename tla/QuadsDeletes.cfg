SPECIFICATION Spec
CONSTANTS
    a = a
    b = b
    c = c
    Nil = Nil
    Values = {a, b, c}
    Quads <- SharedQuads
    ActionSets = {{"add", "delete"}}
    MaxBatch = 1
    MaxRefs = 4
INVARIANT QuadsHaveNodes
