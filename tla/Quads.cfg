SPECIFICATION Spec
CONSTANTS
    a = a
    b = b
    c = c
    Nil = Nil
    Values = {a, b, c}
    Quads <- SharedQuads
    ActionSets = {{"add"}, {"add", "delete"}}
    MaxBatch = 2
    MaxRefs = 4
INVARIANT TypeOK
INVARIANT AddedQuadsHaveNodes
INVARIANT NodesAreUsed
