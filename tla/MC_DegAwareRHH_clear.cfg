\* num_edges() after clear().
CONSTANTS
    Vertices <- MCVertices
    Weights <- MCWeights
    Props <- MCProps
    DefaultProp = 0
    Threshold = 2
    MaxEdges = 3
    NoRet = NoRet
SPECIFICATION Spec
INVARIANTS NumEdgesCount
