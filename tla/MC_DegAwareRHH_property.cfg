\* Threshold 3, so that a vertex can hold two rows in the low-degree table.
CONSTANTS
    Vertices <- MCVertices
    Weights <- MCWeights
    Props <- MCProps
    DefaultProp = 0
    Threshold = 3
    MaxEdges = 3
    NoRet = NoRet
SPECIFICATION Spec
INVARIANTS PropertyReadBack
