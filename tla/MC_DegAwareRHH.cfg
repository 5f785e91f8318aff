\* Threshold 2, the code's default: a second edge migrates to a chunk and
\* an erase from a two-edge chunk migrates back.
CONSTANTS
    Vertices <- MCVertices
    Weights <- MCWeights
    Props <- MCProps
    DefaultProp = 0
    Threshold = 2
    MaxEdges = 4
    NoRet = NoRet
SPECIFICATION Spec
INVARIANTS TypeOK DegreeSplit
PROPERTIES Refines
