\* Every source/target pair and every vertex order; size_t of 3 bits holds
\* every level these searches reach (at most 3).
CONSTANTS
    Vertices <- MCVertices
    Edges <- MCEdges
    NoVertex = NoVertex
    SizeBits = 3
    PathCap = 25
SPECIFICATION Spec
INVARIANTS LevelsExact PathCorrect
PROPERTIES Returns
