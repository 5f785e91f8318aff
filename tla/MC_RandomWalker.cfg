\* max_steps 4 lets a walker reach the sink and keep walking after a
\* restart; two attempts reach the restart limit.
CONSTANTS
    Vertices <- MCVertices
    WalkEdges <- MCEdges
    Start = 0
    MaxSteps = 4
    MaxAttempts = 2
    DeathPossible = TRUE
    NoEdge = NoEdge
SPECIFICATION Spec
INVARIANTS WalkerBounds
PROPERTIES WalkEnds
