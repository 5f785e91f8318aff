\* Single-source BFS on a graph without delegates, 16-bit levels.
CONSTANTS
    NumWorkers = 2
    Labels = {0, 1, 2, 3, 4}
    Edges <- MCMesh
    Threshold = 4
    ShardOf <- MCShardOf
    BfsSource = 0
    LevelBits = 16
    RecvInSend = FALSE
SPECIFICATION Spec
INVARIANT TypeOK
INVARIANT BFSResult
PROPERTY BFSTerminates
