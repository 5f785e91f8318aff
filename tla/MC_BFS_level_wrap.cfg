\* Single-source BFS on the path 0 - 1 - 2 - 3 - 4 with levels two bits
\* wide: the path is longer than the largest level below the unvisited one.
CONSTANTS
    NumWorkers = 2
    Labels = {0, 1, 2, 3, 4}
    Edges <- MCPath
    Threshold = 3
    ShardOf <- MCShardOf
    BfsSource = 0
    LevelBits = 2
    RecvInSend = FALSE
SPECIFICATION Spec
INVARIANT BFSResult
