\* Single-source BFS from vertex 2 on the graph of MC_KBFS, with delegates
\* 0 and 1: vertex 3 is at distance 2 through delegate 0, but the edge
\* 0 - 3 is stored on rank 1, which is not 0's master.
CONSTANTS
    NumWorkers = 2
    Labels = {0, 1, 2, 3, 4, 5}
    Edges <- MCDelegated
    Threshold = 3
    ShardOf <- MCShardOf
    BfsSource = 2
    LevelBits = 16
    RecvInSend = FALSE
SPECIFICATION Spec
INVARIANT BFSResult
