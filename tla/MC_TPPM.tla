------------------------------- MODULE MC_TPPM -------------------------------
(***************************************************************************)
(* Model-checking instance of TPPM on two ranks: the triangle 0 - 1 - 2    *)
(* with the pendant edge 2 - 3, target 0, and walks of three edges.        *)
(* Vertex 2 has degree 3 and is the only delegate (threshold 3), mastered  *)
(* on rank 0 with its edges sharded by target, so tokens through it are    *)
(* broadcast and forwarded from both shards.  The metadata of 2 matches    *)
(* the pattern entry read at hop 1 and that of 1 the entry read at hop 2:  *)
(* 0-2-1-0 is accepted; 0-1-2-0 is dropped at 1, the token from 2 to 3 is *)
(* dropped at 3, and the tokens that come back to 0 after one hop or end   *)
(* their last hop away from 0 are dropped there.                           *)
(***************************************************************************)
EXTENDS TPPM

\* Each undirected edge is given in both directions, as the builder expects.
Undirected(P) == P \cup {<<e[2], e[1]>> : e \in P}

MCEdges == Undirected({<<0, 1>>, <<1, 2>>, <<2, 0>>, <<2, 3>>})

\* A delegate edge is stored with the owner of its target.
MCShardOf(d, t) == t % NumWorkers

MCMeta == (0 :> 0) @@ (1 :> 2) @@ (2 :> 1) @@ (3 :> 1)

MCPattern == (0 :> 0) @@ (1 :> 1) @@ (2 :> 2)

\* Hop k reads pattern_indices[1 + k]: entry 1 at hop 1, entry 2 at hop 2.
MCPatternIndices == (0 :> 0) @@ (1 :> 0) @@ (2 :> 1) @@ (3 :> 2)

=============================================================================
