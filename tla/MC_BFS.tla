------------------------------- MODULE MC_BFS --------------------------------
(***************************************************************************)
(* Model-checking instances of BFS on two ranks.                           *)
(***************************************************************************)
EXTENDS BFS

\* Each undirected edge is given in both directions, as the builder expects.
Undirected(P) == P \cup {<<e[2], e[1]>> : e \in P}

\* The path 0 - 1 - 2 - 3 - 4.
MCPath == Undirected({<<0, 1>>, <<1, 2>>, <<2, 3>>, <<3, 4>>})

\* The cycle 0 - 1 - 2 - 3 - 4 - 0 with the chord 1 - 3: no vertex of degree
\* 4, so with threshold 4 nothing is a delegate, and 3 is reached both at
\* level 2 (through 1 or 4) and at level 3 (through 2).
MCMesh == Undirected({<<0, 1>>, <<1, 2>>, <<2, 3>>, <<3, 4>>, <<4, 0>>,
                      <<1, 3>>})

\* The six-vertex graph of MC_KBFS: delegates 0 and 1 (threshold 3),
\* mastered on ranks 0 and 1, edges sharded by target.
MCDelegated == Undirected({<<0, 2>>, <<0, 3>>, <<0, 4>>, <<1, 3>>, <<1, 4>>,
                           <<1, 5>>, <<2, 5>>})

MCShardOf(d, t) == t % NumWorkers

=============================================================================
