------------------------------- MODULE MC_KBFS -------------------------------
(***************************************************************************)
(* Model-checking instance of KBFS: two ranks and a six-vertex graph with  *)
(* two delegates (labels 0 and 1, degree 3) whose masters are different    *)
(* ranks and whose edges are sharded over both ranks.                      *)
(* The edges form the cycle 2 - 0 - 3 - 1 - 5 - 2 with the path 0 - 4 - 1 *)
(* across it.                                                              *)
(***************************************************************************)
EXTENDS KBFS

\* Each undirected edge is given in both directions, as the builder expects.
Undirected(P) == P \cup {<<e[2], e[1]>> : e \in P}

MCEdges == Undirected({<<0, 2>>, <<0, 3>>, <<0, 4>>, <<1, 3>>, <<1, 4>>,
                       <<1, 5>>, <<2, 5>>})

\* A delegate edge is stored with the owner of its target.
MCShardOf(d, t) == t % NumWorkers

\* Two owned sources on different ranks, whose neighbours are exactly the
\* two delegates: level 1 visits only delegates.
MCSources == <<3, 4>>

\* A delegate as source.
MCDelegateSource == <<0>>

=============================================================================
