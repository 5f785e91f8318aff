------------------------------ MODULE MC_STPath ------------------------------
(***************************************************************************)
(* An undirected graph on five vertices: a triangle 0-1-2 with a tail 2-3  *)
(* and the isolated vertex 4, so that targets are found at distance 1 and  *)
(* 2, by two shortest paths or one, and not found at all.                  *)
(***************************************************************************)
EXTENDS STPath

MCVertices == 0 .. 4

MCEdges == LET und == {<<0, 1>>, <<1, 2>>, <<0, 2>>, <<2, 3>>}
           IN  und \cup {<<e[2], e[1]>> : e \in und}

================================================================================
