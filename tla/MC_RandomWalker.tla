--------------------------- MODULE MC_RandomWalker ---------------------------
(***************************************************************************)
(* A walker from vertex 0 on three vertices: 0 -> 1 costs 1, 1 -> 2 is a   *)
(* redirect (cost 0), 1 -> 0 is an edge next() skips, and 2 is a sink, so  *)
(* moves, skips, restarts and the attempt limit all occur.                 *)
(***************************************************************************)
EXTENDS RandomWalker

MCVertices == 0 .. 2

MCEdges == {[src |-> 0, trg |-> 1, redirect |-> FALSE, skip |-> FALSE],
            [src |-> 1, trg |-> 2, redirect |-> TRUE,  skip |-> FALSE],
            [src |-> 1, trg |-> 0, redirect |-> FALSE, skip |-> TRUE]}

================================================================================
