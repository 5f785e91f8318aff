---------------------------- MODULE MC_DegAwareRHH ----------------------------
(***************************************************************************)
(* Instances of the degree-aware store: two vertices (so a vertex can have *)
(* a self loop and an edge to another), two weights (so edges that differ  *)
(* only in weight, and duplicates, occur), two property values.            *)
(***************************************************************************)
EXTENDS DegAwareRHH

MCVertices == {1, 2}
MCWeights  == {0, 1}
MCProps    == {0, 1}

\* The stored edges and returns seen by the abstract store.
MCView == <<ldeg, mhdeg, numEdges, ok, cnt, lastSet>>

================================================================================
