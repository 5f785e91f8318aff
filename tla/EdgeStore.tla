------------------------------- MODULE EdgeStore -------------------------------
(***************************************************************************)
(* What a dynamic graph store promises its caller: a multiset of weighted  *)
(* directed edges.  insert_edge adds an edge unless one with the same      *)
(* source and target is present, insert_edge_dup always adds, erase_edge  *)
(* removes one (source, target) edge, erase_edge_dup removes all of them,  *)
(* degree counts the edges out of a vertex, a write through the weight of  *)
(* one (source, target) edge changes that edge's weight, and clear empties *)
(* the store.                                                              *)
(* ok and cnt are what the last call returned (NoRet where it returns    *)
(* nothing of that type).                                                 *)
(***************************************************************************)
EXTENDS Naturals, Bags, BagsExt

CONSTANTS Vertices, Weights, NoRet

VARIABLES edges,
          ok,   \* what the last bool call returned, else NoRet
          cnt   \* what the last size_type call returned, else NoRet

\* The call returns the bool b or the count n.
Answer(b, n) == ok' = b /\ cnt' = n

Edge == [src : Vertices, trg : Vertices, w : Weights]

\* The stored edges from s to t, whatever their weight.
Matching(s, t) == {e \in BagToSet(edges) : e.src = s /\ e.trg = t}

OutDegree(v) == BagCardinality([e \in {x \in BagToSet(edges) : x.src = v} |-> edges[e]])

Init == edges = EmptyBag /\ ok = NoRet /\ cnt = NoRet

InsertEdge(s, t, w) ==
    IF Matching(s, t) # {}
    THEN Answer(FALSE, NoRet) /\ UNCHANGED edges
    ELSE Answer(TRUE, NoRet) /\ edges' = BagAdd(edges, [src |-> s, trg |-> t, w |-> w])

InsertEdgeDup(s, t, w) ==
    edges' = BagAdd(edges, [src |-> s, trg |-> t, w |-> w]) /\ Answer(NoRet, NoRet)

EraseEdge(s, t) ==
    IF Matching(s, t) = {}
    THEN Answer(FALSE, NoRet) /\ UNCHANGED edges
    ELSE \E e \in Matching(s, t) : edges' = BagRemove(edges, e) /\ Answer(TRUE, NoRet)

EraseEdgeDup(s, t) ==
    /\ edges' = [e \in BagToSet(edges) \ Matching(s, t) |-> edges[e]]
    /\ Answer(NoRet, BagCardinality([e \in Matching(s, t) |-> edges[e]]))

Degree(v) == Answer(NoRet, OutDegree(v)) /\ UNCHANGED edges

\* One stored edge from s to t gets weight w.
SetWeight(s, t, w) ==
    /\ \E e \in Matching(s, t) :
          edges' = BagAdd(BagRemove(edges, e), [e EXCEPT !.w = w])
    /\ Answer(NoRet, NoRet)

Clear == edges' = EmptyBag /\ Answer(NoRet, NoRet)

\* A call that leaves the edges alone and returns nothing (a vertex
\* property write).
Touch == Answer(NoRet, NoRet) /\ UNCHANGED edges

Next ==
    \/ \E s, t \in Vertices, w \in Weights :
          InsertEdge(s, t, w) \/ InsertEdgeDup(s, t, w) \/ SetWeight(s, t, w)
    \/ \E s, t \in Vertices : EraseEdge(s, t) \/ EraseEdgeDup(s, t)
    \/ \E v \in Vertices : Degree(v)
    \/ Clear
    \/ Touch

Spec == Init /\ [][Next]_<<edges, ok, cnt>>

================================================================================
