-------------------------------- MODULE BFS ---------------------------------
(***************************************************************************)
(* The single-source breadth-first search of breadth_first_search_modified *)
(* .hpp: bfs_visitor on the engine's init_visitor_traversal(source).       *)
(*                                                                         *)
(* The visitor carries its level (a 16-bit field), its parent and its      *)
(* source.  pre_visit accepts a visitor at an unvisited vertex, at a lower *)
(* level from the same source, or at a higher level from another source;  *)
(* visit queues one visitor per local edge at level + 1 and returns false, *)
(* so a delegate is never broadcast.  The local queue pops in any order,   *)
(* so levels are corrected as lower ones arrive (label correcting).        *)
(*                                                                         *)
(* breadth_first_search() itself calls a traversal the engine does not     *)
(* define (init_visitor_traversal_reachability); the overload that takes  *)
(* one source is the one modelled.                                         *)
(***************************************************************************)
EXTENDS PartitionedGraph, BagsExt

CONSTANTS
    BfsSource,   \* the source vertex
    LevelBits,   \* width of m_level and of the level store (16 in the code)
    RecvInSend

ASSUME /\ BfsSource \in Labels
       /\ LevelBits \in Nat \ {0}

VARIABLES pc, lq, cq, msgs, cidx, vidx, frame, mbox,
          data    \* per rank: level_data, parent_data, source_data

vars == <<pc, lq, cq, msgs, cidx, vidx, frame, mbox, data>>

\* A default-constructed vertex_locator (owner and local id all ones).
NoLocator == -1

\* std::numeric_limits<uint16_t>::max() at this width: the unvisited level.
Unvisited == 2^LevelBits - 1

LevelVals == 0 .. Unvisited

Locators == Labels \cup {NoLocator}

BfsData == [lv : [Labels -> LevelVals], par : [Labels -> Locators],
            src : [Labels -> Locators]]

Visitor == [v : Labels, lvl : LevelVals, par : Locators, src : Locators,
            bcast : BOOLEAN]

\* bfs_visitor(vertex): level 0, its own parent, m_source default-constructed.
BNewVisitor(v) == [v |-> v, lvl |-> 0, par |-> v, src |-> NoLocator, bcast |-> FALSE]

\* Record the visitor's level, parent and (optionally) source at its vertex.
Take(vis, d, withSrc) ==
    [d EXCEPT !.lv[vis.v]  = vis.lvl,
              !.par[vis.v] = vis.par,
              !.src[vis.v] = IF withSrc THEN vis.src ELSE @]

\* bfs_visitor::pre_visit
BPreVisit(vis, d) ==
    CASE d.lv[vis.v] = Unvisited  -> [ok |-> TRUE, d |-> Take(vis, d, TRUE)]
      [] d.src[vis.v] = vis.src   -> IF d.lv[vis.v] > vis.lvl
                                     THEN [ok |-> TRUE, d |-> Take(vis, d, FALSE)]
                                     ELSE [ok |-> FALSE, d |-> d]
      [] OTHER                    -> IF d.lv[vis.v] < vis.lvl
                                     THEN [ok |-> TRUE, d |-> Take(vis, d, TRUE)]
                                     ELSE [ok |-> FALSE, d |-> d]

\* Variant of visit that does not add one to the level.
BVisitSameLevel(w, vis, d) ==
    [ret |-> FALSE, d |-> d,
     out |-> [i \in 1 .. Len(LocalEdgeSeq(w, vis.v)) |->
                [v |-> LocalEdgeSeq(w, vis.v)[i], lvl |-> vis.lvl,
                 par |-> vis.v, src |-> vis.src, bcast |-> FALSE]]]

\* bfs_visitor::visit: a visitor per local edge at level() + 1, truncated to
\* the width of m_level; never a broadcast.
BVisit(w, vis, d) ==
    [ret |-> FALSE, d |-> d,
     out |-> [i \in 1 .. Len(LocalEdgeSeq(w, vis.v)) |->
                [v |-> LocalEdgeSeq(w, vis.v)[i], lvl |-> (vis.lvl + 1) % 2^LevelBits,
                 par |-> vis.v, src |-> vis.src, bcast |-> FALSE]]]

\* bfs_visitor has no init_visit; the single-source overload never calls it.
BNoInitVisit(w, vis, d) == [ret |-> FALSE, d |-> d, out |-> <<>>]

\* operator>: by source, then level, then vertex.
BGreater(a, b) ==
    IF a.src # b.src THEN ~(a.src < b.src)
    ELSE \/ a.lvl > b.lvl
         \/ a.lvl = b.lvl /\ ~(a.v < b.v)

E == INSTANCE VisitorQueue WITH PreVisit <- BPreVisit, InitVisit <- BNoInitVisit,
                                Visit <- BVisit, NewVisitor <- BNewVisitor,
                                Greater <- BGreater,
                                Seeding <- "source", Source <- BfsSource

\* The level store reset to the unvisited level before the search.
InitBfsData == [lv  |-> [v \in Labels |-> Unvisited],
                par |-> [v \in Labels |-> NoLocator],
                src |-> [v \in Labels |-> NoLocator]]

Init ==
    /\ E!EngineInit
    /\ data = [w \in Workers |-> InitBfsData]

Terminated == E!AllDone /\ UNCHANGED vars

Next == E!EngineNext \/ Terminated

Fairness ==
    /\ \A w \in Workers : WF_vars(E!WorkerStep(w))
    /\ WF_vars(E!Quiesce)

Spec == Init /\ [][Next]_vars /\ Fairness

-----------------------------------------------------------------------------
(* Reference: breadth-first distances.                                      *)

RECURSIVE Ball(_, _)
Ball(s, n) ==
    IF n = 0 THEN {s}
    ELSE Ball(s, n - 1) \cup {t \in Labels : \E u \in Ball(s, n - 1) : <<u, t>> \in Edges}

Dist(v) ==
    LET N == Cardinality(Labels)
    IN  IF v \notin Ball(BfsSource, N) THEN Unvisited
        ELSE CHOOSE n \in 0 .. N : v \in Ball(BfsSource, n)
                                   /\ (n = 0 \/ v \notin Ball(BfsSource, n - 1))

DistTab == [v \in Labels |-> Dist(v)]

\* The slot that holds a vertex's result: its owner, or a delegate's master.
Home(v) == Owner(v)

-----------------------------------------------------------------------------
TypeOK ==
    /\ pc \in [Workers -> E!PCs]
    /\ data \in [Workers -> BfsData]
    /\ \A w \in Workers : BagToSet(lq[w]) \subseteq Visitor
    /\ \A m \in BagToSet(msgs) : m.to \in Workers /\ m.vis \in Visitor

\* When the traversal returns, every vertex's home slot holds its BFS
\* distance, and its parent is a neighbour one level closer to the source
\* (the source is its own parent).
BFSResult ==
    E!AllDone =>
        \A v \in Labels :
            LET d == data[Home(v)]
            IN  /\ d.lv[v] = DistTab[v]
                /\ DistTab[v] # Unvisited =>
                      IF v = BfsSource THEN d.par[v] = v
                      ELSE /\ <<d.par[v], v>> \in Edges
                           /\ DistTab[d.par[v]] = DistTab[v] - 1

\* The traversal returns on every rank.
BFSTerminates == <>E!AllDone

=============================================================================
