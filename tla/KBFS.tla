-------------------------------- MODULE KBFS --------------------------------
(***************************************************************************)
(* The level-synchronous multi-source BFS of                               *)
(* k_breadth_first_search_sync_level_per_source.hpp on the visitor engine. *)
(*                                                                         *)
(* Every level runs one whole-graph traversal of the engine: init_visit    *)
(* scatters the sources' bitmap of each vertex visited at the previous     *)
(* level to its neighbours (label FLOW1), pre_visit records the level for  *)
(* every source newly reaching a vertex and, for a delegate, sends the     *)
(* request on to the master, whose visit broadcasts it to every shard      *)
(* (label FLOW2).  Between two traversals every rank runs                  *)
(* update_local_vertex_data, the visited counts are all-reduced, and the   *)
(* search stops at the first level that visits nothing.                    *)
(*                                                                         *)
(* Sources are indexed 1..Len(SourceList) (the code's k = 0..K-1).        *)
(***************************************************************************)
EXTENDS PartitionedGraph, BagsExt

CONSTANTS
    SourceList,   \* source_list, a sequence of labels
    MaxLevel,     \* bound on g_current_level (the code's cap is 65535)
    RecvInSend

ASSUME /\ SourceList \in Seq(Labels) /\ SourceList # <<>>
       /\ MaxLevel \in Nat \ {0}

VARIABLES pc, lq, cq, msgs, cidx, vidx, frame, mbox,
          data,       \* per rank: kbfs_vertex_data_t and g_current_level
          lastCount,  \* num_visited_vertices of the last level
          total,      \* num_total_visited_vertices
          finished    \* the level loop has exited

vars == <<pc, lq, cq, msgs, cidx, vidx, frame, mbox, data, lastCount, total, finished>>

K == 1 .. Len(SourceList)

\* k_unvisited_level: the maximum of the 16-bit level_t
Unvisited == 65535

Levels == (0 .. MaxLevel) \cup {Unvisited}

\* The data of one rank: its copy of the process-global g_current_level and
\* its kbfs_vertex_data_t: per-source levels, the visited-sources bitmaps of
\* the previous and the current level, the visited flags of both levels.
AlgData == [cur : 1 .. MaxLevel, lv : [Labels -> [K -> Levels]], bm : [Labels -> SUBSET K],
            nbm : [Labels -> SUBSET K], vf : [Labels -> BOOLEAN],
            nvf : [Labels -> BOOLEAN]]

Visitor == [v : Labels, bm : SUBSET K, bcast : BOOLEAN]

\* kbfs_visitor(vertex): an empty visit bitmap
KNewVisitor(v) == [v |-> v, bm |-> {}, bcast |-> FALSE]

\* Variant of pre_visit without the "already visited by source k" skip.
KPreVisitNoSkip(vis, d) ==
    LET new == {k \in K : k \in vis.bm}
    IN  [ok |-> new # {} /\ IsDelegate(vis.v),
         d  |-> [d EXCEPT
                   !.lv[vis.v]  = [k \in K |-> IF k \in new THEN d.cur ELSE @[k]],
                   !.nbm[vis.v] = @ \cup new,
                   !.nvf[vis.v] = @ \/ new # {}]]

\* kbfs_visitor::pre_visit: record the current level for each source of the
\* request that has not reached the vertex yet; only a delegate is queued.
KPreVisit(vis, d) ==
    LET new == {k \in K : d.lv[vis.v][k] = Unvisited /\ k \in vis.bm}
    IN  [ok |-> new # {} /\ IsDelegate(vis.v),
         d  |-> [d EXCEPT
                   !.lv[vis.v]  = [k \in K |-> IF k \in new THEN d.cur ELSE @[k]],
                   !.nbm[vis.v] = @ \cup new,
                   !.nvf[vis.v] = @ \/ new # {}]]

\* One visitor per local edge of v, carrying the bitmap B.
Scatter(w, v, B) ==
    [i \in 1 .. Len(LocalEdgeSeq(w, v)) |->
        [v |-> LocalEdgeSeq(w, v)[i], bm |-> B, bcast |-> FALSE]]

\* Variant of init_visit that returns false, so no FLOW1 broadcast.
KInitVisitNoBcast(w, vis, d) ==
    IF ~d.vf[vis.v]
    THEN [ret |-> FALSE, d |-> d, out |-> <<>>]
    ELSE [ret |-> FALSE, d |-> d, out |-> Scatter(w, vis.v, d.bm[vis.v])]

\* kbfs_visitor::init_visit: scatter from a vertex visited at the previous
\* level and return true, so that a delegate's master broadcasts (FLOW1).
KInitVisit(w, vis, d) ==
    IF ~d.vf[vis.v]
    THEN [ret |-> FALSE, d |-> d, out |-> <<>>]
    ELSE [ret |-> TRUE, d |-> d, out |-> Scatter(w, vis.v, d.bm[vis.v])]

\* kbfs_visitor::visit: at the master, return true to broadcast (FLOW2); on
\* a broadcast, apply the request, or if that changes nothing scatter the
\* local shard with this rank's bitmap (the FLOW1 broadcast).
KVisit(w, vis, d) ==
    IF ~vis.bcast
    THEN [ret |-> TRUE, d |-> d, out |-> <<>>]
    ELSE LET r == KPreVisit(vis, d)
         IN  IF r.ok THEN [ret |-> FALSE, d |-> r.d, out |-> <<>>]
             ELSE [ret |-> FALSE, d |-> r.d, out |-> Scatter(w, vis.v, d.bm[vis.v])]

\* operator>: both kbfs operators compare v1.vertex < v2.vertex.
KGreater(a, b) == a.v < b.v

E == INSTANCE VisitorQueue WITH PreVisit <- KPreVisit, InitVisit <- KInitVisit,
                                Visit <- KVisit, NewVisitor <- KNewVisitor,
                                Greater <- KGreater,
                                Seeding <- "graph", Source <- SourceList[1]

-----------------------------------------------------------------------------
\* vertex_data.init(), which resets the five stores, and the level-0 loop: a
\* rank owning source k sets its level to 0, overwrites its bitmap with {k}
\* and sets its visited flag.
InitData(w) ==
    LET own(v) == {k \in K : SourceList[k] = v /\ Owner(v) = w}
        srcs   == {v \in Labels : own(v) # {}}
    IN  [cur |-> 1,
         lv  |-> [v \in srcs |-> [k \in K |-> IF k \in own(v) THEN 0 ELSE Unvisited]]
                 @@ VertexDataReset([k \in K |-> Unvisited]),
         bm  |-> [v \in srcs |-> {CHOOSE k \in own(v) : \A j \in own(v) : j <= k}]
                 @@ VertexDataReset({}),
         nbm |-> VertexDataReset({}),
         vf  |-> [v \in srcs |-> TRUE] @@ VertexDataReset(FALSE),
         nvf |-> VertexDataReset(FALSE)]

Init ==
    /\ E!EngineInit
    /\ data = [w \in Workers |-> InitData(w)]
    /\ lastCount = Len(SourceList)
    /\ total = Len(SourceList)
    /\ finished = FALSE

\* Variant of update_local_vertex_data that does not clear new_visited_flag.
UpdateNoReset(w, d) ==
    [d EXCEPT
       !.bm = [v \in Labels |-> IF v \in Slots(w) THEN d.nbm[v] ELSE d.bm[v]],
       !.vf = [v \in Labels |-> IF v \in Slots(w) THEN d.nvf[v] ELSE d.vf[v]]]

\* update_local_vertex_data over the owned vertices and the delegates.
UpdateLocalVertexData(w, d) ==
    [d EXCEPT
       !.bm  = [v \in Labels |-> IF v \in Slots(w) THEN d.nbm[v] ELSE d.bm[v]],
       !.vf  = [v \in Labels |-> IF v \in Slots(w) THEN d.nvf[v] ELSE d.vf[v]],
       !.nvf = [v \in Labels |-> IF v \in Slots(w) THEN FALSE ELSE d.nvf[v]]]

\* Variant of the count that leaves out the controllers.
NumVisitedOwnedOnly(dd) ==
    Cardinality({v \in Labels \ Delegates : dd[Owner(v)].nvf[v]})

\* Variant of the count that also adds what update_local_vertex_data
\* returns for the delegate shards of every rank.
NumVisitedEveryShard(dd) ==
      Cardinality({v \in Labels \ Delegates : dd[Owner(v)].nvf[v]})
    + MapThenSumSet(LAMBDA w : Cardinality({v \in Delegates : dd[w].nvf[v]}), Workers)
    + Cardinality({v \in Delegates : dd[Master(v)].nvf[v]})

\* The all-reduced count: owned vertices and controllers newly visited.
NumVisited(dd) ==
      Cardinality({v \in Labels \ Delegates : dd[Owner(v)].nvf[v]})
    + Cardinality({v \in Delegates : dd[Master(v)].nvf[v]})

\* After the traversal of a level: local update, all-reduce, break on zero,
\* the count added to the total, ++g_current_level, and the next traversal
\* while the level is below cap.
NextLevel ==
    /\ E!AllDone
    /\ ~finished
    /\ LET n    == NumVisited(data)
           lvl  == data[0].cur
           stop == n = 0 \/ lvl + 1 >= MaxLevel
       IN  /\ data' = [w \in Workers |->
                          [UpdateLocalVertexData(w, data[w]) EXCEPT
                             !.cur = IF n = 0 THEN lvl ELSE lvl + 1]]
           /\ lastCount' = n
           /\ total' = total + n
           /\ finished' = stop
           /\ IF stop THEN UNCHANGED <<pc, lq, cq, msgs, cidx, vidx, frame, mbox>>
              ELSE E!Restart

Terminated == finished /\ UNCHANGED vars

\* kbfs_result_t{g_current_level, num_total_visited_vertices}, the same on
\* every rank.
Result == [max_level |-> data[0].cur, num_visited |-> total]

WorkerStep(w) == E!WorkerStep(w) /\ UNCHANGED <<lastCount, total, finished>>

Quiesce == E!Quiesce /\ UNCHANGED <<lastCount, total, finished>>

Next ==
    \/ \E w \in Workers : WorkerStep(w)
    \/ Quiesce
    \/ NextLevel
    \/ Terminated

\* Every rank is a process that keeps running its loop, the mailbox delivers
\* every message, and the collective calls complete once all ranks join.
Fairness ==
    /\ \A w \in Workers : WF_vars(WorkerStep(w))
    /\ WF_vars(Quiesce)
    /\ WF_vars(NextLevel)

Spec == Init /\ [][Next]_vars /\ Fairness

-----------------------------------------------------------------------------
(* Reference: breadth-first distances, by repeated neighbourhood growth.   *)

RECURSIVE Ball(_, _)
Ball(s, n) ==
    IF n = 0 THEN {s}
    ELSE Ball(s, n - 1) \cup {t \in Labels : \E u \in Ball(s, n - 1) : <<u, t>> \in Edges}

Dist(s, v) ==
    LET N == Cardinality(Labels)
    IN  IF v \notin Ball(s, N) THEN Unvisited
        ELSE CHOOSE n \in 0 .. N : v \in Ball(s, n) /\ (n = 0 \/ v \notin Ball(s, n - 1))

DistTab == [k \in K |-> [v \in Labels |-> Dist(SourceList[k], v)]]

-----------------------------------------------------------------------------
TypeOK ==
    /\ pc \in [Workers -> E!PCs]
    /\ data \in [Workers -> AlgData]
    /\ \A w \in Workers : BagToSet(lq[w]) \subseteq Visitor
    /\ cq \in [Workers -> Seq(Visitor)]
    /\ \A m \in BagToSet(msgs) : m.to \in Workers /\ m.vis \in Visitor
    /\ cidx \in [Workers -> Nat] /\ vidx \in [Workers -> Nat]
    /\ finished \in BOOLEAN
    /\ total \in Nat

\* Every level any rank records, for an owned vertex or for its shard of a
\* delegate, is that source's BFS distance: no request arrives at a level
\* other than the shortest one, whatever the order of messages, broadcasts
\* and pre_visits on different ranks.
LevelSound ==
    \A w \in Workers : \A v \in Slots(w) : \A k \in K :
        data[w].lv[v][k] # Unvisited => data[w].lv[v][k] = DistTab[k][v]

\* When the level loop exits, every rank's level array holds exactly the
\* BFS distances, on every shard of every delegate too: nothing reachable
\* was missed by the FLOW1 / FLOW2 broadcasts.
FinalLevels ==
    finished =>
        \A w \in Workers : \A v \in Slots(w) : \A k \in K :
            data[w].lv[v][k] = DistTab[k][v]

\* The vertices first reached by some source at level l.
NewAt(l) == {v \in Labels : \E k \in K : DistTab[k][v] = l}

\* The result the function returns: max_level is the first level that
\* visited nothing, one past the largest distance from any source, and the
\* total is the sources plus, per level, the vertices some source first
\* reached there.  Each rank counts its owned vertices and the delegates it
\* masters, so a delegate whose new_visited_flag is set on several shards
\* must be counted once across the all-reduce.
KBFSResult ==
    finished /\ lastCount = 0 =>
        /\ Result.max_level = 1 + Max({DistTab[k][v] : k \in K, v \in Labels} \ {Unvisited})
        /\ Result.num_visited = Len(SourceList) + MapThenSumSet(LAMBDA l : Cardinality(NewAt(l)), 1 .. MaxLevel)

\* pop_top() is never reached with an empty local queue (it asserts).
PopSafe == \A w \in Workers : pc[w] = "pop" => lq[w] # EmptyBag

\* The level loop ends because a level visited no vertex, not because the
\* level counter ran into its cap.
KBFSTerminates == <>(finished /\ lastCount = 0)

=============================================================================
