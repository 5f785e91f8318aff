-------------------------------- MODULE STPath --------------------------------
(***************************************************************************)
(* bfs_level_synchronous_single_source of st_path_metall.cpp: a sequential *)
(* level-synchronous BFS from a source that stops as soon as the target is *)
(* seen, followed by the walk back along the predecessors that prints the  *)
(* path.                                                                   *)
(*                                                                         *)
(* bfs_level is the unordered_map from a vertex to (level, predecessor).   *)
(* Its operator[] inserts a value-initialised pair (level 0, the empty    *)
(* string NoVertex) for a missing key.  The vertex order of                *)
(* vertices_begin() is fixed but unspecified: Init chooses it.  size_t is  *)
(* kept modulo 2^SizeBits.  The printed lines are kept as the sequence of  *)
(* pairs the path walk prints; the other output is left out.               *)
(***************************************************************************)
EXTENDS Naturals, SequencesExt, FiniteSets, TLC

CONSTANTS
    Vertices,   \* vertex ids
    Edges,      \* the edges of the graph, pairs <<from, to>>
    NoVertex,   \* Vertex(): the empty string
    SizeBits,   \* width of size_t (64 in the code)
    PathCap     \* the path is printed only up to this depth (25 in the code)

ASSUME /\ Edges \subseteq Vertices \X Vertices
       /\ NoVertex \notin Vertices
       /\ SizeBits \in Nat \ {0}

VARIABLES
    source, target,  \* the arguments
    order,           \* the vertex order of vertices_begin()
    pc,
    level,           \* current_level
    bfs,             \* bfs_level: vertex -> [lv, pred]
    finished, found, \* finished, target_vertex_found
    vi, ei,          \* position of vitr and of eitr
    cur, pathLen,    \* current_path_vertex, path_length
    out              \* the (vertex, predecessor) lines printed

vars == <<source, target, order, pc, level, bfs, finished, found, vi, ei,
          cur, pathLen, out>>

SizeMod == 2^SizeBits

\* The targets of edges_begin(v) .. edges_end(v), in their fixed order.
Adj(v) == SetToSeq({u \in Vertices : <<v, u>> \in Edges})

\* bfs_level[k] read through operator[]: a missing key reads as (0, "").
Entry(m, k) == IF k \in DOMAIN m THEN m[k] ELSE [lv |-> 0, pred |-> NoVertex]

\* operator[] on a missing key inserts the value-initialised pair.
Touch(m, k) == IF k \in DOMAIN m THEN m ELSE m @@ (k :> [lv |-> 0, pred |-> NoVertex])

Init ==
    /\ source \in Vertices
    /\ target \in Vertices \ {source}
    /\ order \in SetToSeqs(Vertices)
    /\ pc = "sweep"
    /\ level = 0
    /\ bfs = source :> [lv |-> 0, pred |-> NoVertex]
    /\ finished = FALSE
    /\ found = FALSE
    /\ vi = 1 /\ ei = 1
    /\ cur = NoVertex /\ pathLen = 0
    /\ out = <<>>

\* Variant of the do loop that does not reset finished.
StartSweepNoReset ==
    /\ pc = "sweep"
    /\ vi' = 1
    /\ pc' = "vertex"
    /\ UNCHANGED <<source, target, order, level, bfs, finished, found, ei, cur,
                   pathLen, out>>

\* Top of the do loop: finished = true, start the vertex loop.
StartSweep ==
    /\ pc = "sweep"
    /\ finished' = TRUE
    /\ vi' = 1
    /\ pc' = "vertex"
    /\ UNCHANGED <<source, target, order, level, bfs, found, ei, cur, pathLen, out>>

\* One vertex of the sweep: skip it unless it has a level equal to
\* current_level, else start on its edges.
VisitVertex ==
    /\ pc = "vertex"
    /\ vi <= Len(order)
    /\ LET v == order[vi]
       IN  IF v \in DOMAIN bfs /\ bfs[v].lv = level
           THEN pc' = "edge" /\ ei' = 1 /\ UNCHANGED vi
           ELSE vi' = vi + 1 /\ UNCHANGED <<pc, ei>>
    /\ UNCHANGED <<source, target, order, level, bfs, finished, found, cur, pathLen, out>>

\* Variant of the edge step that stores level + 1 without checking that
\* the neighbour is already in bfs_level.
ScanEdgeOverwrite ==
    /\ pc = "edge"
    /\ ei <= Len(Adj(order[vi]))
    /\ LET v == order[vi]
           n == Adj(v)[ei]
           new == n \notin DOMAIN bfs
       IN  /\ bfs' = (n :> [lv |-> (level + 1) % SizeMod, pred |-> v]) @@ bfs
           /\ finished' = (finished /\ ~new)
           /\ IF n = target
              THEN found' = TRUE /\ pc' = "endvertex" /\ UNCHANGED ei
              ELSE ei' = ei + 1 /\ UNCHANGED <<found, pc>>
    /\ UNCHANGED <<source, target, order, level, vi, cur, pathLen, out>>

\* One edge: a neighbour not yet in bfs_level gets level + 1 and the vertex
\* as predecessor; seeing the target breaks out of the edge loop.
ScanEdge ==
    /\ pc = "edge"
    /\ ei <= Len(Adj(order[vi]))
    /\ LET v == order[vi]
           n == Adj(v)[ei]
           new == n \notin DOMAIN bfs
       IN  /\ bfs' = IF new THEN bfs @@ (n :> [lv |-> (level + 1) % SizeMod, pred |-> v])
                     ELSE bfs
           /\ finished' = (finished /\ ~new)
           /\ IF n = target
              THEN found' = TRUE /\ pc' = "endvertex" /\ UNCHANGED ei
              ELSE ei' = ei + 1 /\ UNCHANGED <<found, pc>>
    /\ UNCHANGED <<source, target, order, level, vi, cur, pathLen, out>>

EdgesDone ==
    /\ pc = "edge"
    /\ ei > Len(Adj(order[vi]))
    /\ pc' = "endvertex"
    /\ UNCHANGED <<source, target, order, level, bfs, finished, found, vi, ei,
                   cur, pathLen, out>>

\* After a vertex: on the target, finished = true and leave the vertex loop
\* (then ++current_level and the loop test); else the next vertex.
EndVertex ==
    /\ pc = "endvertex"
    /\ IF found
       THEN /\ finished' = TRUE
            /\ level' = (level + 1) % SizeMod
            /\ pc' = "report"
            /\ UNCHANGED vi
       ELSE /\ vi' = vi + 1
            /\ pc' = "vertex"
            /\ UNCHANGED <<finished, level>>
    /\ UNCHANGED <<source, target, order, bfs, found, ei, cur, pathLen, out>>

\* End of the vertex loop: ++current_level; loop while !finished.
EndSweep ==
    /\ pc = "vertex"
    /\ vi > Len(order)
    /\ level' = (level + 1) % SizeMod
    /\ pc' = IF finished THEN "report" ELSE "sweep"
    /\ UNCHANGED <<source, target, order, bfs, finished, found, vi, ei, cur, pathLen, out>>

\* The path is walked only if the target was found, bfs_level has two
\* entries and the target's level is at most PathCap (a found target is
\* always in bfs_level).
Report ==
    /\ pc = "report"
    /\ IF found /\ Cardinality(DOMAIN bfs) >= 2 /\ bfs[target].lv <= PathCap
       THEN /\ pc' = "path"
            /\ level' = bfs[target].lv
            /\ cur' = target
            /\ pathLen' = 0
       ELSE pc' = "done" /\ UNCHANGED <<level, cur, pathLen>>
    /\ UNCHANGED <<source, target, order, bfs, finished, found, vi, ei, out>>

\* Variant of the break test that stops one line early.
PathBreakEarly(m, lvl, n) ==
    \/ lvl = Entry(m, source).lv
    \/ n + 1 >= (Entry(m, target).lv + SizeMod - 1) % SizeMod

\* The break test of the path walk: the predecessor is at the source's level,
\* or path_length has reached the target's level - 1 (a size_t subtraction).
PathBreak(m, lvl, n) ==
    \/ lvl = Entry(m, source).lv
    \/ n >= (Entry(m, target).lv + SizeMod - 1) % SizeMod

\* One round of the path walk: print (vertex, predecessor), move to the
\* predecessor; break, or ++path_length and loop while not at the source.
PathStep ==
    /\ pc = "path"
    /\ LET p  == Entry(bfs, cur).pred
           b  == Touch(bfs, p)
           lv == b[p].lv
       IN  /\ out' = Append(out, <<cur, p>>)
           /\ bfs' = b
           /\ level' = lv
           /\ cur' = p
           /\ IF PathBreak(b, lv, pathLen)
              THEN pc' = "done" /\ UNCHANGED pathLen
              ELSE /\ pathLen' = (pathLen + 1) % SizeMod
                   /\ pc' = IF p # source THEN "path" ELSE "done"
    /\ UNCHANGED <<source, target, order, finished, found, vi, ei>>

Terminated == pc = "done" /\ UNCHANGED vars

Next ==
    \/ StartSweep \/ VisitVertex \/ ScanEdge \/ EdgesDone \/ EndVertex
    \/ EndSweep \/ Report \/ PathStep \/ Terminated

\* One thread runs the function to its end.
Spec == Init /\ [][Next]_vars /\ WF_vars(Next)

-----------------------------------------------------------------------------
(* Reference: breadth-first distances.                                      *)

RECURSIVE Ball(_, _)
Ball(s, n) ==
    IF n = 0 THEN {s}
    ELSE Ball(s, n - 1) \cup {t \in Vertices : \E u \in Ball(s, n - 1) : <<u, t>> \in Edges}

Reachable(s, v) == v \in Ball(s, Cardinality(Vertices))

Dist(s, v) == CHOOSE n \in 0 .. Cardinality(Vertices) :
                  v \in Ball(s, n) /\ (n = 0 \/ v \notin Ball(s, n - 1))

-----------------------------------------------------------------------------
\* While the search runs, every vertex bfs_level holds is at its BFS
\* distance from the source with a predecessor one level closer along an
\* edge: the sweep of a level never lets a vertex in at a later level.
LevelsExact ==
    pc \notin {"path", "done"} =>
        \A v \in DOMAIN bfs :
            /\ bfs[v].lv = Dist(source, v)
            /\ v # source => /\ <<bfs[v].pred, v>> \in Edges
                             /\ bfs[bfs[v].pred].lv = bfs[v].lv - 1

\* The function returns true exactly when the target is reachable, and
\* when it returns true with the target within PathCap the lines printed
\* are a shortest path: they start at the target, each line's second
\* vertex is the next line's first, each is an edge, and the last reaches
\* the source after Dist(target) lines.
PathCorrect ==
    pc = "done" =>
        /\ found = Reachable(source, target)
        /\ found /\ Dist(source, target) <= PathCap =>
              /\ Len(out) = Dist(source, target)
              /\ out[1][1] = target
              /\ out[Len(out)][2] = source
              /\ \A i \in 1 .. Len(out) : <<out[i][2], out[i][1]>> \in Edges
              /\ \A i \in 1 .. Len(out) - 1 : out[i][2] = out[i + 1][1]

\* The do loop ends: the function returns.
Returns == <>(pc = "done")

================================================================================
