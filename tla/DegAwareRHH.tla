------------------------------ MODULE DegAwareRHH ------------------------------
(***************************************************************************)
(* The degree-aware graph store of graphstore/degawarerhh/degawarerhh.hpp. *)
(*                                                                         *)
(* A vertex of low degree keeps one row per edge in the low-degree table,  *)
(* each row holding a copy of the vertex property, the target and the      *)
(* weight.  When an insert brings it to middle_high_degree_threshold its   *)
(* rows move to a chunk of its own in the middle-high table, keyed by      *)
(* target, with one vertex property; when an erase takes the chunk below   *)
(* the threshold the edges move back to rows.                              *)
(*                                                                         *)
(* The Robin Hood hash containers are not in the sources.  A vertex's rows *)
(* are kept as a sequence in the order find() walks them: a new row goes   *)
(* after the existing ones (a row with the same key is never displaced by  *)
(* a later one) and an erase keeps the order of the rest.  A chunk is a    *)
(* bag of [trg, w]; find(trg) in it may return any matching entry.         *)
(***************************************************************************)
EXTENDS Naturals, SequencesExt, Bags, BagsExt

CONSTANTS
    Vertices,
    Weights,
    Props,        \* vertex_property_data_type values
    DefaultProp,  \* vertex_property_data_type()
    Threshold,    \* middle_high_degree_threshold
    MaxEdges,     \* bound on the edges stored at once
    NoRet

ASSUME /\ DefaultProp \in Props
       /\ Threshold \in Nat /\ Threshold > 1
       /\ MaxEdges \in Nat

VARIABLES
    ldeg,      \* m_ldeg_table: the rows of each vertex, in find() order
    mhdeg,     \* m_mhdeg_table: each vertex's [prop, adj] or Absent
    numEdges,  \* m_num_edges
    ok,        \* what the last bool call returned, else NoRet
    cnt,       \* what the last size_type call returned, else NoRet
    lastSet    \* history: the property the caller last gave each vertex

vars == <<ldeg, mhdeg, numEdges, ok, cnt, lastSet>>

\* The call returns the bool b or the count n.
Answer(b, n) == ok' = b /\ cnt' = n

Absent == [absent |-> TRUE]

Row == [trg : Vertices, w : Weights, prop : Props]

Entry == [trg : Vertices, w : Weights]

InLow(v) == ldeg[v] # <<>>
InMh(v)  == mhdeg[v] # Absent
Stored(v) == InLow(v) \/ InMh(v)

ChunkSize(v) == BagCardinality(mhdeg[v].adj)

\* The store's edges as a bag of [src, trg, w]: the rows and the chunks.
StoredEdges ==
    LET out(v, x) == [src |-> v, trg |-> x.trg, w |-> x.w]
    IN  BagUnion({BagOfAll(LAMBDA x : out(v, x), ToBag(ldeg[v]))
                  (+) (IF InMh(v) THEN BagOfAll(LAMBDA x : out(v, x), mhdeg[v].adj)
                       ELSE EmptyBag)
                  : v \in Vertices})

StoredCount == BagCardinality(StoredEdges)

\* The property vertex_property_data(v) refers to: the first row find()
\* reaches, else the chunk's.
VisibleProp(v) == IF InLow(v) THEN ldeg[v][1].prop ELSE mhdeg[v].prop

\* Indices of v's rows with target t.
RowsTo(v, t) == {i \in DOMAIN ldeg[v] : ldeg[v][i].trg = t}

\* The chunk entries of v with target t.
EntriesTo(v, t) == {x \in BagToSet(mhdeg[v].adj) : x.trg = t}

\* The [trg, w] entries of a sequence of rows, as a bag.
EntriesOf(rows) == BagOfAll(LAMBDA r : [trg |-> r.trg, w |-> r.w], ToBag(rows))

\* The entries of a chunk as rows carrying property p, in iteration order.
RowsFrom(adj, p) ==
    LET es == SetToSeq(BagToSet(adj))
    IN  FlattenSeq([i \in 1 .. Len(es) |->
                      [j \in 1 .. adj[es[i]] |-> [trg |-> es[i].trg, w |-> es[i].w, prop |-> p]]])

\* lastSet forgets a vertex that no longer has an edge.
Forget == lastSet' = [v \in Vertices |-> IF Stored(v)' THEN lastSet[v] ELSE DefaultProp]

Init ==
    /\ ldeg = [v \in Vertices |-> <<>>]
    /\ mhdeg = [v \in Vertices |-> Absent]
    /\ numEdges = 0
    /\ ok = NoRet /\ cnt = NoRet
    /\ lastSet = [v \in Vertices |-> DefaultProp]

-----------------------------------------------------------------------------
(* Insertion, shared by insert_edge and insert_edge_dup once the duplicate *)
(* checks have passed: a new row, a migration of the rows to a chunk, a    *)
(* first row of a new vertex, or an entry of an existing chunk.            *)

\* Variant of the threshold test without the + 1 for the new edge.
AddEdgeLate(s, t, w) ==
    LET countInSingle == Len(ldeg[s])
        row == [trg |-> t, w |-> w, prop |-> DefaultProp]
    IN  CASE countInSingle > 0 /\ countInSingle < Threshold ->
               ldeg' = [ldeg EXCEPT ![s] = Append(@, row)] /\ UNCHANGED mhdeg
          [] countInSingle > 0 ->
               /\ mhdeg' = [mhdeg EXCEPT ![s] = [prop |-> ldeg[s][1].prop,
                                                 adj  |-> BagAdd(EntriesOf(ldeg[s]),
                                                                 [trg |-> t, w |-> w])]]
               /\ ldeg' = [ldeg EXCEPT ![s] = <<>>]
          [] ~InMh(s) ->
               ldeg' = [ldeg EXCEPT ![s] = <<row>>] /\ UNCHANGED mhdeg
          [] OTHER ->
               /\ mhdeg' = [mhdeg EXCEPT ![s].adj = BagAdd(@, [trg |-> t, w |-> w])]
               /\ UNCHANGED ldeg

AddEdge(s, t, w) ==
    LET countInSingle == Len(ldeg[s])
        row == [trg |-> t, w |-> w, prop |-> DefaultProp]
    IN  CASE countInSingle > 0 /\ countInSingle + 1 < Threshold ->
               ldeg' = [ldeg EXCEPT ![s] = Append(@, row)] /\ UNCHANGED mhdeg
          [] countInSingle > 0 ->
               /\ mhdeg' = [mhdeg EXCEPT ![s] = [prop |-> ldeg[s][1].prop,
                                                 adj  |-> BagAdd(EntriesOf(ldeg[s]),
                                                                 [trg |-> t, w |-> w])]]
               /\ ldeg' = [ldeg EXCEPT ![s] = <<>>]
          [] ~InMh(s) ->
               ldeg' = [ldeg EXCEPT ![s] = <<row>>] /\ UNCHANGED mhdeg
          [] OTHER ->
               /\ mhdeg' = [mhdeg EXCEPT ![s].adj = BagAdd(@, [trg |-> t, w |-> w])]
               /\ UNCHANGED ldeg

\* insert_edge: false if a row, or an entry of the chunk, already has the target.
InsertEdge(s, t, w) ==
    IF \/ RowsTo(s, t) # {}
       \/ Len(ldeg[s]) = 0 /\ InMh(s) /\ EntriesTo(s, t) # {}
    THEN Answer(FALSE, NoRet) /\ UNCHANGED <<ldeg, mhdeg, numEdges, lastSet>>
    ELSE /\ AddEdge(s, t, w)
         /\ numEdges' = numEdges + 1
         /\ Answer(TRUE, NoRet)
         /\ Forget

InsertEdgeDup(s, t, w) ==
    /\ AddEdge(s, t, w)
    /\ numEdges' = numEdges + 1
    /\ Answer(NoRet, NoRet)
    /\ Forget

-----------------------------------------------------------------------------
(* Erasure.  When a chunk drops below the threshold its entries go back to *)
(* rows, each carrying the chunk's property, and the chunk is freed.       *)

\* The chunk of s after an erase left adj in it.
ShrinkChunk(s, adj) ==
    IF BagCardinality(adj) < Threshold
    THEN /\ ldeg' = [ldeg EXCEPT ![s] = @ \o RowsFrom(adj, mhdeg[s].prop)]
         /\ mhdeg' = [mhdeg EXCEPT ![s] = Absent]
    ELSE /\ mhdeg' = [mhdeg EXCEPT ![s].adj = adj]
         /\ UNCHANGED ldeg

\* Variant of erase_edge that decrements m_num_edges before its early returns.
EraseEdgeDecAlways(s, t) ==
    IF RowsTo(s, t) # {}
    THEN /\ ldeg' = [ldeg EXCEPT ![s] = RemoveAt(@, Min(RowsTo(s, t)))]
         /\ numEdges' = numEdges - 1
         /\ Answer(TRUE, NoRet)
         /\ UNCHANGED mhdeg
         /\ Forget
    ELSE IF ~InMh(s) \/ EntriesTo(s, t) = {}
    THEN Answer(FALSE, NoRet) /\ numEdges' = numEdges - 1 /\ UNCHANGED <<ldeg, mhdeg, lastSet>>
    ELSE \E x \in EntriesTo(s, t) :
            /\ ShrinkChunk(s, BagRemove(mhdeg[s].adj, x))
            /\ numEdges' = numEdges - 1
            /\ Answer(TRUE, NoRet)
            /\ Forget

\* erase_edge: the first row to t, else one chunk entry to t.
EraseEdge(s, t) ==
    IF RowsTo(s, t) # {}
    THEN /\ ldeg' = [ldeg EXCEPT ![s] = RemoveAt(@, Min(RowsTo(s, t)))]
         /\ numEdges' = numEdges - 1
         /\ Answer(TRUE, NoRet)
         /\ UNCHANGED mhdeg
         /\ Forget
    ELSE IF ~InMh(s) \/ EntriesTo(s, t) = {}
    THEN Answer(FALSE, NoRet) /\ UNCHANGED <<ldeg, mhdeg, numEdges, lastSet>>
    ELSE \E x \in EntriesTo(s, t) :
            /\ ShrinkChunk(s, BagRemove(mhdeg[s].adj, x))
            /\ numEdges' = numEdges - 1
            /\ Answer(TRUE, NoRet)
            /\ Forget

\* Variant of erase_edge_dup whose chunk loop stops after one entry to t.
EraseEdgeDupMhFirst(s, t) ==
    LET nLow == Cardinality(RowsTo(s, t))
    IN  IF nLow > 0
        THEN /\ ldeg' = [ldeg EXCEPT ![s] = SelectSeq(@, LAMBDA r : r.trg # t)]
             /\ numEdges' = numEdges - nLow
             /\ Answer(NoRet, nLow)
             /\ UNCHANGED mhdeg
             /\ Forget
        ELSE IF ~InMh(s)
        THEN Answer(NoRet, 0) /\ UNCHANGED <<ldeg, mhdeg, numEdges, lastSet>>
        ELSE IF EntriesTo(s, t) = {}
        THEN Answer(NoRet, 0) /\ UNCHANGED <<ldeg, mhdeg, numEdges, lastSet>>
        ELSE \E x \in EntriesTo(s, t) :
                /\ ShrinkChunk(s, BagRemove(mhdeg[s].adj, x))
                /\ numEdges' = numEdges - 1
                /\ Answer(NoRet, 1)
                /\ Forget

\* erase_edge_dup: every row to t; if there was none, every chunk entry to t.
EraseEdgeDup(s, t) ==
    LET nLow == Cardinality(RowsTo(s, t))
        adj  == mhdeg[s].adj
        nMh  == BagCardinality([x \in EntriesTo(s, t) |-> adj[x]])
    IN  IF nLow > 0
        THEN /\ ldeg' = [ldeg EXCEPT ![s] = SelectSeq(@, LAMBDA r : r.trg # t)]
             /\ numEdges' = numEdges - nLow
             /\ Answer(NoRet, nLow)
             /\ UNCHANGED mhdeg
             /\ Forget
        ELSE IF ~InMh(s)
        THEN Answer(NoRet, 0) /\ UNCHANGED <<ldeg, mhdeg, numEdges, lastSet>>
        ELSE /\ IF nMh > 0
                THEN ShrinkChunk(s, [x \in BagToSet(adj) \ EntriesTo(s, t) |-> adj[x]])
                ELSE UNCHANGED <<ldeg, mhdeg>>
             /\ numEdges' = numEdges - nMh
             /\ Answer(NoRet, nMh)
             /\ Forget

-----------------------------------------------------------------------------
\* degree: the rows of v, or if it has none the size of its chunk.
Degree(v) ==
    /\ Answer(NoRet, IF Len(ldeg[v]) # 0 THEN Len(ldeg[v])
                     ELSE IF InMh(v) THEN ChunkSize(v) ELSE 0)
    /\ UNCHANGED <<ldeg, mhdeg, numEdges, lastSet>>

\* A write through the reference vertex_property_data(v) returns: the first
\* row find() reaches, else the chunk's property.  The caller only asks for a
\* vertex that has an edge (otherwise the code dereferences the end iterator).
SetVertexProperty(v, p) ==
    /\ Stored(v)
    /\ IF InLow(v)
       THEN ldeg' = [ldeg EXCEPT ![v][1].prop = p] /\ UNCHANGED mhdeg
       ELSE mhdeg' = [mhdeg EXCEPT ![v].prop = p] /\ UNCHANGED ldeg
    /\ lastSet' = [lastSet EXCEPT ![v] = p]
    /\ Answer(NoRet, NoRet)
    /\ UNCHANGED numEdges

\* A write through the reference edge_property_data(s, t) returns: the first
\* row to t find() reaches, else the weight find(t) reaches in the chunk.  The
\* caller only asks for a stored edge (otherwise the code dereferences the
\* end iterator of the middle-high table or of the chunk).
SetEdgeProperty(s, t, w) ==
    /\ RowsTo(s, t) # {} \/ (InMh(s) /\ EntriesTo(s, t) # {})
    /\ IF RowsTo(s, t) # {}
       THEN /\ ldeg' = [ldeg EXCEPT ![s][Min(RowsTo(s, t))].w = w]
            /\ UNCHANGED mhdeg
       ELSE /\ \E x \in EntriesTo(s, t) :
                  mhdeg' = [mhdeg EXCEPT ![s].adj = BagAdd(BagRemove(@, x), [x EXCEPT !.w = w])]
            /\ UNCHANGED ldeg
    /\ Answer(NoRet, NoRet)
    /\ UNCHANGED <<numEdges, lastSet>>

\* clear: empties every chunk and both tables; m_num_edges is left alone.
Clear ==
    /\ ldeg' = [v \in Vertices |-> <<>>]
    /\ mhdeg' = [v \in Vertices |-> Absent]
    /\ lastSet' = [v \in Vertices |-> DefaultProp]
    /\ Answer(NoRet, NoRet)
    /\ UNCHANGED numEdges

\* Inserts stop once MaxEdges edges have been counted.
Next ==
    \/ \E s, t \in Vertices, w \in Weights :
          /\ numEdges < MaxEdges
          /\ InsertEdge(s, t, w) \/ InsertEdgeDup(s, t, w)
    \/ \E s, t \in Vertices, w \in Weights : SetEdgeProperty(s, t, w)
    \/ \E s, t \in Vertices : EraseEdge(s, t) \/ EraseEdgeDup(s, t)
    \/ \E v \in Vertices : Degree(v)
    \/ \E v \in Vertices, p \in Props : SetVertexProperty(v, p)
    \/ Clear

Spec == Init /\ [][Next]_vars

-----------------------------------------------------------------------------
TypeOK ==
    /\ ldeg \in [Vertices -> Seq(Row)]
    /\ \A v \in Vertices :
          mhdeg[v] = Absent \/ /\ mhdeg[v].prop \in Props
                               /\ IsABag(mhdeg[v].adj)
                               /\ BagToSet(mhdeg[v].adj) \subseteq Entry
    /\ numEdges \in Nat
    /\ lastSet \in [Vertices -> Props]

\* The degree split the store relies on, after any sequence of inserts and
\* erases moving edges between the tables: no vertex is in both tables, a
\* vertex has fewer than middle_high_degree_threshold rows, and a chunk
\* holds at least that many edges.
DegreeSplit ==
    \A v \in Vertices :
        /\ ~(InLow(v) /\ InMh(v))
        /\ Len(ldeg[v]) < Threshold
        /\ InMh(v) => ChunkSize(v) >= Threshold

\* The store implements a multiset of weighted edges: every insert, erase,
\* degree and clear, through migrations both ways, changes the stored edges
\* and returns what EdgeStore says.
ES == INSTANCE EdgeStore WITH edges <- StoredEdges

Refines == ES!Spec

\* num_edges() is the number of edges stored.
NumEdgesCount == numEdges = StoredCount

\* vertex_property_data(v) reads back the property last written for v, as
\* long as v keeps an edge.
PropertyReadBack == \A v \in Vertices : Stored(v) => VisibleProp(v) = lastSet[v]

================================================================================
