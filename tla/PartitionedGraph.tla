-------------------------- MODULE PartitionedGraph --------------------------
(***************************************************************************)
(* The delegate partitioned graph of delegate_partitioned_graph.hpp, as    *)
(* it stands after construction: a pure, immutable structure, so it is a   *)
(* set of operators over CONSTANTS and has no VARIABLES.                   *)
(*                                                                         *)
(* A vertex is named by its label.  A label whose degree reaches the       *)
(* delegate threshold is a delegate: its edges are sharded over all        *)
(* workers and its authoritative state lives at its master.  Every other   *)
(* label is owned by label mod NumWorkers, which stores all its edges.     *)
(* The construction code (delegate_partitioned_graph.ipp) is not part of   *)
(* the sources, so the partitioning rules are taken from the spec.         *)
(***************************************************************************)
EXTENDS Integers, FiniteSets, SequencesExt

CONSTANTS
    NumWorkers,      \* the MPI communicator size
    Labels,          \* vertex labels, a finite set of naturals
    Edges,           \* directed edge pairs <<s, t>>; undirected input gives both
    Threshold,       \* delegate_degree_threshold
    ShardOf(_, _)    \* the worker that stores delegate edge <<d, t>>

ASSUME /\ NumWorkers \in Nat \ {0}
       /\ Labels \subseteq Nat
       /\ Edges \subseteq Labels \X Labels
       /\ Threshold \in Nat \ {0}

Workers == 0 .. NumWorkers - 1

\* Global degree, as computed by the degree histogram of the build.
Degree(v) == Cardinality({e \in Edges : e[1] = v})

Delegates == {v \in Labels : Degree(v) >= Threshold}

\* vertex_locator::is_delegate()
IsDelegate(v) == v \in Delegates

\* The delegate tables are indexed by delegate_id, assigned in label order.
DelegateId(d) == Cardinality({x \in Delegates : x < d})

\* The locator's local_id: delegate_id for a delegate, label / size otherwise.
LocalId(v) == IF IsDelegate(v) THEN DelegateId(v) ELSE v \div NumWorkers

\* delegate_partitioned_graph::master: local_id mod mpi_size.
Master(v) == LocalId(v) % NumWorkers

\* Variant of owner() that forgets to reduce the label mod size.
OwnerNoMod(v) == IF IsDelegate(v) THEN Master(v) ELSE v

\* vertex_locator::owner(): label mod size for an owned vertex; a delegate's
\* locator carries its master rank.
Owner(v) == IF IsDelegate(v) THEN Master(v) ELSE v % NumWorkers

\* The targets reached by edges_begin(v) .. edges_end(v) on worker w: all
\* edges of an owned vertex at its owner, the local shard of a delegate.
LocalTargets(w, v) ==
    IF IsDelegate(v)
    THEN {t \in Labels : <<v, t>> \in Edges /\ ShardOf(v, t) = w}
    ELSE IF Owner(v) = w THEN {t \in Labels : <<v, t>> \in Edges} ELSE {}

\* The CSR order of those edges (targets are stored sorted).
LocalEdgeSeq(w, v) == SetToSortSeq(LocalTargets(w, v), <)

\* vertices_begin() .. vertices_end(): the non-delegates this worker owns.
OwnedVertices(w) == {v \in Labels \ Delegates : v % NumWorkers = w}

\* controller_begin() .. controller_end(): the delegates this worker masters.
Controllers(w) == {d \in Delegates : Master(d) = w}

\* Slots of a vertex_data store on worker w: one per owned vertex and one
\* per delegate.
Slots(w) == OwnedVertices(w) \cup Delegates

\* vertex_data::reset(r): every owned and every delegate slot holds r.  A
\* store is a function over all labels, of which a rank reads only Slots.
VertexDataReset(r) == [v \in Labels |-> r]

=============================================================================
