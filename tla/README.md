# TLA+ models of HavoqGT

This directory holds TLA+ models of the distributed graph engine in `src/` and
the TLC configurations that check them. The code runs one MPI process per rank.
Each rank holds one part of a delegate-partitioned graph. The ranks run graph
algorithms as *visitors* that the visitor queue moves between them through a
ygm mailbox.

## 1. Inventory

| Component | Source | State | Operations | What makes it hard |
|---|---|---|---|---|
| Delegate-partitioned graph | `delegate_partitioned_graph.hpp` | Immutable after construction. It holds the owned vertices of each rank and the delegates. Delegates are high-degree vertices whose edges are sharded over all ranks. Each delegate has a master (`local_id % size`) and a `vertex_data` slot per owned vertex and per delegate on every rank. | `vertex_locator::is_delegate/owner/local_id`, `master`, `controller_begin/end`, `vertices_begin/end`, `edges_begin/end` | Every rank holds a copy of each delegate's data. The copies agree only if the algorithm broadcasts them. |
| Visitor queue | `visitor_queue.hpp` | Per rank: the local queue (`m_localqueue_owned`), the controller queue (`m_local_controller_queue`), the two seed iterators of `init_visitor_traversal`, and the visit call in progress. | `init_visitor_traversal` (seed one controller and one vertex, drain the controller queue, pop and visit, loop until `global_empty`), `do_visit`/`do_init_visit` (broadcast from a delegate master), `queue_visitor`/`local_delegate_visit`, `handle_mailbox_receive`, `process_pending_controllers`, `push`/`pop_top`, `empty` | Receive callbacks run during polling, and with a batching mailbox also inside a send. Broadcasts return to the sender. The queues and the mailbox feed each other, and termination is a collective test. |
| ygm mailbox | external (used in `visitor_queue.hpp`) | Messages in flight. | `send`, `send_bcast`, `global_empty` | Delivery is unordered. Callbacks are re-entrant. |
| k-source BFS | `k_breadth_first_search_sync_level_per_source.hpp` | Per rank: `level[v][k]`, `visited_sources_bitmap`, `new_visited_sources_bitmap`, `visited_flag`, `new_visited_flag`, and `g_current_level`. | Level-0 setup, `init_visit` (scatter, FLOW1), `pre_visit` (apply), `visit` (FLOW2 broadcast and apply), `update_local_vertex_data`, the all-reduced count, and the level loop | Several copies of each delegate's data are updated by two broadcast flows within one traversal. Levels must stay exact under any message order. The loop must stop on a zero count. |
| BFS visitor | `breadth_first_search_modified.hpp` | `level_data`, `parent_data`, and a level-ordered bucket queue | `pre_visit`, `visit`, `bfs_queue::push/pop/top` | Multi-source level comparison (accepts *higher* levels, line 158). Level is a 16-bit field. |
| Token passing pattern matching | `token_passing_pattern_matching.hpp` | Token path and metadata | `tppm_visitor::visit` forwarding tokens | Token forwarding along a pattern. |
| Random walker | `random_walkers/random_walker_restart_avoiding_sink.hpp` | Steps, trials, attempts, cost | `next()` with death, restart, retry | Bounded retries and counters. |
| degawarerhh | `graphstore/degawarerhh/degawarerhh.hpp` | Low-degree table and middle-high-degree table | `insert_edge(_dup)`, `erase_edge(_dup)`, `degree`, `clear` | Edges migrate between the tables at the threshold. |
| st_path BFS | `st_path_metall.cpp` | `bfs_level` map (level, predecessor) | Level-synchronous BFS and path reconstruction | Level and path boundaries. |
| Ingestion and test drivers | `create_graph_metall_int_id.cpp`, `test/test_bias_randwork.cpp` | Files | Parsing and output | Pure I/O. |

### How the parts interact

An algorithm creates a visitor queue over the graph and its `vertex_data`
arrays. `init_visitor_traversal()` calls `init_visit` on every controller and
owned vertex, then drains the local work. When a visit generates a visitor,
`queue_visitor` routes it:

- An owned vertex is pre-visited and pushed locally, or sent to its owner.
- A delegate is pre-visited on this rank and then pushed at its master or sent
  to it.

A `visit` or `init_visit` that returns true at a delegate's master is broadcast
to every rank. The mailbox callback `handle_mailbox_receive` puts that
broadcast on the controller queue of every rank except the master, where it is
dropped. Later, `process_pending_controllers` visits it there.

## 2. Modules

| Module | Models | State and actions |
|---|---|---|
| `PartitionedGraph` | The graph after construction | No variables. `Owner`, `Master`, `IsDelegate`, `LocalTargets` (the local shard of a delegate's edges, through the constant `ShardOf`), `OwnedVertices`, `Controllers`, `Slots`, and `VertexDataReset` (`vertex_data::reset`, which `kbfs_vertex_data_t::init` calls on the five stores before `KBFS`'s level-0 loop). |
| `VisitorQueue` | The engine for a whole-graph traversal, generic in the visitor | The variables `pc`, `lq`, `cq`, `cidx`, `vidx`, `frame` and `mbox` are per rank, and `msgs` is the mailbox. There is one action per step of `init_visitor_traversal` (see below), plus `QueueVisitor`, `SendBcast`, `Return`, `Receive` and `Resume` per rank, and a collective `Quiesce`. The visitor is supplied by `INSTANCE ... WITH PreVisit, InitVisit, Visit, NewVisitor`, each returning the new rank data and the visitors it queues. |
| `KBFS` | The k-source BFS on the engine | Data per rank holds the five arrays and `g_current_level`. The visitor is `KPreVisit`/`KInitVisit`/`KVisit`. `NextLevel` is the local update, all-reduce, break, the addition to `total` (`num_total_visited_vertices`) and `++level`, followed by the next traversal. `Result` is the returned `kbfs_result_t`. A reference `Dist` (RECURSIVE `Ball`) gives the BFS distances. |
| `MC_KBFS` | The model instance | A 6-vertex graph with 2 ranks and delegates 0 and 1 (threshold 3), each mastered on a different rank. Delegate edges are sharded by target. |
| `BFS` | `bfs_visitor` on the single-source traversal `init_visitor_traversal(source)` | Data per rank holds `level_data`, `parent_data` and `source_data`. `BPreVisit`, `BVisit` and `BGreater` translate `pre_visit`, `visit` and `operator>`. The level is kept modulo `2^LevelBits` (16 in the code). A reference `Dist` gives the BFS distances. |
| `MC_BFS` | The model instances | Undirected graphs on two ranks: a 5-cycle with a chord (no delegates), a 5-vertex path, and the `MC_KBFS` graph with delegates. |
| `EdgeStore` | What a graph store promises | A bag of `[src, trg, w]` edges and the last return values. One action per public call of the store; `SetWeight` gives one (source, target) edge a new weight. |
| `DegAwareRHH` | `graphstore/degawarerhh/degawarerhh.hpp` | `ldeg[v]` is the sequence of `v`'s rows in the low-degree table, each `[trg, w, prop]`. `mhdeg[v]` is `v`'s chunk in the middle-high table (`[prop, adj]`, `adj` a bag of `[trg, w]`), or `Absent`. `numEdges` is `m_num_edges`, and `ok`/`cnt` are the last returns. `lastSet` is a history variable: the property last written for each vertex. Actions: `InsertEdge`, `InsertEdgeDup` (both through `AddEdge`, the migration to a chunk included), `EraseEdge`, `EraseEdgeDup` (both through `ShrinkChunk`, the migration back included), `Degree`, `SetVertexProperty`, `SetEdgeProperty` (a write through `edge_property_data`: the first row to the target, else one chunk entry to it), `Clear`. `ES == INSTANCE EdgeStore WITH edges <- StoredEdges` is the refinement mapping. |
| `MC_DegAwareRHH` | The model instance | Vertices {1, 2} (self loops included), weights {0, 1}, properties {0, 1}. |
| `STPath` | `bfs_level_synchronous_single_source` of `st_path_metall.cpp` | `bfs` is `bfs_level` (a function whose domain grows as `operator[]` inserts), with `level`, `finished`, `found`, the iterator positions `vi`/`ei`, and the path-walk state `cur`, `pathLen`, `out` (the lines printed). One action per step of the loops: `StartSweep`, `VisitVertex`, `ScanEdge`, `EdgesDone`, `EndVertex`, `EndSweep`, `Report`, `PathStep`. `order` is the vertex order, chosen in `Init`; `size_t` is kept modulo `2^SizeBits`. |
| `MC_STPath` | The model instance | Vertices 0..4: the triangle 0-1-2, the edge 2-3 and the isolated vertex 4. Every source/target pair and every vertex order. |
| `RandomWalker` | `simple_random_walker::next` | `w` is the walker (`steps`, `cost`, `attempts`, `total`, `at`), `trials` the loop counter. `Trial` is one round of the `do` loop (max_steps test, death, edge, sink restart, skip); `CallNext` and `Complete` are the caller. |
| `MC_RandomWalker` | The model instance | Three vertices: a normal edge 0→1, a redirect 1→2, a skipped edge 1→0, and the sink 2. |
| `TPPM` | `tppm_visitor` on the whole-graph traversal | A token is `[v, target, itr, pass, init, bcast]`; `TVisit` has one CASE arm per branch of `visit`. The data per rank is the number of "found loop" lines it printed. |
| `MC_TPPM` | The model instance | A triangle with a pendant edge and delegate 2, target 0, three-edge walks, on two ranks. |

The steps of `init_visitor_traversal` each have their own action:
`SeedController`, `SkipController`, `SeedVertex`, `SkipVertex`,
`ProcessController`, `ControllersDone`, `WhileTest`, `PopTop` and `LoopTest`.

`frame` is the visit call in progress. `QueueVisitor` then runs one
`queue_visitor` per generated visitor. `SendBcast` is the `send_bcast` of
`do_visit`, and `Return` goes back to the caller's label. `mbox[w]` is TRUE
while rank `w` is inside a mailbox send; if `RecvInSend`, callbacks may run
then.

The local queue is a bag. `PopTop` takes a visitor that no other queued
visitor is `Greater` than: the top of `visitor_priority_queue`, a heap on
the visitor's `operator>`. Ties are popped in any order. For `TPPM`,
`operator>` is always false, so any queued token may come first.

## 3. Runs

| Run | Cfg | Expect | Checks |
|---|---|---|---|
| `kbfs` | `MC_KBFS.cfg` | pass (65k states) | `TypeOK`, `LevelSound`, `FinalLevels`, `KBFSResult`, `KBFSTerminates` (about 1 minute) |
| `kbfs_delegate_source` | `MC_KBFS_delegate_source.cfg` | violation | `FinalLevels` |
| `kbfs_recv_in_send` | `MC_KBFS_recv_in_send.cfg` | violation | `PopSafe` |
| `bfs` | `MC_BFS.cfg` | pass (36k states) | `TypeOK`, `BFSResult`, `BFSTerminates` |
| `bfs_delegates` | `MC_BFS_delegates.cfg` | violation | `BFSResult` |
| `bfs_level_wrap` | `MC_BFS_level_wrap.cfg` | violation | `BFSResult` |
| `degawarerhh` | `MC_DegAwareRHH.cfg` | pass (12.7k states) | `TypeOK`, `DegreeSplit`, `Refines` |
| `degawarerhh_clear` | `MC_DegAwareRHH_clear.cfg` | violation | `NumEdgesCount` |
| `degawarerhh_property` | `MC_DegAwareRHH_property.cfg` | violation | `PropertyReadBack` |
| `stpath` | `MC_STPath.cfg` | pass (43k states) | `LevelsExact`, `PathCorrect`, `Returns` |
| `random_walker` | `MC_RandomWalker.cfg` | pass (250 states) | `WalkerBounds`, `WalkEnds` |
| `tppm` | `MC_TPPM.cfg` | pass (700k states, about 2 minutes) | `FoundLoops`, `TPPMTerminates` |

What the properties say:

- **`LevelSound`:** any level recorded on any rank, for an owned vertex or a
  delegate shard, equals the BFS distance. This must hold under every
  interleaving of scatters, broadcasts and receives.
- **`FinalLevels`:** when the loop exits, every slot on every rank holds
  exactly the distance, including every shard of every delegate.
- **`KBFSResult`:** when the loop breaks on a zero count, the returned
  `max_level` is one past the largest distance from any source, and
  `num_total_visited_vertices` is the number of sources plus, per level, the
  vertices some source first reaches at that level. Each rank counts its
  owned vertices and, from `visited_flag` after the update, the delegates it
  masters; a count that also added the delegate shards'
  `update_local_vertex_data` return (`NumVisitedEveryShard`) breaks it.
- **`KBFSTerminates`:** the loop eventually exits with a zero count rather
  than at the level cap.
- **`PopSafe`:** `pop_top` is never reached with an empty local queue.
- **`BFSResult`:** when the traversal returns, every vertex's home slot holds
  its BFS distance, and its parent is a neighbour one level closer.
- **`BFSTerminates`:** the traversal returns on every rank.
- **`DegreeSplit`:** no vertex is in both tables. A vertex has fewer than
  `Threshold` rows, and a chunk holds at least `Threshold` edges.
- **`Refines`:** `DegAwareRHH` implements `EdgeStore`. Every call, through
  migrations in both directions, changes the edge multiset and returns what
  the abstract store says. A weight written through `edge_property_data`
  lands on exactly one edge from the source to that target, whether the
  vertex's edges are rows or a chunk.
- **`NumEdgesCount`:** `num_edges()` equals the number of stored edges.
- **`PropertyReadBack`:** `vertex_property_data(v)` returns the property last
  written for `v` while `v` has an edge.
- **`LevelsExact`:** while the sweep runs, every vertex in `bfs_level` has
  its BFS distance as level and a predecessor one level closer along an edge.
- **`PathCorrect`:** the function returns true exactly when the target is
  reachable, and then (within the depth cap) the printed lines form a
  shortest path from the target back to the source.
- **`Returns`:** the `do` loop ends and the function returns.
- **`WalkerBounds`:** between calls, the walker's cost is at most its steps,
  its steps at most `max_steps` and its total steps, and its restarts at most
  `max_attempts`.
- **`WalkEnds`:** every walker eventually dies or completes.
- **`FoundLoops`:** when the traversal has ended, the number of "found loop"
  lines equals the number of closed walks the pattern accepts times the
  number of edges into the target. Each neighbour of the target sends its
  own initiation token, so a loop is reported once per edge into the
  target: the code's comments ("create visitors only for the source
  vertices") can be read either way, so this multiplicity is stated as
  what the code does rather than as a finding.
- **`TPPMTerminates`:** the pattern-matching traversal returns on every rank.
For `STPath`, the graph has a vertex reached along two shortest paths
(3 through 2 only, 2 through both 0 and 1), a cycle, and an unreachable
vertex, and every vertex order is enumerated, so a sweep meets vertices of
the next level before and after those of the current one. Three bits of
`size_t` exceed every level and path length, so no wrap is hidden. For the
walker, `max_steps` 4 and `max_attempts` 2 let a walker restart, use up its
attempts at the sink, skip, and complete. For `TPPM`, the target has two
edges, so the duplicate initiation shows; vertex 2 is a delegate on the
triangle, so accepted and rejected tokens pass through a broadcast; both a
match and a mismatch happen at each hop, and walks of three edges make a
token hop twice before its loop test.

The BFS graph (a 5-cycle with a chord) has two shortest paths to vertex 3,
and vertices on both ranks, so a vertex can be reached first at a higher
level and corrected later. For the store, threshold 2 (the code's default)
and at most 4 counted edges let a vertex migrate to a chunk, grow it past
the threshold, and migrate back. Two weights make duplicate edges of
`insert_edge_dup` with different weights.

The sources are 3 and 4, which live on different ranks. Their neighbours are
exactly the two delegates, so:

- level 1 visits only delegates;
- level 2 fans out through both delegates' shards and FLOW1 broadcasts;
- level 3 finds nothing.

With two ranks, every delegate has a non-master shard, and both FLOW1 and FLOW2
broadcasts happen on both ranks. `MaxLevel = 6` exceeds the diameter, so
reaching the cap would itself be a failure.

### Findings

1. **A delegate as a BFS source gets wrong levels**
   (`kbfs_delegate_source`, k-BFS line 278). The level-0 setup initialises a
   source only on `source_list[k].owner()`. For a delegate, that is only its
   master, so the other shards do not scatter at level 1. In the run, vertex 3
   gets level 3 instead of 1.
2. **`pop_top` on an empty queue** (`kbfs_recv_in_send`, visitor_queue line
   231). `empty()` also counts the controller queue. A broadcast received
   during a send leaves only controller work. `process_pending_controllers`
   drains it, and `pop_top()` is then called on an empty local queue: an
   assert, or undefined behaviour in release builds. This occurs only if the
   mailbox runs callbacks inside `send`.

3. **`bfs_visitor::visit` never broadcasts a delegate** (`bfs_delegates`,
   bfs line 177). `visit` returns false, so `do_visit` never fans a delegate
   out to its shards, and vertices behind other ranks' shards get levels
   above their distance.
4. **The 16-bit level wraps** (`bfs_level_wrap`, bfs line 173). `level() + 1`
   is stored in a 16-bit field. With 2-bit levels on a 5-vertex path, a
   vertex receives the "unvisited" value and its neighbours are lowered to
   wrapped levels.
5. **`clear()` does not reset `m_num_edges`** (`degawarerhh_clear`,
   degawarerhh line 396). After inserting one edge and clearing,
   `num_edges()` returns 1.
6. **A vertex property is lost when its row is erased**
   (`degawarerhh_property`, degawarerhh line 268). A write through
   `vertex_property_data` reaches only the first row `find()` returns, and
   later rows carry the default. Erasing that row while others remain loses
   the property.

A related hazard has no run of its own: **a source listed twice** (k-BFS
line 281). The level-0 loop overwrites the vertex's `visited_sources_bitmap`
with `{k}` for each `k`, so with `source_list = <3, 3>` the first source keeps
level 0 but loses its bit, never scatters, and every other vertex keeps the
unvisited level for it. Replacing `MCSources` by `<<3, 3>>` in `MC_KBFS.cfg`
makes TLC report `FinalLevels` violated at the first level.

### Fairness

Each rank's step is weakly fair: every MPI process keeps executing its loop.
`Quiesce` (the collective `global_empty`) and `NextLevel` (the barrier and
all-reduce) are weakly fair: a collective completes once every rank has
joined. Message delivery is `Receive`, a rank step, so a pending message is
eventually received by a polling rank.

`STPath` and `RandomWalker` are single-threaded functions: `WF_vars(Next)`
says only that the thread keeps running. For the walker, the caller keeps
calling `next()` on a walker that is not complete (the walk driver is not in
`src/`; `CallNext` is modelled from its interface). `rand()` is a free
choice, not a fair one, so `WalkEnds` holds whatever the draws are.

## 4. Assumptions and not modelled

- **Construction is not in `src/`.** The delegate rule (degree ≥ threshold),
  delegate ids in label order, owned vertices by `label % size`, and the
  delegate locator's owner being its master all come from the spec. The
  delegate edge sharding is a constant.
- **The k-BFS driver calls functions that `visitor_queue.hpp` and the graph do
  not define.** It calls `init_visitor_traversal_new()` and
  `delegate_vertices_begin()`. They are modelled as `init_visitor_traversal()`
  and the delegate slots.
- **ygm is external.** Only the behaviour the engine relies on is modelled.
- **The bitmap width (`k_num_sources`) is assumed at least the number of
  sources.**
- **Ingestion and test drivers are not modelled.** They are I/O only.
- **`rhh_container` is not in `src/`.** The model assumes these things about it:
  - `find(key)` walks the rows of a key in insertion order;
  - erasing during an iteration keeps the remaining rows;
  - in a chunk, `find(trg)` may return any matching entry.
  `shrink_to_fit`, allocation and `opt()` change no stored edge and are left
  out. `DegAwareRHH` bounds the inserts by `MaxEdges` counted edges.
  Because allocation is left out, one hazard has no property: `clear()`
  never deallocates the middle-high chunks, and the destructor calls it, so
  every chunk leaks.
- **References returned by `vertex_property_data` and `edge_property_data`
  are used at once.** The model writes through the reference in the same
  step. A caller that kept one across an insert that migrates the vertex's
  rows to a chunk (or across a table's growth) would write into a row that
  has moved; where an element lives in `rhh_container` is not in `src/`, so
  this hazard has no property.
- **`num_edges()` and the iterators are not actions.** `num_edges()` only
  reads `m_num_edges`, which `NumEdgesCount` checks. `adjacent_edge_iterator`
  and `vertex_iterator` are declared but not defined in `src/`.
- **`bfs_visitor::pre_visit`'s other-source branch is not reached.**
  `breadth_first_search` takes one source, so every visitor carries the
  same `m_source` and lines 158-162 never run. That branch replaces a
  level by a *higher* one from another source, so with several sources
  a slot's level is not monotone; no caller in `src/` does this.
- **`breadth_first_search()` calls functions that do not exist.** It calls
  `init_visitor_traversal_reachability` and a one-argument queue
  constructor. `BFS` models the single-source overload instead.

- **`bfs_queue` is not modelled.** Nothing in the repository instantiates
  it: `breadth_first_search` uses `visitor_priority_queue`. Since no code
  calls it, its behaviour (for instance after `pop()` empties the last
  bucket) cannot go wrong in this program and is not listed as a hazard.
- **`st_path_metall.cpp`:** `main()` (opening the Metall store, timing,
  output) is I/O. The vertex order of `vertices_begin()` is unspecified and
  is any permutation. The printed lines are kept as pairs; the depth cap of
  25 is `PathCap`.
- **The random walker:** `rand()` and the edge container are nondeterministic
  choices; the time intervals are left out. `max_attempts` (10 in the code)
  is a constant.
- **`token_passing_pattern_matching()` calls `init_visitor_traversal_new`,**
  which does not exist; the whole-graph overload is modelled. The hardcoded
  46, 7 and 1 are `Target`, `MaxItr` and `Spi`. `tppm_queue` is never used.
  `pattern_indices` is assumed long enough for `Spi + MaxItr`.

## 5. Plan

Modules in order of importance:

1. **`KBFS` on `VisitorQueue`.** Done.
2. **The engine's single-source traversal and `BFS` with `bfs_visitor`.**
   Done. `bfs_queue` is left out (see section 4).
3. **An abstract specification of the engine.** Not kept. The end of a
   traversal is `global_empty()`, which belongs to ygm and is modelled as
   its contract (`Quiesce`: every rank polling with empty queues, nothing
   in flight). A refinement to a termination-detection specification only
   restated that contract. Likewise, a level-synchronous specification of
   the `kbfs` loop followed from `LevelSound`, `FinalLevels` and
   `KBFSTerminates` together, so it was dropped.
4. **`DegAwareRHH`.** Done, refining `EdgeStore`.
5. **`STPath`.** Done, checked against `Dist`.
6. **`RandomWalker`** (`next()`) and **`TPPM`** (token forwarding). Done.
7. **The engine's source-list overload** (`init_visitor_traversal(list)`,
   visitor_queue lines 241-258). No algorithm in `src/` calls it, so it has
   no visitor to be checked with; it is left out.
