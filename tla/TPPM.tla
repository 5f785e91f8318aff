-------------------------------- MODULE TPPM ---------------------------------
(***************************************************************************)
(* The token passing pattern matching of token_passing_pattern_matching    *)
(* .hpp: tppm_visitor on the engine's whole-graph init_visitor_traversal.  *)
(*                                                                         *)
(* Every vertex is seeded with a default token (do_pass_token false,       *)
(* is_init_step true), which sends an initiation token to each neighbour   *)
(* labelled Target.  At Target an initiation token starts one token per    *)
(* neighbour; a token at itr_count k forwards to every neighbour while the *)
(* vertex's metadata matches pattern[pattern_indices[spi + k + 1]], and a  *)
(* token that has made MaxItr hops reports a loop when it is back at       *)
(* Target.  The report is the "found loop" line the code prints: the only *)
(* result the code produces; it is kept as a count per rank.               *)
(*                                                                         *)
(* The code hardcodes the target label (46), max_itr_count (7) and         *)
(* source_pattern_index (1); they are the constants Target, MaxItr and     *)
(* Spi.  token_passing_pattern_matching() calls init_visitor_traversal_new *)
(* which the engine does not define; the whole-graph overload, whose seeds *)
(* are the default tokens the visitor's first branch expects, is the one   *)
(* modelled.  pre_visit always accepts and operator> is always false, so  *)
(* the queue pops in any order.                                            *)
(***************************************************************************)
EXTENDS PartitionedGraph, BagsExt

CONSTANTS
    Target,           \* the label 46 of the code
    MaxItr,           \* max_itr_count, 7 in the code
    Spi,              \* source_pattern_index, 1 in the code
    Meta,             \* vertex_metadata: Labels -> metadata values
    Pattern,          \* pattern: 0 .. n-1 -> metadata values
    PatternIndices,   \* pattern_indices: 0 .. m-1 -> indices of pattern
    RecvInSend

\* Every pattern_indices read of a forwarding token is in range.
ASSUME /\ Target \in Labels
       /\ MaxItr \in Nat /\ Spi \in Nat
       /\ Spi + MaxItr \in DOMAIN PatternIndices
       /\ \A i \in DOMAIN PatternIndices : PatternIndices[i] \in DOMAIN Pattern

VARIABLES pc, lq, cq, msgs, cidx, vidx, frame, mbox,
          data    \* per rank: the number of "found loop" lines it printed

vars == <<pc, lq, cq, msgs, cidx, vidx, frame, mbox, data>>

\* A default-constructed vertex_locator.
NoLocator == -1

\* A token: vertex, target_vertex, itr_count, do_pass_token, is_init_step
\* and the broadcast bit of its locator.  max_itr_count and
\* source_pattern_index are MaxItr and Spi in every token the code builds.
Token == [v : Labels, target : Labels \cup {NoLocator}, itr : 0 .. MaxItr,
          pass : BOOLEAN, init : BOOLEAN, bcast : BOOLEAN]

\* tppm_visitor(vertex): no target, itr_count 0, not passing, init step.
TNewVisitor(v) == [v |-> v, target |-> NoLocator, itr |-> 0, pass |-> FALSE,
                   init |-> TRUE, bcast |-> FALSE]

\* pre_visit: always true.
TPreVisit(vis, d) == [ok |-> TRUE, d |-> d]

\* One token per local edge of v whose target is in S.
Tokens(w, v, S, tgt, itr, init) ==
    LET ns == SelectSeq(LocalEdgeSeq(w, v), LAMBDA n : n \in S)
    IN  [i \in 1 .. Len(ns) |->
            [v |-> ns[i], target |-> tgt, itr |-> itr, pass |-> TRUE,
             init |-> init, bcast |-> FALSE]]

\* Variant of the pattern test that reads the entry of itr_count instead of
\* new_itr_count.
TVisitPatternLag(w, vis, d) ==
    LET new == vis.itr + 1
    IN  CASE ~vis.pass /\ vis.init ->
               [ret |-> TRUE, d |-> d, out |-> Tokens(w, vis.v, {Target}, Target, 0, TRUE)]
          [] vis.v = vis.target /\ vis.itr = 0 /\ vis.init ->
               [ret |-> TRUE, d |-> d, out |-> Tokens(w, vis.v, Labels, vis.target, 0, FALSE)]
          [] ~vis.init /\ MaxItr > vis.itr
                       /\ Meta[vis.v] = Pattern[PatternIndices[Spi + vis.itr]] ->
               [ret |-> TRUE, d |-> d, out |-> Tokens(w, vis.v, Labels, vis.target, new, FALSE)]
          [] ~vis.init /\ MaxItr <= vis.itr /\ vis.v = vis.target ->
               [ret |-> FALSE, d |-> d + 1, out |-> <<>>]
          [] OTHER -> [ret |-> FALSE, d |-> d, out |-> <<>>]

\* visit: the three branches of the code.  A default token sends an
\* initiation token to each neighbour labelled Target; an initiation token
\* at Target starts a token to every neighbour; a passing token hops on
\* while the vertex matches the next pattern entry, and after MaxItr hops
\* reports a loop if it is at Target.  Any other token is dropped.
TVisit(w, vis, d) ==
    LET new == vis.itr + 1
    IN  CASE ~vis.pass /\ vis.init ->
               [ret |-> TRUE, d |-> d, out |-> Tokens(w, vis.v, {Target}, Target, 0, TRUE)]
          [] vis.v = vis.target /\ vis.itr = 0 /\ vis.init ->
               [ret |-> TRUE, d |-> d, out |-> Tokens(w, vis.v, Labels, vis.target, 0, FALSE)]
          [] ~vis.init /\ MaxItr > vis.itr
                       /\ Meta[vis.v] = Pattern[PatternIndices[Spi + new]] ->
               [ret |-> TRUE, d |-> d, out |-> Tokens(w, vis.v, Labels, vis.target, new, FALSE)]
          [] ~vis.init /\ MaxItr <= vis.itr /\ vis.v = vis.target ->
               [ret |-> FALSE, d |-> d + 1, out |-> <<>>]
          [] OTHER -> [ret |-> FALSE, d |-> d, out |-> <<>>]

\* init_visit: visit.
TInitVisit(w, vis, d) == TVisit(w, vis, d)

\* operator>: always false.
TGreater(a, b) == FALSE

E == INSTANCE VisitorQueue WITH PreVisit <- TPreVisit, InitVisit <- TInitVisit,
                                Visit <- TVisit, NewVisitor <- TNewVisitor,
                                Greater <- TGreater,
                                Seeding <- "graph", Source <- Target

-----------------------------------------------------------------------------
\* create_visitor_queue over the alg_data tuple and one traversal.
Init ==
    /\ E!EngineInit
    /\ data = [w \in Workers |-> 0]

Terminated == E!AllDone /\ UNCHANGED vars

Next == E!EngineNext \/ Terminated

\* Every rank keeps running its loop, the mailbox delivers every message.
Fairness ==
    /\ \A w \in Workers : WF_vars(E!WorkerStep(w))
    /\ WF_vars(E!Quiesce)

Spec == Init /\ [][Next]_vars /\ Fairness

-----------------------------------------------------------------------------
(* Reference: the closed walks the pattern accepts.                        *)

\* Target, n1, ..., nMaxItr, Target along edges, with the metadata of n_k
\* equal to pattern[pattern_indices[Spi + k]].
MatchingWalks ==
    {p \in [1 .. MaxItr + 2 -> Labels] :
        /\ p[1] = Target /\ p[MaxItr + 2] = Target
        /\ \A i \in 1 .. MaxItr + 1 : <<p[i], p[i + 1]>> \in Edges
        /\ \A k \in 1 .. MaxItr : Meta[p[k + 1]] = Pattern[PatternIndices[Spi + k]]}

\* The edges into Target: one initiation token is made for each.
InDegree == Cardinality({e \in Edges : e[2] = Target})

\* The "found loop" lines printed on all ranks.
Reports == SumFunction(data)

-----------------------------------------------------------------------------
\* When the traversal has ended everywhere, the loops reported are exactly
\* the closed walks the pattern accepts, each once per initiation token:
\* every hop, every delegate broadcast and every mismatch drop adds up,
\* whatever order the ranks pop tokens and the mailbox delivers them.
FoundLoops == E!AllDone => Reports = InDegree * Cardinality(MatchingWalks)

\* The traversal returns on every rank: tokens stop after MaxItr hops, so
\* the ranks run out of work and global_empty() is reached.
TPPMTerminates == <>E!AllDone

=============================================================================
