---------------------------- MODULE VisitorQueue ----------------------------
(***************************************************************************)
(* The asynchronous visitor engine of visitor_queue.hpp, one process per   *)
(* MPI rank, running init_visitor_traversal(): the whole-graph traversal  *)
(* (Seeding = "graph") or the single-source one (Seeding = "source").      *)
(*                                                                         *)
(* The engine is generic in the visitor: pre_visit, init_visit and visit   *)
(* are constant operators that an algorithm module supplies with INSTANCE  *)
(* ... WITH.  A visitor is a record with at least the fields v (its target *)
(* vertex) and bcast (the broadcast bit of its vertex_locator).  Each call *)
(* of visit / init_visit is split as the code runs it: the visitor's own   *)
(* update of the algorithm data, then one queue_visitor call per           *)
(* generated visitor, then the delegate broadcast, so that the mailbox can *)
(* deliver messages between those calls.                                   *)
(*                                                                         *)
(* The ygm mailbox is not in the sources.  It is modelled as a bag of      *)
(* in-flight messages delivered reliably in any order.  Its receive        *)
(* callback runs while the rank polls global_empty(), and, when RecvInSend *)
(* holds, also from inside a send() or send_bcast() call (a batch flush).  *)
(* global_empty() is true on every rank together, when every rank is       *)
(* polling with an empty local queue and no message is in flight.          *)
(***************************************************************************)
EXTENDS PartitionedGraph, BagsExt

CONSTANTS
    PreVisit(_, _),      \* pre_visit(alg_data): [ok |-> BOOLEAN, d |-> data]
    InitVisit(_, _, _),  \* init_visit on rank w: [ret, d, out |-> Seq(visitor)]
    Visit(_, _, _),      \* visit on rank w: [ret, d, out |-> Seq(visitor)]
    NewVisitor(_),       \* visitor_type(vertex_locator)
    Greater(_, _),       \* the visitor's operator>, the order of the queue
    RecvInSend,          \* the mailbox may run receive callbacks inside send()
    Seeding,             \* which init_visitor_traversal overload runs
    Source               \* the source vertex of the single-source overload

ASSUME /\ RecvInSend \in BOOLEAN
       /\ Seeding \in {"graph", "source"}
       /\ Source \in Labels

VARIABLES
    pc,      \* position of each rank in init_visitor_traversal()
    lq,      \* m_localqueue_owned: a bag, popped by the visitor order
    cq,      \* m_local_controller_queue: a FIFO of broadcast visitors
    msgs,    \* the mailbox: a bag of [to, vis] in flight
    cidx,    \* the controller iterator citr, as an index
    vidx,    \* the vertex iterator vitr, as an index
    frame,   \* the visit call in progress: visitors still to queue, broadcast
    mbox,    \* the rank is inside a mailbox send, so callbacks may run
    data     \* the algorithm data (AlgData) of each rank

engineVars == <<pc, lq, cq, msgs, cidx, vidx, frame, mbox>>

PCs == {"src", "seedC", "seedV", "ppc", "while", "ppc2", "pop", "cond", "call",
        "poll", "done"}

\* The first step of the do ... while body of the running overload.
Top == IF Seeding = "graph" THEN "seedC" ELSE "ppc"

NoFrame == [out |-> <<>>, bc |-> <<>>, cont |-> "done"]

CtrlSeq(w) == SetToSortSeq(Controllers(w), <)
VertSeq(w) == SetToSortSeq(OwnedVertices(w), <)

\* The visitors top() may return: visitor_priority_queue is a heap ordered
\* by std::greater, so its top is an element no other one is below.
TopCandidates(S) == {x \in S : \A y \in S : ~Greater(x, y) \/ x = y}

\* visitor_queue::empty() (m_localqueue_delegates is never pushed)
Empty(w) == lq[w] = EmptyBag /\ cq[w] = <<>>

\* vertex_locator::is_delegate_master(), as do_visit uses it
IsDelegateMaster(w, v) == IsDelegate(v) /\ Master(v) = w

\* do_visit / do_init_visit: a broadcast copy if the call returned true
\* at the delegate's master.
BcastOf(w, r, vis) ==
    IF r.ret /\ IsDelegateMaster(w, vis.v)
    THEN <<[vis EXCEPT !.bcast = TRUE]>> ELSE <<>>

\* Enter a visit call whose result is r; cont is where the loop resumes.
Call(w, r, bc, cont) ==
    /\ data' = [data EXCEPT ![w] = r.d]
    /\ frame' = [frame EXCEPT ![w] = [out |-> r.out, bc |-> bc, cont |-> cont]]
    /\ pc' = [pc EXCEPT ![w] = "call"]

Goto(w, l) == pc' = [pc EXCEPT ![w] = l]

LeaveMailbox(w) == mbox' = [mbox EXCEPT ![w] = FALSE]

EngineInit ==
    /\ pc = [w \in Workers |-> IF Seeding = "graph" THEN "seedC" ELSE "src"]
    /\ lq = [w \in Workers |-> EmptyBag]
    /\ cq = [w \in Workers |-> <<>>]
    /\ msgs = EmptyBag
    /\ cidx = [w \in Workers |-> 1]
    /\ vidx = [w \in Workers |-> 1]
    /\ frame = [w \in Workers |-> NoFrame]
    /\ mbox = [w \in Workers |-> FALSE]

-----------------------------------------------------------------------------
(* init_visitor_traversal(source): rank 0 queues a visitor of the source   *)
(* (the owner test is commented out in the code), the others go straight   *)
(* to the loop.                                                            *)

SeedSource(w) ==
    /\ pc[w] = "src"
    /\ IF w = 0
       THEN Call(w, [ret |-> FALSE, d |-> data[w], out |-> <<NewVisitor(Source)>>],
                 <<>>, "ppc")
       ELSE /\ Goto(w, "ppc")
            /\ UNCHANGED <<frame, data>>
    /\ LeaveMailbox(w)
    /\ UNCHANGED <<lq, cq, msgs, cidx, vidx>>

-----------------------------------------------------------------------------
(* init_visitor_traversal(): one controller and one owned vertex are       *)
(* seeded per loop iteration, through do_init_visit.                        *)

SeedController(w) ==
    /\ pc[w] = "seedC"
    /\ cidx[w] <= Len(CtrlSeq(w))
    /\ LET vis == NewVisitor(CtrlSeq(w)[cidx[w]])
           r   == InitVisit(w, vis, data[w])
       IN  Call(w, r, BcastOf(w, r, vis), "seedV")
    /\ cidx' = [cidx EXCEPT ![w] = @ + 1]
    /\ LeaveMailbox(w)
    /\ UNCHANGED <<lq, cq, msgs, vidx>>

SkipController(w) ==
    /\ pc[w] = "seedC"
    /\ cidx[w] > Len(CtrlSeq(w))
    /\ Goto(w, "seedV")
    /\ LeaveMailbox(w)
    /\ UNCHANGED <<lq, cq, msgs, cidx, vidx, frame, data>>

SeedVertex(w) ==
    /\ pc[w] = "seedV"
    /\ vidx[w] <= Len(VertSeq(w))
    /\ LET vis == NewVisitor(VertSeq(w)[vidx[w]])
           r   == InitVisit(w, vis, data[w])
       IN  Call(w, r, BcastOf(w, r, vis), "ppc")
    /\ vidx' = [vidx EXCEPT ![w] = @ + 1]
    /\ LeaveMailbox(w)
    /\ UNCHANGED <<lq, cq, msgs, cidx>>

SkipVertex(w) ==
    /\ pc[w] = "seedV"
    /\ vidx[w] > Len(VertSeq(w))
    /\ Goto(w, "ppc")
    /\ LeaveMailbox(w)
    /\ UNCHANGED <<lq, cq, msgs, cidx, vidx, frame, data>>

\* process_pending_controllers(): visit every queued broadcast; the result
\* of visit is ignored, so these never broadcast again.
ProcessController(w) ==
    /\ pc[w] \in {"ppc", "ppc2"}
    /\ cq[w] # <<>>
    /\ Call(w, Visit(w, Head(cq[w]), data[w]), <<>>, pc[w])
    /\ cq' = [cq EXCEPT ![w] = Tail(@)]
    /\ LeaveMailbox(w)
    /\ UNCHANGED <<lq, msgs, cidx, vidx>>

ControllersDone(w) ==
    /\ pc[w] \in {"ppc", "ppc2"}
    /\ cq[w] = <<>>
    /\ Goto(w, IF pc[w] = "ppc" THEN "while" ELSE "pop")
    /\ LeaveMailbox(w)
    /\ UNCHANGED <<lq, cq, msgs, cidx, vidx, frame, data>>

\* while (!empty()) { process_pending_controllers(); pop_top(); do_visit }
WhileTest(w) ==
    /\ pc[w] = "while"
    /\ Goto(w, IF Empty(w) THEN "cond" ELSE "ppc2")
    /\ LeaveMailbox(w)
    /\ UNCHANGED <<lq, cq, msgs, cidx, vidx, frame, data>>

\* pop_top() and do_visit().  pop_top asserts a non-empty local queue; the
\* step is only enabled then (PopSafe states when it is reached).
PopTop(w) ==
    /\ pc[w] = "pop"
    /\ lq[w] # EmptyBag
    /\ \E vis \in TopCandidates(BagToSet(lq[w])) :
          /\ lq' = [lq EXCEPT ![w] = BagRemove(@, vis)]
          /\ LET r == Visit(w, vis, data[w])
             IN  Call(w, r, BcastOf(w, r, vis), "while")
    /\ LeaveMailbox(w)
    /\ UNCHANGED <<cq, msgs, cidx, vidx>>

\* Variant of the loop condition that never falls through to global_empty().
LoopTestNoExit(w) ==
    /\ pc[w] = "cond"
    /\ Goto(w, Top)
    /\ LeaveMailbox(w)
    /\ UNCHANGED <<lq, cq, msgs, cidx, vidx, frame, data>>

\* The do ... while condition: seeds left (whole-graph overload) or local
\* work, else global_empty().
LoopTest(w) ==
    /\ pc[w] = "cond"
    /\ LET seedsLeft == /\ Seeding = "graph"
                        /\ \/ cidx[w] <= Len(CtrlSeq(w))
                           \/ vidx[w] <= Len(VertSeq(w))
       IN  Goto(w, IF seedsLeft \/ ~Empty(w) THEN Top ELSE "poll")
    /\ LeaveMailbox(w)
    /\ UNCHANGED <<lq, cq, msgs, cidx, vidx, frame, data>>

-----------------------------------------------------------------------------
(* queue_visitor() and local_delegate_visit(), for the next visitor the    *)
(* current call generates.  A delegate is pre-visited on every rank; a     *)
(* visitor for a remote owned vertex is sent without a pre_visit.          *)

QueueVisitor(w) ==
    /\ pc[w] = "call"
    /\ frame[w].out # <<>>
    /\ LET vis   == Head(frame[w].out)
           local == IsDelegate(vis.v) \/ Owner(vis.v) = w
           r     == IF local THEN PreVisit(vis, data[w])
                             ELSE [ok |-> TRUE, d |-> data[w]]
           sent  == r.ok /\ Owner(vis.v) # w
       IN  /\ data' = [data EXCEPT ![w] = r.d]
           /\ lq' = IF r.ok /\ Owner(vis.v) = w
                    THEN [lq EXCEPT ![w] = BagAdd(@, vis)] ELSE lq
           /\ msgs' = IF sent THEN BagAdd(msgs, [to |-> Owner(vis.v), vis |-> vis])
                      ELSE msgs
           /\ mbox' = [mbox EXCEPT ![w] = RecvInSend /\ sent]
    /\ frame' = [frame EXCEPT ![w].out = Tail(@)]
    /\ UNCHANGED <<pc, cq, cidx, vidx>>

\* Variant of send_bcast whose rank loop runs to size inclusive.
SendBcastPastEnd(w) ==
    /\ pc[w] = "call"
    /\ frame[w].out = <<>>
    /\ frame[w].bc # <<>>
    /\ msgs' = msgs (+) SetToBag({[to |-> x, vis |-> frame[w].bc[1]] : x \in 0 .. NumWorkers})
    /\ frame' = [frame EXCEPT ![w].bc = <<>>]
    /\ mbox' = [mbox EXCEPT ![w] = RecvInSend]
    /\ UNCHANGED <<pc, lq, cq, cidx, vidx, data>>

\* m_p_mailbox->send_bcast(v): one copy to every rank, this one included.
SendBcast(w) ==
    /\ pc[w] = "call"
    /\ frame[w].out = <<>>
    /\ frame[w].bc # <<>>
    /\ msgs' = msgs (+) SetToBag({[to |-> x, vis |-> frame[w].bc[1]] : x \in Workers})
    /\ frame' = [frame EXCEPT ![w].bc = <<>>]
    /\ mbox' = [mbox EXCEPT ![w] = RecvInSend]
    /\ UNCHANGED <<pc, lq, cq, cidx, vidx, data>>

Return(w) ==
    /\ pc[w] = "call"
    /\ frame[w].out = <<>>
    /\ frame[w].bc = <<>>
    /\ Goto(w, frame[w].cont)
    /\ frame' = [frame EXCEPT ![w] = NoFrame]
    /\ LeaveMailbox(w)
    /\ UNCHANGED <<lq, cq, msgs, cidx, vidx, data>>

-----------------------------------------------------------------------------
(* mailbox_recv -> handle_mailbox_receive().  A broadcast is queued for    *)
(* process_pending_controllers(), except at the master, which gets its own *)
(* copy back and drops it; anything else is pre-visited and pushed.        *)

HandleMailboxReceive(w, vis) ==
    IF IsDelegate(vis.v) /\ vis.bcast
    THEN /\ cq' = IF Master(vis.v) = w THEN cq
                  ELSE [cq EXCEPT ![w] = Append(@, vis)]
         /\ UNCHANGED <<lq, data>>
    ELSE LET r == PreVisit(vis, data[w])
         IN  /\ data' = [data EXCEPT ![w] = r.d]
             /\ lq' = IF r.ok THEN [lq EXCEPT ![w] = BagAdd(@, vis)] ELSE lq
             /\ UNCHANGED cq

Receive(w) ==
    /\ pc[w] = "poll" \/ mbox[w]
    /\ \E m \in BagToSet(msgs) :
          /\ m.to = w
          /\ msgs' = BagRemove(msgs, m)
          /\ HandleMailboxReceive(w, m.vis)
    /\ UNCHANGED <<pc, cidx, vidx, frame, mbox>>

\* global_empty() returned false and the rank has local work: loop again.
Resume(w) ==
    /\ pc[w] = "poll"
    /\ ~Empty(w)
    /\ Goto(w, Top)
    /\ UNCHANGED <<lq, cq, msgs, cidx, vidx, frame, mbox, data>>

\* global_empty() true on every rank: the traversal returns everywhere.
Quiesce ==
    /\ \A w \in Workers : pc[w] = "poll" /\ Empty(w)
    /\ msgs = EmptyBag
    /\ pc' = [w \in Workers |-> "done"]
    /\ UNCHANGED <<lq, cq, msgs, cidx, vidx, frame, mbox, data>>

WorkerStep(w) ==
    \/ SeedSource(w)
    \/ SeedController(w) \/ SkipController(w)
    \/ SeedVertex(w) \/ SkipVertex(w)
    \/ ProcessController(w) \/ ControllersDone(w)
    \/ WhileTest(w) \/ PopTop(w) \/ LoopTest(w)
    \/ QueueVisitor(w) \/ SendBcast(w) \/ Return(w)
    \/ Receive(w) \/ Resume(w)

EngineNext == (\E w \in Workers : WorkerStep(w)) \/ Quiesce

\* Start init_visitor_traversal() again on every rank.
Restart ==
    /\ pc' = [w \in Workers |-> IF Seeding = "graph" THEN "seedC" ELSE "src"]
    /\ cidx' = [w \in Workers |-> 1]
    /\ vidx' = [w \in Workers |-> 1]
    /\ UNCHANGED <<lq, cq, msgs, frame, mbox>>

AllDone == \A w \in Workers : pc[w] = "done"

=============================================================================
