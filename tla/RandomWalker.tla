----------------------------- MODULE RandomWalker -----------------------------
(***************************************************************************)
(* simple_random_walker::next of random_walker_restart_avoiding_sink.hpp,  *)
(* called by a walk that keeps moving the walker it returns until the      *)
(* walker dies or is_complete() holds.                                     *)
(*                                                                         *)
(* One trial of the do loop is one step: the max_steps test, the death     *)
(* draw, the random edge, the restart at a sink and the test that skips    *)
(* edges of type 2 or namespace 6.  rand() and the edge container are      *)
(* nondeterministic: the container may return any edge out of the vertex, *)
(* or none (no edge at the walker's time).  The time intervals are left    *)
(* out.                                                                    *)
(***************************************************************************)
EXTENDS Integers

CONSTANTS
    Vertices,
    Start,          \* start_from
    WalkEdges,      \* [src, trg, redirect, skip]: skip is type == 2 \/ ns == 6
    MaxSteps,       \* max_steps
    MaxAttempts,    \* max_attempts (10 in the code)
    DeathPossible,  \* death_prob > 0
    NoEdge

ASSUME /\ Start \in Vertices
       /\ MaxSteps \in Nat /\ MaxAttempts \in Nat
       /\ DeathPossible \in BOOLEAN

VARIABLES
    pc,      \* "idle" (between calls), "loop" (inside next), "dead", "complete"
    w,       \* the walker: [steps, cost, attempts, total, at]
    trials   \* next's trials

vars == <<pc, w, trials>>

Walker == [steps : Nat, cost : Nat, attempts : Nat, total : Nat, at : Vertices]

\* What get_random_weighted_edge may return at v.
Choices(v) == {e \in WalkEdges : e.src = v} \cup {NoEdge}

Init ==
    /\ pc = "idle"
    /\ w = [steps |-> 0, cost |-> 0, attempts |-> 0, total |-> 0, at |-> Start]
    /\ trials = -1

\* The walk calls next() on a walker that is not complete.
CallNext ==
    /\ pc = "idle"
    /\ ~(w.steps >= MaxSteps)
    /\ pc' = "loop"
    /\ trials' = -1
    /\ UNCHANGED w

\* The walk stops once is_complete() holds.
Complete ==
    /\ pc = "idle"
    /\ w.steps >= MaxSteps
    /\ pc' = "complete"
    /\ UNCHANGED <<w, trials>>

\* Variant of the false return that hands the walker back as if it lived.
DieReturnsTrue == pc' = "idle" /\ UNCHANGED w

\* next() returns false: the walker is gone.
Die == pc' = "dead" /\ UNCHANGED w

\* Variant of the restart that keeps the walker's cost.
RestartKeepCost(t) ==
    w' = [w EXCEPT !.steps = 0, !.attempts = @ + 1, !.total = @ + 1 + t, !.at = Start]

\* The walker restarted at start_from: cost and steps 0, one more attempt.
Restart(t) ==
    w' = [steps |-> 0, cost |-> 0, attempts |-> w.attempts + 1,
          total |-> w.total + 1 + t, at |-> Start]

\* The walker moved along e.
Move(e, t) ==
    w' = [w EXCEPT !.steps = @ + 1 + t,
                   !.cost = @ + (IF e.redirect THEN 0 ELSE 1) + t,
                   !.total = @ + 1 + t,
                   !.at = e.trg]

\* One trial of next(): ++trials, then the max_steps test, death, the edge,
\* the restart at a sink (or the loop exit once attempts are used up), and
\* another trial on a skipped edge.
Trial ==
    /\ pc = "loop"
    /\ LET t == trials + 1
       IN  /\ trials' = t
           /\ IF t + w.steps >= MaxSteps
              THEN Die
              ELSE \/ DeathPossible /\ Die
                   \/ \E e \in Choices(w.at) :
                        CASE e = NoEdge /\ w.attempts < MaxAttempts ->
                               Restart(t) /\ pc' = "idle"
                          [] e = NoEdge -> Die
                          [] e.skip -> UNCHANGED <<w, pc>>
                          [] OTHER -> Move(e, t) /\ pc' = "idle"

Done == pc \in {"dead", "complete"} /\ UNCHANGED vars

Next == CallNext \/ Complete \/ Trial \/ Done

\* The walk keeps calling next() and next() runs to its return.
Spec == Init /\ [][Next]_vars /\ WF_vars(Next)

-----------------------------------------------------------------------------
\* Between calls the walker's counters stay consistent through moves,
\* skipped edges and restarts: its cost is at most its steps, its steps at
\* most max_steps and at most its total steps, and it never has more than
\* max_attempts restarts.
WalkerBounds ==
    pc \in {"idle", "complete"} =>
        /\ w.cost <= w.steps
        /\ w.steps <= MaxSteps
        /\ w.steps <= w.total
        /\ w.attempts <= MaxAttempts

\* Every walker ends: it dies or completes, however the edges and the
\* death draws fall.
WalkEnds == <>(pc \in {"dead", "complete"})

================================================================================
