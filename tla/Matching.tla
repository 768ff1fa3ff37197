------------------------------ MODULE Matching ------------------------------
(***************************************************************************)
(* What the dispatch engine calls a solution: a set of <<order, courier>>  *)
(* pairs (AssignmentSolution.assignments) in which each order and each     *)
(* courier occurs at most once.  The assigners of                          *)
(* dispatch_engine/algorithms promise one; the solver writes one to the    *)
(* database; the tests require one of every assigner                       *)
(* (tests/test_dispatch_algorithms.py, test_assignment_uniqueness).        *)
(***************************************************************************)

\* Two pairs that compete for the same order or the same courier.
Conflict(p, q) == p # q /\ (p[1] = q[1] \/ p[2] = q[2])

IsMatching(M) == \A p, q \in M : ~Conflict(p, q)

\* Every solution an assigner may return for these orders and couriers.
Matchings(orders, couriers) == {M \in SUBSET (orders \X couriers) : IsMatching(M)}

OrdersOf(M) == {p[1] : p \in M}
CouriersOf(M) == {p[2] : p \in M}
=============================================================================
