------------------------------ MODULE Assigners ------------------------------
(***************************************************************************)
(* The assigners that the solver runs on HungarianAssigner, from a problem *)
(* to the solutions that they may return: HungarianAssigner itself,        *)
(* BatchAssigner and MultiObjectiveAssigner                                *)
(* (dispatch_engine/algorithms/batch.py).                                  *)
(***************************************************************************)
EXTENDS CostMatrix, FiniteSets, FiniteSetsExt, Matching

H == INSTANCE Hungarian

CONSTANTS
    BatchLimit      \* the most orders, and couriers, that batch leaves to Hungarian: 500

\* solve makes a cost builder of its own, whatever cost_builder was set.
HungarianSolutions(problem) == H!Solutions(BuildFast(problem, DefaultWeights))

\* order_indices of GreedyAssigner: the oldest first; sorting keeps equals as they are.
Precedes(problem, i, k) ==
    LET Age(n) == problem.orders[n].age
    IN  Age(i) > Age(k) \/ (Age(i) = Age(k) /\ i < k)

\* _find_best_courier: the first of the cheapest, if any is feasible.
BestCourier(row, taken) ==
    {j \in DOMAIN row \ taken :
        /\ row[j] < INFINITY_COST
        /\ \A k \in DOMAIN row \ taken : row[j] < row[k] \/ (row[j] = row[k] /\ j <= k)}

\* Each order gets the best of the couriers that those before it have left: the only
\* such set of pairs is what the loop over order_indices makes.
GreedySolutions(problem) ==
    LET matrix == BuildFast(problem, DefaultWeights)
        IsChosen(M, i) ==
            LET earlier == {p \in M : Precedes(problem, p[1], i)}
            IN  {p[2] : p \in {q \in M : q[1] = i}} = BestCourier(matrix[i], CouriersOf(earlier))
    IN  {M \in SUBSET ((DOMAIN problem.orders) \X (DOMAIN problem.couriers)) :
            \A i \in DOMAIN problem.orders : IsChosen(M, i)}

\* BatchAssigner.solve: batches that are too large are greedy's.
BatchSolutions(problem) ==
    IF /\ Cardinality(DOMAIN problem.orders) <= BatchLimit
       /\ Cardinality(DOMAIN problem.couriers) <= BatchLimit
    THEN HungarianSolutions(problem)
    ELSE GreedySolutions(problem)

TotalDistance(problem, assigned) ==
    MapThenSumSet(LAMBDA p : Details(problem.orders[p[1]], problem.couriers[p[2]],
                                     problem.pickup[p[1]][p[2]]).total_distance, assigned)

\* _select_best_solution: the rate of assignment, then the distance.
IsBetter(problem, a, b) ==
    \/ Cardinality(a) > Cardinality(b)
    \/ Cardinality(a) = Cardinality(b) /\ TotalDistance(problem, a) <= TotalDistance(problem, b)

\* MultiObjectiveAssigner.solve: the best of what Hungarian returns, for each of the
\* combinations of weights, which it does not use.  The orders age from one to the next.
MultiObjectiveSolutions(problem, aged) ==
    UNION {{best \in {s, t} : IsBetter(problem, best, s) /\ IsBetter(problem, best, t)} :
               s \in HungarianSolutions(problem), t \in HungarianSolutions(aged)}
=============================================================================
