----------------------------- MODULE Hungarian -----------------------------
(***************************************************************************)
(* HungarianAssigner.solve (dispatch_engine/algorithms/hungarian.py) as a  *)
(* function of the cost matrix: the matrix is padded to a square of        *)
(* infinite costs, scipy's linear_sum_assignment returns a permutation of  *)
(* least total cost, and the pairs of finite cost are kept.                *)
(*                                                                         *)
(* A matrix is a function from orders to functions from couriers to costs. *)
(* Orders and couriers are numbered alike; INFINITY_COST exceeds every sum *)
(* of finite costs.                                                        *)
(***************************************************************************)
EXTENDS Integers, FiniteSets, FiniteSetsExt, Functions

CONSTANTS INFINITY_COST

Rows(matrix) == DOMAIN matrix
Columns(matrix) == DOMAIN matrix[CHOOSE i \in Rows(matrix) : TRUE]

\* The indices of the square: as many as there are rows or columns.
Indices(matrix) == Rows(matrix) \union Columns(matrix)

PadToSquare(matrix) ==
    [i \in Indices(matrix) |-> [j \in Indices(matrix) |->
        IF i \in Rows(matrix) /\ j \in Columns(matrix) THEN matrix[i][j] ELSE INFINITY_COST]]

Total(square, permutation) == SumFunction([i \in DOMAIN square |-> square[i][permutation[i]]])

\* scipy.optimize.linear_sum_assignment: any permutation of least total cost.
LinearSumAssignment(square) ==
    LET Permuted == Injection(DOMAIN square, DOMAIN square)
        Least == Min({Total(square, p) : p \in Permuted})
    IN  {p \in Permuted : Total(square, p) = Least}

\* Mutant: a pair of cost zero is dropped, as if it had no cost.
ExtractPositive(matrix, permutation) ==
    {<<i, permutation[i]>> :
        i \in {k \in Rows(matrix) : /\ permutation[k] \in Columns(matrix)
                                    /\ matrix[k][permutation[k]] > 0
                                    /\ matrix[k][permutation[k]] < INFINITY_COST}}

\* The pairs of a permutation that are neither padding nor infeasible.
Extract(matrix, permutation) ==
    {<<i, permutation[i]>> :
        i \in {k \in Rows(matrix) : /\ permutation[k] \in Columns(matrix)
                                    /\ matrix[k][permutation[k]] < INFINITY_COST}}

\* Every solution that solve may return.
Solutions(matrix) ==
    {Extract(matrix, p) : p \in LinearSumAssignment(PadToSquare(matrix))}
=============================================================================
