------------------------------- MODULE Auction -------------------------------
(***************************************************************************)
(* AuctionAssigner.solve (dispatch_engine/algorithms/hungarian.py): orders *)
(* bid for couriers in rounds.  A round processes, in index order, the     *)
(* orders that were unassigned when it began; an order takes the courier   *)
(* of highest net value (benefit less price) from whoever held it and      *)
(* raises its price by the lead over the runner-up plus epsilon.           *)
(*                                                                         *)
(* Costs and prices are integers, epsilon the unit they are scaled to; a   *)
(* cost of INFINITY_COST marks a pair that violates a hard constraint.     *)
(***************************************************************************)
EXTENDS Integers, FiniteSets, Functions, Matching

CONSTANTS
    NOrders,            \* problem.n_orders; orders are the indices 0..NOrders-1
    Couriers,           \* indices of problem.couriers
    Costs,              \* the costs a cost matrix is made of
    INFINITY_COST,
    Epsilon,            \* epsilon, the bid increment
    MaxIterations,      \* max_iterations, the bound on rounds
    Nobody              \* the -1 of assignment and courier_to_order

Orders == 0 .. NOrders - 1

ASSUME AuctionAssumption ==
    /\ NOrders \in Nat \ {0}            \* validate_problem
    /\ Couriers # {}                    \* validate_problem
    /\ IsFiniteSet(Couriers)
    /\ Costs \subseteq Int
    /\ INFINITY_COST \in Nat \ {0}
    /\ Epsilon \in Nat \ {0}
    /\ MaxIterations \in Nat
    /\ Nobody \notin Couriers \union Orders

VARIABLES
    cost,               \* the cost matrix; benefit_matrix is its negation
    prices,             \* courier -> price
    assignment,         \* order -> courier or Nobody
    courier_to_order,   \* courier -> order or Nobody
    iteration,          \* rounds begun
    unassigned,         \* orders the current round has yet to process
    pc                  \* "round", "bid" or "done"

vars == <<cost, prices, assignment, courier_to_order, iteration, unassigned, pc>>

-----------------------------------------------------------------------------

\* Mutant: orders bid as if couriers had no price.
NetValueWithoutPrice(i, j) == -cost[i][j]
NetValue(i, j) == -cost[i][j] - prices[j]

\* argsort puts some order of greatest net value first; ties may fall either way.
IsBest(i, j) == \A k \in Couriers : NetValue(i, k) <= NetValue(i, j)

\* Mutant: the values are sorted the wrong way round after the first.
IsWorstValue(i, j, v) ==
    IF Couriers = {j}
    THEN v = -INFINITY_COST
    ELSE /\ \E k \in Couriers \ {j} : v = NetValue(i, k)
         /\ \A k \in Couriers \ {j} : NetValue(i, k) >= v

\* The net value in second place, when j is in first.
IsSecondBestValue(i, j, v) ==
    IF Couriers = {j}
    THEN v = -INFINITY_COST
    ELSE /\ \E k \in Couriers \ {j} : v = NetValue(i, k)
         /\ \A k \in Couriers \ {j} : NetValue(i, k) <= v

Init ==
    /\ cost \in [Orders -> [Couriers -> Costs]]
    /\ prices = [j \in Couriers |-> 0]
    /\ assignment = [i \in Orders |-> Nobody]
    /\ courier_to_order = [j \in Couriers |-> Nobody]
    /\ iteration = 0
    /\ unassigned = {}
    /\ pc = "round"

Unassigned == {i \in Orders : assignment[i] = Nobody}

\* Mutant: the round goes over assigned orders too.
BeginRoundForAll ==
    /\ pc = "round"
    /\ iteration < MaxIterations
    /\ Unassigned # {}
    /\ iteration' = iteration + 1
    /\ unassigned' = Orders
    /\ pc' = "bid"
    /\ UNCHANGED <<cost, prices, assignment, courier_to_order>>

BeginRound ==
    /\ pc = "round"
    /\ iteration < MaxIterations
    /\ Unassigned # {}
    /\ iteration' = iteration + 1
    /\ unassigned' = Unassigned
    /\ pc' = "bid"
    /\ UNCHANGED <<cost, prices, assignment, courier_to_order>>

\* max_iterations rounds have run, or nobody is left without a courier.
Stop ==
    /\ pc = "round"
    /\ iteration = MaxIterations \/ Unassigned = {}
    /\ pc' = "done"
    /\ UNCHANGED <<cost, prices, assignment, courier_to_order, iteration, unassigned>>

IsNext(i) == i \in unassigned /\ \A k \in unassigned : i <= k

Processed(i) ==
    /\ unassigned' = unassigned \ {i}
    /\ pc' = IF unassigned = {i} THEN "round" ELSE "bid"
    /\ UNCHANGED <<cost, iteration>>

\* Mutant: a net value below zero counts as infeasible.
SkipUnprofitable(i) ==
    /\ pc = "bid" /\ IsNext(i)
    /\ \E j \in Couriers : IsBest(i, j) /\ NetValue(i, j) < 0
    /\ Processed(i)
    /\ UNCHANGED <<prices, assignment, courier_to_order>>

\* No courier is feasible for the order at its price.
Skip(i) ==
    /\ pc = "bid" /\ IsNext(i)
    /\ \E j \in Couriers : IsBest(i, j) /\ NetValue(i, j) <= -INFINITY_COST
    /\ Processed(i)
    /\ UNCHANGED <<prices, assignment, courier_to_order>>

\* The order takes its best courier j, displacing the order that held it.
Bid(i, j) ==
    /\ pc = "bid" /\ IsNext(i)
    /\ IsBest(i, j) /\ NetValue(i, j) > -INFINITY_COST
    /\ \E second \in {-INFINITY_COST} \union {NetValue(i, k) : k \in Couriers} :
          /\ IsSecondBestValue(i, j, second)
          /\ prices' = [prices EXCEPT ![j] = -cost[i][j] - second + Epsilon]
    /\ assignment' = [k \in Orders |->
          IF k = i THEN j
          ELSE IF k = courier_to_order[j] THEN Nobody ELSE assignment[k]]
    /\ courier_to_order' = [courier_to_order EXCEPT ![j] = i]
    /\ Processed(i)

Next ==
    \/ BeginRound
    \/ Stop
    \/ \E i \in Orders : Skip(i)
    \/ \E i \in Orders, j \in Couriers : Bid(i, j)

Spec == Init /\ [][Next]_vars

\* The assignments of the solution: the pairs assigned at a finite cost.
Solution ==
    {<<i, assignment[i]>> :
        i \in {k \in Orders : assignment[k] # Nobody /\ cost[k][assignment[k]] < INFINITY_COST}}

PairCost == [p \in Orders \X Couriers |-> cost[p[1]][p[2]]]
TotalCost(M) == SumFunctionOnSet(PairCost, M)

-----------------------------------------------------------------------------

TypeOK ==
    /\ cost \in [Orders -> [Couriers -> Costs]]
    /\ prices \in [Couriers -> Int]
    /\ assignment \in [Orders -> Couriers \union {Nobody}]
    /\ courier_to_order \in [Couriers -> Orders \union {Nobody}]
    /\ iteration \in 0..MaxIterations
    /\ unassigned \in SUBSET Orders
    /\ pc \in {"round", "bid", "done"}

\* The two arrays stay inverse to each other through every displacement, so no
\* courier is promised to two orders.
AssignmentsAreMutual ==
    /\ \A i \in Orders : assignment[i] # Nobody => courier_to_order[assignment[i]] = i
    /\ \A j \in Couriers : courier_to_order[j] # Nobody => assignment[courier_to_order[j]] = j

\* The orders a round still has to process are unassigned, although others'
\* bids displace orders meanwhile: the snapshot of line 294 never goes stale.
RoundIsCurrent ==
    /\ unassigned \subseteq Unassigned
    /\ (unassigned = {}) = (pc # "bid")

\* Nobody pays for a courier nobody has taken, and no price is negative.
FreeCouriersAreFree ==
    \A j \in Couriers :
        /\ prices[j] >= 0
        /\ courier_to_order[j] = Nobody => prices[j] = 0

\* An assigned pair is feasible: the test of lines 342-344, which drops pairs of
\* infinite cost from the solution, never finds one.
AssignedPairsAreFeasible ==
    \A i \in Orders : assignment[i] # Nobody => cost[i][assignment[i]] < INFINITY_COST

\* Epsilon-complementary slackness: whatever was bid since, an assigned order
\* has, within epsilon, the best net value that today's prices offer it.
EpsilonSlackness ==
    \A i \in Orders : assignment[i] # Nobody =>
        \A k \in Couriers : NetValue(i, k) <= NetValue(i, assignment[i]) + Epsilon

FeasiblePairs(orders, couriers) == {p \in orders \X couriers : cost[p[1]][p[2]] < INFINITY_COST}
FeasibleMatchings(orders, couriers) ==
    {M \in SUBSET FeasiblePairs(orders, couriers) : IsMatching(M)}

\* "Auction is approximately optimal" (hungarian.py:379): when every order got a
\* courier, no assignment of all orders is cheaper by more than epsilon for each
\* order.
NearlyOptimal ==
    (pc = "done" /\ Unassigned = {}) =>
        \A M \in FeasibleMatchings(Orders, Couriers) :
            Cardinality(M) = NOrders => TotalCost(Solution) <= TotalCost(M) + NOrders * Epsilon

H == INSTANCE Hungarian
SubMatrix(orders, couriers) == [i \in orders |-> [j \in couriers |-> cost[i][j]]]

\* "Hungarian is optimal" (hungarian.py:147): what the other assigner of this file
\* returns for any of the couriers and the first orders, their matrix padded where it is
\* not square, is a feasible matching; none serves more orders, and none serves as many
\* at less cost.  (The matrix never changes: the start of a run will do.)
HungarianDominates ==
    Init => \A n \in Orders, couriers \in SUBSET Couriers \ {{}} :
        \A S \in H!Solutions(SubMatrix(0..n, couriers)) :
            /\ S \subseteq FeasiblePairs(0..n, couriers) /\ IsMatching(S)
            /\ \A M \in FeasibleMatchings(0..n, couriers) :
                   /\ Cardinality(M) <= Cardinality(S)
                   /\ Cardinality(M) = Cardinality(S) => TotalCost(S) <= TotalCost(M)

\* The inductive invariant.
IInv ==
    /\ TypeOK
    /\ AssignmentsAreMutual
    /\ RoundIsCurrent
    /\ FreeCouriersAreFree
    /\ AssignedPairsAreFeasible
    /\ EpsilonSlackness

\* A bid raises one price by epsilon at least; nothing lowers a price.  The
\* auction cannot go round in circles.
PricesRise == \A j \in Couriers : prices'[j] = prices[j] \/ prices'[j] >= prices[j] + Epsilon
PricesOnlyRise == [][PricesRise]_vars

\* An order leaves a round empty-handed only if every courier feasible for it
\* is taken: prices never drive an order away from a free courier.
LeavesEmptyHanded(i) == i \in unassigned \ unassigned' /\ assignment'[i] = Nobody
AllFeasibleTaken(i) ==
    \A j \in Couriers : cost[i][j] < INFINITY_COST => courier_to_order'[j] # Nobody
PassedOverOnlyIfTaken == \A i \in Orders : LeavesEmptyHanded(i) => AllFeasibleTaken(i)
EmptyHandedOnlyIfTaken == [][PassedOverOnlyIfTaken]_vars

\* Bids displace orders, but the number of orders without a courier never grows.
BacklogIsNoLarger == Cardinality(Unassigned') <= Cardinality(Unassigned)
BacklogNeverGrows == [][BacklogIsNoLarger]_vars
=============================================================================
