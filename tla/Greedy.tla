------------------------------- MODULE Greedy -------------------------------
(***************************************************************************)
(* GreedyAssigner.solve and PriorityGreedyAssigner.solve                   *)
(* (dispatch_engine/algorithms/greedy.py): orders are served one after the *)
(* other, most urgent first, each taking the cheapest courier still        *)
(* available to it.  The two differ in the key that sorts the orders.      *)
(***************************************************************************)
EXTENDS Integers, FiniteSets, Matching

CONSTANTS
    Orders, Couriers,   \* of the problem
    Costs,              \* the costs a cost matrix is made of
    INFINITY_COST,
    MultiOrder          \* the values allow_multi_order may have

ASSUME GreedyAssumption ==
    /\ Orders # {} /\ Couriers # {}         \* validate_problem
    /\ IsFiniteSet(Orders) /\ IsFiniteSet(Couriers)
    /\ Costs \subseteq Int
    /\ INFINITY_COST \in Int
    /\ MultiOrder \subseteq BOOLEAN

VARIABLES
    cost,               \* the cost matrix of build_fast
    allow_multi_order,
    waiting,            \* orders the loop has yet to reach
    assignments,        \* set of <<order, courier>>
    assigned_couriers,
    unassigned_orders,
    before              \* history: <<i, k>>, the loop reached i before k

vars == <<cost, allow_multi_order, waiting, assignments, assigned_couriers,
          unassigned_orders, before>>

Feasible(i, j) == cost[i][j] < INFINITY_COST
Available == Couriers \ assigned_couriers

\* Mutant: couriers that are taken already are not left out.
IsBestOfAll(i, j) ==
    /\ j \in Couriers
    /\ Feasible(i, j)
    /\ \A k \in Couriers : cost[i][j] <= cost[i][k]

\* _find_best_courier may return j: the first of the cheapest, that is any of them.
IsBestCourier(i, j) ==
    /\ j \in Available
    /\ Feasible(i, j)
    /\ \A k \in Available : cost[i][j] <= cost[i][k]

Init ==
    /\ cost \in [Orders -> [Couriers -> Costs]]
    /\ allow_multi_order \in MultiOrder
    /\ waiting = Orders
    /\ assignments = {}
    /\ assigned_couriers = {}
    /\ unassigned_orders = {}
    /\ before = {}

\* The next of order_indices: ages and priorities are data, so any order.
Reach(i) ==
    /\ i \in waiting
    /\ waiting' = waiting \ {i}
    /\ before' = before \union {<<i, k>> : k \in waiting \ {i}}
    /\ UNCHANGED <<cost, allow_multi_order>>

Assign(i, j) ==
    /\ Reach(i)
    /\ IsBestCourier(i, j)
    /\ assignments' = assignments \union {<<i, j>>}
    /\ assigned_couriers' = assigned_couriers \union IF allow_multi_order THEN {} ELSE {j}
    /\ UNCHANGED unassigned_orders

\* Mutant: one infeasible courier is taken for all.
LeaveUnassignedEarly(i) ==
    /\ Reach(i)
    /\ \E j \in Couriers : ~Feasible(i, j)
    /\ unassigned_orders' = unassigned_orders \union {i}
    /\ UNCHANGED <<assignments, assigned_couriers>>

LeaveUnassigned(i) ==
    /\ Reach(i)
    /\ \A j \in Available : ~Feasible(i, j)
    /\ unassigned_orders' = unassigned_orders \union {i}
    /\ UNCHANGED <<assignments, assigned_couriers>>

Next ==
    \/ \E i \in Orders, j \in Couriers : Assign(i, j)
    \/ \E i \in Orders : LeaveUnassigned(i)

Spec == Init /\ [][Next]_vars

Done == waiting = {}

-----------------------------------------------------------------------------

TypeOK ==
    /\ cost \in [Orders -> [Couriers -> Costs]]
    /\ allow_multi_order \in BOOLEAN
    /\ waiting \subseteq Orders
    /\ assignments \subseteq Orders \X Couriers
    /\ assigned_couriers \subseteq Couriers
    /\ unassigned_orders \subseteq Orders
    /\ before \subseteq Orders \X Orders

\* Every order ends either with exactly one courier or among the unassigned.
OrdersAreAccountedFor ==
    /\ \A i \in Orders :
          (i \in waiting) = (i \notin unassigned_orders /\ i \notin OrdersOf(assignments))
    /\ unassigned_orders \intersect OrdersOf(assignments) = {}
    /\ \A p, q \in assignments : p[1] = q[1] => p = q

\* Unless couriers may carry several orders, the solution is a matching.
AssignsEachCourierOnce ==
    ~allow_multi_order => /\ IsMatching(assignments)
                          /\ assigned_couriers = CouriersOf(assignments)

\* "No feasible courier found" (greedy.py:132) is true when it is said at the end:
\* every courier feasible for an unassigned order has been given to another one.
NoneLeftForUnassigned ==
    \A i \in unassigned_orders, j \in Available : ~Feasible(i, j)

\* No envy among the served: an order reached earlier never likes the courier of
\* one reached later better than its own, and never goes without a courier
\* feasible for it that a later one gets.
UrgentOrdersChooseFirst ==
    \A q \in assignments, i \in Orders : <<i, q[1]>> \in before =>
        /\ \A p \in assignments : p[1] = i => cost[i][p[2]] <= cost[i][q[2]]
        /\ i \in unassigned_orders => ~Feasible(i, q[2])

\* What carries the argument: an order's courier is, for it, at least as good as
\* any that is still available, and the loop reaches each order once.
ChoicesStayBest ==
    /\ \A p \in assignments : Feasible(p[1], p[2])
    /\ \A p \in assignments, k \in Available : cost[p[1]][p[2]] <= cost[p[1]][k]
    /\ \A p \in before : p[1] \notin waiting

FeasibleMatchings ==
    {M \in SUBSET {p \in Orders \X Couriers : Feasible(p[1], p[2])} : IsMatching(M)}

\* Fast, and never far off: whatever matching of feasible pairs there is, the Hungarian
\* one included, greedy serves at least half as many orders.
ServesHalf ==
    Done /\ ~allow_multi_order =>
        \A M \in FeasibleMatchings : Cardinality(M) <= 2 * Cardinality(assignments)

\* The inductive invariant.
IInv ==
    /\ TypeOK
    /\ OrdersAreAccountedFor
    /\ AssignsEachCourierOnce
    /\ NoneLeftForUnassigned
    /\ UrgentOrdersChooseFirst
    /\ ChoicesStayBest
=============================================================================
