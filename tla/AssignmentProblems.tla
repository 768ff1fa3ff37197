------------------------- MODULE AssignmentProblems -------------------------
(***************************************************************************)
(* What the assigners make of an AssignmentProblem, from the costs of its  *)
(* pairs to the solution: HungarianAssigner, BatchAssigner and             *)
(* MultiObjectiveAssigner beside the auction.  Problems are inputs and not *)
(* states: what is said of them is evaluated in one state, the start of an *)
(* auction in which no pair is feasible.                                   *)
(***************************************************************************)
EXTENDS Auction, Sequences

CONSTANTS
    SomeOrders, SomeCouriers, SomeDistances,
    Constraints,        \* ProblemConstraints
    SomeProblems,
    SomeDelays,         \* minutes from one run of Hungarian to the next
    BatchLimit

A == INSTANCE Assigners

OrderTypes == [delivery : Nat, age : Nat, prep_time : Nat, required_vehicle : SUBSET STRING]

\* Speeds divide 60: whole minutes add up.
CourierTypes ==
    [avg_speed : {n \in 1..60 : 60 % n = 0}, current_load : Nat, max_load : Nat,
     max_distance : Nat, vehicle : SUBSET STRING, orders_today : Nat, rating : 0..50,
     completion_rate : Nat]

ConstraintTypes ==
    [max_pickup_distance : Nat, max_total_distance : Nat, max_pickup_time : Nat,
     max_delivery_time : Nat, max_orders_per_courier : Nat, min_courier_rating : Nat,
     min_completion_rate : Nat]

ProblemTypes ==
    [orders : Seq(OrderTypes) \ {<<>>}, couriers : Seq(CourierTypes) \ {<<>>},  \* validate_problem
     pickup : Seq(Seq(Nat)), constraints : {Constraints}, objective : A!Objective]

\* There is a way to the restaurant from every courier.
IsProblem(problem) ==
    /\ problem \in ProblemTypes
    /\ Len(problem.pickup) = Len(problem.orders)
    /\ \A i \in DOMAIN problem.orders : Len(problem.pickup[i]) = Len(problem.couriers)

\* The same problem some minutes later.
Later(problem, minutes) ==
    [problem EXCEPT !.orders =
        [i \in DOMAIN problem.orders |-> [problem.orders[i] EXCEPT !.age = @ + minutes]]]

Matrix(problem) == A!BuildFast(problem, A!DefaultWeights)

\* The most that the limits leave of the criteria, at weights of ten tenths, and urgency.
GreatestCost ==
    10 * (100 * Constraints.max_total_distance) + 10 * (100 * Constraints.max_delivery_time)
        + 10 * (5 * Constraints.max_orders_per_courier) + 10 * 100 + 10 * 200

ASSUME AssignmentProblemsAssumption ==
    /\ SomeOrders \subseteq OrderTypes
    /\ SomeCouriers \subseteq CourierTypes
    /\ SomeDistances \subseteq Nat
    /\ Constraints \in ConstraintTypes
    /\ SomeDelays \subseteq Nat
    /\ GreatestCost < INFINITY_COST
    /\ \A problem \in SomeProblems : IsProblem(problem)

-----------------------------------------------------------------------------

Once == Init /\ \A i \in Orders, j \in Couriers : cost[i][j] = INFINITY_COST

\* Both builds agree on every pair that build allows: build_fast allows it, ranks the
\* couriers of an order alike, and differs by no more than three times the urgency.
BuildsAgree ==
    Once => \A order \in SomeOrders, pickup \in SomeDistances, objective \in A!Objective :
        LET weights == A!Weights(A!DefaultWeights, objective)
            Slow(c) == A!AssignmentCost(weights, order, c, pickup, order.delivery, Constraints)
            Fast(c) == A!FastCost(weights, order, c, pickup, order.delivery, Constraints)
            Allowed == {c \in SomeCouriers :
                           A!IsFeasible(order, c, pickup, order.delivery, Constraints)}
            Gaps == {Fast(c) - Slow(c) : c \in Allowed}
        IN  /\ Cardinality(Gaps) <= 1
            /\ \A gap \in Gaps : 0 <= gap /\ gap <= 300 * weights.urgency

\* What each pair of every solution reports keeps the limits, but for the preparation,
\* and no courier is given more orders than it can carry.
SolutionsKeepLimits ==
    Once => \A problem \in SomeProblems :
        \A S \in A!HungarianSolutions(problem) \union A!BatchSolutions(problem) : \A p \in S :
            LET courier == problem.couriers[p[2]]
                order == problem.orders[p[1]]
                details == A!Details(order, courier, problem.pickup[p[1]][p[2]])
            IN  /\ details.total_distance <= Constraints.max_total_distance
                /\ details.delivery_time - order.prep_time <= Constraints.max_delivery_time
                /\ courier.current_load + Cardinality({q \in S : q[2] = p[2]}) <= courier.max_load

\* What the pairs of M come to by one of the criteria.
Score(problem, M, c) ==
    SumFunctionOnSet(
        [p \in M |-> A!Criteria(problem.couriers[p[2]], problem.pickup[p[1]][p[2]],
                                problem.orders[p[1]].delivery)[c]], M)

AllowedMatchings(problem) ==
    {M \in SUBSET {p \in (DOMAIN problem.orders) \X (DOMAIN problem.couriers) :
                      Matrix(problem)[p[1]][p[2]] < INFINITY_COST} : IsMatching(M)}

\* "Uses Pareto optimization to find non-dominated solutions": whatever the assigner
\* chooses, the orders that it serves could not be given to other couriers so as to be
\* better by one of the criteria that its weights count, and as good by all.
SolutionsAreUndominated ==
    Once => \A problem \in SomeProblems, minutes \in SomeDelays :
        LET weights == A!Weights(A!DefaultWeights, problem.objective)
            counted == {c \in {"distance", "time", "fairness", "quality"} : weights[c] > 0}
        IN  \A S \in A!MultiObjectiveSolutions(problem, Later(problem, minutes)) :
                /\ S \in AllowedMatchings(problem)
                /\ \A M \in AllowedMatchings(problem) :
                      /\ OrdersOf(M) = OrdersOf(S)
                      /\ \A c \in counted : Score(problem, M, c) <= Score(problem, S, c)
                      => \A c \in counted : Score(problem, M, c) = Score(problem, S, c)
=============================================================================
