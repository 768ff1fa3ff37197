----------------------------- MODULE CostMatrix -----------------------------
(***************************************************************************)
(* CostMatrixBuilder (dispatch_engine/algorithms/cost_matrix.py): what a   *)
(* courier costs for an order, pair by pair (build) and for all pairs at   *)
(* once (build_fast), and which pairs the constraints rule out.            *)
(*                                                                         *)
(* Distances are data, in km; speeds divide 60, so that minutes are whole. *)
(* Weights and ratings are in tenths, rates in hundredths, ages in         *)
(* minutes, and a cost is counted in thousandths: hence the factors below. *)
(* A vehicle is a set of at most one name.                                 *)
(***************************************************************************)
EXTENDS Integers

CONSTANTS INFINITY_COST

Objective ==
    {"minimize_distance", "minimize_time", "minimize_cost", "maximize_fairness", "balanced"}

Weighing(distance, time, fairness, quality, urgency) ==
    [distance |-> distance, time |-> time, fairness |-> fairness, quality |-> quality,
     urgency |-> urgency]

\* _adjust_weights_for_objective: the other objectives keep what they are given.
Weights(given, objective) ==
    CASE objective = "minimize_distance" -> Weighing(10, 1, 0, 0, 0)
      [] objective = "minimize_time" -> Weighing(3, 10, 0, 0, 2)
      [] objective = "maximize_fairness" -> Weighing(3, 2, 10, 0, 1)
      [] OTHER -> given

DefaultWeights == Weighing(10, 5, 3, 2, 4)

\* In minutes.
TravelTime(km, courier) == (60 * km) \div courier.avg_speed

HasCapacity(courier) == courier.current_load < courier.max_load

\* What is weighed in both builds, each in its own unit.
Criteria(courier, pickup, delivery) ==
    [distance |-> 100 * (pickup + delivery),
     time     |-> 100 * TravelTime(pickup + delivery, courier),
     fairness |-> 5 * courier.orders_today,
     quality  |-> 2 * (50 - courier.rating)]

Weighed(weights, criteria) ==
    weights.distance * criteria.distance + weights.time * criteria.time
        + weights.fairness * criteria.fairness + weights.quality * criteria.quality

-----------------------------------------------------------------------------
(* build. *)

IsFeasible(order, courier, pickup, delivery, constraints) ==
    /\ HasCapacity(courier)
    /\ pickup <= constraints.max_pickup_distance
    /\ pickup + delivery <= constraints.max_total_distance
    /\ pickup + delivery <= courier.max_distance
    /\ order.required_vehicle \subseteq courier.vehicle
    /\ courier.rating >= constraints.min_courier_rating
    /\ courier.completion_rate >= constraints.min_completion_rate
    /\ courier.orders_today < constraints.max_orders_per_courier
    /\ TravelTime(pickup, courier) <= constraints.max_pickup_time
    /\ TravelTime(pickup, courier) + order.prep_time + TravelTime(delivery, courier)
            <= constraints.max_delivery_time

\* An order that has waited for more than ten minutes is cheaper.
AssignmentCost(weights, order, courier, pickup, delivery, constraints) ==
    IF IsFeasible(order, courier, pickup, delivery, constraints)
    THEN Weighed(weights, Criteria(courier, pickup, delivery))
            - (IF order.age > 10 THEN 100 * weights.urgency ELSE 0)
    ELSE INFINITY_COST

(* build_fast. *)

\* Mutant: the age is not clipped.
UrgencyUnclipped(order) == 10 * order.age

\* np.clip(age / 600, 0, 2).
Urgency(order) == IF order.age > 20 THEN 200 ELSE 10 * order.age

\* Mutant: only the way to the restaurant is timed.
IsPenalizedByPickup(courier, pickup, delivery, constraints) ==
    \/ pickup > constraints.max_pickup_distance
    \/ pickup + delivery > constraints.max_total_distance
    \/ TravelTime(pickup, courier) > constraints.max_delivery_time
    \/ ~HasCapacity(courier)
    \/ courier.rating < constraints.min_courier_rating
    \/ courier.completion_rate < constraints.min_completion_rate
    \/ courier.orders_today >= constraints.max_orders_per_courier

\* _apply_constraint_penalties: neither the courier's own distance nor vehicles nor the
\* time of the pickup, and no preparation.
IsPenalized(courier, pickup, delivery, constraints) ==
    \/ pickup > constraints.max_pickup_distance
    \/ pickup + delivery > constraints.max_total_distance
    \/ TravelTime(pickup + delivery, courier) > constraints.max_delivery_time
    \/ ~HasCapacity(courier)
    \/ courier.rating < constraints.min_courier_rating
    \/ courier.completion_rate < constraints.min_completion_rate
    \/ courier.orders_today >= constraints.max_orders_per_courier

\* Mutant: the way is multiplied by the speed.
FastCostBySpeed(weights, order, courier, pickup, delivery, constraints) ==
    IF IsPenalized(courier, pickup, delivery, constraints)
    THEN INFINITY_COST
    ELSE Weighed(weights, [Criteria(courier, pickup, delivery) EXCEPT
                              !.time = 10 * (pickup + delivery) * courier.avg_speed])
            + weights.urgency * Urgency(order)

\* An order that has waited is dearer.
FastCost(weights, order, courier, pickup, delivery, constraints) ==
    IF IsPenalized(courier, pickup, delivery, constraints)
    THEN INFINITY_COST
    ELSE Weighed(weights, Criteria(courier, pickup, delivery)) + weights.urgency * Urgency(order)

\* The matrix of a problem: orders and couriers are functions from 1..n, and pickup[i][j]
\* is the way of courier j to the restaurant of order i.
BuildFast(problem, given) ==
    LET weights == Weights(given, problem.objective)
    IN  [i \in DOMAIN problem.orders |-> [j \in DOMAIN problem.couriers |->
            FastCost(weights, problem.orders[i], problem.couriers[j],
                     problem.pickup[i][j], problem.orders[i].delivery, problem.constraints)]]

(* get_assignment_details: what a solution says of a pair. *)

Details(order, courier, pickup) ==
    [total_distance |-> pickup + order.delivery,
     pickup_time    |-> TravelTime(pickup, courier),
     delivery_time  |-> TravelTime(pickup, courier) + order.prep_time
                            + TravelTime(order.delivery, courier)]
=============================================================================
