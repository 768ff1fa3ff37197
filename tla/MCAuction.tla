----------------------------- MODULE MCAuction -----------------------------
(* An instance of Auction for TLC, with grids of orders and couriers for the *)
(* cost matrices and the assigners on them.                                  *)
EXTENDS AssignmentProblems

MCConstraints ==
    [max_pickup_distance |-> 5, max_total_distance |-> 15, max_pickup_time |-> 15,
     max_delivery_time |-> 45, max_orders_per_courier |-> 20, min_courier_rating |-> 35,
     min_completion_rate |-> 80]

MCCouriers ==
    [avg_speed : {10, 20}, current_load : {1, 2}, max_load : {2}, max_distance : {7, 10},
     vehicle : {{"bike"}, {"car"}}, orders_today : {0, 19, 20}, rating : {34, 35, 50},
     completion_rate : {79, 80}]

MCOrders ==
    [delivery : {3, 10}, age : {0, 10, 11, 15, 30}, prep_time : {0, 20},
     required_vehicle : {{}, {"car"}}]

\* Two couriers that differ in everything, one that has no capacity; orders near and far.
MCTeam == {[avg_speed |-> 10, current_load |-> 0, max_load |-> 2, max_distance |-> 20,
            vehicle |-> {"bike"}, orders_today |-> 0, rating |-> 50, completion_rate |-> 95],
           [avg_speed |-> 20, current_load |-> 1, max_load |-> 2, max_distance |-> 7,
            vehicle |-> {"car"}, orders_today |-> 19, rating |-> 40, completion_rate |-> 95],
           [avg_speed |-> 20, current_load |-> 2, max_load |-> 2, max_distance |-> 20,
            vehicle |-> {"car"}, orders_today |-> 0, rating |-> 50, completion_rate |-> 95]}

MCWaiting == [delivery : {1, 9}, age : {0, 15}, prep_time : {20}, required_vehicle : {{}}]

MCProblems ==
    UNION {[orders : [1..n -> MCWaiting], couriers : [1..m -> MCTeam],
            pickup : [1..n -> [1..m -> {1, 4, 6}]],
            constraints : {MCConstraints}, objective : {"balanced", "minimize_distance"}] :
           n \in {1, 2}, m \in {1, 2}}
=============================================================================
