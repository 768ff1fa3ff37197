\* Three orders and two couriers, every matrix of four costs.
SPECIFICATION Spec
CONSTANTS
    Orders = {1, 2, 3}
    Couriers = {1, 2}
    Costs = {0, 2, 5, 99}
    INFINITY_COST = 99
    MultiOrder <- BothChoices
INVARIANTS
    IInv
    ServesHalf
CHECK_DEADLOCK FALSE
