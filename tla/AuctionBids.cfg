\* Three orders and three couriers: every matrix of three costs, the highest
\* infeasible.  The auction stops, so a state without a successor is no error.
\* For the cost matrices, up to two orders and two couriers of three kinds at three
\* distances.
SPECIFICATION Spec
CONSTANTS
    NOrders = 3
    Couriers = {0, 1, 2}
    Costs = {0, 2, 100000000}
    INFINITY_COST = 100000000
    Epsilon = 1
    MaxIterations = 5
    Nobody = Nobody
    SomeOrders <- MCOrders
    SomeCouriers <- MCCouriers
    SomeDistances = {0, 2, 5, 6}
    Constraints <- MCConstraints
    SomeProblems <- MCProblems
    SomeDelays = {15}
    BatchLimit = 1
INVARIANTS
    IInv
    NearlyOptimal
    HungarianDominates
    BuildsAgree
    SolutionsKeepLimits
    SolutionsAreUndominated
PROPERTIES
    PricesOnlyRise
    EmptyHandedOnlyIfTaken
    BacklogNeverGrows
CHECK_DEADLOCK FALSE
