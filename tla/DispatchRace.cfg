\* Two requests at once, on every deployment.
SPECIFICATION Spec
CONSTANTS
    Orders = {o1, o2}
    Couriers = {c1, c2}
    Requests = {r1, r2}
    None = None
    MaxInFlight = 2
    Unlocated = {c2}
    InitialOrders = {"pending", "delivered"}
    InitialCouriers = {"available", "offline"}
    Deployments <- EveryDeployment
INVARIANTS IInv ConflictsOnlyByOverlap
