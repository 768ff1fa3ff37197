\* Two /assign requests race on the repository as it is.
SPECIFICATION Spec
CONSTANTS
    Orders = {o1, o2}
    Couriers = {c1, c2}
    Requests = {r1, r2}
    None = None
    MaxInFlight = 2
    Unlocated = {}
    InitialOrders = {"pending"}
    InitialCouriers = {"available"}
    Deployments <- OnlyRepository
INVARIANTS AssignedAtMostOnce
SYMMETRY Interchangeable
