\* One request at a time implements the ledger.
SPECIFICATION Spec
CONSTANTS
    Orders = {o1, o2, o3}
    Couriers = {c1, c2}
    Requests = {r1}
    None = None
    MaxInFlight = 1
    Unlocated = {}
    InitialOrders = {"pending", "delivered"}
    InitialCouriers = {"available", "busy"}
    Deployments <- OnlyAsWritten
INVARIANTS AssignedAtMostOnce
PROPERTIES ImplementsLedger
