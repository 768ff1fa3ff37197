\* The checks that main.py registers: two dependencies that may hold each other up behind
\* /ready, the disk behind /live, nothing behind /startup.
SPECIFICATION Spec
CONSTANTS
    Checks = {"database", "redis", "disk_space"}
    Requests = {r1, r2}
    Threshold = 2
    Recovery = 2
    CheckType <- AsRegistered
    Endpoints = {"readiness", "liveness", "startup"}
    CacheTTL = 1
    Timeout = 1
    Conditions = {"healthy", "silent"}
INVARIANTS
    IInv
    CacheServesARound
PROPERTIES
    RecoveryStartsClean
SYMMETRY InterchangeableRequests
