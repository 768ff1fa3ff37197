\* Liveness and readiness polled for ever.
SPECIFICATION FairSpec
CONSTANTS
    Checks = {"database", "disk_space"}
    Requests = {r1}
    Threshold = 2
    Recovery = 3
    CheckType <- AsRegistered
    Endpoints = {"readiness", "liveness"}
    CacheTTL = 2
    Timeout = 1
    Conditions = {"healthy", "unhealthy"}
PROPERTY OutageIsReported
