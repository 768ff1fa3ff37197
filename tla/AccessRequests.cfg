\* One user with a session, one key, a limit of two in three ticks.
SPECIFICATION Spec
CONSTANTS
    Users <- MCUsers
    Grants <- MCGrants
    Wanted <- MCWanted
    Keys = {k1}
    Limit = 2
    Window = 3
    Burst = 2
    Second = 2
    MaxTime = 4
    AccessLife = 1
    RefreshLife = 2
    MaxTokens = 3
CHECK_DEADLOCK FALSE
INVARIANTS
    IInv
    RateIsLimited
    PromisesAreKept
    AccessFollowsLogin
    RolesDecide
