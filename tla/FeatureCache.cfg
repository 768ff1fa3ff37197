\* One feature of one entity, read and pushed by two processes.
SPECIFICATION Spec
CONSTANTS
    Processes = {"api", "task"}
    Requests = {r1, r2, r3}
    Remote = {r3}
    Home <- TwoWorkers
    Entities = {"courier"}
    Names = {"speed"}
    Values = {"0", "1", "text 1"}
    Missing = Missing
    Default <- DefaultZero
    Valid <- AllButOne
    Loaded <- TextBecomesNumber
    CacheTTL = 2
    Latency = 1
SYMMETRY LocalRequests
INVARIANTS IInv AnswersAreRecent
