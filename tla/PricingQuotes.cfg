\* One zone, two customers, two experiments over the strategies of the API.
SPECIFICATION Spec
CONSTANTS
    Zones = {"centre"}
    Identifiers = {"centre", "customer"}
    Experiments = {"first", "second"}
    Markets <- MCMarkets
    Requests <- MCRequests
    Predictions <- MCPredictions
    Percentage <- MCPercentage
    ControlTraffic <- MCControlTraffic
    StrategyOf <- MCStrategyOf
    DefaultStrategy = "hybrid"
    MaxImpressions = 1
    RatePerTick = 5
    Window = 3
    SomeMarkets <- MCSomeMarkets
    SomePredictions <- MCSomePredictions
    SomeRequests <- MCSomeRequests
    SomeAges <- MCSomeAges
INVARIANTS
    IInv
    MoreDemandNeverCheaper
    HybridLiesBetween
    LoyaltyIsHonoured
    WaitingIsCompensated
PROPERTIES
    RatesAreLimited
    ExperimentsEndForGood
