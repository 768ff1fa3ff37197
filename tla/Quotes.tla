------------------------------- MODULE Quotes -------------------------------
(***************************************************************************)
(* What the strategies of an engine promise of the price they quote, over  *)
(* any markets, predictions and customers.  These are inputs and not       *)
(* states: what is said of them is evaluated in the initial state.         *)
(***************************************************************************)
EXTENDS Pricing

CONSTANTS SomeMarkets, SomePredictions, SomeRequests,
          SomeAges      \* of orders, in seconds

ASSUME QuotesAssumption ==
    /\ SomeMarkets \subseteq MarketTypes
    /\ SomePredictions \subseteq PredictionTypes
    /\ SomeRequests \subseteq RequestTypes
    /\ SomeAges \subseteq Nat

Quote(strategy, prediction, market, request) ==
    Calculate(strategy, prediction, market, request, MaxSurge)

NoDearer(a, b) == a.surge <= b.surge /\ a.price <= b.price

\* One more order waiting never makes delivery cheaper, and one more courier never
\* dearer, whatever the strategy, for a customer who is not price sensitive ("Surge
\* curve breakpoints" of RuleBasedStrategy, the weights of HybridStrategy).
MoreDemandNeverCheaper ==
    Init => \A strategy \in Strategies, prediction \in SomePredictions,
               market \in SomeMarkets, request \in SomeRequests :
        LET quote(m) == Quote(strategy, prediction, m, request)
        IN  ~PriceSensitive(request) =>
                /\ NoDearer(quote(market), quote([market EXCEPT !.pending = @ + 1]))
                /\ NoDearer(quote([market EXCEPT !.available = @ + 1]), quote(market))

\* The hybrid surge lies between that of the rules and that of the model, and is that
\* of the rules when the model is missing or doubtful.
HybridLiesBetween ==
    Init => \A prediction \in SomePredictions, market \in SomeMarkets, request \in SomeRequests :
        LET surge(strategy) == Quote(strategy, prediction, market, request).surge
            rule == surge("rule_based")
            ml == surge("ml_based")
        IN  /\ surge("hybrid") \in rule..ml \union ml..rule
            /\ prediction.confidence < 70 => surge("hybrid") = rule

\* A customer of no standing, with the same order.
Newcomer(request) == [request EXCEPT !.premium = FALSE, !.orders = 0]

\* "Ensure loyalty discounts" (_apply_fairness_constraints): with the strategies that
\* the API offers a customer's discount comes off what a newcomer pays, unless the
\* cap takes off more; with no strategy does standing make a price higher.
LoyaltyIsHonoured ==
    Init => \A strategy \in Strategies, prediction \in SomePredictions, market \in SomeMarkets,
               request \in {r \in SomeRequests : r.averageValue >= 300} :
        LET paid(r) == Fair(NoHistory, Quote(strategy, prediction, market, r)).price
            without == paid(Newcomer(request))
            due == without * (100 - LoyaltyDiscount(request))
        IN  /\ paid(request) <= without
            /\ strategy \in {"rule_based", "ml_based", "hybrid"} /\ without < PriceCap =>
                   100 * paid(request) \in (due - 100)..(due + 100)

\* The longer an order waits, the more its courier and the less its customer gets to
\* pay or be paid for ("Courier bonus", "Customer discount" of TimeDecayStrategy).
WaitingIsCompensated ==
    Init => \A young, old \in SomeAges : young <= old =>
        /\ \A market \in SomeMarkets, request \in SomeRequests :
              LET charged(a) == Quote("delayed_rules", NoPrediction, market,
                                      [request EXCEPT !.age = a]).price
              IN  charged(old) <= charged(young)
        /\ TimeMultiplier(TimeTiers, 250, young) <= TimeMultiplier(TimeTiers, 250, old)
        /\ TimeMultiplier(UrgentTiers, 300, young) <= TimeMultiplier(UrgentTiers, 300, old)
=============================================================================
