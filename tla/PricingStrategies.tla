-------------------------- MODULE PricingStrategies --------------------------
(***************************************************************************)
(* The pricing strategies (pricing_service/strategies): from a market and  *)
(* a request to a surge and a price.                                       *)
(*                                                                         *)
(* Inside a strategy surges count in 1/10000; a result has its surge       *)
(* rounded to 1/100, as the code has, and its price in 1/10000 of the base *)
(* price.  weather_multiplier is 1.0 in every market state there is.       *)
(***************************************************************************)
EXTENDS Integers, Sequences

\* round(n / d)
Rounded(n, d) == (2 * n + d) \div (2 * d)

AtLeast(bound, n) == IF n < bound THEN bound ELSE n
NoMoreThan(bound, n) == IF n > bound THEN bound ELSE n

MinSurge == 100
MaxSurge == 300
Surges == MinSurge..MaxSurge

\* A market is the orders and couriers that were counted, and when.
MarketTypes == [pending : Nat, available : Nat, hour : 0..23, weekday : 0..6]

\* A request is what of it reaches a strategy: the customer's standing, and the age
\* of the order in seconds (NoOrder: none given).
NoOrder == -1
RequestTypes == [premium : BOOLEAN, orders : Nat, averageValue : Nat, age : Nat \union {NoOrder}]

-----------------------------------------------------------------------------
(* base.py *)

Constrained(surge, max) == AtLeast(100 * MinSurge, NoMoreThan(100 * max, surge))

\* In percent.
LoyaltyDiscount(request) ==
    CASE request.premium -> 10
      [] ~request.premium /\ request.orders >= 50 -> 5
      [] ~request.premium /\ request.orders \in 20..49 -> 3
      [] ~request.premium /\ request.orders \in 10..19 -> 2
      [] OTHER -> 0

\* Mutant: the discount is added.
ResultSurcharged(strategy, surge, discount, confidence) ==
    [strategy |-> strategy,
     surge |-> Rounded(surge, 100),
     price |-> Rounded(surge * (100 + discount), 100),
     discount |-> discount,
     confidence |-> confidence]

Result(strategy, surge, discount, confidence) ==
    [strategy |-> strategy,
     surge |-> Rounded(surge, 100),
     price |-> Rounded(surge * (100 - discount), 100),
     discount |-> discount,
     confidence |-> confidence]

\* The price of a result is recomputed from the surge, without the discount.
Repriced(result, surge) == [result EXCEPT !.surge = Rounded(surge, 100), !.price = surge]

-----------------------------------------------------------------------------
(* rule_based.py *)

\* Breakpoints: ten times the ratio of orders to couriers, and the surge there.
SurgeCurve ==
    <<<<0, 100>>, <<5, 100>>, <<10, 115>>, <<15, 130>>, <<20, 150>>,
      <<30, 180>>, <<40, 200>>, <<60, 250>>>>

\* Mutant: a segment is interpolated from the surge of its end.
InterpolateSurgeBackwards(pending, available) ==
    LET within == {i \in 2..Len(SurgeCurve) : 10 * pending <= SurgeCurve[i][1] * available}
        i == CHOOSE j \in within : \A k \in within : j <= k
        from == SurgeCurve[i - 1]
        to == SurgeCurve[i]
    IN CASE pending = 0 -> 10000
         [] pending > 0 /\ within = {} -> 30000
         [] OTHER -> 100 * to[2]
               + Rounded(100 * (from[2] - to[2]) * (10 * pending - from[1] * available),
                         (to[1] - from[1]) * available)

\* _interpolate_surge of the demand/supply ratio, which is infinite without couriers.
InterpolateSurge(pending, available) ==
    LET within == {i \in 2..Len(SurgeCurve) : 10 * pending <= SurgeCurve[i][1] * available}
        i == CHOOSE j \in within : \A k \in within : j <= k
        from == SurgeCurve[i - 1]
        to == SurgeCurve[i]
    IN CASE pending = 0 -> 10000
         [] pending > 0 /\ within = {} -> 30000
         [] OTHER -> 100 * from[2]
               + Rounded(100 * (to[2] - from[2]) * (10 * pending - from[1] * available),
                         (to[1] - from[1]) * available)

\* In percent, by hour from midnight and by day from Monday.
TimeModifiers == <<90, 85, 80, 80, 85, 90, 95, 100, 100, 100, 100, 105,
                   115, 120, 110, 100, 100, 105, 115, 125, 120, 110, 100, 95>>
DayModifiers == <<100, 100, 100, 105, 110, 115, 110>>

RuleBased(market, request, max) ==
    LET base == InterpolateSurge(market.pending, market.available)
        timed == Rounded(base * TimeModifiers[market.hour + 1] * DayModifiers[market.weekday + 1], 10000)
    IN Result("rule_based", Constrained(timed, max), LoyaltyDiscount(request), 100)

\* In percent.
ZoneAdjustment == [center |-> 110, inner |-> 105, middle |-> 100, outer |-> 95]

\* The engine overrides the limit that ZoneBasedStrategy sets for its zone.
ZoneBased(zone, market, request, max) ==
    LET result == RuleBased(market, request, max)
    IN Repriced(result, Constrained(result.surge * ZoneAdjustment[zone], max))

-----------------------------------------------------------------------------
(* ml_based.py *)

\* What the model answers: a surge and a confidence, or nothing if it is not loaded
\* or raises.
PredictionTypes == [surge : Int, confidence : 0..100]
NoPrediction == [surge |-> 0, confidence |-> 0]
Available(prediction) == prediction # NoPrediction

MLBased(prediction, market, request, max) ==
    IF Available(prediction)
    THEN Result("ml_based", Constrained(prediction.surge, max), LoyaltyDiscount(request), prediction.confidence)
    ELSE RuleBased(market, request, max)

PriceSensitive(request) == ~request.premium /\ request.averageValue < 300

ElasticityAware(prediction, market, request, max) ==
    LET result == MLBased(prediction, market, request, max)
    IN IF result.strategy = "ml_based" /\ PriceSensitive(request) /\ result.surge > 150
       THEN Repriced(result, 10000 + (result.surge - 100) * 85)
       ELSE result

-----------------------------------------------------------------------------
(* hybrid.py *)

\* The weight of the model, in 1/1000.
MLWeight(ml) ==
    IF ml.confidence < 70 \/ ml.strategy = "rule_based" THEN 0
    ELSE AtLeast(0, NoMoreThan(1000, 600 + 5 * (ml.confidence - 70)))

\* Mutant: the weights are swapped.
HybridSwapped(prediction, market, request, max) ==
    LET rule == RuleBased(market, request, max)
        ml == MLBased(prediction, market, request, max)
        surge == Rounded(ml.surge * (1000 - MLWeight(ml)) + rule.surge * MLWeight(ml), 10)
    IN Result("hybrid", Constrained(surge, max), LoyaltyDiscount(request), ml.confidence)

Hybrid(prediction, market, request, max) ==
    LET rule == RuleBased(market, request, max)
        ml == MLBased(prediction, market, request, max)
        surge == Rounded(rule.surge * (1000 - MLWeight(ml)) + ml.surge * MLWeight(ml), 10)
    IN Result("hybrid", Constrained(surge, max), LoyaltyDiscount(request),
              Rounded(100 * (1000 - MLWeight(ml)) + ml.confidence * MLWeight(ml), 1000))

-----------------------------------------------------------------------------
(* time_decay.py *)

\* 10% per 10 minutes beyond 15 minutes, at most 30%; in 1/10000.
DelayDiscount(age) ==
    IF age <= 900 THEN 0 ELSE NoMoreThan(3000, Rounded(10 * (age - 900), 6))

\* Seconds since the order, and what the courier's pay is multiplied by, in percent.
TimeTiers == <<<<0, 100>>, <<300, 100>>, <<600, 110>>, <<900, 125>>, <<1200, 140>>,
               <<1500, 160>>, <<1800, 180>>, <<2400, 200>>>>
UrgentTiers == <<<<0, 130>>, <<300, 150>>, <<600, 180>>, <<900, 200>>, <<1200, 250>>>>

\* Mutant: a tier is interpolated from its own end.
TimeMultiplierFromEnd(tiers, max, age) ==
    LET within == {i \in 2..Len(tiers) : age <= tiers[i][1]}
        i == CHOOSE j \in within : \A k \in within : j <= k
        from == tiers[i - 1]
        to == tiers[i]
    IN CASE age <= 0 -> 10000
         [] age > 0 /\ within = {} -> 100 * NoMoreThan(max, tiers[Len(tiers)][2])
         [] OTHER -> 100 * to[2] + Rounded(100 * (to[2] - from[2]) * (age - from[1]), to[1] - from[1])

\* _calculate_time_multiplier, in 1/10000.
TimeMultiplier(tiers, max, age) ==
    LET within == {i \in 2..Len(tiers) : age <= tiers[i][1]}
        i == CHOOSE j \in within : \A k \in within : j <= k
        from == tiers[i - 1]
        to == tiers[i]
    IN CASE age <= 0 -> 10000
         [] age > 0 /\ within = {} -> 100 * NoMoreThan(max, tiers[Len(tiers)][2])
         [] OTHER -> 100 * from[2] + Rounded(100 * (to[2] - from[2]) * (age - from[1]), to[1] - from[1])

\* What the customer pays; base is the result of the base strategy.  The limit on
\* the surge concerns the courier's share only.
TimeDecay(base, request) ==
    IF request.age = NoOrder THEN base
    ELSE LET surge == AtLeast(10000, Rounded(base.surge * (10000 - DelayDiscount(request.age)), 100))
         IN [strategy |-> "time_decay", surge |-> Rounded(surge, 100), price |-> surge,
             discount |-> Rounded(DelayDiscount(request.age), 100), confidence |-> 100]

\* Without a base strategy, as PricingEngineFactory makes it.
Neutral == [strategy |-> "time_decay", surge |-> 100, price |-> 10000, discount |-> 0, confidence |-> 100]

-----------------------------------------------------------------------------

\* strategy.calculate, for the strategies an engine can be given.
Calculate(strategy, prediction, market, request, max) ==
    CASE strategy = "rule_based" -> RuleBased(market, request, max)
      [] strategy = "ml_based" -> MLBased(prediction, market, request, max)
      [] strategy = "hybrid" -> Hybrid(prediction, market, request, max)
      [] strategy = "elasticity" -> ElasticityAware(prediction, market, request, max)
      [] strategy = "zone_center" -> ZoneBased("center", market, request, max)
      [] strategy = "zone_outer" -> ZoneBased("outer", market, request, max)
      [] strategy = "time_decay" -> TimeDecay(Neutral, request)
      [] strategy = "delayed_rules" -> TimeDecay(RuleBased(market, request, max), request)

Strategies == {"rule_based", "ml_based", "hybrid", "elasticity", "zone_center", "zone_outer",
               "time_decay", "delayed_rules"}
=============================================================================
