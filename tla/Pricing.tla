------------------------------- MODULE Pricing -------------------------------
(***************************************************************************)
(* PricingEngine (pricing_service/strategy.py) over the A/B tests of its   *)
(* process, behind the endpoints of pricing_service/api.py.                *)
(*                                                                         *)
(* A tick is the 30 seconds a market state is cached for.  Of the price    *)
(* history of a zone only the last entry is ever read, so that entry is    *)
(* what the model keeps, with its age.                                     *)
(***************************************************************************)
EXTENDS PricingStrategies, ABTesting

CONSTANTS
    Zones,              \* hexagons
    Markets,            \* states a zone's market can be counted in
    Requests,           \* what calculate_price is asked for
    Predictions,        \* what the surge model can answer, NoPrediction included
    DefaultStrategy,    \* of the engine
    StrategyOf,         \* experiment -> variant -> strategy
    RatePerTick,        \* MAX_SURGE_INCREASE_PER_MINUTE, in 1/100 per tick
    Window              \* ticks for which _get_recent_history looks back

ASSUME PricingAssumption ==
    /\ Zones \subseteq Identifiers
    /\ Markets \subseteq MarketTypes
    /\ Requests \subseteq RequestTypes
    /\ Predictions \subseteq PredictionTypes
    /\ DefaultStrategy \in Strategies
    /\ StrategyOf \in [Experiments -> [Variants -> Strategies]]
    /\ RatePerTick \in Nat
    /\ Window \in Nat \ {0}

\* The price cap, in 1/10000 of the base price, and as a surge.
PriceCap == 20000
CapSurge == 200

VARIABLES
    last,       \* zone -> surge and age of the latest entry of _price_history; Window: none recent
    counted,    \* zone -> the market state in the cache of the aggregator, if any
    quoted      \* surge and price of the latest answer

pricingVars == <<last, counted, quoted>>
vars == <<abVars, pricingVars>>

NoHistory == [surge |-> MinSurge, age |-> Window]

Init ==
    /\ ABInit
    /\ last = [z \in Zones |-> NoHistory]
    /\ counted = [z \in Zones |-> {}]
    /\ quoted = [surge |-> MinSurge, price |-> 10000]

-----------------------------------------------------------------------------

\* Mutant: only entries of an earlier tick limit the rate.
RateLimitedLate(before, surge) ==
    LET limit == before.surge + RatePerTick * before.age
    IN IF before.age \in 1..(Window - 1) /\ surge > limit THEN limit ELSE surge

\* The first constraint of _apply_fairness_constraints.
RateLimited(before, surge) ==
    LET limit == before.surge + RatePerTick * before.age
    IN IF before.age < Window /\ surge > limit THEN limit ELSE surge

\* Mutant: the cap is on the surge.
FairBySurge(before, result) ==
    LET surge == RateLimited(before, result.surge)
    IN [surge |-> NoMoreThan(CapSurge, surge), price |-> result.price]

\* _apply_fairness_constraints.  The price is not computed anew for a limited surge,
\* and a capped price sets the surge to the cap, limited or not.
Fair(before, result) ==
    IF result.price > PriceCap
    THEN [surge |-> CapSurge, price |-> PriceCap]
    ELSE [surge |-> RateLimited(before, result.surge), price |-> result.price]

\* get_strategy_for_context.
StrategyFor(identifier) ==
    IF active = NoExperiment THEN DefaultStrategy
    ELSE StrategyOf[active][VariantFor(active, identifier)]

MarketNow(z) == IF counted[z] = {} THEN Markets ELSE counted[z]

\* calculate_price, for a customer, an order or (as calculate_surge does) a zone.  It
\* awaits nothing that suspends it between the impression and the conversion.
CalculatePrice(z, identifier, request) ==
    \E market \in MarketNow(z), prediction \in Predictions :
        LET result == Calculate(StrategyFor(identifier), prediction, market, request, MaxSurge)
        IN /\ counted' = [counted EXCEPT ![z] = {market}]
           /\ quoted' = Fair(last[z], result)
           /\ last' = [last EXCEPT ![z] = [surge |-> Fair(last[z], result).surge, age |-> 0]]
           /\ IF active = NoExperiment
              THEN UNCHANGED abVars
              ELSE /\ RecordImpression(active, VariantFor(active, identifier))
                   /\ RecordConversion(active, VariantFor(active, identifier))
                   /\ UNCHANGED <<status, active>>

\* The strategy raises, and the endpoint answers with an error.
CalculationFails(z, identifier) ==
    /\ \E market \in MarketNow(z) : counted' = [counted EXCEPT ![z] = {market}]
    /\ IF active = NoExperiment
       THEN UNCHANGED abVars
       ELSE /\ RecordImpression(active, VariantFor(active, identifier))
            /\ UNCHANGED <<status, active, conversions>>
    /\ UNCHANGED <<last, quoted>>

\* A request has an engine of its own; whoever keeps one makes this step less often.
NewEngine ==
    /\ last' = [z \in Zones |-> NoHistory]
    /\ counted' = [z \in Zones |-> {}]
    /\ UNCHANGED <<abVars, quoted>>

\* Nothing older than Window is read again.
Aged(entry) ==
    IF entry.age + 1 >= Window THEN NoHistory ELSE [entry EXCEPT !.age = @ + 1]

Tick ==
    /\ last' = [z \in Zones |-> Aged(last[z])]
    /\ counted' = [z \in Zones |-> {}]
    /\ UNCHANGED <<abVars, quoted>>

Manage ==
    /\ \E e \in Experiments : CreateExperiment(e) \/ StartExperiment(e) \/ StopExperiment(e)
    /\ UNCHANGED pricingVars

Next ==
    \/ \E z \in Zones, identifier \in Identifiers, request \in Requests :
          CalculatePrice(z, identifier, request)
    \/ \E z \in Zones, identifier \in Identifiers : CalculationFails(z, identifier)
    \/ Manage
    \/ NewEngine
    \/ Tick

Spec == Init /\ [][Next]_vars

-----------------------------------------------------------------------------

TypeOK ==
    /\ ABTypeOK
    /\ last \in [Zones -> [surge : Surges, age : 0..Window]]
    /\ counted \in [Zones -> SUBSET Markets]
    /\ quoted \in [surge : Surges, price : 0..PriceCap]

\* The inductive invariant.
IInv ==
    /\ TypeOK
    /\ ActiveIsRunning
    /\ MetricsOnlyOfStarted
    /\ ConversionsHaveImpressions

\* "Max surge increase rate" (MAX_SURGE_INCREASE_PER_MINUTE), as far as it goes: in a
\* zone an engine's surge rises faster than the rate only up to the surge of the
\* price cap, whatever the market, the strategy and the experiments do.
RisesWithinRate(z) ==
    last'[z].age = 0 /\ last[z].age < Window =>
        last'[z].surge <= AtLeast(CapSurge, last[z].surge + RatePerTick * last[z].age)
RatesAreLimited == [][\A z \in Zones : RisesWithinRate(z)]_vars

ExperimentsEndForGood == [][OverStaysOver]_vars
=============================================================================
