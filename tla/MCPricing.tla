------------------------------ MODULE MCPricing ------------------------------
(* An instance of Pricing and Quotes for TLC. *)
EXTENDS Quotes

Market(pending, hour) == [pending |-> pending, available |-> 2, hour |-> hour, weekday |-> 5]

\* Nobody waiting at night, a rush at noon, a crisis.
MCMarkets == {Market(0, 3), Market(5, 12), Market(7, 19)}

Premium == [premium |-> TRUE, orders |-> 0, averageValue |-> 500, age |-> NoOrder]
MCRequests == {Newcomer(Premium), Premium}

\* The model is missing, doubtful or confident.
MCPredictions ==
    {NoPrediction, [surge |-> 22000, confidence |-> 60], [surge |-> 34000, confidence |-> 99]}

\* The pairs of strategies that the API can compare, over two experiments.
MCStrategyOf ==
    [e \in Experiments |->
        IF e = "first" THEN [control |-> "rule_based", treatment |-> "ml_based"]
        ELSE [control |-> "hybrid", treatment |-> "rule_based"]]

MCControlTraffic == [e \in Experiments |-> 50]
\* Customers on both sides of the split of the first experiment, one side of the second.
MCPercentage ==
    [e \in Experiments |-> [i \in Identifiers |-> IF i = "centre" THEN 80 ELSE IF e = "first" THEN 49 ELSE 50]]

-----------------------------------------------------------------------------
(* A wider range of inputs for the strategies. *)

MCSomeMarkets ==
    {[pending |-> p, available |-> c, hour |-> h, weekday |-> d] :
        p \in 0..14, c \in 0..3, h \in {2, 6, 12, 19}, d \in {0, 5}}
MCSomePredictions == MCPredictions \union {[surge |-> 16000, confidence |-> 80]}
MCSomeRequests ==
    {[premium |-> p, orders |-> 0, averageValue |-> v, age |-> a] :
        p \in BOOLEAN, v \in {200, 500}, a \in {NoOrder, 1200}}
    \union {[Newcomer(Premium) EXCEPT !.orders = n] : n \in {10, 50}}
MCSomeAges == {0, 299, 300, 301, 450, 600, 900, 901, 1200, 1350, 1800, 2400, 2700, 3600}
=============================================================================
