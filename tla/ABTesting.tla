------------------------------ MODULE ABTesting ------------------------------
(***************************************************************************)
(* ABTestingEngine (pricing_service/ab_testing.py), of which a process has *)
(* one: experiments of two variants as the API creates them, the active    *)
(* one, and their metrics.                                                 *)
(***************************************************************************)
EXTENDS Integers

CONSTANTS
    Experiments,    \* ids that experiments can be created with
    Identifiers,    \* customers, orders and hexagons, hashed to assign variants
    Percentage,     \* of an experiment and an identifier: their hash, 0..99
    ControlTraffic, \* experiment -> traffic of its control variant, in percent
    MaxImpressions  \* bound: impressions of a variant that are counted

NoExperiment == "no experiment"
Variants == {"control", "treatment"}

ASSUME ABTestingAssumption ==
    /\ NoExperiment \notin Experiments
    /\ Percentage \in [Experiments -> [Identifiers -> 0..99]]
    /\ ControlTraffic \in [Experiments -> 0..100]
    /\ MaxImpressions \in Nat \ {0}

VARIABLES
    status,         \* experiment -> "none", "draft", "running" or "completed"
    active,         \* _active_experiment_id
    impressions,    \* experiment -> variant -> impressions
    conversions     \* experiment -> variant -> conversions

abVars == <<status, active, impressions, conversions>>

ABInit ==
    /\ status = [e \in Experiments |-> "none"]
    /\ active = NoExperiment
    /\ impressions = [e \in Experiments |-> [v \in Variants |-> 0]]
    /\ conversions = [e \in Experiments |-> [v \in Variants |-> 0]]

CreateExperiment(e) ==
    /\ status[e] = "none"
    /\ status' = [status EXCEPT ![e] = "draft"]
    /\ UNCHANGED <<active, impressions, conversions>>

\* Mutant: an experiment may be started again.
StartAnyExperiment(e) ==
    /\ status[e] # "none"
    /\ status' = [status EXCEPT ![e] = "running"]
    /\ active' = e
    /\ UNCHANGED <<impressions, conversions>>

\* Whatever was active stays "running", and is served no more.
StartExperiment(e) ==
    /\ status[e] = "draft"
    /\ status' = [status EXCEPT ![e] = "running"]
    /\ active' = e
    /\ UNCHANGED <<impressions, conversions>>

StopExperiment(e) ==
    /\ status[e] # "none"
    /\ status' = [status EXCEPT ![e] = "completed"]
    /\ active' = IF active = e THEN NoExperiment ELSE active
    /\ UNCHANGED <<impressions, conversions>>

\* VariantAssigner.assign, for the running experiment and all of its traffic
\* (target_percentage has no way to differ from 100).
Assign(traffic, percentage) == IF percentage < traffic THEN "control" ELSE "treatment"

VariantFor(e, identifier) == Assign(ControlTraffic[e], Percentage[e][identifier])

Counted(e, v) == impressions[e][v] < MaxImpressions

\* The impression of get_strategy_for_context.
RecordImpression(e, v) ==
    /\ Counted(e, v)
    /\ impressions' = [impressions EXCEPT ![e][v] = @ + 1]

RecordConversion(e, v) == conversions' = [conversions EXCEPT ![e][v] = @ + 1]

-----------------------------------------------------------------------------

ABTypeOK ==
    /\ status \in [Experiments -> {"none", "draft", "running", "completed"}]
    /\ active \in Experiments \union {NoExperiment}
    /\ impressions \in [Experiments -> [Variants -> 0..MaxImpressions]]
    /\ conversions \in [Experiments -> [Variants -> Nat]]

\* Prices follow a running experiment: whatever was created, started and stopped,
\* the active experiment is one that runs, never one that was stopped.
ActiveIsRunning == active # NoExperiment => status[active] = "running"

\* Metrics exist only of experiments that were started.
MetricsOnlyOfStarted ==
    \A e \in Experiments, v \in Variants :
        impressions[e][v] > 0 => status[e] \in {"running", "completed"}

\* A rate of conversion never exceeds 1: a conversion belongs to the variant that its
\* price was shown for.
ConversionsHaveImpressions ==
    \A e \in Experiments, v \in Variants : conversions[e][v] <= impressions[e][v]

\* An experiment that was stopped, or replaced while it ran, is over: it never
\* becomes active again and its metrics stay.
Over(e) == status[e] = "completed" \/ (status[e] = "running" /\ active # e)
OverStaysOver ==
    \A e \in Experiments : Over(e) =>
        /\ active' # e
        /\ impressions'[e] = impressions[e]
        /\ conversions'[e] = conversions[e]
        /\ status'[e] \in {status[e], "completed"}
=============================================================================
