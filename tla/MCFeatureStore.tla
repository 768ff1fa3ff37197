---------------------------- MODULE MCFeatureStore ----------------------------
(* Instances of FeatureStore for TLC. *)
EXTENDS FeatureStore, TLC

CONSTANTS Remote    \* the requests that go to another process than the rest

TwoWorkers == [r \in Requests |-> IF r \in Remote THEN "task" ELSE "api"]

\* Requests to the same process are interchangeable.
LocalRequests == Permutations(Requests \ Remote)

\* "0" is the default of every feature; "text 1" comes back from Redis as the
\* number "1", which does not validate.
DefaultZero == [n \in Names |-> "0"]
AllButOne == [n \in Names |-> Values \ {"1"}]
TextBecomesNumber == [v \in Values |-> IF v = "text 1" THEN "1" ELSE v]
=============================================================================
