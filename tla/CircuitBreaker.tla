--------------------------- MODULE CircuitBreaker ---------------------------
(***************************************************************************)
(* CircuitBreaker (common/health.py): per check name a failure count, the  *)
(* time of the last failure and a state.  Its methods are called by the    *)
(* running checks of all requests, in whatever order these complete.       *)
(*                                                                         *)
(* Time is counted in ticks, as the age of the last failure, which matters *)
(* up to Recovery only; the count of failures matters up to Threshold.     *)
(***************************************************************************)
EXTENDS Integers, FiniteSets

CONSTANTS
    Checks,         \* names of registered checks
    Threshold,      \* failure_threshold
    Recovery        \* recovery_timeout

ASSUME CircuitAssumption ==
    /\ Threshold \in Nat \ {0}
    /\ Recovery \in Nat \ {0}

VARIABLES
    failures,       \* _failures, saturated at Threshold
    sinceFailure,   \* age of _last_failure, saturated at Recovery
    circuit         \* _state: "closed", "open" or "half-open"

circuitVars == <<failures, sinceFailure, circuit>>

AtMost(bound, n) == IF n > bound THEN bound ELSE n

CircuitInit ==
    /\ failures = [c \in Checks |-> 0]
    /\ sinceFailure = [c \in Checks |-> Recovery]
    /\ circuit = [c \in Checks |-> "closed"]

\* is_open(c) returns True.
IsOpen(c) == circuit[c] = "open" /\ sinceFailure[c] < Recovery

\* is_open is called for each of the checks in S.
AskIsOpen(S) ==
    /\ circuit' = [c \in Checks |->
          IF c \in S /\ circuit[c] = "open" /\ ~IsOpen(c) THEN "half-open" ELSE circuit[c]]
    /\ UNCHANGED <<failures, sinceFailure>>


RecordSuccess(c) ==
    /\ failures' = [failures EXCEPT ![c] = 0]
    /\ circuit' = [circuit EXCEPT ![c] = "closed"]
    /\ UNCHANGED sinceFailure

\* Mutant: the threshold must be exceeded.
RecordFailureBeyond(c) ==
    /\ failures' = [failures EXCEPT ![c] = AtMost(Threshold, failures[c] + 1)]
    /\ sinceFailure' = [sinceFailure EXCEPT ![c] = 0]
    /\ circuit' = [circuit EXCEPT ![c] =
          IF failures[c] + 1 > Threshold THEN "open" ELSE circuit[c]]

\* Mutant: the recovery time counts from the first failure.
RecordFailureKeepsTime(c) ==
    /\ failures' = [failures EXCEPT ![c] = AtMost(Threshold, failures[c] + 1)]
    /\ sinceFailure' = [sinceFailure EXCEPT ![c] = IF failures[c] = 0 THEN 0 ELSE @]
    /\ circuit' = [circuit EXCEPT ![c] =
          IF failures[c] + 1 >= Threshold THEN "open" ELSE circuit[c]]

RecordFailure(c) ==
    /\ failures' = [failures EXCEPT ![c] = AtMost(Threshold, failures[c] + 1)]
    /\ sinceFailure' = [sinceFailure EXCEPT ![c] = 0]
    /\ circuit' = [circuit EXCEPT ![c] =
          IF failures[c] + 1 >= Threshold THEN "open" ELSE circuit[c]]

CircuitTick ==
    /\ sinceFailure' = [c \in Checks |-> AtMost(Recovery, sinceFailure[c] + 1)]
    /\ UNCHANGED <<failures, circuit>>

CircuitTypeOK ==
    /\ failures \in [Checks -> 0..Threshold]
    /\ sinceFailure \in [Checks -> 0..Recovery]
    /\ circuit \in [Checks -> {"closed", "open", "half-open"}]

\* Whatever order the checks of concurrent requests complete in, the circuit is
\* closed exactly while fewer than Threshold failures follow the last success.
CircuitMatchesFailures ==
    \A c \in Checks : (circuit[c] = "closed") = (failures[c] < Threshold)
=============================================================================
