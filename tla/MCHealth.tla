------------------------------ MODULE MCHealth ------------------------------
(* Instances of HealthChecker for TLC. *)
EXTENDS HealthChecker, TLC

\* Readiness checks only.
OnlyReadiness == [c \in Checks |-> "readiness"]

\* As main.py registers them.
AsRegistered == [c \in Checks |-> IF c = "disk_space" THEN "liveness" ELSE "readiness"]

InterchangeableRequests == Permutations(Requests)
=============================================================================
