----------------------------- MODULE MCRetraining -----------------------------
(* An instance of Retraining for TLC. *)
EXTENDS Retraining

MCWriters == {"dag", "server"}
=============================================================================
