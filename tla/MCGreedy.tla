------------------------------ MODULE MCGreedy ------------------------------
(* An instance of Greedy for TLC. *)
EXTENDS Greedy

BothChoices == BOOLEAN
=============================================================================
