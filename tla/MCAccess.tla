------------------------------- MODULE MCAccess -------------------------------
(* An instance of Access for TLC. *)
EXTENDS Access

MCUsers == {"ann"}
MCGrants == {[roles |-> {"courier", "visitor"}, permissions |-> {"order:assign", "order:own"}]}
MCWanted == {"order:assign", "order:cancel"}
=============================================================================
