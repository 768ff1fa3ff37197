----------------------------- MODULE MCDispatch -----------------------------
(* Instances of Dispatch for TLC. *)
EXTENDS Dispatch, TLC

\* The names order.py, courier.py and restaurant.py define, as far as the
\* solver could use them, and the names it reads instead.
DefinedNames ==
    {"surge_coefficient", "estimated_prep_time_minutes", "avg_prep_time_minutes",
     "avg_speed_kmh", "rating", "total_deliveries"}
NamesRead == OrderReads \union CourierReads

\* The repository: its ORM classes, and asyncpg, which rejects string keys.
Repository == [orm |-> DefinedNames, coercesKeys |-> FALSE]
\* The schema and driver the solver is written for.
AsWritten == [orm |-> DefinedNames \union NamesRead, coercesKeys |-> TRUE]
\* The steps between them.
StringKeysFail == [AsWritten EXCEPT !.coercesKeys = FALSE]
CourierClassBehind ==
    [orm |-> DefinedNames \union OrderReads, coercesKeys |-> TRUE]
OrmBehind == [Repository EXCEPT !.coercesKeys = TRUE]

EveryDeployment ==
    {Repository, AsWritten, StringKeysFail, CourierClassBehind, OrmBehind}
OnlyRepository == {Repository}
OnlyAsWritten == {AsWritten}

\* Orders, couriers and connections are interchangeable in the runs that give
\* no courier a role of its own (Unlocated is empty or all-symmetric).
Interchangeable ==
    Permutations(Orders) \union Permutations(Couriers) \union Permutations(Requests)
=============================================================================
