------------------------------ MODULE Dispatch ------------------------------
(***************************************************************************)
(* The dispatch endpoints over the orders and couriers tables:             *)
(*                                                                         *)
(*   POST /assign        assign_order    (dispatch_engine/api.py)          *)
(*   POST /dispatch/run  run_dispatch -> DispatchSolver.solve              *)
(*   DispatchSolver.solve_single         (dispatch_engine/solver.py)       *)
(*                                                                         *)
(* Every request has its own SQLAlchemy session, hence its own database    *)
(* transaction.  A handler is cut into one action per awaited database     *)
(* call: between two of them any other request may run.  Reads take no     *)
(* lock, rows carry no version, and a commit writes what the handler       *)
(* decided from its earlier reads.  The flush updates couriers before      *)
(* orders, each in primary-key order, and keeps the row locks to the       *)
(* commit, so commits take effect one after another and never deadlock.    *)
(***************************************************************************)
EXTENDS Naturals, FiniteSets, Matching

CONSTANTS
    Orders,             \* rows of the orders table
    Couriers,           \* rows of the couriers table
    Requests,           \* connections that carry one request at a time
    None,               \* a NULL column, and an id that has no row
    MaxInFlight,        \* bound: requests being handled at the same moment
    Unlocated,          \* couriers with no latitude or longitude
    InitialOrders,      \* order statuses the database starts with
    InitialCouriers,    \* courier statuses the database starts with
    Deployments         \* what the solver may run on: the attributes that the
                        \* ORM classes define, and whether the driver accepts
                        \* the string "1" for an INTEGER key

OrderStatus ==
    {"pending", "assigned", "picked_up", "in_transit", "delivered", "cancelled"}
CourierStatus == {"offline", "available", "busy", "returning"}

ASSUME DispatchAssumption ==
    /\ None \notin Orders \union Couriers
    /\ MaxInFlight \in Nat
    /\ Unlocated \subseteq Couriers
    /\ InitialOrders \subseteq OrderStatus
    /\ InitialCouriers \subseteq CourierStatus
    /\ \A d \in Deployments : d.coercesKeys \in BOOLEAN

OrderIds == Orders \union {None}
CourierIds == Couriers \union {None}

VARIABLES
    deployment,                     \* fixed for the life of the process
    orderStatus, orderCourier,      \* orders.status, orders.courier_id
    courierStatus, courierOrder,    \* couriers.status, couriers.current_order_id
    pc,         \* where each request's handler is suspended
    seen,       \* the pending orders a solver request has read
    plan,       \* the pairs a request intends to write
    reply,      \* the last answer on each connection
    made,       \* history: every pair a transaction has committed
    overlap     \* history: the pairs committed by others during each request

dbVars == <<orderStatus, orderCourier, courierStatus, courierOrder, made>>
vars == <<deployment, dbVars, pc, seen, plan, reply, overlap>>

-----------------------------------------------------------------------------

\* What OrderInfo and CourierInfo are built from.  The ORM classes define none
\* of these names, so reading one raises AttributeError.
OrderReads == {"priority", "total_amount", "average_prep_time_minutes"}
SingleOrderReads == {"priority", "total_amount"}
CourierReads ==
    {"vehicle_type", "average_speed_kmh", "completion_rate", "orders_today"}

IsPending(o) == o \in Orders /\ orderStatus[o] = "pending"
PendingOrders == {o \in Orders : IsPending(o)}
\* Mutant: couriers are read whatever their status.
SolverCouriersOfAnyStatus == Couriers \ Unlocated
SolverCouriers == {c \in Couriers \ Unlocated : courierStatus[c] = "available"}
InFlight == {r \in Requests : pc[r] # "idle"}

Init ==
    /\ deployment \in Deployments
    /\ orderStatus \in [Orders -> InitialOrders]
    /\ orderCourier \in [Orders -> CourierIds]
    /\ \A o \in Orders : orderStatus[o] = "pending" => orderCourier[o] = None
    /\ courierStatus \in [Couriers -> InitialCouriers]
    /\ courierOrder = [c \in Couriers |-> None]
    /\ pc = [r \in Requests |-> "idle"]
    /\ seen = [r \in Requests |-> {}]
    /\ plan = [r \in Requests |-> {}]
    /\ reply = [r \in Requests |-> "none"]
    /\ made = {}
    /\ overlap = [r \in Requests |-> {}]

\* The handler starts: it has read nothing yet.
Receive(r, at, orders, pairs) ==
    /\ pc[r] = "idle"
    /\ Cardinality(InFlight) < MaxInFlight
    /\ pc' = [pc EXCEPT ![r] = at]
    /\ seen' = [seen EXCEPT ![r] = orders]
    /\ plan' = [plan EXCEPT ![r] = pairs]
    /\ reply' = [reply EXCEPT ![r] = "none"]
    /\ overlap' = [overlap EXCEPT ![r] = {}]
    /\ UNCHANGED dbVars

\* The handler returns or raises; the request forgets what it read.
Finish(r, answer) ==
    /\ pc' = [pc EXCEPT ![r] = "idle"]
    /\ seen' = [seen EXCEPT ![r] = {}]
    /\ plan' = [plan EXCEPT ![r] = {}]
    /\ reply' = [reply EXCEPT ![r] = answer]

Answer(r, answer) == Finish(r, answer) /\ UNCHANGED <<dbVars, overlap>>

\* The handler goes on to its next awaited call.
GoTo(r, at) ==
    /\ pc' = [pc EXCEPT ![r] = at]
    /\ UNCHANGED <<dbVars, reply, overlap>>

\* session.commit(): the rows take the values the handler set on its objects.
\* Nothing is compared with what the rows hold by now.
Write(r, answer) ==
    /\ orderStatus' = [o \in Orders |->
          IF o \in OrdersOf(plan[r]) THEN "assigned" ELSE orderStatus[o]]
    /\ orderCourier' = [o \in Orders |->
          IF o \in OrdersOf(plan[r])
          THEN CHOOSE c \in Couriers : <<o, c>> \in plan[r]
          ELSE orderCourier[o]]
    /\ courierStatus' = [c \in Couriers |->
          IF c \in CouriersOf(plan[r]) THEN "busy" ELSE courierStatus[c]]
    /\ courierOrder' = [c \in Couriers |->
          IF c \in CouriersOf(plan[r])
          THEN CHOOSE o \in Orders : <<o, c>> \in plan[r]
          ELSE courierOrder[c]]
    /\ made' = made \union plan[r]
    /\ overlap' = [s \in Requests |->
          IF s \in InFlight \ {r} THEN overlap[s] \union plan[r] ELSE overlap[s]]
    /\ Finish(r, answer)

-----------------------------------------------------------------------------
(* POST /assign *)

ReceiveAssign(r) ==
    \E o \in OrderIds, c \in CourierIds :
        Receive(r, "assign:order", {}, {<<o, c>>})

\* Mutant: the order's status is not checked.
AssignReadOrderUnchecked(r) ==
    /\ pc[r] = "assign:order"
    /\ \E o \in OrderIds, c \in CourierIds :
        /\ plan[r] = {<<o, c>>}
        /\ \/ o = None /\ Answer(r, "not_found")
           \/ o # None /\ GoTo(r, "assign:courier") /\ UNCHANGED <<seen, plan>>

AssignReadOrder(r) ==
    /\ pc[r] = "assign:order"
    /\ \E o \in OrderIds, c \in CourierIds :
        /\ plan[r] = {<<o, c>>}
        /\ \/ o = None /\ Answer(r, "not_found")
           \/ o # None /\ orderStatus[o] # "pending" /\ Answer(r, "rejected")
           \/ /\ o # None /\ orderStatus[o] = "pending"
              /\ GoTo(r, "assign:courier")
              /\ UNCHANGED <<seen, plan>>

\* Mutant: the courier's status is not checked.
AssignReadCourierUnchecked(r) ==
    /\ pc[r] = "assign:courier"
    /\ \E o \in OrderIds, c \in CourierIds :
        /\ plan[r] = {<<o, c>>}
        /\ \/ c = None /\ Answer(r, "not_found")
           \/ c # None /\ GoTo(r, "assign:commit") /\ UNCHANGED <<seen, plan>>

AssignReadCourier(r) ==
    /\ pc[r] = "assign:courier"
    /\ \E o \in OrderIds, c \in CourierIds :
        /\ plan[r] = {<<o, c>>}
        /\ \/ c = None /\ Answer(r, "not_found")
           \/ c # None /\ courierStatus[c] # "available" /\ Answer(r, "rejected")
           \/ /\ c # None /\ courierStatus[c] = "available"
              /\ GoTo(r, "assign:commit")
              /\ UNCHANGED <<seen, plan>>

AssignCommit(r) ==
    /\ pc[r] = "assign:commit"
    /\ Write(r, "assigned")

-----------------------------------------------------------------------------
(* POST /dispatch/run: DispatchSolver.solve *)

ReceiveRun(r) == Receive(r, "run:orders", {}, {})

RunReadOrders(r) ==
    /\ pc[r] = "run:orders"
    /\ \/ /\ PendingOrders # {} /\ ~(OrderReads \subseteq deployment.orm)
          /\ Answer(r, "attribute_error")
       \/ /\ PendingOrders = {} \/ OrderReads \subseteq deployment.orm
          /\ GoTo(r, "run:couriers")
          /\ seen' = [seen EXCEPT ![r] = PendingOrders]
          /\ UNCHANGED plan

\* With nothing to match, solve returns an empty AssignmentSolution; the
\* endpoint then takes len() of it, which AssignmentSolution does not have.
RunReadCouriers(r) ==
    /\ pc[r] = "run:couriers"
    /\ \/ /\ SolverCouriers # {} /\ ~(CourierReads \subseteq deployment.orm)
          /\ Answer(r, "attribute_error")
       \/ /\ SolverCouriers = {} \/ CourierReads \subseteq deployment.orm
          /\ \/ /\ seen[r] = {} \/ SolverCouriers = {}
                /\ Answer(r, "type_error")
             \/ /\ seen[r] # {} /\ SolverCouriers # {}
                /\ GoTo(r, "run:commit")
                /\ \E M \in Matchings(seen[r], SolverCouriers) :
                      plan' = [plan EXCEPT ![r] = M]
                /\ UNCHANGED seen

\* _apply_assignments looks the rows up again, but by string ids, and checks
\* no status; the len() of the answer fails after the commit.
RunCommit(r) ==
    /\ pc[r] = "run:commit"
    /\ \/ plan[r] # {} /\ ~deployment.coercesKeys /\ Answer(r, "data_error")
       \/ (plan[r] = {} \/ deployment.coercesKeys) /\ Write(r, "type_error")

-----------------------------------------------------------------------------
(* DispatchSolver.solve_single: order_id is a string, as CourierInfo.id is *)

ReceiveSingle(r) ==
    \E o \in OrderIds : Receive(r, "single:order", {o}, {})

SingleReadOrder(r) ==
    /\ pc[r] = "single:order"
    /\ \E o \in OrderIds :
        /\ seen[r] = {o}
        /\ \/ ~deployment.coercesKeys /\ Answer(r, "data_error")
           \/ /\ deployment.coercesKeys
              /\ ~IsPending(o)
              /\ Answer(r, "nothing")
           \/ /\ deployment.coercesKeys /\ IsPending(o)
              /\ ~(SingleOrderReads \subseteq deployment.orm)
              /\ Answer(r, "attribute_error")
           \/ /\ deployment.coercesKeys /\ IsPending(o)
              /\ SingleOrderReads \subseteq deployment.orm
              /\ GoTo(r, "single:couriers")
              /\ UNCHANGED <<seen, plan>>

SingleReadCouriers(r) ==
    /\ pc[r] = "single:couriers"
    /\ \/ SolverCouriers = {} /\ Answer(r, "no_couriers")
       \/ /\ SolverCouriers # {} /\ ~(CourierReads \subseteq deployment.orm)
          /\ Answer(r, "attribute_error")
       \/ /\ SolverCouriers # {} /\ CourierReads \subseteq deployment.orm
          /\ \E M \in Matchings(seen[r], SolverCouriers) :
                \/ M = {} /\ Answer(r, "no_match")
                \/ /\ M # {}
                   /\ GoTo(r, "single:commit")
                   /\ plan' = [plan EXCEPT ![r] = M]
                   /\ UNCHANGED seen

SingleCommit(r) ==
    /\ pc[r] = "single:commit"
    /\ Write(r, "assigned")

-----------------------------------------------------------------------------

\* Any awaited database call may fail: get_session rolls back and re-raises.
DatabaseError(r) ==
    /\ pc[r] # "idle"
    /\ Answer(r, "db_error")

Handle(r) ==
    \/ AssignReadOrder(r) \/ AssignReadCourier(r) \/ AssignCommit(r)
    \/ RunReadOrders(r) \/ RunReadCouriers(r) \/ RunCommit(r)
    \/ SingleReadOrder(r) \/ SingleReadCouriers(r) \/ SingleCommit(r)
    \/ DatabaseError(r)

Next ==
    /\ UNCHANGED deployment
    /\ \E r \in Requests :
        ReceiveAssign(r) \/ ReceiveRun(r) \/ ReceiveSingle(r) \/ Handle(r)

Spec == Init /\ [][Next]_vars

-----------------------------------------------------------------------------

ProgramPoints ==
    {"idle", "assign:order", "assign:courier", "assign:commit",
     "run:orders", "run:couriers", "run:commit",
     "single:order", "single:couriers", "single:commit"}

Answers ==
    {"none", "not_found", "rejected", "assigned", "nothing", "no_couriers",
     "no_match", "attribute_error", "type_error", "data_error", "db_error"}

\* Types, and what a handler may have in hand at each point: it intends to
\* write only pairs of rows, and only once it stands before its commit.
TypeOK ==
    /\ deployment \in Deployments
    /\ orderStatus \in [Orders -> OrderStatus]
    /\ orderCourier \in [Orders -> CourierIds]
    /\ courierStatus \in [Couriers -> CourierStatus]
    /\ courierOrder \in [Couriers -> OrderIds]
    /\ pc \in [Requests -> ProgramPoints]
    /\ seen \in [Requests -> SUBSET OrderIds]
    /\ plan \in [Requests -> SUBSET (OrderIds \X CourierIds)]
    /\ reply \in [Requests -> Answers]
    /\ made \subseteq Orders \X Couriers
    /\ overlap \in [Requests -> SUBSET (Orders \X Couriers)]

\* The points before a commit.
Committing == {"assign:commit", "run:commit", "single:commit"}

\* What the handler of r has read and relies on.
ReadOrders(r) ==
    CASE pc[r] \in {"run:couriers", "single:couriers"} -> seen[r]
      [] pc[r] \in Committing \union {"assign:courier"} -> OrdersOf(plan[r])
      [] OTHER -> {}
ReadCouriers(r) == IF pc[r] \in Committing THEN CouriersOf(plan[r]) ELSE {}

\* However requests interleave, a committed assignment is never undone: its
\* order stays assigned and its courier stays busy, although every commit
\* (api.py:74-77, solver.py:362-368) is a blind write.
CommittedPairsHold ==
    \A p \in made : orderStatus[p[1]] = "assigned" /\ courierStatus[p[2]] = "busy"

\* The two references that an assignment keeps, orders.courier_id and
\* couriers.current_order_id, always name an assignment that was committed
\* (not a pair made up of two commits), even when commits overwrite each other.
PointersAreCommitted ==
    /\ \A c \in Couriers : courierOrder[c] # None => <<courierOrder[c], c>> \in made
    /\ \A o \in OrdersOf(made) : <<o, orderCourier[o]>> \in made

\* Only overlap can break the books: when a request is about to book an order
\* or a courier that is booked already, the earlier booking was committed while
\* this request was being handled, after its reads.  A request that starts
\* later is always refused (api.py:62, api.py:70) or does not see the row
\* (solver.py:309, solver.py:333).
ConflictsOnlyByOverlap ==
    \A r \in Requests : pc[r] \in Committing =>
        \A p \in plan[r], q \in made :
            p[1] = q[1] \/ p[2] = q[2] => q \in overlap[r]

\* What makes it so: a row that was read as pending or available still is,
\* unless a transaction that overlaps the request has booked it; and only
\* those transactions have.  (The part of the inductive invariant that carries
\* the argument from the reads to the commit.)
ReadsHoldUnlessOverlapped ==
    \A r \in Requests :
        /\ \A o \in ReadOrders(r) :
              /\ IsPending(o) \/ \E q \in overlap[r] : q[1] = o
              /\ \A q \in made : q[1] = o => q \in overlap[r]
        /\ \A c \in ReadCouriers(r) :
              /\ \/ c \in Couriers /\ courierStatus[c] = "available"
                 \/ \E q \in overlap[r] : q[2] = c
              /\ \A q \in made : q[2] = c => q \in overlap[r]

\* A handler about to commit holds a matching.
PlansAreMatchings ==
    \A r \in Requests : pc[r] \in Committing => IsMatching(plan[r])

IInv ==
    /\ TypeOK
    /\ CommittedPairsHold
    /\ PointersAreCommitted
    /\ ReadsHoldUnlessOverlapped
    /\ PlansAreMatchings

\* Each order and each courier is assigned at most once, as the tests require
\* of a solution (tests/test_dispatch_algorithms.py:551-561) and the checks of
\* /assign intend.
AssignedAtMostOnce == IsMatching(made)

\* With one request at a time the tables implement the ledger.
Ledger == INSTANCE DispatchLedger WITH
    waiting <- PendingOrders,
    free <- {c \in Couriers : courierStatus[c] = "available"},
    ledger <- made

\* The ledger's specification, for the runs that check the refinement.
ImplementsLedger == Ledger!LedgerSpec

=============================================================================
