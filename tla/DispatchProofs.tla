--------------------------- MODULE DispatchProofs ---------------------------
(***************************************************************************)
(* Theorems about Dispatch, for every number of orders, couriers, requests *)
(* and every deployment.  IInv (Dispatch.tla) is inductive: one lemma for  *)
(* each way a handler can move (receive, answer, go on, write).            *)
(***************************************************************************)
EXTENDS Dispatch, FiniteSetTheorems, TLAPS

LEMMA InitIInv == Init => IInv
<1> SUFFICES ASSUME Init PROVE IInv
  OBVIOUS
<1>1. TypeOK
  BY DispatchAssumption DEF Init, TypeOK, OrderIds, CourierIds, ProgramPoints, Answers
<1>2. CommittedPairsHold /\ PointersAreCommitted
  BY DEF Init, CommittedPairsHold, PointersAreCommitted, OrdersOf
<1>3. ReadsHoldUnlessOverlapped /\ PlansAreMatchings
  BY DEF Init, ReadsHoldUnlessOverlapped, PlansAreMatchings, ReadOrders, ReadCouriers,
         Committing
<1>4. QED
  BY <1>1, <1>2, <1>3 DEF IInv

\* A handler that has read nothing relies on nothing.
LEMMA ReceiveIInv ==
    ASSUME IInv, NEW r \in Requests, UNCHANGED deployment,
           NEW at \in {"assign:order", "run:orders", "single:order"},
           NEW orders \in SUBSET OrderIds,
           NEW pairs \in SUBSET (OrderIds \X CourierIds),
           Receive(r, at, orders, pairs)
    PROVE  IInv'
<1>1. TypeOK'
  BY DEF IInv, TypeOK, Receive, dbVars, ProgramPoints, Answers
<1>2. CommittedPairsHold' /\ PointersAreCommitted'
  BY DEF IInv, CommittedPairsHold, PointersAreCommitted, Receive, dbVars
<1>3. pc'[r] = at /\ \A s \in Requests \ {r} :
          pc'[s] = pc[s] /\ plan'[s] = plan[s] /\ seen'[s] = seen[s] /\ overlap'[s] = overlap[s]
  BY DEF IInv, TypeOK, Receive
<1>4. ReadsHoldUnlessOverlapped'
  <2>1. ReadOrders(r)' = {} /\ ReadCouriers(r)' = {}
    BY <1>3 DEF ReadOrders, ReadCouriers, Committing
  <2>2. ASSUME NEW s \in Requests \ {r}
        PROVE  ReadOrders(s)' = ReadOrders(s) /\ ReadCouriers(s)' = ReadCouriers(s)
    BY <1>3 DEF ReadOrders, ReadCouriers
  <2>3. QED
    BY <1>3, <2>1, <2>2
    DEF IInv, ReadsHoldUnlessOverlapped, Receive, dbVars, IsPending
<1>5. PlansAreMatchings'
  BY <1>3 DEF IInv, PlansAreMatchings, Committing
<1>6. QED
  BY <1>1, <1>2, <1>4, <1>5 DEF IInv

\* A handler that answers without writing relies on nothing any more.
LEMMA AnswerIInv ==
    ASSUME IInv, NEW r \in Requests, UNCHANGED deployment,
           NEW answer \in Answers, Answer(r, answer)
    PROVE  IInv'
<1>1. TypeOK'
  BY DEF IInv, TypeOK, Answer, Finish, dbVars, ProgramPoints
<1>2. CommittedPairsHold' /\ PointersAreCommitted'
  BY DEF IInv, CommittedPairsHold, PointersAreCommitted, Answer, dbVars
<1>3. pc'[r] = "idle" /\ \A s \in Requests \ {r} :
          pc'[s] = pc[s] /\ plan'[s] = plan[s] /\ seen'[s] = seen[s] /\ overlap'[s] = overlap[s]
  BY DEF IInv, TypeOK, Answer, Finish
<1>4. ReadsHoldUnlessOverlapped'
  BY <1>3 DEF IInv, ReadsHoldUnlessOverlapped, ReadOrders, ReadCouriers, Committing,
              Answer, dbVars, IsPending
<1>5. PlansAreMatchings'
  BY <1>3 DEF IInv, PlansAreMatchings, Committing
<1>6. QED
  BY <1>1, <1>2, <1>4, <1>5 DEF IInv

\* A handler goes on: what it newly relies on was true when it read it.
LEMMA GoToIInv ==
    ASSUME IInv, NEW r \in Requests, UNCHANGED deployment,
           NEW at \in ProgramPoints, GoTo(r, at),
           seen' \in [Requests -> SUBSET OrderIds],
           plan' \in [Requests -> SUBSET (OrderIds \X CourierIds)],
           \A s \in Requests \ {r} : seen'[s] = seen[s] /\ plan'[s] = plan[s],
           \A o \in ReadOrders(r)' : o \in ReadOrders(r) \/ IsPending(o),
           \A c \in ReadCouriers(r)' :
              c \in Couriers /\ courierStatus[c] = "available",
           at \in Committing => IsMatching(plan'[r])
    PROVE  IInv'
<1>1. TypeOK'
  BY DEF IInv, TypeOK, GoTo, dbVars
<1>2. CommittedPairsHold' /\ PointersAreCommitted'
  BY DEF IInv, CommittedPairsHold, PointersAreCommitted, GoTo, dbVars
<1>3. pc'[r] = at /\ \A s \in Requests \ {r} : pc'[s] = pc[s]
  BY DEF IInv, TypeOK, GoTo
<1>4. ReadsHoldUnlessOverlapped'
  <2>1. ASSUME NEW s \in Requests \ {r}
        PROVE  ReadOrders(s)' = ReadOrders(s) /\ ReadCouriers(s)' = ReadCouriers(s)
    BY <1>3 DEF ReadOrders, ReadCouriers
  <2>2. \A o \in ReadOrders(r)' :
          /\ IsPending(o) \/ \E q \in overlap[r] : q[1] = o
          /\ \A q \in made : q[1] = o => q \in overlap[r]
    BY DEF IInv, ReadsHoldUnlessOverlapped, CommittedPairsHold, IsPending
  <2>3. \A c \in ReadCouriers(r)' :
          /\ c \in Couriers /\ courierStatus[c] = "available"
          /\ \A q \in made : q[2] = c => q \in overlap[r]
    BY DEF IInv, CommittedPairsHold
  <2>4. QED
    BY <2>1, <2>2, <2>3 DEF IInv, ReadsHoldUnlessOverlapped, GoTo, dbVars, IsPending
<1>5. PlansAreMatchings'
  BY <1>3 DEF IInv, PlansAreMatchings
<1>6. QED
  BY <1>1, <1>2, <1>4, <1>5 DEF IInv

\* What a handler holds before its commit are pairs of rows.
LEMMA PlansAreRows ==
    ASSUME IInv, NEW r \in Requests, pc[r] \in Committing
    PROVE  plan[r] \subseteq Orders \X Couriers
<1> SUFFICES ASSUME NEW p \in plan[r] PROVE p \in Orders \X Couriers
  OBVIOUS
<1>1. p \in OrderIds \X CourierIds /\ overlap[r] \subseteq Orders \X Couriers
  BY DEF IInv, TypeOK
<1>2. p[1] \in ReadOrders(r) /\ p[2] \in ReadCouriers(r)
  BY DEF ReadOrders, ReadCouriers, OrdersOf, CouriersOf, Committing
<1>3. p[1] \in Orders /\ p[2] \in Couriers
  BY <1>1, <1>2 DEF IInv, ReadsHoldUnlessOverlapped, IsPending
<1>4. QED
  BY <1>1, <1>3

\* A commit: its own order and courier rows agree with the pair it books, and
\* every other handler now overlaps with it.
LEMMA WriteIInv ==
    ASSUME IInv, NEW r \in Requests, UNCHANGED deployment,
           NEW answer \in Answers, pc[r] \in Committing, Write(r, answer)
    PROVE  IInv'
<1> DEFINE P == plan[r]
<1>1. P \subseteq Orders \X Couriers
  BY PlansAreRows
<1>2. \A o \in OrdersOf(P) : o \in Orders /\ <<o, orderCourier'[o]>> \in P
                             /\ orderStatus'[o] = "assigned"
  <2> SUFFICES ASSUME NEW p \in P
               PROVE  p[1] \in Orders /\ <<p[1], orderCourier'[p[1]]>> \in P
                      /\ orderStatus'[p[1]] = "assigned"
    BY DEF OrdersOf
  <2>1. p[1] \in Orders /\ p[2] \in Couriers /\ p = <<p[1], p[2]>>
    BY <1>1
  <2>2. p[1] \in OrdersOf(P)
    BY DEF OrdersOf
  <2>3. orderCourier'[p[1]] = CHOOSE c \in Couriers : <<p[1], c>> \in P
    BY <2>1, <2>2 DEF Write
  <2>4. <<p[1], CHOOSE c \in Couriers : <<p[1], c>> \in P>> \in P
    BY <2>1
  <2>5. orderStatus'[p[1]] = "assigned"
    BY <2>1, <2>2 DEF Write
  <2>6. QED
    BY <2>1, <2>3, <2>4, <2>5
<1>3. \A c \in CouriersOf(P) : c \in Couriers /\ <<courierOrder'[c], c>> \in P
                               /\ courierStatus'[c] = "busy"
  <2> SUFFICES ASSUME NEW p \in P
               PROVE  p[2] \in Couriers /\ <<courierOrder'[p[2]], p[2]>> \in P
                      /\ courierStatus'[p[2]] = "busy"
    BY DEF CouriersOf
  <2>1. p[1] \in Orders /\ p[2] \in Couriers /\ p = <<p[1], p[2]>>
    BY <1>1
  <2>2. p[2] \in CouriersOf(P)
    BY DEF CouriersOf
  <2>3. courierOrder'[p[2]] = CHOOSE o \in Orders : <<o, p[2]>> \in P
    BY <2>1, <2>2 DEF Write
  <2>4. <<CHOOSE o \in Orders : <<o, p[2]>> \in P, p[2]>> \in P
    BY <2>1
  <2>5. courierStatus'[p[2]] = "busy"
    BY <2>1, <2>2 DEF Write
  <2>6. QED
    BY <2>1, <2>3, <2>4, <2>5
<1>4. \A o \in Orders \ OrdersOf(P) :
         orderStatus'[o] = orderStatus[o] /\ orderCourier'[o] = orderCourier[o]
  BY DEF Write
<1>5. \A c \in Couriers \ CouriersOf(P) :
         courierStatus'[c] = courierStatus[c] /\ courierOrder'[c] = courierOrder[c]
  BY DEF Write
<1>6. made' = made \union P
  BY DEF Write
<1>7. /\ pc' = [pc EXCEPT ![r] = "idle"]
      /\ seen' = [seen EXCEPT ![r] = {}]
      /\ plan' = [plan EXCEPT ![r] = {}]
      /\ reply' = [reply EXCEPT ![r] = answer]
  BY DEF Write, Finish
<1>8. TypeOK'
  <2>1. orderStatus' \in [Orders -> OrderStatus] /\ courierStatus' \in [Couriers -> CourierStatus]
    BY DEF IInv, TypeOK, Write, OrderStatus, CourierStatus
  <2>2. orderCourier' \in [Orders -> CourierIds]
    <3>1. orderCourier' = [o \in Orders |-> orderCourier'[o]]
      BY DEF Write
    <3>2. \A o \in Orders : orderCourier'[o] \in CourierIds
      BY <1>1, <1>2, <1>4 DEF IInv, TypeOK, CourierIds
    <3>3. QED
      BY <3>1, <3>2
  <2>3. courierOrder' \in [Couriers -> OrderIds]
    <3>1. courierOrder' = [c \in Couriers |-> courierOrder'[c]]
      BY DEF Write
    <3>2. \A c \in Couriers : courierOrder'[c] \in OrderIds
      BY <1>1, <1>3, <1>5 DEF IInv, TypeOK, OrderIds
    <3>3. QED
      BY <3>1, <3>2
  <2>4. overlap' \in [Requests -> SUBSET (Orders \X Couriers)]
    BY <1>1 DEF IInv, TypeOK, Write
  <2>5. QED
    BY <2>1, <2>2, <2>3, <2>4, <1>1, <1>6, <1>7 DEF IInv, TypeOK, ProgramPoints
<1>9. CommittedPairsHold'
  <2> SUFFICES ASSUME NEW p \in made'
               PROVE  orderStatus'[p[1]] = "assigned" /\ courierStatus'[p[2]] = "busy"
    BY DEF CommittedPairsHold
  <2>1. p[1] \in Orders /\ p[2] \in Couriers
    BY <1>1, <1>6 DEF IInv, TypeOK
  <2>2. p[1] \in OrdersOf(P) \/ orderStatus[p[1]] = "assigned"
    BY <1>6 DEF IInv, CommittedPairsHold, OrdersOf
  <2>3. p[2] \in CouriersOf(P) \/ courierStatus[p[2]] = "busy"
    BY <1>6 DEF IInv, CommittedPairsHold, CouriersOf
  <2>4. QED
    BY <2>1, <2>2, <2>3, <1>2, <1>3, <1>4, <1>5
<1>10. PointersAreCommitted'
  <2>1. ASSUME NEW c \in Couriers, courierOrder'[c] # None
        PROVE  <<courierOrder'[c], c>> \in made'
    BY <2>1, <1>3, <1>5, <1>6 DEF IInv, PointersAreCommitted
  <2>2. ASSUME NEW p \in made' PROVE <<p[1], orderCourier'[p[1]]>> \in made'
    <3>1. p[1] \in Orders
      BY <1>1, <1>6 DEF IInv, TypeOK
    <3>2. CASE p[1] \in OrdersOf(P)
      BY <3>2, <1>2, <1>6
    <3>3. CASE p[1] \notin OrdersOf(P)
      <4>1. p \in made
        BY <3>3, <1>6 DEF OrdersOf
      <4>2. <<p[1], orderCourier[p[1]]>> \in made
        BY <4>1 DEF IInv, PointersAreCommitted, OrdersOf
      <4>3. QED
        BY <4>2, <3>1, <3>3, <1>4, <1>6
    <3>4. QED
      BY <3>2, <3>3
  <2>3. QED
    BY <2>1, <2>2 DEF PointersAreCommitted, OrdersOf
<1>11. ReadsHoldUnlessOverlapped'
  <2>1. ReadOrders(r)' = {} /\ ReadCouriers(r)' = {}
    BY <1>7 DEF IInv, TypeOK, ReadOrders, ReadCouriers, Committing
  <2>2. ASSUME NEW s \in Requests \ {r}
        PROVE  /\ \A o \in ReadOrders(s)' :
                    /\ IsPending(o)' \/ \E q \in overlap'[s] : q[1] = o
                    /\ \A q \in made' : q[1] = o => q \in overlap'[s]
               /\ \A c \in ReadCouriers(s)' :
                    /\ \/ c \in Couriers /\ courierStatus'[c] = "available"
                       \/ \E q \in overlap'[s] : q[2] = c
                    /\ \A q \in made' : q[2] = c => q \in overlap'[s]
    <3>1. pc'[s] = pc[s] /\ seen'[s] = seen[s] /\ plan'[s] = plan[s]
      BY <1>7 DEF IInv, TypeOK
    <3>2. ReadOrders(s)' = ReadOrders(s) /\ ReadCouriers(s)' = ReadCouriers(s)
      BY <3>1 DEF ReadOrders, ReadCouriers
    <3>3. CASE pc[s] = "idle"
      BY <3>2, <3>3 DEF ReadOrders, ReadCouriers, Committing
    <3>4. CASE pc[s] # "idle"
      <4>1. overlap'[s] = overlap[s] \union P
        BY <3>4 DEF Write, InFlight
      <4>2. ASSUME NEW o \in ReadOrders(s)
            PROVE  /\ IsPending(o)' \/ \E q \in overlap'[s] : q[1] = o
                   /\ \A q \in made' : q[1] = o => q \in overlap'[s]
        <5>1. /\ IsPending(o) \/ \E q \in overlap[s] : q[1] = o
              /\ \A q \in made : q[1] = o => q \in overlap[s]
          BY DEF IInv, ReadsHoldUnlessOverlapped
        <5>2. o \in OrdersOf(P) => \E q \in P : q[1] = o
          BY DEF OrdersOf
        <5>3. QED
          BY <5>1, <5>2, <4>1, <1>4, <1>6 DEF IsPending
      <4>3. ASSUME NEW c \in ReadCouriers(s)
            PROVE  /\ \/ c \in Couriers /\ courierStatus'[c] = "available"
                      \/ \E q \in overlap'[s] : q[2] = c
                   /\ \A q \in made' : q[2] = c => q \in overlap'[s]
        <5>1. /\ \/ c \in Couriers /\ courierStatus[c] = "available"
                 \/ \E q \in overlap[s] : q[2] = c
              /\ \A q \in made : q[2] = c => q \in overlap[s]
          BY DEF IInv, ReadsHoldUnlessOverlapped
        <5>2. c \in CouriersOf(P) => \E q \in P : q[2] = c
          BY DEF CouriersOf
        <5>3. QED
          BY <5>1, <5>2, <4>1, <1>5, <1>6
      <4>4. QED
        BY <4>2, <4>3, <3>2
    <3>5. QED
      BY <3>3, <3>4
  <2>3. QED
    BY <2>1, <2>2 DEF ReadsHoldUnlessOverlapped
<1>12. PlansAreMatchings'
  BY <1>7 DEF IInv, TypeOK, PlansAreMatchings, Committing
<1>13. QED
  BY <1>8, <1>9, <1>10, <1>11, <1>12 DEF IInv

-----------------------------------------------------------------------------

LEMMA MatchingsAreMatchings ==
    ASSUME NEW os, NEW cs, NEW M \in Matchings(os, cs)
    PROVE  /\ M \subseteq os \X cs /\ IsMatching(M)
           /\ OrdersOf(M) \subseteq os /\ CouriersOf(M) \subseteq cs
BY DEF Matchings, OrdersOf, CouriersOf

LEMMA NextIInv == IInv /\ [Next]_vars => IInv'
<1> SUFFICES ASSUME IInv, [Next]_vars PROVE IInv'
  OBVIOUS
<1>1. CASE UNCHANGED vars
  BY <1>1 DEF vars, dbVars, IInv, TypeOK, CommittedPairsHold, PointersAreCommitted,
              ReadsHoldUnlessOverlapped, PlansAreMatchings, ReadOrders, ReadCouriers, IsPending
<1>2. ASSUME Next, NEW r \in Requests,
             ReceiveAssign(r) \/ ReceiveRun(r) \/ ReceiveSingle(r) \/ Handle(r)
      PROVE  IInv'
  <2>0. UNCHANGED deployment
    BY <1>2 DEF Next
  <2> USE DEF Answers, ProgramPoints
  <2>1. CASE ReceiveAssign(r)
    <3>1. PICK o \in OrderIds, c \in CourierIds : Receive(r, "assign:order", {}, {<<o, c>>})
      BY <2>1 DEF ReceiveAssign
    <3>2. QED
      BY <2>0, <3>1, ReceiveIInv
  <2>2. CASE ReceiveRun(r)
    BY <2>0, <2>2, ReceiveIInv DEF ReceiveRun
  <2>3. CASE ReceiveSingle(r)
    <3>1. PICK o \in OrderIds : Receive(r, "single:order", {o}, {})
      BY <2>3 DEF ReceiveSingle
    <3>2. QED
      BY <2>0, <3>1, ReceiveIInv
  <2>4. CASE DatabaseError(r)
    BY <2>0, <2>4, AnswerIInv DEF DatabaseError
  <2>5. CASE AssignReadOrder(r)
    <3>1. PICK o \in OrderIds, c \in CourierIds :
            /\ plan[r] = {<<o, c>>}
            /\ \/ Answer(r, "not_found") \/ Answer(r, "rejected")
               \/ /\ o # None /\ orderStatus[o] = "pending"
                  /\ GoTo(r, "assign:courier")
                  /\ UNCHANGED <<seen, plan>>
      BY <2>5 DEF AssignReadOrder
    <3>2. CASE Answer(r, "not_found") \/ Answer(r, "rejected")
      BY <2>0, <3>2, AnswerIInv
    <3>3. CASE /\ o # None /\ orderStatus[o] = "pending"
               /\ GoTo(r, "assign:courier")
               /\ UNCHANGED <<seen, plan>>
      <4>1. pc'[r] = "assign:courier" /\ plan'[r] = {<<o, c>>}
        BY <3>1, <3>3 DEF GoTo, IInv, TypeOK
      <4>2. ReadOrders(r)' = {o} /\ ReadCouriers(r)' = {}
        BY <4>1 DEF ReadOrders, ReadCouriers, Committing, OrdersOf
      <4>3. IsPending(o)
        BY <3>3 DEF IsPending, OrderIds
      <4>4. QED
        BY <2>0, <3>3, <4>2, <4>3, GoToIInv DEF IInv, TypeOK, Committing
    <3>4. QED
      BY <3>1, <3>2, <3>3
  <2>6. CASE AssignReadCourier(r)
    <3>1. PICK o \in OrderIds, c \in CourierIds :
            /\ plan[r] = {<<o, c>>}
            /\ \/ Answer(r, "not_found") \/ Answer(r, "rejected")
               \/ /\ c # None /\ courierStatus[c] = "available"
                  /\ GoTo(r, "assign:commit")
                  /\ UNCHANGED <<seen, plan>>
      BY <2>6 DEF AssignReadCourier
    <3>2. CASE Answer(r, "not_found") \/ Answer(r, "rejected")
      BY <2>0, <3>2, AnswerIInv
    <3>3. CASE /\ c # None /\ courierStatus[c] = "available"
               /\ GoTo(r, "assign:commit")
               /\ UNCHANGED <<seen, plan>>
      <4>1. /\ pc[r] = "assign:courier" /\ pc'[r] = "assign:commit"
            /\ plan'[r] = {<<o, c>>}
        BY <2>6, <3>1, <3>3 DEF AssignReadCourier, GoTo, IInv, TypeOK
      <4>2. ReadOrders(r) = {o} /\ ReadOrders(r)' = {o} /\ ReadCouriers(r)' = {c}
        BY <3>1, <4>1 DEF ReadOrders, ReadCouriers, Committing, OrdersOf, CouriersOf
      <4>3. c \in Couriers
        BY <3>3 DEF CourierIds
      <4>4. IsMatching(plan'[r])
        BY <4>1 DEF IsMatching, Conflict
      <4>5. QED
        BY <2>0, <3>3, <4>2, <4>3, <4>4, GoToIInv DEF IInv, TypeOK
    <3>4. QED
      BY <3>1, <3>2, <3>3
  <2>7. CASE AssignCommit(r)
    BY <2>0, <2>7, WriteIInv DEF AssignCommit, Committing
  <2>8. CASE RunReadOrders(r)
    <3>1. CASE Answer(r, "attribute_error")
      BY <2>0, <3>1, AnswerIInv
    <3>2. CASE /\ GoTo(r, "run:couriers")
               /\ seen' = [seen EXCEPT ![r] = PendingOrders]
               /\ UNCHANGED plan
      <4>1. pc'[r] = "run:couriers" /\ seen'[r] = PendingOrders
        BY <3>2 DEF GoTo, IInv, TypeOK
      <4>2. ReadOrders(r)' = PendingOrders /\ ReadCouriers(r)' = {}
        BY <4>1 DEF ReadOrders, ReadCouriers, Committing
      <4>3. PendingOrders \subseteq OrderIds /\ \A o \in PendingOrders : IsPending(o)
        BY DEF PendingOrders, OrderIds
      <4>4. QED
        BY <2>0, <3>2, <4>2, <4>3, GoToIInv DEF IInv, TypeOK, Committing
    <3>3. QED
      BY <2>8, <3>1, <3>2 DEF RunReadOrders
  <2>9. CASE RunReadCouriers(r)
    <3>1. CASE Answer(r, "attribute_error") \/ Answer(r, "type_error")
      BY <2>0, <3>1, AnswerIInv
    <3>2. CASE /\ GoTo(r, "run:commit")
               /\ \E M \in Matchings(seen[r], SolverCouriers) :
                     plan' = [plan EXCEPT ![r] = M]
               /\ UNCHANGED seen
      <4>1. PICK M \in Matchings(seen[r], SolverCouriers) : plan' = [plan EXCEPT ![r] = M]
        BY <3>2
      <4>2. pc[r] = "run:couriers" /\ pc'[r] = "run:commit" /\ plan'[r] = M
        BY <2>9, <3>2, <4>1 DEF RunReadCouriers, GoTo, IInv, TypeOK
      <4>3. QED
        <5>1. ReadOrders(r) = seen[r] /\ ReadOrders(r)' = OrdersOf(M)
              /\ ReadCouriers(r)' = CouriersOf(M)
          BY <4>2 DEF ReadOrders, ReadCouriers, Committing
        <5>2. /\ OrdersOf(M) \subseteq seen[r] /\ CouriersOf(M) \subseteq SolverCouriers
              /\ IsMatching(M) /\ M \subseteq seen[r] \X SolverCouriers
          BY <4>1, MatchingsAreMatchings
        <5>3. M \subseteq OrderIds \X CourierIds
          BY <5>2 DEF IInv, TypeOK, SolverCouriers, CourierIds
        <5>4. /\ seen' \in [Requests -> SUBSET OrderIds]
              /\ plan' \in [Requests -> SUBSET (OrderIds \X CourierIds)]
              /\ \A s \in Requests \ {r} : seen'[s] = seen[s] /\ plan'[s] = plan[s]
          BY <3>2, <4>1, <5>3 DEF IInv, TypeOK
        <5>5. \A o \in ReadOrders(r)' : o \in ReadOrders(r)
          BY <5>1, <5>2
        <5>6. \A c \in ReadCouriers(r)' : c \in Couriers /\ courierStatus[c] = "available"
          BY <5>1, <5>2 DEF SolverCouriers
        <5>7. IsMatching(plan'[r])
          BY <4>2, <5>2
        <5>8. GoTo(r, "run:commit")
          BY <3>2
        <5>9. QED
          BY <2>0, <5>4, <5>5, <5>6, <5>7, <5>8, GoToIInv
    <3>3. QED
      BY <2>9, <3>1, <3>2 DEF RunReadCouriers
  <2>10. CASE RunCommit(r)
    BY <2>0, <2>10, AnswerIInv, WriteIInv DEF RunCommit, Committing
  <2>11. CASE SingleReadOrder(r)
    <3>1. PICK o \in OrderIds :
            /\ seen[r] = {o}
            /\ \/ Answer(r, "data_error") \/ Answer(r, "nothing") \/ Answer(r, "attribute_error")
               \/ /\ IsPending(o)
                  /\ GoTo(r, "single:couriers")
                  /\ UNCHANGED <<seen, plan>>
      BY <2>11 DEF SingleReadOrder
    <3>2. CASE Answer(r, "data_error") \/ Answer(r, "nothing") \/ Answer(r, "attribute_error")
      BY <2>0, <3>2, AnswerIInv
    <3>3. CASE /\ IsPending(o)
               /\ GoTo(r, "single:couriers")
               /\ UNCHANGED <<seen, plan>>
      <4>1. pc'[r] = "single:couriers"
        BY <3>3 DEF GoTo, IInv, TypeOK
      <4>2. ReadOrders(r)' = {o} /\ ReadCouriers(r)' = {}
        BY <3>1, <3>3, <4>1 DEF ReadOrders, ReadCouriers, Committing
      <4>3. QED
        BY <2>0, <3>3, <4>2, GoToIInv DEF IInv, TypeOK, Committing
    <3>4. QED
      BY <3>1, <3>2, <3>3
  <2>12. CASE SingleReadCouriers(r)
    <3>1. CASE Answer(r, "no_couriers") \/ Answer(r, "attribute_error") \/ Answer(r, "no_match")
      BY <2>0, <3>1, AnswerIInv
    <3>2. ASSUME NEW M \in Matchings(seen[r], SolverCouriers),
                 GoTo(r, "single:commit"),
                 plan' = [plan EXCEPT ![r] = M],
                 UNCHANGED seen
          PROVE  IInv'
      <4>1. pc[r] = "single:couriers" /\ pc'[r] = "single:commit" /\ plan'[r] = M
        BY <2>12, <3>2 DEF SingleReadCouriers, GoTo, IInv, TypeOK
      <4>2. ReadOrders(r) = seen[r] /\ ReadOrders(r)' = OrdersOf(M)
            /\ ReadCouriers(r)' = CouriersOf(M)
        BY <4>1 DEF ReadOrders, ReadCouriers, Committing
      <4>3. /\ OrdersOf(M) \subseteq seen[r] /\ CouriersOf(M) \subseteq SolverCouriers
            /\ IsMatching(M) /\ M \subseteq seen[r] \X SolverCouriers
        BY <3>2, MatchingsAreMatchings
      <4>4. M \subseteq OrderIds \X CourierIds
        BY <4>3 DEF IInv, TypeOK, SolverCouriers, CourierIds
      <4>5. /\ seen' \in [Requests -> SUBSET OrderIds]
            /\ plan' \in [Requests -> SUBSET (OrderIds \X CourierIds)]
            /\ \A s \in Requests \ {r} : seen'[s] = seen[s] /\ plan'[s] = plan[s]
        BY <3>2, <4>4 DEF IInv, TypeOK
      <4>6. \A o \in ReadOrders(r)' : o \in ReadOrders(r)
        BY <4>2, <4>3
      <4>7. \A c \in ReadCouriers(r)' : c \in Couriers /\ courierStatus[c] = "available"
        BY <4>2, <4>3 DEF SolverCouriers
      <4>8. IsMatching(plan'[r])
        BY <4>1, <4>3
      <4>9. QED
        BY <2>0, <3>2, <4>5, <4>6, <4>7, <4>8, GoToIInv
    <3>3. QED
      BY <2>12, <3>1, <3>2 DEF SingleReadCouriers
  <2>13. CASE SingleCommit(r)
    BY <2>0, <2>13, WriteIInv DEF SingleCommit, Committing
  <2>14. QED
    BY <1>2, <2>1, <2>2, <2>3, <2>4, <2>5, <2>6, <2>7, <2>8, <2>9, <2>10, <2>11, <2>12,
       <2>13 DEF Handle
<1>3. QED
  BY <1>1, <1>2 DEF Next

\* The inductive invariant holds in every reachable state: types, committed
\* pairs that hold, pointers that name committed pairs, and reads that hold
\* unless an overlapping transaction has booked the row.
THEOREM Invariance == Spec => []IInv
<1>1. Init => IInv
  BY InitIInv
<1>2. IInv /\ [Next]_vars => IInv'
  BY NextIInv
<1>3. QED
  BY <1>1, <1>2, PTL DEF Spec

\* A request about to commit can only double-book what an overlapping
\* transaction has booked, for any number of concurrent requests.
THEOREM ConflictsNeedOverlap == Spec => []ConflictsOnlyByOverlap
<1>1. IInv => ConflictsOnlyByOverlap
  <2> SUFFICES ASSUME IInv, NEW r \in Requests, pc[r] \in Committing,
                      NEW p \in plan[r], NEW q \in made, p[1] = q[1] \/ p[2] = q[2]
               PROVE  q \in overlap[r]
    BY DEF ConflictsOnlyByOverlap
  <2>1. p[1] \in ReadOrders(r) /\ p[2] \in ReadCouriers(r)
    BY DEF ReadOrders, ReadCouriers, OrdersOf, CouriersOf, Committing
  <2>2. QED
    BY <2>1 DEF IInv, ReadsHoldUnlessOverlapped
<1>2. QED
  BY <1>1, Invariance, PTL

-----------------------------------------------------------------------------

\* One request at a time: the one in flight overlaps with nothing.
Alone == \A r \in InFlight : overlap[r] = {} /\ \A s \in InFlight : s = r

LEMMA NextAlone ==
    ASSUME IsFiniteSet(Requests), MaxInFlight = 1, IInv, Alone, [Next]_vars
    PROVE  Alone'
<1>1. CASE UNCHANGED vars
  BY <1>1 DEF vars, Alone, InFlight
<1>2. ASSUME NEW r \in Requests, pc[r] = "idle",
             Cardinality(InFlight) < MaxInFlight,
             \A s \in Requests \ {r} : pc'[s] = pc[s],
             overlap'[r] = {}
      PROVE  Alone'
  <2>1. IsFiniteSet(InFlight)
    BY FS_Subset DEF InFlight
  <2>2. InFlight = {}
    BY <1>2, <2>1, FS_CardinalityType, FS_EmptySet
  <2>3. QED
    BY <1>2, <2>2 DEF Alone, InFlight
<1>3. ASSUME NEW r \in InFlight,
             \A s \in Requests \ {r} : pc'[s] = pc[s],
             overlap'[r] = overlap[r]
      PROVE  Alone'
  BY <1>3 DEF Alone, InFlight
<1>4. ASSUME Next, NEW r \in Requests,
             ReceiveAssign(r) \/ ReceiveRun(r) \/ ReceiveSingle(r) \/ Handle(r)
      PROVE  Alone'
  <2>1. ASSUME NEW at, NEW orders, NEW pairs, Receive(r, at, orders, pairs) PROVE Alone'
    BY <2>1, <1>2 DEF Receive, IInv, TypeOK
  <2>2. ASSUME NEW answer, r \in InFlight, Answer(r, answer) PROVE Alone'
    BY <2>2, <1>3 DEF Answer, Finish, IInv, TypeOK
  <2>3. ASSUME NEW at, r \in InFlight, GoTo(r, at) PROVE Alone'
    BY <2>3, <1>3 DEF GoTo, IInv, TypeOK
  <2>4. ASSUME NEW answer, r \in InFlight, Write(r, answer) PROVE Alone'
    BY <2>4, <1>3 DEF Write, Finish, IInv, TypeOK
  <2>5. CASE ReceiveAssign(r) \/ ReceiveRun(r) \/ ReceiveSingle(r)
    BY <2>5, <2>1 DEF ReceiveAssign, ReceiveRun, ReceiveSingle
  <2>6. CASE Handle(r)
    <3>1. r \in InFlight
      BY <2>6 DEF InFlight, Handle, AssignReadOrder, AssignReadCourier, AssignCommit,
                  RunReadOrders, RunReadCouriers, RunCommit,
                  SingleReadOrder, SingleReadCouriers, SingleCommit, DatabaseError
    <3>2. CASE AssignReadOrder(r) \/ AssignReadCourier(r) \/ AssignCommit(r)
      BY <3>1, <3>2, <2>2, <2>3, <2>4 DEF AssignReadOrder, AssignReadCourier, AssignCommit
    <3>3. CASE RunReadOrders(r) \/ RunReadCouriers(r) \/ RunCommit(r)
      BY <3>1, <3>3, <2>2, <2>3, <2>4 DEF RunReadOrders, RunReadCouriers, RunCommit
    <3>4. CASE SingleReadOrder(r) \/ SingleReadCouriers(r) \/ SingleCommit(r)
      BY <3>1, <3>4, <2>2, <2>3, <2>4 DEF SingleReadOrder, SingleReadCouriers, SingleCommit
    <3>5. CASE DatabaseError(r)
      BY <3>1, <3>5, <2>2 DEF DatabaseError
    <3>6. QED
      BY <2>6, <3>2, <3>3, <3>4, <3>5 DEF Handle
  <2>7. QED
    BY <1>4, <2>5, <2>6
<1>5. QED
  BY <1>1, <1>4 DEF Next

\* A commit of a lone request is a booking; every other step leaves the ledger
\* alone.
LEMMA NextBooks ==
    ASSUME IInv, Alone, Next
    PROVE  [Ledger!LedgerNext]_(Ledger!ledgerVars)
<1> USE DEF Ledger!ledgerVars
<1>1. ASSUME UNCHANGED dbVars PROVE UNCHANGED Ledger!ledgerVars
  BY <1>1 DEF dbVars, PendingOrders, IsPending
<1>2. ASSUME NEW r \in Requests, NEW answer, pc[r] \in Committing, Write(r, answer)
      PROVE  [Ledger!LedgerNext]_(Ledger!ledgerVars)
  <2> DEFINE P == plan[r]
             Free == {c \in Couriers : courierStatus[c] = "available"}
  <2>1. P \subseteq Orders \X Couriers /\ IsMatching(P)
    BY <1>2, PlansAreRows DEF IInv, PlansAreMatchings
  <2>2. OrdersOf(P) \subseteq PendingOrders /\ CouriersOf(P) \subseteq Free
    <3>1. r \in InFlight /\ overlap[r] = {}
      BY <1>2 DEF InFlight, Committing, Alone
    <3>2. ReadOrders(r) = OrdersOf(P) /\ ReadCouriers(r) = CouriersOf(P)
      BY <1>2 DEF ReadOrders, ReadCouriers, Committing
    <3>3. QED
      BY <3>1, <3>2 DEF IInv, ReadsHoldUnlessOverlapped, PendingOrders, IsPending
  <2>3. PendingOrders' = PendingOrders \ OrdersOf(P)
    BY <1>2 DEF Write, PendingOrders, IsPending
  <2>4. Free' = Free \ CouriersOf(P)
    BY <1>2 DEF Write
  <2>5. made' = made \union P
    BY <1>2 DEF Write
  <2>6. CASE P = {}
    <3>1. OrdersOf(P) = {} /\ CouriersOf(P) = {}
      BY <2>6 DEF OrdersOf, CouriersOf
    <3>2. QED
      BY <2>3, <2>4, <2>5, <2>6, <3>1
  <2>7. CASE P # {}
    <3>1. PICK M \in SUBSET (Orders \X Couriers) : M = P
      BY <2>1
    <3>2. Ledger!Book(M)
      BY <2>1, <2>2, <2>3, <2>4, <2>5, <2>7, <3>1
      DEF Ledger!Book, Ledger!IsMatching, Ledger!Conflict, Ledger!OrdersOf, Ledger!CouriersOf,
          IsMatching, Conflict, OrdersOf, CouriersOf
    <3>3. QED
      BY <3>2 DEF Ledger!LedgerNext
  <2>8. QED
    BY <2>6, <2>7
<1>3. ASSUME NEW r \in Requests,
             ReceiveAssign(r) \/ ReceiveRun(r) \/ ReceiveSingle(r) \/ Handle(r)
      PROVE  [Ledger!LedgerNext]_(Ledger!ledgerVars)
  <2>1. CASE ReceiveAssign(r) \/ ReceiveRun(r) \/ ReceiveSingle(r)
    BY <2>1, <1>1 DEF ReceiveAssign, ReceiveRun, ReceiveSingle, Receive
  <2>2. CASE AssignReadOrder(r) \/ AssignReadCourier(r)
    BY <2>2, <1>1 DEF AssignReadOrder, AssignReadCourier, Answer, GoTo
  <2>3. CASE RunReadOrders(r) \/ RunReadCouriers(r)
    BY <2>3, <1>1 DEF RunReadOrders, RunReadCouriers, Answer, GoTo
  <2>4. CASE SingleReadOrder(r) \/ SingleReadCouriers(r)
    BY <2>4, <1>1 DEF SingleReadOrder, SingleReadCouriers, Answer, GoTo
  <2>5. CASE AssignCommit(r) \/ SingleCommit(r)
    BY <2>5, <1>2 DEF AssignCommit, SingleCommit, Committing
  <2>6. CASE RunCommit(r)
    BY <2>6, <1>1, <1>2 DEF RunCommit, Answer, Committing
  <2>7. CASE DatabaseError(r)
    BY <2>7, <1>1 DEF DatabaseError, Answer
  <2>8. QED
    BY <1>3, <2>1, <2>2, <2>3, <2>4, <2>5, <2>6, <2>7 DEF Handle
<1>4. QED
  BY <1>3 DEF Next

\* With one request at a time (and finitely many connections) the tables
\* implement the ledger: each order is assigned once, each courier is booked
\* once, and a transaction books a matching or nothing.
THEOREM SerialImplementsLedger ==
    ASSUME IsFiniteSet(Requests), MaxInFlight = 1
    PROVE  Spec => ImplementsLedger
<1>1. Init => Ledger!LedgerInit
  BY DEF Init, Ledger!LedgerInit, PendingOrders
<1>2. Init => Alone
  BY DEF Init, Alone, InFlight
<1>3. IInv /\ Alone /\ [Next]_vars => Alone'
  BY NextAlone
<1>4. IInv /\ Alone /\ [Next]_vars => [Ledger!LedgerNext]_(Ledger!ledgerVars)
  <2>1. UNCHANGED vars => UNCHANGED Ledger!ledgerVars
    BY DEF vars, dbVars, Ledger!ledgerVars, PendingOrders, IsPending
  <2>2. QED
    BY <2>1, NextBooks
<1>5. QED
  BY <1>1, <1>2, <1>3, <1>4, Invariance, PTL DEF Spec, ImplementsLedger, Ledger!LedgerSpec

-----------------------------------------------------------------------------
(* Each order and each courier at most once. *)

\* A commit keeps the books a matching unless a booking that overlapped it competes
\* with it: what was booked before is no longer pending or available.
LEMMA CommitKeepsMatching ==
    ASSUME IInv, AssignedAtMostOnce,
           NEW r \in Requests, NEW answer, pc[r] \in Committing, Write(r, answer),
           \A p \in plan[r], q \in overlap[r] : ~Conflict(p, q)
    PROVE  AssignedAtMostOnce'
<1>1. made' = made \union plan[r]
  BY DEF Write
<1>2. IsMatching(made) /\ IsMatching(plan[r])
  BY DEF AssignedAtMostOnce, IInv, PlansAreMatchings
<1>3. ASSUME NEW p \in plan[r], NEW q \in made PROVE ~Conflict(p, q)
  <2>1. p[1] \in OrdersOf(plan[r]) /\ p[2] \in CouriersOf(plan[r])
    BY DEF OrdersOf, CouriersOf
  <2>2. p[1] \in ReadOrders(r) /\ p[2] \in ReadCouriers(r)
    BY <2>1 DEF ReadOrders, ReadCouriers, Committing
  <2>3. q[1] = p[1] \/ q[2] = p[2] => q \in overlap[r]
    BY <2>2 DEF IInv, ReadsHoldUnlessOverlapped
  <2>4. QED
    BY <2>3 DEF Conflict
<1>4. QED
  BY <1>1, <1>2, <1>3 DEF AssignedAtMostOnce, IsMatching, Conflict

\* Every other step leaves the books alone.
LEMMA OnlyCommitsBook ==
    ASSUME Next
    PROVE  \/ made' = made
           \/ \E r \in Requests : pc[r] \in Committing /\ \E answer \in Answers : Write(r, answer)
<1>1. PICK r \in Requests : ReceiveAssign(r) \/ ReceiveRun(r) \/ ReceiveSingle(r) \/ Handle(r)
  BY DEF Next
<1>2. CASE ReceiveAssign(r) \/ ReceiveRun(r) \/ ReceiveSingle(r)
  BY <1>2 DEF ReceiveAssign, ReceiveRun, ReceiveSingle, Receive, dbVars
<1>3. CASE AssignReadOrder(r) \/ AssignReadCourier(r)
  BY <1>3 DEF AssignReadOrder, AssignReadCourier, Answer, GoTo, dbVars
<1>4. CASE RunReadOrders(r) \/ RunReadCouriers(r)
  BY <1>4 DEF RunReadOrders, RunReadCouriers, Answer, GoTo, dbVars
<1>5. CASE SingleReadOrder(r) \/ SingleReadCouriers(r)
  BY <1>5 DEF SingleReadOrder, SingleReadCouriers, Answer, GoTo, dbVars
<1>6. CASE AssignCommit(r) \/ SingleCommit(r)
  BY <1>6 DEF AssignCommit, SingleCommit, Committing, Answers
<1>7. CASE RunCommit(r)
  BY <1>7 DEF RunCommit, Answer, dbVars, Committing, Answers
<1>8. CASE DatabaseError(r)
  BY <1>8 DEF DatabaseError, Answer, dbVars
<1>9. QED
  BY <1>1, <1>2, <1>3, <1>4, <1>5, <1>6, <1>7, <1>8 DEF Handle

\* With one request at a time no order and no courier is ever assigned twice, in
\* however many requests and on whatever deployment.  (With two, the run of the race
\* shows an order with two couriers.)
THEOREM SerialAssignsOnce ==
    ASSUME IsFiniteSet(Requests), MaxInFlight = 1
    PROVE  Spec => []AssignedAtMostOnce
<1>1. Init => AssignedAtMostOnce /\ Alone
  BY DEF Init, AssignedAtMostOnce, IsMatching, Alone, InFlight
<1>2. IInv /\ Alone /\ [Next]_vars => Alone'
  BY NextAlone
<1>3. IInv /\ Alone /\ AssignedAtMostOnce /\ [Next]_vars => AssignedAtMostOnce'
  <2> SUFFICES ASSUME IInv, Alone, AssignedAtMostOnce, [Next]_vars PROVE AssignedAtMostOnce'
    OBVIOUS
  <2>1. CASE made' = made
    BY <2>1 DEF AssignedAtMostOnce
  <2>2. ASSUME NEW r \in Requests, NEW answer \in Answers, pc[r] \in Committing, Write(r, answer)
        PROVE  AssignedAtMostOnce'
    <3>1. overlap[r] = {}
      BY <2>2 DEF Alone, InFlight, Committing
    <3>2. \A p \in plan[r], q \in overlap[r] : ~Conflict(p, q)
      BY <3>1
    <3>3. QED
      BY <2>2, <3>2, CommitKeepsMatching
  <2>3. QED
    BY <2>1, <2>2, OnlyCommitsBook DEF vars, dbVars
<1>4. QED
  BY <1>1, <1>2, <1>3, Invariance, PTL DEF Spec
=============================================================================
