---------------------------- MODULE GreedyProofs ----------------------------
(***************************************************************************)
(* Theorems about Greedy for any orders, couriers and cost matrix: IInv is *)
(* inductive, hence the solution is a matching, no feasible courier stays  *)
(* idle while an order goes without, and more urgent orders choose first.  *)
(***************************************************************************)
EXTENDS Greedy, FiniteSetTheorems, TLAPS

LEMMA InitIInv == Init => IInv
  BY GreedyAssumption DEF Init, IInv, TypeOK, OrdersAreAccountedFor, AssignsEachCourierOnce,
     NoneLeftForUnassigned, UrgentOrdersChooseFirst, ChoicesStayBest, OrdersOf, CouriersOf,
     IsMatching

\* What every step does to the queue of orders.
LEMMA ReachFacts ==
    ASSUME IInv, NEW i \in Orders, Reach(i)
    PROVE  /\ i \in waiting /\ i \notin unassigned_orders /\ i \notin OrdersOf(assignments)
           /\ waiting' = waiting \ {i}
           /\ before' = before \union {<<i, k>> : k \in waiting \ {i}}
           /\ cost' = cost /\ allow_multi_order' = allow_multi_order
           /\ \A p \in before' : p[1] \notin waiting'
  BY DEF Reach, IInv, OrdersAreAccountedFor, ChoicesStayBest

LEMMA AssignIInv ==
    ASSUME IInv, NEW i \in Orders, NEW j \in Couriers, Assign(i, j)
    PROVE  IInv'
<1> USE DEF IInv
<1>1. /\ i \in waiting /\ i \notin unassigned_orders /\ i \notin OrdersOf(assignments)
      /\ waiting' = waiting \ {i}
      /\ before' = before \union {<<i, k>> : k \in waiting \ {i}}
      /\ cost' = cost /\ allow_multi_order' = allow_multi_order
      /\ \A p \in before' : p[1] \notin waiting'
  BY ReachFacts DEF Assign
<1>2. /\ assignments' = assignments \union {<<i, j>>}
      /\ assigned_couriers' = assigned_couriers \union IF allow_multi_order THEN {} ELSE {j}
      /\ unassigned_orders' = unassigned_orders
      /\ j \in Available /\ Feasible(i, j) /\ \A k \in Available : cost[i][j] <= cost[i][k]
  BY DEF Assign, IsBestCourier
<1>3. TypeOK'
  BY <1>1, <1>2 DEF TypeOK
<1>4. OrdersOf(assignments') = OrdersOf(assignments) \union {i}
      /\ CouriersOf(assignments') = CouriersOf(assignments) \union {j}
  <2>1. <<i, j>>[1] = i /\ <<i, j>>[2] = j
    OBVIOUS
  <2>2. \A p : p \in assignments' <=> p \in assignments \/ p = <<i, j>>
    BY <1>2
  <2>3. \A x : x \in OrdersOf(assignments') <=> \E p \in assignments' : x = p[1]
    BY DEF OrdersOf
  <2>4. \A x : x \in CouriersOf(assignments') <=> \E p \in assignments' : x = p[2]
    BY DEF CouriersOf
  <2>5. OrdersOf(assignments') = OrdersOf(assignments) \union {i}
    BY <2>1, <2>2, <2>3 DEF OrdersOf
  <2>6. CouriersOf(assignments') = CouriersOf(assignments) \union {j}
    BY <2>1, <2>2, <2>4 DEF CouriersOf
  <2>7. QED
    BY <2>5, <2>6
<1>5. OrdersAreAccountedFor'
  <2>1. \A p \in assignments : p[1] # i
    BY <1>1 DEF OrdersOf
  <2>2. \A p, q \in assignments' : p[1] = q[1] => p = q
    BY <1>2, <2>1 DEF OrdersAreAccountedFor
  <2> DEFINE old == OrdersOf(assignments)
             new == OrdersOf(assignments')
  <2>3. /\ \A k \in Orders : (k \in waiting) = (k \notin unassigned_orders /\ k \notin old)
        /\ unassigned_orders \intersect old = {}
        /\ new = old \union {i} /\ i \notin old
    BY <1>1, <1>4 DEF OrdersAreAccountedFor
  <2>4. /\ \A k \in Orders : (k \in waiting') = (k \notin unassigned_orders' /\ k \notin new)
        /\ unassigned_orders' \intersect new = {}
    <3> HIDE DEF old, new
    <3>1. unassigned_orders' \intersect new = {}
      BY <1>1, <1>2, <2>3
    <3>2. ASSUME NEW k \in Orders
          PROVE  (k \in waiting') <=> (k \notin unassigned_orders' /\ k \notin new)
      <4>1. (k \in waiting) <=> (k \notin unassigned_orders /\ k \notin old)
        BY <2>3
      <4>2. QED
        BY <4>1, <1>1, <1>2, <2>3
    <3>3. QED
      BY <3>1, <3>2
  <2>5. QED
    BY <2>2, <2>4 DEF OrdersAreAccountedFor, OrdersOf
<1>6. AssignsEachCourierOnce'
  <2> SUFFICES ASSUME ~allow_multi_order
               PROVE  IsMatching(assignments') /\ assigned_couriers' = CouriersOf(assignments')
    BY <1>1 DEF AssignsEachCourierOnce
  <2>1. IsMatching(assignments) /\ assigned_couriers = CouriersOf(assignments)
    BY DEF AssignsEachCourierOnce
  <2>2. \A p \in assignments : p[1] # i /\ p[2] # j
    BY <1>1, <1>2, <2>1 DEF OrdersOf, CouriersOf, Available
  <2>3. IsMatching(assignments')
    BY <1>2, <2>1, <2>2 DEF IsMatching, Conflict
  <2>4. QED
    BY <1>2, <1>4, <2>1, <2>3
<1>7. Available' \subseteq Available
  BY <1>2 DEF Available
<1>8. NoneLeftForUnassigned'
  BY <1>1, <1>2, <1>7 DEF NoneLeftForUnassigned, Feasible
<1>9. ChoicesStayBest'
  BY <1>1, <1>2, <1>7 DEF ChoicesStayBest, Feasible
<1>10. UrgentOrdersChooseFirst'
  <2> SUFFICES ASSUME NEW q \in assignments', NEW k \in Orders, <<k, q[1]>> \in before'
               PROVE  /\ \A p \in assignments' : p[1] = k => cost[k][p[2]] <= cost[k][q[2]]
                      /\ k \in unassigned_orders => ~Feasible(k, q[2])
    BY <1>1, <1>2 DEF UrgentOrdersChooseFirst, Feasible
  <2>1. k \notin waiting'
    BY <1>1
  <2>2. CASE q = <<i, j>>
    <3>1. <<k, i>> \in before
      BY <1>1, <2>2
    <3>2. k # i
      BY <3>1, <1>1 DEF ChoicesStayBest
    <3>3. \A p \in assignments' : p[1] = k => p \in assignments /\ cost[k][p[2]] <= cost[k][j]
      BY <1>2, <3>2 DEF ChoicesStayBest
    <3>4. k \in unassigned_orders => ~Feasible(k, j)
      BY <1>2 DEF NoneLeftForUnassigned
    <3>5. QED
      BY <2>2, <3>3, <3>4
  <2>3. CASE q # <<i, j>>
    <3>1. q \in assignments /\ q[1] \in Orders /\ q[1] \notin waiting
      BY <1>2, <2>3 DEF OrdersAreAccountedFor, OrdersOf, TypeOK
    <3>2. <<k, q[1]>> \in before
      BY <1>1, <3>1
    <3>3. k # i
      BY <3>2, <1>1 DEF ChoicesStayBest
    <3>4. \A p \in assignments' : p[1] = k => p \in assignments
      BY <1>2, <3>3
    <3>5. QED
      BY <1>2, <3>1, <3>2, <3>4 DEF UrgentOrdersChooseFirst
  <2>4. QED
    BY <2>2, <2>3
<1>11. QED
  BY <1>3, <1>5, <1>6, <1>8, <1>9, <1>10

LEMMA LeaveIInv ==
    ASSUME IInv, NEW i \in Orders, LeaveUnassigned(i)
    PROVE  IInv'
<1> USE DEF IInv
<1>1. /\ i \in waiting /\ i \notin unassigned_orders /\ i \notin OrdersOf(assignments)
      /\ waiting' = waiting \ {i}
      /\ before' = before \union {<<i, k>> : k \in waiting \ {i}}
      /\ cost' = cost /\ allow_multi_order' = allow_multi_order
      /\ \A p \in before' : p[1] \notin waiting'
  BY ReachFacts DEF LeaveUnassigned
<1>2. /\ assignments' = assignments /\ assigned_couriers' = assigned_couriers
      /\ unassigned_orders' = unassigned_orders \union {i}
      /\ \A j \in Available : ~Feasible(i, j)
  BY DEF LeaveUnassigned
<1>3. TypeOK'
  BY <1>1, <1>2 DEF TypeOK
<1>4. OrdersAreAccountedFor'
  BY <1>1, <1>2 DEF OrdersAreAccountedFor
<1>5. AssignsEachCourierOnce' /\ NoneLeftForUnassigned' /\ ChoicesStayBest'
  BY <1>1, <1>2 DEF AssignsEachCourierOnce, NoneLeftForUnassigned, ChoicesStayBest,
                    Available, Feasible
<1>6. UrgentOrdersChooseFirst'
  <2> SUFFICES ASSUME NEW q \in assignments, NEW k \in Orders, <<k, q[1]>> \in before'
               PROVE  /\ \A p \in assignments : p[1] = k => cost[k][p[2]] <= cost[k][q[2]]
                      /\ k \in unassigned_orders \union {i} => ~Feasible(k, q[2])
    BY <1>1, <1>2 DEF UrgentOrdersChooseFirst, Feasible
  <2>1. q[1] \in Orders /\ q[1] \notin waiting
    BY DEF OrdersAreAccountedFor, OrdersOf, TypeOK
  <2>2. <<k, q[1]>> \in before
    BY <1>1, <2>1
  <2>3. k # i
    BY <2>2, <1>1 DEF ChoicesStayBest
  <2>4. QED
    BY <2>2, <2>3 DEF UrgentOrdersChooseFirst
<1>7. QED
  BY <1>3, <1>4, <1>5, <1>6

\* Every order is served or left, the solution is a matching, an order is left
\* only when every courier feasible for it is taken, and urgent orders choose
\* first, for every matrix and every order of the loop.
THEOREM Invariance == Spec => []IInv
<1>1. ASSUME IInv, [Next]_vars PROVE IInv'
  <2>1. CASE UNCHANGED vars
    BY <1>1, <2>1 DEF vars, IInv, TypeOK, OrdersAreAccountedFor, AssignsEachCourierOnce,
       NoneLeftForUnassigned, UrgentOrdersChooseFirst, ChoicesStayBest, Available, Feasible
  <2>2. QED
    BY <1>1, <2>1, AssignIInv, LeaveIInv DEF Next
<1>2. QED
  BY InitIInv, <1>1, PTL DEF Spec

\* Pairs that differ in one component, each of which some pair of A shares, are no more
\* than A has.
LEMMA NoMorePairs ==
    ASSUME NEW A, IsFiniteSet(A), NEW M, NEW c,
           \A p, q \in M : p[c] = q[c] => p = q,
           \A p \in M : \E a \in A : a[c] = p[c]
    PROVE  IsFiniteSet(M) /\ Cardinality(M) <= Cardinality(A)
<1> DEFINE like(p) == CHOOSE a \in A : a[c] = p[c]
           f == [p \in M |-> like(p)]
<1>1. \A p \in M : like(p) \in A /\ like(p)[c] = p[c]
  OBVIOUS
<1> HIDE DEF like
<1>2. f \in [M -> A] /\ \A p \in M : f[p] = like(p)
  BY <1>1
<1>3. \A p, q \in M : f[p] = f[q] => p = q
  BY <1>1, <1>2
<1> HIDE DEF f
<1>4. f \in Injection(M, A)
  BY <1>2, <1>3 DEF Injection, IsInjective
<1>5. QED
  BY <1>4, FS_Injection

\* Every feasible pair has its order served, or its courier taken, by greedy; so no
\* matching has more than two pairs for each of greedy's.
THEOREM HalfServed == Spec => []ServesHalf
<1>1. ASSUME IInv, Done, ~allow_multi_order, NEW M \in FeasibleMatchings
      PROVE  Cardinality(M) <= 2 * Cardinality(assignments)
  <2> DEFINE A == assignments
             M1 == {p \in M : p[1] \in OrdersOf(A)}
             M2 == {p \in M : p[2] \in CouriersOf(A)}
  <2>1. /\ \A p \in M : p[1] \in Orders /\ p[2] \in Couriers /\ Feasible(p[1], p[2])
        /\ \A p, q \in M : p[1] = q[1] \/ p[2] = q[2] => p = q
    BY <1>1 DEF FeasibleMatchings, IsMatching, Conflict
  <2>2. \A p \in M : p \in M1 \/ p \in M2
    <3> SUFFICES ASSUME NEW p \in M, p[1] \notin OrdersOf(A), p[2] \notin CouriersOf(A)
                 PROVE  FALSE
      OBVIOUS
    <3>1. p[1] \in unassigned_orders
      BY <1>1, <2>1 DEF IInv, OrdersAreAccountedFor, Done
    <3>2. p[2] \in Available
      BY <1>1, <2>1 DEF IInv, AssignsEachCourierOnce, Available
    <3>3. QED
      BY <1>1, <2>1, <3>1, <3>2 DEF IInv, NoneLeftForUnassigned
  <2>3. IsFiniteSet(A)
    BY <1>1, GreedyAssumption, FS_Product, FS_Subset DEF IInv, TypeOK
  <2>4. IsFiniteSet(M1) /\ Cardinality(M1) <= Cardinality(A)
    <3>1. (\A p, q \in M1 : p[1] = q[1] => p = q) /\ \A p \in M1 : \E a \in A : a[1] = p[1]
      BY <2>1 DEF OrdersOf
    <3> HIDE DEF A, M1
    <3>2. QED
      BY <2>3, <3>1, NoMorePairs
  <2>5. IsFiniteSet(M2) /\ Cardinality(M2) <= Cardinality(A)
    <3>1. (\A p, q \in M2 : p[2] = q[2] => p = q) /\ \A p \in M2 : \E a \in A : a[2] = p[2]
      BY <2>1 DEF CouriersOf
    <3> HIDE DEF A, M2
    <3>2. QED
      BY <2>3, <3>1, NoMorePairs
  <2>6. M = M1 \union M2
    BY <2>2
  <2> HIDE DEF M1, M2, A
  <2>7. Cardinality(M) = Cardinality(M1) + Cardinality(M2) - Cardinality(M1 \intersect M2)
    BY <2>4, <2>5, <2>6, FS_Union
  <2>8. IsFiniteSet(M1 \intersect M2)
    BY <2>4, FS_Subset
  <2>9. Cardinality(A) \in Nat /\ Cardinality(M1) \in Nat /\ Cardinality(M2) \in Nat
        /\ Cardinality(M1 \intersect M2) \in Nat
    BY <2>3, <2>4, <2>5, <2>8, FS_CardinalityType
  <2>10. QED
    BY <2>4, <2>5, <2>7, <2>9 DEF A
<1>2. IInv => ServesHalf
  BY <1>1 DEF ServesHalf
<1>3. QED
  BY <1>2, Invariance, PTL
=============================================================================
