---------------------------- MODULE AuctionProofs ----------------------------
(***************************************************************************)
(* Theorems about the assigners.  About Auction, for every cost matrix,    *)
(* epsilon and bound on the rounds: the conjunction IInv of its safety     *)
(* invariants is inductive, prices only rise, the backlog never grows, and *)
(* a complete result is nearly optimal.  About Hungarian, for every        *)
(* matrix: its result serves most, for least.  About cost matrices and     *)
(* solutions, for every problem: the builds agree, limits are kept,        *)
(* and no solution is dominated.                                           *)
(***************************************************************************)
EXTENDS AssignmentProblems, FiniteSetTheorems, WellFoundedInduction, TLAPS

\* Costs, prices and net values are integers.
LEMMA IntegerValues ==
    ASSUME TypeOK
    PROVE  /\ \A o \in Orders, k \in Couriers : cost[o][k] \in Int /\ NetValue(o, k) \in Int
           /\ \A k \in Couriers : prices[k] \in Int
           /\ Epsilon \in Nat \ {0} /\ INFINITY_COST \in Nat
<1>1. Epsilon \in Nat \ {0} /\ INFINITY_COST \in Nat
  BY AuctionAssumption
<1>2. \A k \in Couriers : prices[k] \in Int
  BY DEF TypeOK
<1>3. ASSUME NEW o \in Orders, NEW k \in Couriers PROVE cost[o][k] \in Int
  <2>1. cost[o] \in [Couriers -> Costs]
    BY DEF TypeOK
  <2>2. cost[o][k] \in Costs
    BY <2>1
  <2>3. QED
    BY <2>2, AuctionAssumption
<1>4. QED
  BY <1>1, <1>2, <1>3 DEF NetValue

\* What a bid does to its courier's price: it ends above the old price, and the
\* order's remaining net value is within epsilon of every alternative.
LEMMA BidPrice ==
    ASSUME IInv, NEW i \in Orders, NEW j \in Couriers, Bid(i, j)
    PROVE  /\ prices'[j] \in Int /\ prices'[j] >= prices[j] + Epsilon
           /\ \A k \in Couriers \ {j} :
                 /\ prices'[k] = prices[k]
                 /\ NetValue(i, k) <= -cost[i][j] - prices'[j] + Epsilon
<1>1. /\ \A k \in Couriers : cost[i][k] \in Int /\ prices[k] \in Int /\ NetValue(i, k) \in Int
      /\ Epsilon \in Nat /\ INFINITY_COST \in Nat
  BY IntegerValues DEF IInv
<1>2. PICK second \in {-INFINITY_COST} \union {NetValue(i, k) : k \in Couriers} :
        /\ IsSecondBestValue(i, j, second)
        /\ prices' = [prices EXCEPT ![j] = -cost[i][j] - second + Epsilon]
  BY DEF Bid
<1>3. second \in Int
  BY <1>1, <1>2
<1>4. prices'[j] = -cost[i][j] - second + Epsilon
      /\ \A k \in Couriers \ {j} : prices'[k] = prices[k]
  BY <1>2 DEF IInv, TypeOK
<1>5. NetValue(i, j) > -INFINITY_COST /\ \A k \in Couriers : NetValue(i, k) <= NetValue(i, j)
  BY DEF Bid, IsBest
<1>6. second <= NetValue(i, j)
  BY <1>1, <1>2, <1>3, <1>5 DEF IsSecondBestValue
<1>7. \A k \in Couriers \ {j} : NetValue(i, k) <= second
  BY <1>2 DEF IsSecondBestValue
<1>8. prices'[j] \in Int /\ prices'[j] >= prices[j] + Epsilon
  BY <1>1, <1>3, <1>4, <1>6 DEF NetValue
<1>9. \A k \in Couriers \ {j} : NetValue(i, k) <= -cost[i][j] - prices'[j] + Epsilon
  BY <1>1, <1>3, <1>4, <1>7
<1>10. QED
  BY <1>4, <1>8, <1>9

\* A bid preserves every part of the invariant.
LEMMA BidIInv ==
    ASSUME IInv, NEW i \in Orders, NEW j \in Couriers, Bid(i, j)
    PROVE  IInv'
<1> DEFINE prev == courier_to_order[j]
<1>1. /\ \A o \in Orders, k \in Couriers : cost[o][k] \in Int
      /\ \A k \in Couriers : prices[k] \in Int
      /\ Epsilon \in Nat \ {0} /\ INFINITY_COST \in Nat
      /\ Nobody \notin Couriers /\ Nobody \notin Orders
  BY IntegerValues, AuctionAssumption DEF IInv
<1>2. /\ prices'[j] \in Int /\ prices'[j] >= prices[j] + Epsilon
      /\ \A k \in Couriers \ {j} :
            /\ prices'[k] = prices[k]
            /\ NetValue(i, k) <= -cost[i][j] - prices'[j] + Epsilon
  BY BidPrice
<1>3. /\ \A o \in Orders : assignment'[o] =
            IF o = i THEN j ELSE IF o = prev THEN Nobody ELSE assignment[o]
      /\ courier_to_order'[j] = i
      /\ \A k \in Couriers \ {j} : courier_to_order'[k] = courier_to_order[k]
      /\ cost' = cost
  BY DEF Bid, Processed, IInv, TypeOK
<1>4. assignment[i] = Nobody /\ i \in unassigned /\ unassigned \subseteq Unassigned
  BY DEF Bid, IsNext, IInv, RoundIsCurrent, Unassigned
<1>5. TypeOK'
  <2>1. prices' \in [Couriers -> Int]
    <3>1. prices' = [prices EXCEPT ![j] = prices'[j]]
      BY DEF Bid, IInv, TypeOK
    <3>2. QED
      BY <3>1, <1>2 DEF IInv, TypeOK
  <2>2. QED
    BY <2>1 DEF Bid, Processed, IInv, TypeOK
<1>6. AssignmentsAreMutual'
  BY <1>1, <1>3, <1>4 DEF IInv, TypeOK, AssignmentsAreMutual
<1>7. RoundIsCurrent'
  <2>1. unassigned' = unassigned \ {i}
    BY DEF Bid, Processed
  <2>2. \A o \in unassigned' : o \in Orders /\ assignment'[o] = Nobody
    BY <2>1, <1>3, <1>4 DEF Unassigned
  <2>3. (unassigned' = {}) = (pc' # "bid")
    BY <1>4, <2>1 DEF Bid, Processed
  <2>4. QED
    BY <2>2, <2>3 DEF RoundIsCurrent, Unassigned
<1>8. FreeCouriersAreFree'
  BY <1>1, <1>2, <1>3 DEF IInv, FreeCouriersAreFree
<1>9. AssignedPairsAreFeasible'
  <2>1. cost[i][j] < INFINITY_COST
    BY <1>1 DEF Bid, NetValue, IInv, FreeCouriersAreFree
  <2>2. QED
    BY <2>1, <1>3 DEF IInv, AssignedPairsAreFeasible
<1>10. EpsilonSlackness'
  <2>1. \A o \in Orders, h \in Couriers :
            NetValue(o, h)' = -cost[o][h] - prices'[h] /\ NetValue(o, h) = -cost[o][h] - prices[h]
    BY <1>3 DEF NetValue
  <2>2. ASSUME NEW o \in Orders, assignment'[o] # Nobody, NEW k \in Couriers
        PROVE  -cost[o][k] - prices'[k]
                 <= -cost[o][assignment'[o]] - prices'[assignment'[o]] + Epsilon
    <3>1. CASE o = i
      <4>1. assignment'[o] = j
        BY <1>3, <3>1
      <4>2. /\ cost[i][k] \in Int /\ cost[i][j] \in Int /\ prices'[j] \in Int
            /\ Epsilon \in Nat /\ prices[k] \in Int
        BY <1>1, <1>2
      <4>3. CASE k = j
        BY <4>1, <4>2, <4>3, <3>1
      <4>4. CASE k # j
        <5>1. prices'[k] = prices[k] /\ NetValue(i, k) <= -cost[i][j] - prices'[j] + Epsilon
          BY <1>2, <4>4
        <5>2. QED
          BY <5>1, <2>1, <4>1, <4>2, <3>1
      <4>5. QED
        BY <4>3, <4>4
    <3>2. CASE o # i
      <4>1. assignment'[o] = assignment[o] /\ assignment[o] # Nobody /\ assignment[o] \in Couriers
        BY <1>3, <3>2, <2>2 DEF IInv, TypeOK
      <4>2. assignment[o] # j
        BY <1>3, <2>2, <3>2, <4>1 DEF IInv, AssignmentsAreMutual
      <4> DEFINE h == assignment[o]
      <4>3. prices'[h] = prices[h]
        BY <1>2, <4>1, <4>2
      <4>4. prices'[k] \in Int /\ prices'[k] >= prices[k]
        BY <1>1, <1>2
      <4>5. -cost[o][k] - prices[k] <= -cost[o][h] - prices[h] + Epsilon
        BY <4>1, <2>1 DEF IInv, EpsilonSlackness
      <4>6. /\ cost[o][k] \in Int /\ cost[o][h] \in Int /\ prices[k] \in Int /\ prices[h] \in Int
            /\ Epsilon \in Nat
        BY <1>1, <4>1
      <4>7. -cost[o][k] - prices'[k] <= -cost[o][h] - prices'[h] + Epsilon
        <5> HIDE DEF h
        <5>1. QED
          BY <4>3, <4>4, <4>5, <4>6
      <4>8. QED
        BY <4>1, <4>7
    <3>3. QED
      BY <3>1, <3>2
  <2>3. \A o \in Orders : assignment'[o] # Nobody => assignment'[o] \in Couriers
    BY <1>5 DEF TypeOK
  <2>4. QED
    BY <2>1, <2>2, <2>3 DEF EpsilonSlackness
<1>11. QED
  BY <1>5, <1>6, <1>7, <1>8, <1>9, <1>10 DEF IInv

LEMMA InitIInv == Init => IInv
<1> SUFFICES ASSUME Init PROVE IInv
  OBVIOUS
<1>1. TypeOK
  BY AuctionAssumption DEF Init, TypeOK
<1>2. QED
  BY <1>1, AuctionAssumption
  DEF Init, IInv, AssignmentsAreMutual, RoundIsCurrent, FreeCouriersAreFree,
      AssignedPairsAreFeasible, EpsilonSlackness, Unassigned

LEMMA NextIInv == IInv /\ [Next]_vars => IInv'
<1> SUFFICES ASSUME IInv, [Next]_vars PROVE IInv'
  OBVIOUS
<1> USE DEF IInv
\* What depends only on the matrix, the prices and the two arrays.
<1>1. ASSUME UNCHANGED <<cost, prices, assignment, courier_to_order>>
      PROVE  /\ AssignmentsAreMutual' /\ FreeCouriersAreFree' /\ AssignedPairsAreFeasible'
             /\ EpsilonSlackness' /\ Unassigned' = Unassigned
  BY <1>1 DEF AssignmentsAreMutual, FreeCouriersAreFree, AssignedPairsAreFeasible,
              EpsilonSlackness, NetValue, Unassigned
<1>2. CASE UNCHANGED vars
  BY <1>1, <1>2 DEF vars, TypeOK, RoundIsCurrent
<1>3. CASE BeginRound
  <2>1. TypeOK'
    BY <1>3, AuctionAssumption DEF BeginRound, TypeOK, Unassigned
  <2>2. QED
    BY <2>1, <1>1, <1>3 DEF BeginRound, RoundIsCurrent
<1>4. CASE Stop
  BY <1>1, <1>4 DEF Stop, TypeOK, RoundIsCurrent
<1>5. ASSUME NEW i \in Orders, Skip(i) PROVE IInv'
  <2>1. i \in unassigned /\ unassigned' = unassigned \ {i}
        /\ pc' = IF unassigned = {i} THEN "round" ELSE "bid"
    BY <1>5 DEF Skip, Processed, IsNext
  <2>2. TypeOK'
    BY <2>1, <1>5 DEF Skip, Processed, TypeOK
  <2>3. RoundIsCurrent'
    BY <2>1, <1>1, <1>5 DEF Skip, Processed, RoundIsCurrent
  <2>4. QED
    BY <2>2, <2>3, <1>1, <1>5 DEF Skip, Processed
<1>6. ASSUME NEW i \in Orders, NEW j \in Couriers, Bid(i, j) PROVE IInv'
  BY <1>6, BidIInv
<1>7. QED
  BY <1>2, <1>3, <1>4, <1>5, <1>6 DEF Next

\* The arrays stay inverse, an assigned pair is feasible and epsilon-optimal at
\* today's prices, and an untaken courier costs nothing, after any number of
\* bids on any matrix.
THEOREM Invariance == Spec => []IInv
<1>1. QED
  BY InitIInv, NextIInv, PTL DEF Spec

\* No courier is ever promised to two orders.
THEOREM MutualAssignment == Spec => []AssignmentsAreMutual
<1>1. IInv => AssignmentsAreMutual
  BY DEF IInv
<1>2. QED
  BY <1>1, Invariance, PTL

\* An assigned order has its best courier within epsilon at current prices.
THEOREM EpsilonOptimality == Spec => []EpsilonSlackness
<1>1. IInv => EpsilonSlackness
  BY DEF IInv
<1>2. QED
  BY <1>1, Invariance, PTL

\* A bid raises one price by at least epsilon and no step lowers one.
THEOREM RisingPrices == Spec => PricesOnlyRise
<1>1. IInv /\ [Next]_vars => [PricesRise]_vars
  <2> SUFFICES ASSUME IInv, Next PROVE PricesRise
    OBVIOUS
  <2>1. ASSUME NEW i \in Orders, NEW j \in Couriers, Bid(i, j) PROVE PricesRise
    BY <2>1, BidPrice DEF PricesRise
  <2>2. QED
    BY <2>1 DEF Next, BeginRound, Stop, Skip, PricesRise
<1>2. QED
  BY <1>1, Invariance, PTL DEF Spec, PricesOnlyRise

\* An order is passed over only while all couriers feasible for it are taken.
THEOREM PassedOver == Spec => EmptyHandedOnlyIfTaken
<1>1. IInv /\ [Next]_vars => [PassedOverOnlyIfTaken]_vars
  <2> SUFFICES ASSUME IInv, Next, NEW i \in Orders, LeavesEmptyHanded(i),
                      NEW j \in Couriers, cost[i][j] < INFINITY_COST
               PROVE  courier_to_order'[j] # Nobody
    BY DEF PassedOverOnlyIfTaken, AllFeasibleTaken
  <2>1. ASSUME BeginRound PROVE FALSE
    BY <2>1 DEF BeginRound, LeavesEmptyHanded, IInv, RoundIsCurrent
  <2>2. ASSUME Stop PROVE FALSE
    BY <2>2 DEF Stop, LeavesEmptyHanded
  <2>3. ASSUME NEW k \in Orders, NEW h \in Couriers, Bid(k, h) PROVE FALSE
    BY <2>3, AuctionAssumption DEF Bid, Processed, LeavesEmptyHanded
  <2>4. ASSUME NEW k \in Orders, Skip(k) PROVE courier_to_order[j] # Nobody
    <3>1. k = i
      BY <2>4 DEF Skip, Processed, LeavesEmptyHanded
    <3>2. PICK h \in Couriers : IsBest(i, h) /\ NetValue(i, h) <= -INFINITY_COST
      BY <2>4, <3>1 DEF Skip
    <3>3. NetValue(i, j) <= NetValue(i, h)
      BY <3>2 DEF IsBest
    <3>4. /\ cost[i][j] \in Int /\ prices[j] \in Int /\ INFINITY_COST \in Int
          /\ NetValue(i, j) \in Int /\ NetValue(i, h) \in Int
      BY IntegerValues DEF IInv
    <3>5. NetValue(i, j) = -cost[i][j] - prices[j]
      BY DEF NetValue
    <3>6. prices[j] # 0
      BY <3>2, <3>3, <3>4, <3>5
    <3>7. QED
      BY <3>6 DEF IInv, FreeCouriersAreFree
  <2>5. QED
    BY <2>1, <2>2, <2>3, <2>4 DEF Next, Skip
<1>2. QED
  BY <1>1, Invariance, PTL DEF Spec, EmptyHandedOnlyIfTaken

-----------------------------------------------------------------------------
(* Finite sets and the sums over them. *)

\* Induction over the subsets of a finite set: what holds of a set if it holds of all
\* that are smaller holds of all.
LEMMA SubsetInduction ==
    ASSUME NEW S, IsFiniteSet(S), NEW P,
           \A T \in SUBSET S : (\A U \in SUBSET T : U # T => U \in P) => T \in P
    PROVE  S \in P
<1> DEFINE Bad == (SUBSET S) \ P
           R == StrictSubsetOrdering(S)
<1> SUFFICES ASSUME Bad # {} PROVE FALSE
  OBVIOUS
<1>1. IsWellFoundedOn(R, FiniteSubsetsOf(S)) /\ Bad \subseteq FiniteSubsetsOf(S)
  BY FS_StrictSubsetOrderingWellFounded, FS_FiniteSubsetsOfFinite
<1>2. PICK T \in Bad : \A U \in Bad : <<U, T>> \notin R
  <2> HIDE DEF Bad, R
  <2>1. QED
    BY <1>1, WFMin
<1>3. ASSUME NEW U \in SUBSET T, U # T PROVE U \in P
  <2>1. <<U, T>> \in R
    BY <1>3 DEF StrictSubsetOrdering
  <2>2. QED
    BY <1>2, <1>3, <2>1
<1>4. QED
  BY <1>2, <1>3

Pick(T) == CHOOSE x \in T : TRUE

\* g sums f over every subset of S, as the fold does, element by element.
Sums(f, S, g) ==
    g = [T \in SUBSET S |-> IF T = {} THEN 0 ELSE f[Pick(T)] + g[T \ {Pick(T)}]]

LEMMA SumIsFold ==
    ASSUME NEW f, NEW S
    PROVE  SumFunctionOnSet(f, S) = (CHOOSE g : Sums(f, S, g))[S]
  BY DEF SumFunctionOnSet, FoldFunctionOnSet, MapThenFoldSet, Sums, Pick

LEMMA PickIn ==
    ASSUME NEW T, T # {} PROVE Pick(T) \in T
  BY DEF Pick

\* Two such functions agree where both are defined.
LEMMA SumsAgree ==
    ASSUME NEW f, NEW S, IsFiniteSet(S), NEW V, S \subseteq V,
           NEW g, Sums(f, S, g), NEW h, Sums(f, V, h)
    PROVE  g[S] = h[S]
<1> DEFINE P == {T \in SUBSET S : g[T] = h[T]}
<1>1. ASSUME NEW T \in SUBSET S, \A W \in SUBSET T : W # T => W \in P PROVE T \in P
  <2>1. T \in SUBSET S /\ T \in SUBSET V
    OBVIOUS
  <2>2. /\ g[T] = IF T = {} THEN 0 ELSE f[Pick(T)] + g[T \ {Pick(T)}]
        /\ h[T] = IF T = {} THEN 0 ELSE f[Pick(T)] + h[T \ {Pick(T)}]
    BY <2>1 DEF Sums
  <2>3. T # {} => g[T \ {Pick(T)}] = h[T \ {Pick(T)}]
    BY <1>1, PickIn
  <2>4. QED
    BY <2>2, <2>3
<1> HIDE DEF P
<1>2. S \in P
  BY <1>1, SubsetInduction
<1>3. QED
  BY <1>2 DEF P

\* There is such a function for every finite set.
LEMMA SumsExist ==
    ASSUME NEW S, IsFiniteSet(S), NEW f
    PROVE  \E g : Sums(f, S, g)
<1> DEFINE P == {T \in SUBSET S : \E g : Sums(f, T, g)}
<1>1. ASSUME NEW T \in SUBSET S, \A W \in SUBSET T : W # T => W \in P PROVE T \in P
  <2> DEFINE G(W) == CHOOSE g : Sums(f, W, g)
             Rest(W) == W \ {Pick(W)}
             First(W) == IF W = {} THEN 0 ELSE f[Pick(W)] + G(Rest(W))[Rest(W)]
             k == [W \in SUBSET T |-> First(W)]
  <2>1. ASSUME NEW W \in SUBSET T, W # T PROVE Sums(f, W, G(W))
    BY <1>1, <2>1
  <2>2. ASSUME NEW W \in SUBSET T, W # {}
        PROVE  Rest(W) \in SUBSET T /\ Rest(W) \in SUBSET W /\ Rest(W) # T /\ IsFiniteSet(Rest(W))
    <3>1. Pick(W) \in W
      BY <2>2, PickIn
    <3>2. Rest(W) \in SUBSET S
      OBVIOUS
    <3>3. QED
      BY <3>1, <3>2, FS_Subset
  <2>3. ASSUME NEW W \in SUBSET T, W # T PROVE First(W) = G(W)[W]
    <3> HIDE DEF G
    <3>1. G(W)[W] = IF W = {} THEN 0 ELSE f[Pick(W)] + G(W)[Rest(W)]
      <4> DEFINE g == G(W)
      <4>1. Sums(f, W, g)
        BY <2>1, <2>3
      <4> HIDE DEF g
      <4>2. g[W] = IF W = {} THEN 0 ELSE f[Pick(W)] + g[Rest(W)]
        BY <4>1 DEF Sums
      <4>3. QED
        BY <4>2 DEF g
    <3>2. ASSUME W # {} PROVE G(W)[Rest(W)] = G(Rest(W))[Rest(W)]
      <4> DEFINE r == Rest(W)
                 a == G(W)
                 b == G(r)
      <4>1. r \subseteq W /\ IsFiniteSet(r)
        BY <2>2, <3>2
      <4>2. Sums(f, W, a) /\ Sums(f, r, b)
        BY <2>1, <2>2, <2>3, <3>2
      <4> HIDE DEF r, a, b
      <4>3. b[r] = a[r]
        BY ONLY <4>1, <4>2, SumsAgree
      <4>4. QED
        BY <4>3 DEF a, b, r
    <3>3. QED
      BY <3>1, <3>2
  <2>4. Sums(f, T, k)
    <3> DEFINE Unfolded(W) == IF W = {} THEN 0 ELSE f[Pick(W)] + k[Rest(W)]
    <3>1. ASSUME NEW W \in SUBSET T PROVE First(W) = Unfolded(W)
      <4>1. CASE W = {}
        BY <4>1
      <4>2. CASE W # {}
        <5>1. Rest(W) \in SUBSET T /\ Rest(W) # T
          BY <2>2, <4>2
        <5>2. k[Rest(W)] = First(Rest(W)) /\ First(Rest(W)) = G(Rest(W))[Rest(W)]
          <6> HIDE DEF First, Rest, G
          <6>1. QED
            BY <5>1, <2>3
        <5> HIDE DEF k, G
        <5>3. QED
          BY <4>2, <5>2
      <4>3. QED
        BY <4>1, <4>2
    <3>2. k = [W \in SUBSET T |-> Unfolded(W)]
      <4>1. k = [W \in SUBSET T |-> First(W)]
        OBVIOUS
      <4> HIDE DEF k, First, Unfolded
      <4>2. QED
        BY <3>1, <4>1
    <3> HIDE DEF k
    <3>3. QED
      BY <3>2 DEF Sums
  <2>5. QED
    BY <2>4
<1> HIDE DEF P
<1>2. S \in P
  BY <1>1, SubsetInduction
<1>3. QED
  BY <1>2 DEF P

\* The sum of a finite set, by the element that the fold takes first.
LEMMA SumUnfolds ==
    ASSUME NEW S, IsFiniteSet(S), NEW f
    PROVE  SumFunctionOnSet(f, S) =
             IF S = {} THEN 0 ELSE f[Pick(S)] + SumFunctionOnSet(f, S \ {Pick(S)})
<1> DEFINE T == S \ {Pick(S)}
           g == CHOOSE x : Sums(f, S, x)
           h == CHOOSE x : Sums(f, T, x)
<1>1. IsFiniteSet(T) /\ T \subseteq S
  BY FS_Subset
<1>2. Sums(f, S, g) /\ Sums(f, T, h)
  BY <1>1, SumsExist
<1>3. SumFunctionOnSet(f, S) = g[S] /\ SumFunctionOnSet(f, T) = h[T]
  BY SumIsFold
<1> HIDE DEF g, h
<1>4. g[T] = h[T]
  BY <1>1, <1>2, SumsAgree
<1>5. g[S] = IF S = {} THEN 0 ELSE f[Pick(S)] + g[T]
  BY <1>2 DEF Sums
<1>6. QED
  BY <1>3, <1>4, <1>5

\* A sum of integers is one, and any element may be taken first.
LEMMA SumTakes ==
    ASSUME NEW S, IsFiniteSet(S), NEW f, \A x \in S : f[x] \in Int
    PROVE  /\ SumFunctionOnSet(f, S) \in Int
           /\ S = {} => SumFunctionOnSet(f, S) = 0
           /\ \A x \in S : SumFunctionOnSet(f, S) = f[x] + SumFunctionOnSet(f, S \ {x})
<1> DEFINE Sum(T) == SumFunctionOnSet(f, T)
           P == {T \in SUBSET S : Sum(T) \in Int /\ \A x \in T : Sum(T) = f[x] + Sum(T \ {x})}
<1>1. ASSUME NEW T \in SUBSET S, \A W \in SUBSET T : W # T => W \in P PROVE T \in P
  <2>1. IsFiniteSet(T)
    BY FS_Subset
  <2>2. Sum(T) = IF T = {} THEN 0 ELSE f[Pick(T)] + Sum(T \ {Pick(T)})
    BY <2>1, SumUnfolds
  <2> DEFINE y == Pick(T)
  <2> HIDE DEF Sum
  <2>3. CASE T = {}
    BY <2>2, <2>3
  <2>4. CASE T # {}
    <3>1. y \in T
      BY <2>4, PickIn
    <3> HIDE DEF y
    <3>2. T \ {y} \in P /\ f[y] \in Int /\ Sum(T) = f[y] + Sum(T \ {y})
      BY <1>1, <2>2, <2>4, <3>1 DEF y
    <3>3. Sum(T) \in Int
      BY <3>2
    <3>4. ASSUME NEW x \in T PROVE Sum(T) = f[x] + Sum(T \ {x})
      <4>1. CASE x = y
        BY <3>2, <4>1
      <4>2. CASE x # y
        <5>1. T \ {x} \in P /\ f[x] \in Int
          BY <1>1
        <5>2. x \in T \ {y} /\ y \in T \ {x} /\ (T \ {x}) \ {y} = (T \ {y}) \ {x}
          BY <3>1, <4>2
        <5>3. (T \ {y}) \ {x} \in P
          <6>1. (T \ {y}) \ {x} \in SUBSET T /\ (T \ {y}) \ {x} # T
            BY <3>1
          <6>2. QED
            BY <1>1, <6>1
        <5>4. /\ Sum(T \ {y}) = f[x] + Sum((T \ {y}) \ {x})
              /\ Sum(T \ {x}) = f[y] + Sum((T \ {y}) \ {x})
              /\ Sum((T \ {y}) \ {x}) \in Int
          BY <3>2, <5>1, <5>2, <5>3
        <5>5. QED
          BY <3>2, <5>1, <5>4
      <4>3. QED
        BY <4>1, <4>2
    <3>5. QED
      BY <3>3, <3>4
  <2>5. QED
    BY <2>3, <2>4
<1>2. S \in P
  <2> HIDE DEF P
  <2>1. QED
    BY <1>1, SubsetInduction
<1>3. S = {} => Sum(S) = 0
  BY SumUnfolds
<1>4. QED
  BY <1>2, <1>3
\* Sums keep an inequality that holds element by element, with a slack of c for each.
LEMMA SumsCompare ==
    ASSUME NEW S, IsFiniteSet(S), NEW c \in Int, NEW f, NEW g, NEW h, NEW k,
           \A x \in S : f[x] \in Int /\ g[x] \in Int /\ h[x] \in Int /\ k[x] \in Int,
           \A x \in S : f[x] + g[x] <= h[x] + k[x] + c
    PROVE  SumFunctionOnSet(f, S) + SumFunctionOnSet(g, S) <=
             SumFunctionOnSet(h, S) + SumFunctionOnSet(k, S) + Cardinality(S) * c
<1> DEFINE Holds(T) == SumFunctionOnSet(f, T) + SumFunctionOnSet(g, T) <=
                       SumFunctionOnSet(h, T) + SumFunctionOnSet(k, T) + Cardinality(T) * c
           P == {T \in SUBSET S : Holds(T)}
<1>1. ASSUME NEW T \in SUBSET S, \A W \in SUBSET T : W # T => W \in P PROVE T \in P
  <2>0. IsFiniteSet(T)
    BY FS_Subset
  <2>1. CASE T = {}
    <3>1. Cardinality(T) * c = 0
      BY <2>1, FS_EmptySet
    <3>2. QED
      BY <2>0, <2>1, <3>1, SumTakes
  <2>2. CASE T # {}
    <3>1. PICK x \in T : TRUE
      BY <2>2
    <3> DEFINE U == T \ {x}
               n == Cardinality(U)
    <3>2. IsFiniteSet(U) /\ U \in P
      BY <1>1, <2>0, FS_Subset
    <3>3. n \in Nat /\ Cardinality(T) = n + 1
      BY <2>0, <3>2, FS_CardinalityType, FS_RemoveElement
    <3>4. (n + 1) * c = n * c + c /\ n * c \in Int
      <4> HIDE DEF n
      <4>1. QED
        BY <3>3
    <3>5. /\ SumFunctionOnSet(f, T) = f[x] + SumFunctionOnSet(f, U)
          /\ SumFunctionOnSet(g, T) = g[x] + SumFunctionOnSet(g, U)
          /\ SumFunctionOnSet(h, T) = h[x] + SumFunctionOnSet(h, U)
          /\ SumFunctionOnSet(k, T) = k[x] + SumFunctionOnSet(k, U)
      BY <2>0, SumTakes
    <3>6. /\ SumFunctionOnSet(f, U) \in Int
          /\ SumFunctionOnSet(g, U) \in Int
          /\ SumFunctionOnSet(h, U) \in Int
          /\ SumFunctionOnSet(k, U) \in Int
      BY <3>2, SumTakes
    <3>7. Holds(U)
      BY <3>2
    <3> DEFINE y == n * c
    <3> HIDE DEF n, U, P
    <3>8. SumFunctionOnSet(f, U) + SumFunctionOnSet(g, U) <=
            SumFunctionOnSet(h, U) + SumFunctionOnSet(k, U) + y
      BY <3>7 DEF n
    <3>9. Cardinality(T) * c = y + c /\ y \in Int
      BY <3>3, <3>4
    <3> HIDE DEF y
    <3>10. f[x] + g[x] <= h[x] + k[x] + c /\ f[x] \in Int /\ g[x] \in Int /\ h[x] \in Int /\ k[x] \in Int
      BY <3>1
    <3>11. Holds(T)
      BY <3>5, <3>6, <3>8, <3>9, <3>10
    <3>12. QED
      BY <3>11 DEF P
  <2>3. QED
    BY <2>1, <2>2
<1> HIDE DEF P
<1>2. S \in P
  BY <1>1, SubsetInduction
<1>3. QED
  BY <1>2 DEF P

\* More summands, none of them negative, make no smaller a sum, and the same one if
\* they are all zero.
LEMMA SumOfMore ==
    ASSUME NEW T, IsFiniteSet(T), NEW S \in SUBSET T, NEW f,
           \A x \in T : f[x] \in Int, \A x \in T \ S : f[x] >= 0
    PROVE  /\ SumFunctionOnSet(f, S) <= SumFunctionOnSet(f, T)
           /\ (\A x \in T \ S : f[x] = 0) => SumFunctionOnSet(f, S) = SumFunctionOnSet(f, T)
<1> DEFINE Sum(W) == SumFunctionOnSet(f, W)
           Holds(W) == /\ Sum(S \intersect W) <= Sum(W)
                       /\ (\A x \in T \ S : f[x] = 0) => Sum(S \intersect W) = Sum(W)
           P == {W \in SUBSET T : Holds(W)}
<1>1. ASSUME NEW W \in SUBSET T, \A U \in SUBSET W : U # W => U \in P PROVE W \in P
  <2>1. IsFiniteSet(W) /\ IsFiniteSet(S \intersect W)
    BY FS_Subset
  <2>2. Sum(W) \in Int /\ Sum(S \intersect W) \in Int
    BY <2>1, SumTakes
  <2>3. CASE W \subseteq S
    <3>1. S \intersect W = W
      BY <2>3
    <3> HIDE DEF Sum
    <3>2. QED
      BY <2>2, <3>1, SMTT(20)
  <2>4. CASE \E x \in W : x \notin S
    <3>1. PICK x \in W : x \notin S
      BY <2>4
    <3>2. W \ {x} \in P /\ S \intersect (W \ {x}) = S \intersect W
      BY <1>1, <3>1
    <3>3. Sum(W) = f[x] + Sum(W \ {x})
      BY <2>1, SumTakes
    <3>4. f[x] \in Int /\ f[x] >= 0 /\ ((\A z \in T \ S : f[z] = 0) => f[x] = 0)
      BY <3>1
    <3>5. Sum(W \ {x}) \in Int
      BY <2>1, FS_Subset, SumTakes
    <3>6. /\ Sum(S \intersect W) <= Sum(W \ {x})
          /\ (\A z \in T \ S : f[z] = 0) => Sum(S \intersect W) = Sum(W \ {x})
      BY <3>2
    <3> HIDE DEF Sum
    <3>7. QED
      BY <2>2, <3>3, <3>4, <3>5, <3>6
  <2>5. QED
    BY <2>3, <2>4
<1>2. T \in P
  <2> HIDE DEF P
  <2>1. QED
    BY <1>1, SubsetInduction
<1>3. S \intersect T = S
  OBVIOUS
<1> HIDE DEF Sum
<1>4. Holds(T)
  BY <1>2
<1>5. QED
  BY <1>3, <1>4 DEF Sum

\* A sum of zeros is zero; the sum of what adds up to c for each element is the sum of
\* as many c; equal functions have equal sums.
LEMMA SumsAddUp ==
    ASSUME NEW S, IsFiniteSet(S), NEW c \in Int, NEW f, NEW g,
           \A x \in S : f[x] \in Int /\ g[x] \in Int /\ f[x] + g[x] = c
    PROVE  SumFunctionOnSet(f, S) + SumFunctionOnSet(g, S) = Cardinality(S) * c
<1> DEFINE zero == [x \in S |-> 0]
           n == Cardinality(S)
           F == SumFunctionOnSet(f, S)
           G == SumFunctionOnSet(g, S)
           Z == SumFunctionOnSet(zero, S)
<1>1. \A x \in S : zero[x] = 0
  OBVIOUS
<1> HIDE DEF zero
<1>2. Z = 0
  <2>1. SumFunctionOnSet(zero, {}) = 0
    BY FS_EmptySet, SumTakes
  <2>2. QED
    BY <1>1, <2>1, SumOfMore
<1>3. n \in Nat
  BY FS_CardinalityType
<1>4. F \in Int /\ G \in Int
  BY SumTakes
<1>5. F + G <= Z + Z + n * c
  <2>1. \A x \in S : f[x] \in Int /\ g[x] \in Int /\ zero[x] \in Int /\ zero[x] \in Int
    BY <1>1
  <2>2. \A x \in S : f[x] + g[x] <= zero[x] + zero[x] + c
    BY <1>1
  <2>3. IsFiniteSet(S) /\ c \in Int
    OBVIOUS
  <2>4. QED
    BY ONLY <2>1, <2>2, <2>3, SumsCompare
<1>6. Z + Z <= F + G + n * (-c)
  <2>1. \A x \in S : zero[x] \in Int /\ zero[x] \in Int /\ f[x] \in Int /\ g[x] \in Int
    BY <1>1
  <2>2. \A x \in S : zero[x] + zero[x] <= f[x] + g[x] + (-c)
    BY <1>1
  <2>3. IsFiniteSet(S) /\ -c \in Int
    OBVIOUS
  <2>4. QED
    BY ONLY <2>1, <2>2, <2>3, SumsCompare
<1>7. n * (-c) = -(n * c) /\ n * c \in Int
  <2> HIDE DEF n
  <2>1. QED
    BY <1>3
<1> DEFINE y == n * c
<1> HIDE DEF F, G, Z, n, y
<1>8. F + G <= Z + Z + y /\ Z + Z <= F + G - y /\ y \in Int
  BY <1>4, <1>5, <1>6, <1>7, <1>2 DEF y
<1>9. F + G = y
  BY <1>2, <1>4, <1>8
<1>10. QED
  BY <1>9 DEF F, G, y, n

LEMMA SumsEqual ==
    ASSUME NEW S, IsFiniteSet(S), NEW f, NEW g, \A x \in S : f[x] \in Int /\ f[x] = g[x]
    PROVE  SumFunctionOnSet(f, S) = SumFunctionOnSet(g, S)
<1> DEFINE h == [x \in S |-> -f[x]]
<1>1. \A x \in S : f[x] \in Int /\ h[x] \in Int /\ f[x] + h[x] = 0
  OBVIOUS
<1>2. \A x \in S : g[x] \in Int /\ h[x] \in Int /\ g[x] + h[x] = 0
  OBVIOUS
<1> HIDE DEF h
<1>3. SumFunctionOnSet(f, S) + SumFunctionOnSet(h, S) = Cardinality(S) * 0
  BY <1>1, SumsAddUp
<1>4. SumFunctionOnSet(g, S) + SumFunctionOnSet(h, S) = Cardinality(S) * 0
  BY <1>2, SumsAddUp
<1>5. SumFunctionOnSet(f, S) \in Int /\ SumFunctionOnSet(g, S) \in Int
      /\ SumFunctionOnSet(h, S) \in Int
  BY <1>1, <1>2, SumTakes
<1>6. QED
  BY <1>3, <1>4, <1>5

\* The images of a finite set under a function are finitely many; under an injection,
\* as many as the set has elements.
LEMMA Images ==
    ASSUME NEW S, IsFiniteSet(S), NEW e
    PROVE  LET E == {e[x] : x \in S} IN
           /\ IsFiniteSet(E)
           /\ Cardinality(E) <= Cardinality(S)
           /\ (\A x, y \in S : e[x] = e[y] => x = y) => Cardinality(E) = Cardinality(S)
<1> DEFINE E == {e[x] : x \in S}
           h == [x \in S |-> e[x]]
<1>1. h \in Surjection(S, E)
  BY DEF Surjection
<1>2. (\A x, y \in S : e[x] = e[y] => x = y) => h \in Injection(S, E)
  BY DEF Injection, IsInjective
<1> HIDE DEF h, E
<1>3. IsFiniteSet(E) /\ Cardinality(E) <= Cardinality(S)
      /\ (Cardinality(E) = Cardinality(S) <=> h \in Injection(S, E))
  BY <1>1, FS_Surjection
<1>4. QED
  BY <1>2, <1>3 DEF E

\* Summing over the images under an injection is summing over the arguments.
LEMMA SumReindexed ==
    ASSUME NEW S, IsFiniteSet(S), NEW e, \A x, y \in S : e[x] = e[y] => x = y,
           NEW f, \A x \in S : f[e[x]] \in Int
    PROVE  SumFunctionOnSet(f, {e[x] : x \in S}) = SumFunctionOnSet([x \in S |-> f[e[x]]], S)
<1> DEFINE g == [x \in S |-> f[e[x]]]
           Image(T) == {e[x] : x \in T}
           P == {T \in SUBSET S : SumFunctionOnSet(f, Image(T)) = SumFunctionOnSet(g, T)}
<1>0. ASSUME NEW T \in SUBSET S PROVE IsFiniteSet(T) /\ IsFiniteSet(Image(T))
  <2>1. IsFiniteSet(T)
    BY FS_Subset
  <2>2. QED
    BY <2>1, Images
<1>1. ASSUME NEW T \in SUBSET S, \A W \in SUBSET T : W # T => W \in P PROVE T \in P
  <2>1. CASE T = {}
    <3>1. Image(T) = {}
      BY <2>1
    <3> HIDE DEF Image, g
    <3>2. SumFunctionOnSet(f, Image(T)) = 0 /\ SumFunctionOnSet(g, T) = 0
      BY <1>0, <2>1, <3>1, SumUnfolds
    <3>3. QED
      BY <3>2
  <2>2. CASE T # {}
    <3>1. PICK x \in T : TRUE
      BY <2>2
    <3> DEFINE U == T \ {x}
               E == Image(T)
    <3>2. Image(U) = E \ {e[x]} /\ e[x] \in E
      OBVIOUS
    <3>3. (\A y \in E : f[y] \in Int) /\ (\A y \in T : g[y] \in Int) /\ g[x] = f[e[x]]
      OBVIOUS
    <3>4. U \in P
      BY <1>1
    <3>5. IsFiniteSet(T) /\ IsFiniteSet(E)
      BY <1>0
    <3> HIDE DEF E, g
    <3>6. SumFunctionOnSet(f, E) = f[e[x]] + SumFunctionOnSet(f, E \ {e[x]})
      BY <3>2, <3>3, <3>5, SumTakes
    <3>7. SumFunctionOnSet(g, T) = g[x] + SumFunctionOnSet(g, U)
      BY <3>3, <3>5, SumTakes
    <3>8. SumFunctionOnSet(f, E \ {e[x]}) = SumFunctionOnSet(g, U)
      BY <3>2, <3>4
    <3>9. SumFunctionOnSet(f, E) = SumFunctionOnSet(g, T)
      BY <3>3, <3>6, <3>7, <3>8
    <3>10. QED
      BY <3>9 DEF E
  <2>3. QED
    BY <2>1, <2>2
<1> HIDE DEF P
<1>2. S \in P
  BY <1>1, SubsetInduction
<1>3. QED
  BY <1>2 DEF P

-----------------------------------------------------------------------------
(* How good the result is. *)

LEMMA OrdersAreFinite == IsFiniteSet(Orders) /\ Cardinality(Orders) = NOrders
  BY AuctionAssumption, FS_Interval DEF Orders

\* A matching of as many pairs as there are orders has a pair for every order.
LEMMA FullMatching ==
    ASSUME NEW M \in SUBSET (Orders \X Couriers), IsMatching(M), Cardinality(M) = NOrders
    PROVE  /\ IsFiniteSet(M)
           /\ \A i \in Orders : \E p \in M : p[1] = i
<1>1. IsFiniteSet(M)
  BY AuctionAssumption, OrdersAreFinite, FS_Product, FS_Subset
<1> DEFINE first == [p \in M |-> p[1]]
           E == {first[p] : p \in M}
<1>2. \A p, q \in M : first[p] = first[q] => p = q
  BY DEF IsMatching, Conflict
<1>3. E \in SUBSET Orders
  OBVIOUS
<1>4. Cardinality(E) = Cardinality(M)
  <2> HIDE DEF first
  <2>1. QED
    BY <1>1, <1>2, Images
<1>5. E = Orders
  <2> HIDE DEF E
  <2>1. QED
    BY <1>3, <1>4, OrdersAreFinite, FS_Subset
<1>6. QED
  BY <1>1, <1>5

\* Slackness, summed over the orders: what a full assignment of the auction costs,
\* with the prices of its couriers, exceeds no other's by more than epsilon an order;
\* and the couriers that the other leaves out have prices of zero at least.
LEMMA SlacknessSumsUp ==
    ASSUME IInv, Unassigned = {},
           NEW M \in FeasibleMatchings(Orders, Couriers), Cardinality(M) = NOrders
    PROVE  TotalCost(Solution) <= TotalCost(M) + NOrders * Epsilon
<1>1. /\ \A o \in Orders, k \in Couriers : cost[o][k] \in Int
      /\ \A k \in Couriers : prices[k] \in Int
      /\ Epsilon \in Nat \ {0}
  BY IntegerValues DEF IInv
<1>2. \A i \in Orders : assignment[i] \in Couriers /\ courier_to_order[assignment[i]] = i
                        /\ cost[i][assignment[i]] < INFINITY_COST
  BY AuctionAssumption
     DEF Unassigned, IInv, TypeOK, AssignmentsAreMutual, AssignedPairsAreFeasible
<1>3. /\ M \in SUBSET (Orders \X Couriers)
      /\ \A p, q \in M : p[1] = q[1] \/ p[2] = q[2] => p = q
      /\ IsFiniteSet(M) /\ \A i \in Orders : \E p \in M : p[1] = i
  BY FullMatching DEF FeasibleMatchings, FeasiblePairs, IsMatching, Conflict
<1> DEFINE served == [p \in M |-> <<p[1], assignment[p[1]]>>]
           taken == [p \in M |-> assignment[p[1]]]
           chosen == [p \in M |-> p[2]]
           cost1 == [p \in M |-> PairCost[served[p]]]
           price1 == [p \in M |-> prices[taken[p]]]
           price2 == [p \in M |-> prices[chosen[p]]]
<1>4. /\ \A p, q \in M : served[p] = served[q] => p = q
      /\ \A p, q \in M : taken[p] = taken[q] => p = q
      /\ \A p, q \in M : chosen[p] = chosen[q] => p = q
  BY <1>2, <1>3
<1>5. \A p \in M : /\ served[p] \in Orders \X Couriers /\ PairCost[p] = cost[p[1]][p[2]]
                   /\ PairCost[served[p]] = cost[p[1]][assignment[p[1]]]
                   /\ taken[p] = assignment[p[1]] /\ taken[p] \in Couriers
                   /\ chosen[p] = p[2] /\ chosen[p] \in Couriers
                   /\ cost1[p] = PairCost[served[p]]
                   /\ price1[p] = prices[taken[p]] /\ price2[p] = prices[chosen[p]]
  BY <1>2, <1>3 DEF PairCost
<1>6. \A p \in M : cost1[p] \in Int /\ price1[p] \in Int /\ price2[p] \in Int /\ PairCost[p] \in Int
  <2> HIDE DEF served, taken, chosen, cost1, price1, price2
  <2>1. QED
    BY <1>1, <1>2, <1>3, <1>5
<1>7. TotalCost(Solution) = SumFunctionOnSet(cost1, M)
  <2>1. Solution = {served[p] : p \in M}
    <3>1. Solution = {<<i, assignment[i]>> : i \in Orders}
      BY <1>2, AuctionAssumption DEF Solution
    <3>2. \A i \in Orders : \E p \in M : served[p] = <<i, assignment[i]>>
      BY <1>3
    <3>3. QED
      BY <3>1, <3>2, <1>3
  <2>2. \A p \in M : PairCost[served[p]] \in Int
    BY <1>5, <1>6
  <2> HIDE DEF served
  <2>3. SumFunctionOnSet(PairCost, {served[p] : p \in M}) = SumFunctionOnSet(cost1, M)
    BY <1>3, <1>4, <2>2, SumReindexed
  <2>4. QED
    BY <2>1, <2>3 DEF TotalCost
<1>8. SumFunctionOnSet(price1, M) = SumFunctionOnSet(prices, Couriers)
  <2> DEFINE T == {taken[p] : p \in M}
  <2>1. T \in SUBSET Couriers /\ \A j \in Couriers \ T : prices[j] = 0
    <3>1. T \in SUBSET Couriers
      BY <1>5
    <3>2. ASSUME NEW j \in Couriers \ T, courier_to_order[j] # Nobody PROVE FALSE
      <4>1. courier_to_order[j] \in Orders /\ assignment[courier_to_order[j]] = j
        BY <3>2 DEF IInv, TypeOK, AssignmentsAreMutual
      <4>2. QED
        BY <4>1, <1>3, <3>2
    <3>3. QED
      BY <3>1, <3>2 DEF IInv, FreeCouriersAreFree
  <2>2. \A p \in M : prices[taken[p]] \in Int
    BY <1>1, <1>5
  <2> HIDE DEF taken
  <2>3. SumFunctionOnSet(prices, T) = SumFunctionOnSet(price1, M)
    BY <1>3, <1>4, <2>2, SumReindexed, SMTT(20)
  <2> HIDE DEF T
  <2>4. SumFunctionOnSet(prices, T) = SumFunctionOnSet(prices, Couriers)
    BY <1>1, <2>1, AuctionAssumption, SumOfMore
  <2>5. QED
    BY <2>3, <2>4
<1>9. SumFunctionOnSet(price2, M) <= SumFunctionOnSet(prices, Couriers)
  <2> DEFINE T == {chosen[p] : p \in M}
  <2>1. T \in SUBSET Couriers /\ \A j \in Couriers \ T : prices[j] >= 0
    BY <1>5 DEF IInv, FreeCouriersAreFree
  <2>2. \A p \in M : prices[chosen[p]] \in Int
    BY <1>1, <1>5
  <2> HIDE DEF chosen
  <2>3. SumFunctionOnSet(prices, T) = SumFunctionOnSet(price2, M)
    BY <1>3, <1>4, <2>2, SumReindexed, SMTT(20)
  <2> HIDE DEF T
  <2>4. SumFunctionOnSet(prices, T) <= SumFunctionOnSet(prices, Couriers)
    BY <1>1, <2>1, AuctionAssumption, SumOfMore
  <2>5. QED
    BY <2>3, <2>4
<1>10. \A p \in M : cost1[p] + price1[p] <= PairCost[p] + price2[p] + Epsilon
  <2> SUFFICES ASSUME NEW p \in M
               PROVE  cost1[p] + price1[p] <= PairCost[p] + price2[p] + Epsilon
    OBVIOUS
  <2> DEFINE i == p[1]
             j == assignment[i]
             k == p[2]
  <2>1. i \in Orders /\ k \in Couriers /\ j \in Couriers /\ j # Nobody
    BY <1>2, <1>3, AuctionAssumption
  <2>2. -cost[i][k] - prices[k] <= -cost[i][j] - prices[j] + Epsilon
    BY <2>1 DEF IInv, EpsilonSlackness, NetValue
  <2>3. cost1[p] = cost[i][j] /\ price1[p] = prices[j] /\ PairCost[p] = cost[i][k]
        /\ price2[p] = prices[k]
    <3> HIDE DEF served, taken, chosen, cost1, price1, price2
    <3>1. QED
      BY ONLY <1>5
  <2>4. cost[i][j] \in Int /\ prices[j] \in Int /\ cost[i][k] \in Int /\ prices[k] \in Int
    BY <1>1, <2>1
  <2> HIDE DEF served, taken, chosen, cost1, price1, price2, i, j, k
  <2>5. QED
    BY <1>1, <2>2, <2>3, <2>4
<1> HIDE DEF served, taken, chosen, cost1, price1, price2
<1>11. SumFunctionOnSet(cost1, M) + SumFunctionOnSet(price1, M) <=
         SumFunctionOnSet(PairCost, M) + SumFunctionOnSet(price2, M) + Cardinality(M) * Epsilon
  <2>1. IsFiniteSet(M) /\ Epsilon \in Int
    BY <1>1, <1>3
  <2>2. QED
    BY ONLY <2>1, <1>6, <1>10, SumsCompare
<1>12. /\ SumFunctionOnSet(cost1, M) \in Int /\ SumFunctionOnSet(price1, M) \in Int
       /\ SumFunctionOnSet(PairCost, M) \in Int /\ SumFunctionOnSet(price2, M) \in Int
       /\ SumFunctionOnSet(prices, Couriers) \in Int
  BY <1>1, <1>3, <1>6, AuctionAssumption, SumTakes
<1>13. NOrders * Epsilon \in Int
  BY <1>1, AuctionAssumption
<1> DEFINE slack == NOrders * Epsilon
<1> HIDE DEF slack
<1>14. SumFunctionOnSet(cost1, M) <= SumFunctionOnSet(PairCost, M) + slack
  BY <1>8, <1>9, <1>11, <1>12, <1>13 DEF slack
<1>15. QED
  BY <1>7, <1>14 DEF TotalCost, slack

\* When every order has a courier, no other way to give every order one is cheaper by
\* more than epsilon an order: on every matrix, for any numbers of orders and couriers.
THEOREM NearOptimality == Spec => []NearlyOptimal
<1>1. IInv => NearlyOptimal
  BY SlacknessSumsUp DEF NearlyOptimal
<1>2. QED
  BY <1>1, Invariance, PTL

\* A round may displace orders, but no step leaves more of them without a courier
\* than there were: a bid serves its order and displaces one at most.
THEOREM ShrinkingBacklog == Spec => BacklogNeverGrows
<1>1. IInv /\ [Next]_vars => [BacklogIsNoLarger]_vars
  <2> SUFFICES ASSUME IInv, Next PROVE BacklogIsNoLarger
    OBVIOUS
  <2>1. IsFiniteSet(Unassigned) /\ Cardinality(Unassigned) \in Nat
    BY OrdersAreFinite, FS_Subset, FS_CardinalityType DEF Unassigned
  <2>2. ASSUME NEW i \in Orders, NEW j \in Couriers, Bid(i, j)
        PROVE  Cardinality(Unassigned') <= Cardinality(Unassigned)
    <3> DEFINE rest == Unassigned \ {i}
               most == rest \union {courier_to_order[j]}
               now == Unassigned'
               n == Cardinality(Unassigned)
    <3>1. i \in Unassigned
      <4>1. i \in unassigned
        BY <2>2 DEF Bid, IsNext
      <4>2. QED
        BY ONLY IInv, <4>1 DEF IInv, RoundIsCurrent
    <3>2. now \in SUBSET most
      BY <2>2, AuctionAssumption DEF Bid, Unassigned
    <3> HIDE DEF now
    <3>3. IsFiniteSet(rest) /\ Cardinality(rest) = n - 1
      BY <2>1, <3>1, FS_RemoveElement
    <3> HIDE DEF rest
    <3>4. IsFiniteSet(most) /\ Cardinality(most) <= n
      BY <2>1, <3>3, FS_AddElement, SMTT(30)
    <3> HIDE DEF most
    <3>5. Cardinality(now) <= Cardinality(most) /\ IsFiniteSet(now)
      BY <3>2, <3>4, FS_Subset
    <3>6. Cardinality(now) \in Nat /\ Cardinality(most) \in Nat
      BY <3>4, <3>5, FS_CardinalityType
    <3>7. QED
      BY <2>1, <3>4, <3>5, <3>6 DEF now
  <2>3. ASSUME UNCHANGED assignment PROVE Unassigned' = Unassigned
    BY <2>3 DEF Unassigned
  <2>4. QED
    BY <2>1, <2>2, <2>3 DEF Next, BeginRound, Stop, Skip, BacklogIsNoLarger
<1>2. QED
  BY <1>1, Invariance, PTL DEF Spec, BacklogNeverGrows
-----------------------------------------------------------------------------
(* The Hungarian assigner. *)

\* What a pair saves against leaving its order and its courier alone.
Savings(orders, couriers, matrix) ==
    [p \in orders \X couriers |-> INFINITY_COST - matrix[p[1]][p[2]]]

\* The operators that Hungarian takes from the library are the same here.
LEMMA SameInjections ==
    ASSUME NEW S, NEW T PROVE H!Injection(S, T) = Injection(S, T)
  BY DEF H!Injection, H!IsInjective, Injection, IsInjective

LEMMA SameSum ==
    ASSUME NEW f, NEW S PROVE H!SumFunctionOnSet(f, S) = SumFunctionOnSet(f, S)
  BY DEF H!SumFunctionOnSet, H!FoldFunctionOnSet, H!MapThenFoldSet,
         SumFunctionOnSet, FoldFunctionOnSet, MapThenFoldSet

\* What a permutation of the padded matrix has to do with the pairs extracted from it.
PaysForSavings(orders, couriers, matrix, q) ==
    LET D == orders \union couriers
        square == H!PadToSquare(matrix)
        E == H!Extract(matrix, q)
        saved == SumFunctionOnSet(Savings(orders, couriers, matrix), E)
    IN  /\ DOMAIN square = D
        /\ E = {p \in orders \X couriers :
                   q[p[1]] = p[2] /\ matrix[p[1]][p[2]] < INFINITY_COST}
        /\ IsMatching(E)
        /\ saved \in Int
        /\ H!Total(square, q) = Cardinality(D) * INFINITY_COST - saved
        /\ H!Total(square, q) \in Nat

\* A permutation of the padded matrix costs the less, the more the pairs that are
\* extracted from it save.
LEMMA PermutationTotal ==
    ASSUME NEW R, NEW C, R # {}, IsFiniteSet(R \union C),
           NEW m \in [R -> [C -> 0..INFINITY_COST]],
           NEW q \in Injection(R \union C, R \union C)
    PROVE  PaysForSavings(R, C, m, q)
<1> DEFINE D == R \union C
           square == H!PadToSquare(m)
           E == H!Extract(m, q)
           saving == Savings(R, C, m)
           row == [i \in D |-> square[i][q[i]]]
           left == [i \in D |-> INFINITY_COST - row[i]]
           K == {k \in R : q[k] \in C /\ m[k][q[k]] < INFINITY_COST}
           pair == [k \in K |-> <<k, q[k]>>]
           kept == [k \in K |-> saving[pair[k]]]
<1>0. D = R \union C /\ IsFiniteSet(D) /\ q \in Injection(D, D)
  OBVIOUS
<1> HIDE DEF D, square, E, saving, row, left, K, pair, kept
<1>1. H!Rows(m) = R /\ H!Columns(m) = C /\ H!Indices(m) = D
  <2>1. H!Rows(m) = R
    BY DEF H!Rows
  <2>2. (CHOOSE i \in R : TRUE) \in R
    OBVIOUS
  <2>3. H!Columns(m) = C
    BY <2>1, <2>2 DEF H!Columns
  <2>4. QED
    BY <1>0, <2>1, <2>3 DEF H!Indices
<1>2. /\ DOMAIN square = D
      /\ \A i, j \in D : square[i][j] = IF i \in R /\ j \in C THEN m[i][j] ELSE INFINITY_COST
  BY <1>1 DEF square, H!PadToSquare
<1>3. INFINITY_COST \in Nat /\ INFINITY_COST > 0
  BY AuctionAssumption
<1>4. \A i \in D : q[i] \in D /\ \A k \in D : q[i] = q[k] => i = k
  BY <1>0 DEF Injection, IsInjective
<1>5. \A i \in R, j \in C : m[i][j] \in Int /\ 0 <= m[i][j] /\ m[i][j] <= INFINITY_COST
  BY <1>3
<1>6. E = {<<k, q[k]>> : k \in K}
  BY <1>1 DEF E, K, H!Extract
<1>7. E = {p \in R \X C : q[p[1]] = p[2] /\ m[p[1]][p[2]] < INFINITY_COST}
  BY <1>6 DEF K
<1>8. IsMatching(E)
  <2> SUFFICES ASSUME NEW p \in E, NEW t \in E, p[1] = t[1] \/ p[2] = t[2] PROVE p = t
    BY DEF IsMatching, Conflict
  <2>1. p \in R \X C /\ t \in R \X C /\ q[p[1]] = p[2] /\ q[t[1]] = t[2]
    BY <1>7
  <2>2. QED
    BY <1>0, <1>4, <2>1
<1>9. \A i \in D : /\ row[i] = IF i \in R /\ q[i] \in C THEN m[i][q[i]] ELSE INFINITY_COST
                  /\ left[i] = INFINITY_COST - row[i]
  BY <1>2, <1>4 DEF row, left
<1>10. \A i \in D : row[i] \in Int /\ row[i] >= 0 /\ left[i] \in Int /\ row[i] + left[i] = INFINITY_COST
  BY <1>3, <1>5, <1>9
<1>11. K \in SUBSET D /\ IsFiniteSet(K) /\ \A i \in D \ K : left[i] = 0
  <2>1. K \in SUBSET D /\ IsFiniteSet(K)
    BY <1>0, FS_Subset DEF K
  <2>2. ASSUME NEW i \in D \ K PROVE row[i] = INFINITY_COST
    <3>1. CASE i \in R /\ q[i] \in C
      <4>1. row[i] = m[i][q[i]] /\ ~(m[i][q[i]] < INFINITY_COST)
        BY <1>0, <1>9, <3>1 DEF K
      <4>2. m[i][q[i]] \in Int /\ m[i][q[i]] <= INFINITY_COST
        BY <1>5, <3>1
      <4> DEFINE x == m[i][q[i]]
      <4>3. INFINITY_COST \in Int /\ row[i] = x /\ x \in Int /\ x <= INFINITY_COST /\ ~(x < INFINITY_COST)
        BY <1>3, <4>1, <4>2
      <4> HIDE DEF x
      <4>4. x = INFINITY_COST
        BY ONLY <4>3
      <4>5. QED
        BY <4>3, <4>4
    <3>2. CASE ~(i \in R /\ q[i] \in C)
      BY <1>9, <3>2
    <3>3. QED
      BY <3>1, <3>2
  <2>3. QED
    BY <1>3, <1>9, <2>1, <2>2
<1>12. \A k \in K : pair[k] = <<k, q[k]>> /\ kept[k] = saving[pair[k]]
  BY DEF pair, kept
<1>13. \A k \in K : saving[pair[k]] = left[k] /\ left[k] \in Int
  <2> SUFFICES ASSUME NEW k \in K PROVE saving[pair[k]] = left[k] /\ left[k] \in Int
    OBVIOUS
  <2>1. k \in R /\ k \in D /\ q[k] \in C
    BY <1>0 DEF K
  <2>2. saving[<<k, q[k]>>] = INFINITY_COST - m[k][q[k]]
    BY <2>1 DEF saving, Savings
  <2>3. QED
    BY <1>9, <1>10, <1>12, <2>1, <2>2
<1>14. \A k, l \in K : pair[k] = pair[l] => k = l
  BY <1>12
<1>15. H!Total(square, q) = SumFunctionOnSet(row, D)
  <2>1. H!Total(square, q) = H!SumFunctionOnSet(row, D)
    BY <1>2 DEF H!Total, H!SumFunction, row
  <2>2. QED
    BY <2>1, SameSum
<1>16. SumFunctionOnSet(saving, E) = SumFunctionOnSet(kept, K)
  <2>1. \A k \in K : saving[pair[k]] \in Int
    BY <1>13
  <2>2. SumFunctionOnSet(saving, {pair[k] : k \in K}) = SumFunctionOnSet([k \in K |-> saving[pair[k]]], K)
    BY <1>11, <1>14, <2>1, SumReindexed
  <2>3. E = {pair[k] : k \in K}
    <3>1. \A x : x \in E <=> \E k \in K : x = pair[k]
      BY <1>6, <1>12
    <3>2. QED
      BY <3>1
  <2>4. QED
    BY <2>2, <2>3 DEF kept
<1>17. SumFunctionOnSet(kept, K) = SumFunctionOnSet(left, K)
  <2>1. \A k \in K : kept[k] \in Int /\ kept[k] = left[k]
    BY <1>12, <1>13
  <2>2. QED
    BY <1>11, <2>1, SumsEqual
<1>18. SumFunctionOnSet(left, K) = SumFunctionOnSet(left, D)
  BY <1>0, <1>10, <1>11, SumOfMore
<1>19. SumFunctionOnSet(row, D) + SumFunctionOnSet(left, D) = Cardinality(D) * INFINITY_COST
  BY <1>0, <1>3, <1>10, SumsAddUp
<1>20. SumFunctionOnSet(row, D) \in Int /\ SumFunctionOnSet(left, D) \in Int
  BY <1>0, <1>10, SumTakes
<1>21. SumFunctionOnSet(row, D) >= 0
  <2>1. SumFunctionOnSet(row, {}) = 0
    BY FS_EmptySet, SumTakes
  <2>2. QED
    BY <1>0, <1>10, <2>1, SumOfMore
<1>22. SumFunctionOnSet(saving, E) = SumFunctionOnSet(left, D)
  BY <1>16, <1>17, <1>18
<1>23. /\ SumFunctionOnSet(saving, E) \in Int
       /\ H!Total(square, q) = Cardinality(D) * INFINITY_COST - SumFunctionOnSet(saving, E)
       /\ H!Total(square, q) \in Nat
  <2> DEFINE all == Cardinality(D) * INFINITY_COST
  <2>1. all \in Int
    BY <1>19, <1>20
  <2> HIDE DEF all
  <2>2. SumFunctionOnSet(row, D) + SumFunctionOnSet(left, D) = all
    BY <1>19 DEF all
  <2>3. H!Total(square, q) = all - SumFunctionOnSet(saving, E)
    BY <1>15, <1>20, <1>22, <2>1, <2>2
  <2>4. QED
    BY <1>15, <1>20, <1>21, <1>22, <2>3 DEF all
<1>24. QED
  BY <1>2, <1>7, <1>8, <1>23 DEF PaysForSavings, D, square, E, saving

\* A matching is part of a permutation of the padded matrix.
LEMMA MatchingExtends ==
    ASSUME NEW D, IsFiniteSet(D), NEW M \in SUBSET (D \X D), IsMatching(M)
    PROVE  \E q \in Injection(D, D) : \A p \in M : q[p[1]] = p[2]
<1> DEFINE first == [p \in M |-> p[1]]
           second == [p \in M |-> p[2]]
           paired == {first[p] : p \in M}
           B == {second[p] : p \in M}
<1>1. IsFiniteSet(M)
  BY FS_Product, FS_Subset
<1>2. \A p, t \in M : first[p] = first[t] \/ second[p] = second[t] => p = t
  BY DEF IsMatching, Conflict
<1>3. paired \in SUBSET D /\ B \in SUBSET D
  OBVIOUS
<1>4. \A p \in M : first[p] = p[1] /\ second[p] = p[2] /\ p[1] \in paired /\ p[2] \in B
  OBVIOUS
<1>5. \A i \in paired : \E p \in M : p[1] = i
  OBVIOUS
<1>6. Cardinality(paired) = Cardinality(B)
  <2> HIDE DEF first, second
  <2>1. Cardinality(paired) = Cardinality(M)
    BY <1>1, <1>2, Images
  <2>2. Cardinality(B) = Cardinality(M)
    BY <1>1, <1>2, Images
  <2>3. QED
    BY <2>1, <2>2
<1> HIDE DEF paired, B, first, second
<1>7. PICK b \in Bijection(D \ paired, D \ B) : TRUE
  <2>1. ASSUME NEW X \in SUBSET D
        PROVE  IsFiniteSet(D \ X) /\ Cardinality(D \ X) = Cardinality(D) - Cardinality(X)
    <3>1. D \intersect X = X
      OBVIOUS
    <3>2. IsFiniteSet(D)
      OBVIOUS
    <3>3. IsFiniteSet(D \ X) /\ Cardinality(D \ X) = Cardinality(D) - Cardinality(D \intersect X)
      BY ONLY <3>2, FS_Difference
    <3>4. QED
      BY <3>1, <3>3
  <2>2. /\ IsFiniteSet(D \ paired) /\ Cardinality(D \ paired) = Cardinality(D) - Cardinality(paired)
        /\ IsFiniteSet(D \ B) /\ Cardinality(D \ B) = Cardinality(D) - Cardinality(B)
    BY <1>3, <2>1
  <2>3. ExistsBijection(D \ paired, D \ B)
    BY <1>6, <2>2, FS_SameCardinalityBij
  <2>4. QED
    BY <2>3 DEF ExistsBijection
<1> DEFINE of(i) == CHOOSE p \in M : p[1] = i
           q == [i \in D |-> IF i \in paired THEN of(i)[2] ELSE b[i]]
<1>8. \A i \in paired : of(i) \in M /\ of(i)[1] = i
  BY <1>5
<1> HIDE DEF of
<1>9. \A i \in D : /\ i \in paired => q[i] = of(i)[2] /\ q[i] \in B
                   /\ i \notin paired => q[i] = b[i] /\ q[i] \in D \ B
  BY <1>4, <1>7, <1>8 DEF Bijection, Injection
<1>10. ASSUME NEW i \in D, NEW k \in D, q[i] = q[k] PROVE i = k
  <2>1. CASE i \in paired
    <3>1. k \in paired
      BY <1>9, <1>10, <2>1
    <3>2. of(i)[2] = of(k)[2] /\ of(i) \in M /\ of(k) \in M
      BY <1>8, <1>9, <1>10, <2>1, <3>1
    <3>3. of(i) = of(k)
      BY <1>2, <1>4, <3>2
    <3>4. QED
      BY <1>8, <2>1, <3>1, <3>3
  <2>2. CASE i \notin paired
    <3>1. k \notin paired
      BY <1>9, <1>10, <2>2
    <3>2. b[i] = b[k] /\ i \in D \ paired /\ k \in D \ paired
      BY <1>9, <1>10, <2>2, <3>1
    <3>3. \A x, y \in D \ paired : b[x] = b[y] => x = y
      BY <1>7 DEF Bijection, Injection, IsInjective
    <3>4. QED
      BY <3>2, <3>3
  <2>3. QED
    BY <2>1, <2>2
<1>11. q \in Injection(D, D)
  <2>1. q \in [D -> D]
    BY <1>3, <1>9
  <2>2. DOMAIN q = D
    OBVIOUS
  <2> HIDE DEF q
  <2>3. QED
    BY <1>10, <2>1, <2>2 DEF Injection, IsInjective
<1>12. ASSUME NEW p \in M PROVE q[p[1]] = p[2]
  <2>1. p[1] \in paired /\ p[1] \in D
    BY <1>3, <1>4
  <2>2. of(p[1]) = p
    BY <1>2, <1>4, <1>8, <2>1
  <2>3. QED
    BY <1>9, <2>1, <2>2
<1>13. QED
  BY <1>11, <1>12

\* A set of naturals has a least element.
LEMMA LeastNatural ==
    ASSUME NEW S \in SUBSET Nat, S # {}
    PROVE  H!Min(S) \in S /\ \A x \in S : H!Min(S) <= x
<1> DEFINE Least(T) == \E x \in T : \A y \in T : x <= y
<1>1. PICK n \in S : TRUE
  OBVIOUS
<1> DEFINE low == {x \in S : x <= n}
           P == {T \in SUBSET low : T = {} \/ Least(T)}
<1>2. IsFiniteSet(low)
  <2>1. n \in Nat
    BY <1>1
  <2>2. low \in SUBSET (0..n)
    <3> SUFFICES ASSUME NEW x \in low PROVE x \in 0..n
      OBVIOUS
    <3>1. x \in Nat /\ x <= n
      OBVIOUS
    <3>2. QED
      BY <2>1, <3>1
  <2>3. IsFiniteSet(0..n)
    BY <2>1, FS_Interval
  <2> HIDE DEF low
  <2>4. QED
    BY <2>2, <2>3, FS_Subset
<1>3. ASSUME NEW T \in SUBSET low, \A W \in SUBSET T : W # T => W \in P PROVE T \in P
  <2> SUFFICES ASSUME T # {} PROVE Least(T)
    OBVIOUS
  <2>1. PICK t \in T : TRUE
    OBVIOUS
  <2> DEFINE W == T \ {t}
  <2>2. W = {} \/ Least(W)
    BY <1>3, <2>1
  <2>3. \A x \in T : x \in Nat
    OBVIOUS
  <2> HIDE DEF P, low
  <2>4. QED
    BY <2>1, <2>2, <2>3
<1>4. low \in P
  <2> HIDE DEF P, low
  <2>1. QED
    BY <1>2, <1>3, SubsetInduction
<1>5. Least(low) /\ n \in low
  BY <1>1, <1>4
<1>6. Least(S)
  BY <1>5
<1>7. QED
  BY <1>6 DEF H!Min

LEMMA SumIsNatural ==
    ASSUME NEW S, IsFiniteSet(S), NEW f, \A x \in S : f[x] \in Nat
    PROVE  SumFunctionOnSet(f, S) \in Nat
<1>1. SumFunctionOnSet(f, {}) = 0
  BY FS_EmptySet, SumTakes
<1>2. SumFunctionOnSet(f, {}) <= SumFunctionOnSet(f, S)
  BY SumOfMore
<1>3. QED
  BY <1>1, <1>2, SumTakes

\* A solution saves as much as any feasible matching.
LEMMA SolutionSavesMost ==
    ASSUME NEW R, IsFiniteSet(R), R # {}, NEW C, IsFiniteSet(C),
           NEW m \in [R -> [C -> 0..INFINITY_COST]], NEW S \in H!Solutions(m)
    PROVE  /\ S \in SUBSET (R \X C) /\ IsMatching(S) /\ \A p \in S : m[p[1]][p[2]] < INFINITY_COST
           /\ \A M \in SUBSET (R \X C) :
                 IsMatching(M) /\ (\A p \in M : m[p[1]][p[2]] < INFINITY_COST)
                     => SumFunctionOnSet(Savings(R, C, m), M)
                          <= SumFunctionOnSet(Savings(R, C, m), S)
<1> DEFINE D == R \union C
           square == H!PadToSquare(m)
           saving == Savings(R, C, m)
           Extracted(q) == {p \in R \X C : q[p[1]] = p[2] /\ m[p[1]][p[2]] < INFINITY_COST}
           Totals == {H!Total(square, q) : q \in Injection(DOMAIN square, DOMAIN square)}
<1>0. IsFiniteSet(D) /\ D = R \union C
  BY FS_Union
<1> HIDE DEF D
<1>1. ASSUME NEW q \in Injection(D, D)
      PROVE  /\ DOMAIN square = D
             /\ H!Extract(m, q) = Extracted(q)
             /\ IsMatching(H!Extract(m, q))
             /\ SumFunctionOnSet(saving, Extracted(q)) \in Int
             /\ H!Total(square, q) = Cardinality(D) * INFINITY_COST
                                       - SumFunctionOnSet(saving, Extracted(q))
             /\ H!Total(square, q) \in Nat
  <2>1. PaysForSavings(R, C, m, q)
    <3>1. /\ R # {} /\ IsFiniteSet(R \union C)
          /\ m \in [R -> [C -> 0..INFINITY_COST]] /\ q \in Injection(R \union C, R \union C)
      BY <1>0
    <3>2. QED
      BY ONLY <3>1, PermutationTotal
  <2>2. H!Extract(m, q) = Extracted(q)
    BY <2>1 DEF PaysForSavings
  <2> HIDE DEF Extracted
  <2>3. QED
    BY <1>0, <2>1, <2>2 DEF PaysForSavings
<1> HIDE DEF square, saving
<1>2. DOMAIN square = D
  <2>1. \E q \in Injection(D, D) : TRUE
    <3>1. {} \in SUBSET (D \X D) /\ IsMatching({})
      BY DEF IsMatching
    <3>2. QED
      BY <1>0, <3>1, MatchingExtends
  <2>2. QED
    BY <1>1, <2>1
<1>3. PICK s \in Injection(D, D) : S = H!Extract(m, s) /\ H!Total(square, s) = H!Min(Totals)
  <2>1. PICK s \in H!LinearSumAssignment(square) : S = H!Extract(m, s)
    BY DEF H!Solutions, square
  <2>2. s \in Injection(DOMAIN square, DOMAIN square) /\ H!Total(square, s) = H!Min(Totals)
    <3>1. H!LinearSumAssignment(square) =
             {p \in Injection(DOMAIN square, DOMAIN square) : H!Total(square, p) = H!Min(Totals)}
      BY SameInjections DEF H!LinearSumAssignment
    <3> HIDE DEF Totals
    <3>2. QED
      BY <2>1, <3>1
  <2>3. QED
    BY <1>2, <2>1, <2>2
<1>4. \A q \in Injection(D, D) : H!Total(square, s) <= H!Total(square, q)
  <2>1. Totals \in SUBSET Nat /\ Totals # {}
    BY <1>1, <1>2, <1>3
  <2>2. \A q \in Injection(D, D) : H!Total(square, q) \in Totals
    BY <1>2
  <2> HIDE DEF Totals
  <2>3. \A x \in Totals : H!Min(Totals) <= x
    BY ONLY <2>1, LeastNatural
  <2>4. QED
    BY <1>3, <2>2, <2>3
<1> HIDE DEF Totals
<1>5. S = Extracted(s) /\ IsMatching(S)
  BY <1>1, <1>3
<1>6. ASSUME NEW M \in SUBSET (R \X C), IsMatching(M), \A p \in M : m[p[1]][p[2]] < INFINITY_COST
      PROVE  SumFunctionOnSet(saving, M) <= SumFunctionOnSet(saving, S)
  <2>1. PICK q \in Injection(D, D) : \A p \in M : q[p[1]] = p[2]
    <3>1. M \in SUBSET (D \X D)
      BY <1>0, <1>6
    <3>2. QED
      BY <1>0, <1>6, <3>1, MatchingExtends
  <2> DEFINE E == Extracted(q)
  <2>2. M \in SUBSET E /\ E \in SUBSET (R \X C)
    BY <1>6, <2>1
  <2>3. IsFiniteSet(E)
    BY <2>2, FS_Product, FS_Subset
  <2>4. \A p \in E : saving[p] \in Int /\ saving[p] >= 0
    <3> SUFFICES ASSUME NEW p \in E PROVE saving[p] \in Int /\ saving[p] >= 0
      OBVIOUS
    <3>1. m[p[1]][p[2]] \in 0..INFINITY_COST /\ saving[p] = INFINITY_COST - m[p[1]][p[2]]
      BY <2>2 DEF saving, Savings
    <3>2. QED
      BY <3>1, AuctionAssumption
  <2>5. /\ H!Total(square, s) <= H!Total(square, q)
        /\ H!Total(square, s) \in Nat /\ H!Total(square, q) \in Nat
        /\ H!Total(square, s) = Cardinality(D) * INFINITY_COST - SumFunctionOnSet(saving, S)
        /\ H!Total(square, q) = Cardinality(D) * INFINITY_COST - SumFunctionOnSet(saving, E)
        /\ SumFunctionOnSet(saving, S) \in Int /\ SumFunctionOnSet(saving, E) \in Int
    BY <1>1, <1>4, <1>5
  <2> HIDE DEF E
  <2>6. SumFunctionOnSet(saving, M) <= SumFunctionOnSet(saving, E)
    BY <2>2, <2>3, <2>4, SumOfMore
  <2>7. SumFunctionOnSet(saving, M) \in Int
    <3>1. IsFiniteSet(M) /\ \A p \in M : saving[p] \in Int
      BY <2>2, <2>3, <2>4, FS_Subset
    <3>2. QED
      BY <3>1, SumTakes
  <2>8. Cardinality(D) * INFINITY_COST \in Int
    <3>1. Cardinality(D) \in Nat
      BY <1>0, FS_CardinalityType
    <3>2. QED
      BY <3>1, AuctionAssumption
  <2> DEFINE all == Cardinality(D) * INFINITY_COST
  <2> HIDE DEF all
  <2>9. QED
    BY <2>5, <2>6, <2>7, <2>8 DEF all
<1>7. QED
  BY <1>5, <1>6 DEF saving

\* Where no sum of finite costs reaches INFINITY_COST, to save most is to serve most,
\* and to serve as many for no more.
LEMMA SavingsDecide ==
    ASSUME NEW R, IsFiniteSet(R), NEW C, IsFiniteSet(C),
           NEW m \in [R -> [C -> 0..INFINITY_COST]],
           NEW f, \A p \in R \X C : f[p] = m[p[1]][p[2]],
           NEW Bound \in Nat, Cardinality(R) * Bound < INFINITY_COST,
           NEW S \in SUBSET (R \X C), NEW M \in SUBSET (R \X C), IsMatching(M),
           \A p \in M : f[p] <= Bound,
           SumFunctionOnSet(Savings(R, C, m), M) <= SumFunctionOnSet(Savings(R, C, m), S)
    PROVE  /\ Cardinality(M) <= Cardinality(S)
           /\ Cardinality(M) = Cardinality(S) => SumFunctionOnSet(f, S) <= SumFunctionOnSet(f, M)
<1> DEFINE saving == Savings(R, C, m)
           Inf == INFINITY_COST
<1>1. Inf \in Nat \ {0}
  BY AuctionAssumption
<1>2. \A p \in R \X C : /\ f[p] \in Nat /\ saving[p] \in Int
                        /\ saving[p] + f[p] = Inf
  <2> SUFFICES ASSUME NEW p \in R \X C
               PROVE  f[p] \in Nat /\ saving[p] \in Int /\ saving[p] + f[p] = Inf
    OBVIOUS
  <2>1. m[p[1]][p[2]] \in 0..INFINITY_COST /\ saving[p] = INFINITY_COST - m[p[1]][p[2]]
    BY DEF Savings
  <2>2. QED
    BY <1>1, <2>1
<1> HIDE DEF saving, Inf
\* What a set of pairs saves, and that its size and its cost are naturals.
<1>3. ASSUME NEW X \in SUBSET (R \X C)
      PROVE  /\ IsFiniteSet(X) /\ Cardinality(X) \in Nat
             /\ SumFunctionOnSet(saving, X) \in Int /\ SumFunctionOnSet(f, X) \in Nat
             /\ SumFunctionOnSet(saving, X) + SumFunctionOnSet(f, X) = Cardinality(X) * Inf
  <2>1. IsFiniteSet(X) /\ Cardinality(X) \in Nat
    BY FS_Product, FS_Subset, FS_CardinalityType
  <2>2. \A p \in X : f[p] \in Int /\ saving[p] \in Int /\ saving[p] + f[p] = Inf
    BY <1>2
  <2>3. SumFunctionOnSet(saving, X) \in Int
    BY <2>1, <2>2, SumTakes
  <2>4. SumFunctionOnSet(f, X) \in Nat
    BY <1>2, <2>1, SumIsNatural
  <2>5. SumFunctionOnSet(saving, X) + SumFunctionOnSet(f, X) = Cardinality(X) * Inf
    BY <1>1, <2>1, <2>2, SumsAddUp
  <2>6. QED
    BY <2>1, <2>3, <2>4, <2>5
<1>4. SumFunctionOnSet(f, M) < Inf
  <2> DEFINE below == [p \in M |-> Bound - f[p]]
  <2>1. \A p \in M : below[p] \in Nat /\ f[p] + below[p] = Bound /\ f[p] \in Int
    BY <1>2
  <2> HIDE DEF below
  <2>2. SumFunctionOnSet(f, M) + SumFunctionOnSet(below, M) = Cardinality(M) * Bound
    <3>1. IsFiniteSet(M) /\ Bound \in Int
      BY <1>3
    <3>2. \A p \in M : f[p] \in Int /\ below[p] \in Int /\ f[p] + below[p] = Bound
      BY <2>1
    <3>3. QED
      BY ONLY <3>1, <3>2, SumsAddUp
  <2>3. SumFunctionOnSet(below, M) \in Nat
    BY <1>3, <2>1, SumIsNatural
  <2>4. Cardinality(M) <= Cardinality(R) /\ Cardinality(R) \in Nat
    <3> DEFINE first == [p \in M |-> p[1]]
               E == {first[p] : p \in M}
    <3>1. \A p, q \in M : first[p] = first[q] => p = q
      BY DEF IsMatching, Conflict
    <3>2. E \in SUBSET R
      OBVIOUS
    <3> HIDE DEF first
    <3>3. Cardinality(E) = Cardinality(M)
      BY <1>3, <3>1, Images
    <3> HIDE DEF E
    <3>4. QED
      BY <3>2, <3>3, FS_Subset, FS_CardinalityType
  <2>5. Cardinality(M) * Bound <= Cardinality(R) * Bound
    <3> DEFINE a == Cardinality(M)
               b == Cardinality(R)
    <3>1. a \in Nat /\ b \in Nat /\ a <= b
      BY <1>3, <2>4
    <3> HIDE DEF a, b
    <3>2. b * Bound = a * Bound + (b - a) * Bound /\ (b - a) * Bound >= 0
      BY <3>1
    <3>3. a * Bound \in Int /\ b * Bound \in Int /\ (b - a) * Bound \in Int
      BY <3>1
    <3>4. a * Bound <= b * Bound
      BY <3>2, <3>3
    <3>5. QED
      BY <3>4 DEF a, b
  <2> DEFINE x == Cardinality(M) * Bound
             y == Cardinality(R) * Bound
  <2>6. x \in Int /\ y \in Int /\ y < Inf /\ x <= y
    BY <1>3, <2>4, <2>5 DEF Inf
  <2> HIDE DEF x, y
  <2>7. QED
    BY <1>1, <1>3, <2>2, <2>3, <2>6 DEF x
<1> DEFINE n == Cardinality(M)
           k == Cardinality(S)
           wM == SumFunctionOnSet(f, M)
           wS == SumFunctionOnSet(f, S)
           x == n * Inf
           y == k * Inf
<1>5. n \in Nat /\ k \in Nat /\ wM \in Nat /\ wS \in Nat /\ wM < Inf
  BY <1>3, <1>4
<1>6. x - wM <= y - wS
  <2>1. /\ SumFunctionOnSet(saving, M) + wM = x /\ SumFunctionOnSet(saving, M) \in Int
        /\ SumFunctionOnSet(saving, S) + wS = y /\ SumFunctionOnSet(saving, S) \in Int
        /\ SumFunctionOnSet(saving, M) <= SumFunctionOnSet(saving, S)
    BY <1>3 DEF saving
  <2> HIDE DEF x, y, wM, wS
  <2>2. QED
    BY <1>5, <2>1
<1>7. n <= k
  <2> SUFFICES ASSUME n > k PROVE FALSE
    BY <1>5
  <2> HIDE DEF n, k, wM, wS
  <2>1. x = y + (n - k) * Inf /\ (n - k) * Inf >= Inf /\ (n - k) * Inf \in Int /\ y \in Int
    BY <1>1, <1>5
  <2> DEFINE d == (n - k) * Inf
  <2> HIDE DEF x, y, d
  <2>2. QED
    BY <1>1, <1>5, <1>6, <2>1 DEF d
<1>8. n = k => wS <= wM
  <2> HIDE DEF n, k, wM, wS
  <2>1. x \in Int /\ (n = k => x = y)
    BY <1>1, <1>5
  <2> HIDE DEF x, y
  <2>2. QED
    BY <1>5, <1>6, <2>1
<1>9. QED
  BY <1>7, <1>8

\* Whatever the matrix and the tie breaks, the Hungarian assigner returns a feasible
\* matching that none exceeds in orders served, nor beats in cost for as many.  It takes
\* that INFINITY_COST exceeds what the finite costs of one courier per order add up to.
THEOREM HungarianIsOptimal ==
    ASSUME NEW Bound \in Nat, NOrders * Bound < INFINITY_COST,
           Costs \subseteq (0..Bound) \union {INFINITY_COST}
    PROVE  Spec => []HungarianDominates
<1>1. Bound < INFINITY_COST
  <2>1. NOrders * Bound >= Bound /\ NOrders * Bound \in Int
    <3>1. NOrders - 1 \in Nat
      BY AuctionAssumption
    <3>2. (NOrders - 1) * Bound >= 0 /\ NOrders * Bound = Bound + (NOrders - 1) * Bound
          /\ (NOrders - 1) * Bound \in Int
      BY <3>1, AuctionAssumption
    <3>3. QED
      BY <3>2
  <2>2. QED
    BY <2>1, AuctionAssumption
<1>2. IInv => HungarianDominates
  <2> SUFFICES ASSUME TypeOK, NEW n \in Orders, NEW C \in SUBSET Couriers,
                      NEW S \in H!Solutions(SubMatrix(0..n, C))
               PROVE  /\ S \subseteq FeasiblePairs(0..n, C) /\ IsMatching(S)
                      /\ \A M \in FeasibleMatchings(0..n, C) :
                            /\ Cardinality(M) <= Cardinality(S)
                            /\ Cardinality(M) = Cardinality(S) => TotalCost(S) <= TotalCost(M)
    BY DEF IInv, HungarianDominates
  <2> DEFINE R == 0..n
             m == SubMatrix(R, C)
  <2>1. /\ n \in Nat /\ R \in SUBSET Orders /\ R # {} /\ IsFiniteSet(R) /\ IsFiniteSet(C)
        /\ Cardinality(R) = n + 1 /\ n + 1 <= NOrders
    <3>1. n \in Nat /\ n < NOrders
      BY AuctionAssumption DEF Orders
    <3>2. IsFiniteSet(0..n) /\ Cardinality(0..n) = n + 1
      BY <3>1, FS_Interval
    <3>3. R \in SUBSET Orders /\ 0 \in R
      BY <3>1, AuctionAssumption DEF Orders
    <3>4. QED
      BY <3>1, <3>2, <3>3, AuctionAssumption, FS_Subset
  <2>2. \A i \in R, j \in C : /\ m[i][j] = cost[i][j] /\ cost[i][j] \in 0..INFINITY_COST
                              /\ cost[i][j] < INFINITY_COST => cost[i][j] <= Bound
    <3> SUFFICES ASSUME NEW i \in R, NEW j \in C
                 PROVE  /\ m[i][j] = cost[i][j] /\ cost[i][j] \in 0..INFINITY_COST
                        /\ cost[i][j] < INFINITY_COST => cost[i][j] <= Bound
      OBVIOUS
    <3>1. i \in Orders /\ j \in Couriers
      BY <2>1
    <3>2. cost[i][j] \in Costs
      BY <3>1 DEF TypeOK
    <3>3. m[i][j] = cost[i][j]
      BY DEF SubMatrix
    <3>4. cost[i][j] \in 0..INFINITY_COST /\ (cost[i][j] < INFINITY_COST => cost[i][j] <= Bound)
      <4> DEFINE c == cost[i][j]
      <4>1. c \in 0..Bound \/ c = INFINITY_COST
        BY <3>2
      <4>2. INFINITY_COST \in Nat
        BY AuctionAssumption
      <4> HIDE DEF c
      <4>3. c \in 0..INFINITY_COST /\ (c < INFINITY_COST => c <= Bound)
        BY <1>1, <4>1, <4>2
      <4>4. QED
        BY <4>3 DEF c
    <3>5. QED
      BY <3>3, <3>4
  <2>3. m \in [R -> [C -> 0..INFINITY_COST]]
    BY <2>2 DEF SubMatrix
  <2>4. \A p \in R \X C : PairCost[p] = cost[p[1]][p[2]] /\ cost[p[1]][p[2]] = m[p[1]][p[2]]
    <3>1. \A p \in R \X C : p \in Orders \X Couriers /\ p[1] \in R /\ p[2] \in C
      BY <2>1
    <3> HIDE DEF R, m
    <3>2. QED
      BY <2>2, <3>1 DEF PairCost
  <2>5. Cardinality(R) * Bound < INFINITY_COST
    <3>1. NOrders - (n + 1) \in Nat
      BY <2>1, AuctionAssumption
    <3>2. NOrders * Bound = (n + 1) * Bound + (NOrders - (n + 1)) * Bound
          /\ (NOrders - (n + 1)) * Bound >= 0
          /\ (NOrders - (n + 1)) * Bound \in Int /\ (n + 1) * Bound \in Int
      BY <2>1, <3>1, AuctionAssumption
    <3>3. (n + 1) * Bound < INFINITY_COST
      BY <3>2, AuctionAssumption
    <3>4. QED
      BY <2>1, <3>3
  <2>6. S \in H!Solutions(m)
    OBVIOUS
  <2> HIDE DEF R, m
  <2>7. /\ S \in SUBSET (R \X C) /\ IsMatching(S) /\ \A p \in S : m[p[1]][p[2]] < INFINITY_COST
        /\ \A M \in SUBSET (R \X C) :
              IsMatching(M) /\ (\A p \in M : m[p[1]][p[2]] < INFINITY_COST)
                  => SumFunctionOnSet(Savings(R, C, m), M)
                       <= SumFunctionOnSet(Savings(R, C, m), S)
    BY <2>1, <2>3, <2>6, SolutionSavesMost
  <2>8. S \subseteq FeasiblePairs(R, C)
    BY <2>4, <2>7 DEF FeasiblePairs
  <2>9. ASSUME NEW M \in FeasibleMatchings(R, C)
        PROVE  /\ Cardinality(M) <= Cardinality(S)
               /\ Cardinality(M) = Cardinality(S) => TotalCost(S) <= TotalCost(M)
    <3>1. /\ M \in SUBSET (R \X C) /\ IsMatching(M)
          /\ \A p \in M : m[p[1]][p[2]] < INFINITY_COST /\ PairCost[p] <= Bound
      <4>1. /\ M \in SUBSET (R \X C) /\ IsMatching(M)
            /\ \A p \in M : cost[p[1]][p[2]] < INFINITY_COST
        BY <2>9 DEF FeasibleMatchings, FeasiblePairs
      <4>2. \A p \in M : p \in R \X C /\ p[1] \in R /\ p[2] \in C
        BY <4>1
      <4>3. QED
        BY <2>2, <2>4, <4>1, <4>2
    <3>2. SumFunctionOnSet(Savings(R, C, m), M) <= SumFunctionOnSet(Savings(R, C, m), S)
      BY <2>7, <3>1
    <3>3. \A p \in R \X C : PairCost[p] = m[p[1]][p[2]]
      BY <2>4
    <3>4. /\ IsFiniteSet(R) /\ IsFiniteSet(C) /\ m \in [R -> [C -> 0..INFINITY_COST]]
          /\ Bound \in Nat /\ Cardinality(R) * Bound < INFINITY_COST
          /\ S \in SUBSET (R \X C) /\ \A p \in M : PairCost[p] <= Bound
      BY <2>1, <2>3, <2>5, <2>7, <3>1
    <3> DEFINE f == PairCost
    <3> HIDE DEF f
    <3>5. /\ Cardinality(M) <= Cardinality(S)
          /\ Cardinality(M) = Cardinality(S) => SumFunctionOnSet(f, S) <= SumFunctionOnSet(f, M)
      <4>1. (\A p \in R \X C : f[p] = m[p[1]][p[2]]) /\ \A p \in M : f[p] <= Bound
        BY <3>3, <3>4 DEF f
      <4>2. QED
        BY ONLY <3>1, <3>2, <3>4, <4>1, SavingsDecide
    <3>6. QED
      BY <3>5 DEF f, TotalCost
  <2>10. QED
    BY <2>7, <2>8, <2>9 DEF R
<1>3. QED
  BY <1>2, Invariance, PTL

-----------------------------------------------------------------------------
(* The cost matrices. *)

WeightTypes ==
    [distance : 0..10, time : 0..10, fairness : 0..10, quality : 0..10, urgency : 0..10]
CriteriaTypes == [distance : Nat, time : Nat, fairness : Nat, quality : Nat]

LEMMA WeightsType ==
    ASSUME NEW objective \in A!Objective
    PROVE  A!Weights(A!DefaultWeights, objective) \in WeightTypes
  BY DEF A!Objective, A!Weights, A!DefaultWeights, A!Weighing, WeightTypes

\* Speeds divide 60, so the minutes of two ways add up.
LEMMA TravelTimes ==
    ASSUME NEW courier \in CourierTypes, NEW x \in Nat, NEW y \in Nat
    PROVE  /\ A!TravelTime(x, courier) \in Nat
           /\ A!TravelTime(x + y, courier) = A!TravelTime(x, courier) + A!TravelTime(y, courier)
<1>1. PICK s \in 1..60 : s = courier.avg_speed /\ 60 % s = 0
  BY DEF CourierTypes
<1>2. s \in {1, 2, 3, 4, 5, 6, 10, 12, 15, 20, 30, 60}
  BY <1>1
<1>3. 60 \div s \in Nat /\ \A km \in Nat : (60 * km) \div s = (60 \div s) * km
  BY <1>2
<1>4. PICK k \in Nat : \A km \in Nat : (60 * km) \div s = k * km
  <2>1. PICK k \in Nat : k = 60 \div s
    BY <1>3
  <2>2. \A km \in Nat : (60 * km) \div s = k * km
    BY <1>3, <2>1
  <2>3. QED
    BY <2>2
<1>5. \A km \in Nat : A!TravelTime(km, courier) = k * km
  BY <1>1, <1>4 DEF A!TravelTime
<1>6. x + y \in Nat /\ k * (x + y) = k * x + k * y /\ k * x \in Nat /\ k * y \in Nat
  OBVIOUS
<1>7. QED
  BY <1>5, <1>6

LEMMA CriteriaType ==
    ASSUME NEW courier \in CourierTypes, NEW pickup \in Nat, NEW delivery \in Nat
    PROVE  A!Criteria(courier, pickup, delivery) \in CriteriaTypes
<1>1. /\ courier.orders_today \in Nat /\ courier.rating \in 0..50 /\ pickup + delivery \in Nat
  BY DEF CourierTypes
<1>2. A!TravelTime(pickup + delivery, courier) \in Nat
  BY <1>1, TravelTimes
<1>3. QED
  BY <1>1, <1>2 DEF A!Criteria, CriteriaTypes

LEMMA WeighedType ==
    ASSUME NEW weights \in WeightTypes, NEW criteria \in CriteriaTypes
    PROVE  A!Weighed(weights, criteria) \in Nat
<1>1. /\ weights.distance \in Nat /\ weights.time \in Nat /\ weights.fairness \in Nat
      /\ weights.quality \in Nat
      /\ criteria.distance \in Nat /\ criteria.time \in Nat /\ criteria.fairness \in Nat
      /\ criteria.quality \in Nat
  BY DEF WeightTypes, CriteriaTypes
<1>2. \A a, b \in Nat : a * b \in Nat
  OBVIOUS
<1>3. QED
  BY <1>1, <1>2 DEF A!Weighed

LEMMA UrgencyType ==
    ASSUME NEW order \in OrderTypes
    PROVE  A!Urgency(order) \in 0..200
  BY DEF OrderTypes, A!Urgency

\* What is not ruled out costs less than what is.
LEMMA CostIsBounded ==
    ASSUME NEW weights \in WeightTypes, NEW order \in OrderTypes, NEW courier \in CourierTypes,
           NEW pickup \in Nat, ~A!IsPenalized(courier, pickup, order.delivery, Constraints)
    PROVE  A!Weighed(weights, A!Criteria(courier, pickup, order.delivery))
             + weights.urgency * A!Urgency(order) < INFINITY_COST
<1>1. /\ weights.distance \in 0..10 /\ weights.time \in 0..10 /\ weights.fairness \in 0..10
      /\ weights.quality \in 0..10 /\ weights.urgency \in 0..10
  BY DEF WeightTypes
<1>2. order.delivery \in Nat /\ A!Urgency(order) \in 0..200
  BY UrgencyType DEF OrderTypes
<1>3. PICK km, min, today, rating \in Nat :
        /\ km = pickup + order.delivery /\ min = A!TravelTime(pickup + order.delivery, courier)
        /\ today = courier.orders_today /\ rating = courier.rating /\ rating <= 50
  <2>1. courier.orders_today \in Nat /\ courier.rating \in 0..50 /\ pickup + order.delivery \in Nat
    BY <1>2 DEF CourierTypes
  <2>2. A!TravelTime(pickup + order.delivery, courier) \in Nat
    BY <2>1, TravelTimes
  <2>3. courier.rating \in Nat /\ courier.rating <= 50
    BY <2>1
  <2>4. QED
    BY ONLY <2>1, <2>2, <2>3, Zenon
<1>4. PICK maxKm, maxMin, maxToday \in Nat :
        /\ maxKm = Constraints.max_total_distance /\ maxMin = Constraints.max_delivery_time
        /\ maxToday = Constraints.max_orders_per_courier
  BY AssignmentProblemsAssumption DEF ConstraintTypes
<1>5. km <= maxKm /\ min <= maxMin /\ today <= maxToday
  <2>1. ~(km > maxKm) /\ ~(min > maxMin) /\ ~(today >= maxToday)
    BY <1>3, <1>4 DEF A!IsPenalized
  <2>2. QED
    BY <2>1
\* A weight is one of eleven: what is weighed is linear.
<1>6. \A w \in 0..10, x, y \in Nat : x <= y => w * x \in Nat /\ w * x <= 10 * y
  BY SMTT(20)
<1> DEFINE d == weights.distance * (100 * km)
           t == weights.time * (100 * min)
           f == weights.fairness * (5 * today)
           q == weights.quality * (2 * (50 - rating))
           u == weights.urgency * A!Urgency(order)
<1>7. /\ d \in Nat /\ d <= 10 * (100 * maxKm)
      /\ t \in Nat /\ t <= 10 * (100 * maxMin)
      /\ f \in Nat /\ f <= 10 * (5 * maxToday)
      /\ q \in Nat /\ q <= 10 * 100
      /\ u \in Nat /\ u <= 10 * 200
  <2>1. /\ 100 * km \in Nat /\ 100 * km <= 100 * maxKm /\ 100 * maxKm \in Nat
        /\ 100 * min \in Nat /\ 100 * min <= 100 * maxMin /\ 100 * maxMin \in Nat
        /\ 5 * today \in Nat /\ 5 * today <= 5 * maxToday /\ 5 * maxToday \in Nat
        /\ 2 * (50 - rating) \in Nat /\ 2 * (50 - rating) <= 100
    BY <1>3, <1>5
  <2>2. A!Urgency(order) \in Nat /\ A!Urgency(order) <= 200
    BY <1>2
  <2>3. d \in Nat /\ d <= 10 * (100 * maxKm) /\ t \in Nat /\ t <= 10 * (100 * maxMin)
    BY ONLY <1>1, <1>6, <2>1
  <2>4. f \in Nat /\ f <= 10 * (5 * maxToday) /\ q \in Nat /\ q <= 10 * 100
    BY ONLY <1>1, <1>6, <2>1
  <2>5. u \in Nat /\ u <= 10 * 200
    BY ONLY <1>1, <1>6, <2>2
  <2>6. QED
    BY <2>3, <2>4, <2>5
<1>8. A!Weighed(weights, A!Criteria(courier, pickup, order.delivery)) = d + t + f + q
  BY <1>3 DEF A!Weighed, A!Criteria
<1>9. /\ INFINITY_COST \in Int
      /\ 10 * (100 * maxKm) + 10 * (100 * maxMin) + 10 * (5 * maxToday) + 10 * 100 + 10 * 200
           < INFINITY_COST
  BY <1>4, AuctionAssumption, AssignmentProblemsAssumption DEF GreatestCost
<1> HIDE DEF d, t, f, q, u
<1>10. d + t + f + q + u < INFINITY_COST
  BY ONLY <1>4, <1>7, <1>9
<1>11. QED
  BY <1>8, <1>10 DEF u

\* What build allows build_fast allows, since whole minutes add up.
LEMMA FeasibleIsUnpenalized ==
    ASSUME NEW order \in OrderTypes, NEW courier \in CourierTypes, NEW pickup \in Nat,
           A!IsFeasible(order, courier, pickup, order.delivery, Constraints)
    PROVE  ~A!IsPenalized(courier, pickup, order.delivery, Constraints)
<1>1. order.delivery \in Nat /\ order.prep_time \in Nat
  BY DEF OrderTypes
<1>2. PICK a, b \in Nat :
        /\ a = A!TravelTime(pickup, courier) /\ b = A!TravelTime(order.delivery, courier)
        /\ A!TravelTime(pickup + order.delivery, courier) = a + b
  <2>1. /\ A!TravelTime(pickup, courier) \in Nat /\ A!TravelTime(order.delivery, courier) \in Nat
        /\ A!TravelTime(pickup + order.delivery, courier)
             = A!TravelTime(pickup, courier) + A!TravelTime(order.delivery, courier)
    BY <1>1, TravelTimes
  <2>2. QED
    BY <2>1
<1>3. /\ Constraints.max_delivery_time \in Nat /\ Constraints.max_pickup_distance \in Nat
      /\ Constraints.max_total_distance \in Nat /\ Constraints.max_orders_per_courier \in Nat
      /\ Constraints.min_courier_rating \in Nat /\ Constraints.min_completion_rate \in Nat
  BY AssignmentProblemsAssumption DEF ConstraintTypes
<1>4. courier.rating \in Int /\ courier.completion_rate \in Int /\ courier.orders_today \in Int
  BY DEF CourierTypes
<1>5. a + order.prep_time + b <= Constraints.max_delivery_time
  BY <1>2 DEF A!IsFeasible
<1>6. a + b <= Constraints.max_delivery_time
  BY <1>1, <1>2, <1>3, <1>5
<1>7. QED
  BY <1>1, <1>2, <1>3, <1>4, <1>6 DEF A!IsFeasible, A!IsPenalized

\* By how much build_fast is dearer: by the urgency alone.
Gap(weights, order) ==
    weights.urgency * A!Urgency(order) + (IF order.age > 10 THEN 100 * weights.urgency ELSE 0)

LEMMA GapRange ==
    ASSUME NEW weights \in WeightTypes, NEW order \in OrderTypes
    PROVE  Gap(weights, order) \in Int /\ 0 <= Gap(weights, order)
             /\ Gap(weights, order) <= 300 * weights.urgency
<1>1. PICK u \in Nat : u = weights.urgency
  BY DEF WeightTypes
<1>2. PICK g \in 0..200 : g = A!Urgency(order)
  BY UrgencyType
<1>3. order.age \in Nat /\ (~(order.age > 10) => g <= 100)
  BY <1>2 DEF OrderTypes, A!Urgency
<1>4. u * g \in Nat /\ u * g <= 200 * u /\ (g <= 100 => u * g <= 100 * u)
  <2>1. PICK rest \in Nat : g + rest = 200
    OBVIOUS
  <2>2. u * g + u * rest = 200 * u /\ u * rest \in Nat /\ u * g \in Nat
    BY <2>1
  <2>3. ASSUME g <= 100 PROVE u * g <= 100 * u
    <3>1. PICK left \in Nat : g + left = 100
      BY <2>3
    <3>2. u * g + u * left = 100 * u /\ u * left \in Nat
      BY <3>1
    <3>3. QED
      BY <2>2, <3>2
  <2>4. QED
    BY <2>2, <2>3
<1>5. Gap(weights, order) = u * g + (IF order.age > 10 THEN 100 * u ELSE 0)
  BY <1>1, <1>2 DEF Gap
<1>6. QED
  BY <1>1, <1>3, <1>4, <1>5

\* Whatever the orders, couriers and limits, build_fast allows what build allows, and
\* for every courier of an order it asks for the same amount more.
THEOREM AgreeingBuilds == Spec => []BuildsAgree
<1>1. BuildsAgree
  <2> SUFFICES ASSUME NEW order \in SomeOrders, NEW pickup \in SomeDistances,
                      NEW objective \in A!Objective
               PROVE  LET weights == A!Weights(A!DefaultWeights, objective)
                          Slow(c) == A!AssignmentCost(weights, order, c, pickup, order.delivery, Constraints)
                          Fast(c) == A!FastCost(weights, order, c, pickup, order.delivery, Constraints)
                          Allowed == {c \in SomeCouriers :
                                         A!IsFeasible(order, c, pickup, order.delivery, Constraints)}
                          Gaps == {Fast(c) - Slow(c) : c \in Allowed}
                      IN  /\ Cardinality(Gaps) <= 1
                          /\ \A gap \in Gaps : 0 <= gap /\ gap <= 300 * weights.urgency
    BY DEF BuildsAgree
  <2> DEFINE weights == A!Weights(A!DefaultWeights, objective)
             Slow(c) == A!AssignmentCost(weights, order, c, pickup, order.delivery, Constraints)
             Fast(c) == A!FastCost(weights, order, c, pickup, order.delivery, Constraints)
             Allowed == {c \in SomeCouriers :
                            A!IsFeasible(order, c, pickup, order.delivery, Constraints)}
             Gaps == {Fast(c) - Slow(c) : c \in Allowed}
             gap == Gap(weights, order)
  <2>1. /\ order \in OrderTypes /\ pickup \in Nat /\ weights \in WeightTypes
        /\ order.delivery \in Nat
    BY AssignmentProblemsAssumption, WeightsType DEF OrderTypes
  <2>2. gap \in Int /\ 0 <= gap /\ gap <= 300 * weights.urgency
    BY <2>1, GapRange
  <2>3. ASSUME NEW c \in Allowed PROVE Fast(c) - Slow(c) = gap
    <3> DEFINE criteria == A!Criteria(c, pickup, order.delivery)
    <3>1. c \in CourierTypes /\ A!IsFeasible(order, c, pickup, order.delivery, Constraints)
      BY AssignmentProblemsAssumption
    <3>2. ~A!IsPenalized(c, pickup, order.delivery, Constraints)
      BY <2>1, <3>1, FeasibleIsUnpenalized
    <3>3. criteria \in CriteriaTypes
      BY <2>1, <3>1, CriteriaType
    <3> HIDE DEF weights, criteria
    <3>4. PICK n \in Nat : n = A!Weighed(weights, criteria)
      BY <2>1, <3>3, WeighedType
    <3>5. Fast(c) = n + weights.urgency * A!Urgency(order)
      BY <3>2, <3>4 DEF A!FastCost, criteria
    <3>6. Slow(c) = n - (IF order.age > 10 THEN 100 * weights.urgency ELSE 0)
      BY <3>1, <3>4 DEF A!AssignmentCost, criteria
    <3>7. weights.urgency * A!Urgency(order) \in Int /\ 100 * weights.urgency \in Int
      <4>1. A!Urgency(order) \in Int /\ weights.urgency \in Int
        BY <2>1, UrgencyType DEF WeightTypes
      <4>2. QED
        BY <4>1
    <3> HIDE DEF Fast, Slow
    <3>8. QED
      BY <3>5, <3>6, <3>7 DEF Gap
  <2> HIDE DEF Fast, Slow, gap, Allowed, weights
  <2>4. Gaps \in SUBSET {gap}
    BY <2>3
  <2>5. IsFiniteSet({gap}) /\ Cardinality({gap}) = 1
    BY FS_Singleton
  <2> HIDE DEF Gaps
  <2>6. Cardinality(Gaps) <= 1
    BY <2>4, <2>5, FS_Subset
  <2>7. \A x \in Gaps : 0 <= x /\ x <= 300 * weights.urgency
    BY <2>2, <2>4
  <2>8. QED
    BY <2>6, <2>7 DEF Gaps, Fast, Slow, Allowed, weights
<1>2. QED
  BY <1>1, PTL

-----------------------------------------------------------------------------
(* The solutions. *)

\* What a problem is made of.
LEMMA ProblemParts ==
    ASSUME NEW problem, IsProblem(problem)
    PROVE  LET R == DOMAIN problem.orders
               C == DOMAIN problem.couriers
           IN  /\ R \in SUBSET Nat /\ IsFiniteSet(R) /\ R # {}
               /\ C \in SUBSET Nat /\ IsFiniteSet(C)
               /\ \A i \in R : problem.orders[i] \in OrderTypes
               /\ \A j \in C : problem.couriers[j] \in CourierTypes
               /\ \A i \in R, j \in C : problem.pickup[i][j] \in Nat
               /\ problem.constraints = Constraints /\ problem.objective \in A!Objective
<1> DEFINE R == DOMAIN problem.orders
           C == DOMAIN problem.couriers
<1>1. /\ problem.orders \in Seq(OrderTypes) /\ problem.orders # <<>>
      /\ problem.couriers \in Seq(CourierTypes)
      /\ problem.pickup \in Seq(Seq(Nat)) /\ Len(problem.pickup) = Len(problem.orders)
      /\ problem.constraints = Constraints /\ problem.objective \in A!Objective
  BY DEF IsProblem, ProblemTypes
<1>2. PICK n, k \in Nat : n = Len(problem.orders) /\ k = Len(problem.couriers)
  BY <1>1
<1>3. R = 1..n /\ C = 1..k /\ n # 0
  BY <1>1, <1>2
<1>4. /\ \A i \in R : problem.orders[i] \in OrderTypes
      /\ \A j \in C : problem.couriers[j] \in CourierTypes
  BY <1>1
<1>5. ASSUME NEW i \in R, NEW j \in C PROVE problem.pickup[i][j] \in Nat
  <2>1. i \in 1..Len(problem.pickup) /\ j \in 1..k
    BY <1>1, <1>2, <1>3
  <2>2. problem.pickup[i] \in Seq(Nat)
    BY <1>1, <2>1
  <2>3. Len(problem.pickup[i]) = k
    BY <1>2 DEF IsProblem
  <2>4. QED
    BY <2>1, <2>2, <2>3
<1>6. IsFiniteSet(1..n) /\ IsFiniteSet(1..k)
  <2>1. 1 \in Int /\ n \in Int /\ k \in Int
    OBVIOUS
  <2>2. QED
    BY ONLY <2>1, FS_Interval
<1>7. QED
  BY <1>1, <1>3, <1>4, <1>5, <1>6

\* Whether a pair of the problem is ruled out, and what it costs if it is not.
RuledOut(problem, p) ==
    A!IsPenalized(problem.couriers[p[2]], problem.pickup[p[1]][p[2]],
                  problem.orders[p[1]].delivery, Constraints)
WeightsOf(problem) == A!Weights(A!DefaultWeights, problem.objective)
CriteriaOf(problem, p) ==
    A!Criteria(problem.couriers[p[2]], problem.pickup[p[1]][p[2]], problem.orders[p[1]].delivery)

LEMMA MatrixEntries ==
    ASSUME NEW problem, IsProblem(problem)
    PROVE  LET R == DOMAIN problem.orders
               C == DOMAIN problem.couriers
               m == Matrix(problem)
               weights == WeightsOf(problem)
           IN  /\ m \in [R -> [C -> 0..INFINITY_COST]]
               /\ weights \in WeightTypes
               /\ \A p \in R \X C :
                     /\ m[p[1]][p[2]] < INFINITY_COST <=> ~RuledOut(problem, p)
                     /\ CriteriaOf(problem, p) \in CriteriaTypes
                     /\ ~RuledOut(problem, p) =>
                           m[p[1]][p[2]] = A!Weighed(weights, CriteriaOf(problem, p))
                               + weights.urgency * A!Urgency(problem.orders[p[1]])
<1> DEFINE R == DOMAIN problem.orders
           C == DOMAIN problem.couriers
           m == Matrix(problem)
           weights == WeightsOf(problem)
           order(i) == problem.orders[i]
           courier(j) == problem.couriers[j]
           way(i, j) == problem.pickup[i][j]
           criteria(i, j) == A!Criteria(courier(j), way(i, j), order(i).delivery)
           out(i, j) == A!IsPenalized(courier(j), way(i, j), order(i).delivery, Constraints)
           finite(i, j) == A!Weighed(weights, criteria(i, j)) + weights.urgency * A!Urgency(order(i))
<1>1. /\ \A i \in R : order(i) \in OrderTypes
      /\ \A j \in C : courier(j) \in CourierTypes
      /\ \A i \in R, j \in C : way(i, j) \in Nat
      /\ problem.constraints = Constraints /\ weights \in WeightTypes
  BY ProblemParts, WeightsType DEF WeightsOf
<1>2. \A i \in R, j \in C : m[i][j] = IF out(i, j) THEN INFINITY_COST ELSE finite(i, j)
  BY <1>1 DEF Matrix, A!BuildFast, A!FastCost, WeightsOf
<1>3. /\ DOMAIN m = R /\ \A i \in R : DOMAIN m[i] = C
      /\ m = [i \in R |-> [j \in C |-> m[i][j]]]
  BY DEF Matrix, A!BuildFast
<1>4. INFINITY_COST \in Nat
  BY AuctionAssumption
<1>5. ASSUME NEW i \in R, NEW j \in C
      PROVE  criteria(i, j) \in CriteriaTypes /\ finite(i, j) \in Nat
  <2>1. order(i) \in OrderTypes /\ courier(j) \in CourierTypes /\ way(i, j) \in Nat
    BY <1>1
  <2>2. order(i).delivery \in Nat
    BY <2>1 DEF OrderTypes
  <2> HIDE DEF order, courier, way, weights
  <2>3. criteria(i, j) \in CriteriaTypes
    BY <2>1, <2>2, CriteriaType
  <2> HIDE DEF criteria
  <2>4. A!Weighed(weights, criteria(i, j)) \in Nat
    BY <1>1, <2>3, WeighedType
  <2>5. A!Urgency(order(i)) \in Nat /\ weights.urgency \in Nat
    BY <1>1, <2>1, UrgencyType DEF WeightTypes
  <2>6. \A a, b \in Nat : a * b \in Nat
    OBVIOUS
  <2>7. QED
    BY <2>3, <2>4, <2>5, <2>6
<1>6. ASSUME NEW i \in R, NEW j \in C, ~out(i, j) PROVE finite(i, j) < INFINITY_COST
  <2>1. order(i) \in OrderTypes /\ courier(j) \in CourierTypes /\ way(i, j) \in Nat
    BY <1>1
  <2> HIDE DEF order, courier, way, weights
  <2>2. QED
    BY <1>1, <1>6, <2>1, CostIsBounded
<1> HIDE DEF order, courier, way, criteria, out, finite, m, weights, R, C
<1>7. \A i \in R, j \in C : /\ m[i][j] \in 0..INFINITY_COST
                            /\ m[i][j] < INFINITY_COST <=> ~out(i, j)
  BY <1>2, <1>4, <1>5, <1>6
<1>8. m \in [R -> [C -> 0..INFINITY_COST]]
  BY <1>3, <1>7
<1>9. ASSUME NEW p \in R \X C
      PROVE  /\ m[p[1]][p[2]] < INFINITY_COST <=> ~RuledOut(problem, p)
             /\ CriteriaOf(problem, p) \in CriteriaTypes
             /\ ~RuledOut(problem, p) =>
                   m[p[1]][p[2]] = A!Weighed(weights, CriteriaOf(problem, p))
                       + weights.urgency * A!Urgency(problem.orders[p[1]])
  <2>1. p[1] \in R /\ p[2] \in C
    OBVIOUS
  <2>2. /\ RuledOut(problem, p) <=> out(p[1], p[2])
        /\ CriteriaOf(problem, p) = criteria(p[1], p[2])
        /\ order(p[1]) = problem.orders[p[1]]
    BY DEF RuledOut, CriteriaOf, out, criteria, order, courier, way
  <2>3. QED
    BY <1>2, <1>5, <1>7, <2>1, <2>2 DEF finite
<1>10. QED
  BY <1>1, <1>8, <1>9 DEF m, weights, R, C

\* Assigners runs the same Hungarian.
LEMMA SameHungarian ==
    ASSUME NEW m PROVE A!H!Solutions(m) = H!Solutions(m)
  BY DEF A!H!Solutions, H!Solutions, A!H!LinearSumAssignment, H!LinearSumAssignment,
         A!H!PadToSquare, H!PadToSquare, A!H!Indices, H!Indices, A!H!Rows, H!Rows,
         A!H!Columns, H!Columns, A!H!Total, H!Total, A!H!Extract, H!Extract,
         A!H!Injection, H!Injection, A!H!IsInjective, H!IsInjective, A!H!Min, H!Min,
         A!H!SumFunction, H!SumFunction, A!H!SumFunctionOnSet, H!SumFunctionOnSet,
         A!H!FoldFunctionOnSet, H!FoldFunctionOnSet, A!H!MapThenFoldSet, H!MapThenFoldSet

IsSolution(problem, S) ==
    /\ S \in SUBSET ((DOMAIN problem.orders) \X (DOMAIN problem.couriers))
    /\ IsMatching(S)
    /\ \A p \in S : ~RuledOut(problem, p)

\* Hungarian returns a matching of allowed pairs, and none saves more.
LEMMA HungarianSolves ==
    ASSUME NEW problem, IsProblem(problem),
           NEW S \in A!HungarianSolutions(problem)
    PROVE  LET R == DOMAIN problem.orders
               C == DOMAIN problem.couriers
               saving == Savings(R, C, Matrix(problem))
           IN  /\ IsSolution(problem, S)
               /\ \A M : IsSolution(problem, M) =>
                     SumFunctionOnSet(saving, M) <= SumFunctionOnSet(saving, S)
<1> DEFINE R == DOMAIN problem.orders
           C == DOMAIN problem.couriers
           m == Matrix(problem)
<1>1. /\ IsFiniteSet(R) /\ R # {} /\ IsFiniteSet(C)
      /\ m \in [R -> [C -> 0..INFINITY_COST]]
  BY ProblemParts, MatrixEntries
<1>2. \A p \in R \X C : m[p[1]][p[2]] < INFINITY_COST <=> ~RuledOut(problem, p)
  BY MatrixEntries
<1>3. S \in H!Solutions(m)
  <2>1. S \in A!H!Solutions(m)
    BY DEF A!HungarianSolutions, Matrix
  <2> HIDE DEF m
  <2>2. QED
    BY <2>1, SameHungarian
<1> HIDE DEF R, C, m
<1>4. /\ S \in SUBSET (R \X C) /\ IsMatching(S) /\ \A p \in S : m[p[1]][p[2]] < INFINITY_COST
      /\ \A M \in SUBSET (R \X C) :
            IsMatching(M) /\ (\A p \in M : m[p[1]][p[2]] < INFINITY_COST)
                => SumFunctionOnSet(Savings(R, C, m), M) <= SumFunctionOnSet(Savings(R, C, m), S)
  BY ONLY <1>1, <1>3, SolutionSavesMost
<1>5. IsSolution(problem, S)
  BY <1>2, <1>4 DEF IsSolution, R, C
<1>6. ASSUME NEW M, IsSolution(problem, M)
      PROVE  SumFunctionOnSet(Savings(R, C, m), M) <= SumFunctionOnSet(Savings(R, C, m), S)
  <2>1. M \in SUBSET (R \X C) /\ IsMatching(M) /\ \A p \in M : ~RuledOut(problem, p)
    BY <1>6 DEF IsSolution, R, C
  <2>2. \A p \in M : m[p[1]][p[2]] < INFINITY_COST
    BY <1>2, <2>1
  <2>3. QED
    BY <1>4, <2>1, <2>2
<1>7. QED
  BY <1>5, <1>6 DEF R, C, m

\* So is what greedy returns for batches that are too large.
LEMMA GreedySolves ==
    ASSUME NEW problem, IsProblem(problem),
           NEW S \in A!GreedySolutions(problem)
    PROVE  IsSolution(problem, S)
<1> DEFINE R == DOMAIN problem.orders
           C == DOMAIN problem.couriers
           m == Matrix(problem)
           age(i) == problem.orders[i].age
           earlier(i) == {p \in S : A!Precedes(problem, p[1], i)}
           best(i) == A!BestCourier(m[i], A!CouriersOf(earlier(i)))
<1>1. S \in SUBSET (R \X C) /\ \A i \in R : {p[2] : p \in {q \in S : q[1] = i}} = best(i)
  BY DEF A!GreedySolutions, Matrix
<1>2. R \in SUBSET Nat /\ \A i \in R : age(i) \in Nat
  BY ProblemParts DEF OrderTypes
<1>3. C \in SUBSET Nat /\ m \in [R -> [C -> 0..INFINITY_COST]]
  BY ProblemParts, MatrixEntries
<1>4. \A p \in R \X C : m[p[1]][p[2]] < INFINITY_COST <=> ~RuledOut(problem, p)
  BY MatrixEntries
<1>5. ASSUME NEW i \in R, NEW j \in best(i)
      PROVE  /\ j \in C /\ m[i][j] < INFINITY_COST /\ j \notin A!CouriersOf(earlier(i))
             /\ \A k \in best(i) : j = k
  <2>1. DOMAIN m[i] = C /\ \A k \in C : m[i][k] \in Int /\ k \in Int
    BY <1>3, AuctionAssumption
  <2> HIDE DEF m, earlier
  <2>2. QED
    BY <1>5, <2>1 DEF A!BestCourier
<1>6. ASSUME NEW p \in S
      PROVE  p \in R \X C /\ p[1] \in R /\ p = <<p[1], p[2]>> /\ p[2] \in best(p[1])
  <2> HIDE DEF best, R, C
  <2>1. p \in R \X C /\ p[1] \in R /\ p = <<p[1], p[2]>>
    BY <1>1
  <2>2. p[2] \in {t[2] : t \in {q \in S : q[1] = p[1]}}
    OBVIOUS
  <2>3. QED
    BY <1>1, <2>1, <2>2
<1>7. \A i, k \in R : i # k => A!Precedes(problem, i, k) \/ A!Precedes(problem, k, i)
  <2> SUFFICES ASSUME NEW i \in R, NEW k \in R, i # k
               PROVE  A!Precedes(problem, i, k) \/ A!Precedes(problem, k, i)
    OBVIOUS
  <2>1. /\ A!Precedes(problem, i, k) <=> age(i) > age(k) \/ (age(i) = age(k) /\ i < k)
        /\ A!Precedes(problem, k, i) <=> age(k) > age(i) \/ (age(k) = age(i) /\ k < i)
    BY DEF A!Precedes
  <2>2. i \in Nat /\ k \in Nat /\ age(i) \in Nat /\ age(k) \in Nat
    BY <1>2
  <2> HIDE DEF age
  <2>3. QED
    BY <2>1, <2>2
<1> HIDE DEF best, R, C, m
<1>8. ASSUME NEW p \in S, NEW q \in S, p[1] = q[1] \/ p[2] = q[2] PROVE p = q
  <2> HIDE DEF earlier
  <2>0. /\ p[1] \in R /\ p = <<p[1], p[2]>> /\ p[2] \in best(p[1])
        /\ q[1] \in R /\ q = <<q[1], q[2]>> /\ q[2] \in best(q[1])
    BY <1>6
  <2>1. CASE p[1] = q[1]
    <3>1. p[2] = q[2]
      BY <1>5, <2>0, <2>1
    <3>2. QED
      BY ONLY <2>0, <2>1, <3>1
  <2>2. CASE p[2] = q[2] /\ p[1] # q[1]
    <3>1. /\ A!Precedes(problem, p[1], q[1]) => p \in earlier(q[1])
          /\ A!Precedes(problem, q[1], p[1]) => q \in earlier(p[1])
      BY DEF earlier
    <3>2. /\ p \in earlier(q[1]) => q[2] \in A!CouriersOf(earlier(q[1]))
          /\ q \in earlier(p[1]) => p[2] \in A!CouriersOf(earlier(p[1]))
      BY <2>2 DEF A!CouriersOf
    <3>3. QED
      BY <1>5, <1>7, <2>0, <2>2, <3>1, <3>2
  <2>3. QED
    BY <1>8, <2>1, <2>2
<1>9. IsMatching(S)
  BY <1>8 DEF IsMatching, Conflict
<1>10. \A p \in S : ~RuledOut(problem, p)
  <2> SUFFICES ASSUME NEW p \in S PROVE ~RuledOut(problem, p)
    OBVIOUS
  <2>1. p \in R \X C /\ p[1] \in R /\ p[2] \in best(p[1])
    BY <1>6
  <2>2. m[p[1]][p[2]] < INFINITY_COST
    BY <1>5, <2>1
  <2>3. QED
    BY <1>4, <2>1, <2>2
<1>11. QED
  BY <1>1, <1>9, <1>10 DEF IsSolution, R, C

\* Whatever the problem: what Hungarian and batch return respects the total distance,
\* the delivery time without the preparation, and the capacity of every courier.
THEOREM KeptLimits == Spec => []SolutionsKeepLimits
<1>1. SolutionsKeepLimits
  <2> SUFFICES ASSUME NEW problem \in SomeProblems,
                      NEW S \in A!HungarianSolutions(problem) \union A!BatchSolutions(problem),
                      NEW p \in S
               PROVE  LET courier == problem.couriers[p[2]]
                          order == problem.orders[p[1]]
                          details == A!Details(order, courier, problem.pickup[p[1]][p[2]])
                      IN  /\ details.total_distance <= Constraints.max_total_distance
                          /\ details.delivery_time - order.prep_time <= Constraints.max_delivery_time
                          /\ courier.current_load + Cardinality({q \in S : q[2] = p[2]}) <= courier.max_load
    BY DEF SolutionsKeepLimits
  <2> DEFINE R == DOMAIN problem.orders
             C == DOMAIN problem.couriers
  <2>1. IsProblem(problem)
    BY AssignmentProblemsAssumption
  <2>2. IsSolution(problem, S)
    BY <2>1, HungarianSolves, GreedySolves DEF A!BatchSolutions
  <2>3. /\ p[1] \in R /\ p[2] \in C /\ ~RuledOut(problem, p)
        /\ \A q \in S : q[2] = p[2] => q = p
    BY <2>2 DEF IsSolution, IsMatching, Conflict
  <2>4. PICK courier \in CourierTypes : courier = problem.couriers[p[2]]
    BY <2>1, <2>3, ProblemParts
  <2>5. PICK order \in OrderTypes : order = problem.orders[p[1]]
    BY <2>1, <2>3, ProblemParts
  <2>6. PICK way \in Nat : way = problem.pickup[p[1]][p[2]]
    BY <2>1, <2>3, ProblemParts
  <2>7. ~A!IsPenalized(courier, way, order.delivery, Constraints)
    BY <2>3, <2>4, <2>5, <2>6 DEF RuledOut
  <2>8. order.delivery \in Nat /\ order.prep_time \in Nat
    BY DEF OrderTypes
  <2>9. PICK a, b \in Nat :
          /\ a = A!TravelTime(way, courier) /\ b = A!TravelTime(order.delivery, courier)
          /\ A!TravelTime(way + order.delivery, courier) = a + b
    <3>1. /\ A!TravelTime(way, courier) \in Nat /\ A!TravelTime(order.delivery, courier) \in Nat
          /\ A!TravelTime(way + order.delivery, courier)
               = A!TravelTime(way, courier) + A!TravelTime(order.delivery, courier)
      BY <2>8, TravelTimes
    <3>2. QED
      BY <3>1
  <2>10. Constraints.max_total_distance \in Nat /\ Constraints.max_delivery_time \in Nat
    BY AssignmentProblemsAssumption DEF ConstraintTypes
  <2>11. /\ way + order.delivery <= Constraints.max_total_distance
         /\ a + b <= Constraints.max_delivery_time
         /\ courier.current_load < courier.max_load
    <3>1. /\ ~(way + order.delivery > Constraints.max_total_distance)
          /\ ~(a + b > Constraints.max_delivery_time)
          /\ courier.current_load < courier.max_load
      BY <2>7, <2>9 DEF A!IsPenalized, A!HasCapacity
    <3>2. QED
      BY <2>8, <2>10, <3>1
  <2>12. Cardinality({q \in S : q[2] = p[2]}) = 1
    <3>1. {q \in S : q[2] = p[2]} = {p}
      BY <2>3
    <3>2. QED
      BY <3>1, FS_Singleton
  <2>13. courier.current_load \in Nat /\ courier.max_load \in Nat
    BY DEF CourierTypes
  <2>14. /\ A!Details(order, courier, way).total_distance = way + order.delivery
         /\ A!Details(order, courier, way).delivery_time = a + order.prep_time + b
    BY <2>9 DEF A!Details
  <2>15. A!Details(order, courier, way).delivery_time - order.prep_time = a + b
    BY <2>8, <2>14
  <2>16. courier.current_load + 1 <= courier.max_load
    BY <2>11, <2>13
  <2>17. QED
    BY <2>4, <2>5, <2>6, <2>11, <2>12, <2>14, <2>15, <2>16
<1>2. QED
  BY <1>1, PTL

-----------------------------------------------------------------------------
(* What the solutions come to by the criteria. *)

\* A sum of products with a common factor, and what is added to each.
LEMMA SumOfProduct ==
    ASSUME NEW S, IsFiniteSet(S), NEW w \in Int, NEW f, NEW g, NEW h,
           \A x \in S : f[x] \in Int /\ g[x] \in Int /\ h[x] = w * f[x] + g[x]
    PROVE  SumFunctionOnSet(h, S) = w * SumFunctionOnSet(f, S) + SumFunctionOnSet(g, S)
<1> DEFINE Sum(e, T) == SumFunctionOnSet(e, T)
           P == {T \in SUBSET S : Sum(h, T) = w * Sum(f, T) + Sum(g, T)}
<1>1. \A x \in S : f[x] \in Int /\ g[x] \in Int /\ h[x] \in Int
  <2>1. \A a, b \in Int : w * a + b \in Int
    OBVIOUS
  <2>2. QED
    BY <2>1
<1>2. ASSUME NEW T \in SUBSET S, \A W \in SUBSET T : W # T => W \in P PROVE T \in P
  <2>1. IsFiniteSet(T)
    BY FS_Subset
  <2>2. CASE T = {}
    <3>1. Sum(f, T) = 0 /\ Sum(g, T) = 0 /\ Sum(h, T) = 0
      BY <1>1, <2>1, <2>2, SumTakes
    <3>2. QED
      BY <3>1
  <2>3. CASE T # {}
    <3>1. PICK x \in T : TRUE
      BY <2>3
    <3> DEFINE U == T \ {x}
    <3>2. Sum(h, U) = w * Sum(f, U) + Sum(g, U)
      BY <1>2, <3>1
    <3>3. IsFiniteSet(U)
      BY <2>1, FS_Subset
    <3>4. /\ Sum(f, T) = f[x] + Sum(f, U) /\ Sum(g, T) = g[x] + Sum(g, U)
          /\ Sum(h, T) = h[x] + Sum(h, U)
      <4>1. /\ \A y \in T : f[y] \in Int
            /\ \A y \in T : g[y] \in Int
            /\ \A y \in T : h[y] \in Int
        BY <1>1
      <4>2. Sum(f, T) = f[x] + Sum(f, U)
        BY ONLY <2>1, <3>1, <4>1, SumTakes
      <4>3. Sum(g, T) = g[x] + Sum(g, U)
        BY ONLY <2>1, <3>1, <4>1, SumTakes
      <4>4. Sum(h, T) = h[x] + Sum(h, U)
        BY ONLY <2>1, <3>1, <4>1, SumTakes
      <4>5. QED
        BY <4>2, <4>3, <4>4
    <3>5. Sum(f, U) \in Int /\ Sum(g, U) \in Int
      BY <1>1, <3>3, SumTakes
    <3>6. f[x] \in Int /\ g[x] \in Int /\ h[x] = w * f[x] + g[x]
      BY <3>1
    <3>7. \A a, b, c, d \in Int :
             (w * a + b) + (w * c + d) = w * (a + c) + (b + d)
      OBVIOUS
    <3> HIDE DEF Sum, U
    <3>8. Sum(h, T) = w * Sum(f, T) + Sum(g, T)
      BY <3>2, <3>4, <3>5, <3>6, <3>7
    <3>9. QED
      BY <3>8
  <2>4. QED
    BY <2>2, <2>3
<1> HIDE DEF P
<1>3. S \in P
  BY <1>2, SubsetInduction
<1>4. QED
  BY <1>3 DEF P

\* What the urgency of each order costs, whoever serves it.
Urgencies(problem) ==
    [i \in DOMAIN problem.orders |->
        WeightsOf(problem).urgency * A!Urgency(problem.orders[i])]

\* What a solution saves and what it costs add up by the orders that it serves.
LEMMA SavingsByCriteria ==
    ASSUME NEW problem, IsProblem(problem),
           NEW X, IsSolution(problem, X)
    PROVE  LET saving == Savings(DOMAIN problem.orders, DOMAIN problem.couriers, Matrix(problem))
               weights == WeightsOf(problem)
               Saved == SumFunctionOnSet(saving, X)
           IN  /\ Saved \in Int
               /\ \A c \in {"distance", "time", "fairness", "quality"} : Score(problem, X, c) \in Int
               /\ SumFunctionOnSet(Urgencies(problem), OrdersOf(X)) \in Int
               /\ Saved + (weights.distance * Score(problem, X, "distance")
                           + (weights.time * Score(problem, X, "time")
                           + (weights.fairness * Score(problem, X, "fairness")
                           + (weights.quality * Score(problem, X, "quality")
                           + SumFunctionOnSet(Urgencies(problem), OrdersOf(X))))))
                     = Cardinality(OrdersOf(X)) * INFINITY_COST
<1> DEFINE R == DOMAIN problem.orders
           C == DOMAIN problem.couriers
           m == Matrix(problem)
           saving == Savings(R, C, m)
           weights == WeightsOf(problem)
           by(c) == [p \in X |-> CriteriaOf(problem, p)[c]]
           urgencies == Urgencies(problem)
           first == [p \in X |-> p[1]]
           h0 == [p \in X |-> urgencies[first[p]]]
           h1 == [p \in X |-> weights.quality * by("quality")[p] + h0[p]]
           h2 == [p \in X |-> weights.fairness * by("fairness")[p] + h1[p]]
           h3 == [p \in X |-> weights.time * by("time")[p] + h2[p]]
           h4 == [p \in X |-> weights.distance * by("distance")[p] + h3[p]]
           Sum(f) == SumFunctionOnSet(f, X)
<1>1. /\ X \in SUBSET (R \X C) /\ IsMatching(X) /\ \A p \in X : ~RuledOut(problem, p)
  BY DEF IsSolution
<1>2. IsFiniteSet(R) /\ IsFiniteSet(C) /\ \A i \in R : problem.orders[i] \in OrderTypes
  BY ProblemParts
<1>3. IsFiniteSet(X)
  <2> HIDE DEF R, C
  <2>1. QED
    BY <1>1, <1>2, FS_Product, FS_Subset
<1>4. /\ m \in [R -> [C -> 0..INFINITY_COST]] /\ weights \in WeightTypes
      /\ \A p \in X : /\ CriteriaOf(problem, p) \in CriteriaTypes
                      /\ m[p[1]][p[2]] = A!Weighed(weights, CriteriaOf(problem, p))
                               + weights.urgency * A!Urgency(problem.orders[p[1]])
  BY <1>1, MatrixEntries
<1>5. /\ weights.distance \in Nat /\ weights.time \in Nat /\ weights.fairness \in Nat
      /\ weights.quality \in Nat /\ weights.urgency \in Nat
  BY <1>4 DEF WeightTypes
<1>6. \A c \in {"distance", "time", "fairness", "quality"} : \A p \in X : by(c)[p] \in Nat
  BY <1>4 DEF CriteriaTypes
<1>7. \A i \in R : urgencies[i] \in Nat
  <2> SUFFICES ASSUME NEW i \in R PROVE urgencies[i] \in Nat
    OBVIOUS
  <2>1. A!Urgency(problem.orders[i]) \in Nat
    BY <1>2, UrgencyType
  <2>2. \A a, b \in Nat : a * b \in Nat
    OBVIOUS
  <2>3. QED
    BY <1>5, <2>1, <2>2 DEF Urgencies
<1>8. \A p \in X : first[p] \in R /\ h0[p] = urgencies[first[p]] /\ h0[p] \in Int
  BY <1>1, <1>7
<1>9. \A p \in X : /\ h1[p] = weights.quality * by("quality")[p] + h0[p]
                   /\ h2[p] = weights.fairness * by("fairness")[p] + h1[p]
                   /\ h3[p] = weights.time * by("time")[p] + h2[p]
                   /\ h4[p] = weights.distance * by("distance")[p] + h3[p]
  OBVIOUS
<1>10. \A p \in X : saving[p] \in Int /\ h4[p] \in Int /\ saving[p] + h4[p] = INFINITY_COST
  <2> SUFFICES ASSUME NEW p \in X
               PROVE  saving[p] \in Int /\ h4[p] \in Int /\ saving[p] + h4[p] = INFINITY_COST
    OBVIOUS
  <2>1. p \in R \X C /\ m[p[1]][p[2]] \in 0..INFINITY_COST
    BY <1>1, <1>4
  <2>2. saving[p] = INFINITY_COST - m[p[1]][p[2]]
    BY <2>1 DEF Savings
  <2>3. h4[p] = m[p[1]][p[2]]
    <3> DEFINE d == weights.distance * by("distance")[p]
               t == weights.time * by("time")[p]
               f == weights.fairness * by("fairness")[p]
               q == weights.quality * by("quality")[p]
               u == weights.urgency * A!Urgency(problem.orders[p[1]])
    <3>1. d \in Nat /\ t \in Nat /\ f \in Nat /\ q \in Nat
      <4>1. \A a, b \in Nat : a * b \in Nat
        OBVIOUS
      <4>2. QED
        BY <1>5, <1>6, <4>1
    <3>2. h0[p] = u /\ u \in Nat
      BY <1>7, <2>1 DEF Urgencies
    <3>3. m[p[1]][p[2]] = d + t + f + q + u
      BY <1>4 DEF A!Weighed
    <3>4. h1[p] = q + h0[p] /\ h2[p] = f + h1[p] /\ h3[p] = t + h2[p] /\ h4[p] = d + h3[p]
      BY <1>9
    <3> HIDE DEF d, t, f, q, u, h0, h1, h2, h3, h4, m
    <3>5. QED
      BY <3>1, <3>2, <3>3, <3>4
  <2>4. INFINITY_COST \in Nat
    BY AuctionAssumption
  <2> HIDE DEF m, h4, saving
  <2>5. QED
    BY <2>1, <2>2, <2>3, <2>4
<1>11. \A p \in X : h1[p] \in Int /\ h2[p] \in Int /\ h3[p] \in Int
  <2>1. \A a, b \in Nat, n \in Int : a * b + n \in Int
    OBVIOUS
  <2>2. \A p \in X : h1[p] \in Int
    BY <1>5, <1>6, <1>8, <1>9, <2>1
  <2>3. \A p \in X : h2[p] \in Int
    BY <1>5, <1>6, <1>9, <2>1, <2>2
  <2>4. QED
    BY <1>5, <1>6, <1>9, <2>1, <2>2, <2>3
<1> HIDE DEF h0, h1, h2, h3, h4, by, saving, weights, first, urgencies
<1>12. /\ Sum(h1) = weights.quality * Sum(by("quality")) + Sum(h0)
       /\ Sum(h2) = weights.fairness * Sum(by("fairness")) + Sum(h1)
       /\ Sum(h3) = weights.time * Sum(by("time")) + Sum(h2)
       /\ Sum(h4) = weights.distance * Sum(by("distance")) + Sum(h3)
  <2>1. \A c \in {"distance", "time", "fairness", "quality"} : \A p \in X : by(c)[p] \in Int
    BY <1>6
  <2>2. weights.distance \in Int /\ weights.time \in Int /\ weights.fairness \in Int
        /\ weights.quality \in Int
    BY <1>5
  <2>3. Sum(h1) = weights.quality * Sum(by("quality")) + Sum(h0)
    <3>1. PICK w, f : w = weights.quality /\ f = by("quality")
      OBVIOUS
    <3>2. /\ IsFiniteSet(X) /\ w \in Int
          /\ \A p \in X : f[p] \in Int /\ h0[p] \in Int /\ h1[p] = w * f[p] + h0[p]
      BY <1>3, <1>8, <1>9, <1>11, <2>1, <2>2, <3>1
    <3>3. Sum(h1) = w * Sum(f) + Sum(h0)
      BY ONLY <3>2, SumOfProduct
    <3>4. QED
      BY <3>1, <3>3
  <2>4. Sum(h2) = weights.fairness * Sum(by("fairness")) + Sum(h1)
    <3>1. PICK w, f : w = weights.fairness /\ f = by("fairness")
      OBVIOUS
    <3>2. /\ IsFiniteSet(X) /\ w \in Int
          /\ \A p \in X : f[p] \in Int /\ h1[p] \in Int /\ h2[p] = w * f[p] + h1[p]
      BY <1>3, <1>8, <1>9, <1>11, <2>1, <2>2, <3>1
    <3>3. Sum(h2) = w * Sum(f) + Sum(h1)
      BY ONLY <3>2, SumOfProduct
    <3>4. QED
      BY <3>1, <3>3
  <2>5. Sum(h3) = weights.time * Sum(by("time")) + Sum(h2)
    <3>1. PICK w, f : w = weights.time /\ f = by("time")
      OBVIOUS
    <3>2. /\ IsFiniteSet(X) /\ w \in Int
          /\ \A p \in X : f[p] \in Int /\ h2[p] \in Int /\ h3[p] = w * f[p] + h2[p]
      BY <1>3, <1>8, <1>9, <1>11, <2>1, <2>2, <3>1
    <3>3. Sum(h3) = w * Sum(f) + Sum(h2)
      BY ONLY <3>2, SumOfProduct
    <3>4. QED
      BY <3>1, <3>3
  <2>6. Sum(h4) = weights.distance * Sum(by("distance")) + Sum(h3)
    <3>1. PICK w, f : w = weights.distance /\ f = by("distance")
      OBVIOUS
    <3>2. /\ IsFiniteSet(X) /\ w \in Int
          /\ \A p \in X : f[p] \in Int /\ h3[p] \in Int /\ h4[p] = w * f[p] + h3[p]
      BY <1>3, <1>8, <1>9, <1>11, <2>1, <2>2, <3>1
    <3>3. Sum(h4) = w * Sum(f) + Sum(h3)
      BY ONLY <3>2, SumOfProduct
    <3>4. QED
      BY <3>1, <3>3
  <2>7. QED
    BY <2>3, <2>4, <2>5, <2>6
<1>13. Sum(saving) + Sum(h4) = Cardinality(X) * INFINITY_COST
  <2>1. INFINITY_COST \in Int
    BY AuctionAssumption
  <2>2. QED
    BY <1>3, <1>10, <2>1, SumsAddUp
<1>14. OrdersOf(X) = {first[p] : p \in X} /\ \A p, q \in X : first[p] = first[q] => p = q
  BY <1>1 DEF OrdersOf, IsMatching, Conflict, first
<1>15. Cardinality(OrdersOf(X)) = Cardinality(X)
  BY <1>3, <1>14, Images
<1>16. Sum(h0) = SumFunctionOnSet(urgencies, OrdersOf(X))
  <2>1. \A p \in X : urgencies[first[p]] \in Int
    BY <1>8
  <2>2. SumFunctionOnSet(urgencies, {first[p] : p \in X})
          = SumFunctionOnSet([p \in X |-> urgencies[first[p]]], X)
    BY <1>3, <1>14, <2>1, SumReindexed
  <2>3. QED
    BY <1>14, <2>2 DEF h0
<1>17. Sum(saving) \in Int /\ Sum(h0) \in Int
  BY <1>3, <1>8, <1>10, SumTakes
<1>18. \A c \in {"distance", "time", "fairness", "quality"} :
          Sum(by(c)) = Score(problem, X, c) /\ Sum(by(c)) \in Int
  <2> SUFFICES ASSUME NEW c \in {"distance", "time", "fairness", "quality"}
               PROVE  Sum(by(c)) = Score(problem, X, c) /\ Sum(by(c)) \in Int
    OBVIOUS
  <2>1. \A p \in X : by(c)[p] \in Int
    BY <1>6
  <2>2. Sum(by(c)) \in Int
    BY <1>3, <2>1, SumTakes
  <2>3. Sum(by(c)) = Score(problem, X, c)
    BY DEF by, Score, CriteriaOf
  <2>4. QED
    BY <2>2, <2>3
<1> HIDE DEF Sum
<1>19. Sum(saving) + (weights.distance * Sum(by("distance"))
                      + (weights.time * Sum(by("time"))
                      + (weights.fairness * Sum(by("fairness"))
                      + (weights.quality * Sum(by("quality")) + Sum(h0)))))
         = Cardinality(OrdersOf(X)) * INFINITY_COST
  BY <1>12, <1>13, <1>15
<1>20. QED
  BY <1>16, <1>17, <1>18, <1>19 DEF Sum, saving, weights, urgencies

\* A weight keeps an order, and only zero hides a difference.
LEMMA WeighingFavours ==
    ASSUME NEW w \in Nat, NEW x \in Int, NEW y \in Int, w > 0 => x <= y
    PROVE  w * x <= w * y /\ (w > 0 /\ w * x = w * y => x = y)
<1>1. CASE w = 0
  BY <1>1
<1>2. CASE w > 0
  <2>1. PICK v \in Nat, d \in Nat : w = v + 1 /\ y = x + d
    <3>1. w - 1 \in Nat /\ y - x \in Nat /\ w = (w - 1) + 1 /\ y = x + (y - x)
      BY <1>2
    <3>2. QED
      BY <3>1
  <2>2. w * y = w * x + (v * d + d) /\ v * d \in Nat /\ w * x \in Int
    BY <2>1
  <2>3. QED
    BY <2>1, <2>2
<1>3. QED
  BY <1>1, <1>2

\* Sums that are equal, of terms none of which is greater on the left, are equal term by
\* term.
LEMMA TermByTerm ==
    ASSUME NEW v \in Int, NEW a \in Int, NEW b \in Int, NEW c \in Int, NEW d \in Int,
           NEW u \in Int, NEW w \in Int, NEW x \in Int, NEW y \in Int, NEW z \in Int,
           NEW r \in Int, v <= u, a <= w, b <= x, c <= y, d <= z,
           v + (a + (b + (c + (d + r)))) = u + (w + (x + (y + (z + r))))
    PROVE  a = w /\ b = x /\ c = y /\ d = z
  OBVIOUS

\* No solution of the orders that Hungarian serves is better by a criterion that counts
\* and as good by all of them.
LEMMA HungarianIsUndominated ==
    ASSUME NEW problem, IsProblem(problem),
           NEW S \in A!HungarianSolutions(problem),
           NEW M, IsSolution(problem, M), OrdersOf(M) = OrdersOf(S),
           \A c \in {"distance", "time", "fairness", "quality"} :
              WeightsOf(problem)[c] > 0 => Score(problem, M, c) <= Score(problem, S, c)
    PROVE  \A c \in {"distance", "time", "fairness", "quality"} :
              WeightsOf(problem)[c] > 0 => Score(problem, M, c) = Score(problem, S, c)
<1> DEFINE saving == Savings(DOMAIN problem.orders, DOMAIN problem.couriers, Matrix(problem))
           weights == WeightsOf(problem)
           served == Cardinality(OrdersOf(S)) * INFINITY_COST
           rest == SumFunctionOnSet(Urgencies(problem), OrdersOf(S))
           vM == SumFunctionOnSet(saving, M)
           vS == SumFunctionOnSet(saving, S)
           sM(c) == Score(problem, M, c)
           sS(c) == Score(problem, S, c)
<1>1. IsSolution(problem, S) /\ vM <= vS
  BY HungarianSolves
<1>2. weights \in WeightTypes
  BY MatrixEntries
<1>3. /\ weights["distance"] \in Nat /\ weights["time"] \in Nat
      /\ weights["fairness"] \in Nat /\ weights["quality"] \in Nat
  BY <1>2 DEF WeightTypes
<1>4. /\ vM \in Int /\ rest \in Int
      /\ \A c \in {"distance", "time", "fairness", "quality"} : sM(c) \in Int
      /\ vM + (weights["distance"] * sM("distance")
               + (weights["time"] * sM("time")
               + (weights["fairness"] * sM("fairness")
               + (weights["quality"] * sM("quality") + rest)))) = served
  BY SavingsByCriteria
<1>5. /\ vS \in Int
      /\ \A c \in {"distance", "time", "fairness", "quality"} : sS(c) \in Int
      /\ vS + (weights["distance"] * sS("distance")
               + (weights["time"] * sS("time")
               + (weights["fairness"] * sS("fairness")
               + (weights["quality"] * sS("quality") + rest)))) = served
  BY <1>1, SavingsByCriteria
<1>6. \A c \in {"distance", "time", "fairness", "quality"} :
         weights[c] > 0 => sM(c) <= sS(c)
  OBVIOUS
<1> HIDE DEF saving, weights, served, rest, vM, vS, sM, sS
<1>7. \A c \in {"distance", "time", "fairness", "quality"} :
         /\ weights[c] * sM(c) \in Int /\ weights[c] * sS(c) \in Int
         /\ weights[c] * sM(c) <= weights[c] * sS(c)
         /\ weights[c] > 0 /\ weights[c] * sM(c) = weights[c] * sS(c) => sM(c) = sS(c)
  <2> SUFFICES ASSUME NEW c \in {"distance", "time", "fairness", "quality"}
               PROVE  /\ weights[c] * sM(c) \in Int /\ weights[c] * sS(c) \in Int
                      /\ weights[c] * sM(c) <= weights[c] * sS(c)
                      /\ weights[c] > 0 /\ weights[c] * sM(c) = weights[c] * sS(c) => sM(c) = sS(c)
    OBVIOUS
  <2>1. PICK w, x, y : w = weights[c] /\ x = sM(c) /\ y = sS(c)
    OBVIOUS
  <2>2. w \in Nat /\ x \in Int /\ y \in Int /\ (w > 0 => x <= y)
    BY <1>3, <1>4, <1>5, <1>6, <2>1
  <2>3. w * x <= w * y /\ (w > 0 /\ w * x = w * y => x = y)
    BY ONLY <2>2, WeighingFavours
  <2>4. w * x \in Int /\ w * y \in Int
    BY <2>2
  <2>5. QED
    BY <2>1, <2>3, <2>4
<1>8. \A c \in {"distance", "time", "fairness", "quality"} : weights[c] * sM(c) = weights[c] * sS(c)
  <2> DEFINE a(c) == weights[c] * sM(c)
             b(c) == weights[c] * sS(c)
  <2>1. /\ a("distance") \in Int /\ b("distance") \in Int /\ a("distance") <= b("distance")
        /\ a("time") \in Int /\ b("time") \in Int /\ a("time") <= b("time")
        /\ a("fairness") \in Int /\ b("fairness") \in Int /\ a("fairness") <= b("fairness")
        /\ a("quality") \in Int /\ b("quality") \in Int /\ a("quality") <= b("quality")
    BY <1>7
  <2>2. vM + (a("distance") + (a("time") + (a("fairness") + (a("quality") + rest)))) = served
    BY <1>4
  <2>3. vS + (b("distance") + (b("time") + (b("fairness") + (b("quality") + rest)))) = served
    BY <1>5
  <2>4. vM \in Int /\ vS \in Int /\ rest \in Int /\ vM <= vS
    BY <1>1, <1>4, <1>5
  <2> HIDE DEF a, b
  <2>5. /\ a("distance") = b("distance") /\ a("time") = b("time")
        /\ a("fairness") = b("fairness") /\ a("quality") = b("quality")
    <3>1. PICK d, t, f, q, D, T, F, Q, v, u, r :
            /\ d = a("distance") /\ t = a("time") /\ f = a("fairness") /\ q = a("quality")
            /\ D = b("distance") /\ T = b("time") /\ F = b("fairness") /\ Q = b("quality")
            /\ v = vM /\ u = vS /\ r = rest
      OBVIOUS
    <3>2. /\ v \in Int /\ d \in Int /\ t \in Int /\ f \in Int /\ q \in Int
          /\ u \in Int /\ D \in Int /\ T \in Int /\ F \in Int /\ Q \in Int
          /\ r \in Int /\ v <= u /\ d <= D /\ t <= T /\ f <= F /\ q <= Q
          /\ v + (d + (t + (f + (q + r)))) = u + (D + (T + (F + (Q + r))))
      BY ONLY <2>1, <2>2, <2>3, <2>4, <3>1
    <3>3. d = D /\ t = T /\ f = F /\ q = Q
      BY ONLY <3>2, TermByTerm
    <3>4. QED
      BY ONLY <3>1, <3>3
  <2>6. QED
    BY <2>5 DEF a, b
<1>9. QED
  BY <1>7, <1>8 DEF weights, sM, sS

\* Some minutes later only urgencies have changed: not what is ruled out, not the weights
\* and not the criteria.
LEMMA LaterProblem ==
    ASSUME NEW problem, IsProblem(problem), NEW minutes \in Nat
    PROVE  LET later == Later(problem, minutes) IN
           /\ IsProblem(later)
           /\ WeightsOf(later) = WeightsOf(problem)
           /\ \A X : IsSolution(later, X) <=> IsSolution(problem, X)
           /\ \A X, c : IsSolution(problem, X) => Score(later, X, c) = Score(problem, X, c)
<1> DEFINE later == Later(problem, minutes)
           R == DOMAIN problem.orders
           C == DOMAIN problem.couriers
<1>1. PICK n \in Nat : R = 1..n /\ n # 0 /\ Len(problem.orders) = n
  BY DEF IsProblem, ProblemTypes
<1>2. \A i \in R : problem.orders[i] \in OrderTypes
  BY ProblemParts
<1>3. /\ later.couriers = problem.couriers /\ later.pickup = problem.pickup
      /\ later.constraints = problem.constraints /\ later.objective = problem.objective
      /\ later.orders = [i \in R |-> [problem.orders[i] EXCEPT !.age = @ + minutes]]
  BY DEF Later, IsProblem, ProblemTypes
<1>4. \A i \in R : /\ later.orders[i] \in OrderTypes
                   /\ later.orders[i].delivery = problem.orders[i].delivery
  BY <1>2, <1>3 DEF OrderTypes
<1>5. later.orders \in Seq(OrderTypes) /\ Len(later.orders) = n /\ later.orders # <<>>
  <2>1. later.orders \in [1..n -> OrderTypes]
    BY <1>1, <1>3, <1>4
  <2>2. QED
    BY <1>1, <2>1
<1>6. IsProblem(later)
  <2>1. later \in ProblemTypes
    BY <1>3, <1>5 DEF Later, IsProblem, ProblemTypes
  <2>2. QED
    BY <1>1, <1>3, <1>5, <2>1 DEF IsProblem
<1>7. WeightsOf(later) = WeightsOf(problem)
  BY <1>3 DEF WeightsOf
<1>8. DOMAIN later.orders = R /\ DOMAIN later.couriers = C
  BY <1>3
<1>9. \A p \in R \X C : /\ RuledOut(later, p) <=> RuledOut(problem, p)
                        /\ CriteriaOf(later, p) = CriteriaOf(problem, p)
  <2> SUFFICES ASSUME NEW p \in R \X C
               PROVE  /\ RuledOut(later, p) <=> RuledOut(problem, p)
                      /\ CriteriaOf(later, p) = CriteriaOf(problem, p)
    OBVIOUS
  <2>1. later.orders[p[1]].delivery = problem.orders[p[1]].delivery
    BY <1>4
  <2>2. QED
    BY <1>3, <2>1 DEF RuledOut, CriteriaOf
<1> HIDE DEF later
<1>10. ASSUME NEW X PROVE IsSolution(later, X) <=> IsSolution(problem, X)
  <2>1. X \in SUBSET (R \X C) =>
           ((\A p \in X : ~RuledOut(later, p)) <=> (\A p \in X : ~RuledOut(problem, p)))
    BY <1>9
  <2>2. QED
    BY <1>8, <2>1 DEF IsSolution
<1>11. ASSUME NEW X, NEW c, IsSolution(problem, X)
       PROVE  Score(later, X, c) = Score(problem, X, c)
  <2>1. \A p \in X : CriteriaOf(later, p)[c] = CriteriaOf(problem, p)[c]
    BY <1>9, <1>11 DEF IsSolution
  <2>2. [p \in X |-> CriteriaOf(later, p)[c]] = [p \in X |-> CriteriaOf(problem, p)[c]]
    BY <2>1
  <2>3. QED
    BY <2>2 DEF Score, CriteriaOf
<1>12. QED
  BY <1>6, <1>7, <1>10, <1>11 DEF later

\* The matchings of the definition are the solutions.
LEMMA AllowedAreSolutions ==
    ASSUME NEW problem, IsProblem(problem), NEW M
    PROVE  M \in AllowedMatchings(problem) <=> IsSolution(problem, M)
<1>1. \A p \in (DOMAIN problem.orders) \X (DOMAIN problem.couriers) :
         Matrix(problem)[p[1]][p[2]] < INFINITY_COST <=> ~RuledOut(problem, p)
  BY MatrixEntries
<1>2. QED
  BY <1>1 DEF AllowedMatchings, IsSolution

\* Whatever the problem and the delays: whichever of its solutions the multi-objective
\* assigner prefers, no other matching of the same orders dominates it.
THEOREM UndominatedSolutions == Spec => []SolutionsAreUndominated
<1>1. SolutionsAreUndominated
  <2> SUFFICES ASSUME NEW problem \in SomeProblems, NEW minutes \in SomeDelays,
                      NEW S \in A!MultiObjectiveSolutions(problem, Later(problem, minutes))
               PROVE  LET weights == A!Weights(A!DefaultWeights, problem.objective)
                          counted == {c \in {"distance", "time", "fairness", "quality"} : weights[c] > 0}
                      IN  /\ S \in AllowedMatchings(problem)
                          /\ \A M \in AllowedMatchings(problem) :
                                /\ OrdersOf(M) = OrdersOf(S)
                                /\ \A c \in counted : Score(problem, M, c) <= Score(problem, S, c)
                                => \A c \in counted : Score(problem, M, c) = Score(problem, S, c)
    BY DEF SolutionsAreUndominated
  <2> DEFINE later == Later(problem, minutes)
             Criteria == {"distance", "time", "fairness", "quality"}
  <2>1. IsProblem(problem) /\ minutes \in Nat
    BY AssignmentProblemsAssumption
  <2>2. /\ IsProblem(later) /\ WeightsOf(later) = WeightsOf(problem)
        /\ \A X : IsSolution(later, X) <=> IsSolution(problem, X)
        /\ \A X, c : IsSolution(problem, X) => Score(later, X, c) = Score(problem, X, c)
    BY <2>1, LaterProblem
  <2>3. PICK k \in {problem, later} : S \in A!HungarianSolutions(k)
    BY DEF A!MultiObjectiveSolutions
  <2> HIDE DEF later
  <2>4. /\ IsProblem(k) /\ WeightsOf(k) = WeightsOf(problem)
        /\ \A X : IsSolution(k, X) <=> IsSolution(problem, X)
        /\ \A X, c : IsSolution(problem, X) => Score(k, X, c) = Score(problem, X, c)
    BY <2>1, <2>2
  <2>5. IsSolution(k, S) /\ IsSolution(problem, S)
    BY <2>3, <2>4, HungarianSolves
  <2>6. ASSUME NEW M, IsSolution(problem, M), OrdersOf(M) = OrdersOf(S),
               \A c \in Criteria :
                  WeightsOf(problem)[c] > 0 => Score(problem, M, c) <= Score(problem, S, c)
        PROVE  \A c \in Criteria :
                  WeightsOf(problem)[c] > 0 => Score(problem, M, c) = Score(problem, S, c)
    <3>1. /\ IsProblem(k) /\ S \in A!HungarianSolutions(k)
          /\ IsSolution(k, M) /\ OrdersOf(M) = OrdersOf(S)
          /\ \A c \in Criteria : WeightsOf(k)[c] > 0 => Score(k, M, c) <= Score(k, S, c)
      BY <2>3, <2>4, <2>5, <2>6
    <3>2. \A c \in Criteria : WeightsOf(k)[c] > 0 => Score(k, M, c) = Score(k, S, c)
      BY ONLY <3>1, HungarianIsUndominated
    <3>3. QED
      BY <2>4, <2>5, <2>6, <3>2
  <2>7. \A M : M \in AllowedMatchings(problem) <=> IsSolution(problem, M)
    BY <2>1, AllowedAreSolutions
  <2>8. QED
    BY <2>5, <2>6, <2>7 DEF WeightsOf
<1>2. QED
  BY <1>1, PTL
=============================================================================
