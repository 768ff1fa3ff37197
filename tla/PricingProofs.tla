---------------------------- MODULE PricingProofs ----------------------------
(* What holds of Pricing and ABTesting for every value of their constants. *)
EXTENDS Quotes, TLAPS

LEMMA Constants ==
    /\ RatePerTick \in Nat
    /\ Window \in Nat /\ Window >= 1
    /\ MaxImpressions \in Nat /\ MaxImpressions >= 1
    /\ NoExperiment \notin Experiments
    /\ Predictions \subseteq PredictionTypes
    /\ Markets \subseteq MarketTypes
    /\ Requests \subseteq RequestTypes
    /\ DefaultStrategy \in Strategies
    /\ StrategyOf \in [Experiments -> [Variants -> Strategies]]
  BY PricingAssumption, ABTestingAssumption

-----------------------------------------------------------------------------
(* Rounding and interpolation. *)

LEMMA RoundedIsInt ==
    ASSUME NEW n \in Int, NEW d \in Nat, d > 0
    PROVE  Rounded(n, d) \in Int
  <1>1. 2 * n + d \in Int /\ 2 * d \in Nat /\ 2 * d > 0
    OBVIOUS
  <1>2. \A a \in Int, b \in Nat : b > 0 => a \div b \in Int
    OBVIOUS
  <1> QED BY <1>1, <1>2 DEF Rounded

LEMMA Products ==
    ASSUME NEW a \in Nat, NEW b \in Nat
    PROVE  a * b \in Nat /\ (a > 0 /\ b > 0 => a * b > 0)
  OBVIOUS

LEMMA ProductsGrow ==
    ASSUME NEW a \in Int, NEW b \in Int, a <= b, NEW k \in Nat
    PROVE  a * k \in Int /\ b * k \in Int /\ a * k <= b * k
  <1>1. (b - a) \in Nat
    OBVIOUS
  <1>2. (b - a) * k \in Nat
    BY <1>1, Products
  <1> QED BY <1>2

\* A quotient grows with its fraction.
LEMMA QuotientsGrow ==
    ASSUME NEW a \in Int, NEW b \in Int, NEW c \in Nat, NEW d \in Nat, c > 0, d > 0,
           a * d <= b * c
    PROVE  a \div c <= b \div d
  <1> DEFINE q == a \div c
  <1>1. q \in Int /\ q * c <= a
    OBVIOUS
  <1>2. b \div d \in Int /\ b < (b \div d) * d + d
    OBVIOUS
  <1> HIDE DEF q
  <1>3. (q * c) * d <= a * d
    BY <1>1, ProductsGrow
  <1>4. (q * d) * c <= b * c
    BY <1>1, <1>3
  <1>5. q * d <= b
    <2>1. SUFFICES ASSUME b + 1 <= q * d PROVE FALSE
      BY <1>1
    <2>2. (b + 1) * c <= (q * d) * c
      <3>1. b + 1 \in Int /\ q * d \in Int
        BY <1>1
      <3> QED BY <2>1, <3>1, ProductsGrow
    <2>3. b * c + c <= (q * d) * c
      BY <2>2
    <2> QED BY <1>1, <1>4, <2>3
  <1>6. q <= b \div d
    <2>1. SUFFICES ASSUME (b \div d) + 1 <= q PROVE FALSE
      BY <1>1, <1>2
    <2>2. ((b \div d) + 1) * d <= q * d
      BY <1>1, <1>2, <2>1, ProductsGrow
    <2>3. (b \div d) * d + d <= q * d
      BY <1>2, <2>2
    <2> QED BY <1>1, <1>2, <1>5, <2>3
  <1> QED BY <1>6 DEF q

LEMMA RoundedGrows ==
    ASSUME NEW a \in Int, NEW b \in Int, NEW c \in Nat, NEW d \in Nat, c > 0, d > 0,
           a * d <= b * c
    PROVE  Rounded(a, c) <= Rounded(b, d)
  <1>1. (2 * a + c) * (2 * d) <= (2 * b + d) * (2 * c)
    <2>1. (2 * a + c) * (2 * d) = 4 * (a * d) + 2 * (c * d)
      OBVIOUS
    <2>2. (2 * b + d) * (2 * c) = 4 * (b * c) + 2 * (c * d)
      OBVIOUS
    <2>3. a * d \in Int /\ b * c \in Int /\ c * d \in Int
      OBVIOUS
    <2> QED BY <2>1, <2>2, <2>3
  <1>2. /\ 2 * a + c \in Int /\ 2 * b + d \in Int
        /\ 2 * c \in Nat /\ 2 * d \in Nat /\ 2 * c > 0 /\ 2 * d > 0
    OBVIOUS
  <1> QED BY <1>1, <1>2, QuotientsGrow DEF Rounded

LEMMA RoundedExactly ==
    ASSUME NEW k \in Int, NEW c \in Nat, c > 0
    PROVE  Rounded(k * c, c) = k
  <1> DEFINE q == (2 * (k * c) + c) \div (2 * c)
  <1>1. /\ q \in Int
        /\ q * (2 * c) <= 2 * (k * c) + c
        /\ 2 * (k * c) + c < q * (2 * c) + 2 * c
    <2>1. \A n \in Int, d \in Nat : d > 0 =>
              n \div d \in Int /\ (n \div d) * d <= n /\ n < (n \div d) * d + d
      OBVIOUS
    <2>2. 2 * (k * c) + c \in Int /\ 2 * c \in Nat /\ 2 * c > 0
      OBVIOUS
    <2> QED BY <2>1, <2>2
  <1> HIDE DEF q
  <1>2. q <= k
    <2>1. SUFFICES ASSUME k + 1 <= q PROVE FALSE
      BY <1>1
    <2>2. (k + 1) * (2 * c) <= q * (2 * c)
      BY <1>1, <2>1, ProductsGrow
    <2>3. (k + 1) * (2 * c) = 2 * (k * c) + 2 * c /\ k * c \in Int
      OBVIOUS
    <2> QED BY <1>1, <2>2, <2>3
  <1>3. k <= q
    <2>1. SUFFICES ASSUME q + 1 <= k PROVE FALSE
      BY <1>1
    <2>2. (q + 1) * (2 * c) <= k * (2 * c)
      BY <1>1, <2>1, ProductsGrow
    <2>3. (q + 1) * (2 * c) = q * (2 * c) + 2 * c /\ k * (2 * c) = 2 * (k * c)
      BY <1>1
    <2>4. q * (2 * c) \in Int /\ k * c \in Int
      BY <1>1
    <2> QED BY <1>1, <2>2, <2>3, <2>4
  <1> QED BY <1>1, <1>2, <1>3 DEF Rounded, q

\* What lies between k and l times the divisor rounds to what lies between k and l.
LEMMA RoundedBetween ==
    ASSUME NEW n \in Int, NEW c \in Nat, c > 0, NEW k \in Int, NEW l \in Int,
           k * c <= n, n <= l * c
    PROVE  Rounded(n, c) \in Int /\ k <= Rounded(n, c) /\ Rounded(n, c) <= l
  <1>1. Rounded(n, c) \in Int
    BY RoundedIsInt
  <1>2. k * c \in Int /\ l * c \in Int
    OBVIOUS
  <1>3. (k * c) * c <= n * c /\ n * c <= (l * c) * c
    BY <1>2, ProductsGrow
  <1>4. Rounded(k * c, c) <= Rounded(n, c) /\ Rounded(n, c) <= Rounded(l * c, c)
    BY <1>2, <1>3, RoundedGrows
  <1> QED BY <1>1, <1>4, RoundedExactly

\* A first segment always exists: the sets of segments in question are finite.
LEMMA FirstSegment ==
    ASSUME NEW S \in SUBSET (2..8), S # {}
    PROVE  /\ (CHOOSE j \in S : \A k \in S : j <= k) \in S
           /\ \A k \in S : (CHOOSE j \in S : \A l \in S : j <= l) <= k
  <1>1. \E j \in S : \A k \in S : j <= k
    <2>1. PICK m \in S : TRUE
      OBVIOUS
    <2>2. CASE 2 \in S
      BY <2>2
    <2>3. CASE 2 \notin S /\ 3 \in S
      BY <2>3
    <2>4. CASE 2 \notin S /\ 3 \notin S /\ 4 \in S
      BY <2>4
    <2>5. CASE 2 \notin S /\ 3 \notin S /\ 4 \notin S /\ 5 \in S
      BY <2>5
    <2>6. CASE 2 \notin S /\ 3 \notin S /\ 4 \notin S /\ 5 \notin S /\ 6 \in S
      BY <2>6
    <2>7. CASE 2 \notin S /\ 3 \notin S /\ 4 \notin S /\ 5 \notin S /\ 6 \notin S /\ 7 \in S
      BY <2>7
    <2>8. CASE S \subseteq {8}
      BY <2>1, <2>8
    <2> QED BY <2>2, <2>3, <2>4, <2>5, <2>6, <2>7, <2>8
  <1> QED BY <1>1

\* A point of a segment from (x, z) to (y, w), at n / d, in hundredths.
OnSegment(x, z, y, w, n, d) == 100 * z + Rounded(100 * (w - z) * (n - x * d), (y - x) * d)

LEMMA SegmentRange ==
    ASSUME NEW x \in Nat, NEW y \in Nat, x < y, NEW z \in Nat, NEW w \in Nat, z <= w,
           NEW n \in Nat, NEW d \in Nat, d > 0, x * d <= n, n <= y * d
    PROVE  /\ OnSegment(x, z, y, w, n, d) \in Int
           /\ 100 * z <= OnSegment(x, z, y, w, n, d)
           /\ OnSegment(x, z, y, w, n, d) <= 100 * w
  <1> DEFINE rise == 100 * (w - z)
             width == (y - x) * d
             m == n - x * d
  <1>1. rise \in Nat /\ y - x \in Nat /\ y - x > 0 /\ x * d \in Nat /\ y * d \in Nat
    OBVIOUS
  <1>2. width \in Nat /\ width > 0 /\ m \in Nat /\ m <= width
    <2>1. width \in Nat /\ width > 0
      BY <1>1, Products
    <2>2. width = y * d - x * d
      OBVIOUS
    <2> QED BY <1>1, <2>1, <2>2
  <1> HIDE DEF rise, width, m
  <1>3. m * rise \in Int /\ 0 <= m * rise /\ m * rise <= width * rise
    <2>1. 0 * rise <= m * rise /\ m * rise <= width * rise /\ m * rise \in Int
      BY <1>1, <1>2, ProductsGrow
    <2> QED BY <1>1, <2>1
  <1>4. /\ rise * m \in Int /\ 0 * width <= rise * m /\ rise * m <= rise * width
    BY <1>1, <1>2, <1>3
  <1>5. /\ Rounded(rise * m, width) \in Int
        /\ 0 <= Rounded(rise * m, width)
        /\ Rounded(rise * m, width) <= rise
    <2> DEFINE product == rise * m
    <2>1. /\ product \in Int /\ width \in Nat /\ width > 0 /\ 0 \in Int /\ rise \in Int
          /\ 0 * width <= product /\ product <= rise * width
      BY <1>1, <1>2, <1>4
    <2> HIDE DEF product
    <2>2. /\ Rounded(product, width) \in Int
          /\ 0 <= Rounded(product, width) /\ Rounded(product, width) <= rise
      BY ONLY <2>1, RoundedBetween
    <2> QED BY <2>2 DEF product
  <1>6. OnSegment(x, z, y, w, n, d) = 100 * z + Rounded(rise * m, width)
    BY DEF OnSegment, rise, m, width
  <1>7. 100 * z + rise = 100 * w
    BY DEF rise
  <1> QED BY <1>1, <1>5, <1>6, <1>7

LEMMA SegmentRises ==
    ASSUME NEW x \in Nat, NEW y \in Nat, x < y, NEW z \in Nat, NEW w \in Nat, z <= w,
           NEW n \in Nat, NEW d \in Nat, d > 0, x * d <= n,
           NEW p \in Nat, NEW e \in Nat, e > 0, x * e <= p,
           n * e <= p * d
    PROVE  OnSegment(x, z, y, w, n, d) <= OnSegment(x, z, y, w, p, e)
  <1> DEFINE rise == 100 * (w - z)
             l == n - x * d
             m == p - x * e
             a == y - x
  <1>1. rise \in Nat /\ a \in Nat /\ a > 0 /\ l \in Nat /\ m \in Nat
    <2>1. x * d \in Nat /\ x * e \in Nat
      OBVIOUS
    <2> QED BY <2>1
  <1>2. l * e <= m * d
    <2>1. l * e = n * e - (x * d) * e /\ m * d = p * d - (x * e) * d
      OBVIOUS
    <2>2. (x * d) * e = (x * e) * d /\ (x * d) * e \in Int /\ n * e \in Int /\ p * d \in Int
      OBVIOUS
    <2> QED BY <2>1, <2>2
  <1> DEFINE left == OnSegment(x, z, y, w, n, d)
             right == OnSegment(x, z, y, w, p, e)
  <1>3. left = 100 * z + Rounded(rise * l, a * d) /\ right = 100 * z + Rounded(rise * m, a * e)
    BY DEF OnSegment
  <1> HIDE DEF rise, l, m, a, left, right
  <1>4. a * d \in Nat /\ a * d > 0 /\ a * e \in Nat /\ a * e > 0 /\ rise * a \in Nat
    BY <1>1, Products
  <1>5. l * e \in Nat /\ m * d \in Nat /\ rise * l \in Nat /\ rise * m \in Nat
    BY <1>1, Products
  <1>6. (rise * l) * (a * e) <= (rise * m) * (a * d)
    <2>1. (l * e) * (rise * a) <= (m * d) * (rise * a)
      BY <1>2, <1>4, <1>5, ProductsGrow
    <2>2. (l * e) * (rise * a) = (rise * l) * (a * e)
      BY <1>1
    <2>3. (m * d) * (rise * a) = (rise * m) * (a * d)
      BY <1>1
    <2> QED BY <2>1, <2>2, <2>3
  <1>7. Rounded(rise * l, a * d) <= Rounded(rise * m, a * e)
    BY <1>4, <1>5, <1>6, RoundedGrows
  <1>8. Rounded(rise * l, a * d) \in Int /\ Rounded(rise * m, a * e) \in Int
    BY <1>4, <1>5, RoundedIsInt
  <1> QED BY <1>3, <1>7, <1>8 DEF left, right

\* A curve is a sequence of points, each further and no lower than those before.
IsCurve(c) ==
    /\ c \in Seq(Nat \X Nat) /\ Len(c) \in 2..8
    /\ c[1][1] = 0
    /\ \A i \in 2..Len(c) : c[i - 1][1] < c[i][1]
    /\ \A i, k \in 1..Len(c) : i <= k => c[i][2] <= c[k][2]

\* Where n / d is on a curve: the segment found, and the point on it.
Within(c, n, d) == {i \in 2..Len(c) : n <= c[i][1] * d}
First(S) == CHOOSE j \in S : \A k \in S : j <= k
OnCurve(c, n, d) ==
    LET i == First(Within(c, n, d))
    IN  OnSegment(c[i - 1][1], c[i - 1][2], c[i][1], c[i][2], n, d)

LEMMA CurvePoints ==
    ASSUME NEW c, IsCurve(c), NEW i \in 2..Len(c)
    PROVE  /\ i \in 1..Len(c) /\ i - 1 \in 1..Len(c)
           /\ c[i][1] \in Nat /\ c[i][2] \in Nat
           /\ c[i - 1][1] \in Nat /\ c[i - 1][2] \in Nat
           /\ c[i - 1][1] < c[i][1] /\ c[i - 1][2] <= c[i][2]
  <1>1. Len(c) \in 2..8 /\ i \in 1..Len(c) /\ i - 1 \in 1..Len(c) /\ i - 1 <= i
    BY DEF IsCurve
  <1>2. c[i] \in Nat \X Nat /\ c[i - 1] \in Nat \X Nat
    BY <1>1, SMTT(30) DEF IsCurve
  <1>3. c[i][1] \in Nat /\ c[i][2] \in Nat /\ c[i - 1][1] \in Nat /\ c[i - 1][2] \in Nat
    BY ONLY <1>2
  <1>4. c[i - 1][1] < c[i][1]
    <2>1. \A k \in 2..Len(c) : c[k - 1][1] < c[k][1]
      BY DEF IsCurve
    <2> QED BY <2>1
  <1>5. \A m, k \in 1..Len(c) : m <= k => c[m][2] <= c[k][2]
    BY DEF IsCurve
  <1>6. c[i - 1][2] <= c[i][2]
    BY ONLY <1>1, <1>5
  <1> QED BY ONLY <1>1, <1>3, <1>4, <1>6

LEMMA WithinIsSmall ==
    ASSUME NEW c, Len(c) \in 2..8, NEW n, NEW d
    PROVE  Within(c, n, d) \in SUBSET (2..8)
  <1>1. PICK len \in 2..8 : len = Len(c)
    OBVIOUS
  <1>2. 2..len \in SUBSET (2..8)
    BY ONLY len \in 2..8
  <1> QED BY ONLY <1>1, <1>2 DEF Within

LEMMA CurveSegment ==
    ASSUME NEW c, IsCurve(c), NEW n \in Nat, NEW d \in Nat, d > 0, Within(c, n, d) # {}
    PROVE  LET i == First(Within(c, n, d))
           IN  /\ i \in 2..Len(c)
               /\ c[i - 1][1] * d <= n /\ n <= c[i][1] * d
               /\ OnCurve(c, n, d) \in Int
               /\ 100 * c[i - 1][2] <= OnCurve(c, n, d)
               /\ OnCurve(c, n, d) <= 100 * c[i][2]
  <1> DEFINE S == Within(c, n, d)
             i == First(S)
  <1>1. i \in S /\ \A k \in S : i <= k
    <2>1. Len(c) \in 2..8
      BY DEF IsCurve
    <2>2. S \in SUBSET (2..8) /\ S # {}
      BY <2>1, WithinIsSmall
    <2> HIDE DEF S
    <2> QED BY <2>2, FirstSegment DEF First
  <1>2. i \in 2..Len(c) /\ n <= c[i][1] * d
    BY <1>1 DEF Within
  <1>3. c[i - 1][1] * d <= n
    <2>1. CASE i = 2
      <3>1. c[i - 1][1] = 0
        BY <2>1 DEF IsCurve
      <3> QED BY <3>1
    <2>2. CASE i # 2
      <3>1. i - 1 \in 2..Len(c) /\ ~(i <= i - 1)
        <4>1. Len(c) \in 2..8
          BY DEF IsCurve
        <4> HIDE DEF i
        <4> QED BY <1>2, <2>2, <4>1
      <3>2. i - 1 \notin S
        BY <1>1, <3>1
      <3>3. ~(n <= c[i - 1][1] * d)
        BY <3>1, <3>2 DEF Within
      <3>4. c[i - 1][1] * d \in Nat
        BY <1>2, CurvePoints
      <3> QED BY <3>3, <3>4
    <2> QED BY <2>1, <2>2
  <1>4. /\ c[i][1] \in Nat /\ c[i][2] \in Nat
        /\ c[i - 1][1] \in Nat /\ c[i - 1][2] \in Nat
        /\ c[i - 1][1] < c[i][1] /\ c[i - 1][2] <= c[i][2]
    BY <1>2, CurvePoints
  <1>5. OnCurve(c, n, d) = OnSegment(c[i - 1][1], c[i - 1][2], c[i][1], c[i][2], n, d)
    BY DEF OnCurve
  <1> HIDE DEF i
  <1>6. /\ OnCurve(c, n, d) \in Int
        /\ 100 * c[i - 1][2] <= OnCurve(c, n, d)
        /\ OnCurve(c, n, d) <= 100 * c[i][2]
    <2>1. PICK x, y, z, w \in Nat :
            x = c[i - 1][1] /\ z = c[i - 1][2] /\ y = c[i][1] /\ w = c[i][2]
      BY <1>4
    <2>2. x < y /\ z <= w /\ x * d <= n /\ n <= y * d
      BY <1>2, <1>3, <1>4, <2>1
    <2>3. /\ OnSegment(x, z, y, w, n, d) \in Int
          /\ 100 * z <= OnSegment(x, z, y, w, n, d)
          /\ OnSegment(x, z, y, w, n, d) <= 100 * w
      BY <2>2, SegmentRange
    <2> QED BY <1>5, <2>1, <2>3
  <1> QED BY <1>2, <1>3, <1>6 DEF i

\* A curve does not fall: not on a segment, and not from one to a later one.
LEMMA CurveRises ==
    ASSUME NEW c, IsCurve(c), NEW n \in Nat, NEW d \in Nat, d > 0,
           NEW p \in Nat, NEW e \in Nat, e > 0, n * e <= p * d, Within(c, p, e) # {}
    PROVE  Within(c, n, d) # {} /\ OnCurve(c, n, d) <= OnCurve(c, p, e)
  <1>1. Within(c, p, e) \subseteq Within(c, n, d)
    <2> SUFFICES ASSUME NEW i \in 2..Len(c), p <= c[i][1] * e PROVE n <= c[i][1] * d
      BY DEF Within
    <2>1. PICK x \in Nat : x = c[i][1]
      BY CurvePoints
    <2>2. p * d <= (x * e) * d
      <3>1. p <= x * e /\ x * e \in Int
        BY <2>1
      <3> QED BY <3>1, ProductsGrow
    <2>3. n * e <= (x * d) * e
      BY <2>2
    <2>4. SUFFICES ASSUME x * d + 1 <= n PROVE FALSE
      BY <2>1
    <2>5. (x * d + 1) * e <= n * e
      BY <2>4, ProductsGrow
    <2>6. (x * d + 1) * e = (x * d) * e + e /\ (x * d) * e \in Int /\ n * e \in Int
      OBVIOUS
    <2> QED BY <2>3, <2>5, <2>6
  <1> DEFINE S == Within(c, n, d)
             T == Within(c, p, e)
             i == First(S)
             k == First(T)
  <1>2. S # {}
    BY <1>1
  <1>3. /\ i \in 2..Len(c) /\ c[i - 1][1] * d <= n
        /\ OnCurve(c, n, d) \in Int /\ OnCurve(c, n, d) <= 100 * c[i][2]
    BY <1>2, CurveSegment
  <1>4. /\ k \in 2..Len(c) /\ c[k - 1][1] * e <= p
        /\ OnCurve(c, p, e) \in Int /\ 100 * c[k - 1][2] <= OnCurve(c, p, e)
    BY CurveSegment
  <1>5. i <= k
    <2>1. Len(c) \in 2..8
      BY DEF IsCurve
    <2>2. S \in SUBSET (2..8) /\ S # {} /\ T \in SUBSET (2..8) /\ T # {}
      BY <1>2, <2>1, WithinIsSmall
    <2>3. T \subseteq S
      BY <1>1
    <2> HIDE DEF S, T
    <2> QED BY <2>2, <2>3, FirstSegment DEF First
  <1>6. CASE i = k
    <2>1. /\ c[i][1] \in Nat /\ c[i][2] \in Nat
          /\ c[i - 1][1] \in Nat /\ c[i - 1][2] \in Nat
          /\ c[i - 1][1] < c[i][1] /\ c[i - 1][2] <= c[i][2]
      BY <1>3, CurvePoints
    <2>2. /\ OnCurve(c, n, d) = OnSegment(c[i - 1][1], c[i - 1][2], c[i][1], c[i][2], n, d)
          /\ OnCurve(c, p, e) = OnSegment(c[i - 1][1], c[i - 1][2], c[i][1], c[i][2], p, e)
      BY <1>6 DEF OnCurve
    <2>3. c[i - 1][1] * d <= n /\ c[i - 1][1] * e <= p
      BY <1>3, <1>4, <1>6
    <2> HIDE DEF i, k
    <2>4. PICK x, y, z, w \in Nat :
            x = c[i - 1][1] /\ z = c[i - 1][2] /\ y = c[i][1] /\ w = c[i][2]
      BY <2>1
    <2>5. x < y /\ z <= w /\ x * d <= n /\ x * e <= p
      BY <2>1, <2>3, <2>4
    <2>6. OnSegment(x, z, y, w, n, d) <= OnSegment(x, z, y, w, p, e)
      <3> HIDE DEF S, T
      <3> QED BY <2>5, SegmentRises
    <2>7. OnCurve(c, n, d) <= OnCurve(c, p, e)
      BY <2>2, <2>4, <2>6
    <2> QED BY <1>2, <2>7
  <1>7. CASE i # k
    <2>1. Len(c) \in 2..8
      BY DEF IsCurve
    <2> HIDE DEF i, k
    <2>2. i \in 1..Len(c) /\ k - 1 \in 1..Len(c) /\ i <= k - 1
      BY <1>3, <1>4, <1>5, <1>7, <2>1, SMTT(30)
    <2>3. c[i][2] <= c[k - 1][2]
      <3>1. \A l, m \in 1..Len(c) : l <= m => c[l][2] <= c[m][2]
        BY DEF IsCurve
      <3> QED BY ONLY <2>2, <3>1
    <2>4. c[i][2] \in Nat /\ c[k - 1][2] \in Nat
      BY <1>3, <1>4, CurvePoints
    <2>5. 100 * c[i][2] \in Int /\ 100 * c[k - 1][2] \in Int /\ 100 * c[i][2] <= 100 * c[k - 1][2]
      BY <2>3, <2>4
    <2>6. OnCurve(c, n, d) <= OnCurve(c, p, e)
      BY ONLY <1>3, <1>4, <2>5, SMTT(30)
    <2> QED BY <1>2, <2>6
  <1> QED BY <1>6, <1>7

-----------------------------------------------------------------------------
(* The strategies. *)

LEMMA ConstrainedRange ==
    ASSUME NEW n \in Int
    PROVE  /\ Constrained(n, MaxSurge) \in Int
           /\ 10000 <= Constrained(n, MaxSurge)
           /\ Constrained(n, MaxSurge) <= 30000
  BY DEF Constrained, AtLeast, NoMoreThan, MinSurge, MaxSurge

\* A result made from a constrained surge has a legal surge and a price.
LEMMA ResultType ==
    ASSUME NEW s, NEW surge \in Int, 10000 <= surge, surge <= 30000,
           NEW discount \in 0..10, NEW confidence
    PROVE  /\ Result(s, surge, discount, confidence).surge \in Surges
           /\ Result(s, surge, discount, confidence).price \in Nat
           /\ Result(s, surge, discount, confidence).confidence = confidence
  <1>1. Rounded(surge, 100) \in Surges
    BY DEF Rounded, Surges, MinSurge, MaxSurge
  <1>2. surge * (100 - discount) \in Nat
    <2>1. 100 - discount \in Nat
      OBVIOUS
    <2>2. \A a, b \in Nat : a * b \in Nat
      OBVIOUS
    <2> QED BY <2>1, <2>2
  <1>3. \A n \in Nat : Rounded(n, 100) \in Nat
    BY DEF Rounded
  <1> QED BY <1>1, <1>2, <1>3 DEF Result

LEMMA LoyaltyDiscountRange ==
    ASSUME NEW request \in RequestTypes
    PROVE  LoyaltyDiscount(request) \in 0..10
  <1>1. request.premium \in BOOLEAN /\ request.orders \in Nat
    BY DEF RequestTypes
  <1> QED BY <1>1 DEF LoyaltyDiscount

LEMMA SurgeCurveIsCurve ==
    /\ IsCurve(SurgeCurve) /\ Len(SurgeCurve) = 8
    /\ SurgeCurve[1][2] = 100 /\ SurgeCurve[8][2] = 250
  <1>1. Len(SurgeCurve) = 8 /\ SurgeCurve \in Seq(Nat \X Nat)
    BY DEF SurgeCurve
  <1>2. /\ SurgeCurve[1] = <<0, 100>> /\ SurgeCurve[2] = <<5, 100>>
        /\ SurgeCurve[3] = <<10, 115>> /\ SurgeCurve[4] = <<15, 130>>
        /\ SurgeCurve[5] = <<20, 150>> /\ SurgeCurve[6] = <<30, 180>>
        /\ SurgeCurve[7] = <<40, 200>> /\ SurgeCurve[8] = <<60, 250>>
    BY DEF SurgeCurve
  <1>3. \A i \in 2..8 : SurgeCurve[i - 1][1] < SurgeCurve[i][1]
    <2> SUFFICES ASSUME NEW i \in 2..8 PROVE SurgeCurve[i - 1][1] < SurgeCurve[i][1]
      OBVIOUS
    <2>1. i = 2 \/ i = 3 \/ i = 4 \/ i = 5 \/ i = 6 \/ i = 7 \/ i = 8
      OBVIOUS
    <2> QED BY <1>2, <2>1
  <1>4. \A i, k \in 1..8 : i <= k => SurgeCurve[i][2] <= SurgeCurve[k][2]
    <2> SUFFICES ASSUME NEW i \in 1..8, NEW k \in 1..8, i <= k
                 PROVE  SurgeCurve[i][2] <= SurgeCurve[k][2]
      OBVIOUS
    <2>1. i = 1 \/ i = 2 \/ i = 3 \/ i = 4 \/ i = 5 \/ i = 6 \/ i = 7 \/ i = 8
      OBVIOUS
    <2>2. k = 1 \/ k = 2 \/ k = 3 \/ k = 4 \/ k = 5 \/ k = 6 \/ k = 7 \/ k = 8
      OBVIOUS
    <2> QED BY <1>2, <2>1, <2>2
  <1> QED BY <1>1, <1>2, <1>3, <1>4 DEF IsCurve

\* What _interpolate_surge finds is on the curve, as far as the curve goes.
LEMMA Interpolated ==
    ASSUME NEW pending \in Nat, NEW available \in Nat
    PROVE  LET within == Within(SurgeCurve, 10 * pending, available)
               surge == InterpolateSurge(pending, available)
           IN  /\ pending = 0 => surge = 10000
               /\ pending > 0 /\ within = {} => surge = 30000
               /\ pending > 0 /\ within # {} =>
                      /\ available > 0
                      /\ surge = OnCurve(SurgeCurve, 10 * pending, available)
                      /\ surge \in Int /\ 10000 <= surge /\ surge <= 25000
  <1> DEFINE within == Within(SurgeCurve, 10 * pending, available)
             surge == InterpolateSurge(pending, available)
             i == First(within)
  <1>1. pending = 0 => surge = 10000
    BY DEF InterpolateSurge
  <1>2. pending > 0 /\ within = {} => surge = 30000
    BY DEF InterpolateSurge, Within
  <1>3. ASSUME pending > 0, within # {}
        PROVE  /\ available > 0
               /\ surge = OnCurve(SurgeCurve, 10 * pending, available)
               /\ surge \in Int /\ 10000 <= surge /\ surge <= 25000
    <2>1. available > 0
      <3>1. PICK k \in 2..8 : 10 * pending <= SurgeCurve[k][1] * available
        BY <1>3, SurgeCurveIsCurve DEF Within
      <3>2. SurgeCurve[k][1] \in Nat
        BY SurgeCurveIsCurve, CurvePoints
      <3>3. SurgeCurve[k][1] * 0 = 0
        BY <3>2
      <3> QED BY <1>3, <3>1, <3>3
    <2>2. surge = OnCurve(SurgeCurve, 10 * pending, available)
      <3>1. pending # 0
        BY <1>3
      <3> QED BY <1>3, <3>1 DEF InterpolateSurge, OnCurve, OnSegment, Within, First
    <2>3. /\ i \in 2..8
          /\ surge \in Int /\ 100 * SurgeCurve[i - 1][2] <= surge /\ surge <= 100 * SurgeCurve[i][2]
      <3>1. 10 * pending \in Nat
        OBVIOUS
      <3> QED BY <1>3, <2>1, <2>2, <3>1, CurveSegment, SurgeCurveIsCurve
    <2> HIDE DEF i, surge, within
    <2>4. i \in 1..8 /\ i - 1 \in 1..8 /\ 1 \in 1..8 /\ 8 \in 1..8 /\ 1 <= i - 1 /\ i <= 8
      BY ONLY <2>3
    <2>5. SurgeCurve[1][2] <= SurgeCurve[i - 1][2] /\ SurgeCurve[i][2] <= SurgeCurve[8][2]
      <3>1. \A m, k \in 1..8 : m <= k => SurgeCurve[m][2] <= SurgeCurve[k][2]
        BY SurgeCurveIsCurve DEF IsCurve
      <3> QED BY ONLY <2>4, <3>1
    <2>6. SurgeCurve[i - 1][2] \in Nat /\ SurgeCurve[i][2] \in Nat
      <3>1. i \in 2..Len(SurgeCurve) /\ IsCurve(SurgeCurve)
        BY <2>3, SurgeCurveIsCurve
      <3> QED BY ONLY <3>1, CurvePoints
    <2>7. 10000 <= surge /\ surge <= 25000
      BY <2>3, <2>5, <2>6, SurgeCurveIsCurve
    <2> QED BY <2>1, <2>2, <2>3, <2>7 DEF surge
  <1> QED BY <1>1, <1>2, <1>3

LEMMA InterpolatedRange ==
    ASSUME NEW pending \in Nat, NEW available \in Nat
    PROVE  LET surge == InterpolateSurge(pending, available)
           IN  surge \in Int /\ 10000 <= surge /\ surge <= 30000
  <1>1. pending = 0 \/ pending > 0
    OBVIOUS
  <1> QED BY <1>1, Interpolated

\* More orders or fewer couriers never lower the surge of the curve.
LEMMA InterpolatedRises ==
    ASSUME NEW few \in Nat, NEW many \in Nat, few <= many,
           NEW scarce \in Nat, NEW ample \in Nat, scarce <= ample
    PROVE  InterpolateSurge(few, ample) <= InterpolateSurge(many, scarce)
  <1> DEFINE within == Within(SurgeCurve, 10 * many, scarce)
  <1>1. CASE few = 0
    BY <1>1, Interpolated, InterpolatedRange
  <1>2. CASE few > 0 /\ within = {}
    <2>1. InterpolateSurge(many, scarce) = 30000
      <3>1. many > 0
        BY <1>2
      <3> QED BY <1>2, <3>1, Interpolated
    <2> QED BY <2>1, InterpolatedRange
  <1>3. CASE few > 0 /\ within # {}
    <2>1. many > 0
      BY <1>3
    <2>2. scarce > 0 /\ InterpolateSurge(many, scarce) = OnCurve(SurgeCurve, 10 * many, scarce)
      BY <1>3, <2>1, Interpolated
    <2>3. ample > 0
      BY <2>2
    <2> DEFINE n == 10 * few
               p == 10 * many
    <2>4. n \in Nat /\ p \in Nat /\ n * scarce <= p * ample
      <3>1. n \in Nat /\ p \in Nat /\ n <= p
        OBVIOUS
      <3> HIDE DEF n, p
      <3>2. n * scarce <= p * scarce /\ scarce * p <= ample * p
        BY <3>1, ProductsGrow
      <3>3. n * scarce \in Int /\ p * scarce \in Int /\ p * ample \in Int
        BY <3>1, ProductsGrow
      <3>4. p * scarce = scarce * p /\ p * ample = ample * p
        BY <3>1
      <3> QED BY <3>1, <3>2, <3>3, <3>4
    <2>5. Within(SurgeCurve, p, scarce) # {}
      BY <1>3
    <2>6. InterpolateSurge(many, scarce) = OnCurve(SurgeCurve, p, scarce)
      BY <2>2
    <2> HIDE DEF n, p
    <2>7. Within(SurgeCurve, n, ample) # {} /\ OnCurve(SurgeCurve, n, ample) <= OnCurve(SurgeCurve, p, scarce)
      BY <2>2, <2>3, <2>4, <2>5, CurveRises, SurgeCurveIsCurve
    <2>8. InterpolateSurge(few, ample) = OnCurve(SurgeCurve, n, ample)
      BY <1>3, <2>7, Interpolated DEF n
    <2> QED BY <2>6, <2>7, <2>8
  <1> QED BY <1>1, <1>2, <1>3

LEMMA ModifiersType ==
    /\ \A hour \in 0..23 : TimeModifiers[hour + 1] \in Nat
    /\ \A weekday \in 0..6 : DayModifiers[weekday + 1] \in Nat
  <1>1. TimeModifiers \in Seq(Nat) /\ Len(TimeModifiers) = 24
    BY DEF TimeModifiers
  <1>2. DayModifiers \in Seq(Nat) /\ Len(DayModifiers) = 7
    BY DEF DayModifiers
  <1>3. \A s \in Seq(Nat) : \A i \in 1..Len(s) : s[i] \in Nat
    OBVIOUS
  <1>4. \A hour \in 0..23 : hour + 1 \in 1..24
    OBVIOUS
  <1>5. \A weekday \in 0..6 : weekday + 1 \in 1..7
    OBVIOUS
  <1> QED BY <1>1, <1>2, <1>3, <1>4, <1>5

\* The surge of the rules, before it is rounded to a result.
RuleSurge(market) ==
    Constrained(Rounded(InterpolateSurge(market.pending, market.available)
                            * TimeModifiers[market.hour + 1] * DayModifiers[market.weekday + 1], 10000),
                MaxSurge)

LEMMA RuleBasedResult ==
    ASSUME NEW market, NEW request
    PROVE  RuleBased(market, request, MaxSurge)
               = Result("rule_based", RuleSurge(market), LoyaltyDiscount(request), 100)
  BY DEF RuleBased, RuleSurge

\* Of two markets at the same hour, one may have fewer orders and more couriers.
Calmer(m, n) ==
    /\ m.pending <= n.pending /\ n.available <= m.available
    /\ m.hour = n.hour /\ m.weekday = n.weekday

LEMMA ConstrainedRises ==
    ASSUME NEW a \in Int, NEW b \in Int, a <= b
    PROVE  Constrained(a, MaxSurge) <= Constrained(b, MaxSurge)
  BY DEF Constrained, AtLeast, NoMoreThan, MinSurge, MaxSurge

LEMMA RuleSurgeRange ==
    ASSUME NEW market \in MarketTypes
    PROVE  /\ RuleSurge(market) \in Int
           /\ 10000 <= RuleSurge(market) /\ RuleSurge(market) <= 30000
  <1>1. PICK p, c \in Nat, t, d \in Nat :
            /\ p = market.pending /\ c = market.available
            /\ t = TimeModifiers[market.hour + 1] /\ d = DayModifiers[market.weekday + 1]
    BY ModifiersType DEF MarketTypes
  <1>2. PICK base \in Int : base = InterpolateSurge(p, c)
    BY InterpolatedRange
  <1>3. base * t * d \in Int
    OBVIOUS
  <1>4. Rounded(base * t * d, 10000) \in Int
    BY <1>3, RoundedIsInt
  <1> QED BY <1>1, <1>2, <1>4, ConstrainedRange DEF RuleSurge

LEMMA RuleSurgeRises ==
    ASSUME NEW m \in MarketTypes, NEW n \in MarketTypes, Calmer(m, n)
    PROVE  RuleSurge(m) <= RuleSurge(n)
  <1>1. PICK p, c, q, f \in Nat, t, d \in Nat :
            /\ p = m.pending /\ c = m.available /\ q = n.pending /\ f = n.available
            /\ t = TimeModifiers[m.hour + 1] /\ d = DayModifiers[m.weekday + 1]
    BY ModifiersType DEF MarketTypes
  <1>2. p <= q /\ f <= c /\ m.hour = n.hour /\ m.weekday = n.weekday
    BY <1>1 DEF Calmer
  <1>3. PICK low, high \in Int : low = InterpolateSurge(p, c) /\ high = InterpolateSurge(q, f) /\ low <= high
    <2>1. InterpolateSurge(p, c) \in Int /\ InterpolateSurge(q, f) \in Int
      BY InterpolatedRange
    <2>2. InterpolateSurge(p, c) <= InterpolateSurge(q, f)
      BY <1>2, InterpolatedRises
    <2> QED BY <2>1, <2>2
  <1>4. /\ low * t * d \in Int /\ high * t * d \in Int /\ low * t * d <= high * t * d
    <2>1. low * t \in Int /\ high * t \in Int /\ low * t <= high * t
      BY <1>3, ProductsGrow
    <2> QED BY <2>1, ProductsGrow
  <1>5. Rounded(low * t * d, 10000) <= Rounded(high * t * d, 10000)
    <2>1. \A a, b \in Int : a <= b => Rounded(a, 10000) <= Rounded(b, 10000)
      BY DEF Rounded
    <2> QED BY <1>4, <2>1
  <1>6. Rounded(low * t * d, 10000) \in Int /\ Rounded(high * t * d, 10000) \in Int
    BY <1>4, RoundedIsInt
  <1>7. RuleSurge(m) = Constrained(Rounded(low * t * d, 10000), MaxSurge)
    BY <1>1, <1>3 DEF RuleSurge
  <1>8. RuleSurge(n) = Constrained(Rounded(high * t * d, 10000), MaxSurge)
    BY <1>1, <1>2, <1>3 DEF RuleSurge
  <1> QED BY <1>5, <1>6, <1>7, <1>8, ConstrainedRises

IsQuote(result) == result.surge \in Surges /\ result.price \in Nat

LEMMA RuleBasedType ==
    ASSUME NEW market \in MarketTypes, NEW request \in RequestTypes
    PROVE  /\ IsQuote(RuleBased(market, request, MaxSurge))
           /\ RuleBased(market, request, MaxSurge).confidence = 100
  <1> DEFINE surge == RuleSurge(market)
             discount == LoyaltyDiscount(request)
  <1>1. surge \in Int /\ 10000 <= surge /\ surge <= 30000 /\ discount \in 0..10
    BY RuleSurgeRange, LoyaltyDiscountRange
  <1>2. RuleBased(market, request, MaxSurge) = Result("rule_based", surge, discount, 100)
    BY RuleBasedResult
  <1> HIDE DEF surge, discount
  <1>3. /\ Result("rule_based", surge, discount, 100).surge \in Surges
        /\ Result("rule_based", surge, discount, 100).price \in Nat
        /\ Result("rule_based", surge, discount, 100).confidence = 100
    BY <1>1, ResultType
  <1> QED BY <1>2, <1>3 DEF IsQuote

LEMMA RepricedType ==
    ASSUME NEW strategy, NEW s \in Int, NEW price, NEW discount, NEW confidence,
           NEW surge \in Int, 10000 <= surge, surge <= 30000
    PROVE  IsQuote(Repriced([strategy |-> strategy, surge |-> s, price |-> price,
                             discount |-> discount, confidence |-> confidence], surge))
  <1>1. Rounded(surge, 100) \in Surges
    BY DEF Rounded, Surges, MinSurge, MaxSurge
  <1> QED BY <1>1 DEF IsQuote, Repriced

LEMMA ZoneBasedType ==
    ASSUME NEW market \in MarketTypes, NEW request \in RequestTypes,
           NEW zone \in {"center", "outer"}
    PROVE  IsQuote(ZoneBased(zone, market, request, MaxSurge))
  <1> DEFINE rule == RuleBased(market, request, MaxSurge)
             surge == Constrained(rule.surge * ZoneAdjustment[zone], MaxSurge)
  <1>1. rule.surge \in Int
    BY RuleBasedType DEF IsQuote, Surges, MinSurge, MaxSurge
  <1>2. ZoneAdjustment[zone] \in Int
    BY DEF ZoneAdjustment
  <1>3. rule.surge * ZoneAdjustment[zone] \in Int
    BY <1>1, <1>2
  <1>4. surge \in Int /\ 10000 <= surge /\ surge <= 30000
    BY <1>3, ConstrainedRange
  <1>5. rule = [strategy |-> "rule_based", surge |-> rule.surge, price |-> rule.price,
                discount |-> rule.discount, confidence |-> rule.confidence]
    BY DEF RuleBased, Result
  <1>6. ZoneBased(zone, market, request, MaxSurge) = Repriced(rule, surge)
    BY DEF ZoneBased
  <1> HIDE DEF rule, surge
  <1> QED BY <1>1, <1>4, <1>5, <1>6, RepricedType

LEMMA MLBasedType ==
    ASSUME NEW prediction \in PredictionTypes, NEW market \in MarketTypes, NEW request \in RequestTypes
    PROVE  /\ IsQuote(MLBased(prediction, market, request, MaxSurge))
           /\ MLBased(prediction, market, request, MaxSurge).confidence \in 0..100
  <1>1. prediction.surge \in Int /\ prediction.confidence \in 0..100
    BY DEF PredictionTypes
  <1>2. CASE Available(prediction)
    <2> DEFINE surge == Constrained(prediction.surge, MaxSurge)
    <2>1. surge \in Int /\ 10000 <= surge /\ surge <= 30000
      BY <1>1, ConstrainedRange
    <2>2. MLBased(prediction, market, request, MaxSurge)
            = Result("ml_based", surge, LoyaltyDiscount(request), prediction.confidence)
      BY <1>2 DEF MLBased
    <2> HIDE DEF surge
    <2> QED BY <1>1, <2>1, <2>2, LoyaltyDiscountRange, ResultType DEF IsQuote
  <1>3. CASE ~Available(prediction)
    BY <1>3, RuleBasedType DEF MLBased
  <1> QED BY <1>2, <1>3

LEMMA HybridType ==
    ASSUME NEW prediction \in PredictionTypes, NEW market \in MarketTypes, NEW request \in RequestTypes
    PROVE  IsQuote(Hybrid(prediction, market, request, MaxSurge))
  <1> DEFINE rule == RuleBased(market, request, MaxSurge)
             ml == MLBased(prediction, market, request, MaxSurge)
             mix == rule.surge * (1000 - MLWeight(ml)) + ml.surge * MLWeight(ml)
             surge == Constrained(Rounded(mix, 10), MaxSurge)
             confidence == Rounded(100 * (1000 - MLWeight(ml)) + ml.confidence * MLWeight(ml), 1000)
  <1>1. rule.surge \in Int /\ ml.surge \in Int
    BY RuleBasedType, MLBasedType DEF IsQuote, Surges, MinSurge, MaxSurge
  <1>2. ml.confidence \in Int
    BY MLBasedType
  <1> HIDE DEF rule, ml
  <1>3. MLWeight(ml) \in Int
    BY <1>2 DEF MLWeight, AtLeast, NoMoreThan
  <1>4. mix \in Int
    <2>1. 1000 - MLWeight(ml) \in Int
      BY <1>3
    <2>2. \A a, b, c, d \in Int : a * b + c * d \in Int
      OBVIOUS
    <2> QED BY <1>1, <1>3, <2>1, <2>2
  <1> HIDE DEF mix
  <1>5. Rounded(mix, 10) \in Int
    BY <1>4, RoundedIsInt
  <1>6. surge \in Int /\ 10000 <= surge /\ surge <= 30000
    BY <1>5, ConstrainedRange
  <1>7. Hybrid(prediction, market, request, MaxSurge)
          = Result("hybrid", surge, LoyaltyDiscount(request), confidence)
    BY DEF Hybrid, rule, ml, mix
  <1> HIDE DEF surge, confidence
  <1>8. LoyaltyDiscount(request) \in 0..10
    BY LoyaltyDiscountRange
  <1>9. IsQuote(Result("hybrid", surge, LoyaltyDiscount(request), confidence))
    BY <1>6, <1>8, ResultType DEF IsQuote
  <1> QED BY <1>7, <1>9

LEMMA ElasticityAwareType ==
    ASSUME NEW prediction \in PredictionTypes, NEW market \in MarketTypes, NEW request \in RequestTypes
    PROVE  IsQuote(ElasticityAware(prediction, market, request, MaxSurge))
  <1> DEFINE ml == MLBased(prediction, market, request, MaxSurge)
  <1>1. IsQuote(ml)
    BY MLBasedType
  <1>2. CASE ml.strategy = "ml_based" /\ PriceSensitive(request) /\ ml.surge > 150
    <2> DEFINE surge == 10000 + (ml.surge - 100) * 85
    <2>1. ml.surge \in Int /\ 100 <= ml.surge /\ ml.surge <= 300
      BY <1>1 DEF IsQuote, Surges, MinSurge, MaxSurge
    <2>2. ml = [strategy |-> ml.strategy, surge |-> ml.surge, price |-> ml.price,
                discount |-> ml.discount, confidence |-> ml.confidence]
      BY DEF MLBased, RuleBased, Result
    <2>3. ElasticityAware(prediction, market, request, MaxSurge) = Repriced(ml, surge)
      BY <1>2 DEF ElasticityAware
    <2> HIDE DEF ml
    <2>4. surge \in Int /\ 10000 <= surge /\ surge <= 30000
      BY <2>1
    <2> HIDE DEF surge
    <2>5. IsQuote(Repriced(ml, surge))
      BY <2>1, <2>2, <2>4, RepricedType
    <2> QED BY <2>3, <2>5
  <1>3. CASE ~(ml.strategy = "ml_based" /\ PriceSensitive(request) /\ ml.surge > 150)
    <2>1. ElasticityAware(prediction, market, request, MaxSurge) = ml
      BY <1>3 DEF ElasticityAware
    <2> QED BY <1>1, <2>1
  <1> QED BY <1>2, <1>3

LEMMA DelayDiscountRange ==
    ASSUME NEW age \in Nat
    PROVE  /\ DelayDiscount(age) \in Int
           /\ 0 <= DelayDiscount(age)
           /\ DelayDiscount(age) <= 3000
  <1>1. CASE age <= 900
    BY <1>1 DEF DelayDiscount
  <1>2. CASE age > 900
    <2> DEFINE late == 10 * (age - 900)
    <2>1. late \in Int /\ 0 <= late
      BY <1>2
    <2>2. DelayDiscount(age) = NoMoreThan(3000, Rounded(late, 6))
      BY <1>2 DEF DelayDiscount
    <2> HIDE DEF late
    <2>3. Rounded(late, 6) \in Int /\ 0 <= Rounded(late, 6)
      BY <2>1 DEF Rounded
    <2> QED BY <2>2, <2>3 DEF NoMoreThan
  <1> QED BY <1>1, <1>2

LEMMA TimeDecayType ==
    ASSUME NEW base, IsQuote(base), NEW request \in RequestTypes
    PROVE  IsQuote(TimeDecay(base, request))
  <1> DEFINE discount == DelayDiscount(request.age)
             reduced == Rounded(base.surge * (10000 - discount), 100)
             surge == AtLeast(10000, reduced)
  <1>1. CASE request.age = NoOrder
    BY <1>1 DEF TimeDecay
  <1>2. CASE request.age # NoOrder
    <2>1. request.age \in Nat
      BY <1>2 DEF RequestTypes
    <2>2. discount \in Int /\ 0 <= discount /\ discount <= 3000
      BY <2>1, DelayDiscountRange
    <2>3. base.surge \in Int /\ 100 <= base.surge /\ base.surge <= 300
      BY DEF IsQuote, Surges, MinSurge, MaxSurge
    <2> HIDE DEF discount
    <2> DEFINE product == base.surge * (10000 - discount)
    <2>4. product \in Int /\ 0 <= product /\ product <= 100 * 30000
      <3>1. 10000 - discount \in Int /\ 0 <= 10000 - discount /\ 10000 - discount <= 10000
        BY <2>2
      <3>2. \A a, b \in Int : 0 <= a /\ a <= 300 /\ 0 <= b /\ b <= 10000 =>
                a * b \in Int /\ 0 <= a * b /\ a * b <= 300 * b /\ 300 * b <= 100 * 30000
        OBVIOUS
      <3>3. 0 <= base.surge
        BY <2>3
      <3> QED BY <2>3, <3>1, <3>2, <3>3
    <2> HIDE DEF product
    <2>5. reduced \in Int /\ reduced <= 30000
      <3>1. Rounded(product, 100) \in Int /\ Rounded(product, 100) <= 30000
        BY <2>4 DEF Rounded
      <3> QED BY <3>1 DEF product
    <2> HIDE DEF reduced
    <2>6. surge \in Int /\ 10000 <= surge /\ surge <= 30000
      BY <2>5 DEF AtLeast
    <2> HIDE DEF surge
    <2>7. Rounded(surge, 100) \in Surges /\ surge \in Nat
      BY <2>6 DEF Rounded, Surges, MinSurge, MaxSurge
    <2>8. TimeDecay(base, request).surge = Rounded(surge, 100) /\ TimeDecay(base, request).price = surge
      BY <1>2 DEF TimeDecay, surge, reduced, discount
    <2> QED BY <2>7, <2>8 DEF IsQuote
  <1> QED BY <1>1, <1>2

\* Whatever the strategy, the market, the model and the customer: the surge is legal.
LEMMA CalculateType ==
    ASSUME NEW strategy \in Strategies, NEW prediction \in PredictionTypes,
           NEW market \in MarketTypes, NEW request \in RequestTypes
    PROVE  IsQuote(Calculate(strategy, prediction, market, request, MaxSurge))
  <1>2. CASE strategy = "rule_based"
    BY <1>2, RuleBasedType DEF Calculate
  <1>3. CASE strategy = "ml_based"
    BY <1>3, MLBasedType DEF Calculate
  <1>4. CASE strategy = "hybrid"
    BY <1>4, HybridType DEF Calculate
  <1>5. CASE strategy = "elasticity"
    BY <1>5, ElasticityAwareType DEF Calculate
  <1>6. CASE strategy = "zone_center"
    BY <1>6, ZoneBasedType DEF Calculate
  <1>7. CASE strategy = "zone_outer"
    BY <1>7, ZoneBasedType DEF Calculate
  <1>8. CASE strategy = "time_decay"
    <2>1. IsQuote(Neutral)
      BY DEF IsQuote, Neutral, Surges, MinSurge, MaxSurge
    <2> QED BY <1>8, <2>1, TimeDecayType DEF Calculate
  <1>9. CASE strategy = "delayed_rules"
    BY <1>9, RuleBasedType, TimeDecayType DEF Calculate
  <1> QED BY <1>2, <1>3, <1>4, <1>5, <1>6, <1>7, <1>8, <1>9 DEF Strategies

-----------------------------------------------------------------------------
(* The quotes: demand. *)

\* A result grows with the surge that it is made from.
LEMMA ResultRises ==
    ASSUME NEW s, NEW a \in Int, NEW b \in Int, a <= b, NEW discount \in 0..10,
           NEW confidence, NEW other
    PROVE  NoDearer(Result(s, a, discount, confidence), Result(s, b, discount, other))
  <1>1. Rounded(a, 100) <= Rounded(b, 100)
    BY DEF Rounded
  <1>2. PICK rest \in Nat : rest = 100 - discount
    OBVIOUS
  <1>3. a * rest \in Int /\ b * rest \in Int /\ a * rest <= b * rest
    BY ProductsGrow
  <1>4. Rounded(a * rest, 100) <= Rounded(b * rest, 100)
    <2>1. \A x, y \in Int : x <= y => Rounded(x, 100) <= Rounded(y, 100)
      BY DEF Rounded
    <2> QED BY <1>3, <2>1
  <1> QED BY <1>1, <1>2, <1>4 DEF Result, NoDearer

LEMMA SameQuote ==
    ASSUME NEW result, IsQuote(result)
    PROVE  NoDearer(result, result)
  BY DEF IsQuote, NoDearer, Surges, MinSurge, MaxSurge

LEMMA RuleBasedRises ==
    ASSUME NEW m \in MarketTypes, NEW n \in MarketTypes, Calmer(m, n), NEW request \in RequestTypes
    PROVE  NoDearer(RuleBased(m, request, MaxSurge), RuleBased(n, request, MaxSurge))
  BY RuleBasedResult, RuleSurgeRange, RuleSurgeRises, LoyaltyDiscountRange, ResultRises

LEMMA MLBasedRises ==
    ASSUME NEW prediction \in PredictionTypes, NEW m \in MarketTypes, NEW n \in MarketTypes,
           Calmer(m, n), NEW request \in RequestTypes
    PROVE  /\ NoDearer(MLBased(prediction, m, request, MaxSurge), MLBased(prediction, n, request, MaxSurge))
           /\ MLWeight(MLBased(prediction, m, request, MaxSurge))
                  = MLWeight(MLBased(prediction, n, request, MaxSurge))
  <1>1. CASE Available(prediction)
    <2>1. MLBased(prediction, m, request, MaxSurge) = MLBased(prediction, n, request, MaxSurge)
      BY <1>1 DEF MLBased
    <2> QED BY <2>1, MLBasedType, SameQuote
  <1>2. CASE ~Available(prediction)
    <2>1. \A k \in {m, n} : MLBased(prediction, k, request, MaxSurge) = RuleBased(k, request, MaxSurge)
      BY <1>2 DEF MLBased
    <2>2. \A k \in {m, n} : MLWeight(RuleBased(k, request, MaxSurge)) = 0
      BY DEF MLWeight, RuleBased, Result
    <2> QED BY <2>1, <2>2, RuleBasedRises
  <1> QED BY <1>1, <1>2

LEMMA MLWeightRange ==
    ASSUME NEW ml, ml.confidence \in Int
    PROVE  MLWeight(ml) \in 0..1000
  BY DEF MLWeight, AtLeast, NoMoreThan

\* What the hybrid makes of two surges, before it is rounded to a result.
Mixed(rule, ml, weight) ==
    Constrained(Rounded(rule * (1000 - weight) + ml * weight, 10), MaxSurge)

\* A surge of 1/10000 steps lies between two surges of 1/100 steps.
Spans(low, high, surge) == surge \in Int /\ 100 * low <= surge /\ surge <= 100 * high

LEMMA MixedRange ==
    ASSUME NEW weight \in 0..1000, NEW rule \in Surges, NEW ml \in Surges,
           NEW low \in Surges, NEW high \in Surges,
           low <= rule, low <= ml, rule <= high, ml <= high
    PROVE  Spans(low, high, Mixed(rule, ml, weight))
  <1>1. PICK rest \in Nat : rest = 1000 - weight
    OBVIOUS
  <1>2. low \in Int /\ high \in Int /\ rule \in Int /\ ml \in Int /\ weight \in Nat
    BY DEF Surges, MinSurge, MaxSurge
  <1>3. /\ low * rest <= rule * rest /\ rule * rest <= high * rest
        /\ low * weight <= ml * weight /\ ml * weight <= high * weight
        /\ low * rest \in Int /\ rule * rest \in Int /\ high * rest \in Int
        /\ low * weight \in Int /\ ml * weight \in Int /\ high * weight \in Int
    BY <1>2, ProductsGrow
  <1>4. low * rest + low * weight = 1000 * low /\ high * rest + high * weight = 1000 * high
    BY <1>1, <1>2
  <1> DEFINE mix == rule * rest + ml * weight
  <1>5. mix \in Int /\ 1000 * low <= mix /\ mix <= 1000 * high
    BY <1>3, <1>4
  <1> HIDE DEF mix
  <1>6. Rounded(mix, 10) \in Int /\ 100 * low <= Rounded(mix, 10) /\ Rounded(mix, 10) <= 100 * high
    BY <1>2, <1>5 DEF Rounded
  <1>7. Mixed(rule, ml, weight) = Constrained(Rounded(mix, 10), MaxSurge)
    BY <1>1 DEF Mixed, mix
  <1>8. Constrained(Rounded(mix, 10), MaxSurge) = Rounded(mix, 10)
    BY <1>6 DEF Constrained, AtLeast, NoMoreThan, Surges, MinSurge, MaxSurge
  <1> QED BY <1>6, <1>7, <1>8 DEF Spans

LEMMA SurgeBounds == \A s \in Surges : s \in Int /\ 100 <= s /\ s <= 300
  BY DEF Surges, MinSurge, MaxSurge

LEMMA MixedType ==
    ASSUME NEW weight \in 0..1000, NEW rule \in Surges, NEW ml \in Surges
    PROVE  Spans(100, 300, Mixed(rule, ml, weight))
  <1>1. PICK weighed \in Int : weighed = rule * (1000 - weight) + ml * weight
    BY SurgeBounds
  <1>2. PICK surge \in Int : surge = Rounded(weighed, 10)
    BY DEF Rounded
  <1>3. Mixed(rule, ml, weight) = Constrained(surge, MaxSurge)
    BY ONLY <1>1, <1>2 DEF Mixed
  <1>4. /\ Constrained(surge, MaxSurge) \in Int
        /\ 10000 <= Constrained(surge, MaxSurge) /\ Constrained(surge, MaxSurge) <= 30000
    BY ConstrainedRange
  <1> QED BY ONLY <1>3, <1>4 DEF Spans

LEMMA MixedRises ==
    ASSUME NEW weight \in 0..1000, NEW rule \in Int, NEW ml \in Int,
           NEW rule2 \in Int, NEW ml2 \in Int, rule <= rule2, ml <= ml2
    PROVE  Mixed(rule, ml, weight) <= Mixed(rule2, ml2, weight)
  <1>1. PICK rest \in Nat : rest = 1000 - weight
    OBVIOUS
  <1>2. /\ rule * rest <= rule2 * rest /\ ml * weight <= ml2 * weight
        /\ rule * rest \in Int /\ rule2 * rest \in Int
        /\ ml * weight \in Int /\ ml2 * weight \in Int
    BY ProductsGrow
  <1> DEFINE a == rule * rest + ml * weight
             b == rule2 * rest + ml2 * weight
  <1>3. a \in Int /\ b \in Int /\ a <= b
    BY <1>2
  <1>4. Mixed(rule, ml, weight) = Constrained(Rounded(a, 10), MaxSurge)
    BY <1>1 DEF Mixed
  <1>5. Mixed(rule2, ml2, weight) = Constrained(Rounded(b, 10), MaxSurge)
    BY <1>1 DEF Mixed
  <1> HIDE DEF a, b
  <1>6. Rounded(a, 10) \in Int /\ Rounded(b, 10) \in Int /\ Rounded(a, 10) <= Rounded(b, 10)
    BY <1>3 DEF Rounded
  <1> QED BY <1>4, <1>5, <1>6, ConstrainedRises

HybridConfidence(ml) == Rounded(100 * (1000 - MLWeight(ml)) + ml.confidence * MLWeight(ml), 1000)

LEMMA HybridResult ==
    ASSUME NEW prediction, NEW market, NEW request
    PROVE  LET rule == RuleBased(market, request, MaxSurge)
               ml == MLBased(prediction, market, request, MaxSurge)
           IN  Hybrid(prediction, market, request, MaxSurge)
                   = Result("hybrid", Mixed(rule.surge, ml.surge, MLWeight(ml)),
                            LoyaltyDiscount(request), HybridConfidence(ml))
  BY DEF Hybrid, Mixed, HybridConfidence

LEMMA HybridRises ==
    ASSUME NEW prediction \in PredictionTypes, NEW m \in MarketTypes, NEW n \in MarketTypes,
           Calmer(m, n), NEW request \in RequestTypes
    PROVE  NoDearer(Hybrid(prediction, m, request, MaxSurge), Hybrid(prediction, n, request, MaxSurge))
  <1> DEFINE rule(k) == RuleBased(k, request, MaxSurge)
             ml(k) == MLBased(prediction, k, request, MaxSurge)
             mixed(k) == Mixed(rule(k).surge, ml(k).surge, MLWeight(ml(k)))
  <1>1. \A k \in {m, n} : rule(k).surge \in Surges /\ ml(k).surge \in Surges
    BY RuleBasedType, MLBasedType DEF IsQuote
  <1>2. \A k \in {m, n} : MLWeight(ml(k)) \in 0..1000
    <2> SUFFICES ASSUME NEW k \in {m, n} PROVE MLWeight(ml(k)) \in 0..1000
      OBVIOUS
    <2>1. ml(k).confidence \in 0..100
      BY MLBasedType
    <2> QED BY <2>1, MLWeightRange
  <1>3. /\ rule(m).surge <= rule(n).surge /\ ml(m).surge <= ml(n).surge
        /\ MLWeight(ml(m)) = MLWeight(ml(n))
    BY RuleBasedRises, MLBasedRises DEF NoDearer
  <1>4. \A k \in {m, n} : Hybrid(prediction, k, request, MaxSurge)
            = Result("hybrid", mixed(k), LoyaltyDiscount(request), HybridConfidence(ml(k)))
    BY HybridResult
  <1> HIDE DEF rule, ml
  <1>5. \A s \in Surges : s \in Int
    BY SurgeBounds
  <1>6. mixed(m) <= mixed(n)
    <2> DEFINE r == rule(m).surge
               p == ml(m).surge
               r2 == rule(n).surge
               p2 == ml(n).surge
               weight == MLWeight(ml(m))
    <2>1. /\ r \in Int /\ p \in Int /\ r2 \in Int /\ p2 \in Int
          /\ r <= r2 /\ p <= p2 /\ weight \in 0..1000
      BY <1>1, <1>2, <1>3, <1>5
    <2>2. mixed(m) = Mixed(r, p, weight) /\ mixed(n) = Mixed(r2, p2, weight)
      BY <1>3
    <2> HIDE DEF r, p, r2, p2, weight
    <2>3. Mixed(r, p, weight) <= Mixed(r2, p2, weight)
      BY ONLY <2>1, MixedRises, ZenonT(30)
    <2> QED BY ONLY <2>2, <2>3
  <1>7. \A k \in {m, n} : mixed(k) \in Int
    <2> SUFFICES ASSUME NEW k \in {m, n} PROVE mixed(k) \in Int
      OBVIOUS
    <2> DEFINE r == rule(k).surge
               p == ml(k).surge
               weight == MLWeight(ml(k))
    <2>1. r \in Surges /\ p \in Surges /\ weight \in 0..1000
      BY <1>1, <1>2
    <2> HIDE DEF r, p, weight
    <2>2. Spans(100, 300, Mixed(r, p, weight))
      BY ONLY <2>1, MixedType, ZenonT(30)
    <2> QED BY <2>2 DEF r, p, weight, Spans
  <1> HIDE DEF mixed
  <1>8. LoyaltyDiscount(request) \in 0..10
    BY LoyaltyDiscountRange
  <1> QED BY <1>4, <1>6, <1>7, <1>8, ResultRises

LEMMA ZoneBasedRises ==
    ASSUME NEW zone \in {"center", "outer"}, NEW m \in MarketTypes, NEW n \in MarketTypes,
           Calmer(m, n), NEW request \in RequestTypes
    PROVE  NoDearer(ZoneBased(zone, m, request, MaxSurge), ZoneBased(zone, n, request, MaxSurge))
  <1> DEFINE rule(k) == RuleBased(k, request, MaxSurge)
  <1>1. PICK adjustment \in Nat : adjustment = ZoneAdjustment[zone]
    BY DEF ZoneAdjustment
  <1> DEFINE surge(k) == Constrained(rule(k).surge * adjustment, MaxSurge)
  <1>2. \A k \in {m, n} : ZoneBased(zone, k, request, MaxSurge) = Repriced(rule(k), surge(k))
    BY <1>1 DEF ZoneBased
  <1>3. \A k \in {m, n} : /\ Repriced(rule(k), surge(k)).surge = Rounded(surge(k), 100)
                          /\ Repriced(rule(k), surge(k)).price = surge(k)
    BY DEF Repriced, RuleBased, Result
  <1>4. \A k \in {m, n} : rule(k).surge \in Int
    BY RuleBasedType DEF IsQuote, Surges, MinSurge, MaxSurge
  <1>5. rule(m).surge <= rule(n).surge
    BY RuleBasedRises DEF NoDearer
  <1> HIDE DEF rule
  <1>6. /\ rule(m).surge * adjustment \in Int /\ rule(n).surge * adjustment \in Int
        /\ rule(m).surge * adjustment <= rule(n).surge * adjustment
    BY <1>4, <1>5, ProductsGrow
  <1>7. surge(m) \in Int /\ surge(n) \in Int /\ surge(m) <= surge(n)
    BY <1>6, ConstrainedRange, ConstrainedRises
  <1> HIDE DEF surge
  <1>8. Rounded(surge(m), 100) <= Rounded(surge(n), 100)
    BY <1>7 DEF Rounded
  <1> QED BY <1>2, <1>3, <1>7, <1>8 DEF NoDearer

\* What a customer is charged after a delay, given the surge at the base.
Delayed(surge, age) == AtLeast(10000, Rounded(surge * (10000 - DelayDiscount(age)), 100))

LEMMA TimeDecayResult ==
    ASSUME NEW base, NEW request, request.age # NoOrder
    PROVE  /\ TimeDecay(base, request).surge = Rounded(Delayed(base.surge, request.age), 100)
           /\ TimeDecay(base, request).price = Delayed(base.surge, request.age)
  BY DEF TimeDecay, Delayed

LEMMA DelayedRises ==
    ASSUME NEW a \in Nat, NEW b \in Nat, a <= b, NEW age \in Nat
    PROVE  Delayed(a, age) \in Int /\ Delayed(b, age) \in Int /\ Delayed(a, age) <= Delayed(b, age)
  <1>1. PICK rest \in Nat : rest = 10000 - DelayDiscount(age)
    BY DelayDiscountRange
  <1>2. a * rest \in Int /\ b * rest \in Int /\ a * rest <= b * rest
    BY ProductsGrow
  <1>3. \A x, y \in Int : x <= y => /\ Rounded(x, 100) \in Int /\ Rounded(y, 100) \in Int
                                    /\ Rounded(x, 100) <= Rounded(y, 100)
    BY DEF Rounded
  <1>4. /\ Rounded(a * rest, 100) \in Int /\ Rounded(b * rest, 100) \in Int
        /\ Rounded(a * rest, 100) <= Rounded(b * rest, 100)
    BY <1>2, <1>3
  <1> QED BY <1>1, <1>4 DEF Delayed, AtLeast

LEMMA TimeDecayRises ==
    ASSUME NEW base, NEW dearer, IsQuote(base), IsQuote(dearer), NoDearer(base, dearer),
           NEW request \in RequestTypes
    PROVE  NoDearer(TimeDecay(base, request), TimeDecay(dearer, request))
  <1>1. CASE request.age = NoOrder
    BY <1>1 DEF TimeDecay
  <1>2. CASE request.age # NoOrder
    <2>1. request.age \in Nat
      BY <1>2 DEF RequestTypes
    <2>2. base.surge \in Nat /\ dearer.surge \in Nat /\ base.surge <= dearer.surge
      BY DEF IsQuote, NoDearer, Surges, MinSurge, MaxSurge
    <2>3. PICK a, b \in Int : /\ a = Delayed(base.surge, request.age)
                              /\ b = Delayed(dearer.surge, request.age)
                              /\ a <= b
      BY <2>1, <2>2, DelayedRises
    <2>4. Rounded(a, 100) <= Rounded(b, 100)
      BY <2>3 DEF Rounded
    <2> QED BY <1>2, <2>3, <2>4, TimeDecayResult DEF NoDearer
  <1> QED BY <1>1, <1>2

LEMMA NeutralType == IsQuote(Neutral)
  BY DEF IsQuote, Neutral, Surges, MinSurge, MaxSurge

\* Whatever the strategy: the calmer market is no dearer.
LEMMA CalmerIsNoDearer ==
    ASSUME NEW strategy \in Strategies, NEW prediction \in PredictionTypes,
           NEW m \in MarketTypes, NEW n \in MarketTypes, Calmer(m, n),
           NEW request \in RequestTypes, ~PriceSensitive(request)
    PROVE  NoDearer(Quote(strategy, prediction, m, request), Quote(strategy, prediction, n, request))
  <1>1. CASE strategy = "rule_based"
    BY <1>1, RuleBasedRises DEF Quote, Calculate
  <1>2. CASE strategy = "ml_based"
    BY <1>2, MLBasedRises DEF Quote, Calculate
  <1>3. CASE strategy = "hybrid"
    BY <1>3, HybridRises DEF Quote, Calculate
  <1>4. CASE strategy = "elasticity"
    BY <1>4, MLBasedRises DEF Quote, Calculate, ElasticityAware
  <1>5. CASE strategy = "zone_center"
    BY <1>5, ZoneBasedRises DEF Quote, Calculate
  <1>6. CASE strategy = "zone_outer"
    BY <1>6, ZoneBasedRises DEF Quote, Calculate
  <1>7. CASE strategy = "time_decay"
    BY <1>7, NeutralType, TimeDecayType, SameQuote DEF Quote, Calculate
  <1>8. CASE strategy = "delayed_rules"
    BY <1>8, RuleBasedType, RuleBasedRises, TimeDecayRises DEF Quote, Calculate
  <1> QED BY <1>1, <1>2, <1>3, <1>4, <1>5, <1>6, <1>7, <1>8 DEF Strategies

-----------------------------------------------------------------------------
(* The quotes: what the hybrid mixes, standing and waiting. *)

\* Between two surges in hundredths the rounding finds one in between.
LEMMA RoundedSurge ==
    ASSUME NEW low \in Int, NEW high \in Int, NEW surge \in Int, 100 * low <= surge, surge <= 100 * high
    PROVE  Rounded(surge, 100) \in low..high
  BY DEF Rounded

LEMMA HybridBetween ==
    ASSUME NEW prediction \in PredictionTypes, NEW market \in MarketTypes, NEW request \in RequestTypes
    PROVE  LET rule == RuleBased(market, request, MaxSurge)
               ml == MLBased(prediction, market, request, MaxSurge)
               hybrid == Hybrid(prediction, market, request, MaxSurge)
           IN  /\ hybrid.surge \in rule.surge..ml.surge \union ml.surge..rule.surge
               /\ prediction.confidence < 70 => hybrid.surge = rule.surge
  <1> DEFINE rule == RuleBased(market, request, MaxSurge)
             ml == MLBased(prediction, market, request, MaxSurge)
             hybrid == Hybrid(prediction, market, request, MaxSurge)
  <1>1. PICK r, m \in Surges : r = rule.surge /\ m = ml.surge
    BY RuleBasedType, MLBasedType DEF IsQuote
  <1>2. PICK weight \in 0..1000 : weight = MLWeight(ml)
    BY MLBasedType, MLWeightRange
  <1>3. hybrid.surge = Rounded(Mixed(r, m, weight), 100)
    BY <1>1, <1>2, HybridResult DEF Result
  <1>4. r \in Int /\ m \in Int
    BY SurgeBounds
  <1>5. hybrid.surge \in r..m \union m..r
    <2>1. Rounded(Mixed(r, m, weight), 100) \in r..m \union m..r
      <3>1. CASE r <= m
        <4>1. r <= r /\ m <= m
          BY <1>4
        <4>2. Spans(r, m, Mixed(r, m, weight))
          <5>1. r \in Surges /\ m \in Surges /\ weight \in 0..1000 /\ r <= m
            BY <3>1
          <5> QED BY ONLY <4>1, <5>1, MixedRange, ZenonT(30)
        <4> QED BY <1>4, <4>2, RoundedSurge DEF Spans
      <3>2. CASE m <= r
        <4>1. r <= r /\ m <= m
          BY <1>4
        <4>2. Spans(m, r, Mixed(r, m, weight))
          <5>1. r \in Surges /\ m \in Surges /\ weight \in 0..1000 /\ m <= r
            BY <3>2
          <5> QED BY ONLY <4>1, <5>1, MixedRange, ZenonT(30)
        <4> QED BY <1>4, <4>2, RoundedSurge DEF Spans
      <3> QED BY <1>4, <3>1, <3>2
    <2> QED BY <1>3, <2>1
  <1>6. prediction.confidence < 70 => hybrid.surge = r
    <2> SUFFICES ASSUME prediction.confidence < 70 PROVE hybrid.surge = r
      OBVIOUS
    <2>1. weight = 0
      <3>1. CASE Available(prediction)
        <4>1. ml.confidence = prediction.confidence
          BY <3>1 DEF MLBased, Result
        <4> QED BY <1>2, <4>1 DEF MLWeight
      <3>2. CASE ~Available(prediction)
        <4>1. ml.strategy = "rule_based"
          BY <3>2 DEF MLBased, RuleBased, Result
        <4> QED BY <1>2, <4>1 DEF MLWeight
      <3> QED BY <3>1, <3>2
    <2>2. Mixed(r, m, 0) = 100 * r
      <3>1. r * (1000 - 0) + m * 0 = 1000 * r
        BY <1>4
      <3>2. Rounded(1000 * r, 10) = 100 * r
        BY <1>4 DEF Rounded
      <3>3. Constrained(100 * r, MaxSurge) = 100 * r
        BY SurgeBounds DEF Constrained, AtLeast, NoMoreThan, MinSurge, MaxSurge
      <3> QED BY <3>1, <3>2, <3>3 DEF Mixed
    <2>3. Rounded(100 * r, 100) = r
      BY <1>4 DEF Rounded
    <2> QED BY <1>3, <2>1, <2>2, <2>3
  <1> QED BY <1>1, <1>5, <1>6

LEMMA NewcomerType ==
    ASSUME NEW request \in RequestTypes
    PROVE  /\ Newcomer(request) \in RequestTypes
           /\ LoyaltyDiscount(Newcomer(request)) = 0
           /\ Newcomer(request).age = request.age
           /\ Newcomer(request).averageValue = request.averageValue
  <1>1. /\ Newcomer(request).premium = FALSE /\ Newcomer(request).orders = 0
        /\ Newcomer(request).age = request.age
        /\ Newcomer(request).averageValue = request.averageValue
        /\ Newcomer(request) \in RequestTypes
    BY DEF Newcomer, RequestTypes
  <1> QED BY <1>1 DEF LoyaltyDiscount

\* A discount comes off the price of a result, to the rounding.
LEMMA ResultDiscounted ==
    ASSUME NEW s, NEW surge \in Int, 10000 <= surge, surge <= 30000,
           NEW discount \in 0..10, NEW confidence
    PROVE  LET full == Result(s, surge, 0, confidence)
               paid == Result(s, surge, discount, confidence)
           IN  /\ full.price = surge
               /\ paid.price \in Int /\ paid.price <= surge
               /\ 100 * paid.price <= surge * (100 - discount) + 100
               /\ surge * (100 - discount) - 100 <= 100 * paid.price
               /\ paid.surge = full.surge
  <1>1. PICK rest \in Nat : rest = 100 - discount
    OBVIOUS
  <1>2. Rounded(surge * (100 - 0), 100) = surge
    BY DEF Rounded
  <1> DEFINE due == surge * rest
  <1>3. due \in Int /\ due <= 100 * surge
    <2>1. rest * surge <= 100 * surge /\ rest * surge \in Int
      BY <1>1, ProductsGrow
    <2> QED BY <2>1
  <1> HIDE DEF due
  <1>4. /\ Rounded(due, 100) \in Int /\ Rounded(due, 100) <= surge
        /\ 100 * Rounded(due, 100) <= due + 100 /\ due - 100 <= 100 * Rounded(due, 100)
    BY <1>3 DEF Rounded
  <1> QED BY <1>1, <1>2, <1>4 DEF Result, due

\* How the price of a request relates to that of the newcomer, for one strategy.
Honoured(request, paid, without) ==
    /\ paid.price \in Nat /\ without.price \in Nat
    /\ paid.price <= without.price
    /\ 100 * paid.price <= without.price * (100 - LoyaltyDiscount(request)) + 100
    /\ without.price * (100 - LoyaltyDiscount(request)) - 100 <= 100 * paid.price
    /\ paid.surge = without.surge

LEMMA ResultHonoured ==
    ASSUME NEW request \in RequestTypes, NEW s, NEW surge \in Int, 10000 <= surge, surge <= 30000,
           NEW confidence
    PROVE  Honoured(request, Result(s, surge, LoyaltyDiscount(request), confidence),
                             Result(s, surge, LoyaltyDiscount(Newcomer(request)), confidence))
  <1>1. PICK discount \in 0..10 : discount = LoyaltyDiscount(request)
    BY LoyaltyDiscountRange
  <1>2. LoyaltyDiscount(Newcomer(request)) = 0
    BY NewcomerType
  <1>3. /\ Result(s, surge, discount, confidence).price \in Nat
        /\ Result(s, surge, 0, confidence).price \in Nat
    <2>1. 0 \in 0..10
      OBVIOUS
    <2> QED BY <2>1, ResultType
  <1> QED BY <1>1, <1>2, <1>3, ResultDiscounted DEF Honoured

LEMMA RuleBasedHonours ==
    ASSUME NEW market \in MarketTypes, NEW request \in RequestTypes
    PROVE  Honoured(request, RuleBased(market, request, MaxSurge),
                             RuleBased(market, Newcomer(request), MaxSurge))
  BY RuleBasedResult, RuleSurgeRange, ResultHonoured

LEMMA MLBasedHonours ==
    ASSUME NEW prediction \in PredictionTypes, NEW market \in MarketTypes, NEW request \in RequestTypes
    PROVE  /\ Honoured(request, MLBased(prediction, market, request, MaxSurge),
                                MLBased(prediction, market, Newcomer(request), MaxSurge))
           /\ MLBased(prediction, market, request, MaxSurge).strategy
                  = MLBased(prediction, market, Newcomer(request), MaxSurge).strategy
           /\ MLBased(prediction, market, request, MaxSurge).confidence
                  = MLBased(prediction, market, Newcomer(request), MaxSurge).confidence
  <1>1. CASE Available(prediction)
    <2> DEFINE surge == Constrained(prediction.surge, MaxSurge)
    <2>1. surge \in Int /\ 10000 <= surge /\ surge <= 30000
      BY ConstrainedRange DEF PredictionTypes
    <2>2. \A r \in {request, Newcomer(request)} : MLBased(prediction, market, r, MaxSurge)
              = Result("ml_based", surge, LoyaltyDiscount(r), prediction.confidence)
      BY <1>1 DEF MLBased
    <2> HIDE DEF surge
    <2>3. \A d : /\ Result("ml_based", surge, d, prediction.confidence).strategy = "ml_based"
                 /\ Result("ml_based", surge, d, prediction.confidence).confidence = prediction.confidence
      BY DEF Result
    <2> QED BY <2>1, <2>2, <2>3, ResultHonoured
  <1>2. CASE ~Available(prediction)
    <2>1. \A r \in {request, Newcomer(request)} :
              MLBased(prediction, market, r, MaxSurge) = RuleBased(market, r, MaxSurge)
      BY <1>2 DEF MLBased
    <2>2. \A r : /\ RuleBased(market, r, MaxSurge).strategy = "rule_based"
                 /\ RuleBased(market, r, MaxSurge).confidence = 100
      BY DEF RuleBased, Result
    <2> QED BY <2>1, <2>2, RuleBasedHonours
  <1> QED BY <1>1, <1>2

LEMMA HybridHonours ==
    ASSUME NEW prediction \in PredictionTypes, NEW market \in MarketTypes, NEW request \in RequestTypes
    PROVE  Honoured(request, Hybrid(prediction, market, request, MaxSurge),
                             Hybrid(prediction, market, Newcomer(request), MaxSurge))
  <1> DEFINE rule(r) == RuleBased(market, r, MaxSurge)
             ml(r) == MLBased(prediction, market, r, MaxSurge)
             new == Newcomer(request)
             mixed == Mixed(rule(request).surge, ml(request).surge, MLWeight(ml(request)))
  <1>1. /\ rule(request).surge = rule(new).surge /\ ml(request).surge = ml(new).surge
        /\ ml(request).strategy = ml(new).strategy /\ ml(request).confidence = ml(new).confidence
    BY RuleBasedHonours, MLBasedHonours DEF Honoured
  <1>2. MLWeight(ml(request)) = MLWeight(ml(new))
    BY <1>1 DEF MLWeight
  <1>3. HybridConfidence(ml(request)) = HybridConfidence(ml(new))
    BY <1>1, <1>2 DEF HybridConfidence
  <1>4. \A r : Hybrid(prediction, market, r, MaxSurge)
            = Result("hybrid", Mixed(rule(r).surge, ml(r).surge, MLWeight(ml(r))),
                     LoyaltyDiscount(r), HybridConfidence(ml(r)))
    BY HybridResult
  <1>5. mixed \in Int /\ 10000 <= mixed /\ mixed <= 30000
    <2>1. PICK r, m \in Surges : r = rule(request).surge /\ m = ml(request).surge
      BY RuleBasedType, MLBasedType DEF IsQuote
    <2>2. PICK weight \in 0..1000 : weight = MLWeight(ml(request))
      BY MLBasedType, MLWeightRange
    <2>3. Spans(100, 300, Mixed(r, m, weight))
      <3>1. r \in Surges /\ m \in Surges /\ weight \in 0..1000
        OBVIOUS
      <3> QED BY ONLY <3>1, MixedType, ZenonT(30)
    <2> QED BY ONLY <2>1, <2>2, <2>3 DEF Spans
  <1>6. /\ Hybrid(prediction, market, request, MaxSurge)
               = Result("hybrid", mixed, LoyaltyDiscount(request), HybridConfidence(ml(request)))
        /\ Hybrid(prediction, market, new, MaxSurge)
               = Result("hybrid", mixed, LoyaltyDiscount(new), HybridConfidence(ml(request)))
    BY <1>1, <1>2, <1>3, <1>4
  <1> HIDE DEF mixed, ml, rule
  <1> QED BY <1>5, <1>6, ResultHonoured

\* With the strategies of the API the discount comes off what the newcomer is quoted.
LEMMA APIHonours ==
    ASSUME NEW strategy \in {"rule_based", "ml_based", "hybrid"}, NEW prediction \in PredictionTypes,
           NEW market \in MarketTypes, NEW request \in RequestTypes
    PROVE  Honoured(request, Quote(strategy, prediction, market, request),
                             Quote(strategy, prediction, market, Newcomer(request)))
  <1>1. CASE strategy = "rule_based"
    BY <1>1, RuleBasedHonours DEF Quote, Calculate
  <1>2. CASE strategy = "ml_based"
    BY <1>2, MLBasedHonours DEF Quote, Calculate
  <1>3. CASE strategy = "hybrid"
    BY <1>3, HybridHonours DEF Quote, Calculate
  <1> QED BY <1>1, <1>2, <1>3

\* With the others standing does not make the quote higher.
LEMMA StandingCostsNothing ==
    ASSUME NEW strategy \in Strategies, NEW prediction \in PredictionTypes,
           NEW market \in MarketTypes, NEW request \in RequestTypes, request.averageValue >= 300
    PROVE  /\ Quote(strategy, prediction, market, request).price
                  <= Quote(strategy, prediction, market, Newcomer(request)).price
           /\ IsQuote(Quote(strategy, prediction, market, request))
           /\ IsQuote(Quote(strategy, prediction, market, Newcomer(request)))
  <1> DEFINE new == Newcomer(request)
             rule(r) == RuleBased(market, r, MaxSurge)
             quote(r) == Quote(strategy, prediction, market, r)
  <1>0. new \in RequestTypes /\ new.age = request.age /\ new.averageValue = request.averageValue
    BY NewcomerType
  <1>1. IsQuote(quote(request)) /\ IsQuote(quote(new))
    BY <1>0, CalculateType DEF Quote
  <1>2. rule(request).surge = rule(new).surge
    BY RuleBasedHonours DEF Honoured
  <1>3. CASE strategy \in {"rule_based", "ml_based", "hybrid"}
    BY <1>1, <1>3, APIHonours DEF Honoured
  <1>4. CASE strategy = "elasticity"
    <2>1. ~PriceSensitive(request) /\ ~PriceSensitive(new)
      <3>1. request.averageValue \in Nat
        BY DEF RequestTypes
      <3> QED BY <1>0, <3>1 DEF PriceSensitive
    <2>2. \A r \in {request, new} : quote(r) = MLBased(prediction, market, r, MaxSurge)
      BY <1>4, <2>1 DEF Quote, Calculate, ElasticityAware
    <2> QED BY <1>1, <2>2, MLBasedHonours DEF Honoured
  <1>5. CASE strategy \in {"zone_center", "zone_outer"}
    <2> DEFINE zone == IF strategy = "zone_center" THEN "center" ELSE "outer"
    <2>1. \A r : quote(r) = Repriced(rule(r), Constrained(rule(r).surge * ZoneAdjustment[zone], MaxSurge))
      BY <1>5 DEF Quote, Calculate, ZoneBased
    <2>2. \A r, s : Repriced(rule(r), s).price = s
      BY DEF Repriced, RuleBased, Result
    <2>3. quote(request).price = quote(new).price
      BY <1>2, <2>1, <2>2
    <2> QED BY <1>1, <2>3 DEF IsQuote
  <1>6. CASE strategy \in {"time_decay", "delayed_rules"}
    <2>1. CASE request.age = NoOrder /\ strategy = "delayed_rules"
      <3>1. \A r \in {request, new} : quote(r) = rule(r)
        BY <1>0, <2>1 DEF Quote, Calculate, TimeDecay
      <3> QED BY <1>1, <3>1, RuleBasedHonours DEF Honoured
    <2>2. CASE request.age = NoOrder /\ strategy = "time_decay"
      <3>1. \A r \in {request, new} : quote(r) = Neutral
        BY <1>0, <2>2 DEF Quote, Calculate, TimeDecay
      <3> QED BY <1>1, <3>1 DEF IsQuote
    <2>3. CASE request.age # NoOrder
      <3> DEFINE base(r) == IF strategy = "time_decay" THEN Neutral ELSE rule(r)
      <3>1. \A r : quote(r) = TimeDecay(base(r), r)
        BY <1>6 DEF Quote, Calculate
      <3>2. base(request).surge = base(new).surge
        BY <1>2
      <3> HIDE DEF base, quote
      <3>3. quote(request).price = quote(new).price
        BY <1>0, <2>3, <3>1, <3>2, TimeDecayResult
      <3> QED BY <1>1, <3>3 DEF IsQuote, quote
    <2> QED BY <1>6, <2>1, <2>2, <2>3
  <1> QED BY <1>1, <1>3, <1>4, <1>5, <1>6 DEF Strategies

-----------------------------------------------------------------------------
(* The quotes: waiting. *)

LEMMA DelayDiscountRises ==
    ASSUME NEW young \in Nat, NEW old \in Nat, young <= old
    PROVE  DelayDiscount(young) <= DelayDiscount(old)
  <1>1. CASE young <= 900
    BY <1>1, DelayDiscountRange DEF DelayDiscount
  <1>2. CASE young > 900
    <2> DEFINE a == 10 * (young - 900)
               b == 10 * (old - 900)
    <2>1. a \in Int /\ b \in Int /\ a <= b
      OBVIOUS
    <2>2. DelayDiscount(young) = NoMoreThan(3000, Rounded(a, 6))
      BY <1>2 DEF DelayDiscount
    <2>3. DelayDiscount(old) = NoMoreThan(3000, Rounded(b, 6))
      BY <1>2 DEF DelayDiscount
    <2> HIDE DEF a, b
    <2>4. Rounded(a, 6) \in Int /\ Rounded(b, 6) \in Int /\ Rounded(a, 6) <= Rounded(b, 6)
      BY <2>1 DEF Rounded
    <2> QED BY <2>2, <2>3, <2>4 DEF NoMoreThan
  <1> QED BY <1>1, <1>2

LEMMA DelayedFalls ==
    ASSUME NEW surge \in Nat, NEW young \in Nat, NEW old \in Nat, young <= old
    PROVE  Delayed(surge, old) <= Delayed(surge, young)
  <1>1. PICK a, b \in Nat : a = 10000 - DelayDiscount(old) /\ b = 10000 - DelayDiscount(young) /\ a <= b
    BY DelayDiscountRange, DelayDiscountRises
  <1>2. surge * a \in Int /\ surge * b \in Int /\ surge * a <= surge * b
    <2>1. a * surge \in Int /\ b * surge \in Int /\ a * surge <= b * surge
      BY <1>1, ProductsGrow
    <2> QED BY <2>1
  <1>3. \A x, y \in Int : x <= y => /\ Rounded(x, 100) \in Int /\ Rounded(y, 100) \in Int
                                    /\ Rounded(x, 100) <= Rounded(y, 100)
    BY DEF Rounded
  <1>4. /\ Rounded(surge * a, 100) \in Int /\ Rounded(surge * b, 100) \in Int
        /\ Rounded(surge * a, 100) <= Rounded(surge * b, 100)
    BY <1>2, <1>3
  <1> QED BY <1>1, <1>4 DEF Delayed, AtLeast

\* The price of an order that waits falls, whatever the customer's standing.
LEMMA WaitingIsCheaper ==
    ASSUME NEW market \in MarketTypes, NEW request \in RequestTypes,
           NEW young \in Nat, NEW old \in Nat, young <= old
    PROVE  Quote("delayed_rules", NoPrediction, market, [request EXCEPT !.age = old]).price
               <= Quote("delayed_rules", NoPrediction, market, [request EXCEPT !.age = young]).price
  <1> DEFINE aged(a) == [request EXCEPT !.age = a]
             rule(a) == RuleBased(market, aged(a), MaxSurge)
  <1>1. \A a \in Nat : aged(a).age = a /\ aged(a).age # NoOrder
    BY DEF RequestTypes, NoOrder
  <1>2. PICK surge \in Surges : surge = Rounded(RuleSurge(market), 100)
    <2>1. LoyaltyDiscount(request) \in 0..10
      BY LoyaltyDiscountRange
    <2>2. Result("rule_based", RuleSurge(market), LoyaltyDiscount(request), 100).surge \in Surges
      BY <2>1, RuleSurgeRange, ResultType
    <2> QED BY <2>2 DEF Result
  <1>3. \A a : rule(a).surge = surge
    BY <1>2, RuleBasedResult DEF Result
  <1>4. \A a : Quote("delayed_rules", NoPrediction, market, aged(a)) = TimeDecay(rule(a), aged(a))
    BY DEF Quote, Calculate
  <1> HIDE DEF aged, rule
  <1>5. \A a \in Nat : Quote("delayed_rules", NoPrediction, market, aged(a)).price = Delayed(surge, a)
    BY <1>1, <1>3, <1>4, TimeDecayResult
  <1>6. surge \in Nat
    BY SurgeBounds
  <1> QED BY <1>5, <1>6, DelayedFalls DEF aged

LEMMA TimeTiersAreCurve ==
    /\ IsCurve(TimeTiers) /\ Len(TimeTiers) = 8
    /\ TimeTiers[1][2] = 100 /\ TimeTiers[8][2] = 200
  <1>1. Len(TimeTiers) = 8 /\ TimeTiers \in Seq(Nat \X Nat)
    BY DEF TimeTiers
  <1>2. /\ TimeTiers[1] = <<0, 100>> /\ TimeTiers[2] = <<300, 100>>
        /\ TimeTiers[3] = <<600, 110>> /\ TimeTiers[4] = <<900, 125>>
        /\ TimeTiers[5] = <<1200, 140>> /\ TimeTiers[6] = <<1500, 160>>
        /\ TimeTiers[7] = <<1800, 180>> /\ TimeTiers[8] = <<2400, 200>>
    BY DEF TimeTiers
  <1>3. \A i \in 2..8 : TimeTiers[i - 1][1] < TimeTiers[i][1]
    <2> SUFFICES ASSUME NEW i \in 2..8 PROVE TimeTiers[i - 1][1] < TimeTiers[i][1]
      OBVIOUS
    <2>1. i = 2 \/ i = 3 \/ i = 4 \/ i = 5 \/ i = 6 \/ i = 7 \/ i = 8
      OBVIOUS
    <2> QED BY <1>2, <2>1
  <1>4. \A i, k \in 1..8 : i <= k => TimeTiers[i][2] <= TimeTiers[k][2]
    <2> SUFFICES ASSUME NEW i \in 1..8, NEW k \in 1..8, i <= k
                 PROVE  TimeTiers[i][2] <= TimeTiers[k][2]
      OBVIOUS
    <2>1. i = 1 \/ i = 2 \/ i = 3 \/ i = 4 \/ i = 5 \/ i = 6 \/ i = 7 \/ i = 8
      OBVIOUS
    <2>2. k = 1 \/ k = 2 \/ k = 3 \/ k = 4 \/ k = 5 \/ k = 6 \/ k = 7 \/ k = 8
      OBVIOUS
    <2> QED BY <1>2, <2>1, <2>2
  <1> QED BY <1>1, <1>2, <1>3, <1>4 DEF IsCurve

LEMMA UrgentTiersAreCurve ==
    /\ IsCurve(UrgentTiers) /\ Len(UrgentTiers) = 5
    /\ UrgentTiers[1][2] = 130 /\ UrgentTiers[5][2] = 250
  <1>1. Len(UrgentTiers) = 5 /\ UrgentTiers \in Seq(Nat \X Nat)
    BY DEF UrgentTiers
  <1>2. /\ UrgentTiers[1] = <<0, 130>> /\ UrgentTiers[2] = <<300, 150>>
        /\ UrgentTiers[3] = <<600, 180>> /\ UrgentTiers[4] = <<900, 200>>
        /\ UrgentTiers[5] = <<1200, 250>>
    BY DEF UrgentTiers
  <1>3. \A i \in 2..5 : UrgentTiers[i - 1][1] < UrgentTiers[i][1]
    <2> SUFFICES ASSUME NEW i \in 2..5 PROVE UrgentTiers[i - 1][1] < UrgentTiers[i][1]
      OBVIOUS
    <2>1. i = 2 \/ i = 3 \/ i = 4 \/ i = 5
      OBVIOUS
    <2> QED BY <1>2, <2>1
  <1>4. \A i, k \in 1..5 : i <= k => UrgentTiers[i][2] <= UrgentTiers[k][2]
    <2> SUFFICES ASSUME NEW i \in 1..5, NEW k \in 1..5, i <= k
                 PROVE  UrgentTiers[i][2] <= UrgentTiers[k][2]
      OBVIOUS
    <2>1. i = 1 \/ i = 2 \/ i = 3 \/ i = 4 \/ i = 5
      OBVIOUS
    <2>2. k = 1 \/ k = 2 \/ k = 3 \/ k = 4 \/ k = 5
      OBVIOUS
    <2> QED BY <1>2, <2>1, <2>2
  <1> QED BY <1>1, <1>2, <1>3, <1>4 DEF IsCurve

\* The multiplier of an age is on the curve of the tiers, as far as that goes.
OnTiers(tiers, max, age) ==
    LET within == Within(tiers, age, 1)
        multiplier == TimeMultiplier(tiers, max, age)
        highest == 100 * tiers[Len(tiers)][2]
    IN  /\ age = 0 => multiplier = 10000
        /\ age > 0 /\ within = {} => multiplier = highest
        /\ age > 0 /\ within # {} => multiplier = OnCurve(tiers, age, 1)
        /\ multiplier \in Int /\ highest \in Int /\ 10000 <= multiplier /\ multiplier <= highest

LEMMA Multiplied ==
    ASSUME NEW tiers, IsCurve(tiers), NEW max \in Nat, tiers[Len(tiers)][2] <= max, 100 <= tiers[1][2],
           NEW age \in Nat
    PROVE  OnTiers(tiers, max, age)
  <1> DEFINE within == Within(tiers, age, 1)
             multiplier == TimeMultiplier(tiers, max, age)
             highest == 100 * tiers[Len(tiers)][2]
             i == First(within)
             range == {k \in 2..Len(tiers) : age <= tiers[k][1]}
  <1>1. /\ Len(tiers) \in 2..8 /\ 1 \in 1..Len(tiers) /\ Len(tiers) \in 1..Len(tiers) /\ Len(tiers) \in 2..Len(tiers)
    BY DEF IsCurve
  <1>2. tiers[Len(tiers)][2] \in Nat /\ tiers[1][2] \in Nat /\ tiers[1][2] <= tiers[Len(tiers)][2]
    <2>1. tiers[1] \in Nat \X Nat /\ tiers[Len(tiers)] \in Nat \X Nat
      BY <1>1 DEF IsCurve
    <2>2. 1 <= Len(tiers)
      BY <1>1
    <2> QED BY <1>1, <2>1, <2>2 DEF IsCurve
  <1>3. within = range
    <2>1. \A k \in 2..Len(tiers) : tiers[k][1] * 1 = tiers[k][1]
      BY CurvePoints
    <2> QED BY <2>1 DEF Within
  <1>4. CASE age = 0
    <2>1. multiplier = 10000
      BY <1>4 DEF TimeMultiplier
    <2> QED BY <1>2, <1>4, <2>1 DEF OnTiers
  <1>5. CASE age > 0 /\ within = {}
    <2>1. ~(age <= 0) /\ range = {}
      BY <1>3, <1>5
    <2>2. multiplier = 100 * NoMoreThan(max, tiers[Len(tiers)][2])
      BY <1>5, <2>1 DEF TimeMultiplier
    <2>3. NoMoreThan(max, tiers[Len(tiers)][2]) = tiers[Len(tiers)][2]
      BY <1>2 DEF NoMoreThan
    <2> HIDE DEF multiplier
    <2> QED BY <1>2, <1>5, <2>2, <2>3 DEF multiplier, OnTiers
  <1>6. CASE age > 0 /\ within # {}
    <2>1. 1 \in Nat /\ 1 > 0
      OBVIOUS
    <2>2. /\ i \in 2..Len(tiers)
          /\ OnCurve(tiers, age, 1) \in Int
          /\ 100 * tiers[i - 1][2] <= OnCurve(tiers, age, 1) /\ OnCurve(tiers, age, 1) <= 100 * tiers[i][2]
      BY <1>6, <2>1, CurveSegment
    <2>3. /\ tiers[i][1] \in Nat /\ tiers[i - 1][1] \in Nat
          /\ tiers[i][2] \in Nat /\ tiers[i - 1][2] \in Nat
          /\ i \in 1..Len(tiers) /\ i - 1 \in 1..Len(tiers)
      BY <2>2, CurvePoints
    <2>4. multiplier = OnCurve(tiers, age, 1)
      <3> DEFINE first == First(range)
      <3>1. ~(age <= 0) /\ ~(age > 0 /\ range = {})
        <4>1. range # {}
          BY <1>3, <1>6
        <4> QED BY <1>6, <4>1
      <3>2. multiplier = 100 * tiers[first - 1][2]
                + Rounded(100 * (tiers[first][2] - tiers[first - 1][2]) * (age - tiers[first - 1][1]),
                          tiers[first][1] - tiers[first - 1][1])
        BY <3>1 DEF TimeMultiplier, First
      <3>4. first = i
        <4> HIDE DEF range, within
        <4> QED BY <1>3
      <3> HIDE DEF first, i, multiplier
      <3>3. /\ tiers[i - 1][1] * 1 = tiers[i - 1][1]
            /\ (tiers[i][1] - tiers[i - 1][1]) * 1 = tiers[i][1] - tiers[i - 1][1]
        BY <2>3
      <3>5. OnCurve(tiers, age, 1)
                = 100 * tiers[i - 1][2]
                + Rounded(100 * (tiers[i][2] - tiers[i - 1][2]) * (age - tiers[i - 1][1] * 1),
                          (tiers[i][1] - tiers[i - 1][1]) * 1)
        BY DEF OnCurve, OnSegment, i
      <3> QED BY <3>2, <3>3, <3>4, <3>5 DEF multiplier
    <2> HIDE DEF i, multiplier
    <2>5. 1 <= i - 1 /\ i <= Len(tiers)
      BY <1>1, <2>2
    <2>6. tiers[1][2] <= tiers[i - 1][2] /\ tiers[i][2] <= tiers[Len(tiers)][2]
      BY <1>1, <2>3, <2>5 DEF IsCurve
    <2>7. 10000 <= multiplier /\ multiplier <= highest
      <3>1. PICK a, b, c, d \in Nat : a = tiers[1][2] /\ b = tiers[i - 1][2]
                                    /\ c = tiers[i][2] /\ d = tiers[Len(tiers)][2]
        BY <1>2, <2>3
      <3>2. 100 * b <= OnCurve(tiers, age, 1) /\ OnCurve(tiers, age, 1) <= 100 * c
        BY <2>2, <3>1
      <3>3. 100 <= a /\ a <= b /\ c <= d
        BY <2>6, <3>1
      <3>4. 10000 <= OnCurve(tiers, age, 1) /\ OnCurve(tiers, age, 1) <= 100 * d
        BY <2>2, <3>2, <3>3
      <3> QED BY <2>4, <3>1, <3>4 DEF multiplier
    <2> QED BY <1>2, <1>6, <2>2, <2>4, <2>7 DEF multiplier, OnTiers
  <1> QED BY <1>4, <1>5, <1>6

LEMMA MultiplierRises ==
    ASSUME NEW tiers, IsCurve(tiers), NEW max \in Nat, tiers[Len(tiers)][2] <= max, 100 <= tiers[1][2],
           NEW young \in Nat, NEW old \in Nat, young <= old
    PROVE  TimeMultiplier(tiers, max, young) <= TimeMultiplier(tiers, max, old)
  <1> DEFINE a == TimeMultiplier(tiers, max, young)
             b == TimeMultiplier(tiers, max, old)
             highest == 100 * tiers[Len(tiers)][2]
  <1>1. OnTiers(tiers, max, young) /\ OnTiers(tiers, max, old)
    BY Multiplied
  <1>2. /\ young = 0 => a = 10000
        /\ young > 0 /\ Within(tiers, young, 1) # {} => a = OnCurve(tiers, young, 1)
        /\ a \in Int /\ highest \in Int /\ a <= highest
        /\ old > 0 /\ Within(tiers, old, 1) = {} => b = highest
        /\ old > 0 /\ Within(tiers, old, 1) # {} => b = OnCurve(tiers, old, 1)
        /\ b \in Int /\ 10000 <= b
    BY <1>1 DEF OnTiers
  <1> HIDE DEF a, b, highest
  <1>3. CASE young = 0
    BY <1>2, <1>3 DEF a, b
  <1>4. CASE young > 0 /\ Within(tiers, old, 1) = {}
    <2>1. old > 0
      BY <1>4
    <2>2. a <= b
      BY <1>2, <1>4, <2>1
    <2> QED BY <2>2 DEF a, b
  <1>5. CASE young > 0 /\ Within(tiers, old, 1) # {}
    <2>1. 1 \in Nat /\ 1 > 0 /\ young * 1 <= old * 1 /\ old > 0
      BY <1>5
    <2>2. Within(tiers, young, 1) # {} /\ OnCurve(tiers, young, 1) <= OnCurve(tiers, old, 1)
      BY <1>5, <2>1, CurveRises
    <2>3. a <= b
      BY <1>2, <1>5, <2>1, <2>2
    <2> QED BY <2>3 DEF a, b
  <1> QED BY <1>3, <1>4, <1>5

-----------------------------------------------------------------------------
(* The fairness constraints. *)

EntryTypes == [surge : Surges, age : 0..Window]

LEMMA RateLimitedType ==
    ASSUME NEW before \in EntryTypes, NEW surge \in Surges
    PROVE  /\ RateLimited(before, surge) \in Surges
           /\ before.age < Window => RateLimited(before, surge) <= before.surge + RatePerTick * before.age
  <1>1. before.surge \in Surges /\ before.age \in Nat
    BY Constants DEF EntryTypes
  <1>2. RatePerTick * before.age \in Nat
    <2>1. \A a, b \in Nat : a * b \in Nat
      OBVIOUS
    <2> QED BY <1>1, <2>1, Constants
  <1> DEFINE limit == before.surge + RatePerTick * before.age
  <1>3. limit \in Int /\ 100 <= limit
    <2>1. before.surge \in Int /\ 100 <= before.surge
      BY <1>1 DEF Surges, MinSurge, MaxSurge
    <2> QED BY <1>2, <2>1
  <1>4. RateLimited(before, surge) = IF before.age < Window /\ surge > limit THEN limit ELSE surge
    BY DEF RateLimited
  <1> HIDE DEF limit
  <1>5. surge \in Int /\ 100 <= surge /\ surge <= 300
    BY DEF Surges, MinSurge, MaxSurge
  <1>6. CASE before.age < Window /\ surge > limit
    BY <1>3, <1>4, <1>5, <1>6 DEF limit, Surges, MinSurge, MaxSurge
  <1>7. CASE ~(before.age < Window /\ surge > limit)
    <2>1. RateLimited(before, surge) = surge
      BY <1>4, <1>7
    <2>2. before.age < Window => surge <= limit
      BY <1>3, <1>5, <1>7
    <2> QED BY <2>1, <2>2 DEF limit
  <1> QED BY <1>6, <1>7

LEMMA FairType ==
    ASSUME NEW before \in EntryTypes, NEW result, IsQuote(result)
    PROVE  /\ Fair(before, result) \in [surge : Surges, price : 0..PriceCap]
           /\ before.age < Window =>
                 Fair(before, result).surge <= AtLeast(CapSurge, before.surge + RatePerTick * before.age)
  <1> DEFINE limit == before.surge + RatePerTick * before.age
  <1>1. result.surge \in Surges /\ result.price \in Nat
    BY DEF IsQuote
  <1>2. limit \in Int
    <2>1. before.surge \in Int /\ before.age \in Nat
      BY Constants DEF EntryTypes, Surges, MinSurge, MaxSurge
    <2>2. \A a, b \in Nat : a * b \in Nat
      OBVIOUS
    <2> QED BY <2>1, <2>2, Constants
  <1>3. CASE result.price > PriceCap
    <2>1. Fair(before, result) = [surge |-> CapSurge, price |-> PriceCap]
      BY <1>3 DEF Fair
    <2>2. CapSurge \in Surges /\ PriceCap \in 0..PriceCap
      BY DEF CapSurge, PriceCap, Surges, MinSurge, MaxSurge
    <2> HIDE DEF limit
    <2>3. CapSurge <= AtLeast(CapSurge, limit)
      BY <1>2 DEF AtLeast, CapSurge
    <2> QED BY <2>1, <2>2, <2>3 DEF limit
  <1>4. CASE ~(result.price > PriceCap)
    <2>1. Fair(before, result) = [surge |-> RateLimited(before, result.surge), price |-> result.price]
      BY <1>4 DEF Fair
    <2>2. RateLimited(before, result.surge) \in Surges /\ result.price \in 0..PriceCap
      <3>1. PriceCap \in Int /\ result.price <= PriceCap
        BY <1>1, <1>4 DEF PriceCap
      <3> QED BY <1>1, <3>1, RateLimitedType
    <2>3. before.age < Window => RateLimited(before, result.surge) <= limit
      BY <1>1, RateLimitedType
    <2> HIDE DEF limit
    <2>4. before.age < Window => RateLimited(before, result.surge) <= AtLeast(CapSurge, limit)
      BY <1>2, <2>2, <2>3 DEF AtLeast, CapSurge, Surges, MinSurge, MaxSurge
    <2> QED BY <2>1, <2>2, <2>4 DEF limit
  <1> QED BY <1>3, <1>4

LEMMA StrategyForType ==
    ASSUME ABTypeOK, NEW identifier
    PROVE  StrategyFor(identifier) \in Strategies
  <1>1. CASE active = NoExperiment
    BY <1>1, Constants DEF StrategyFor
  <1>2. CASE active # NoExperiment
    <2>1. active \in Experiments
      BY <1>2 DEF ABTypeOK
    <2>2. VariantFor(active, identifier) \in Variants
      BY DEF VariantFor, Assign, Variants
    <2> QED BY <1>2, <2>1, <2>2, Constants DEF StrategyFor
  <1> QED BY <1>1, <1>2

-----------------------------------------------------------------------------
(* The invariant. *)

\* What a price leaves of the engine: a legal surge and price, a history entry.
LEMMA PriceStep ==
    ASSUME IInv, NEW z \in Zones, NEW identifier \in Identifiers, NEW request \in Requests,
           CalculatePrice(z, identifier, request)
    PROVE  /\ last' \in [Zones -> EntryTypes]
           /\ counted' \in [Zones -> SUBSET Markets]
           /\ quoted' \in [surge : Surges, price : 0..PriceCap]
           /\ \A y \in Zones : RisesWithinRate(y)
  <1> USE DEF IInv, TypeOK
  <1>1. PICK market \in MarketNow(z), prediction \in Predictions :
          LET result == Calculate(StrategyFor(identifier), prediction, market, request, MaxSurge)
          IN /\ counted' = [counted EXCEPT ![z] = {market}]
             /\ quoted' = Fair(last[z], result)
             /\ last' = [last EXCEPT ![z] = [surge |-> Fair(last[z], result).surge, age |-> 0]]
    BY DEF CalculatePrice
  <1> DEFINE result == Calculate(StrategyFor(identifier), prediction, market, request, MaxSurge)
  <1>2. market \in Markets
    BY DEF MarketNow
  <1>3. IsQuote(result)
    BY <1>2, Constants, StrategyForType, CalculateType
  <1>4. last \in [Zones -> EntryTypes]
    BY DEF EntryTypes
  <1> HIDE DEF result
  <1> DEFINE fair == Fair(last[z], result)
  <1>5. /\ counted' = [counted EXCEPT ![z] = {market}]
        /\ quoted' = fair
        /\ last' = [last EXCEPT ![z] = [surge |-> fair.surge, age |-> 0]]
    BY <1>1 DEF result
  <1>6. /\ fair \in [surge : Surges, price : 0..PriceCap]
        /\ last[z].age < Window =>
              fair.surge <= AtLeast(CapSurge, last[z].surge + RatePerTick * last[z].age)
    BY <1>3, <1>4, FairType
  <1> HIDE DEF fair
  <1>7. last' \in [Zones -> EntryTypes]
    <2>1. fair.surge \in Surges /\ 0 \in 0..Window
      BY <1>6, Constants
    <2>2. [surge |-> fair.surge, age |-> 0] \in EntryTypes
      BY ONLY <2>1 DEF EntryTypes
    <2> QED BY <1>4, <1>5, <2>2
  <1>8. counted' \in [Zones -> SUBSET Markets]
    BY <1>2, <1>5
  <1>9. ASSUME NEW y \in Zones
        PROVE  RisesWithinRate(y)
    <2>1. CASE y = z
      <3>1. last'[y] = [surge |-> fair.surge, age |-> 0]
        BY <1>4, <1>5, <2>1
      <3> QED BY <1>6, <2>1, <3>1 DEF RisesWithinRate
    <2>2. CASE y # z
      <3>1. last'[y] = last[y]
        BY <1>4, <1>5, <2>2
      <3>2. last[y].surge \in Int
        BY <1>4 DEF EntryTypes, Surges, MinSurge, MaxSurge
      <3>3. last[y].age = 0 => RatePerTick * last[y].age = 0
        BY Constants
      <3>4. last[y].age = 0 => last[y].surge <= AtLeast(CapSurge, last[y].surge + RatePerTick * last[y].age)
        BY <3>2, <3>3 DEF AtLeast, CapSurge
      <3> QED BY <3>1, <3>4 DEF RisesWithinRate
    <2> QED BY <2>1, <2>2
  <1> QED BY <1>5, <1>6, <1>7, <1>8, <1>9

LEMMA AgedType ==
    ASSUME NEW entry \in EntryTypes
    PROVE  Aged(entry) \in EntryTypes /\ Aged(entry).age >= 1
  <1>1. entry.surge \in Surges /\ entry.age \in 0..Window
    BY DEF EntryTypes
  <1>2. CASE entry.age + 1 >= Window
    BY <1>2, Constants DEF Aged, NoHistory, EntryTypes, Surges, MinSurge, MaxSurge
  <1>3. CASE ~(entry.age + 1 >= Window)
    <2>1. Aged(entry) = [entry EXCEPT !.age = entry.age + 1]
      BY <1>3 DEF Aged
    <2>2. entry.age + 1 \in 0..Window /\ entry.age + 1 >= 1
      BY <1>1, <1>3, Constants
    <2> QED BY <2>1, <2>2 DEF EntryTypes
  <1> QED BY <1>2, <1>3

\* An impression, with a conversion or without.
Counts(v) ==
    /\ RecordImpression(active, v)
    /\ RecordConversion(active, v) \/ UNCHANGED conversions

\* What a step can do to the experiments.
ExperimentsStep ==
    \/ UNCHANGED abVars
    \/ \E e \in Experiments : CreateExperiment(e) \/ StartExperiment(e) \/ StopExperiment(e)
    \/ active # NoExperiment /\ (\E v \in Variants : Counts(v)) /\ UNCHANGED <<status, active>>

LEMMA NextExperiments ==
    ASSUME IInv, Next
    PROVE  ExperimentsStep
  <1>1. ASSUME NEW z \in Zones, NEW identifier \in Identifiers, NEW request \in Requests,
               CalculatePrice(z, identifier, request)
        PROVE  ExperimentsStep
    <2>1. VariantFor(active, identifier) \in Variants
      BY DEF VariantFor, Assign, Variants
    <2>2. CASE active = NoExperiment
      BY <1>1, <2>2 DEF CalculatePrice, ExperimentsStep
    <2>3. CASE active # NoExperiment
      BY <1>1, <2>1, <2>3 DEF CalculatePrice, ExperimentsStep, Counts
    <2> QED BY <2>2, <2>3
  <1>2. ASSUME NEW z \in Zones, NEW identifier \in Identifiers, CalculationFails(z, identifier)
        PROVE  ExperimentsStep
    <2>1. VariantFor(active, identifier) \in Variants
      BY DEF VariantFor, Assign, Variants
    <2>2. CASE active = NoExperiment
      BY <1>2, <2>2 DEF CalculationFails, ExperimentsStep
    <2>3. CASE active # NoExperiment
      BY <1>2, <2>1, <2>3 DEF CalculationFails, ExperimentsStep, Counts
    <2> QED BY <2>2, <2>3
  <1>3. CASE Manage
    BY <1>3 DEF Manage, ExperimentsStep
  <1>4. CASE NewEngine
    BY <1>4 DEF NewEngine, ExperimentsStep
  <1>5. CASE Tick
    BY <1>5 DEF Tick, ExperimentsStep
  <1> QED BY <1>1, <1>2, <1>3, <1>4, <1>5 DEF Next

ABInv == ABTypeOK /\ ActiveIsRunning /\ MetricsOnlyOfStarted /\ ConversionsHaveImpressions

\* The experiments keep their invariant, and what is over stays over.
LEMMA ExperimentsPreserve ==
    ASSUME ABInv, ExperimentsStep
    PROVE  ABInv' /\ OverStaysOver
  <1> USE DEF ABInv
  <1>1. CASE UNCHANGED abVars
    <2>1. ABInv'
      BY <1>1 DEF abVars, ABTypeOK, ActiveIsRunning, MetricsOnlyOfStarted, ConversionsHaveImpressions
    <2>2. OverStaysOver
      BY <1>1, Constants DEF abVars, ABTypeOK, ActiveIsRunning, OverStaysOver, Over
    <2> QED BY <2>1, <2>2
  <1>2. ASSUME NEW e \in Experiments, CreateExperiment(e)
        PROVE  ABInv' /\ OverStaysOver
    <2>1. ABTypeOK'
      BY <1>2 DEF CreateExperiment, ABTypeOK
    <2>2. ActiveIsRunning' /\ MetricsOnlyOfStarted' /\ ConversionsHaveImpressions'
      BY <1>2, Constants
         DEF CreateExperiment, ABTypeOK, ActiveIsRunning, MetricsOnlyOfStarted, ConversionsHaveImpressions
    <2>3. OverStaysOver
      BY <1>2, Constants DEF CreateExperiment, ABTypeOK, ActiveIsRunning, OverStaysOver, Over
    <2> QED BY <2>1, <2>2, <2>3
  <1>3. ASSUME NEW e \in Experiments, StartExperiment(e)
        PROVE  ABInv' /\ OverStaysOver
    <2>1. ABTypeOK'
      BY <1>3 DEF StartExperiment, ABTypeOK
    <2>2. ActiveIsRunning' /\ MetricsOnlyOfStarted' /\ ConversionsHaveImpressions'
      BY <1>3, Constants
         DEF StartExperiment, ABTypeOK, ActiveIsRunning, MetricsOnlyOfStarted, ConversionsHaveImpressions
    <2>3. OverStaysOver
      BY <1>3 DEF StartExperiment, ABTypeOK, ActiveIsRunning, OverStaysOver, Over
    <2> QED BY <2>1, <2>2, <2>3
  <1>4. ASSUME NEW e \in Experiments, StopExperiment(e)
        PROVE  ABInv' /\ OverStaysOver
    <2>1. ABTypeOK'
      BY <1>4 DEF StopExperiment, ABTypeOK
    <2>2. ActiveIsRunning' /\ MetricsOnlyOfStarted' /\ ConversionsHaveImpressions'
      BY <1>4, Constants
         DEF StopExperiment, ABTypeOK, ActiveIsRunning, MetricsOnlyOfStarted, ConversionsHaveImpressions
    <2>3. OverStaysOver
      BY <1>4, Constants DEF StopExperiment, ABTypeOK, ActiveIsRunning, OverStaysOver, Over
    <2> QED BY <2>1, <2>2, <2>3
  <1>5. ASSUME active # NoExperiment, NEW v \in Variants, Counts(v), UNCHANGED <<status, active>>
        PROVE  ABInv' /\ OverStaysOver
    <2>1. active \in Experiments /\ status[active] = "running"
      BY <1>5 DEF ABTypeOK, ActiveIsRunning
    <2>2. /\ impressions \in [Experiments -> [Variants -> 0..MaxImpressions]]
          /\ impressions[active][v] \in 0..MaxImpressions
          /\ impressions[active][v] < MaxImpressions
          /\ impressions' = [impressions EXCEPT ![active][v] = @ + 1]
      BY <1>5, <2>1 DEF Counts, RecordImpression, Counted, ABTypeOK
    <2>3. impressions[active][v] + 1 \in 0..MaxImpressions
      BY <2>2, Constants
    <2>4. impressions' \in [Experiments -> [Variants -> 0..MaxImpressions]]
      BY <2>1, <2>2, <2>3
    <2>5. /\ conversions \in [Experiments -> [Variants -> Nat]]
          /\ conversions[active][v] \in Nat
          /\ \/ conversions' = [conversions EXCEPT ![active][v] = @ + 1]
             \/ conversions' = conversions
      BY <1>5, <2>1 DEF Counts, RecordConversion, ABTypeOK
    <2>6. conversions' \in [Experiments -> [Variants -> Nat]]
      <3>1. CASE conversions' = conversions
        BY <2>5, <3>1
      <3>2. CASE conversions' = [conversions EXCEPT ![active][v] = @ + 1]
        <4>1. conversions[active][v] + 1 \in Nat
          BY <2>5
        <4> QED BY <2>1, <2>5, <3>2, <4>1
      <3> QED BY <2>5, <3>1, <3>2
    <2>7. \A e \in Experiments : e # active => impressions'[e] = impressions[e] /\ conversions'[e] = conversions[e]
      <3>1. \A e \in Experiments : e # active => impressions'[e] = impressions[e]
        BY <2>1, <2>2
      <3>2. \A e \in Experiments : e # active => conversions'[e] = conversions[e]
        BY <2>1, <2>5
      <3> QED BY <3>1, <3>2
    <2>8. \A w \in Variants : w # v =>
              impressions'[active][w] = impressions[active][w] /\ conversions'[active][w] = conversions[active][w]
      <3>1. \A w \in Variants : w # v => impressions'[active][w] = impressions[active][w]
        BY <2>1, <2>2
      <3>2. \A w \in Variants : w # v => conversions'[active][w] = conversions[active][w]
        BY <2>1, <2>5
      <3> QED BY <3>1, <3>2
    <2>9. /\ impressions'[active][v] = impressions[active][v] + 1
          /\ conversions'[active][v] \in {conversions[active][v], conversions[active][v] + 1}
      <3>1. impressions'[active][v] = impressions[active][v] + 1
        BY <2>1, <2>2
      <3>2. CASE conversions' = conversions
        BY <3>1, <3>2
      <3>3. CASE conversions' = [conversions EXCEPT ![active][v] = @ + 1]
        <4>1. conversions'[active][v] = conversions[active][v] + 1
          BY <2>1, <2>5, <3>3
        <4> QED BY <3>1, <4>1
      <3> QED BY <2>5, <3>2, <3>3
    <2>10. conversions[active][v] <= impressions[active][v]
      BY <2>1 DEF ConversionsHaveImpressions
    <2>11. conversions'[active][v] <= impressions'[active][v]
      BY <2>2, <2>5, <2>9, <2>10
    <2>12. ConversionsHaveImpressions'
      BY <2>7, <2>8, <2>11 DEF ConversionsHaveImpressions
    <2>13. ABTypeOK' /\ ActiveIsRunning'
      BY <1>5, <2>4, <2>6 DEF ABTypeOK, ActiveIsRunning
    <2>14. MetricsOnlyOfStarted'
      BY <1>5, <2>1, <2>7 DEF MetricsOnlyOfStarted
    <2>15. OverStaysOver
      BY <1>5, <2>1, <2>7 DEF OverStaysOver, Over
    <2> QED BY <2>12, <2>13, <2>14, <2>15
  <1> QED BY <1>1, <1>2, <1>3, <1>4, <1>5 DEF ExperimentsStep

\* What a step does to the engine, and the rate it keeps.
LEMMA EnginePreserves ==
    ASSUME IInv, Next
    PROVE  /\ last' \in [Zones -> EntryTypes]
           /\ counted' \in [Zones -> SUBSET Markets]
           /\ quoted' \in [surge : Surges, price : 0..PriceCap]
           /\ (\A z \in Zones : RisesWithinRate(z)) \/ UNCHANGED last
  <1> USE DEF IInv, TypeOK
  <1>0. last \in [Zones -> EntryTypes]
    BY DEF EntryTypes
  <1>1. ASSUME NEW z \in Zones, NEW identifier \in Identifiers, NEW request \in Requests,
               CalculatePrice(z, identifier, request)
        PROVE  /\ last' \in [Zones -> EntryTypes]
               /\ counted' \in [Zones -> SUBSET Markets]
               /\ quoted' \in [surge : Surges, price : 0..PriceCap]
               /\ \A y \in Zones : RisesWithinRate(y)
    BY <1>1, PriceStep
  <1>2. CASE Manage
    BY <1>0, <1>2 DEF Manage, pricingVars
  <1>3. ASSUME NEW z \in Zones, NEW identifier \in Identifiers, CalculationFails(z, identifier)
        PROVE  /\ UNCHANGED <<last, quoted>>
               /\ counted' \in [Zones -> SUBSET Markets]
    BY <1>3 DEF CalculationFails, MarketNow
  <1>4. CASE NewEngine
    <2>1. NoHistory \in EntryTypes /\ NoHistory.age # 0
      BY Constants DEF NoHistory, EntryTypes, Surges, MinSurge, MaxSurge
    <2>2. last' \in [Zones -> EntryTypes] /\ \A z \in Zones : last'[z].age # 0
      BY <1>4, <2>1 DEF NewEngine
    <2> QED BY <1>4, <2>2 DEF NewEngine, RisesWithinRate
  <1>5. CASE Tick
    <2>1. \A z \in Zones : Aged(last[z]) \in EntryTypes /\ Aged(last[z]).age # 0
      <3> TAKE z \in Zones
      <3>1. Aged(last[z]) \in EntryTypes /\ Aged(last[z]).age >= 1
        BY <1>0, AgedType
      <3> QED BY <3>1, Constants DEF EntryTypes
    <2>2. last' \in [Zones -> EntryTypes] /\ \A z \in Zones : last'[z].age # 0
      BY <1>5, <2>1 DEF Tick
    <2> QED BY <1>5, <2>2 DEF Tick, RisesWithinRate
  <1> QED BY <1>0, <1>1, <1>2, <1>3, <1>4, <1>5 DEF Next

\* Surges stay legal and prices capped, only a running experiment is active, only
\* started ones have metrics, and every conversion had its impression.
THEOREM Invariance == Spec => []IInv
  <1>1. Init => IInv
    <2> SUFFICES ASSUME Init PROVE IInv
      OBVIOUS
    <2> USE DEF Init, ABInit
    <2>1. ABTypeOK
      BY Constants DEF ABTypeOK
    <2>2. ActiveIsRunning /\ MetricsOnlyOfStarted /\ ConversionsHaveImpressions
      BY DEF ActiveIsRunning, MetricsOnlyOfStarted, ConversionsHaveImpressions
    <2>3. last \in [Zones -> EntryTypes]
      BY Constants DEF NoHistory, EntryTypes, Surges, MinSurge, MaxSurge
    <2>4. quoted \in [surge : Surges, price : 0..PriceCap]
      BY DEF PriceCap, Surges, MinSurge, MaxSurge
    <2>5. counted \in [Zones -> SUBSET Markets]
      OBVIOUS
    <2> QED BY <2>1, <2>2, <2>3, <2>4, <2>5 DEF IInv, TypeOK, EntryTypes
  <1>2. IInv /\ [Next]_vars => IInv'
    <2> SUFFICES ASSUME IInv, [Next]_vars PROVE IInv'
      OBVIOUS
    <2>1. CASE Next
      <3>1. ABInv'
        BY <2>1, NextExperiments, ExperimentsPreserve DEF IInv, TypeOK, ABInv
      <3>2. /\ last' \in [Zones -> EntryTypes]
            /\ counted' \in [Zones -> SUBSET Markets]
            /\ quoted' \in [surge : Surges, price : 0..PriceCap]
        BY <2>1, EnginePreserves
      <3> QED BY <3>1, <3>2 DEF IInv, TypeOK, ABInv, EntryTypes
    <2>2. CASE UNCHANGED vars
      BY <2>2 DEF vars, abVars, pricingVars, IInv, TypeOK, ABTypeOK, ActiveIsRunning,
                  MetricsOnlyOfStarted, ConversionsHaveImpressions
    <2> QED BY <2>1, <2>2
  <1> QED BY <1>1, <1>2, PTL DEF Spec

\* An engine's surge outruns the rate only up to the surge of the price cap.
THEOREM LimitedRates == Spec => RatesAreLimited
  <1> DEFINE Rises == \A z \in Zones : RisesWithinRate(z)
  <1>1. IInv /\ [Next]_vars => [Rises]_vars
    <2> SUFFICES ASSUME IInv, Next PROVE Rises
      BY DEF vars
    <2>1. CASE UNCHANGED last
      <3> SUFFICES ASSUME NEW z \in Zones PROVE RisesWithinRate(z)
        OBVIOUS
      <3>1. last[z].surge \in Int
        BY DEF IInv, TypeOK, Surges, MinSurge, MaxSurge
      <3>2. last[z].age = 0 => RatePerTick * last[z].age = 0
        BY Constants
      <3>3. last[z].age = 0 => last[z].surge <= AtLeast(CapSurge, last[z].surge + RatePerTick * last[z].age)
        BY <3>1, <3>2 DEF AtLeast, CapSurge
      <3> QED BY <2>1, <3>3 DEF RisesWithinRate
    <2> QED BY <2>1, EnginePreserves
  <1>2. Spec => [][Rises]_vars
    BY <1>1, Invariance, PTL DEF Spec
  <1> QED BY <1>2 DEF RatesAreLimited

\* An experiment that was stopped or replaced is never active again.
THEOREM EndedExperiments == Spec => ExperimentsEndForGood
  <1>1. IInv /\ [Next]_vars => [OverStaysOver]_vars
    BY NextExperiments, ExperimentsPreserve DEF IInv, TypeOK, ABInv
  <1> QED BY <1>1, Invariance, PTL DEF Spec, ExperimentsEndForGood

-----------------------------------------------------------------------------
(* What the strategies promise, for all markets, predictions and customers. *)

\* More orders never make a price fall, more couriers never make it rise: the surge
\* curve does not fall, and nothing after it turns it round.
THEOREM DemandIsPriced == Spec => []MoreDemandNeverCheaper
  <1>1. MoreDemandNeverCheaper
    <2> SUFFICES ASSUME NEW strategy \in Strategies, NEW prediction \in SomePredictions,
                        NEW market \in SomeMarkets, NEW request \in SomeRequests,
                        ~PriceSensitive(request)
                 PROVE  LET quote(m) == Quote(strategy, prediction, m, request)
                        IN  /\ NoDearer(quote(market), quote([market EXCEPT !.pending = @ + 1]))
                            /\ NoDearer(quote([market EXCEPT !.available = @ + 1]), quote(market))
      BY DEF MoreDemandNeverCheaper
    <2> DEFINE busier == [market EXCEPT !.pending = @ + 1]
               staffed == [market EXCEPT !.available = @ + 1]
    <2>1. /\ prediction \in PredictionTypes /\ market \in MarketTypes /\ request \in RequestTypes
      BY QuotesAssumption
    <2>2. busier \in MarketTypes /\ staffed \in MarketTypes
      BY <2>1 DEF MarketTypes
    <2>3. Calmer(market, busier) /\ Calmer(staffed, market)
      BY <2>1 DEF Calmer, MarketTypes
    <2> HIDE DEF busier, staffed
    <2>4. /\ NoDearer(Quote(strategy, prediction, market, request), Quote(strategy, prediction, busier, request))
          /\ NoDearer(Quote(strategy, prediction, staffed, request), Quote(strategy, prediction, market, request))
      BY <2>1, <2>2, <2>3, CalmerIsNoDearer
    <2> QED BY <2>4 DEF busier, staffed
  <1> QED BY <1>1, PTL

\* The hybrid surge lies between the two that it mixes.
THEOREM HybridMixes == Spec => []HybridLiesBetween
  <1>1. HybridLiesBetween
    <2> SUFFICES ASSUME NEW prediction \in SomePredictions, NEW market \in SomeMarkets,
                        NEW request \in SomeRequests
                 PROVE  LET surge(strategy) == Quote(strategy, prediction, market, request).surge
                            rule == surge("rule_based")
                            ml == surge("ml_based")
                        IN  /\ surge("hybrid") \in rule..ml \union ml..rule
                            /\ prediction.confidence < 70 => surge("hybrid") = rule
      BY DEF HybridLiesBetween
    <2>1. /\ prediction \in PredictionTypes /\ market \in MarketTypes /\ request \in RequestTypes
      BY QuotesAssumption
    <2> QED BY <2>1, HybridBetween DEF Quote, Calculate
  <1> QED BY <1>1, PTL

\* A discount comes off the price of the newcomer, or less when the cap took more.
THEOREM HonouredLoyalty == Spec => []LoyaltyIsHonoured
  <1>1. LoyaltyIsHonoured
    <2> SUFFICES ASSUME NEW strategy \in Strategies, NEW prediction \in SomePredictions,
                        NEW market \in SomeMarkets, NEW request \in SomeRequests,
                        request.averageValue >= 300
                 PROVE  LET paid(r) == Fair(NoHistory, Quote(strategy, prediction, market, r)).price
                            without == paid(Newcomer(request))
                            due == without * (100 - LoyaltyDiscount(request))
                        IN  /\ paid(request) <= without
                            /\ strategy \in {"rule_based", "ml_based", "hybrid"} /\ without < PriceCap =>
                                   100 * paid(request) \in (due - 100)..(due + 100)
      BY DEF LoyaltyIsHonoured
    <2> DEFINE quote(r) == Quote(strategy, prediction, market, r)
               paid(r) == Fair(NoHistory, quote(r)).price
               without == paid(Newcomer(request))
               due == without * (100 - LoyaltyDiscount(request))
    <2>1. /\ prediction \in PredictionTypes /\ market \in MarketTypes /\ request \in RequestTypes
      BY QuotesAssumption
    <2>2. \A r : paid(r) = IF quote(r).price > PriceCap THEN PriceCap ELSE quote(r).price
      BY DEF Fair
    <2>3. PICK p, n \in Nat : p = quote(request).price /\ n = quote(Newcomer(request)).price /\ p <= n
      BY <2>1, StandingCostsNothing DEF IsQuote
    <2>4. paid(request) <= without
      BY <2>2, <2>3 DEF PriceCap
    <2>5. ASSUME strategy \in {"rule_based", "ml_based", "hybrid"}, without < PriceCap
          PROVE  100 * paid(request) \in (due - 100)..(due + 100)
      <3>1. Honoured(request, quote(request), quote(Newcomer(request)))
        BY <2>1, <2>5, APIHonours
      <3>2. without = n /\ paid(request) = p
        BY <2>2, <2>3, <2>5 DEF PriceCap
      <3>3. PICK rest \in Nat : rest = 100 - LoyaltyDiscount(request)
        BY <2>1, LoyaltyDiscountRange
      <3>4. 100 * p <= n * rest + 100 /\ n * rest - 100 <= 100 * p
        BY <2>3, <3>1, <3>3 DEF Honoured
      <3>5. due = n * rest /\ n * rest \in Int
        BY <3>2, <3>3
      <3> QED BY <3>2, <3>4, <3>5
    <2> QED BY <2>4, <2>5
  <1> QED BY <1>1, PTL

\* The longer an order has waited, the lower its price and the higher the pay.
THEOREM CompensatedWaiting == Spec => []WaitingIsCompensated
  <1>1. WaitingIsCompensated
    <2> SUFFICES ASSUME NEW young \in SomeAges, NEW old \in SomeAges, young <= old
                 PROVE  /\ \A market \in SomeMarkets, request \in SomeRequests :
                              LET charged(a) == Quote("delayed_rules", NoPrediction, market,
                                                      [request EXCEPT !.age = a]).price
                              IN  charged(old) <= charged(young)
                        /\ TimeMultiplier(TimeTiers, 250, young) <= TimeMultiplier(TimeTiers, 250, old)
                        /\ TimeMultiplier(UrgentTiers, 300, young) <= TimeMultiplier(UrgentTiers, 300, old)
      BY DEF WaitingIsCompensated
    <2>1. young \in Nat /\ old \in Nat /\ SomeMarkets \subseteq MarketTypes /\ SomeRequests \subseteq RequestTypes
      BY QuotesAssumption
    <2>2. TimeMultiplier(TimeTiers, 250, young) <= TimeMultiplier(TimeTiers, 250, old)
      <3>1. /\ IsCurve(TimeTiers) /\ 250 \in Nat
            /\ TimeTiers[Len(TimeTiers)][2] <= 250 /\ 100 <= TimeTiers[1][2]
        BY TimeTiersAreCurve
      <3> QED BY <2>1, <3>1, MultiplierRises
    <2>3. TimeMultiplier(UrgentTiers, 300, young) <= TimeMultiplier(UrgentTiers, 300, old)
      <3>1. /\ IsCurve(UrgentTiers) /\ 300 \in Nat
            /\ UrgentTiers[Len(UrgentTiers)][2] <= 300 /\ 100 <= UrgentTiers[1][2]
        BY UrgentTiersAreCurve
      <3> QED BY <2>1, <3>1, MultiplierRises
    <2> QED BY <2>1, <2>2, <2>3, WaitingIsCheaper
  <1> QED BY <1>1, PTL
=============================================================================
