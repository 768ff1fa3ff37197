----------------------------- MODULE AccessProofs -----------------------------
(***************************************************************************)
(* Theorems about Access for any users, keys, limits and lifetimes, on a   *)
(* clock that goes and is set back as it likes: rates are limited, the     *)
(* retry_after of a refusal is enough, and sessions end.                   *)
(***************************************************************************)
EXTENDS Access, FiniteSetTheorems, TLAPS

LEMMA Constants ==
    /\ Limit \in Nat /\ Limit >= 1
    /\ Window \in Nat /\ Window >= 1
    /\ Burst \in Nat /\ Burst >= 1
    /\ Second \in Nat /\ Second >= 1
    /\ MaxTime \in Nat
    /\ AccessLife \in Nat /\ RefreshLife \in Nat
  BY LimiterAssumption, AccessAssumption

LEMMA Distributive ==
    \A a, b, c \in Int : /\ (a - c) * Limit = (a - b) * Limit + (b - c) * Limit
                         /\ (a - c) * Limit \in Int
  BY Constants

LEMMA Monotone == \A a, b \in Int : a <= b => a * Limit <= b * Limit
<1> SUFFICES ASSUME NEW a \in Int, NEW b \in Int, a <= b PROVE a * Limit <= b * Limit
  OBVIOUS
<1>1. \A x, n \in Nat : x * n >= 0
  OBVIOUS
<1>2. b - a \in Nat /\ (b - a) * Limit >= 0
  BY <1>1, Constants
<1>3. (b - a) * Limit = b * Limit - a * Limit
  BY Constants
<1>4. a * Limit \in Int /\ b * Limit \in Int
  BY Constants
<1>5. QED
  BY <1>2, <1>3, <1>4

LEMMA CapacityIsEnough == Capacity \in Nat /\ Window <= Capacity
<1>1. \A x, n \in Nat : x >= 1 => n <= x * n
  OBVIOUS
<1>2. QED
  BY <1>1, Constants DEF Capacity

\* The wait that a bucket is given lasts until it holds a token.
LEMMA RetryFillsBucket ==
    ASSUME NEW t \in Int
    PROVE  /\ Second * (((Window - t) \div (Limit * Second)) + 1) \in Int
           /\ t + Second * (((Window - t) \div (Limit * Second)) + 1) * Limit >= Window
<1> DEFINE n == Limit * Second
           q == (Window - t) \div n
<1>1. n \in Nat /\ n >= 1
  <2>1. \A x, y \in Nat : x >= 1 /\ y >= 1 => x * y \in Nat /\ x * y >= 1
    OBVIOUS
  <2>2. QED
    BY <2>1, Constants
<1>2. q \in Int /\ n * q + n > Window - t
  <2>1. \A x \in Int, y \in Nat : y >= 1 => (x \div y) \in Int /\ y * (x \div y) + y > x
    BY Z3
  <2>2. Window - t \in Int
    BY Constants
  <2> HIDE DEF n
  <2>3. QED
    BY <1>1, <2>1, <2>2
<1>3. Second * (q + 1) * Limit = n * q + n
  <2>1. \A s, l, x \in Int : s * (x + 1) * l = (l * s) * x + l * s
    BY Z3
  <2> HIDE DEF q
  <2>2. QED
    BY <1>2, <2>1, Constants
<1>4. Second * (q + 1) \in Int
  BY <1>2, Constants
<1> HIDE DEF q, n
<1>5. t + Second * (q + 1) * Limit >= Window
  BY <1>1, <1>2, <1>3, Constants
<1>6. QED
  BY <1>4, <1>5 DEF q, n
\* A set of natural numbers has a least one.
LEMMA Least ==
    ASSUME NEW S \in SUBSET Nat, S # {}
    PROVE  \E x \in S : \A y \in S : x <= y
<1> DEFINE T == {0..n : n \in S}
           R == StrictSubsetOrdering(Nat)
<1>1. IsWellFoundedOn(R, FiniteSubsetsOf(Nat))
  BY FS_StrictSubsetOrderingWellFounded
<1>2. T \subseteq FiniteSubsetsOf(Nat) /\ T # {}
  <2>1. \A n \in S : IsFiniteSet(0..n) /\ 0..n \in SUBSET Nat
    BY FS_Interval
  <2>2. QED
    BY <2>1 DEF FiniteSubsetsOf
<1>3. PICK I \in T : \A J \in T : <<J, I>> \notin R
  <2> HIDE DEF T, R
  <2>1. QED
    BY <1>1, <1>2, WFMin
<1>4. PICK x \in S : I = 0..x
  OBVIOUS
<1>5. ASSUME NEW y \in S, y < x PROVE FALSE
  <2>1. /\ 0..y \in SUBSET Nat /\ 0..x \in SUBSET Nat
        /\ 0..y \subseteq 0..x /\ x \in 0..x /\ x \notin 0..y
    BY <1>5
  <2>2. <<0..y, 0..x>> \in R
    BY <2>1 DEF StrictSubsetOrdering
  <2>3. QED
    BY <1>3, <1>4, <2>2
<1>6. QED
  BY <1>5

-----------------------------------------------------------------------------
(* The sliding window. *)

LEMMA RecentRequests ==
    ASSUME LimiterTypeOK, NEW k \in Keys
    PROVE  /\ Recent(k) \subseteq requests[k]
           /\ Recent(k) \subseteq [time : 0..MaxTime, id : 1..Limit]
           /\ IsFiniteSet(Recent(k)) /\ Cardinality(Recent(k)) \in Nat
           /\ Cardinality(Recent(k)) <= Cardinality(requests[k])
           /\ Cardinality(requests[k]) \in Nat
           /\ Cardinality(Recent(k)) = Cardinality(requests[k]) => Recent(k) = requests[k]
           /\ now \in Nat
<1>1. /\ Recent(k) \subseteq requests[k] /\ IsFiniteSet(requests[k]) /\ now \in Nat
      /\ requests[k] \subseteq [time : 0..MaxTime, id : 1..Limit]
  BY Constants DEF Recent, LimiterTypeOK
<1>2. /\ IsFiniteSet(Recent(k))
      /\ Cardinality(Recent(k)) <= Cardinality(requests[k])
      /\ Cardinality(requests[k]) = Cardinality(Recent(k)) => Recent(k) = requests[k]
  BY <1>1, FS_Subset
<1>3. QED
  BY <1>1, <1>2, FS_CardinalityType

\* There is a number left for a request that is allowed.
LEMMA NumberIsFree ==
    ASSUME LimiterTypeOK, NEW k \in Keys, WindowAllows(k)
    PROVE  /\ Numbered(k) \in [time : 0..MaxTime, id : 1..Limit]
           /\ Numbered(k).time = now /\ Numbered(k) \notin Recent(k)
<1> DEFINE at(n) == [time |-> now, id |-> n]
           All == {at(n) : n \in 1..Limit}
           f == [n \in 1..Limit |-> at(n)]
<1>1. \E n \in 1..Limit : at(n) \notin Recent(k)
  <2> SUFFICES ASSUME \A n \in 1..Limit : at(n) \in Recent(k) PROVE FALSE
    OBVIOUS
  <2>1. f \in Injection(1..Limit, Recent(k))
    BY DEF Injection, IsInjective
  <2>2. Cardinality(1..Limit) <= Cardinality(Recent(k))
    BY <2>1, FS_Injection, RecentRequests
  <2>3. Cardinality(1..Limit) = Limit
    BY FS_Interval, Constants
  <2>4. QED
    BY <2>2, <2>3, RecentRequests, Constants DEF WindowAllows
<1>2. PICK n \in 1..Limit : Numbered(k) = at(n) /\ at(n) \notin Recent(k)
  BY <1>1 DEF Numbered
<1>3. now \in 0..MaxTime
  BY DEF LimiterTypeOK
<1>4. QED
  BY <1>2, <1>3

\* The wait that a refusal gives lasts until the oldest request has left the window.
LEMMA RetryFreesWindow ==
    ASSUME LimiterTypeOK, NEW k \in Keys, ~WindowAllows(k)
    PROVE  /\ WindowRetry(k) \in Int
           /\ \E r \in Recent(k) : r.time + Window <= now + WindowRetry(k)
<1> DEFINE Times == {r.time : r \in Recent(k)}
<1>1. Recent(k) # {}
  BY RecentRequests, FS_EmptySet, Constants DEF WindowAllows
<1>2. Times \in SUBSET Nat /\ Times # {}
  BY <1>1, RecentRequests, Constants
<1>3. PICK t \in Times : \A u \in Times : t <= u
  <2> HIDE DEF Times
  <2>1. QED
    BY <1>2, Least
<1>4. \E r \in Recent(k) : \A x \in Recent(k) : r.time <= x.time
  BY <1>3
<1>5. PICK r \in Recent(k) : Oldest(k) = r.time
  BY <1>4 DEF Oldest
<1>6. r.time \in Nat /\ now \in Nat
  BY <1>2, RecentRequests
<1>7. \A x \in Int, y \in Nat : y >= 1 => (x \div y) \in Int /\ y * (x \div y) + y > x
  BY Z3
<1> DEFINE left == Oldest(k) + Window - now
           q == left \div Second
<1>8. left \in Int /\ left = r.time + Window - now
  BY <1>5, <1>6, Constants
<1>9. q \in Int /\ Second * q + Second > left
  BY <1>7, <1>8, Constants
<1>10. WindowRetry(k) = Second * (q + 1)
  BY DEF WindowRetry
<1> HIDE DEF q, left
<1>11. Second * (q + 1) = Second * q + Second /\ Second * (q + 1) \in Int
  BY <1>9, Constants
<1>12. QED
  BY <1>6, <1>8, <1>9, <1>10, <1>11, Constants

-----------------------------------------------------------------------------
(* A check preserves what is known of the limiter. *)

LEMMA TokensBounded ==
    ASSUME LimiterTypeOK, NEW k \in Keys
    PROVE  /\ Tokens(k) \in Int /\ Tokens(k) <= Capacity
           /\ buckets[k].tokens \in Int /\ buckets[k].last \in Nat /\ now \in Nat
           /\ buckets[k].known =>
                 Tokens(k) <= buckets[k].tokens + (now - buckets[k].last) * Limit
<1>1. /\ buckets[k] \in [known : BOOLEAN, tokens : Int, last : 0..MaxTime] /\ now \in Nat
  BY Constants DEF LimiterTypeOK
<1>2. buckets[k].tokens \in Int /\ buckets[k].last \in Nat /\ buckets[k].known \in BOOLEAN
  BY <1>1, Constants
<1> DEFINE gain == (now - buckets[k].last) * Limit
<1>3. gain \in Int
  BY <1>1, <1>2, Distributive, Constants
<1> HIDE DEF gain
<1>4. Tokens(k) = IF buckets[k].known THEN Smaller(Capacity, buckets[k].tokens + gain) ELSE Capacity
  BY DEF Tokens, gain
<1>5. QED
  <2>1. /\ Tokens(k) \in Int /\ Tokens(k) <= Capacity
        /\ buckets[k].known => Tokens(k) <= buckets[k].tokens + gain
    BY <1>2, <1>3, <1>4, CapacityIsEnough DEF Smaller
  <2>2. QED
    BY <1>1, <1>2, <2>1 DEF gain
\* What Check leaves of the other keys, and of the keys' types.
LEMMA CheckOthers ==
    ASSUME LimiterTypeOK, NEW k \in Keys, Check(k), NEW j \in Keys, j # k
    PROVE  /\ buckets'[j] = buckets[j] /\ requests'[j] = requests[j]
           /\ since'[j] = since[j] /\ promise'[j] = promise[j]
  BY DEF Check, BucketCharge, WindowCharge, Remember, LimiterTypeOK

LEMMA CheckBucket ==
    ASSUME LimiterTypeOK, NEW k \in Keys, Check(k), useTokenBucket
    PROVE  /\ buckets'[k] = [known |-> TRUE, last |-> now,
                             tokens |-> IF BucketAllows(k) THEN Tokens(k) - Window ELSE Tokens(k)]
           /\ buckets'[k].known /\ buckets'[k].last = now
           /\ BucketAllows(k) => buckets'[k].tokens = Tokens(k) - Window
           /\ ~BucketAllows(k) => buckets'[k].tokens = Tokens(k)
           /\ requests' = requests
  BY DEF Check, BucketCharge, LimiterTypeOK

LEMMA CheckWindow ==
    ASSUME LimiterTypeOK, NEW k \in Keys, Check(k), ~useTokenBucket
    PROVE  /\ buckets' = buckets
           /\ requests'[k] = IF WindowAllows(k) THEN Recent(k) \union {Numbered(k)} ELSE Recent(k)
  BY DEF Check, WindowCharge, LimiterTypeOK

LEMMA CheckHistory ==
    ASSUME LimiterTypeOK, NEW k \in Keys, Check(k)
    PROVE  /\ promise'[k] = IF Allows(k) THEN {} ELSE {now + RetryAfter(k)}
           /\ \E start \in {[time |-> now, count |-> 0]} \union since[k] :
                 since'[k] = {[time |-> start.time,
                               count |-> IF Allows(k) THEN start.count + 1 ELSE start.count]}
           /\ \A start \in {[time |-> now, count |-> 0]} \union since[k] :
                 start \in [time : 0..MaxTime, count : Nat]
<1>1. \A start \in {[time |-> now, count |-> 0]} \union since[k] :
         start \in [time : 0..MaxTime, count : Nat]
  BY DEF LimiterTypeOK
<1>2. PICK start \in {[time |-> now, count |-> 0]} \union since[k] :
         since' = [since EXCEPT ![k] =
            {[start EXCEPT !.count = IF Allows(k) THEN @ + 1 ELSE @]}]
  BY DEF Check, Remember
<1>3. since'[k] = {[start EXCEPT !.count = IF Allows(k) THEN @ + 1 ELSE @]}
  BY <1>2 DEF LimiterTypeOK
<1>4. \A r \in [time : 0..MaxTime, count : Nat] :
         [r EXCEPT !.count = IF Allows(k) THEN @ + 1 ELSE @]
           = [time |-> r.time, count |-> IF Allows(k) THEN r.count + 1 ELSE r.count]
  OBVIOUS
<1>5. promise'[k] = IF Allows(k) THEN {} ELSE {now + RetryAfter(k)}
  BY DEF Check, LimiterTypeOK
<1>6. QED
  BY <1>1, <1>2, <1>3, <1>4, <1>5

\* A wait that ends after every refusal, whichever the limiter.
LEMMA RetryIsInteger ==
    ASSUME LimiterTypeOK, NEW k \in Keys, ~Allows(k)
    PROVE  now + RetryAfter(k) \in Int
<1>1. CASE useTokenBucket
  <2>1. BucketRetry(k) \in Int /\ now \in Int
    BY TokensBounded, RetryFillsBucket DEF BucketRetry
  <2>2. QED
    BY <1>1, <2>1 DEF RetryAfter
<1>2. CASE ~useTokenBucket
  <2>1. WindowRetry(k) \in Int /\ now \in Int
    BY <1>2, RetryFreesWindow, RecentRequests DEF Allows
  <2>2. QED
    BY <1>2, <2>1 DEF RetryAfter
<1>3. QED
  BY <1>1, <1>2

LEMMA CheckType ==
    ASSUME LimiterTypeOK, NEW k \in Keys, Check(k), now' = now, steady' = steady
    PROVE  LimiterTypeOK'
<1> USE DEF LimiterTypeOK
<1>1. useTokenBucket' = useTokenBucket
  BY DEF Check
<1>2. buckets' \in [Keys -> [known : BOOLEAN, tokens : Int, last : 0..MaxTime]]
  <2>1. CASE useTokenBucket
    <3>1. [known |-> TRUE, last |-> now,
           tokens |-> IF BucketAllows(k) THEN Tokens(k) - Window ELSE Tokens(k)]
            \in [known : BOOLEAN, tokens : Int, last : 0..MaxTime]
      BY TokensBounded, Constants
    <3>2. QED
      BY <2>1, <3>1 DEF Check, BucketCharge
  <2>2. CASE ~useTokenBucket
    BY <2>2, CheckWindow
  <2>3. QED
    BY <2>1, <2>2
<1>3. /\ requests' \in [Keys -> SUBSET [time : 0..MaxTime, id : 1..Limit]]
      /\ \A j \in Keys : IsFiniteSet(requests'[j])
  <2>1. CASE useTokenBucket
    BY <2>1, CheckBucket
  <2>2. CASE ~useTokenBucket
    <3>1. /\ requests'[k] \in SUBSET [time : 0..MaxTime, id : 1..Limit]
          /\ IsFiniteSet(requests'[k])
      <4>1. CASE WindowAllows(k)
        <5> HIDE DEF LimiterTypeOK
        <5>1. /\ Numbered(k) \in [time : 0..MaxTime, id : 1..Limit]
              /\ IsFiniteSet(Recent(k) \union {Numbered(k)})
          BY <4>1, RecentRequests, NumberIsFree, FS_AddElement
        <5>2. QED
          BY <4>1, <5>1, <2>2, CheckWindow, RecentRequests
      <4>2. CASE ~WindowAllows(k)
        BY <4>2, <2>2, CheckWindow, RecentRequests
      <4>3. QED
        BY <4>1, <4>2
    <3>2. requests' = [requests EXCEPT ![k] = requests'[k]]
      BY <2>2 DEF Check, WindowCharge
    <3>3. QED
      BY <3>1, <3>2
  <2>3. QED
    BY <2>1, <2>2
<1>4. DOMAIN since' = Keys /\ \A j \in Keys : since'[j] \subseteq [time : 0..MaxTime, count : Nat]
  <2>1. DOMAIN since' = Keys
    BY DEF Check, Remember
  <2>2. since'[k] \subseteq [time : 0..MaxTime, count : Nat]
    <3>1. PICK start \in {[time |-> now, count |-> 0]} \union since[k] :
             since'[k] = {[time |-> start.time,
                           count |-> IF Allows(k) THEN start.count + 1 ELSE start.count]}
      BY CheckHistory
    <3>2. start \in [time : 0..MaxTime, count : Nat]
      BY CheckHistory
    <3>3. (IF Allows(k) THEN start.count + 1 ELSE start.count) \in Nat /\ start.time \in 0..MaxTime
      BY <3>2
    <3>4. QED
      BY <3>1, <3>3
  <2>3. QED
    BY <2>1, <2>2, CheckOthers
<1>5. DOMAIN promise' = Keys /\ \A j \in Keys : promise'[j] \subseteq Int
  <2>1. DOMAIN promise' = Keys
    BY DEF Check
  <2>2. promise'[k] \subseteq Int
    BY CheckHistory, RetryIsInteger
  <2>3. QED
    BY <2>1, <2>2, CheckOthers
<1>6. QED
  BY <1>1, <1>2, <1>3, <1>4, <1>5

LEMMA CheckKeepsPromises ==
    ASSUME LimiterTypeOK, Remembered, PromisesHold, NEW k \in Keys, Check(k)
    PROVE  PromisesHold' /\ Remembered'
<1>1. useTokenBucket' = useTokenBucket
  BY DEF Check
<1>2. Remembered'
  <2>1. SUFFICES ASSUME NEW j \in Keys, useTokenBucket, since'[j] # {} \/ promise'[j] # {}
                 PROVE  buckets'[j].known
    BY <1>1 DEF Remembered
  <2>2. CASE j = k
    BY <2>1, <2>2, CheckBucket
  <2>3. CASE j # k
    BY <2>1, <2>3, CheckOthers DEF Remembered
  <2>4. QED
    BY <2>2, <2>3
<1>3. ASSUME NEW j \in Keys, NEW due \in promise'[j]
      PROVE  IF useTokenBucket
             THEN buckets'[j].tokens + (due - buckets'[j].last) * Limit >= Window
             ELSE Cardinality(requests'[j]) < Limit \/ \E r \in requests'[j] : r.time + Window <= due
  <2>1. CASE j # k
    BY <2>1, <1>3, CheckOthers DEF PromisesHold
  <2>2. CASE j = k /\ useTokenBucket
    <3>1. ~BucketAllows(k) /\ due = now + BucketRetry(k)
      BY <2>2, <1>3, CheckHistory DEF Allows, RetryAfter
    <3>2. buckets'[k].tokens = Tokens(k) /\ buckets'[k].last = now
      BY <3>1, <2>2, CheckBucket
    <3>3. BucketRetry(k) \in Int /\ Tokens(k) + BucketRetry(k) * Limit >= Window
      BY TokensBounded, RetryFillsBucket DEF BucketRetry
    <3>4. due - now = BucketRetry(k)
      BY <3>1, <3>3, TokensBounded
    <3>5. QED
      BY <2>2, <3>2, <3>3, <3>4
  <2>3. CASE j = k /\ ~useTokenBucket
    <3>1. ~WindowAllows(k) /\ due = now + WindowRetry(k)
      BY <2>3, <1>3, CheckHistory DEF Allows, RetryAfter
    <3>2. requests'[k] = Recent(k)
      BY <3>1, <2>3, CheckWindow
    <3>3. QED
      BY <2>3, <3>1, <3>2, RetryFreesWindow
  <2>4. QED
    BY <2>1, <2>2, <2>3
<1>4. QED
  BY <1>1, <1>2, <1>3 DEF PromisesHold

LEMMA CheckLimitsWindow ==
    ASSUME LimiterTypeOK, WindowsHold, NEW k \in Keys, Check(k), now' = now, steady' = steady
    PROVE  WindowsHold'
<1>1. useTokenBucket' = useTokenBucket
  BY DEF Check
<1> DEFINE Shown(start, held) ==
             /\ start.time <= now
             /\ now - start.time < Window =>
                   \E allowed \in SUBSET held :
                      /\ \A r \in allowed : r.time >= start.time
                      /\ Cardinality(allowed) = start.count
<1>2. ASSUME NEW j \in Keys PROVE Cardinality(requests'[j]) <= Limit
  <2>1. CASE j # k
    BY <2>1, CheckOthers DEF WindowsHold
  <2>2. CASE j = k /\ useTokenBucket
    BY <2>2, CheckBucket DEF WindowsHold
  <2>3. CASE j = k /\ ~useTokenBucket /\ WindowAllows(k)
    <3>1. Cardinality(requests'[k]) = Cardinality(Recent(k)) + 1
      BY <2>3, CheckWindow, NumberIsFree, RecentRequests, FS_AddElement
    <3>2. QED
      BY <2>3, <3>1, RecentRequests, Constants DEF WindowAllows
  <2>4. CASE j = k /\ ~useTokenBucket /\ ~WindowAllows(k)
    <3>1. requests'[k] = Recent(k) /\ Cardinality(requests[k]) <= Limit
      BY <2>4, CheckWindow DEF WindowsHold
    <3>2. QED
      BY <2>4, <3>1, RecentRequests, Constants
  <2>5. QED
    BY <2>1, <2>2, <2>3, <2>4
<1>3. ASSUME NEW j \in Keys, NEW start \in since'[j], ~useTokenBucket, steady
      PROVE  Shown(start, requests'[j])
  <2>1. CASE j # k
    <3>1. requests'[j] = requests[j] /\ start \in since[j]
      BY <2>1, <1>3, CheckOthers
    <3>2. Shown(start, requests[j])
      BY <1>3, <3>1 DEF WindowsHold
    <3>3. QED
      BY <3>1, <3>2
  <2>2. CASE j = k
    <3>1. PICK old \in {[time |-> now, count |-> 0]} \union since[k] :
             start = [time |-> old.time, count |-> IF Allows(k) THEN old.count + 1 ELSE old.count]
      BY <2>2, <1>3, CheckHistory
    <3>2. old \in [time : 0..MaxTime, count : Nat]
      BY CheckHistory
    <3>3. start.time = old.time /\ old.time \in Nat /\ now \in Nat /\ old.count \in Nat
      BY <3>1, <3>2, RecentRequests, Constants
    <3>4. old.time <= now
      <4>1. CASE old \in since[k]
        BY <4>1, <1>3 DEF WindowsHold
      <4>2. CASE old = [time |-> now, count |-> 0]
        BY <4>2, <3>3
      <4>3. QED
        BY <4>1, <4>2
    <3>5. ASSUME now - start.time < Window
          PROVE  \E allowed \in SUBSET Recent(k) :
                    (\A r \in allowed : r.time >= start.time) /\ Cardinality(allowed) = old.count
      <4>1. CASE old = [time |-> now, count |-> 0]
        <5>1. {} \in SUBSET Recent(k) /\ Cardinality({}) = old.count
          BY <4>1, FS_EmptySet
        <5>2. QED
          BY <5>1
      <4>2. CASE old \in since[k]
        <5>1. PICK allowed \in SUBSET requests[k] :
                 (\A r \in allowed : r.time >= old.time) /\ Cardinality(allowed) = old.count
          BY <4>2, <1>3, <3>3, <3>5 DEF WindowsHold
        <5>2. allowed \subseteq Recent(k)
          <6>1. SUFFICES ASSUME NEW r \in allowed PROVE r \in Recent(k)
            OBVIOUS
          <6>2. r \in [time : 0..MaxTime, id : 1..Limit] /\ r.time >= old.time
            BY <5>1, RecentRequests DEF LimiterTypeOK
          <6>3. r.time \in Nat
            BY <6>2, Constants
          <6>4. r.time > now - Window
            BY <6>2, <6>3, <3>3, <3>5, Constants
          <6>5. QED
            BY <6>4 DEF Recent
        <5>3. QED
          BY <5>1, <5>2, <3>3
      <4>3. QED
        BY <4>1, <4>2
    <3>6. ASSUME now - start.time < Window
          PROVE  \E allowed \in SUBSET requests'[k] :
                    (\A r \in allowed : r.time >= start.time) /\ Cardinality(allowed) = start.count
      <4>1. PICK allowed \in SUBSET Recent(k) :
               (\A r \in allowed : r.time >= start.time) /\ Cardinality(allowed) = old.count
        BY <3>5, <3>6
      <4>2. CASE WindowAllows(k)
        <5> DEFINE more == allowed \union {Numbered(k)}
        <5>1. IsFiniteSet(allowed) /\ Numbered(k) \notin allowed /\ Numbered(k).time = now
          BY <4>2, RecentRequests, FS_Subset, NumberIsFree
        <5>2. Cardinality(more) = start.count
          BY <4>1, <4>2, <5>1, <3>1, <1>3, FS_AddElement DEF Allows
        <5>3. more \in SUBSET requests'[k]
          BY <4>2, <1>3, CheckWindow
        <5>4. \A r \in more : r.time >= start.time
          BY <4>1, <5>1, <3>3, <3>4
        <5>5. QED
          BY <5>2, <5>3, <5>4
      <4>3. CASE ~WindowAllows(k)
        <5>1. requests'[k] = Recent(k) /\ start.count = old.count
          BY <4>3, <1>3, <3>1, CheckWindow DEF Allows
        <5>2. QED
          BY <4>1, <5>1
      <4>4. QED
        BY <4>2, <4>3
    <3>7. QED
      BY <2>2, <3>3, <3>4, <3>6
  <2>3. QED
    BY <2>1, <2>2
<1>4. QED
  BY <1>1, <1>2, <1>3 DEF WindowsHold

LEMMA CheckKeepsBuckets ==
    ASSUME LimiterTypeOK, Remembered, BucketsHold, NEW k \in Keys, Check(k),
           now' = now, steady' = steady
    PROVE  BucketsHold'
<1>1. useTokenBucket' = useTokenBucket
  BY DEF Check
\* A bucket that time only fills has what it held.
<1>2. ASSUME useTokenBucket, steady' \/ promise'[k] = {} PROVE buckets'[k].tokens >= 0
  <2>1. CASE BucketAllows(k)
    <3>1. buckets'[k].tokens = Tokens(k) - Window
      BY <1>2, <2>1, CheckBucket
    <3>2. Tokens(k) >= Window
      BY <2>1 DEF BucketAllows
    <3>3. QED
      BY <3>1, <3>2, TokensBounded, Constants
  <2>2. CASE ~BucketAllows(k)
    <3>1. steady /\ buckets'[k].tokens = Tokens(k)
      BY <1>2, <2>2, CheckBucket, CheckHistory DEF Allows
    <3>2. CASE ~buckets[k].known
      BY <3>1, <3>2, CapacityIsEnough DEF Tokens
    <3>3. CASE buckets[k].known
      <4> DEFINE gain == (now - buckets[k].last) * Limit
      <4>1. buckets[k].tokens >= 0 /\ buckets[k].last <= now
        BY <1>2, <3>1, <3>3 DEF BucketsHold
      <4>2. 0 * Limit = 0 /\ 0 <= now - buckets[k].last /\ now - buckets[k].last \in Int
        BY <4>1, TokensBounded, Constants
      <4>3. gain >= 0 /\ gain \in Int
        BY <4>2, Monotone, Distributive, Constants
      <4>4. Tokens(k) = Smaller(Capacity, buckets[k].tokens + gain)
        BY <3>3 DEF Tokens
      <4> HIDE DEF gain
      <4>5. QED
        BY <3>1, <4>1, <4>3, <4>4, TokensBounded, CapacityIsEnough DEF Smaller
    <3>4. QED
      BY <3>2, <3>3, TokensBounded DEF LimiterTypeOK
  <2>3. QED
    BY <2>1, <2>2
<1>3. ASSUME useTokenBucket, NEW start \in since'[k]
      PROVE  buckets'[k].tokens + start.count * Window
               <= Capacity + (buckets'[k].last - start.time) * Limit
  <2>1. PICK old \in {[time |-> now, count |-> 0]} \union since[k] :
           start = [time |-> old.time, count |-> IF Allows(k) THEN old.count + 1 ELSE old.count]
    BY <1>3, CheckHistory
  <2>2. old \in [time : 0..MaxTime, count : Nat]
    BY CheckHistory
  <2>3. start.time = old.time /\ old.time \in Nat /\ now \in Nat /\ old.count \in Nat
    BY <2>1, <2>2, RecentRequests, Constants
  <2>4. \A a, n \in Nat : (a + 1) * n = a * n + n /\ a * n \in Nat
    OBVIOUS
  <2> DEFINE spent == old.count * Window
             gain == (now - old.time) * Limit
  <2>5. spent \in Nat /\ (old.count + 1) * Window = spent + Window
    BY <2>3, <2>4, Constants
  <2>6. gain \in Int
    BY <2>3, Constants
  <2>7. buckets'[k].tokens + start.count * Window = Tokens(k) + spent
    <3>1. CASE BucketAllows(k)
      <4>1. start.count = old.count + 1 /\ buckets'[k].tokens = Tokens(k) - Window
        <5>1. Allows(k)
          BY <3>1, <1>3 DEF Allows
        <5>2. QED
          BY <5>1, <3>1, <1>3, <2>1, CheckBucket
      <4> HIDE DEF spent
      <4>2. QED
        BY <4>1, <2>5, TokensBounded, Constants
    <3>2. CASE ~BucketAllows(k)
      <4>1. ~Allows(k)
        BY <3>2, <1>3 DEF Allows
      <4>2. start.count = old.count /\ buckets'[k].tokens = Tokens(k)
        BY <4>1, <3>2, <1>3, <2>1, CheckBucket
      <4>3. QED
        BY <4>2
    <3>3. QED
      BY <3>1, <3>2
  <2>8. Tokens(k) + spent <= Capacity + gain
    <3>1. CASE old = [time |-> now, count |-> 0]
      <4>1. spent = 0 /\ gain = 0
        BY <3>1, <2>3, Constants
      <4> HIDE DEF spent, gain
      <4>2. QED
        BY <4>1, TokensBounded, CapacityIsEnough
    <3>2. CASE old \in since[k]
      <4> DEFINE before == (buckets[k].last - old.time) * Limit
                 refill == (now - buckets[k].last) * Limit
      <4>1. buckets[k].known
        BY <3>2, <1>3 DEF Remembered
      <4>2. Tokens(k) <= buckets[k].tokens + refill
        BY <4>1, TokensBounded
      <4>3. buckets[k].tokens + spent <= Capacity + before
        BY <3>2, <1>3 DEF BucketsHold
      <4>4. gain = refill + before /\ before \in Int /\ refill \in Int
        <5>1. now \in Int /\ buckets[k].last \in Int /\ old.time \in Int
          BY <2>3, TokensBounded
        <5>2. QED
          BY <5>1, Distributive
      <4> HIDE DEF spent, gain, before, refill
      <4>5. QED
        BY <4>2, <4>3, <4>4, <2>5, TokensBounded, CapacityIsEnough
    <3>3. QED
      BY <3>1, <3>2
  <2>9. buckets'[k].last = now
    BY <1>3, CheckBucket
  <2>10. QED
    BY <2>3, <2>7, <2>8, <2>9
<1>4. ASSUME NEW j \in Keys, useTokenBucket
      PROVE  /\ buckets'[j].known /\ (steady' \/ promise'[j] = {}) => buckets'[j].tokens >= 0
             /\ steady' => buckets'[j].last <= now'
             /\ \A start \in since'[j] :
                   buckets'[j].tokens + start.count * Window
                     <= Capacity + (buckets'[j].last - start.time) * Limit
  <2>1. CASE j # k
    BY <2>1, <1>4, CheckOthers DEF BucketsHold
  <2>2. CASE j = k
    <3>1. buckets'[k].last <= now'
      <4>1. buckets'[k].last = now
        BY <1>4, CheckBucket
      <4>2. now \in Nat
        BY TokensBounded
      <4>3. QED
        BY <4>1, <4>2
    <3>2. QED
      BY <1>2, <1>3, <1>4, <2>2, <3>1
  <2>3. QED
    BY <2>1, <2>2
<1>5. QED
  BY <1>1, <1>4 DEF BucketsHold, Capacity

-----------------------------------------------------------------------------
(* The limiter, under every step. *)

LimiterInv ==
    /\ LimiterTypeOK
    /\ Remembered
    /\ PromisesHold
    /\ WindowsHold
    /\ BucketsHold

LEMMA LimiterStarts == LimiterInit => LimiterInv
<1> SUFFICES ASSUME LimiterInit PROVE LimiterInv
  OBVIOUS
<1>1. LimiterTypeOK
  BY FS_EmptySet, Constants DEF LimiterInit, LimiterTypeOK, NoState
<1>2. WindowsHold
  BY FS_EmptySet, Constants DEF LimiterInit, WindowsHold
<1>3. BucketsHold
  BY DEF LimiterInit, NoState, BucketsHold
<1>4. QED
  BY <1>1, <1>2, <1>3 DEF LimiterInv, LimiterInit, Remembered, PromisesHold

LEMMA CheckKeepsLimiter ==
    ASSUME LimiterInv, NEW k \in Keys, Check(k), now' = now, steady' = steady
    PROVE  LimiterInv'
  BY CheckType, CheckKeepsPromises, CheckLimitsWindow, CheckKeepsBuckets DEF LimiterInv

LEMMA RestartKeepsLimiter ==
    ASSUME LimiterInv, RestartLimiter, now' = now, steady' = steady
    PROVE  LimiterInv'
<1>1. LimiterTypeOK'
  BY FS_EmptySet, Constants DEF LimiterInv, RestartLimiter, LimiterTypeOK, NoState
<1>2. WindowsHold'
  BY FS_EmptySet, Constants DEF RestartLimiter, WindowsHold
<1>3. BucketsHold'
  <2>1. now \in Nat
    BY Constants DEF LimiterInv, LimiterTypeOK
  <2>2. \A k \in Keys : buckets'[k] = NoState /\ since'[k] = {}
    BY DEF RestartLimiter
  <2>3. QED
    BY <2>1, <2>2 DEF NoState, BucketsHold
<1>4. QED
  BY <1>1, <1>2, <1>3 DEF LimiterInv, RestartLimiter, Remembered, PromisesHold

\* Time passing takes windows away, and a clock that was set back shows none.
LEMMA ClockKeepsLimiter ==
    ASSUME LimiterInv, Tick \/ SetBack, UNCHANGED limiterVars
    PROVE  LimiterInv'
<1> USE DEF limiterVars
<1>1. now \in Nat /\ now' \in 0..MaxTime /\ steady' \in BOOLEAN /\ (steady' => now' = now + 1 /\ steady)
  <2>1. now \in 0..MaxTime /\ steady \in BOOLEAN
    BY DEF LimiterInv, LimiterTypeOK
  <2>2. CASE Tick
    BY <2>1, <2>2, Constants DEF Tick
  <2>3. CASE SetBack
    <3>1. PICK earlier \in 0..now - 1 : now' = earlier /\ steady' = FALSE
      BY <2>3 DEF SetBack
    <3>2. now \in Nat /\ now <= MaxTime
      BY <2>1, Constants
    <3>3. earlier \in 0..MaxTime
      BY <3>2, Constants
    <3>4. QED
      BY <3>1, <3>2, <3>3
  <2>4. QED
    BY <2>2, <2>3
<1>2. LimiterTypeOK'
  BY <1>1 DEF LimiterInv, LimiterTypeOK
<1>3. ASSUME NEW k \in Keys, NEW start \in since[k]
      PROVE  start.time \in Nat
  BY <1>3, Constants DEF LimiterInv, LimiterTypeOK
<1>4. WindowsHold'
  <2>1. ASSUME NEW k \in Keys, NEW start \in since[k], ~useTokenBucket, steady'
        PROVE  /\ start.time <= now'
               /\ now' - start.time < Window =>
                     \E allowed \in SUBSET requests[k] :
                        /\ \A r \in allowed : r.time >= start.time
                        /\ Cardinality(allowed) = start.count
    <3>1. start.time <= now /\ start.time \in Nat
      BY <1>1, <1>3, <2>1 DEF LimiterInv, WindowsHold
    <3>2. start.time <= now' /\ (now' - start.time < Window => now - start.time < Window)
      BY <1>1, <2>1, <3>1, Constants
    <3>3. QED
      BY <1>1, <2>1, <3>2 DEF LimiterInv, WindowsHold
  <2>2. QED
    BY <2>1 DEF LimiterInv, WindowsHold
<1>5. BucketsHold'
  <2>1. ASSUME NEW k \in Keys, useTokenBucket, steady' PROVE steady /\ buckets[k].last <= now'
    <3>1. steady /\ now' = now + 1 /\ now \in Nat
      BY <1>1, <2>1
    <3>2. buckets[k].last \in Nat /\ buckets[k].last <= now
      BY <2>1, <3>1, TokensBounded DEF LimiterInv, BucketsHold
    <3>3. QED
      BY <3>1, <3>2
  <2>2. QED
    BY <2>1 DEF LimiterInv, BucketsHold, Capacity
<1>6. Remembered' /\ PromisesHold'
  BY DEF LimiterInv, Remembered, PromisesHold
<1>7. QED
  BY <1>2, <1>4, <1>5, <1>6 DEF LimiterInv

\* No more were allowed in a window than it holds.
LEMMA WindowRate ==
    ASSUME NEW held, IsFiniteSet(held), Cardinality(held) <= Limit,
           NEW allowed \in SUBSET held
    PROVE  Cardinality(allowed) <= Limit
<1>1. IsFiniteSet(allowed) /\ Cardinality(allowed) <= Cardinality(held)
  BY FS_Subset
<1>2. Cardinality(allowed) \in Nat /\ Cardinality(held) \in Nat
  BY <1>1, FS_CardinalityType
<1>3. QED
  BY <1>1, <1>2, Constants

\* What was allowed is what a bucket was charged, less than it holds, or is in the window.
LEMMA RateFollows == LimiterInv => RateIsLimited
<1> SUFFICES ASSUME LimiterInv, NEW k \in Keys, NEW start \in since[k]
             PROVE  IF useTokenBucket
                    THEN steady \/ promise[k] = {} =>
                            start.count * Window <= Capacity + (buckets[k].last - start.time) * Limit
                    ELSE steady /\ now - start.time < Window => start.count <= Limit
  BY DEF RateIsLimited
<1>1. ASSUME useTokenBucket, steady \/ promise[k] = {}
      PROVE  start.count * Window <= Capacity + (buckets[k].last - start.time) * Limit
  <2>1. /\ buckets[k].tokens >= 0 /\ buckets[k].tokens \in Int
        /\ buckets[k].tokens + start.count * Window
              <= Capacity + (buckets[k].last - start.time) * Limit
    BY <1>1, TokensBounded DEF LimiterInv, Remembered, BucketsHold
  <2>2. start.count \in Nat /\ start.time \in Nat /\ buckets[k].last \in Nat
    BY TokensBounded, Constants DEF LimiterInv, LimiterTypeOK
  <2>3. start.count * Window \in Int /\ (buckets[k].last - start.time) * Limit \in Int
    BY <2>2, Constants
  <2>4. QED
    BY <2>1, <2>3, CapacityIsEnough
<1>2. ASSUME ~useTokenBucket, steady, now - start.time < Window
      PROVE  start.count <= Limit
  <2>1. PICK allowed \in SUBSET requests[k] : Cardinality(allowed) = start.count
    BY <1>2 DEF LimiterInv, WindowsHold
  <2>2. IsFiniteSet(requests[k]) /\ Cardinality(requests[k]) <= Limit
    BY DEF LimiterInv, LimiterTypeOK, WindowsHold
  <2>3. QED
    BY <2>1, <2>2, WindowRate
<1>3. QED
  BY <1>1, <1>2

-----------------------------------------------------------------------------
(* Tokens. *)

TokenInv ==
    /\ issued \subseteq TokenRecords /\ IsFiniteSet(issued)
    /\ blacklist \subseteq Nat
    /\ reply \subseteq [status : {200, 401, 403, 429}, token : issued, permission : Wanted]
    /\ TokensDescend
    /\ AnswersAreCurrent

LEMMA Parts == IInv <=> LimiterInv /\ TokenInv
  BY DEF IInv, LimiterInv, TokenInv, TypeOK

LEMMA NothingForNobody == \A permission : ~HasPermission(Nobody, permission)
  BY DEF HasPermission, UserPermissions, Nobody

LEMMA LoginIssues ==
    ASSUME TokenInv, now \in Nat, NEW user \in Users, NEW grant \in Grants, Login(user, grant)
    PROVE  TokenInv'
<1> DEFINE login == [time |-> now, grant |-> grant]
           access == Token("access", user, grant, AccessLife, login)
           refresh == [Token("refresh", user, Nobody, RefreshLife, login) EXCEPT !.jti = @ + 1]
<1>1. issued' = issued \union {access, refresh} /\ reply' = {} /\ blacklist' = blacklist
  BY DEF Login
<1>2. Cardinality(issued) \in Nat
  BY FS_CardinalityType DEF TokenInv
<1>3. now + AccessLife \in Nat /\ now + RefreshLife \in Nat
  BY Constants
<1>4. /\ access = [jti |-> Cardinality(issued) + 1, type |-> "access", sub |-> user, grant |-> grant,
                   iat |-> now, exp |-> now + AccessLife, login |-> login]
      /\ refresh = [jti |-> Cardinality(issued) + 1 + 1, type |-> "refresh", sub |-> user,
                    grant |-> Nobody, iat |-> now, exp |-> now + RefreshLife, login |-> login]
  BY DEF Token
<1>5. access \in TokenRecords /\ refresh \in TokenRecords
  BY <1>2, <1>3, <1>4 DEF TokenRecords
<1>6. /\ access.exp <= access.login.time + RefreshLife + AccessLife
      /\ refresh.exp <= refresh.login.time + RefreshLife
      /\ access.grant = access.login.grant /\ refresh.grant = Nobody
      /\ access.type = "access" /\ refresh.type = "refresh"
  BY <1>4, <1>3, Constants
<1>7. IsFiniteSet(issued')
  <2>1. IsFiniteSet(issued \union {access}) /\ IsFiniteSet((issued \union {access}) \union {refresh})
    BY FS_AddElement DEF TokenInv
  <2>2. issued' = (issued \union {access}) \union {refresh}
    BY <1>1
  <2>3. QED
    BY <2>1, <2>2
<1>8. refresh.login.time + RefreshLife + 0 = refresh.login.time + RefreshLife
  BY <1>4, Constants
<1> HIDE DEF login, access, refresh
<1>9. TokensDescend'
  BY <1>1, <1>6, <1>8 DEF TokenInv, TokensDescend
<1>10. QED
  BY <1>1, <1>5, <1>7, <1>9 DEF TokenInv, AnswersAreCurrent

LEMMA RefreshIssues ==
    ASSUME TokenInv, now \in Nat, NEW token \in issued, Refresh(token)
    PROVE  TokenInv'
<1> DEFINE access == Token("access", token.sub, token.grant, AccessLife, token.login)
<1>1. /\ issued' = issued \union {access} /\ reply' = {} /\ blacklist' = blacklist
      /\ token.type = "refresh" /\ now < token.exp
  BY DEF Refresh, Verifies, Decodes
<1>2. Cardinality(issued) \in Nat
  BY FS_CardinalityType DEF TokenInv
<1>3. token \in TokenRecords
  BY DEF TokenInv
<1>4. /\ token.sub \in Users /\ token.grant \in Grants \union {Nobody} /\ token.exp \in Nat
      /\ token.login \in [time : Nat, grant : Grants] /\ token.login.time \in Nat
  BY <1>3 DEF TokenRecords
<1>5. now + AccessLife \in Nat
  BY Constants
<1>6. access = [jti |-> Cardinality(issued) + 1, type |-> "access", sub |-> token.sub,
                grant |-> token.grant, iat |-> now, exp |-> now + AccessLife, login |-> token.login]
  BY DEF Token
<1>7. access \in TokenRecords
  BY <1>2, <1>4, <1>5, <1>6 DEF TokenRecords
<1>8. token.exp <= token.login.time + RefreshLife /\ token.grant = Nobody
  <2>1. token.exp <= token.login.time + RefreshLife + 0 /\ token.grant = Nobody
    BY <1>1 DEF TokenInv, TokensDescend
  <2>2. QED
    BY <2>1, <1>4, Constants
<1>9. /\ access.exp <= access.login.time + RefreshLife + AccessLife
      /\ access.grant = Nobody /\ access.type = "access"
  BY <1>1, <1>4, <1>6, <1>8, Constants
<1>10. IsFiniteSet(issued')
  BY <1>1, FS_AddElement DEF TokenInv
<1> HIDE DEF access
<1>11. TokensDescend'
  BY <1>1, <1>9 DEF TokenInv, TokensDescend
<1>12. QED
  BY <1>1, <1>7, <1>10, <1>11 DEF TokenInv, AnswersAreCurrent

LEMMA RequestAnswers ==
    ASSUME TokenInv, NEW k \in Keys, NEW token \in issued, NEW permission \in Wanted,
           Request(k, token, permission)
    PROVE  TokenInv'
<1>1. /\ issued' = issued /\ blacklist' = blacklist /\ now' = now
      /\ reply' = {[status |-> Status(k, token, permission), token |-> token,
                    permission |-> permission]}
  BY DEF Request
<1>2. Status(k, token, permission) \in {200, 401, 403, 429}
  BY DEF Status
<1>3. Status(k, token, permission) = 200 =>
         now < token.exp /\ HasPermission(token.grant, permission)
  <2>1. CASE ~Allows(k)
    BY <2>1 DEF Status
  <2>2. CASE Allows(k) /\ ~Verifies(token, "access", {})
    BY <2>2 DEF Status
  <2>3. CASE Allows(k) /\ Verifies(token, "access", {}) /\ ~HasPermission(token.grant, permission)
    BY <2>3 DEF Status
  <2>4. CASE Allows(k) /\ Verifies(token, "access", {}) /\ HasPermission(token.grant, permission)
    BY <2>4 DEF Verifies, Decodes
  <2>5. QED
    BY <2>1, <2>2, <2>3, <2>4
<1>4. AnswersAreCurrent'
  BY <1>1, <1>3 DEF AnswersAreCurrent
<1>5. reply' \subseteq [status : {200, 401, 403, 429}, token : issued', permission : Wanted]
  BY <1>1, <1>2
<1>6. TokensDescend'
  BY <1>1 DEF TokenInv, TokensDescend
<1>7. QED
  BY <1>1, <1>4, <1>5, <1>6 DEF TokenInv

-----------------------------------------------------------------------------

LEMMA Starts == Init => IInv
<1>1. ASSUME Init PROVE TokenInv
  BY <1>1, FS_EmptySet DEF Init, TokenInv, TokensDescend, AnswersAreCurrent
<1>2. QED
  BY <1>1, LimiterStarts, Parts DEF Init

LEMMA Preserves == IInv /\ [Next]_vars => IInv'
<1> SUFFICES ASSUME LimiterInv, TokenInv, [Next]_vars PROVE LimiterInv' /\ TokenInv'
  BY DEF IInv, LimiterInv, TokenInv, TypeOK
<1>0. now \in Nat
  BY Constants DEF LimiterInv, LimiterTypeOK
<1>1. ASSUME NEW user \in Users, NEW grant \in Grants, Login(user, grant)
      PROVE  LimiterInv' /\ TokenInv'
  <2>1. UNCHANGED <<now, steady, limiterVars>>
    BY <1>1 DEF Login
  <2>2. LimiterInv'
    BY <2>1 DEF LimiterInv, LimiterTypeOK, Remembered, PromisesHold, WindowsHold, BucketsHold,
                limiterVars
  <2>3. QED
    BY <1>0, <1>1, <2>2, LoginIssues
<1>2. ASSUME NEW token \in issued, Refresh(token)
      PROVE  LimiterInv' /\ TokenInv'
  <2>1. UNCHANGED <<now, steady, limiterVars>>
    BY <1>2 DEF Refresh
  <2>2. LimiterInv'
    BY <2>1 DEF LimiterInv, LimiterTypeOK, Remembered, PromisesHold, WindowsHold, BucketsHold,
                limiterVars
  <2>3. QED
    BY <1>0, <1>2, <2>2, RefreshIssues
<1>3. ASSUME NEW token \in issued, Logout(token)
      PROVE  LimiterInv' /\ TokenInv'
  <2>1. UNCHANGED <<now, steady, limiterVars, issued>> /\ reply' = {}
    BY <1>3 DEF Logout
  <2>2. LimiterInv'
    BY <2>1 DEF LimiterInv, LimiterTypeOK, Remembered, PromisesHold, WindowsHold, BucketsHold,
                limiterVars
  <2>3. blacklist' \subseteq Nat
    <3>1. token.jti \in Nat /\ blacklist \subseteq Nat
      <4>1. token \in TokenRecords /\ blacklist \subseteq Nat
        BY <1>3 DEF TokenInv
      <4>2. QED
        BY <4>1 DEF TokenRecords
    <3>2. blacklist' \in {blacklist, blacklist \union {token.jti}}
      BY <1>3 DEF Logout
    <3>3. QED
      BY <3>1, <3>2
  <2>4. QED
    BY <2>1, <2>2, <2>3 DEF TokenInv, TokensDescend, AnswersAreCurrent
<1>4. ASSUME NEW k \in Keys, NEW token \in issued, NEW permission \in Wanted,
             Request(k, token, permission)
      PROVE  LimiterInv' /\ TokenInv'
  <2>1. Check(k) /\ now' = now /\ steady' = steady
    BY <1>4 DEF Request
  <2>2. QED
    BY <1>4, <2>1, CheckKeepsLimiter, RequestAnswers
<1>5. CASE Clock
  <2>1. (Tick \/ SetBack) /\ UNCHANGED <<limiterVars, issued, blacklist>> /\ reply' = {}
    BY <1>5 DEF Clock
  <2>2. LimiterInv'
    BY <2>1, ClockKeepsLimiter
  <2>3. QED
    BY <2>1, <2>2 DEF TokenInv, TokensDescend, AnswersAreCurrent
<1>6. CASE Restart
  <2>1. /\ RestartLimiter /\ blacklist' = {} /\ reply' = {}
        /\ now' = now /\ steady' = steady /\ issued' = issued
    BY <1>6 DEF Restart
  <2>2. LimiterInv'
    BY <2>1, RestartKeepsLimiter
  <2>3. QED
    BY <2>1, <2>2 DEF TokenInv, TokensDescend, AnswersAreCurrent
<1>7. CASE UNCHANGED vars
  <2>1. LimiterInv'
    BY <1>7 DEF LimiterInv, LimiterTypeOK, Remembered, PromisesHold, WindowsHold, BucketsHold,
                limiterVars, vars
  <2>2. QED
    BY <1>7, <2>1 DEF TokenInv, TokensDescend, AnswersAreCurrent, vars, tokenVars
<1>8. QED
  BY <1>1, <1>2, <1>3, <1>4, <1>5, <1>6, <1>7 DEF Next

\* The inductive invariant holds: rates are limited among the rest.
THEOREM Invariance == Spec => []IInv
<1>1. QED
  BY Starts, Preserves, PTL DEF Spec

\* "Allows bursts while enforcing average rate": whatever the interleaving of keys, of
\* settings of the clock and of restarts, and for any limits.
THEOREM LimitedRates == Spec => []RateIsLimited
<1>1. IInv => RateIsLimited
  BY Parts, RateFollows
<1>2. QED
  BY <1>1, Invariance, PTL

\* A client that waits for retry_after is allowed, by either limiter.
THEOREM KeptPromises == Spec => []PromisesAreKept
<1>1. ASSUME LimiterInv, NEW k \in Keys, NEW due \in promise[k], now >= due PROVE Allows(k)
  <2>1. due \in Int /\ now \in Nat
    BY <1>1, Constants DEF LimiterInv, LimiterTypeOK
  <2>2. CASE useTokenBucket
    <3> DEFINE then == (due - buckets[k].last) * Limit
               gain == (now - buckets[k].last) * Limit
    <3>1. buckets[k].known /\ buckets[k].tokens + then >= Window
      BY <1>1, <2>2 DEF LimiterInv, Remembered, PromisesHold
    <3>2. buckets[k].tokens \in Int /\ buckets[k].last \in Int
      BY <1>1, TokensBounded DEF LimiterInv
    <3>3. then <= gain /\ then \in Int /\ gain \in Int
      <4>1. due - buckets[k].last \in Int /\ now - buckets[k].last \in Int
            /\ due - buckets[k].last <= now - buckets[k].last
        BY <1>1, <2>1, <3>2
      <4>2. \A a \in Int : a * Limit \in Int
        BY Constants
      <4>3. QED
        BY <4>1, <4>2, Monotone
    <3>4. Tokens(k) = Smaller(Capacity, buckets[k].tokens + gain)
      BY <3>1 DEF Tokens
    <3> HIDE DEF then, gain
    <3>5. Tokens(k) >= Window
      BY <3>1, <3>2, <3>3, <3>4, CapacityIsEnough, Constants DEF Smaller
    <3>6. QED
      BY <2>2, <3>5 DEF Allows, BucketAllows
  <2>3. CASE ~useTokenBucket
    <3>0. LimiterTypeOK /\ Cardinality(requests[k]) <= Limit
      BY <1>1 DEF LimiterInv, WindowsHold
    <3>1. Cardinality(requests[k]) < Limit \/ \E r \in requests[k] : r.time + Window <= due
      BY <1>1, <2>3 DEF LimiterInv, PromisesHold
    <3>2. CASE Cardinality(requests[k]) < Limit
      BY <2>3, <3>0, <3>2, RecentRequests, Constants DEF Allows, WindowAllows
    <3>3. ASSUME NEW r \in requests[k], r.time + Window <= due
          PROVE  WindowAllows(k)
      <4>1. r.time \in Nat
        BY <3>0, <3>3, Constants DEF LimiterTypeOK
      <4>2. r \notin Recent(k)
        BY <1>1, <2>1, <3>3, <4>1, Constants DEF Recent
      <4>3. Cardinality(Recent(k)) # Cardinality(requests[k])
        BY <3>0, <3>3, <4>2, RecentRequests
      <4>4. QED
        BY <3>0, <4>3, RecentRequests, Constants DEF WindowAllows
    <3>4. QED
      BY <2>3, <3>1, <3>2, <3>3 DEF Allows
  <2>4. QED
    BY <2>2, <2>3
<1>2. IInv => PromisesAreKept
  BY <1>1, Parts DEF PromisesAreKept
<1>3. QED
  BY <1>2, Invariance, PTL

\* Whoever is let in has logged in within the lives of a refresh and an access token,
\* and was granted at that login what the request needs.
THEOREM SessionsEnd == Spec => []AccessFollowsLogin
<1>1. ASSUME LimiterInv, TokenInv, NEW answer \in reply, answer.status = 200
      PROVE  /\ now < answer.token.login.time + RefreshLife + AccessLife
             /\ HasPermission(answer.token.login.grant, answer.permission)
  <2>1. answer.token \in issued /\ now \in Nat
    BY <1>1, Constants DEF TokenInv, LimiterInv, LimiterTypeOK
  <2>2. answer.token.exp \in Nat /\ answer.token.login.time \in Nat
    BY <1>1, <2>1 DEF TokenInv, TokenRecords
  <2>3. now < answer.token.exp /\ HasPermission(answer.token.grant, answer.permission)
    BY <1>1 DEF TokenInv, AnswersAreCurrent
  <2>4. /\ answer.token.exp <= answer.token.login.time + RefreshLife
                                 + (IF answer.token.type = "access" THEN AccessLife ELSE 0)
        /\ answer.token.grant \in {answer.token.login.grant, Nobody}
    BY <1>1, <2>1 DEF TokenInv, TokensDescend
  <2>5. now < answer.token.login.time + RefreshLife + AccessLife
    BY <2>1, <2>2, <2>3, <2>4, Constants
  <2>6. QED
    BY <2>3, <2>4, <2>5, NothingForNobody
<1>2. IInv => AccessFollowsLogin
  BY <1>1, Parts DEF AccessFollowsLogin
<1>3. QED
  BY <1>2, Invariance, PTL

-----------------------------------------------------------------------------
(* Roles and permissions. *)

\* The roles that give the permissions by which the checks can be told apart.
LEMMA RolesThatGive ==
    ASSUME NEW role \in Role
    PROVE  /\ "order:assign" \in RolePermissions(role) <=> role \in {"admin", "operator"}
           /\ "order:cancel" \in RolePermissions(role) <=> role \in {"admin", "operator", "customer"}
           /\ "courier:update" \in RolePermissions(role) <=> role \in {"admin", "courier"}
           /\ "courier:location:read" \in RolePermissions(role) <=> role \in {"admin", "operator"}
<1>1. CASE role = "admin"
  BY <1>1 DEF RolePermissions, Permission
<1>2. CASE role = "operator"
  BY <1>2 DEF RolePermissions
<1>3. CASE role = "restaurant_manager"
  BY <1>3 DEF RolePermissions
<1>4. CASE role = "courier"
  BY <1>4 DEF RolePermissions
<1>5. CASE role = "customer"
  BY <1>5 DEF RolePermissions
<1>6. CASE role = "api_client"
  BY <1>6 DEF RolePermissions
<1>7. CASE role = "observer"
  BY <1>7 DEF RolePermissions
<1>8. QED
  BY <1>1, <1>2, <1>3, <1>4, <1>5, <1>6, <1>7 DEF Role

\* Who has only roles has a permission exactly by one of the roles that give it.
LEMMA RolesHave ==
    ASSUME NEW user, user.permissions = {}
    PROVE  /\ HasPermission(user, "order:assign") <=> HasAnyRole(user, {"admin", "operator"})
           /\ HasPermission(user, "order:cancel") <=> HasAnyRole(user, {"admin", "operator", "customer"})
           /\ HasPermission(user, "courier:update") <=> HasAnyRole(user, {"admin", "courier"})
           /\ HasPermission(user, "courier:location:read") <=> HasAnyRole(user, {"admin", "operator"})
<1>1. \A permission : HasPermission(user, permission) <=>
          \E role \in user.roles \intersect Role : permission \in RolePermissions(role)
  BY DEF HasPermission, UserPermissions
<1>2. \A roles \in SUBSET Role : HasAnyRole(user, roles) <=>
          \E role \in user.roles \intersect Role : role \in roles
  BY DEF HasAnyRole
<1>3. /\ {"admin", "operator"} \in SUBSET Role /\ {"admin", "courier"} \in SUBSET Role
      /\ {"admin", "operator", "customer"} \in SUBSET Role
  BY DEF Role
<1>4. QED
  BY <1>1, <1>2, <1>3, RolesThatGive

\* Who is let in, and who is not, by permissions and by roles.
LEMMA AccessIsDecided ==
    ASSUME NEW user, NEW order, user.permissions = {}
    PROVE  AccessMatchesPermissions(user, order) /\ RefusedReaders(user, order)
<1> DEFINE Staff == HasAnyRole(user, {"admin", "operator"})
           Customer == HasAnyRole(user, {"customer"})
           Courier == HasAnyRole(user, {"courier"})
<1>1. /\ HasAnyRole(user, {"admin", "operator", "customer"}) <=> Staff \/ Customer
      /\ HasAnyRole(user, {"admin", "courier"}) => Staff \/ Courier
      /\ Courier => HasAnyRole(user, {"admin", "courier"})
      /\ HasAnyRole(user, {"admin", "operator", "customer", "courier"}) => Staff \/ Customer \/ Courier
  BY DEF HasAnyRole
<1>2. /\ CanAccessOrder(user, order) <=>
            \/ Staff
            \/ Customer /\ order.customer = user.sub
            \/ ~Customer /\ Courier /\ order.courier = user.sub
      /\ CanAccessCourier(user, order.courier) <=> Staff \/ (Courier /\ order.courier = user.sub)
  BY DEF CanAccessOrder, CanAccessCourier
<1> HIDE DEF Staff, Customer, Courier
<1>3. /\ HasPermission(user, "order:assign") <=> Staff
      /\ HasPermission(user, "order:cancel") <=> Staff \/ Customer
      /\ HasPermission(user, "courier:update") => Staff \/ Courier
      /\ Courier => HasPermission(user, "courier:update")
      /\ HasPermission(user, "courier:location:read") <=> Staff
  BY <1>1, RolesHave DEF Staff
<1>4. AccessMatchesPermissions(user, order)
  BY <1>2, <1>3 DEF AccessMatchesPermissions
<1>5. RefusedReaders(user, order)
  BY <1>1, <1>2 DEF RefusedReaders, Customer
<1>6. QED
  BY <1>4, <1>5

\* Only a role that is asked about before another can take access away.
LEMMA RolesAdd ==
    ASSUME NEW sub, NEW roles, NEW permissions, NEW role, NEW order
    PROVE  MoreRolesMoreAccess([sub |-> sub, roles |-> roles, permissions |-> permissions], role, order)
<1> DEFINE user == [sub |-> sub, roles |-> roles, permissions |-> permissions]
           more == [user EXCEPT !.roles = @ \union {role}]
<1>1. more = [sub |-> sub, roles |-> roles \union {role}, permissions |-> permissions]
  OBVIOUS
<1>2. more.sub = user.sub /\ more.roles = user.roles \union {role}
  BY <1>1
<1> HIDE DEF user, more
<1>3. /\ \A some : HasAnyRole(user, some) => HasAnyRole(more, some)
      /\ HasAnyRole(more, {"customer"}) => HasAnyRole(user, {"customer"}) \/ role = "customer"
  BY <1>2 DEF HasAnyRole
<1>4. CanAccessCourier(user, order.courier) => CanAccessCourier(more, order.courier)
  BY <1>2, <1>3 DEF CanAccessCourier
<1>5. CanAccessOrder(user, order) /\ ~CanAccessOrder(more, order) =>
          /\ role = "customer" /\ HasAnyRole(user, {"courier"})
          /\ order.courier = user.sub /\ order.customer # user.sub
  BY <1>2, <1>3 DEF CanAccessOrder
<1>6. QED
  BY <1>4, <1>5 DEF MoreRolesMoreAccess, user, more

\* For all users, orders and sets of roles: who is let in is exactly whom the roles'
\* permissions tell apart, whom they let read and can_access_order refuses, and that only
\* becoming a customer takes an order away.
THEOREM DecidingRoles == Spec => []RolesDecide
<1>1. RolesDecide
  <2> SUFFICES ASSUME NEW sub \in Users,
                      NEW customer \in Users \union {"None"}, NEW courier \in Users \union {"None"},
                      NEW roles \in SUBSET (Role \union {"visitor"})
               PROVE  LET user == [sub |-> sub, roles |-> roles, permissions |-> {}]
                          order == [customer |-> customer, courier |-> courier]
                      IN /\ AccessMatchesPermissions(user, order)
                         /\ RefusedReaders(user, order)
                         /\ \A role \in Role \union {"visitor"} : MoreRolesMoreAccess(user, role, order)
    BY DEF RolesDecide
  <2> DEFINE user == [sub |-> sub, roles |-> roles, permissions |-> {}]
             order == [customer |-> customer, courier |-> courier]
  <2>1. user.permissions = {}
    OBVIOUS
  <2>2. \A role : MoreRolesMoreAccess(user, role, order)
    <3> TAKE role
    <3> HIDE DEF order
    <3>1. QED
      BY RolesAdd
  <2> HIDE DEF user, order
  <2>3. AccessMatchesPermissions(user, order) /\ RefusedReaders(user, order)
    BY <2>1, AccessIsDecided
  <2>4. QED
    BY <2>2, <2>3 DEF user, order
<1>2. QED
  BY <1>1, PTL
=============================================================================
