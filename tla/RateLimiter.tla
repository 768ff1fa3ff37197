----------------------------- MODULE RateLimiter -----------------------------
(***************************************************************************)
(* One limiter of common/security/rate_limiter.py: a token bucket, or a    *)
(* sliding window, for every key, on the wall clock of the server, which   *)
(* may be set back.                                                        *)
(*                                                                         *)
(* Time is counted in ticks.  A token is worth Window units, so that a     *)
(* bucket gains Limit units in a tick and all amounts are integers.        *)
(***************************************************************************)
EXTENDS Integers, FiniteSets

CONSTANTS
    Keys,       \* clients, by address
    Limit,      \* requests in a window
    Window,     \* window_seconds, in ticks
    Burst,      \* capacity: burst or requests
    Second,     \* ticks in a second, the unit of retry_after
    MaxTime     \* bound: the clock

ASSUME LimiterAssumption ==
    /\ Limit \in Nat \ {0} /\ Window \in Nat \ {0} /\ Burst \in Nat \ {0} /\ Second \in Nat \ {0}
    /\ MaxTime \in Nat

VARIABLES
    now,            \* time.time()
    useTokenBucket, \* use_token_bucket of the RateLimiter
    buckets,        \* key -> its RateLimitState, once it is known: tokens and last_update
    requests,       \* key -> its requests in the window: their times, numbered apart
    \* History variables.
    since,          \* key -> a check of the past, if any: its time and what was allowed from then on
    promise,        \* key -> when the retry_after of the last refusal has passed, if that was last
    steady          \* the clock was never set back

limiterVars == <<useTokenBucket, buckets, requests, since, promise>>

Smaller(a, b) == IF a <= b THEN a ELSE b

NoState == [known |-> FALSE, tokens |-> 0, last |-> 0]

LimiterInit ==
    /\ now = 0 /\ steady = TRUE
    /\ useTokenBucket \in BOOLEAN
    /\ buckets = [k \in Keys |-> NoState]
    /\ requests = [k \in Keys |-> {}]
    /\ since = [k \in Keys |-> {}]
    /\ promise = [k \in Keys |-> {}]

-----------------------------------------------------------------------------
(* is_allowed of the token bucket. *)

Capacity == Burst * Window

\* Mutant: a bucket fills beyond its capacity.
TokensUncapped(k) ==
    IF buckets[k].known THEN buckets[k].tokens + (now - buckets[k].last) * Limit ELSE Capacity

\* The tokens after the refill.
Tokens(k) ==
    IF buckets[k].known
    THEN Smaller(Capacity, buckets[k].tokens + (now - buckets[k].last) * Limit)
    ELSE Capacity

\* Mutant: the rest of a token is as good as a token.
BucketAllowsRest(k) == Tokens(k) > 0

BucketAllows(k) == Tokens(k) >= Window

BucketCharge(k) ==
    buckets' = [buckets EXCEPT ![k] =
        [known |-> TRUE,
         tokens |-> IF BucketAllows(k) THEN Tokens(k) - Window ELSE Tokens(k),
         last |-> now]]

\* int((1 - tokens) / rate) + 1, in seconds.
BucketRetry(k) == Second * (((Window - Tokens(k)) \div (Limit * Second)) + 1)

(* is_allowed of the sliding window. *)

Recent(k) == {r \in requests[k] : r.time > now - Window}

WindowAllows(k) == Cardinality(Recent(k)) < Limit

Numbered(k) == [time |-> now, id |-> CHOOSE n \in 1..Limit : [time |-> now, id |-> n] \notin Recent(k)]

WindowCharge(k) ==
    requests' = [requests EXCEPT ![k] =
        IF WindowAllows(k) THEN Recent(k) \union {Numbered(k)} ELSE Recent(k)]

Oldest(k) == (CHOOSE r \in Recent(k) : \A x \in Recent(k) : r.time <= x.time).time

\* Mutant: the wait is rounded down, to at least a second.
WindowRetryShort(k) ==
    Second * IF (Oldest(k) + Window - now) \div Second = 0 THEN 1
             ELSE (Oldest(k) + Window - now) \div Second

\* int(oldest + window - now) + 1, in seconds.
WindowRetry(k) == Second * (((Oldest(k) + Window - now) \div Second) + 1)

-----------------------------------------------------------------------------

Allows(k) == IF useTokenBucket THEN BucketAllows(k) ELSE WindowAllows(k)

RetryAfter(k) == IF useTokenBucket THEN BucketRetry(k) ELSE WindowRetry(k)

\* What is remembered may begin at any check.
Remember(k) ==
    \E start \in {[time |-> now, count |-> 0]} \union since[k] :
        since' = [since EXCEPT ![k] =
            {[start EXCEPT !.count = IF Allows(k) THEN @ + 1 ELSE @]}]

Check(k) ==
    /\ IF useTokenBucket
       THEN BucketCharge(k) /\ UNCHANGED requests
       ELSE WindowCharge(k) /\ UNCHANGED buckets
    /\ Remember(k)
    /\ promise' = [promise EXCEPT ![k] = IF Allows(k) THEN {} ELSE {now + RetryAfter(k)}]
    /\ UNCHANGED useTokenBucket

\* The limiter is in memory.
RestartLimiter ==
    /\ buckets' = [k \in Keys |-> NoState]
    /\ requests' = [k \in Keys |-> {}]
    /\ since' = [k \in Keys |-> {}]
    /\ promise' = [k \in Keys |-> {}]
    /\ UNCHANGED useTokenBucket

Tick == now < MaxTime /\ now' = now + 1 /\ UNCHANGED steady

SetBack == \E earlier \in 0..now - 1 : now' = earlier /\ steady' = FALSE

-----------------------------------------------------------------------------

LimiterTypeOK ==
    /\ now \in 0..MaxTime
    /\ useTokenBucket \in BOOLEAN /\ steady \in BOOLEAN
    /\ buckets \in [Keys -> [known : BOOLEAN, tokens : Int, last : 0..MaxTime]]
    /\ requests \in [Keys -> SUBSET [time : 0..MaxTime, id : 1..Limit]]
    /\ \A k \in Keys : IsFiniteSet(requests[k])
    /\ DOMAIN since = Keys /\ \A k \in Keys : since[k] \subseteq [time : 0..MaxTime, count : Nat]
    /\ DOMAIN promise = Keys /\ \A k \in Keys : promise[k] \subseteq Int

\* What is remembered of a key is about its bucket.
Remembered ==
    \A k \in Keys : useTokenBucket /\ (since[k] # {} \/ promise[k] # {}) => buckets[k].known

\* A bucket refills to a token by the time that was promised, and a request leaves
\* the window by then.
PromisesHold ==
    \A k \in Keys : \A due \in promise[k] :
        IF useTokenBucket
        THEN buckets[k].tokens + (due - buckets[k].last) * Limit >= Window
        ELSE Cardinality(requests[k]) < Limit \/ \E r \in requests[k] : r.time + Window <= due

\* While a check of the past is in the window, so is what was allowed from then on.
WindowsHold ==
    \A k \in Keys :
        /\ Cardinality(requests[k]) <= Limit
        /\ \A start \in since[k] :
              ~useTokenBucket /\ steady =>
                  /\ start.time <= now
                  /\ now - start.time < Window =>
                        \E allowed \in SUBSET requests[k] :
                            /\ \A r \in allowed : r.time >= start.time
                            /\ Cardinality(allowed) = start.count

\* A bucket accounts for all it was charged: what it holds and what was allowed since a
\* check of the past is no more than its capacity and what the time between has given.
\* It is overdrawn only after a refusal, and only if the clock was set back.
BucketsHold ==
    \A k \in Keys : useTokenBucket =>
        /\ buckets[k].known /\ (steady \/ promise[k] = {}) => buckets[k].tokens >= 0
        /\ steady => buckets[k].last <= now
        /\ \A start \in since[k] :
              buckets[k].tokens + start.count * Window
                <= Capacity + (buckets[k].last - start.time) * Limit

\* "Allows bursts while enforcing average rate" (TokenBucketLimiter): from any check to
\* any later one that is allowed, as the clock shows them and however it was set in
\* between, a key is allowed no more than a burst and what the rate gives for the time;
\* to one that is refused too, unless the clock was set back.  The sliding window allows
\* no more than the limit in any window, unless the clock was set back.
RateIsLimited ==
    \A k \in Keys : \A start \in since[k] :
        IF useTokenBucket
        THEN steady \/ promise[k] = {} =>
                start.count * Window <= Capacity + (buckets[k].last - start.time) * Limit
        ELSE steady /\ now - start.time < Window => start.count <= Limit

\* "retry_after": a key that was refused, and asks again when that time has passed, is
\* allowed, whatever other keys do and however the clock was set.
PromisesAreKept == \A k \in Keys : \A due \in promise[k] : now >= due => Allows(k)
=============================================================================
