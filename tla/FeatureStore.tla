----------------------------- MODULE FeatureStore -----------------------------
(***************************************************************************)
(* FeatureStore and OnlineStore (feature_store/store.py): one Redis hash   *)
(* per entity, read through a cache that every process (four API workers,  *)
(* the materialization tasks) keeps for itself for CacheTTL.  A request is *)
(* cut at its awaited Redis commands; everything else runs to completion   *)
(* on the event loop of its process.                                       *)
(*                                                                         *)
(* Redis executes nothing on behalf of a command that has failed already,  *)
(* or of a process that has stopped.                                       *)
(*                                                                         *)
(* A dict of features is a function on all names, Missing where the dict   *)
(* has no key.  Time is counted in ticks and appears as ages only.         *)
(***************************************************************************)
EXTENDS Integers

CONSTANTS
    Processes,      \* API workers and tasks: each has a FeatureStore of its own
    Requests,       \* one request at a time each
    Home,           \* the process of a request
    Entities,       \* entity_type:entity_id
    Names,          \* features of their group
    Values,         \* feature values
    Missing,
    Default,        \* default_value of a feature
    Valid,          \* the values that a feature's validator accepts
    Loaded,         \* what _serialize_value and _deserialize_value make of a value
    CacheTTL,       \* _cache_ttl
    Latency         \* a Redis answer takes no more ticks to arrive

ASSUME FeatureAssumption ==
    /\ Entities # {}
    /\ Home \in [Requests -> Processes]
    /\ Missing \notin Values
    /\ Default \in [Names -> Values]
    /\ Valid \in [Names -> SUBSET Values]
    /\ Loaded \in [Values -> Values]
    /\ CacheTTL \in Nat \ {0}
    /\ Latency \in Nat

Dict == [Names -> Values \union {Missing}]
Empty == [n \in Names |-> Missing]

VARIABLES
    store,          \* entity -> dict: the Redis hashes
    cache,          \* process -> entity -> _cache entry; none where age is CacheTTL
    pc,             \* "idle", "fetch", "fill", "hset" or "finish"
    entity, names,  \* what a request is about; names = {} is None, for all
    data,           \* the dict a get has fetched or a push is to store
    age,            \* ticks since a get's data was read by Redis
    answer,         \* history: what the last step answered, if it did
    sinceChange,    \* history: ticks since an entity's hash changed (saturated)
    raced,          \* history: a push changed the hash after this get read it
    excused         \* history: the cache entry was filled by a raced get, or
                    \* another process has pushed since

vars == <<store, cache, pc, entity, names, data, age, answer, sinceChange, raced, excused>>

-----------------------------------------------------------------------------

\* get_features on a hash: named features fall back to their defaults one by
\* one, but a request for all gets defaults only if nothing is stored.
Value(hash, n) == IF hash[n] = Missing THEN Default[n] ELSE Loaded[hash[n]]

Read(hash, asked) ==
    [n \in Names |->
        IF n \in asked \/ (asked = {} /\ (hash = Empty \/ hash[n] # Missing))
        THEN Value(hash, n)
        ELSE Missing]

\* _get_defaults.
Defaults(asked) ==
    [n \in Names |-> IF asked = {} \/ n \in asked THEN Default[n] ELSE Missing]

\* push_features replaces values that do not validate.
Validated(dict) ==
    [n \in Names |-> IF dict[n] \in Valid[n] \union {Missing} THEN dict[n] ELSE Default[n]]

\* hset with a mapping.
Stored(hash, dict) == [n \in Names |-> IF dict[n] = Missing THEN hash[n] ELSE dict[n]]

Restricted(dict, asked) ==
    [n \in Names |-> IF asked = {} \/ n \in asked THEN dict[n] ELSE Missing]

NoAnswer == [kind |-> "none", entity |-> CHOOSE e \in Entities : TRUE, asked |-> {}, features |-> Empty]
Features(e, asked, dict) == [kind |-> "features", entity |-> e, asked |-> asked, features |-> dict]

Fresh(p, e) == cache[p][e].age < CacheTTL
NoEntry == [features |-> Empty, age |-> CacheTTL]

\* These requests end, and nothing of them is left.
Forget(R) ==
    /\ pc' = [r \in Requests |-> IF r \in R THEN "idle" ELSE pc[r]]
    /\ names' = [r \in Requests |-> IF r \in R THEN {} ELSE names[r]]
    /\ data' = [r \in Requests |-> IF r \in R THEN Empty ELSE data[r]]
    /\ age' = [r \in Requests |-> IF r \in R THEN 0 ELSE age[r]]
    /\ raced' = [r \in Requests |-> IF r \in R THEN FALSE ELSE raced[r]]

Init ==
    /\ store = [e \in Entities |-> Empty]
    /\ cache = [p \in Processes |-> [e \in Entities |-> NoEntry]]
    /\ pc = [r \in Requests |-> "idle"]
    /\ entity \in [Requests -> Entities]
    /\ names = [r \in Requests |-> {}]
    /\ data = [r \in Requests |-> Empty]
    /\ age = [r \in Requests |-> 0]
    /\ answer = NoAnswer
    /\ sinceChange = [e \in Entities |-> CacheTTL + Latency]
    /\ raced = [r \in Requests |-> FALSE]
    /\ excused = [p \in Processes |-> [e \in Entities |-> FALSE]]

-----------------------------------------------------------------------------
(* get_online_features *)

\* Mutant: an entry is served however old it is.
GetCachedWithoutExpiry(r, e, asked) ==
    /\ pc[r] = "idle"
    /\ answer' = Features(e, asked, Restricted(cache[Home[r]][e].features, asked))
    /\ UNCHANGED <<store, cache, pc, entity, names, data, age, sinceChange, raced, excused>>

GetCached(r, e, asked) ==
    /\ pc[r] = "idle"
    /\ Fresh(Home[r], e)
    /\ answer' = Features(e, asked, Restricted(cache[Home[r]][e].features, asked))
    /\ UNCHANGED <<store, cache, pc, entity, names, data, age, sinceChange, raced, excused>>

GetMiss(r, e, asked) ==
    /\ pc[r] = "idle"
    /\ ~Fresh(Home[r], e)
    /\ pc' = [pc EXCEPT ![r] = "fetch"]
    /\ entity' = [entity EXCEPT ![r] = e]
    /\ names' = [names EXCEPT ![r] = asked]
    /\ answer' = NoAnswer
    /\ UNCHANGED <<store, cache, data, age, sinceChange, raced, excused>>

\* Redis executes hmget or hgetall.
Fetch(r) ==
    /\ pc[r] = "fetch"
    /\ pc' = [pc EXCEPT ![r] = "fill"]
    /\ data' = [data EXCEPT ![r] = Read(store[entity[r]], names[r])]
    /\ answer' = NoAnswer
    /\ UNCHANGED <<store, cache, entity, names, age, sinceChange, raced, excused>>

\* get_features returns dict: it is cached and returned.
FillWith(r, dict) ==
    /\ cache' = [cache EXCEPT ![Home[r]][entity[r]] = [features |-> dict, age |-> 0]]
    /\ excused' = [excused EXCEPT ![Home[r]][entity[r]] = raced[r]]
    /\ answer' = Features(entity[r], names[r], dict)
    /\ Forget({r})
    /\ UNCHANGED <<store, entity, sinceChange>>

Fill(r) == pc[r] = "fill" /\ FillWith(r, data[r])

\* The command fails, before or after Redis has executed it.
FetchFails(r) == pc[r] \in {"fetch", "fill"} /\ FillWith(r, Defaults(names[r]))

-----------------------------------------------------------------------------
(* push_features *)

Push(r, e, dict) ==
    /\ pc[r] = "idle"
    /\ pc' = [pc EXCEPT ![r] = "hset"]
    /\ entity' = [entity EXCEPT ![r] = e]
    /\ data' = [data EXCEPT ![r] = Validated(dict)]
    /\ answer' = NoAnswer
    /\ UNCHANGED <<store, cache, names, age, sinceChange, raced, excused>>

\* Redis executes hset.  No TTL is set: push_features passes none.
Hset(r) ==
    /\ pc[r] = "hset"
    /\ data[r] # Empty
    /\ pc' = [pc EXCEPT ![r] = "finish"]
    /\ store' = [store EXCEPT ![entity[r]] = Stored(@, data[r])]
    /\ sinceChange' = [sinceChange EXCEPT ![entity[r]] = 0]
    /\ raced' = [s \in Requests |->
          raced[s] \/ (pc[s] = "fill" /\ entity[s] = entity[r])]
    /\ excused' = [p \in Processes |-> [e \in Entities |->
          Fresh(p, e) /\ (excused[p][e] \/ (p # Home[r] /\ e = entity[r]))]]
    /\ answer' = NoAnswer
    /\ UNCHANGED <<cache, entity, names, data, age>>

\* Mutant: the cache is not invalidated.
PushedWithoutInvalidating(r, kind) ==
    /\ answer' = [NoAnswer EXCEPT !.kind = kind]
    /\ Forget({r})
    /\ UNCHANGED <<store, cache, entity, sinceChange, excused>>

\* set_features has returned: the entry of this process is deleted.
Pushed(r, kind) ==
    /\ cache' = [cache EXCEPT ![Home[r]][entity[r]] = NoEntry]
    /\ answer' = [NoAnswer EXCEPT !.kind = kind]
    /\ Forget({r})
    /\ UNCHANGED <<store, entity, sinceChange, excused>>

\* The metadata are updated.
PushSucceeds(r) == pc[r] = "finish" /\ Pushed(r, "stored")

\* hset is refused (an empty mapping always is) or fails, the answer to it is
\* lost, or the metadata cannot be updated.
PushFails(r) == pc[r] \in {"hset", "finish"} /\ Pushed(r, "failed")

-----------------------------------------------------------------------------

\* A process stops and is started again.
Restart(p) ==
    /\ cache' = [cache EXCEPT ![p] = [e \in Entities |-> NoEntry]]
    /\ answer' = NoAnswer
    /\ Forget({r \in Requests : Home[r] = p})
    /\ UNCHANGED <<store, entity, sinceChange, excused>>

AtMost(bound, n) == IF n > bound THEN bound ELSE n

Tick ==
    /\ \A r \in Requests : pc[r] = "fill" => age[r] < Latency
    /\ cache' = [p \in Processes |-> [e \in Entities |->
          [cache[p][e] EXCEPT !.age = AtMost(CacheTTL, @ + 1)]]]
    /\ age' = [r \in Requests |-> IF pc[r] = "fill" THEN age[r] + 1 ELSE age[r]]
    /\ sinceChange' = [e \in Entities |-> AtMost(CacheTTL + Latency, sinceChange[e] + 1)]
    /\ answer' = NoAnswer
    /\ UNCHANGED <<store, pc, entity, names, data, raced, excused>>

Get(r) ==
    \E e \in Entities, asked \in SUBSET Names : GetCached(r, e, asked) \/ GetMiss(r, e, asked)

Next ==
    \/ \E r \in Requests :
          \/ Get(r) \/ Fetch(r) \/ Fill(r) \/ FetchFails(r)
          \/ \E e \in Entities, dict \in Dict : Push(r, e, dict)
          \/ Hset(r) \/ PushSucceeds(r) \/ PushFails(r)
    \/ \E p \in Processes : Restart(p)
    \/ Tick

Spec == Init /\ [][Next]_vars

-----------------------------------------------------------------------------

Ages == 0..CacheTTL + Latency

TypeOK ==
    /\ store \in [Entities -> Dict]
    /\ cache \in [Processes -> [Entities -> [features : Dict, age : 0..CacheTTL]]]
    /\ pc \in [Requests -> {"idle", "fetch", "fill", "hset", "finish"}]
    /\ entity \in [Requests -> Entities]
    /\ names \in [Requests -> SUBSET Names]
    /\ data \in [Requests -> Dict]
    /\ age \in [Requests -> 0..Latency]
    /\ answer \in [kind : {"none", "features", "stored", "failed"},
                   entity : Entities, asked : SUBSET Names, features : Dict]
    /\ sinceChange \in [Entities -> Ages]
    /\ raced \in [Requests -> BOOLEAN]
    /\ excused \in [Processes -> [Entities -> BOOLEAN]]

\* Every feature in dict is what the store holds for e, or a default.
Current(dict, e) == \A n \in Names : dict[n] \in {Missing, Default[n], Value(store[e], n)}

\* A request that has read nothing remembers nothing of a read.
Unread == \A r \in Requests : pc[r] # "fill" => age[r] = 0 /\ ~raced[r]

\* What a get has in hand was current when Redis read it, and still is unless a
\* push raced it.
FetchedIsRecent ==
    \A r \in Requests : pc[r] = "fill" =>
        Current(data[r], entity[r]) \/ (raced[r] /\ sinceChange[entity[r]] <= age[r])

\* What a process may serve from its cache was current when it was read, no more
\* than Latency before it was cached.
CacheIsRecent ==
    \A p \in Processes, e \in Entities : Fresh(p, e) =>
        Current(cache[p][e].features, e) \/ sinceChange[e] <= cache[p][e].age + Latency

\* A push of this process stands between its write and its invalidation.
PushPending(p, e) == \E r \in Requests : Home[r] = p /\ entity[r] = e /\ pc[r] = "finish"

\* Invalidation works but for overlap: while no push of the process is pending,
\* its cache is stale only where a get that filled it overlapped a push, or
\* another process has pushed since.
StaleOnlyByOverlap ==
    \A p \in Processes, e \in Entities : Fresh(p, e) /\ ~excused[p][e] =>
        Current(cache[p][e].features, e) \/ PushPending(p, e)

\* The inductive invariant.
IInv ==
    /\ TypeOK
    /\ Unread
    /\ FetchedIsRecent
    /\ CacheIsRecent
    /\ StaleOnlyByOverlap

\* Whatever the interleaving, processes and failures, a get answers with current
\* values or defaults, unless a push has changed the entity within the TTL and the
\* time Redis takes to answer ("local cache for very frequent access patterns").
AnswersAreRecent ==
    answer.kind = "features" =>
        \/ Current(answer.features, answer.entity)
        \/ sinceChange[answer.entity] < CacheTTL + Latency
=============================================================================
