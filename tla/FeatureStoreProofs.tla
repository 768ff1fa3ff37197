------------------------- MODULE FeatureStoreProofs ---------------------------
(***************************************************************************)
(* Theorems about FeatureStore for any processes, requests, features and   *)
(* conversions, every TTL and every Redis latency: IInv is inductive, what *)
(* a get answers is recent, and a cache is stale only by overlap.          *)
(***************************************************************************)
EXTENDS FeatureStore, TLAPS

LEMMA Saturation ==
    ASSUME NEW b \in Nat, NEW n \in Nat
    PROVE  AtMost(b, n) \in 0..b /\ AtMost(b, n) <= n /\ (AtMost(b, n) < b => AtMost(b, n) = n)
  BY DEF AtMost

LEMMA Constants ==
    /\ CacheTTL \in Nat \ {0} /\ Latency \in Nat
    /\ CacheTTL + Latency \in Nat /\ 0 \in Ages
    /\ Empty \in Dict
    /\ NoEntry \in [features : Dict, age : 0..CacheTTL]
    /\ NoAnswer \in [kind : {"none", "features", "stored", "failed"},
                     entity : Entities, asked : SUBSET Names, features : Dict]
    /\ NoAnswer.kind = "none"
<1>1. CacheTTL \in Nat \ {0} /\ Latency \in Nat /\ Entities # {}
  BY FeatureAssumption
<1>2. Empty \in Dict
  BY DEF Empty, Dict
<1>3. (CHOOSE e \in Entities : TRUE) \in Entities
  BY <1>1
<1>4. QED
  BY <1>1, <1>2, <1>3 DEF Ages, NoEntry, NoAnswer

\* What the operators on dicts return is a dict.
LEMMA Dicts ==
    ASSUME NEW hash \in Dict, NEW dict \in Dict, NEW asked \in SUBSET Names
    PROVE  /\ Read(hash, asked) \in Dict
           /\ Defaults(asked) \in Dict
           /\ Validated(dict) \in Dict
           /\ Stored(hash, dict) \in Dict
           /\ Restricted(dict, asked) \in Dict
<1>1. \A n \in Names : Value(hash, n) \in Values /\ Default[n] \in Values
  BY FeatureAssumption DEF Value, Dict
<1>2. QED
  BY <1>1 DEF Dict, Read, Defaults, Validated, Stored, Restricted

\* What is read of the store, or falls back to defaults, is current, and a part
\* of what is current is current.
LEMMA Currents ==
    ASSUME NEW e \in Entities, NEW asked \in SUBSET Names, NEW dict
    PROVE  /\ Current(Read(store[e], asked), e)
           /\ Current(Defaults(asked), e)
           /\ Current(dict, e) => Current(Restricted(dict, asked), e)
  BY DEF Current, Read, Defaults, Restricted

-----------------------------------------------------------------------------

LEMMA InitIInv == Init => IInv
<1> SUFFICES ASSUME Init PROVE IInv
  OBVIOUS
<1>1. TypeOK
  BY Constants DEF Init, TypeOK, Ages
<1>2. Unread /\ FetchedIsRecent
  BY DEF Init, Unread, FetchedIsRecent
<1>3. \A p \in Processes, e \in Entities : ~Fresh(p, e)
  BY Constants DEF Init, Fresh, NoEntry
<1>4. QED
  BY <1>1, <1>2, <1>3 DEF IInv, CacheIsRecent, StaleOnlyByOverlap

\* A get answered from the cache changes nothing else.
LEMMA GetCachedIInv ==
    ASSUME IInv, NEW r \in Requests, NEW e \in Entities, NEW asked \in SUBSET Names,
           GetCached(r, e, asked)
    PROVE  IInv'
<1>1. Restricted(cache[Home[r]][e].features, asked) \in Dict
  <2>1. cache[Home[r]][e] \in [features : Dict, age : 0..CacheTTL]
    BY FeatureAssumption DEF IInv, TypeOK
  <2>2. QED
    BY <2>1, Dicts, Constants
<1>2. TypeOK'
  <2>1. answer' \in [kind : {"none", "features", "stored", "failed"},
                     entity : Entities, asked : SUBSET Names, features : Dict]
    BY <1>1 DEF GetCached, Features
  <2>2. QED
    BY <2>1 DEF IInv, TypeOK, GetCached
<1>3. Unread' /\ FetchedIsRecent'
  BY DEF IInv, GetCached, Unread, FetchedIsRecent, Current, Value
<1>4. CacheIsRecent'
  BY DEF IInv, GetCached, CacheIsRecent, Fresh, Current, Value
<1>5. StaleOnlyByOverlap'
  BY DEF IInv, GetCached, StaleOnlyByOverlap, Fresh, Current, Value, PushPending
<1>6. QED
  BY <1>2, <1>3, <1>4, <1>5 DEF IInv

\* A get or a push that starts has read nothing.
LEMMA StartIInv ==
    ASSUME IInv, NEW r \in Requests, NEW e \in Entities,
           \/ \E asked \in SUBSET Names : GetMiss(r, e, asked)
           \/ \E dict \in Dict : Push(r, e, dict)
    PROVE  IInv'
<1>1. /\ pc[r] = "idle"
      /\ pc' = [pc EXCEPT ![r] = "fetch"] \/ pc' = [pc EXCEPT ![r] = "hset"]
      /\ entity' = [entity EXCEPT ![r] = e]
      /\ \A s \in Requests \ {r} : data'[s] = data[s]
      /\ UNCHANGED <<store, cache, age, sinceChange, raced, excused>>
  BY DEF GetMiss, Push, IInv, TypeOK
<1>2. TypeOK'
  <2>1. CASE \E asked \in SUBSET Names : GetMiss(r, e, asked)
    BY <2>1, Constants DEF GetMiss, IInv, TypeOK
  <2>2. CASE \E dict \in Dict : Push(r, e, dict)
    <3>1. PICK dict \in Dict : Push(r, e, dict)
      BY <2>2
    <3>2. Validated(dict) \in Dict
      BY Dicts, Constants
    <3>3. QED
      BY <3>1, <3>2, Constants DEF Push, IInv, TypeOK
  <2>3. QED
    BY <2>1, <2>2
<1>3. \A s \in Requests : s # r => pc'[s] = pc[s] /\ entity'[s] = entity[s]
  BY <1>1 DEF IInv, TypeOK
<1>4. pc'[r] # "fill"
  BY <1>1 DEF IInv, TypeOK
<1>5. Unread'
  BY <1>1, <1>3, <1>4 DEF IInv, Unread
<1>6. FetchedIsRecent'
  BY <1>1, <1>3, <1>4 DEF IInv, FetchedIsRecent, Current, Value
<1>7. CacheIsRecent'
  BY <1>1 DEF IInv, CacheIsRecent, Fresh, Current, Value
<1>8. StaleOnlyByOverlap'
  BY <1>1, <1>3 DEF IInv, StaleOnlyByOverlap, Fresh, Current, Value, PushPending
<1>9. QED
  BY <1>2, <1>5, <1>6, <1>7, <1>8 DEF IInv

LEMMA FetchIInv ==
    ASSUME IInv, NEW r \in Requests, Fetch(r)
    PROVE  IInv'
<1>1. Read(store[entity[r]], names[r]) \in Dict /\ entity[r] \in Entities /\ names[r] \in SUBSET Names
  BY Dicts, Constants DEF IInv, TypeOK
<1>2. TypeOK'
  BY <1>1, Constants DEF Fetch, IInv, TypeOK
<1>3. Unread'
  BY DEF Fetch, IInv, TypeOK, Unread
<1>4. FetchedIsRecent'
  <2> SUFFICES ASSUME NEW s \in Requests, pc'[s] = "fill"
               PROVE  \/ Current(data'[s], entity[s])
                      \/ raced[s] /\ sinceChange[entity[s]] <= age[s]
    BY DEF Fetch, FetchedIsRecent, Current, Value
  <2>1. CASE s = r
    BY <2>1, <1>1, Currents DEF Fetch, IInv, TypeOK
  <2>2. CASE s # r
    BY <2>2 DEF Fetch, IInv, TypeOK, FetchedIsRecent
  <2>3. QED
    BY <2>1, <2>2
<1>5. CacheIsRecent'
  BY DEF Fetch, IInv, CacheIsRecent, Fresh, Current, Value
<1>6. StaleOnlyByOverlap'
  <2>1. \A s \in Requests : pc[s] = "finish" => pc'[s] = "finish"
    BY DEF Fetch, IInv, TypeOK
  <2>2. QED
    BY <2>1 DEF Fetch, IInv, StaleOnlyByOverlap, Fresh, Current, Value, PushPending
<1>7. QED
  BY <1>2, <1>3, <1>4, <1>5, <1>6 DEF IInv

\* A request that ends leaves nothing behind that the invariant speaks of.
LEMMA ForgetFacts ==
    ASSUME IInv, NEW R \in SUBSET Requests, Forget(R), UNCHANGED <<store, entity, sinceChange>>
    PROVE  /\ pc' \in [Requests -> {"idle", "fetch", "fill", "hset", "finish"}]
           /\ names' \in [Requests -> SUBSET Names]
           /\ data' \in [Requests -> Dict]
           /\ age' \in [Requests -> 0..Latency]
           /\ raced' \in [Requests -> BOOLEAN]
           /\ \A s \in R : pc'[s] = "idle"
           /\ \A s \in Requests \ R : pc'[s] = pc[s]
           /\ Unread'
           /\ FetchedIsRecent'
<1>1. /\ \A s \in R : pc'[s] = "idle" /\ age'[s] = 0 /\ ~raced'[s]
      /\ \A s \in Requests \ R : /\ pc'[s] = pc[s] /\ data'[s] = data[s]
                                 /\ age'[s] = age[s] /\ raced'[s] = raced[s]
  BY DEF Forget
<1>2. /\ pc' \in [Requests -> {"idle", "fetch", "fill", "hset", "finish"}]
      /\ names' \in [Requests -> SUBSET Names]
      /\ data' \in [Requests -> Dict]
      /\ age' \in [Requests -> 0..Latency]
      /\ raced' \in [Requests -> BOOLEAN]
  <2>1. pc' \in [Requests -> {"idle", "fetch", "fill", "hset", "finish"}]
    BY DEF Forget, IInv, TypeOK
  <2>2. names' \in [Requests -> SUBSET Names]
    BY DEF Forget, IInv, TypeOK
  <2>3. data' \in [Requests -> Dict]
    BY Constants DEF Forget, IInv, TypeOK
  <2>4. age' \in [Requests -> 0..Latency]
    BY Constants DEF Forget, IInv, TypeOK
  <2>5. raced' \in [Requests -> BOOLEAN]
    BY DEF Forget, IInv, TypeOK
  <2>6. QED
    BY <2>1, <2>2, <2>3, <2>4, <2>5
<1>3. Unread'
  BY <1>1 DEF IInv, Unread
<1>4. FetchedIsRecent'
  BY <1>1 DEF IInv, FetchedIsRecent, Current, Value
<1>5. QED
  BY <1>1, <1>2, <1>3, <1>4

\* A get fills the cache with what was current when it was read.
LEMMA FillWithIInv ==
    ASSUME IInv, NEW r \in Requests, NEW dict \in Dict, FillWith(r, dict),
           pc[r] # "finish",
           Current(dict, entity[r]) \/ (raced[r] /\ sinceChange[entity[r]] <= Latency)
    PROVE  IInv'
<1> DEFINE h == Home[r]
           e == entity[r]
<1>1. h \in Processes /\ e \in Entities /\ names[r] \in SUBSET Names /\ raced[r] \in BOOLEAN
  BY FeatureAssumption DEF IInv, TypeOK
<1>2. /\ UNCHANGED <<store, entity, sinceChange>>
      /\ Forget({r})
      /\ cache' = [cache EXCEPT ![h][e] = [features |-> dict, age |-> 0]]
      /\ excused' = [excused EXCEPT ![h][e] = raced[r]]
      /\ answer' = Features(e, names[r], dict)
  BY DEF FillWith
<1> HIDE DEF h, e
<1>3. /\ cache'[h][e] = [features |-> dict, age |-> 0] /\ excused'[h][e] = raced[r]
      /\ \A p \in Processes, f \in Entities : p # h \/ f # e =>
             cache'[p][f] = cache[p][f] /\ excused'[p][f] = excused[p][f]
  BY <1>1, <1>2 DEF IInv, TypeOK
<1>4. TypeOK'
  <2>1. cache' \in [Processes -> [Entities -> [features : Dict, age : 0..CacheTTL]]]
    BY <1>1, <1>2, Constants DEF IInv, TypeOK
  <2>2. excused' \in [Processes -> [Entities -> BOOLEAN]]
    BY <1>1, <1>2 DEF IInv, TypeOK
  <2>3. answer' \in [kind : {"none", "features", "stored", "failed"},
                     entity : Entities, asked : SUBSET Names, features : Dict]
    BY <1>1, <1>2 DEF Features
  <2>4. QED
    BY <1>2, <2>1, <2>2, <2>3, ForgetFacts DEF IInv, TypeOK
<1>5. CacheIsRecent'
  <2> SUFFICES ASSUME NEW p \in Processes, NEW f \in Entities, cache'[p][f].age < CacheTTL
               PROVE  \/ Current(cache'[p][f].features, f)
                      \/ sinceChange[f] <= cache'[p][f].age + Latency
    BY <1>2 DEF CacheIsRecent, Fresh, Current, Value
  <2>1. CASE p = h /\ f = e
    BY <2>1, <1>3, Constants DEF e
  <2>2. CASE p # h \/ f # e
    BY <2>2, <1>3 DEF IInv, CacheIsRecent, Fresh
  <2>3. QED
    BY <2>1, <2>2
<1>6. StaleOnlyByOverlap'
  <2> SUFFICES ASSUME NEW p \in Processes, NEW f \in Entities,
                      cache'[p][f].age < CacheTTL, ~excused'[p][f]
               PROVE  \/ Current(cache'[p][f].features, f)
                      \/ \E s \in Requests : Home[s] = p /\ entity[s] = f /\ pc'[s] = "finish"
    BY <1>2, SMTT(20) DEF StaleOnlyByOverlap, Fresh, Current, Value, PushPending
  <2>1. CASE p = h /\ f = e
    BY <2>1, <1>3 DEF e
  <2>2. CASE p # h \/ f # e
    <3>1. \A s \in Requests : pc[s] = "finish" => pc'[s] = "finish"
      BY <1>2, ForgetFacts
    <3>2. QED
      BY <2>2, <3>1, <1>3 DEF IInv, StaleOnlyByOverlap, Fresh, PushPending
  <2>3. QED
    BY <2>1, <2>2
<1>7. QED
  BY <1>2, <1>4, <1>5, <1>6, ForgetFacts DEF IInv

\* A fetch that succeeds fills in what it read, one that fails the defaults.
LEMMA FillIInv ==
    ASSUME IInv, NEW r \in Requests, Fill(r) \/ FetchFails(r)
    PROVE  IInv'
<1>1. /\ data[r] \in Dict /\ entity[r] \in Entities /\ names[r] \in SUBSET Names
      /\ age[r] \in 0..Latency /\ sinceChange[entity[r]] \in Ages
  BY DEF IInv, TypeOK
<1>2. CASE Fill(r)
  <2>1. Current(data[r], entity[r]) \/ (raced[r] /\ sinceChange[entity[r]] <= Latency)
    BY <1>1, <1>2, Constants DEF Fill, IInv, FetchedIsRecent, Ages
  <2>2. QED
    BY <1>1, <1>2, <2>1, FillWithIInv DEF Fill
<1>3. CASE FetchFails(r)
  <2>1. Defaults(names[r]) \in Dict /\ Current(Defaults(names[r]), entity[r])
    BY <1>1, Dicts, Constants, Currents
  <2>2. QED
    BY <1>3, <2>1, FillWithIInv DEF FetchFails
<1>4. QED
  BY <1>2, <1>3

\* A push makes what gets have in hand raced, and what other processes have
\* cached excused.
LEMMA HsetIInv ==
    ASSUME IInv, NEW r \in Requests, Hset(r)
    PROVE  IInv'
<1> DEFINE e == entity[r]
<1>1. e \in Entities /\ data[r] \in Dict /\ store[e] \in Dict
  BY DEF IInv, TypeOK
<1>2. /\ pc[r] = "hset" /\ pc' = [pc EXCEPT ![r] = "finish"]
      /\ store' = [store EXCEPT ![e] = Stored(@, data[r])]
      /\ sinceChange' = [sinceChange EXCEPT ![e] = 0]
      /\ raced' = [s \in Requests |-> raced[s] \/ (pc[s] = "fill" /\ entity[s] = e)]
      /\ excused' = [p \in Processes |-> [f \in Entities |->
             Fresh(p, f) /\ (excused[p][f] \/ (p # Home[r] /\ f = e))]]
      /\ answer' = NoAnswer
      /\ UNCHANGED <<cache, entity, names, data, age>>
  BY DEF Hset
<1> HIDE DEF e
<1>3. /\ sinceChange'[e] = 0
      /\ \A f \in Entities : f # e => store'[f] = store[f] /\ sinceChange'[f] = sinceChange[f]
      /\ pc'[r] = "finish"
      /\ \A s \in Requests : s # r => pc'[s] = pc[s]
  BY <1>1, <1>2 DEF IInv, TypeOK
<1>4. TypeOK'
  <2>1. Stored(store[e], data[r]) \in Dict
    BY <1>1, Dicts, Constants
  <2>2. store' \in [Entities -> Dict]
    BY <1>2, <2>1 DEF IInv, TypeOK
  <2>3. excused' \in [Processes -> [Entities -> BOOLEAN]]
    BY <1>2 DEF Fresh
  <2>4. QED
    BY <1>2, <2>2, <2>3, Constants DEF IInv, TypeOK
<1>5. Unread'
  BY <1>2, <1>3 DEF IInv, Unread
<1>6. FetchedIsRecent'
  <2> SUFFICES ASSUME NEW s \in Requests, pc'[s] = "fill"
               PROVE  Current(data[s], entity[s])' \/ (raced'[s] /\ sinceChange'[entity[s]] <= age[s])
    BY <1>2 DEF FetchedIsRecent
  <2>1. pc[s] = "fill" /\ age[s] \in 0..Latency /\ entity[s] \in Entities
    BY <1>3 DEF IInv, TypeOK
  <2>2. CASE entity[s] = e
    <3>1. raced'[s] /\ sinceChange'[entity[s]] = 0
      BY <2>1, <2>2, <1>2, <1>3
    <3>2. QED
      BY <2>1, <3>1, Constants
  <2>3. CASE entity[s] # e
    <3>1. store'[entity[s]] = store[entity[s]] /\ sinceChange'[entity[s]] = sinceChange[entity[s]]
      BY <2>1, <2>3, <1>3
    <3>2. QED
      BY <2>1, <3>1, <1>2 DEF IInv, FetchedIsRecent, Current, Value
  <2>4. QED
    BY <2>2, <2>3
<1>7. CacheIsRecent'
  <2> SUFFICES ASSUME NEW p \in Processes, NEW f \in Entities, cache[p][f].age < CacheTTL
               PROVE  \/ Current(cache[p][f].features, f)'
                      \/ sinceChange'[f] <= cache[p][f].age + Latency
    BY <1>2 DEF CacheIsRecent, Fresh
  <2>1. cache[p][f].age \in Nat
    BY Constants DEF IInv, TypeOK
  <2>2. CASE f = e
    BY <2>1, <2>2, <1>3, Constants
  <2>3. CASE f # e
    BY <2>3, <1>2, <1>3 DEF IInv, CacheIsRecent, Fresh, Current, Value
  <2>4. QED
    BY <2>2, <2>3
<1>8. StaleOnlyByOverlap'
  <2> SUFFICES ASSUME NEW p \in Processes, NEW f \in Entities, Fresh(p, f), ~excused'[p][f]
               PROVE  Current(cache[p][f].features, f)' \/ PushPending(p, f)'
    BY <1>2 DEF StaleOnlyByOverlap, Fresh
  <2>1. ~excused[p][f] /\ (p = Home[r] \/ f # e)
    BY <1>2
  <2>2. CASE f = e
    BY <2>1, <2>2, <1>2, <1>3 DEF PushPending, e
  <2>3. CASE f # e
    <3>1. store'[f] = store[f] /\ cache' = cache
      BY <2>3, <1>2, <1>3
    <3>2. CASE Current(cache[p][f].features, f)
      BY <3>1, <3>2 DEF Current, Value
    <3>3. CASE PushPending(p, f)
      BY <3>3, <1>2, <1>3 DEF PushPending
    <3>4. QED
      BY <2>1, <3>2, <3>3 DEF IInv, StaleOnlyByOverlap
  <2>4. QED
    BY <2>2, <2>3
<1>9. QED
  BY <1>4, <1>5, <1>6, <1>7, <1>8 DEF IInv

\* A push that ends drops the entry that it may have made stale.
LEMMA PushedIInv ==
    ASSUME IInv, NEW r \in Requests, PushSucceeds(r) \/ PushFails(r)
    PROVE  IInv'
<1> DEFINE h == Home[r]
           e == entity[r]
<1>1. /\ cache' = [cache EXCEPT ![h][e] = NoEntry]
      /\ \E kind \in {"stored", "failed"} : answer' = [NoAnswer EXCEPT !.kind = kind]
      /\ Forget({r})
      /\ UNCHANGED <<store, entity, sinceChange, excused>>
  BY DEF PushSucceeds, PushFails, Pushed
<1>2. h \in Processes /\ e \in Entities
  BY FeatureAssumption DEF IInv, TypeOK
<1> HIDE DEF h, e
<1>3. /\ cache'[h][e].age = CacheTTL
      /\ \A p \in Processes, f \in Entities : p # h \/ f # e => cache'[p][f] = cache[p][f]
  BY <1>1, <1>2 DEF IInv, TypeOK, NoEntry
<1>4. TypeOK'
  <2>1. cache' \in [Processes -> [Entities -> [features : Dict, age : 0..CacheTTL]]]
    BY <1>1, <1>2, Constants DEF IInv, TypeOK
  <2>2. answer' \in [kind : {"none", "features", "stored", "failed"},
                     entity : Entities, asked : SUBSET Names, features : Dict]
    <3>1. PICK kind \in {"stored", "failed"} : answer' = [NoAnswer EXCEPT !.kind = kind]
      BY <1>1
    <3>2. QED
      BY <3>1, Constants
  <2>3. QED
    BY <1>1, <2>1, <2>2, ForgetFacts DEF IInv, TypeOK
<1>5. CacheIsRecent'
  BY <1>1, <1>2, <1>3, Constants DEF IInv, CacheIsRecent, Fresh, Current, Value
<1>6. StaleOnlyByOverlap'
  <2> SUFFICES ASSUME NEW p \in Processes, NEW f \in Entities,
                      cache'[p][f].age < CacheTTL, ~excused[p][f]
               PROVE  Current(cache'[p][f].features, f) \/ PushPending(p, f)'
    BY <1>1 DEF StaleOnlyByOverlap, Fresh, Current, Value
  <2>1. (p # h \/ f # e) /\ cache'[p][f] = cache[p][f]
    BY <1>3, Constants
  <2>2. \A s \in Requests : s # r => pc'[s] = pc[s]
    BY <1>1, ForgetFacts
  <2>3. PushPending(p, f) => PushPending(p, f)'
    BY <1>1, <2>1, <2>2 DEF PushPending, h, e
  <2>4. QED
    BY <2>1, <2>3 DEF IInv, StaleOnlyByOverlap, Fresh
<1>7. QED
  BY <1>1, <1>4, <1>5, <1>6, ForgetFacts DEF IInv

\* A process that restarts starts with an empty cache.
LEMMA RestartIInv ==
    ASSUME IInv, NEW p \in Processes, Restart(p)
    PROVE  IInv'
<1> DEFINE R == {r \in Requests : Home[r] = p}
<1>1. /\ cache' = [cache EXCEPT ![p] = [e \in Entities |-> NoEntry]]
      /\ answer' = NoAnswer
      /\ Forget(R)
      /\ UNCHANGED <<store, entity, sinceChange, excused>>
  BY DEF Restart
<1>2. /\ \A e \in Entities : cache'[p][e].age = CacheTTL
      /\ \A q \in Processes : q # p => cache'[q] = cache[q]
  BY <1>1 DEF IInv, TypeOK, NoEntry
<1>3. /\ pc' \in [Requests -> {"idle", "fetch", "fill", "hset", "finish"}]
      /\ names' \in [Requests -> SUBSET Names] /\ data' \in [Requests -> Dict]
      /\ age' \in [Requests -> 0..Latency] /\ raced' \in [Requests -> BOOLEAN]
      /\ \A s \in Requests \ R : pc'[s] = pc[s]
      /\ Unread'
      /\ FetchedIsRecent'
  BY <1>1, ForgetFacts
<1>4. TypeOK'
  <2>1. cache' \in [Processes -> [Entities -> [features : Dict, age : 0..CacheTTL]]]
    BY <1>1, Constants DEF IInv, TypeOK
  <2>2. QED
    BY <1>1, <1>3, <2>1, Constants DEF IInv, TypeOK
<1>5. CacheIsRecent'
  BY <1>1, <1>2, Constants DEF IInv, CacheIsRecent, Fresh, Current, Value
<1>6. StaleOnlyByOverlap'
  <2> SUFFICES ASSUME NEW q \in Processes, NEW f \in Entities,
                      cache'[q][f].age < CacheTTL, ~excused[q][f]
               PROVE  Current(cache'[q][f].features, f) \/ PushPending(q, f)'
    BY <1>1 DEF StaleOnlyByOverlap, Fresh, Current, Value
  <2>1. q # p /\ cache'[q][f] = cache[q][f]
    BY <1>2, Constants
  <2>2. PushPending(q, f) => PushPending(q, f)'
    BY <1>1, <1>3, <2>1 DEF PushPending
  <2>3. QED
    BY <2>1, <2>2 DEF IInv, StaleOnlyByOverlap, Fresh
<1>7. QED
  BY <1>3, <1>4, <1>5, <1>6 DEF IInv

LEMMA TickIInv ==
    ASSUME IInv, Tick
    PROVE  IInv'
<1>1. /\ \A r \in Requests : pc[r] = "fill" => age[r] < Latency
      /\ cache' = [p \in Processes |-> [e \in Entities |->
             [cache[p][e] EXCEPT !.age = AtMost(CacheTTL, @ + 1)]]]
      /\ age' = [r \in Requests |-> IF pc[r] = "fill" THEN age[r] + 1 ELSE age[r]]
      /\ sinceChange' = [e \in Entities |-> AtMost(CacheTTL + Latency, sinceChange[e] + 1)]
      /\ answer' = NoAnswer
      /\ UNCHANGED <<store, pc, entity, names, data, raced, excused>>
  BY DEF Tick
<1>2. \A e \in Entities : sinceChange[e] \in Ages /\ sinceChange[e] + 1 \in Nat
  BY Constants DEF IInv, TypeOK, Ages
<1>3. \A e \in Entities : sinceChange'[e] \in Ages /\ sinceChange'[e] <= sinceChange[e] + 1
  BY <1>1, <1>2, Saturation, Constants DEF Ages
<1>4. ASSUME NEW p \in Processes, NEW e \in Entities
      PROVE  /\ cache'[p][e] \in [features : Dict, age : 0..CacheTTL]
             /\ cache'[p][e].features = cache[p][e].features
             /\ cache'[p][e].age < CacheTTL => cache'[p][e].age = cache[p][e].age + 1
  <2>1. cache[p][e] \in [features : Dict, age : 0..CacheTTL]
    BY DEF IInv, TypeOK
  <2>2. cache'[p][e] = [cache[p][e] EXCEPT !.age = AtMost(CacheTTL, cache[p][e].age + 1)]
    BY <1>1
  <2> DEFINE a == AtMost(CacheTTL, cache[p][e].age + 1)
  <2>3. cache[p][e].age + 1 \in Nat
    BY <2>1, Constants
  <2>4. a \in 0..CacheTTL /\ (a < CacheTTL => a = cache[p][e].age + 1)
    BY <2>3, Saturation, Constants
  <2> HIDE DEF a
  <2>5. QED
    BY <2>1, <2>2, <2>4 DEF a
<1>5. TypeOK'
  <2>1. cache' \in [Processes -> [Entities -> [features : Dict, age : 0..CacheTTL]]]
    BY <1>1, <1>4
  <2>2. age' \in [Requests -> 0..Latency]
    BY <1>1, Constants DEF IInv, TypeOK
  <2>3. QED
    BY <1>1, <1>3, <2>1, <2>2, Constants DEF IInv, TypeOK
<1>6. Unread'
  BY <1>1 DEF IInv, Unread
<1>7. FetchedIsRecent'
  <2> SUFFICES ASSUME NEW r \in Requests, pc[r] = "fill"
               PROVE  \/ Current(data[r], entity[r])
                      \/ raced[r] /\ sinceChange'[entity[r]] <= age'[r]
    BY <1>1 DEF FetchedIsRecent, Current, Value
  <2>1. /\ entity[r] \in Entities /\ age'[r] = age[r] + 1 /\ age[r] \in Nat
        /\ sinceChange[entity[r]] \in Nat /\ sinceChange'[entity[r]] \in Nat
    BY <1>1, <1>2, <1>3, Constants DEF IInv, TypeOK, Ages
  <2>2. QED
    BY <2>1, <1>3 DEF IInv, FetchedIsRecent
<1>8. CacheIsRecent'
  <2> SUFFICES ASSUME NEW p \in Processes, NEW e \in Entities, cache'[p][e].age < CacheTTL
               PROVE  \/ Current(cache[p][e].features, e)'
                      \/ sinceChange'[e] <= cache'[p][e].age + Latency
    BY DEF CacheIsRecent, Fresh
  <2>0. Current(cache[p][e].features, e) => Current(cache[p][e].features, e)'
    BY <1>1, <1>4 DEF Current, Value
  <2>1. /\ cache'[p][e].age = cache[p][e].age + 1 /\ cache[p][e].age \in Nat
        /\ sinceChange[e] \in Nat /\ sinceChange'[e] \in Nat
    BY <1>2, <1>3, <1>4, Constants DEF IInv, TypeOK, Ages
  <2>2. QED
    BY <2>0, <2>1, <1>3, Constants DEF IInv, CacheIsRecent, Fresh
<1>9. StaleOnlyByOverlap'
  <2> SUFFICES ASSUME NEW p \in Processes, NEW e \in Entities,
                      cache'[p][e].age < CacheTTL, ~excused[p][e]
               PROVE  Current(cache[p][e].features, e) \/ PushPending(p, e)
    BY <1>1, <1>4 DEF StaleOnlyByOverlap, Fresh, Current, Value, PushPending
  <2>1. cache'[p][e].age = cache[p][e].age + 1 /\ cache[p][e].age \in Nat
    BY <1>4, Constants DEF IInv, TypeOK
  <2>2. QED
    BY <2>1, Constants DEF IInv, StaleOnlyByOverlap, Fresh
<1>10. QED
  BY <1>5, <1>6, <1>7, <1>8, <1>9 DEF IInv

LEMMA NextIInv == IInv /\ [Next]_vars => IInv'
<1> SUFFICES ASSUME IInv, [Next]_vars
             PROVE  IInv'
  OBVIOUS
<1>1. ASSUME NEW r \in Requests, Get(r)
      PROVE  IInv'
  BY <1>1, GetCachedIInv, StartIInv DEF Get
<1>2. ASSUME NEW r \in Requests, NEW e \in Entities, NEW dict \in Dict, Push(r, e, dict)
      PROVE  IInv'
  BY <1>2, StartIInv
<1>3. ASSUME NEW r \in Requests,
             \/ Fetch(r) \/ Fill(r) \/ FetchFails(r)
             \/ Hset(r) \/ PushSucceeds(r) \/ PushFails(r)
      PROVE  IInv'
  BY <1>3, FetchIInv, FillIInv, HsetIInv, PushedIInv
<1>4. ASSUME NEW p \in Processes, Restart(p)
      PROVE  IInv'
  BY <1>4, RestartIInv
<1>5. CASE Tick
  BY <1>5, TickIInv
<1>6. CASE UNCHANGED vars
  BY <1>6 DEF vars, IInv, TypeOK, Unread, FetchedIsRecent, CacheIsRecent,
              StaleOnlyByOverlap, Current, Value, Fresh, PushPending
<1>7. QED
  BY <1>1, <1>2, <1>3, <1>4, <1>5, <1>6 DEF Next

\* The invariant holds in every state: of get_online_features and push_features,
\* whatever their interleaving, failures and restarts.
THEOREM Invariance == Spec => []IInv
<1>1. QED
  BY InitIInv, NextIInv, PTL DEF Spec

-----------------------------------------------------------------------------

\* What a step answers follows from what the invariant says of the state before.
LEMMA AnswerStep == IInv /\ AnswersAreRecent /\ [Next]_vars => AnswersAreRecent'
<1> SUFFICES ASSUME IInv, AnswersAreRecent, [Next]_vars, answer'.kind = "features"
             PROVE  \/ Current(answer.features, answer.entity)'
                    \/ sinceChange'[answer'.entity] < CacheTTL + Latency
  BY DEF AnswersAreRecent
<1>1. ASSUME NEW r \in Requests, NEW e \in Entities, NEW asked \in SUBSET Names,
             GetCached(r, e, asked)
      PROVE  \/ Current(answer.features, answer.entity)'
             \/ sinceChange'[answer'.entity] < CacheTTL + Latency
  <2> DEFINE entry == cache[Home[r]][e]
  <2>1. /\ answer'.features = Restricted(entry.features, asked) /\ answer'.entity = e
        /\ store' = store /\ sinceChange' = sinceChange /\ Fresh(Home[r], e)
    BY <1>1 DEF GetCached, Features
  <2>2. Home[r] \in Processes /\ entry.age \in Nat /\ sinceChange[e] \in Nat
    BY FeatureAssumption, Constants DEF IInv, TypeOK, Ages
  <2>3. CASE Current(entry.features, e)
    <3>1. Current(Restricted(entry.features, asked), e)
      BY <2>3, Currents
    <3>2. QED
      BY <2>1, <3>1 DEF Current, Value
  <2>4. CASE ~Current(entry.features, e)
    <3>1. entry.age < CacheTTL /\ sinceChange[e] <= entry.age + Latency
      BY <2>1, <2>2, <2>4 DEF IInv, CacheIsRecent, Fresh
    <3>2. QED
      BY <2>1, <2>2, <3>1, Constants
  <2>5. QED
    BY <2>3, <2>4
<1>2. ASSUME NEW r \in Requests, Fill(r) \/ FetchFails(r)
      PROVE  \/ Current(answer.features, answer.entity)'
             \/ sinceChange'[answer'.entity] < CacheTTL + Latency
  <2>1. /\ entity[r] \in Entities /\ names[r] \in SUBSET Names
        /\ age[r] \in 0..Latency /\ sinceChange[entity[r]] \in Nat
    BY Constants DEF IInv, TypeOK, Ages
  <2>2. CASE Fill(r)
    <3>1. /\ answer'.features = data[r] /\ answer'.entity = entity[r]
          /\ store' = store /\ sinceChange' = sinceChange /\ pc[r] = "fill"
      BY <2>2 DEF Fill, FillWith, Features
    <3>2. Current(data[r], entity[r]) \/ sinceChange[entity[r]] < CacheTTL + Latency
      BY <3>1, <2>1, Constants DEF IInv, FetchedIsRecent
    <3>3. QED
      BY <3>1, <3>2 DEF Current, Value
  <2>3. CASE FetchFails(r)
    <3>1. /\ answer'.features = Defaults(names[r]) /\ answer'.entity = entity[r]
          /\ store' = store
      BY <2>3 DEF FetchFails, FillWith, Features
    <3>2. Current(Defaults(names[r]), entity[r])
      BY <2>1, Currents
    <3>3. QED
      BY <3>1, <3>2 DEF Current, Value
  <2>4. QED
    BY <1>2, <2>2, <2>3
<1>3. CASE UNCHANGED vars
  BY <1>3 DEF vars, AnswersAreRecent, Current, Value
<1>4. ASSUME NEW r \in Requests, NEW e \in Entities,
             \/ \E asked \in SUBSET Names : GetMiss(r, e, asked)
             \/ \E dict \in Dict : Push(r, e, dict)
             \/ Fetch(r) \/ Hset(r) \/ PushSucceeds(r) \/ PushFails(r)
      PROVE  FALSE
  <2>1. PushSucceeds(r) \/ PushFails(r) => answer'.kind \in {"stored", "failed"}
    BY Constants DEF PushSucceeds, PushFails, Pushed, NoAnswer
  <2>2. QED
    BY <1>4, <2>1, Constants DEF GetMiss, Push, Fetch, Hset
<1>5. ASSUME NEW p \in Processes, Restart(p)
      PROVE  FALSE
  BY <1>5, Constants DEF Restart
<1>6. CASE Tick
  BY <1>6, Constants DEF Tick
<1>7. QED
  <2>1. CASE \E r \in Requests : Get(r)
    BY <2>1, <1>1, <1>4 DEF Get
  <2>2. CASE \E r \in Requests : \E e \in Entities, dict \in Dict : Push(r, e, dict)
    BY <2>2, <1>4
  <2>3. CASE \E r \in Requests : \/ Fetch(r) \/ Hset(r) \/ PushSucceeds(r) \/ PushFails(r)
    BY <2>3, <1>4, Constants
  <2>4. QED
    BY <2>1, <2>2, <2>3, <1>2, <1>3, <1>5, <1>6 DEF Next

\* A get answers with current values or defaults unless a push has changed the
\* entity within the TTL of the cache and the time Redis takes to answer.
THEOREM RecentAnswers == Spec => []AnswersAreRecent
<1>1. Init => AnswersAreRecent
  BY Constants DEF Init, AnswersAreRecent
<1>2. QED
  BY <1>1, AnswerStep, Invariance, PTL DEF Spec

\* push_features invalidates the cache of its process, and only overlap or
\* another process leaves a stale entry.
THEOREM StaleCaches == Spec => []StaleOnlyByOverlap
<1>1. IInv => StaleOnlyByOverlap
  BY DEF IInv
<1>2. QED
  BY <1>1, Invariance, PTL
=============================================================================
