---------------------------- MODULE HealthProofs ----------------------------
(***************************************************************************)
(* Theorems about HealthChecker for any checks, endpoints and number of    *)
(* concurrent requests, and every threshold and timeout: IInv is           *)
(* inductive, recovery starts clean, and the cache holds what each         *)
(* endpoint was answered last.                                             *)
(***************************************************************************)
EXTENDS HealthChecker, TLAPS

\* Saturating addition stays below its bound and never skips a value.
LEMMA Saturation ==
    ASSUME NEW b \in Nat, NEW n \in Nat
    PROVE  /\ AtMost(b, n) \in 0..b
           /\ AtMost(b, n) <= n
           /\ n <= b => AtMost(b, n) = n
           /\ (AtMost(b, n) < b) = (n < b)
  BY DEF AtMost

LEMMA Constants ==
    /\ Threshold \in Nat \ {0} /\ Recovery \in Nat /\ CacheTTL \in Nat \ {0}
    /\ Timeout \in Nat /\ Timeout < Recovery
    /\ Conditions \subseteq Results \union {"silent"}
  BY CircuitAssumption, HealthAssumption

LEMMA InitIInv == Init => IInv
<1> SUFFICES ASSUME Init PROVE IInv
  OBVIOUS
<1>1. TypeOK
  BY Constants DEF Init, CircuitInit, TypeOK, CircuitTypeOK, Idle
<1>2. TasksBelongToRequests
  BY DEF Init, TasksBelongToRequests, Idle, Running
<1>3. CircuitMatchesFailures
  BY Constants DEF Init, CircuitInit, CircuitMatchesFailures
<1>4. HalfOpenIsTested /\ QuietWhileOpen
  BY DEF Init, CircuitInit, HalfOpenIsTested, QuietWhileOpen
<1>5. QED
  BY <1>1, <1>2, <1>3, <1>4 DEF IInv

\* What a step that leaves the circuit and the tasks alone must preserve.
LEMMA SameTasks ==
    ASSUME IInv, UNCHANGED <<circuitVars, task>>, TypeOK', TasksBelongToRequests'
    PROVE  IInv'
  BY DEF IInv, circuitVars, CircuitMatchesFailures, HalfOpenIsTested, QuietWhileOpen, Running

LEMMA StartIInv ==
    ASSUME IInv, NEW r \in Requests, StartChecks(r)
    PROVE  IInv'
<1> USE DEF IInv
<1>1. /\ \A c \in Checks : task'[r][c] =
            IF c \notin Ran(r) THEN Idle
            ELSE [status |-> IF IsOpen(c) THEN "unhealthy" ELSE "running", age |-> 0]
      /\ \A s \in Requests \ {r} : task'[s] = task[s]
      /\ kind' = kind /\ failures' = failures /\ sinceFailure' = sinceFailure
  BY DEF StartChecks, AskIsOpen, TypeOK
<1>2. \A c \in Checks : circuit'[c] =
          IF c \in Ran(r) /\ circuit[c] = "open" /\ ~IsOpen(c) THEN "half-open" ELSE circuit[c]
  BY DEF StartChecks, AskIsOpen
<1>3. pc' = [pc EXCEPT ![r] = "gathering"] /\ pc[r] = "starting"
  BY DEF StartChecks
<1>4. TypeOK'
  <2>1. circuit' \in [Checks -> {"closed", "open", "half-open"}]
    BY DEF StartChecks, AskIsOpen, TypeOK, CircuitTypeOK
  <2>2. [c \in Checks |-> IF c \notin Ran(r) THEN Idle
            ELSE [status |-> IF IsOpen(c) THEN "unhealthy" ELSE "running", age |-> 0]]
          \in [Checks -> [status : Results \union {"idle", "running"}, age : 0..Timeout]]
    BY Constants DEF Idle, Results
  <2>3. task' \in [Requests -> [Checks -> [status : Results \union {"idle", "running"}, age : 0..Timeout]]]
    BY <2>2 DEF StartChecks, TypeOK
  <2>4. QED
    BY <2>1, <2>3, <1>1, <1>3 DEF StartChecks, TypeOK, CircuitTypeOK
<1>5. TasksBelongToRequests'
  <2>1. \A s \in Requests : Ran(s)' = Ran(s)
    BY <1>1 DEF Ran
  <2>2. \A c \in Checks :
          /\ (task'[r][c].status = "idle") = (c \notin Ran(r))
          /\ task'[r][c].status = "running" => task'[r][c].age = 0
    <3> TAKE c \in Checks
    <3>1. CASE c \notin Ran(r)
      <4>1. task'[r][c] = Idle
        BY <1>1, <3>1
      <4>2. QED
        BY <4>1, <3>1 DEF Idle
    <3>2. CASE c \in Ran(r)
      <4>1. \/ task'[r][c] = [status |-> "unhealthy", age |-> 0]
            \/ task'[r][c] = [status |-> "running", age |-> 0]
        BY <1>1, <3>2
      <4>2. QED
        BY <4>1, <3>2
    <3>3. QED
      BY <3>1, <3>2
  <2>3. \A s \in Requests \ {r} : pc'[s] = pc[s] /\ task'[s] = task[s]
    BY <1>1, <1>3 DEF TypeOK
  <2>4. pc'[r] = "gathering"
    BY <1>3 DEF TypeOK
  <2>5. QED
    BY <2>1, <2>2, <2>3, <2>4, Constants DEF TasksBelongToRequests, Running
<1>6. CircuitMatchesFailures'
  BY <1>1, <1>2 DEF CircuitMatchesFailures
<1>7. \A c \in Checks : ~Running(r, c)
  BY <1>3 DEF TasksBelongToRequests, Running
<1>8. HalfOpenIsTested'
  <2> SUFFICES ASSUME NEW c \in Checks, circuit'[c] = "half-open"
               PROVE  \E s \in Requests : task'[s][c].status = "running"
    BY DEF HalfOpenIsTested, Running
  <2>1. CASE circuit[c] = "half-open"
    BY <2>1, <1>1, <1>7 DEF HalfOpenIsTested, Running
  <2>2. CASE circuit[c] # "half-open"
    <3>1. c \in Ran(r) /\ ~IsOpen(c)
      BY <2>2, <1>2
    <3>2. task'[r][c] = [status |-> "running", age |-> 0]
      BY <3>1, <1>1
    <3>3. QED
      BY <3>2
  <2>3. QED
    BY <2>1, <2>2
<1>9. QuietWhileOpen'
  <2> SUFFICES ASSUME NEW s \in Requests, NEW c \in Checks,
                      circuit'[c] = "open", task'[s][c].status = "running"
               PROVE  task'[s][c].age >= sinceFailure[c]
    BY <1>1 DEF QuietWhileOpen, Running
  <2>1. circuit[c] = "open" /\ (c \in Ran(r) => IsOpen(c))
    BY <1>2
  <2>2. s # r
    <3>1. task'[r][c] = Idle \/ task'[r][c] = [status |-> "unhealthy", age |-> 0]
      BY <1>1, <2>1
    <3>2. task'[r][c].status # "running"
      BY <3>1 DEF Idle
    <3>3. QED
      BY <3>2
  <2>3. QED
    BY <1>1, <2>1, <2>2 DEF QuietWhileOpen, Running
<1>10. QED
  BY <1>4, <1>5, <1>6, <1>8, <1>9

\* A check that completes, in whatever way, leaves its circuit closed or open.
LEMMA CompleteIInv ==
    ASSUME IInv, NEW r \in Requests, NEW c \in Checks, Running(r, c),
           NEW s \in Results, Complete(r, c, s)
    PROVE  IInv'
<1> USE DEF IInv
<1>1. /\ task'[r][c] = [status |-> s, age |-> 0]
      /\ \A d \in Checks \ {c} : task'[r][d] = task[r][d]
      /\ \A q \in Requests \ {r} : task'[q] = task[q]
      /\ pc' = pc /\ kind' = kind
  BY DEF Complete, TypeOK
<1>2. s \notin {"idle", "running"}
  BY DEF Results
<1>3. /\ circuit'[c] \in {"closed", "open", "half-open"}
      /\ failures'[c] \in 0..Threshold /\ sinceFailure'[c] \in 0..Recovery
      /\ (circuit'[c] = "closed") = (failures'[c] < Threshold)
      /\ circuit'[c] # "half-open"
      /\ circuit'[c] = "open" => sinceFailure'[c] = 0
  <2>1. CASE s = "healthy"
    <3>1. /\ failures'[c] = 0 /\ circuit'[c] = "closed" /\ sinceFailure' = sinceFailure
      BY <2>1 DEF Complete, RecordSuccess, TypeOK, CircuitTypeOK
    <3>2. QED
      BY <3>1, Constants DEF TypeOK, CircuitTypeOK
  <2>2. CASE s # "healthy"
    <3>1. /\ failures'[c] = AtMost(Threshold, failures[c] + 1)
          /\ sinceFailure'[c] = 0
          /\ circuit'[c] = IF failures[c] + 1 >= Threshold THEN "open" ELSE circuit[c]
      BY <2>2 DEF Complete, RecordFailure, TypeOK, CircuitTypeOK
    <3>2. failures[c] \in 0..Threshold /\ circuit[c] \in {"closed", "open", "half-open"}
          /\ (circuit[c] = "closed") = (failures[c] < Threshold)
      BY DEF TypeOK, CircuitTypeOK, CircuitMatchesFailures
    <3>3. QED
      BY <3>1, <3>2, Constants DEF AtMost
  <2>3. QED
    BY <2>1, <2>2
<1>4. \A d \in Checks \ {c} : /\ circuit'[d] = circuit[d] /\ failures'[d] = failures[d]
                              /\ sinceFailure'[d] = sinceFailure[d]
  BY DEF Complete, RecordSuccess, RecordFailure, TypeOK, CircuitTypeOK
<1>5. TypeOK'
  <2>1. CircuitTypeOK'
    <3>1. /\ failures' = [d \in Checks |-> failures'[d]] /\ circuit' = [d \in Checks |-> circuit'[d]]
          /\ sinceFailure' = [d \in Checks |-> sinceFailure'[d]]
      BY DEF Complete, RecordSuccess, RecordFailure, TypeOK, CircuitTypeOK
    <3>2. \A d \in Checks : /\ failures'[d] \in 0..Threshold /\ sinceFailure'[d] \in 0..Recovery
                            /\ circuit'[d] \in {"closed", "open", "half-open"}
      BY <1>3, <1>4 DEF TypeOK, CircuitTypeOK
    <3>3. QED
      BY <3>1, <3>2 DEF CircuitTypeOK
  <2>2. [status |-> s, age |-> 0] \in [status : Results \union {"idle", "running"}, age : 0..Timeout]
    BY Constants
  <2>3. task' \in [Requests -> [Checks -> [status : Results \union {"idle", "running"}, age : 0..Timeout]]]
    BY <2>2 DEF Complete, TypeOK
  <2>4. QED
    BY <2>1, <2>3 DEF Complete, TypeOK
<1>6. TasksBelongToRequests'
  BY <1>1, <1>2 DEF TasksBelongToRequests, Running, Ran
<1>7. CircuitMatchesFailures'
  BY <1>3, <1>4 DEF CircuitMatchesFailures
<1>8. HalfOpenIsTested'
  BY <1>1, <1>3, <1>4 DEF HalfOpenIsTested, Running
<1>9. QuietWhileOpen'
  <2> SUFFICES ASSUME NEW q \in Requests, NEW d \in Checks,
                      circuit'[d] = "open", task'[q][d].status = "running"
               PROVE  task'[q][d].age >= sinceFailure'[d]
    BY DEF QuietWhileOpen, Running
  <2>1. CASE d = c
    <3>1. sinceFailure'[d] = 0 /\ q # r
      BY <2>1, <1>1, <1>2, <1>3
    <3>2. task'[q][d].age \in 0..Timeout
      BY <1>5 DEF TypeOK
    <3>3. QED
      BY <3>1, <3>2, Constants
  <2>2. CASE d # c
    BY <2>2, <1>1, <1>4 DEF QuietWhileOpen, Running
  <2>3. QED
    BY <2>1, <2>2
<1>10. QED
  BY <1>5, <1>6, <1>7, <1>8, <1>9

LEMMA FinishIInv ==
    ASSUME IInv, NEW r \in Requests, Finish(r)
    PROVE  IInv'
<1> USE DEF IInv
<1>1. /\ \A c \in Checks : task'[r][c] = Idle
      /\ \A s \in Requests \ {r} : task'[s] = task[s]
      /\ kind' = kind /\ pc' = [pc EXCEPT ![r] = "idle"]
      /\ circuit' = circuit /\ failures' = failures /\ sinceFailure' = sinceFailure
  BY DEF Finish, TypeOK, circuitVars
<1>2. \A c \in Checks : ~Running(r, c)
  BY DEF Finish, Gathered
<1>3. TypeOK'
  <2>1. \A c \in Ran(r) : task[r][c].status \in Results
    <3> TAKE c \in Ran(r)
    <3>1. c \in Checks /\ task[r][c] \in [status : Results \union {"idle", "running"}, age : 0..Timeout]
      BY DEF Ran, TypeOK
    <3>2. task[r][c].status # "idle" /\ task[r][c].status # "running"
      BY <1>2, <3>1 DEF Finish, Gathered, TasksBelongToRequests, Running
    <3>3. QED
      BY <3>1, <3>2
  <2>2. lastResults' \in [Checks -> Results \union {"none"}]
    BY <2>1 DEF Finish, TypeOK
  <2>3. [c \in Checks |-> IF c \in Ran(r) THEN task[r][c].status ELSE "none"]
          \in [Checks -> Results \union {"none"}]
    BY <2>1
  <2>4. lastReport' \in [Endpoints -> [Checks -> Results \union {"none"}]]
    BY <2>3 DEF Finish, TypeOK
  <2>5. [c \in Checks |-> Idle] \in [Checks -> [status : Results \union {"idle", "running"}, age : 0..Timeout]]
    BY Constants DEF Idle
  <2>6. task' \in [Requests -> [Checks -> [status : Results \union {"idle", "running"}, age : 0..Timeout]]]
    BY <2>5 DEF Finish, TypeOK
  <2>7. QED
    BY <2>2, <2>4, <2>6, <1>1, Constants DEF Finish, TypeOK, CircuitTypeOK
<1>4. TasksBelongToRequests'
  BY <1>1 DEF TypeOK, TasksBelongToRequests, Running, Ran, Idle
<1>5. CircuitMatchesFailures'
  BY <1>1 DEF CircuitMatchesFailures
<1>6. HalfOpenIsTested'
  BY <1>1, <1>2 DEF HalfOpenIsTested, Running
<1>7. QuietWhileOpen'
  BY <1>1 DEF QuietWhileOpen, Running, Idle
<1>8. QED
  BY <1>3, <1>4, <1>5, <1>6, <1>7

\* An open circuit and the checks running under it age together.
LEMMA TickIInv ==
    ASSUME IInv, Tick
    PROVE  IInv'
<1> USE DEF IInv
<1>1. \A r \in Requests, c \in Checks :
        /\ task[r][c] \in [status : Results \union {"idle", "running"}, age : 0..Timeout]
        /\ task'[r][c] = IF Running(r, c) THEN [task[r][c] EXCEPT !.age = @ + 1] ELSE task[r][c]
  BY DEF Tick, TypeOK
<1>2. \A r \in Requests, c \in Checks :
        /\ Running(r, c) => task[r][c].age < Timeout /\ task'[r][c].age = task[r][c].age + 1
        /\ task'[r][c].status = task[r][c].status
        /\ task'[r][c] \in [status : Results \union {"idle", "running"}, age : 0..Timeout]
  <2> TAKE r \in Requests, c \in Checks
  <2>1. task[r][c] \in [status : Results \union {"idle", "running"}, age : 0..Timeout]
    BY <1>1
  <2>2. CASE Running(r, c)
    <3>1. task'[r][c] = [task[r][c] EXCEPT !.age = @ + 1]
      BY <1>1, <2>2
    <3>2. task[r][c].age \in Nat /\ task[r][c].age < Timeout
      BY <2>1, <2>2, Constants DEF Tick, MayWait
    <3>3. QED
      BY <2>1, <3>1, <3>2, Constants
  <2>3. CASE ~Running(r, c)
    BY <1>1, <2>1, <2>3
  <2>4. QED
    BY <2>2, <2>3
<1>3. /\ \A c \in Checks : sinceFailure'[c] = AtMost(Recovery, sinceFailure[c] + 1)
      /\ failures' = failures /\ circuit' = circuit /\ pc' = pc /\ kind' = kind
  BY DEF Tick, CircuitTick
<1>4. TypeOK'
  <2>1. CircuitTypeOK'
    <3>1. \A c \in Checks : AtMost(Recovery, sinceFailure[c] + 1) \in 0..Recovery
      BY Constants DEF AtMost, TypeOK, CircuitTypeOK
    <3>2. sinceFailure' \in [Checks -> 0..Recovery]
      BY <3>1 DEF Tick, CircuitTick
    <3>3. QED
      BY <3>2, <1>3 DEF TypeOK, CircuitTypeOK
  <2>2. task' \in [Requests -> [Checks -> [status : Results \union {"idle", "running"}, age : 0..Timeout]]]
    BY <1>2 DEF Tick, TypeOK
  <2>3. sinceCheck' \in 0..CacheTTL
    BY Constants DEF AtMost, Tick, TypeOK
  <2>4. QED
    BY <2>1, <2>2, <2>3 DEF Tick, TypeOK
<1>5. TasksBelongToRequests'
  BY <1>2, <1>3 DEF TasksBelongToRequests, Running, Ran
<1>6. CircuitMatchesFailures'
  BY <1>3 DEF CircuitMatchesFailures
<1>7. HalfOpenIsTested'
  BY <1>2, <1>3 DEF HalfOpenIsTested, Running
<1>8. QuietWhileOpen'
  <2> SUFFICES ASSUME NEW r \in Requests, NEW c \in Checks, circuit[c] = "open", Running(r, c)
               PROVE  task'[r][c].age >= sinceFailure'[c]
    BY <1>2, <1>3 DEF QuietWhileOpen, Running
  <2>1. task[r][c].age >= sinceFailure[c] /\ task'[r][c].age = task[r][c].age + 1
    BY <1>2 DEF QuietWhileOpen
  <2>2. sinceFailure[c] \in Nat /\ sinceFailure'[c] = AtMost(Recovery, sinceFailure[c] + 1)
        /\ task[r][c].age \in Nat
    BY <1>1, <1>3, Constants DEF TypeOK, CircuitTypeOK
  <2>3. AtMost(Recovery, sinceFailure[c] + 1) <= sinceFailure[c] + 1
        /\ AtMost(Recovery, sinceFailure[c] + 1) \in Int
    BY <2>2, Constants, Saturation
  <2>4. QED
    BY <2>1, <2>2, <2>3
<1>9. QED
  BY <1>4, <1>5, <1>6, <1>7, <1>8

LEMMA NextIInv == IInv /\ [Next]_vars => IInv'
<1> SUFFICES ASSUME IInv, [Next]_vars PROVE IInv'
  OBVIOUS
<1>1. CASE UNCHANGED vars
  BY <1>1 DEF vars, circuitVars, healthVars, IInv, TypeOK, CircuitTypeOK, TasksBelongToRequests,
              CircuitMatchesFailures, HalfOpenIsTested, QuietWhileOpen, Running, Ran
<1>2. ASSUME NEW r \in Requests, NEW k \in Endpoints, PollCached(r, k) PROVE IInv'
  <2>1. CachedReport(k) \in [Checks -> Results \union {"none"}]
    BY DEF CachedReport, IInv, TypeOK
  <2>2. TypeOK'
    BY <1>2, <2>1 DEF PollCached, IInv, TypeOK, CircuitTypeOK, circuitVars
  <2>3. TasksBelongToRequests'
    BY <1>2 DEF PollCached, IInv, TasksBelongToRequests, Running, Ran
  <2>4. QED
    BY <1>2, <2>2, <2>3, SameTasks DEF PollCached
<1>3. ASSUME NEW r \in Requests, NEW k \in Endpoints, Poll(r, k) PROVE IInv'
  <2>1. TypeOK'
    BY <1>3, HealthAssumption DEF Poll, IInv, TypeOK, CircuitTypeOK, circuitVars
  <2>2. TasksBelongToRequests'
    BY <1>3 DEF Poll, IInv, TypeOK, TasksBelongToRequests, Running, Ran
  <2>3. QED
    BY <1>3, <2>1, <2>2, SameTasks DEF Poll
<1>4. ASSUME NEW r \in Requests, NEW c \in Checks, Answer(r, c) PROVE IInv'
  <2>1. condition[c] \in Results
    BY <1>4, Constants DEF Answer, IInv, TypeOK
  <2>2. QED
    BY <1>4, <2>1, CompleteIInv DEF Answer
<1>5. ASSUME NEW r \in Requests, NEW c \in Checks, TimeOut(r, c) PROVE IInv'
  <2>1. "unhealthy" \in Results
    BY DEF Results
  <2>2. QED
    BY <1>5, <2>1, CompleteIInv DEF TimeOut
<1>6. ASSUME NEW c \in Checks, Change(c) PROVE IInv'
  <2>1. TypeOK'
    BY <1>6 DEF Change, IInv, TypeOK, CircuitTypeOK, circuitVars
  <2>2. TasksBelongToRequests'
    BY <1>6 DEF Change, IInv, TasksBelongToRequests, Running, Ran
  <2>3. QED
    BY <1>6, <2>1, <2>2, SameTasks DEF Change
<1>7. QED
  BY <1>1, <1>2, <1>3, <1>4, <1>5, <1>6, StartIInv, FinishIInv, TickIInv DEF Next

\* The circuit agrees with the failures counted, a half-open circuit is being
\* tested, and an open one has no check younger than its last failure, for every
\* interleaving of any number of requests.
THEOREM Invariance == Spec => []IInv
<1>1. QED
  BY InitIInv, NextIInv, PTL DEF Spec

\* A circuit half-opens only after every check of the outage has ended.
THEOREM CleanRecovery == Spec => RecoveryStartsClean
<1>1. IInv /\ [Next]_vars => [EveryRecoveryIsClean]_vars
  <2> SUFFICES ASSUME IInv, Next, NEW c \in Checks, BeginsRecovery(c),
                      NEW r \in Requests, Running(r, c)
               PROVE  FALSE
    BY DEF EveryRecoveryIsClean
  <2>1. circuit[c] = "open" /\ task[r][c].age >= sinceFailure[c]
    BY DEF IInv, QuietWhileOpen, BeginsRecovery
  <2>2. task[r][c].age \in 0..Timeout /\ sinceFailure[c] \in Int
    <3>1. task[r][c] \in [status : Results \union {"idle", "running"}, age : 0..Timeout]
          /\ sinceFailure[c] \in 0..Recovery
      BY DEF IInv, TypeOK, CircuitTypeOK
    <3>2. QED
      BY <3>1
  <2>3. IsOpen(c)
    BY <2>1, <2>2, Constants DEF IsOpen
  <2>4. ASSUME NEW q \in Requests, StartChecks(q) PROVE FALSE
    BY <2>3, <2>4 DEF StartChecks, AskIsOpen, BeginsRecovery
  <2>5. ASSUME NEW q \in Requests, NEW d \in Checks, NEW s, Complete(q, d, s) PROVE FALSE
    BY <2>5 DEF Complete, RecordSuccess, RecordFailure, BeginsRecovery, IInv, TypeOK, CircuitTypeOK
  <2>6. QED
    BY <2>4, <2>5 DEF Next, PollCached, Poll, Answer, TimeOut, Finish, Change, Tick,
                      CircuitTick, circuitVars, BeginsRecovery
<1>2. QED
  BY <1>1, Invariance, PTL DEF Spec, RecoveryStartsClean
-----------------------------------------------------------------------------
(* The cache. *)

\* Only the end of a round and an answer from the cache touch what is cached or reported.
LEMMA NextCacheServes ==
    ASSUME IInv, CacheServesARound, [Next]_vars
    PROVE  CacheServesARound'
<1>1. lastReport \in [Endpoints -> [Checks -> Results \union {"none"}]]
  BY DEF IInv, TypeOK
<1>2. ASSUME UNCHANGED <<lastResults, lastReport>> PROVE CacheServesARound'
  BY <1>2 DEF CacheServesARound, CachedReport
<1>3. ASSUME NEW r \in Requests, NEW k \in Endpoints, PollCached(r, k) PROVE CacheServesARound'
  BY <1>1, <1>3 DEF CacheServesARound, CachedReport, PollCached
<1>4. ASSUME NEW r \in Requests, Finish(r) PROVE CacheServesARound'
  <2> SUFFICES ASSUME NEW k \in Endpoints PROVE lastReport'[k] = CachedReport(k)'
    BY DEF CacheServesARound
  <2>1. lastResults' = [c \in Checks |-> IF c \in Ran(r) THEN task[r][c].status ELSE lastResults[c]]
    BY <1>4 DEF Finish
  <2>2. CASE kind[r] = k
    <3>1. lastReport'[k] = [c \in Checks |-> IF c \in Ran(r) THEN task[r][c].status ELSE "none"]
      BY <1>1, <1>4, <2>2 DEF Finish
    <3>2. QED
      BY <2>1, <2>2, <3>1 DEF CachedReport, Ran
  <2>3. CASE kind[r] # k
    <3>1. lastReport'[k] = lastReport[k]
      BY <1>1, <1>4, <2>3 DEF Finish
    <3>2. lastReport[k] = CachedReport(k)
      BY DEF CacheServesARound
    <3>3. QED
      BY <2>1, <2>3, <3>1, <3>2 DEF CachedReport, Ran
  <2>4. QED
    BY <2>2, <2>3
<1>5. QED
  BY <1>2, <1>3, <1>4 DEF Next, Poll, StartChecks, Answer, TimeOut, Complete, Change, Tick,
                          vars, healthVars

\* For checks and endpoints of any types and any number of requests at a time: what an
\* endpoint would be answered from the cache is what it was answered last.
THEOREM CachedRounds == Spec => []CacheServesARound
<1>1. Init => CacheServesARound
  BY DEF Init, CacheServesARound, CachedReport
<1>2. IInv /\ CacheServesARound /\ [Next]_vars => CacheServesARound'
  BY NextCacheServes
<1>3. QED
  BY <1>1, <1>2, Invariance, PTL DEF Spec
=============================================================================
