---------------------------- MODULE HealthChecker ----------------------------
(***************************************************************************)
(* HealthChecker (common/health.py) behind /ready, /live and /startup of   *)
(* main.py.  A request is served from the shared cache or runs the checks  *)
(* of its type in parallel, each guarded by the circuit breaker; requests  *)
(* interleave at their awaits, all other code runs to completion on the    *)
(* event loop.                                                             *)
(*                                                                         *)
(* Time is counted in ticks and appears as ages only.  The loop is fast    *)
(* against a tick: what is runnable now runs before time passes.           *)
(***************************************************************************)
EXTENDS CircuitBreaker

CONSTANTS
    Requests,       \* requests in progress at once
    CheckType,      \* _check_types
    Endpoints,      \* types polled: "readiness", "liveness", "startup"
    CacheTTL,       \* _cache_ttl
    Timeout,        \* of wait_for in _run_single_check
    Conditions      \* what a check function can find when it is run

Results == {"healthy", "degraded", "unhealthy", "unknown"}

ASSUME HealthAssumption ==
    /\ CheckType \in [Checks -> {"readiness", "liveness", "startup"}]
    /\ Endpoints \subseteq {"readiness", "liveness", "startup"}
    /\ CacheTTL \in Nat \ {0}
    /\ Timeout \in Nat \ {0}
    /\ Timeout < Recovery               \* 5.0 and 30.0 seconds
    /\ Conditions \subseteq Results \union {"silent"}

VARIABLES
    condition,      \* what the function of a check would return now; "silent": nothing
    pc,             \* "idle", "starting" (the gather is scheduled) or "gathering"
    kind,           \* check_type of the request
    task,           \* request -> check -> status, and age while it is running
    lastResults,    \* check -> status in _last_results, "none" where there is no entry
    sinceCheck,     \* age of _last_check_time, saturated at CacheTTL (as is None)
    lastReport      \* endpoint -> check -> status in its latest report, "none" if not in it

healthVars == <<condition, pc, kind, task, lastResults, sinceCheck, lastReport>>
vars == <<circuitVars, healthVars>>

Idle == [status |-> "idle", age |-> 0]

Running(r, c) == task[r][c].status = "running"
Ran(r) == {c \in Checks : CheckType[c] = kind[r]}
Gathered(r) == pc[r] = "gathering" /\ \A c \in Checks : ~Running(r, c)

Init ==
    /\ CircuitInit
    /\ condition \in [Checks -> Conditions]
    /\ pc = [r \in Requests |-> "idle"]
    /\ kind = [r \in Requests |-> "readiness"]
    /\ task = [r \in Requests |-> [c \in Checks |-> Idle]]
    /\ lastResults = [c \in Checks |-> "none"]
    /\ sinceCheck = CacheTTL
    /\ lastReport = [k \in Endpoints |-> [c \in Checks |-> "none"]]

-----------------------------------------------------------------------------

\* _build_report: the overall status of a report.
Overall(report) ==
    LET statuses == {report[c] : c \in Checks} \ {"none"}
    IN CASE statuses = {} -> "unknown"
         [] "unhealthy" \in statuses -> "unhealthy"
         [] "unhealthy" \notin statuses /\ "degraded" \in statuses -> "degraded"
         [] OTHER -> "healthy"

CacheHit(k) == k # "startup" /\ sinceCheck < CacheTTL

CachedReport(k) == [c \in Checks |-> IF CheckType[c] = k THEN lastResults[c] ELSE "none"]

\* run_checks up to its first await, when the cache is fresh.
PollCached(r, k) ==
    /\ pc[r] = "idle"
    /\ CacheHit(k)
    /\ lastReport' = [lastReport EXCEPT ![k] = CachedReport(k)]
    /\ UNCHANGED <<circuitVars, condition, pc, kind, task, lastResults, sinceCheck>>

\* run_checks up to the gather.
Poll(r, k) ==
    /\ pc[r] = "idle"
    /\ ~CacheHit(k)
    /\ pc' = [pc EXCEPT ![r] = "starting"]
    /\ kind' = [kind EXCEPT ![r] = k]
    /\ UNCHANGED <<circuitVars, condition, task, lastResults, sinceCheck, lastReport>>

\* The tasks of the gather start one after the other, each up to its first await.
StartChecks(r) ==
    /\ pc[r] = "starting"
    /\ AskIsOpen(Ran(r))
    /\ task' = [task EXCEPT ![r] = [c \in Checks |->
          IF c \notin Ran(r) THEN Idle
          ELSE [status |-> IF IsOpen(c) THEN "unhealthy" ELSE "running", age |-> 0]]]
    /\ pc' = [pc EXCEPT ![r] = "gathering"]
    /\ UNCHANGED <<condition, kind, lastResults, sinceCheck, lastReport>>

\* Mutant: each result is put into the cache as soon as it is there.
CompleteAtOnce(r, c, s) ==
    /\ task' = [task EXCEPT ![r][c] = [status |-> s, age |-> 0]]
    /\ lastResults' = [lastResults EXCEPT ![c] = s]
    /\ IF s = "healthy" THEN RecordSuccess(c) ELSE RecordFailure(c)
    /\ UNCHANGED <<condition, pc, kind, sinceCheck, lastReport>>

\* _run_single_check resumes with the result s and records it.
Complete(r, c, s) ==
    /\ task' = [task EXCEPT ![r][c] = [status |-> s, age |-> 0]]
    /\ IF s = "healthy" THEN RecordSuccess(c) ELSE RecordFailure(c)
    /\ UNCHANGED <<condition, pc, kind, lastResults, sinceCheck, lastReport>>

\* The check function returns, or raises ("unhealthy").
Answer(r, c) ==
    /\ Running(r, c)
    /\ condition[c] # "silent"
    /\ Complete(r, c, condition[c])

\* wait_for gives up.
TimeOut(r, c) ==
    /\ Running(r, c)
    /\ task[r][c].age = Timeout
    /\ Complete(r, c, "unhealthy")

\* run_checks resumes after the gather, fills the cache and reports.
Finish(r) ==
    /\ Gathered(r)
    /\ lastResults' = [c \in Checks |-> IF c \in Ran(r) THEN task[r][c].status ELSE lastResults[c]]
    /\ sinceCheck' = 0
    /\ lastReport' = [lastReport EXCEPT ![kind[r]] =
          [c \in Checks |-> IF c \in Ran(r) THEN task[r][c].status ELSE "none"]]
    /\ task' = [task EXCEPT ![r] = [c \in Checks |-> Idle]]
    /\ pc' = [pc EXCEPT ![r] = "idle"]
    /\ UNCHANGED <<circuitVars, condition, kind>>

\* The outside world changes.
Change(c) ==
    /\ \E s \in Conditions : condition' = [condition EXCEPT ![c] = s]
    /\ UNCHANGED <<circuitVars, pc, kind, task, lastResults, sinceCheck, lastReport>>

\* A check function that is not silent answers before its timeout; what is
\* runnable runs before time passes.
MayWait(r, c) ==
    Running(r, c) => task[r][c].age < IF condition[c] = "silent" THEN Timeout ELSE Timeout - 1

Tick ==
    /\ \A r \in Requests :
          /\ pc[r] # "starting" /\ ~Gathered(r)
          /\ \A c \in Checks : MayWait(r, c)
    /\ CircuitTick
    /\ task' = [r \in Requests |-> [c \in Checks |->
          IF Running(r, c) THEN [task[r][c] EXCEPT !.age = @ + 1] ELSE task[r][c]]]
    /\ sinceCheck' = AtMost(CacheTTL, sinceCheck + 1)
    /\ UNCHANGED <<condition, pc, kind, lastResults, lastReport>>

Next ==
    \/ \E r \in Requests, k \in Endpoints : PollCached(r, k) \/ Poll(r, k)
    \/ \E r \in Requests : StartChecks(r) \/ Finish(r)
    \/ \E r \in Requests, c \in Checks : Answer(r, c) \/ TimeOut(r, c)
    \/ \E c \in Checks : Change(c)
    \/ Tick

Spec == Init /\ [][Next]_vars

\* The event loop runs what is runnable, time passes, and the endpoints are polled
\* for ever.
FairSpec ==
    /\ Spec
    /\ WF_vars(Tick)
    /\ \A r \in Requests : WF_vars(StartChecks(r)) /\ WF_vars(Finish(r))
    /\ \A r \in Requests, c \in Checks : WF_vars(Answer(r, c)) /\ WF_vars(TimeOut(r, c))
    /\ \A k \in Endpoints : WF_vars(\E r \in Requests : PollCached(r, k) \/ Poll(r, k))

-----------------------------------------------------------------------------

TypeOK ==
    /\ CircuitTypeOK
    /\ condition \in [Checks -> Conditions]
    /\ pc \in [Requests -> {"idle", "starting", "gathering"}]
    /\ kind \in [Requests -> {"readiness", "liveness", "startup"}]
    /\ task \in [Requests -> [Checks -> [status : Results \union {"idle", "running"}, age : 0..Timeout]]]
    /\ lastResults \in [Checks -> Results \union {"none"}]
    /\ sinceCheck \in 0..CacheTTL
    /\ lastReport \in [Endpoints -> [Checks -> Results \union {"none"}]]

\* Every request in progress runs its own checks and no others.
TasksBelongToRequests ==
    \A r \in Requests, c \in Checks :
        (task[r][c].status = "idle") = (pc[r] # "gathering" \/ c \notin Ran(r))

\* A half-open circuit is being tested: some request is running the check, whose
\* outcome will close or reopen the circuit.  It can never be stuck half-open.
HalfOpenIsTested ==
    \A c \in Checks : circuit[c] = "half-open" => \E r \in Requests : Running(r, c)

\* While the circuit is open, no check is running that began after the last failure.
QuietWhileOpen ==
    \A r \in Requests, c \in Checks :
        circuit[c] = "open" /\ Running(r, c) => task[r][c].age >= sinceFailure[c]

\* "use_cache: Use cached results if fresh" (run_checks), as far as it goes with several
\* types behind one timestamp: what an endpoint would be answered from the cache is its
\* latest answer, check by check, however rounds of its own and of other types overlap.
\* How long ago the checks found that is another matter: see OutageIsReported.
CacheServesARound == \A k \in Endpoints : lastReport[k] = CachedReport(k)

\* The inductive invariant.
IInv ==
    /\ TypeOK
    /\ TasksBelongToRequests
    /\ CircuitMatchesFailures
    /\ HalfOpenIsTested
    /\ QuietWhileOpen

\* A circuit half-opens only when every check of the outage has come to its end,
\* so what closes or reopens it is the outcome of a check begun after recovery.
BeginsRecovery(c) == circuit[c] = "open" /\ circuit'[c] = "half-open"
EveryRecoveryIsClean ==
    \A c \in Checks : BeginsRecovery(c) => \A r \in Requests : ~Running(r, c)
RecoveryStartsClean == [][EveryRecoveryIsClean]_vars


\* "Readiness: Is the service ready to accept traffic?": a readiness check that
\* finds its dependency down for good makes /ready say so.
OutageIsReported ==
    \A c \in Checks : CheckType[c] = "readiness" =>
        (<>[](condition[c] = "unhealthy") => <>(Overall(lastReport["readiness"]) = "unhealthy"))
=============================================================================
