------------------------------ MODULE Retraining ------------------------------
(***************************************************************************)
(* The DAG demand_forecast_retraining, the training jobs of the API, and   *)
(* the registry that serves what either of them writes.                    *)
(*                                                                         *)
(* Models are told apart by the run or the job that trained them.  start   *)
(* and end, which do nothing, are left out; one run is active at a time    *)
(* (max_active_runs).                                                      *)
(***************************************************************************)
EXTENDS ModelRegistry, FiniteSets

CONSTANTS
    MaxTries,   \* attempts of a task, 1 + retries
    Flaky,      \* bound: tasks whose attempts may fail
    MaxRuns,    \* bound: runs of the DAG
    MaxJobs     \* bound: jobs triggered at the API

Python == {"extract_data", "validate_data", "train_model", "evaluate_model", "deploy_model",
           "notify_success", "notify_failure", "cleanup"}
Tasks == Python \union {"skip_training", "skip_deployment"}

ASSUME RetrainingAssumption ==
    /\ Writers = {"dag", "server"}
    /\ MaxTries \in Nat \ {0}
    /\ Flaky \subseteq Python
    /\ MaxRuns \in Nat
    /\ MaxJobs \in Nat

Upstream(t) ==
    CASE t = "extract_data" -> {}
      [] t = "validate_data" -> {"extract_data"}
      [] t \in {"train_model", "skip_training"} -> {"validate_data"}
      [] t = "evaluate_model" -> {"train_model"}
      [] t \in {"deploy_model", "skip_deployment"} -> {"evaluate_model"}
      [] t = "notify_success" -> {"deploy_model", "skip_deployment"}
      [] t = "notify_failure" -> {"skip_training"}
      [] t = "cleanup" -> {"notify_success", "notify_failure"}

Settled == {"success", "failed", "upstream_failed", "skipped"}
Failed == {"failed", "upstream_failed"}

VARIABLES
    taskState,  \* task -> its state in the current run
    tries,      \* task -> attempts so far
    step,       \* how far the running task has come with its files
    dataset,    \* the run's file of training data: "none", "good", "poor" or "removed"
    trained,    \* training_result: the model of a completed training, if any
    production, \* demand_lightgbm_production.joblib: state and version
    backup,     \* the version that was last backed up, if any
    runs,       \* runs so far
    job,        \* the training job of the server
    jobs        \* jobs so far

dagVars == <<taskState, tries, step, dataset, trained, production, backup, runs>>
jobVars == <<job, jobs>>
vars == <<fileVars, loads, registryVars, dagVars, jobVars>>

ModelOfRun == runs
ModelOfJob == MaxRuns + jobs

Init ==
    /\ RegistryInit
    /\ taskState = [t \in Tasks |-> "skipped"]
    /\ tries = [t \in Tasks |-> 0]
    /\ step = "start"
    /\ dataset = "none"
    /\ trained = Baseline
    /\ production = [state |-> "absent", version |-> Baseline]
    /\ backup = Baseline
    /\ runs = 0
    /\ job = "none"
    /\ jobs = 0

-----------------------------------------------------------------------------
(* The scheduler. *)

StartRun ==
    /\ runs < MaxRuns
    /\ \A t \in Tasks : taskState[t] \in Settled
    /\ runs' = runs + 1
    /\ taskState' = [t \in Tasks |-> "none"]
    /\ tries' = [t \in Tasks |-> 0]
    /\ dataset' = "none"
    /\ trained' = Baseline
    /\ UNCHANGED <<fileVars, loads, registryVars, step, production, backup, jobVars>>

AllSuccess(states) ==
    CASE states \intersect Failed # {} -> "upstream_failed"
      [] states \intersect Failed = {} /\ "skipped" \in states -> "skipped"
      [] states \subseteq {"success"} -> "running"
      [] OTHER -> "none"

OneSuccess(states) ==
    CASE "success" \in states -> "running"
      [] states \subseteq {"skipped"} -> "skipped"
      [] states \subseteq Settled \ {"success"} /\ states \intersect Failed # {} -> "upstream_failed"
      [] OTHER -> "none"

OneFailed(states) ==
    CASE states \intersect Failed # {} -> "running"
      [] states \subseteq Settled \ Failed -> "skipped"
      [] OTHER -> "none"

AllDone(states) == IF states \subseteq Settled THEN "running" ELSE "none"

\* Mutant: the notice is sent when everything before it is done.
RuleNotifyingAlways(t) ==
    CASE t \in {"cleanup", "notify_success"} -> AllDone({taskState[u] : u \in Upstream(t)})
      [] t = "notify_failure" -> OneFailed({taskState[u] : u \in Upstream(t)})
      [] OTHER -> AllSuccess({taskState[u] : u \in Upstream(t)})

\* Mutant: the clean-up waits for one of the notices only.
RuleCleaningEarly(t) ==
    CASE t = "notify_success" -> OneSuccess({taskState[u] : u \in Upstream(t)})
      [] t = "notify_failure" -> OneFailed({taskState[u] : u \in Upstream(t)})
      [] t = "cleanup" -> AllDone({taskState["notify_failure"]})
      [] OTHER -> AllSuccess({taskState[u] : u \in Upstream(t)})

\* What the trigger rule of a task makes of it: "none" is to wait.
Rule(t) ==
    CASE t = "notify_success" -> OneSuccess({taskState[u] : u \in Upstream(t)})
      [] t = "notify_failure" -> OneFailed({taskState[u] : u \in Upstream(t)})
      [] t = "cleanup" -> AllDone({taskState[u] : u \in Upstream(t)})
      [] OTHER -> AllSuccess({taskState[u] : u \in Upstream(t)})

\* An EmptyOperator succeeds when it is reached.
Reached(t) == IF Rule(t) = "running" /\ t \notin Python THEN "success" ELSE Rule(t)

Schedule(t) ==
    /\ taskState[t] = "none" /\ Rule(t) # "none"
    /\ taskState' = [taskState EXCEPT ![t] = Reached(t)]
    /\ tries' = [tries EXCEPT ![t] = 1]
    /\ step' = "start"
    /\ UNCHANGED <<fileVars, loads, registryVars, dataset, trained, production, backup, runs, jobVars>>

Running(t) == taskState[t] = "running"
Succeed(t) == taskState' = [taskState EXCEPT ![t] = "success"]

\* A branch skips what it does not choose.
Branch(t, skipped) == taskState' = [taskState EXCEPT ![t] = "success", ![skipped] = "skipped"]

\* Mutant: attempts are not counted.
FailUncounted(t) ==
    /\ t \in Flaky /\ Running(t)
    /\ IF tries[t] < MaxTries
       THEN UNCHANGED <<tries, taskState>>
       ELSE taskState' = [taskState EXCEPT ![t] = "failed"] /\ UNCHANGED tries
    /\ Abandoned("dag")
    /\ step' = "start"
    /\ UNCHANGED <<loads, registryVars, dataset, trained, production, backup, runs, jobVars>>

\* The attempt raises, or its worker dies, wherever it is; the next starts over.
Fail(t) ==
    /\ t \in Flaky /\ Running(t)
    /\ IF tries[t] < MaxTries
       THEN tries' = [tries EXCEPT ![t] = @ + 1] /\ UNCHANGED taskState
       ELSE taskState' = [taskState EXCEPT ![t] = "failed"] /\ UNCHANGED tries
    /\ Abandoned("dag")
    /\ step' = "start"
    /\ UNCHANGED <<loads, registryVars, dataset, trained, production, backup, runs, jobVars>>

-----------------------------------------------------------------------------
(* The tasks. *)

Extract ==
    /\ Running("extract_data")
    /\ \E quality \in {"good", "poor"} : dataset' = quality
    /\ Succeed("extract_data")
    /\ UNCHANGED <<fileVars, loads, registryVars, tries, step, trained, production, backup, runs, jobVars>>

Validate ==
    /\ Running("validate_data")
    /\ Branch("validate_data", IF dataset = "good" THEN "skip_training" ELSE "train_model")
    /\ UNCHANGED <<fileVars, loads, registryVars, tries, step, dataset, trained, production, backup, runs, jobVars>>

\* _save_model, after fitting and testing: the file with the timestamp, of which the
\* result tells, is complete when that of the latest model is begun.
TrainSave ==
    /\ Running("train_model") /\ step = "start"
    /\ BeginWrite("dag")
    /\ step' = "latest"
    /\ UNCHANGED <<loads, taskState, tries, dataset, trained, production, backup, runs, jobVars>>

TrainSaved ==
    /\ Running("train_model") /\ step = "latest"
    /\ EndWrite("dag", ModelOfRun)
    /\ step' = "done"
    /\ UNCHANGED <<loads, taskState, tries, dataset, trained, production, backup, runs, jobVars>>

Trained ==
    /\ Running("train_model") /\ step = "done"
    /\ trained' = ModelOfRun
    /\ Succeed("train_model")
    /\ UNCHANGED <<fileVars, loads, registryVars, tries, step, dataset, production, backup, runs, jobVars>>

\* In percent of the new model's error and of the production model's.
ImprovementThreshold == 5

\* Mutant: the production model is taken to be ten percent worse.
ProdMaeOfTen == 110

\* "Placeholder - in production would evaluate prod model".
ProdMae == 102

Improves == 100 * (ProdMae - 100) >= ImprovementThreshold * ProdMae

Evaluate ==
    /\ Running("evaluate_model")
    /\ Branch("evaluate_model",
              IF trained # Baseline /\ (production.state = "absent" \/ Improves)
              THEN "skip_deployment" ELSE "deploy_model")
    /\ UNCHANGED <<fileVars, loads, registryVars, tries, step, dataset, trained, production, backup, runs, jobVars>>

\* A production file that is there is backed up first, by each attempt.
DeployBackup ==
    /\ Running("deploy_model") /\ step = "start"
    /\ backup' = IF production.state = "absent" THEN backup ELSE production.version
    /\ production' = [state |-> "torn", version |-> trained]
    /\ step' = "copying"
    /\ UNCHANGED <<fileVars, loads, registryVars, taskState, tries, dataset, trained, runs, jobVars>>

DeployCopied ==
    /\ Running("deploy_model") /\ step = "copying"
    /\ production' = [production EXCEPT !.state = "whole"]
    /\ step' = "copied"
    /\ UNCHANGED <<fileVars, loads, registryVars, taskState, tries, dataset, trained, backup, runs, jobVars>>

DeployLatest ==
    /\ Running("deploy_model") /\ step = "copied"
    /\ BeginWrite("dag")
    /\ step' = "latest"
    /\ UNCHANGED <<loads, taskState, tries, dataset, trained, production, backup, runs, jobVars>>

Deployed ==
    /\ Running("deploy_model") /\ step = "latest"
    /\ EndWrite("dag", trained)
    /\ Succeed("deploy_model")
    /\ step' = "done"
    /\ UNCHANGED <<loads, tries, dataset, trained, production, backup, runs, jobVars>>

Notify(t) ==
    /\ t \in {"notify_success", "notify_failure"} /\ Running(t)
    /\ Succeed(t)
    /\ UNCHANGED <<fileVars, loads, registryVars, tries, step, dataset, trained, production, backup, runs, jobVars>>

\* What extract_data has not announced is not removed.
Cleanup ==
    /\ Running("cleanup")
    /\ dataset' = IF taskState["extract_data"] = "success" THEN "removed" ELSE dataset
    /\ Succeed("cleanup")
    /\ UNCHANGED <<fileVars, loads, registryVars, tries, step, trained, production, backup, runs, jobVars>>

DagStep ==
    \/ \E t \in Tasks : Schedule(t) \/ Fail(t) \/ Notify(t)
    \/ Extract \/ Validate \/ TrainSave \/ TrainSaved \/ Trained \/ Evaluate
    \/ DeployBackup \/ DeployCopied \/ DeployLatest \/ Deployed
    \/ Cleanup

-----------------------------------------------------------------------------
(* The server: one event loop, which runs get_model and the synchronous part of a *)
(* training job one after the other. *)

TriggerTraining ==
    /\ job = "none" /\ jobs < MaxJobs
    /\ job' = "extracting"
    /\ jobs' = jobs + 1
    /\ UNCHANGED <<fileVars, loads, registryVars, dagVars>>

JobSave ==
    /\ job = "extracting" /\ reader.pc # "load"
    /\ BeginWrite("server")
    /\ job' = "saving"
    /\ UNCHANGED <<loads, dagVars, jobs>>

JobSaved ==
    /\ job = "saving"
    /\ EndWrite("server", ModelOfJob)
    /\ job' = "none"
    /\ UNCHANGED <<loads, dagVars, jobs>>

\* _run_training logs the exception and forgets it.
JobFails ==
    /\ job # "none"
    /\ job' = "none"
    /\ Abandoned("server")
    /\ UNCHANGED <<loads, registryVars, dagVars, jobs>>

Predict ==
    /\ job # "saving"
    /\ GetModel \/ Respond
    /\ UNCHANGED <<fileVars, loads, dagVars, jobVars>>

RestartServer ==
    /\ job' = "none"
    /\ Abandoned("server")
    /\ RestartRegistry
    /\ UNCHANGED <<loads, dagVars, jobs>>

Next ==
    \/ StartRun
    \/ DagStep
    \/ TriggerTraining \/ JobSave \/ JobSaved \/ JobFails
    \/ Predict
    \/ RestartServer

Spec == Init /\ [][Next]_vars

\* The scheduler keeps scheduling, and every attempt of a task ends
\* (execution_timeout).
FairSpec == Spec /\ WF_vars(DagStep)

-----------------------------------------------------------------------------

Models == 0..(MaxRuns + MaxJobs)

TypeOK ==
    /\ latest \in [state : {"absent", "torn", "whole"}, version : Models]
    /\ writing \in [Writers -> {"no", "alone", "mixed"}]
    /\ loads \in BOOLEAN
    /\ cached \in SUBSET [version : Models, current : BOOLEAN]
    /\ reader \in [pc : {"idle", "load", "answered"}, current : BOOLEAN, version : Models]
    /\ taskState \in [Tasks -> Settled \union {"none", "running"}]
    /\ tries \in [Tasks -> 0..MaxTries]
    /\ step \in {"start", "copying", "copied", "latest", "done"}
    /\ dataset \in {"none", "good", "poor", "removed"}
    /\ trained \in 0..MaxRuns
    /\ production \in [state : {"absent", "torn", "whole"}, version : 0..MaxRuns]
    /\ backup \in 0..MaxRuns
    /\ runs \in 0..MaxRuns
    /\ job \in {"none", "extracting", "saving"}
    /\ jobs \in 0..MaxJobs

\* A task was started, and has or has not come to its end.
Started(t) == taskState[t] \in {"running", "success", "failed"}

\* A task with one task before it starts after that one's success, and is settled
\* no sooner than that one.
Follows(t, u) ==
    /\ Started(t) => taskState[u] = "success"
    /\ taskState[t] = "upstream_failed" => taskState[u] \in Failed
    /\ taskState[t] # "none" => taskState[u] \in Settled

\* What the rules make of the graph: a notice is started by the success, or the
\* failure, that is its reason, and the clean-up after both notices.
TasksFollowUpstream ==
    /\ taskState["extract_data"] # "upstream_failed"
    /\ \A t \in Tasks \ Python : taskState[t] \notin {"running", "failed"}
    /\ \A t \in Tasks \ {"notify_success", "notify_failure", "cleanup"} :
          \A u \in Upstream(t) : Follows(t, u)
    /\ Started("notify_success") => "success" \in {taskState["deploy_model"], taskState["skip_deployment"]}
    /\ Started("notify_failure") => taskState["skip_training"] \in Failed
    /\ taskState["notify_success"] # "none" => taskState["evaluate_model"] \in Settled
    /\ Started("cleanup") => taskState["notify_success"] # "none"
    /\ taskState["train_model"] = "success" => trained = ModelOfRun

\* Only a model that is the first, or a retry of its deployment, is deployed, and
\* "Backup current production model" backs up nothing but that model itself.
DeploysTheFirst ==
    /\ taskState["evaluate_model"] = "success" /\ taskState["deploy_model"] \in {"none", "running"} =>
          production.state = "absent" \/ production.version = trained
    /\ backup # Baseline => production.state # "absent" /\ backup = production.version
    /\ step = "copying" => production.state # "absent"

\* The inductive invariant.
IInv ==
    /\ TypeOK
    /\ CacheMatchesFile
    /\ AnswersFollowFile
    /\ TasksFollowUpstream
    /\ DeploysTheFirst
    /\ dataset = "removed" => taskState["notify_success"] # "none"

\* "Send success notification" and "Send failure notification": success is reported
\* only of a model that was trained and evaluated and whose deployment did not fail,
\* failure only when the data could not be extracted or validated, and never both.
\* (No notice reports data that was rejected, nor a training or a deployment that
\* failed.)
NoticesAreTrue ==
    /\ Started("notify_success") =>
          /\ trained = ModelOfRun
          /\ taskState["evaluate_model"] = "success"
          /\ "success" \in {taskState["deploy_model"], taskState["skip_deployment"]}
    /\ Started("notify_failure") =>
          /\ "failed" \in {taskState["extract_data"], taskState["validate_data"]}
          /\ ~Started("notify_success")

\* The clean-up takes the data away only when no task is left that reads it.
DataOutlivesItsReaders ==
    dataset = "removed" =>
        \A t \in {"extract_data", "validate_data", "train_model"} : taskState[t] \in Settled

\* "Deploy new model to production": with the placeholder for the error of the
\* production model, the first model that is deployed is never replaced by another,
\* not even when its file was left torn.
FirstIsFinal == production.state # "absent" => production'.version = production.version
FirstDeploymentIsFinal == [][FirstIsFinal]_vars

\* Every run ends, whatever fails.
RunEnded == \A t \in Tasks : taskState[t] \in Settled
EveryRunEnds == ~RunEnded ~> RunEnded
=============================================================================
