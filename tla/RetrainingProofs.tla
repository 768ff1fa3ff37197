--------------------------- MODULE RetrainingProofs ---------------------------
(***************************************************************************)
(* Theorems about Retraining for any number of runs, jobs and attempts,    *)
(* whichever tasks fail: the registry answers with what is in the file,    *)
(* notices tell the truth, data outlives its readers, and the first model  *)
(* that is deployed is the last.                                           *)
(***************************************************************************)
EXTENDS Retraining, TLAPS

LEMMA Constants ==
    /\ Writers = {"dag", "server"}
    /\ MaxTries \in Nat \ {0} /\ MaxRuns \in Nat /\ MaxJobs \in Nat
    /\ Flaky \subseteq Python
    /\ Baseline = 0
    /\ Baseline \in Models /\ Baseline \in 0..MaxRuns
  BY RetrainingAssumption DEF Models, Baseline

\* The types of the file and the registry, and those of the DAG and the jobs.
FileTypeOK ==
    /\ latest \in [state : {"absent", "torn", "whole"}, version : Models]
    /\ writing \in [Writers -> {"no", "alone", "mixed"}]
    /\ loads \in BOOLEAN
    /\ cached \in SUBSET [version : Models, current : BOOLEAN]
    /\ reader \in [pc : {"idle", "load", "answered"}, current : BOOLEAN, version : Models]

RunTypeOK ==
    /\ taskState \in [Tasks -> Settled \union {"none", "running"}]
    /\ tries \in [Tasks -> 0..MaxTries]
    /\ step \in {"start", "copying", "copied", "latest", "done"}
    /\ dataset \in {"none", "good", "poor", "removed"}
    /\ trained \in 0..MaxRuns
    /\ production \in [state : {"absent", "torn", "whole"}, version : 0..MaxRuns]
    /\ backup \in 0..MaxRuns
    /\ runs \in 0..MaxRuns
    /\ job \in {"none", "extracting", "saving"}
    /\ jobs \in 0..MaxJobs

LEMMA Types == TypeOK <=> FileTypeOK /\ RunTypeOK
  BY DEF TypeOK, FileTypeOK, RunTypeOK

\* What any step does to the file and to the registry.
FileStep ==
    \/ UNCHANGED <<fileVars, loads, registryVars>>
    \/ \E w \in Writers : BeginWrite(w) /\ UNCHANGED loads
    \/ \E w \in Writers, version \in Models : EndWrite(w, version) /\ UNCHANGED loads
    \/ \E w \in Writers : Abandoned(w) /\ UNCHANGED <<loads, registryVars>>
    \/ \E w \in Writers : Abandoned(w) /\ RestartRegistry /\ UNCHANGED loads
    \/ (GetModel \/ Respond) /\ UNCHANGED <<fileVars, loads>>

LEMMA StepsOnTheFile == TypeOK /\ [Next]_vars => FileStep
<1> SUFFICES ASSUME TypeOK, [Next]_vars PROVE FileStep
  OBVIOUS
<1>1. /\ "dag" \in Writers /\ "server" \in Writers
      /\ runs \in Models /\ trained \in Models
      /\ job # "none" => MaxRuns + jobs \in Models
  BY Constants DEF TypeOK, Models
<1>2. CASE UNCHANGED vars
  BY <1>2 DEF FileStep, vars
<1>3. CASE StartRun
  BY <1>3 DEF FileStep, StartRun
<1>4. CASE \E t \in Tasks : Schedule(t) \/ Fail(t) \/ Notify(t)
  BY <1>1, <1>4 DEF FileStep, Schedule, Fail, Notify
<1>5. CASE Extract \/ Validate \/ Trained \/ Evaluate \/ DeployBackup \/ DeployCopied \/ Cleanup
  BY <1>5 DEF FileStep, Extract, Validate, Trained, Evaluate, DeployBackup, DeployCopied, Cleanup
<1>6. CASE TrainSave \/ DeployLatest \/ JobSave
  BY <1>1, <1>6 DEF FileStep, TrainSave, DeployLatest, JobSave
<1>7. CASE TrainSaved
  BY <1>1, <1>7 DEF FileStep, TrainSaved, ModelOfRun
<1>8. CASE Deployed
  BY <1>1, <1>8 DEF FileStep, Deployed
<1>9. CASE JobSaved
  BY <1>1, <1>9 DEF FileStep, JobSaved, ModelOfJob
<1>10. CASE JobFails \/ RestartServer \/ TriggerTraining
  BY <1>1, <1>10 DEF FileStep, JobFails, RestartServer, TriggerTraining
<1>11. CASE Predict
  BY <1>11 DEF FileStep, Predict
<1>12. QED
  BY <1>2, <1>3, <1>4, <1>5, <1>6, <1>7, <1>8, <1>9, <1>10, <1>11 DEF Next, DagStep

LEMMA ReaderFields ==
    ASSUME NEW r \in [pc : {"idle", "load", "answered"}, current : BOOLEAN, version : Models],
           NEW current \in BOOLEAN
    PROVE  /\ [r EXCEPT !.current = current] \in
                  [pc : {"idle", "load", "answered"}, current : BOOLEAN, version : Models]
           /\ [r EXCEPT !.current = current].current = current
  OBVIOUS

LEMMA EntryFields ==
    ASSUME NEW entry \in [version : Models, current : BOOLEAN]
    PROVE  /\ [entry EXCEPT !.current = FALSE] \in [version : Models, current : BOOLEAN]
           /\ ~[entry EXCEPT !.current = FALSE].current
  OBVIOUS

\* What is cached and answered follows the file, whoever writes it.
LEMMA RegistryFollows ==
    ASSUME FileTypeOK, CacheMatchesFile, AnswersFollowFile, FileStep
    PROVE  FileTypeOK' /\ CacheMatchesFile' /\ AnswersFollowFile'
<1>1. CASE UNCHANGED <<fileVars, loads, registryVars>>
  BY <1>1 DEF FileTypeOK, CacheMatchesFile, AnswersFollowFile, fileVars, registryVars
<1>2. ASSUME NEW w \in Writers, BeginWrite(w), UNCHANGED loads
      PROVE  FileTypeOK' /\ CacheMatchesFile' /\ AnswersFollowFile'
  <2>1. \A entry \in cached' : entry \in [version : Models, current : BOOLEAN] /\ ~entry.current
    <3>1. cached' = {[entry EXCEPT !.current = FALSE] : entry \in cached}
      BY <1>2 DEF BeginWrite, Touch
    <3>2. \A entry \in cached : entry \in [version : Models, current : BOOLEAN]
      BY DEF FileTypeOK
    <3>3. QED
      BY ONLY <3>1, <3>2, EntryFields
  <2>2. /\ reader' \in [pc : {"idle", "load", "answered"}, current : BOOLEAN, version : Models]
        /\ ~reader'.current
    <3>1. reader' = [reader EXCEPT !.current = FALSE]
      BY <1>2 DEF BeginWrite, Touch
    <3>2. reader \in [pc : {"idle", "load", "answered"}, current : BOOLEAN, version : Models]
      BY DEF FileTypeOK
    <3>3. QED
      BY ONLY <3>1, <3>2, ReaderFields
  <2>3. latest' \in [state : {"absent", "torn", "whole"}, version : Models]
    BY <1>2 DEF BeginWrite, FileTypeOK
  <2>4. writing' \in [Writers -> {"no", "alone", "mixed"}]
    BY <1>2 DEF BeginWrite, FileTypeOK
  <2>5. QED
    BY <1>2, <2>1, <2>2, <2>3, <2>4 DEF FileTypeOK, CacheMatchesFile, AnswersFollowFile
<1>3. ASSUME NEW w \in Writers, NEW version \in Models, EndWrite(w, version), UNCHANGED loads
      PROVE  FileTypeOK' /\ CacheMatchesFile' /\ AnswersFollowFile'
  <2>1. \A entry \in cached' : entry \in [version : Models, current : BOOLEAN] /\ ~entry.current
    <3>1. cached' = {[entry EXCEPT !.current = FALSE] : entry \in cached}
      BY <1>3 DEF EndWrite, Touch
    <3>2. \A entry \in cached : entry \in [version : Models, current : BOOLEAN]
      BY DEF FileTypeOK
    <3>3. QED
      BY ONLY <3>1, <3>2, EntryFields
  <2>2. /\ reader' \in [pc : {"idle", "load", "answered"}, current : BOOLEAN, version : Models]
        /\ ~reader'.current
    <3>1. reader' = [reader EXCEPT !.current = FALSE]
      BY <1>3 DEF EndWrite, Touch
    <3>2. reader \in [pc : {"idle", "load", "answered"}, current : BOOLEAN, version : Models]
      BY DEF FileTypeOK
    <3>3. QED
      BY ONLY <3>1, <3>2, ReaderFields
  <2>3. latest' \in [state : {"absent", "torn", "whole"}, version : Models]
    BY <1>3 DEF EndWrite, FileTypeOK
  <2>4. writing' \in [Writers -> {"no", "alone", "mixed"}]
    BY <1>3 DEF EndWrite, FileTypeOK
  <2>5. QED
    BY <1>3, <2>1, <2>2, <2>3, <2>4 DEF FileTypeOK, CacheMatchesFile, AnswersFollowFile
<1>4. ASSUME NEW w \in Writers, Abandoned(w), UNCHANGED <<loads, registryVars>>
      PROVE  FileTypeOK' /\ CacheMatchesFile' /\ AnswersFollowFile'
  BY <1>4 DEF Abandoned, FileTypeOK, CacheMatchesFile, AnswersFollowFile, registryVars
<1>5. ASSUME NEW w \in Writers, Abandoned(w), RestartRegistry, UNCHANGED loads
      PROVE  FileTypeOK' /\ CacheMatchesFile' /\ AnswersFollowFile'
  BY <1>5, Constants DEF Abandoned, RestartRegistry, Idle, FileTypeOK, CacheMatchesFile, AnswersFollowFile
<1>6. ASSUME GetAbsent \/ GetCached, UNCHANGED <<fileVars, loads>>
      PROVE  FileTypeOK' /\ CacheMatchesFile' /\ AnswersFollowFile'
  <2>1. CacheMatchesFile'
    BY <1>6 DEF GetAbsent, GetCached, CacheMatchesFile, fileVars
  <2>2. CASE GetAbsent
    BY <1>6, <2>1, <2>2, Constants DEF GetAbsent, Answer, FileTypeOK, AnswersFollowFile, fileVars
  <2>3. CASE GetCached
    BY <1>6, <2>1, <2>3 DEF GetCached, Answer, FileTypeOK, AnswersFollowFile, CacheMatchesFile, fileVars
  <2>4. QED
    BY <1>6, <2>2, <2>3
<1>7. ASSUME Stat \/ Respond, UNCHANGED <<fileVars, loads>>
      PROVE  FileTypeOK' /\ CacheMatchesFile' /\ AnswersFollowFile'
  <2>1. CASE Stat
    <3>1. reader' = [reader EXCEPT !.pc = "load", !.current = TRUE]
      BY <2>1 DEF Stat
    <3>2. /\ reader' \in [pc : {"idle", "load", "answered"}, current : BOOLEAN, version : Models]
          /\ reader'.pc = "load"
      BY <3>1 DEF FileTypeOK
    <3>3. QED
      BY <1>7, <2>1, <3>2 DEF Stat, FileTypeOK, CacheMatchesFile, AnswersFollowFile, fileVars
  <2>2. CASE Respond
    BY <1>7, <2>2, Constants DEF Respond, Idle, FileTypeOK, CacheMatchesFile, AnswersFollowFile, fileVars
  <2>3. QED
    BY <1>7, <2>1, <2>2
<1>8. ASSUME Load, UNCHANGED <<fileVars, loads>>
      PROVE  FileTypeOK' /\ CacheMatchesFile' /\ AnswersFollowFile'
  BY <1>8 DEF Load, Answer, FileTypeOK, CacheMatchesFile, AnswersFollowFile, fileVars
<1>9. ASSUME LoadFails, UNCHANGED <<fileVars, loads>>
      PROVE  FileTypeOK' /\ CacheMatchesFile' /\ AnswersFollowFile'
  BY <1>9, Constants DEF LoadFails, Answer, FileTypeOK, CacheMatchesFile, AnswersFollowFile, fileVars
<1>10. QED
  BY <1>1, <1>2, <1>3, <1>4, <1>5, <1>6, <1>7, <1>8, <1>9 DEF FileStep, GetModel

-----------------------------------------------------------------------------

LEMMA TypePreserved == TypeOK /\ [Next]_vars => RunTypeOK'
<1> SUFFICES ASSUME TypeOK, [Next]_vars PROVE RunTypeOK'
  OBVIOUS
<1> USE Constants DEF TypeOK, RunTypeOK
<1>1. CASE UNCHANGED vars
  BY <1>1 DEF vars, dagVars, jobVars
<1>2. CASE StartRun
  BY <1>2 DEF StartRun, jobVars
<1>3. ASSUME NEW t \in Tasks, Schedule(t) PROVE RunTypeOK'
  <2>1. Reached(t) \in Settled \union {"none", "running"}
    <3>1. Rule(t) \in {"upstream_failed", "skipped", "running", "none"}
      BY DEF Rule, AllSuccess, OneSuccess, OneFailed, AllDone
    <3>2. QED
      BY <3>1 DEF Reached, Settled
  <2>2. tries' \in [Tasks -> 0..MaxTries]
    BY <1>3 DEF Schedule
  <2>3. QED
    BY <1>3, <2>1, <2>2 DEF Schedule, jobVars
<1>4. ASSUME NEW t \in Tasks, Fail(t) PROVE RunTypeOK'
  <2>1. tries' \in [Tasks -> 0..MaxTries]
    BY <1>4 DEF Fail
  <2>2. taskState' \in [Tasks -> Settled \union {"none", "running"}]
    BY <1>4 DEF Fail, Settled
  <2>3. QED
    BY <1>4, <2>1, <2>2 DEF Fail, jobVars
<1>5. ASSUME NEW t \in Tasks, Notify(t) PROVE RunTypeOK'
  BY <1>5 DEF Notify, Succeed, Settled, jobVars
<1>6. CASE Extract
  BY <1>6 DEF Extract, Succeed, Settled, jobVars
<1>7. CASE Validate
  BY <1>7 DEF Validate, Branch, Settled, jobVars
<1>8. CASE TrainSave \/ TrainSaved
  BY <1>8 DEF TrainSave, TrainSaved, jobVars
<1>9. CASE Trained
  BY <1>9 DEF Trained, Succeed, Settled, ModelOfRun, jobVars
<1>10. CASE Evaluate
  BY <1>10 DEF Evaluate, Branch, Settled, jobVars
<1>11. CASE DeployBackup
  <2>1. production.version \in 0..MaxRuns
    OBVIOUS
  <2>2. QED
    BY <1>11, <2>1 DEF DeployBackup, jobVars
<1>12. CASE DeployCopied
  BY <1>12 DEF DeployCopied, jobVars
<1>13. CASE DeployLatest
  BY <1>13 DEF DeployLatest, jobVars
<1>14. CASE Deployed
  BY <1>14 DEF Deployed, Succeed, Settled, jobVars
<1>15. CASE Cleanup
  BY <1>15 DEF Cleanup, Succeed, Settled, jobVars
<1>16. CASE TriggerTraining
  BY <1>16 DEF TriggerTraining, dagVars
<1>17. CASE JobSave \/ JobSaved \/ JobFails \/ RestartServer
  BY <1>17 DEF JobSave, JobSaved, JobFails, RestartServer, dagVars
<1>18. CASE Predict
  BY <1>18 DEF Predict, dagVars, jobVars
<1>19. QED
  BY <1>1, <1>2, <1>3, <1>4, <1>5, <1>6, <1>7, <1>8, <1>9, <1>10, <1>11, <1>12, <1>13, <1>14,
     <1>15, <1>16, <1>17, <1>18 DEF Next, DagStep

-----------------------------------------------------------------------------

(* What any step does to the tasks. *)

Moved(t, s) == taskState' = [taskState EXCEPT ![t] = s]

TaskStep ==
    \/ UNCHANGED <<taskState, trained, runs>>
    \/ taskState' = [t \in Tasks |-> "none"]
    \/ \E t \in Tasks :
          /\ taskState[t] = "none" /\ Rule(t) # "none"
          /\ Moved(t, Reached(t)) /\ UNCHANGED <<trained, runs>>
    \/ \E t \in Python, s \in {"success", "failed"} :
          /\ Running(t) /\ Moved(t, s) /\ runs' = runs
          /\ trained' = IF t = "train_model" /\ s = "success" THEN runs ELSE trained
    \/ /\ Running("validate_data")
       /\ \E t \in {"train_model", "skip_training"} : Branch("validate_data", t)
       /\ UNCHANGED <<trained, runs>>
    \/ /\ Running("evaluate_model")
       /\ \E t \in {"deploy_model", "skip_deployment"} : Branch("evaluate_model", t)
       /\ UNCHANGED <<trained, runs>>

LEMMA StepsOfTasks == TypeOK /\ [Next]_vars => TaskStep
<1> SUFFICES ASSUME TypeOK, [Next]_vars PROVE TaskStep
  OBVIOUS
<1>1. CASE UNCHANGED vars
  BY <1>1 DEF TaskStep, vars, dagVars
<1>2. CASE StartRun
  BY <1>2 DEF TaskStep, StartRun
<1>3. ASSUME NEW t \in Tasks, Schedule(t) PROVE TaskStep
  BY <1>3 DEF TaskStep, Schedule, Moved
<1>4. ASSUME NEW t \in Tasks, Fail(t) PROVE TaskStep
  <2>1. t \in Python /\ Running(t) /\ UNCHANGED <<trained, runs>>
    BY <1>4, Constants DEF Fail
  <2>2. taskState' = taskState \/ Moved(t, "failed")
    BY <1>4 DEF Fail, Moved
  <2>3. QED
    BY <2>1, <2>2 DEF TaskStep
<1>5. ASSUME NEW t \in Tasks, Notify(t) PROVE TaskStep
  <2>1. t \in Python /\ t # "train_model"
    BY <1>5 DEF Notify, Python
  <2>2. QED
    BY <1>5, <2>1 DEF TaskStep, Notify, Succeed, Moved
<1>6. CASE Extract \/ Deployed \/ Cleanup
  BY <1>6 DEF TaskStep, Extract, Deployed, Cleanup, Succeed, Moved, Python
<1>7. CASE Validate
  BY <1>7 DEF TaskStep, Validate
<1>8. CASE TrainSave \/ TrainSaved \/ DeployBackup \/ DeployCopied \/ DeployLatest
  BY <1>8 DEF TaskStep, TrainSave, TrainSaved, DeployBackup, DeployCopied, DeployLatest
<1>9. CASE Trained
  BY <1>9 DEF TaskStep, Trained, Succeed, Moved, ModelOfRun, Python
<1>10. CASE Evaluate
  BY <1>10 DEF TaskStep, Evaluate
<1>11. CASE TriggerTraining \/ JobSave \/ JobSaved \/ JobFails \/ RestartServer \/ Predict
  BY <1>11 DEF TaskStep, TriggerTraining, JobSave, JobSaved, JobFails, RestartServer, Predict, dagVars
<1>12. QED
  BY <1>1, <1>2, <1>3, <1>4, <1>5, <1>6, <1>7, <1>8, <1>9, <1>10, <1>11 DEF Next, DagStep

Chained == Tasks \ {"notify_success", "notify_failure", "cleanup"}

\* What the trigger rules let happen.
LEMMA Rules ==
    ASSUME TypeOK
    PROVE  /\ \A t \in Chained : \A u \in Upstream(t) :
                 /\ Rule(t) = "running" => taskState[u] = "success"
                 /\ Rule(t) = "upstream_failed" => taskState[u] \in Failed
                 /\ Rule(t) # "none" => taskState[u] \in Settled
           /\ \A t \in Tasks : Rule(t) \in {"running", "upstream_failed", "skipped", "none"}
           /\ Rule("extract_data") = "running"
           /\ Rule("notify_success") = "running" =>
                 "success" \in {taskState["deploy_model"], taskState["skip_deployment"]}
           /\ Rule("notify_success") # "none" =>
                 taskState["deploy_model"] # "none" \/ taskState["skip_deployment"] # "none"
           /\ Rule("notify_failure") = "running" => taskState["skip_training"] \in Failed
           /\ Rule("cleanup") = "running" => taskState["notify_success"] # "none"
<1>1. ASSUME NEW t \in Chained, NEW u \in Upstream(t)
      PROVE  /\ Rule(t) = "running" => taskState[u] = "success"
             /\ Rule(t) = "upstream_failed" => taskState[u] \in Failed
             /\ Rule(t) # "none" => taskState[u] \in Settled
  <2>1. Upstream(t) = {u}
    BY <1>1 DEF Chained, Upstream, Tasks, Python
  <2>2. Rule(t) = AllSuccess({taskState[u]})
    <3>1. {taskState[x] : x \in Upstream(t)} = {taskState[u]}
      BY <2>1
    <3>2. QED
      BY <1>1, <3>1 DEF Rule, Chained
  <2>3. QED
    BY <2>2 DEF AllSuccess, Settled, Failed
<1>2. ASSUME NEW t \in Tasks
      PROVE  Rule(t) \in {"running", "upstream_failed", "skipped", "none"}
  BY DEF Rule, AllSuccess, OneSuccess, OneFailed, AllDone
<1>3. Rule("extract_data") = "running"
  <2>1. {taskState[x] : x \in Upstream("extract_data")} = {}
    BY DEF Upstream
  <2>2. Rule("extract_data") = AllSuccess({})
    BY <2>1 DEF Rule
  <2>3. QED
    BY <2>2 DEF AllSuccess
<1>4. /\ Rule("notify_success") = "running" =>
            "success" \in {taskState["deploy_model"], taskState["skip_deployment"]}
      /\ Rule("notify_success") # "none" =>
            taskState["deploy_model"] # "none" \/ taskState["skip_deployment"] # "none"
  <2>1. {taskState[x] : x \in Upstream("notify_success")}
          = {taskState["deploy_model"], taskState["skip_deployment"]}
    BY DEF Upstream
  <2>2. Rule("notify_success") = OneSuccess({taskState["deploy_model"], taskState["skip_deployment"]})
    BY <2>1 DEF Rule
  <2>3. QED
    BY <2>2 DEF OneSuccess, Settled
<1>5. Rule("notify_failure") = "running" => taskState["skip_training"] \in Failed
  <2>1. {taskState[x] : x \in Upstream("notify_failure")} = {taskState["skip_training"]}
    BY DEF Upstream
  <2>2. Rule("notify_failure") = OneFailed({taskState["skip_training"]})
    BY <2>1 DEF Rule
  <2>3. QED
    BY <2>2 DEF OneFailed
<1>6. Rule("cleanup") = "running" => taskState["notify_success"] # "none"
  <2>1. {taskState[x] : x \in Upstream("cleanup")}
          = {taskState["notify_success"], taskState["notify_failure"]}
    BY DEF Upstream
  <2>2. Rule("cleanup") = AllDone({taskState["notify_success"], taskState["notify_failure"]})
    BY <2>1 DEF Rule
  <2>3. QED
    BY <2>2 DEF AllDone, Settled
<1>7. QED
  BY <1>1, <1>2, <1>3, <1>4, <1>5, <1>6

LEMMA Graph ==
    /\ \A t \in Tasks : Upstream(t) \subseteq Tasks /\ t \notin Upstream(t)
    /\ "validate_data" \in Upstream("train_model") /\ "validate_data" \in Upstream("skip_training")
    /\ "evaluate_model" \in Upstream("deploy_model") /\ "evaluate_model" \in Upstream("skip_deployment")
    /\ "train_model" \in Upstream("evaluate_model") /\ "extract_data" \in Upstream("validate_data")
    /\ Upstream("extract_data") = {}
  BY DEF Upstream, Tasks, Python

LEMMA ScheduleFollows ==
    ASSUME TypeOK, TasksFollowUpstream, NEW t \in Tasks,
           taskState[t] = "none", Rule(t) # "none",
           Moved(t, Reached(t)), UNCHANGED <<trained, runs>>
    PROVE  TasksFollowUpstream'
<1>1. /\ taskState'[t] = Reached(t) /\ \A x \in Tasks \ {t} : taskState'[x] = taskState[x]
  BY DEF Moved, TypeOK
<1>2. /\ Reached(t) \in {"running", "success", "upstream_failed", "skipped"}
      /\ Reached(t) \in {"running", "success"} => Rule(t) = "running"
      /\ Reached(t) = "upstream_failed" => Rule(t) = "upstream_failed"
      /\ t \in Python => Reached(t) # "success"
      /\ t \notin Python => Reached(t) # "running"
  BY Rules DEF Reached
<1>3. ASSUME NEW x \in Chained, NEW u \in Upstream(x) PROVE Follows(x, u)'
  <2>1. x \in Tasks /\ u \in Tasks /\ u # x
    BY Graph DEF Chained
  <2>2. CASE x = t
    <3>1. taskState'[u] = taskState[u]
      BY <1>1, <2>1, <2>2
    <3>2. QED
      BY <1>1, <1>2, <1>3, <2>2, <3>1, Rules DEF Follows, Started
  <2>3. CASE x # t
    <3>1. taskState'[x] = taskState[x]
      BY <1>1, <2>1, <2>3
    <3>2. Follows(x, u)
      BY <1>3 DEF TasksFollowUpstream, Chained
    <3>3. u = t => taskState[x] = "none"
      BY <3>2 DEF Follows, Settled
    <3>4. u # t => taskState'[u] = taskState[u]
      BY <1>1, <2>1
    <3>5. QED
      BY <3>1, <3>2, <3>3, <3>4 DEF Follows, Started
  <2>4. QED
    BY <2>2, <2>3
<1>4. taskState'["extract_data"] # "upstream_failed"
  BY <1>1, <1>2, Rules DEF TasksFollowUpstream, Tasks, Python
<1>5. \A x \in Tasks \ Python : taskState'[x] \notin {"running", "failed"}
  BY <1>1, <1>2 DEF TasksFollowUpstream
<1>6. Started("notify_success")' =>
          "success" \in {taskState'["deploy_model"], taskState'["skip_deployment"]}
  BY <1>1, <1>2, Rules DEF TasksFollowUpstream, Started, Tasks, Python
<1>7. Started("notify_failure")' => taskState'["skip_training"] \in Failed
  BY <1>1, <1>2, Rules DEF TasksFollowUpstream, Started, Tasks, Python, Failed
<1>8. taskState'["notify_success"] # "none" => taskState'["evaluate_model"] \in Settled
  <2>1. taskState["deploy_model"] # "none" \/ taskState["skip_deployment"] # "none" =>
            taskState["evaluate_model"] \in Settled
    BY Graph DEF TasksFollowUpstream, Follows, Tasks, Python
  <2>2. CASE t = "notify_success"
    BY <1>1, <2>1, <2>2, Rules DEF Tasks, Python
  <2>3. CASE t # "notify_success"
    <3>1. taskState'["notify_success"] = taskState["notify_success"]
      BY <1>1, <2>3 DEF Tasks, Python
    <3>2. taskState["evaluate_model"] \in Settled => taskState'["evaluate_model"] = taskState["evaluate_model"]
      BY <1>1 DEF Tasks, Python, Settled
    <3>3. QED
      BY <3>1, <3>2 DEF TasksFollowUpstream
  <2>4. QED
    BY <2>2, <2>3
<1>9. Started("cleanup")' => taskState'["notify_success"] # "none"
  BY <1>1, <1>2, Rules DEF TasksFollowUpstream, Started, Tasks, Python
<1>10. (taskState["train_model"] = "success" => trained = ModelOfRun)'
  BY <1>1, <1>2 DEF TasksFollowUpstream, ModelOfRun, Tasks, Python
<1>11. QED
  BY <1>3, <1>4, <1>5, <1>6, <1>7, <1>8, <1>9, <1>10 DEF TasksFollowUpstream, Chained

LEMMA MoveFollows ==
    ASSUME TypeOK, TasksFollowUpstream, NEW t \in Python, NEW s \in {"success", "failed"},
           Running(t), Moved(t, s), runs' = runs,
           trained' = IF t = "train_model" /\ s = "success" THEN runs ELSE trained
    PROVE  TasksFollowUpstream'
<1>1. /\ t \in Tasks /\ taskState[t] = "running"
      /\ taskState'[t] = s /\ \A x \in Tasks \ {t} : taskState'[x] = taskState[x]
  BY DEF Moved, Running, TypeOK, Tasks
<1>2. \A x \in Tasks : Started(x)' => Started(x)
  BY <1>1 DEF Started
<1>3. \A x \in Tasks : taskState[x] = "success" => taskState'[x] = "success"
  BY <1>1
<1>4. \A x \in Tasks : taskState[x] \in Settled => taskState'[x] = taskState[x]
  BY <1>1 DEF Settled
<1>5. \A x \in Tasks : taskState'[x] # "none" => taskState[x] # "none"
  BY <1>1
<1>6. \A x \in Tasks : taskState'[x] = "upstream_failed" => taskState[x] = "upstream_failed"
  BY <1>1
<1>7. Failed \subseteq Settled
  BY DEF Failed, Settled
<1>8. ASSUME NEW x \in Chained, NEW u \in Upstream(x) PROVE Follows(x, u)'
  <2>1. x \in Tasks /\ u \in Tasks
    BY Graph DEF Chained
  <2>2. Follows(x, u)
    BY <1>8 DEF TasksFollowUpstream, Chained
  <2>3. QED
    BY <1>2, <1>3, <1>4, <1>5, <1>6, <1>7, <2>1, <2>2 DEF Follows, Started
<1>9. taskState'["extract_data"] # "upstream_failed"
  BY <1>6 DEF TasksFollowUpstream, Tasks, Python
<1>10. \A x \in Tasks \ Python : taskState'[x] \notin {"running", "failed"}
  BY <1>1 DEF TasksFollowUpstream
<1>11. Started("notify_success")' =>
          "success" \in {taskState'["deploy_model"], taskState'["skip_deployment"]}
  BY <1>2, <1>3 DEF TasksFollowUpstream, Tasks, Python
<1>12. Started("notify_failure")' => taskState'["skip_training"] \in Failed
  BY <1>2, <1>4, <1>7 DEF TasksFollowUpstream, Tasks, Python
<1>13. taskState'["notify_success"] # "none" => taskState'["evaluate_model"] \in Settled
  BY <1>4, <1>5 DEF TasksFollowUpstream, Tasks, Python
<1>14. Started("cleanup")' => taskState'["notify_success"] # "none"
  <2>1. taskState["notify_success"] # "none" => taskState'["notify_success"] # "none"
    BY <1>1 DEF Tasks, Python
  <2>2. QED
    BY <1>2, <2>1 DEF TasksFollowUpstream, Tasks, Python
<1>15. (taskState["train_model"] = "success" => trained = ModelOfRun)'
  <2>1. CASE t = "train_model"
    BY <1>1, <2>1 DEF ModelOfRun
  <2>2. CASE t # "train_model"
    BY <1>1, <2>2 DEF TasksFollowUpstream, ModelOfRun, Tasks, Python
  <2>3. QED
    BY <2>1, <2>2
<1>16. QED
  BY <1>8, <1>9, <1>10, <1>11, <1>12, <1>13, <1>14, <1>15 DEF TasksFollowUpstream, Chained

\* A branch settles a task that waited for it.
LEMMA BranchFollows ==
    ASSUME TypeOK, TasksFollowUpstream,
           NEW b \in {"validate_data", "evaluate_model"}, NEW t \in Chained,
           b \in Upstream(t), Running(b), Branch(b, t), UNCHANGED <<trained, runs>>
    PROVE  TasksFollowUpstream'
<1>1. /\ t \in Tasks /\ b \in Tasks /\ t # b /\ taskState[b] = "running"
      /\ taskState'[b] = "success" /\ taskState'[t] = "skipped"
      /\ \A x \in Tasks \ {b, t} : taskState'[x] = taskState[x]
  BY Graph DEF Branch, Running, TypeOK, Tasks, Python, Chained
<1>2. taskState[t] = "none"
  BY <1>1 DEF TasksFollowUpstream, Follows, Chained, Settled
<1>3. \A x \in Tasks : Started(x)' => Started(x)
  BY <1>1 DEF Started
<1>4. \A x \in Tasks : taskState[x] \in Settled => taskState'[x] = taskState[x]
  BY <1>1, <1>2 DEF Settled
<1>5. \A x \in Tasks \ {t} : taskState'[x] # "none" => taskState[x] # "none"
  BY <1>1
<1>6. \A x \in Tasks : taskState'[x] = "upstream_failed" => taskState[x] = "upstream_failed"
  BY <1>1
<1>7. Failed \subseteq Settled /\ "success" \in Settled
  BY DEF Failed, Settled
<1>8. ASSUME NEW x \in Chained, NEW u \in Upstream(x) PROVE Follows(x, u)'
  <2>1. x \in Tasks /\ u \in Tasks
    BY Graph DEF Chained
  <2>2. Follows(x, u)
    BY <1>8 DEF TasksFollowUpstream, Chained
  <2>3. CASE x # t
    BY <1>3, <1>4, <1>5, <1>6, <1>7, <2>1, <2>2, <2>3 DEF Follows, Started
  <2>4. CASE x = t
    <3>1. u = b
      BY <1>8, <2>4 DEF Chained, Upstream, Tasks, Python
    <3>2. QED
      BY <1>1, <1>7, <2>4, <3>1 DEF Follows, Started
  <2>5. QED
    BY <2>3, <2>4
<1>9. taskState'["extract_data"] # "upstream_failed"
  BY <1>6 DEF TasksFollowUpstream, Tasks, Python
<1>10. \A x \in Tasks \ Python : taskState'[x] \notin {"running", "failed"}
  BY <1>1 DEF TasksFollowUpstream
<1>11. Started("notify_success")' =>
          "success" \in {taskState'["deploy_model"], taskState'["skip_deployment"]}
  BY <1>3, <1>4, <1>7 DEF TasksFollowUpstream, Tasks, Python
<1>12. Started("notify_failure")' => taskState'["skip_training"] \in Failed
  BY <1>3, <1>4, <1>7 DEF TasksFollowUpstream, Tasks, Python
<1>13. taskState'["notify_success"] # "none" => taskState'["evaluate_model"] \in Settled
  BY <1>4, <1>5 DEF TasksFollowUpstream, Tasks, Python, Chained
<1>14. Started("cleanup")' => taskState'["notify_success"] # "none"
  <2>1. taskState["notify_success"] # "none" => taskState'["notify_success"] # "none"
    BY <1>1, <1>2 DEF Tasks, Python
  <2>2. QED
    BY <1>3, <2>1 DEF TasksFollowUpstream, Tasks, Python
<1>15. (taskState["train_model"] = "success" => trained = ModelOfRun)'
  <2>1. b # "train_model"
    OBVIOUS
  <2>2. taskState'["train_model"] = "success" => taskState["train_model"] = "success"
    BY <1>1, <2>1 DEF Tasks, Python
  <2>3. QED
    BY <2>2 DEF TasksFollowUpstream, ModelOfRun
<1>16. QED
  BY <1>8, <1>9, <1>10, <1>11, <1>12, <1>13, <1>14, <1>15 DEF TasksFollowUpstream, Chained

LEMMA FollowsPreserved == TypeOK /\ TasksFollowUpstream /\ TaskStep => TasksFollowUpstream'
<1> SUFFICES ASSUME TypeOK, TasksFollowUpstream, TaskStep PROVE TasksFollowUpstream'
  OBVIOUS
<1>1. CASE UNCHANGED <<taskState, trained, runs>>
  BY <1>1 DEF TasksFollowUpstream, Follows, Started, ModelOfRun
<1>2. CASE taskState' = [t \in Tasks |-> "none"]
  <2>1. \A t \in Tasks : taskState'[t] = "none"
    BY <1>2
  <2>2. \A x \in Chained : \A u \in Upstream(x) : Follows(x, u)'
    BY <2>1 DEF Follows, Started, Chained
  <2>3. QED
    BY <2>1, <2>2 DEF TasksFollowUpstream, Chained, Started, Tasks, Python
<1>3. CASE \E t \in Tasks :
              /\ taskState[t] = "none" /\ Rule(t) # "none"
              /\ Moved(t, Reached(t)) /\ UNCHANGED <<trained, runs>>
  BY <1>3, ScheduleFollows
<1>4. CASE \E t \in Python, s \in {"success", "failed"} :
              /\ Running(t) /\ Moved(t, s) /\ runs' = runs
              /\ trained' = IF t = "train_model" /\ s = "success" THEN runs ELSE trained
  BY <1>4, MoveFollows
<1>5. CASE /\ Running("validate_data")
           /\ \E t \in {"train_model", "skip_training"} : Branch("validate_data", t)
           /\ UNCHANGED <<trained, runs>>
  <2>1. \A t \in {"train_model", "skip_training"} : t \in Chained /\ "validate_data" \in Upstream(t)
    BY Graph DEF Chained, Tasks, Python
  <2>2. QED
    BY <1>5, <2>1, BranchFollows
<1>6. CASE /\ Running("evaluate_model")
           /\ \E t \in {"deploy_model", "skip_deployment"} : Branch("evaluate_model", t)
           /\ UNCHANGED <<trained, runs>>
  <2>1. \A t \in {"deploy_model", "skip_deployment"} : t \in Chained /\ "evaluate_model" \in Upstream(t)
    BY Graph DEF Chained, Tasks, Python
  <2>2. QED
    BY <1>6, <2>1, BranchFollows
<1>7. QED
  BY <1>1, <1>2, <1>3, <1>4, <1>5, <1>6 DEF TaskStep

-----------------------------------------------------------------------------

\* A deployment waits or runs that the evaluation decided on.
Deploying == taskState["evaluate_model"] = "success" /\ taskState["deploy_model"] \in {"none", "running"}

LEMMA Deploys ==
    DeploysTheFirst <=>
        /\ Deploying => production.state = "absent" \/ production.version = trained
        /\ backup # Baseline => production.state # "absent" /\ backup = production.version
        /\ step = "copying" => production.state # "absent"
  BY DEF DeploysTheFirst, Deploying

LEMMA DeployingFollows == TypeOK /\ TasksFollowUpstream /\ Running("deploy_model") => Deploying
<1> SUFFICES ASSUME TypeOK, TasksFollowUpstream, Running("deploy_model") PROVE Deploying
  OBVIOUS
<1>1. Follows("deploy_model", "evaluate_model")
  BY Graph DEF TasksFollowUpstream, Tasks, Python
<1>2. QED
  BY <1>1 DEF Follows, Started, Deploying, Running

\* The model is said to be two percent better, and has to be five.
LEMMA NeverBetter == ~Improves
  BY DEF Improves, ImprovementThreshold, ProdMae

LEMMA DeploysPreserved ==
    TypeOK /\ TasksFollowUpstream /\ DeploysTheFirst /\ [Next]_vars => DeploysTheFirst'
<1> SUFFICES ASSUME TypeOK, TasksFollowUpstream, DeploysTheFirst, [Next]_vars PROVE DeploysTheFirst'
  OBVIOUS
<1> USE DEF Deploying
<1>0. "evaluate_model" \in Tasks /\ "deploy_model" \in Tasks /\ "train_model" \in Tasks
  BY DEF Tasks, Python
<1>1. CASE UNCHANGED vars
  BY <1>1 DEF vars, dagVars, DeploysTheFirst
<1>2. CASE StartRun
  BY <1>0, <1>2 DEF StartRun, DeploysTheFirst
<1>3. ASSUME NEW t \in Tasks, Schedule(t) PROVE DeploysTheFirst'
  <2>1. Reached("evaluate_model") # "success"
    BY Rules, <1>0 DEF Reached, Python
  <2>2. Deploying' => Deploying
    BY <1>0, <1>3, <2>1 DEF Schedule, TypeOK
  <2>3. QED
    BY <1>3, <2>2 DEF Schedule, DeploysTheFirst
<1>4. ASSUME NEW t \in Tasks, Fail(t) PROVE DeploysTheFirst'
  <2>1. Deploying' => Deploying
    BY <1>0, <1>4 DEF Fail, TypeOK
  <2>2. QED
    BY <1>4, <2>1 DEF Fail, DeploysTheFirst
<1>5. ASSUME NEW t \in Tasks, Notify(t) PROVE DeploysTheFirst'
  BY <1>0, <1>5 DEF Notify, Succeed, TypeOK, DeploysTheFirst
<1>6. CASE Extract \/ Deployed \/ Cleanup
  <2>1. Deploying' => Deploying
    BY <1>0, <1>6 DEF Extract, Deployed, Cleanup, Succeed, TypeOK
  <2>2. QED
    BY <1>6, <2>1 DEF Extract, Deployed, Cleanup, DeploysTheFirst
<1>7. CASE Validate
  BY <1>0, <1>7 DEF Validate, Branch, TypeOK, DeploysTheFirst
<1>8. CASE TrainSave \/ TrainSaved \/ DeployLatest
  BY <1>8 DEF TrainSave, TrainSaved, DeployLatest, DeploysTheFirst
<1>9. CASE Trained
  <2>1. Follows("evaluate_model", "train_model")
    BY Graph, <1>0 DEF TasksFollowUpstream
  <2>2. taskState["evaluate_model"] # "success"
    BY <1>9, <2>1 DEF Trained, Running, Follows, Started
  <2>3. taskState'["evaluate_model"] # "success"
    BY <1>0, <1>9, <2>2 DEF Trained, Succeed, TypeOK
  <2>4. QED
    BY <1>9, <2>3 DEF Trained, DeploysTheFirst
<1>10. CASE Evaluate
  <2>1. UNCHANGED <<trained, production, backup, step>>
    BY <1>10 DEF Evaluate
  <2>2. CASE trained # Baseline /\ (production.state = "absent" \/ Improves)
    <3>1. production.state = "absent"
      BY <2>2, NeverBetter
    <3>2. QED
      BY <2>1, <3>1 DEF DeploysTheFirst
  <2>3. CASE ~(trained # Baseline /\ (production.state = "absent" \/ Improves))
    <3>1. Branch("evaluate_model", "deploy_model")
      BY <1>10, <2>3 DEF Evaluate
    <3>2. taskState'["deploy_model"] = "skipped"
      BY <1>0, <3>1 DEF Branch, TypeOK
    <3>3. QED
      BY <2>1, <3>2 DEF DeploysTheFirst
  <2>4. QED
    BY <2>2, <2>3
<1>11. CASE DeployBackup
  <2>1. Deploying
    BY <1>11, DeployingFollows DEF DeployBackup
  <2>2. production' = [state |-> "torn", version |-> trained] /\ trained' = trained
    BY <1>11 DEF DeployBackup
  <2>3. backup' = IF production.state = "absent" THEN backup ELSE production.version
    BY <1>11 DEF DeployBackup
  <2>4. backup' # Baseline => backup' = trained
    BY <2>1, <2>3 DEF DeploysTheFirst
  <2>5. QED
    BY <2>2, <2>4 DEF DeploysTheFirst
<1>12. CASE DeployCopied
  <2>1. /\ production' = [production EXCEPT !.state = "whole"]
        /\ UNCHANGED <<taskState, trained, backup>>
    BY <1>12 DEF DeployCopied
  <2>2. /\ production \in [state : {"absent", "torn", "whole"}, version : 0..MaxRuns]
        /\ Deploying
    BY <1>12, DeployingFollows DEF TypeOK, DeployCopied
  <2>3. production'.state = "whole" /\ production'.version = production.version
    BY ONLY <2>1, <2>2
  <2>4. production.state # "absent"
    BY <1>12 DEF DeploysTheFirst, DeployCopied
  <2>5. QED
    BY <2>1, <2>2, <2>3, <2>4 DEF DeploysTheFirst
<1>13. CASE TriggerTraining \/ JobSave \/ JobSaved \/ JobFails \/ RestartServer \/ Predict
  BY <1>13 DEF TriggerTraining, JobSave, JobSaved, JobFails, RestartServer, Predict, dagVars, DeploysTheFirst
<1>14. QED
  BY <1>1, <1>2, <1>3, <1>4, <1>5, <1>6, <1>7, <1>8, <1>9, <1>10, <1>11, <1>12, <1>13 DEF Next, DagStep

-----------------------------------------------------------------------------

DataRemovedLast == dataset = "removed" => taskState["notify_success"] # "none"

LEMMA RemovedPreserved ==
    TypeOK /\ TasksFollowUpstream /\ DataRemovedLast /\ [Next]_vars => DataRemovedLast'
<1> SUFFICES ASSUME TypeOK, TasksFollowUpstream, DataRemovedLast, [Next]_vars PROVE DataRemovedLast'
  OBVIOUS
<1>0. "notify_success" \in Tasks /\ Tasks # {}
  BY DEF Tasks, Python
<1>1. CASE UNCHANGED vars
  BY <1>1 DEF vars, dagVars, DataRemovedLast
<1>2. CASE StartRun
  BY <1>2 DEF StartRun, DataRemovedLast
<1>3. ASSUME NEW t \in Tasks, Schedule(t) PROVE DataRemovedLast'
  <2>1. Reached(t) # "none"
    BY <1>3 DEF Schedule, Reached
  <2>2. QED
    BY <1>0, <1>3, <2>1 DEF Schedule, TypeOK, DataRemovedLast
<1>4. ASSUME NEW t \in Tasks, Fail(t) PROVE DataRemovedLast'
  BY <1>0, <1>4 DEF Fail, TypeOK, DataRemovedLast
<1>5. ASSUME NEW t \in Tasks, Notify(t) PROVE DataRemovedLast'
  BY <1>0, <1>5 DEF Notify, Succeed, TypeOK, DataRemovedLast
<1>6. CASE Extract
  BY <1>6 DEF Extract, DataRemovedLast
<1>7. CASE Validate \/ Evaluate
  BY <1>0, <1>7 DEF Validate, Evaluate, Branch, TypeOK, DataRemovedLast
<1>8. CASE TrainSave \/ TrainSaved \/ DeployBackup \/ DeployCopied \/ DeployLatest
  BY <1>8 DEF TrainSave, TrainSaved, DeployBackup, DeployCopied, DeployLatest, DataRemovedLast
<1>9. CASE Trained \/ Deployed
  BY <1>0, <1>9 DEF Trained, Deployed, Succeed, TypeOK, DataRemovedLast
<1>10. CASE Cleanup
  <2>1. taskState["notify_success"] # "none"
    BY <1>10 DEF Cleanup, TasksFollowUpstream, Started, Running
  <2>2. QED
    BY <1>0, <1>10, <2>1 DEF Cleanup, Succeed, TypeOK, DataRemovedLast
<1>11. CASE TriggerTraining \/ JobSave \/ JobSaved \/ JobFails \/ RestartServer \/ Predict
  BY <1>11 DEF TriggerTraining, JobSave, JobSaved, JobFails, RestartServer, Predict, dagVars, DataRemovedLast
<1>12. QED
  BY <1>1, <1>2, <1>3, <1>4, <1>5, <1>6, <1>7, <1>8, <1>9, <1>10, <1>11 DEF Next, DagStep

LEMMA InitIInv == Init => IInv
<1> SUFFICES ASSUME Init PROVE IInv
  OBVIOUS
<1> USE Constants
<1>1. FileTypeOK
  BY DEF Init, RegistryInit, Idle, FileTypeOK
<1>2. RunTypeOK
  BY DEF Init, RunTypeOK, Settled
<1>3. CacheMatchesFile /\ AnswersFollowFile
  BY DEF Init, RegistryInit, Idle, CacheMatchesFile, AnswersFollowFile
<1>4. TasksFollowUpstream
  <2>1. \A t \in Tasks : taskState[t] = "skipped"
    BY DEF Init
  <2>2. \A t \in Chained : \A u \in Upstream(t) : Follows(t, u)
    BY <2>1, Graph DEF Follows, Started, Settled, Chained
  <2>3. QED
    BY <2>1, <2>2 DEF TasksFollowUpstream, Chained, Started, Settled, Tasks, Python
<1>5. DeploysTheFirst
  BY DEF Init, DeploysTheFirst
<1>6. QED
  BY <1>1, <1>2, <1>3, <1>4, <1>5, Types DEF IInv, Init

\* However runs, jobs and predictions interleave, fail and restart: the cache and
\* the answers follow the file, the tasks follow the graph, and only the first
\* model is deployed.
THEOREM Invariance == Spec => []IInv
<1>1. IInv /\ [Next]_vars => IInv'
  <2> SUFFICES ASSUME IInv, [Next]_vars PROVE IInv'
    OBVIOUS
  <2>1. FileTypeOK' /\ CacheMatchesFile' /\ AnswersFollowFile'
    BY StepsOnTheFile, RegistryFollows, Types DEF IInv
  <2>2. RunTypeOK'
    BY TypePreserved DEF IInv
  <2>3. TypeOK'
    BY <2>1, <2>2 DEF TypeOK, FileTypeOK, RunTypeOK
  <2>4. TasksFollowUpstream'
    BY StepsOfTasks, FollowsPreserved DEF IInv
  <2>5. DeploysTheFirst'
    BY DeploysPreserved DEF IInv
  <2>6. DataRemovedLast'
    BY RemovedPreserved DEF IInv, DataRemovedLast
  <2>7. QED
    BY <2>1, <2>3, <2>4, <2>5, <2>6 DEF IInv, DataRemovedLast
<1>2. QED
  BY InitIInv, <1>1, PTL DEF Spec

\* A prediction is made with the model that is in the file, unless the file has
\* changed since get_model looked at it.
THEOREM FollowedFile == Spec => []AnswersFollowFile
<1>1. IInv => AnswersFollowFile
  BY DEF IInv
<1>2. QED
  BY <1>1, Invariance, PTL

\* Success is reported only of a model trained, evaluated and deployed or rightly
\* left; failure only of an extraction or a validation that failed; never both.
THEOREM TrueNotices == Spec => []NoticesAreTrue
<1>1. IInv => NoticesAreTrue
  <2> SUFFICES ASSUME IInv PROVE NoticesAreTrue
    OBVIOUS
  <2>1. /\ Follows("deploy_model", "evaluate_model") /\ Follows("skip_deployment", "evaluate_model")
        /\ Follows("evaluate_model", "train_model") /\ Follows("train_model", "validate_data")
        /\ Follows("skip_training", "validate_data") /\ Follows("validate_data", "extract_data")
    BY Graph DEF IInv, TasksFollowUpstream, Tasks, Python
  <2>2. Started("notify_success") =>
            /\ taskState["evaluate_model"] = "success"
            /\ "success" \in {taskState["deploy_model"], taskState["skip_deployment"]}
    BY <2>1 DEF IInv, TasksFollowUpstream, Follows, Started
  <2>3. taskState["evaluate_model"] = "success" =>
            taskState["train_model"] = "success" /\ taskState["validate_data"] = "success"
    BY <2>1 DEF Follows, Started
  <2>4. Started("notify_failure") =>
            /\ taskState["validate_data"] \in Failed
            /\ "failed" \in {taskState["extract_data"], taskState["validate_data"]}
    <3>1. taskState["skip_training"] # "failed"
      BY DEF IInv, TasksFollowUpstream, Tasks, Python
    <3>2. taskState["extract_data"] # "upstream_failed"
      BY DEF IInv, TasksFollowUpstream
    <3>3. QED
      BY <2>1, <3>1, <3>2 DEF IInv, TasksFollowUpstream, Follows, Failed
  <2>5. "success" \notin Failed
    BY DEF Failed
  <2>6. taskState["train_model"] = "success" => trained = ModelOfRun
    BY DEF IInv, TasksFollowUpstream
  <2>7. QED
    BY <2>2, <2>3, <2>4, <2>5, <2>6 DEF NoticesAreTrue
<1>2. QED
  BY <1>1, Invariance, PTL

\* The data of a run is there until every task that reads it has come to its end.
THEOREM KeptData == Spec => []DataOutlivesItsReaders
<1>1. IInv => DataOutlivesItsReaders
  <2> SUFFICES ASSUME IInv, dataset = "removed" PROVE DataOutlivesItsReaders
    BY DEF DataOutlivesItsReaders
  <2>1. /\ Follows("evaluate_model", "train_model") /\ Follows("train_model", "validate_data")
        /\ Follows("validate_data", "extract_data")
    BY Graph DEF IInv, TasksFollowUpstream, Tasks, Python
  <2>2. taskState["evaluate_model"] \in Settled
    BY DEF IInv, TasksFollowUpstream
  <2>3. "none" \notin Settled
    BY DEF Settled
  <2>4. QED
    BY <2>1, <2>2, <2>3 DEF DataOutlivesItsReaders, Follows
<1>2. QED
  BY <1>1, Invariance, PTL

\* The first model that is deployed is never replaced by another.
THEOREM FinalDeployment == Spec => FirstDeploymentIsFinal
<1>1. IInv /\ [Next]_vars => [FirstIsFinal]_vars
  <2> SUFFICES ASSUME IInv, Next, production.state # "absent"
      PROVE  production'.version = production.version
    BY DEF FirstIsFinal
  <2>1. CASE DeployBackup
    <3>1. Deploying
      BY <2>1, DeployingFollows DEF IInv, DeployBackup
    <3>2. production.version = trained
      BY <3>1, Deploys DEF IInv
    <3>3. QED
      BY <2>1, <3>2 DEF DeployBackup
  <2>2. CASE DeployCopied
    <3>1. production \in [state : {"absent", "torn", "whole"}, version : 0..MaxRuns]
      BY DEF IInv, TypeOK
    <3>2. production' = [production EXCEPT !.state = "whole"]
      BY <2>2 DEF DeployCopied
    <3>3. QED
      BY ONLY <3>1, <3>2
  <2>3. CASE ~DeployBackup /\ ~DeployCopied
    <3>1. production' = production
      BY <2>3 DEF Next, DagStep, StartRun, Schedule, Fail, Notify, Extract, Validate, TrainSave,
         TrainSaved, Trained, Evaluate, DeployLatest, Deployed, Cleanup, TriggerTraining, JobSave,
         JobSaved, JobFails, RestartServer, Predict, dagVars
    <3>2. QED
      BY <3>1
  <2>4. QED
    BY <2>1, <2>2, <2>3
<1>2. QED
  BY <1>1, Invariance, PTL DEF Spec, FirstDeploymentIsFinal
=============================================================================
