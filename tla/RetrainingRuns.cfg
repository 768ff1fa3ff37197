\* Two runs of the DAG, two attempts of each task, one training job.
SPECIFICATION FairSpec
CONSTANTS
    Writers <- MCWriters
    MaxTries = 2
    Flaky = {"validate_data", "train_model", "deploy_model"}
    MaxRuns = 2
    MaxJobs = 1
CHECK_DEADLOCK FALSE
INVARIANTS
    IInv
    AnswersFollowFile
    NoticesAreTrue
    DataOutlivesItsReaders
PROPERTIES
    FirstDeploymentIsFinal
    EveryRunEnds
