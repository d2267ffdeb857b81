\* One node with one retry on each platform, its source changing once.
SPECIFICATION FairSpec
CONSTANTS
    Platforms = {"local", "databricks", "fabric"}
    MaxRetries = 1
    MaxVersion = 2
INVARIANTS
    UncertainUnlessStopped
    SuccessIsBacked
    RemoteRunIsAttempts
PROPERTIES
    OnlySchedulerSteps
    ExecutorEnds
CHECK_DEADLOCK FALSE
