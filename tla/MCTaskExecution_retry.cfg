\* A client that retries as soon as the task has failed.
SPECIFICATION Spec
CONSTANTS
    Worker = {w1}
    Api = {a1}
    None = None
    Methods = {"retry"}
    RequiredOutputs <- OneKind
    Route <- Routes
    Approval = "before_publish"
    AuditMayFail = FALSE
    DbMayFail = FALSE
    FinishMayRaise = FALSE
    ApiMayCrash = FALSE
    PatientRetry = FALSE
    MaxRetries = 2
    MaxAttempts = 5
    MaxIds = 1
    MaxArtifacts = 3
    StaleAfter = 1
    MaxCrashes = 0
INVARIANT RetryRequeues
