\* One client that waits for a job to settle before it retries; workers and the API
\* process die.
SPECIFICATION FairSpec
CONSTANTS
    Worker = {w1, w2}
    Api = {a1}
    None = None
    Methods = {"retry", "approve", "cancel"}
    RequiredOutputs <- OneKind
    Route <- Routes
    Approval = "before_publish"
    AuditMayFail = FALSE
    DbMayFail = FALSE
    FinishMayRaise = FALSE
    ApiMayCrash = TRUE
    PatientRetry = TRUE
    MaxRetries = 2
    MaxAttempts = 5
    MaxIds = 1
    MaxArtifacts = 3
    StaleAfter = 1
    MaxCrashes = 1
INVARIANTS TablesAgree NoDuplicateOutput
PROPERTY TaskSettles
