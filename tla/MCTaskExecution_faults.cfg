\* Every fault: audit and database writes fail, the API and a worker die.
SPECIFICATION Spec
CONSTANTS
    Worker = {w1, w2}
    Api = {a1}
    None = None
    Methods = {"retry", "cancel"}
    RequiredOutputs <- TwoKinds
    Route <- Routes
    Approval = "none"
    AuditMayFail = TRUE
    DbMayFail = TRUE
    FinishMayRaise = TRUE
    ApiMayCrash = TRUE
    PatientRetry = FALSE
    MaxRetries = 2
    MaxAttempts = 5
    MaxIds = 1
    MaxArtifacts = 3
    StaleAfter = 1
    MaxCrashes = 1
INVARIANT NoDuplicateOutput
