\* A task is cancelled while it runs.
SPECIFICATION Spec
CONSTANTS
    Runner = {r1}
    Caller = {c1}
    Methods = {"cancel"}
    RequiredOutputs <- OneKind
    Route <- Routes
    Approval = "before_publish"
    AuditMayFail = FALSE
    MayCrash = FALSE
    MaxAttempts = 1
    MaxIds = 1
    MaxArtifacts = 1
PROPERTY CancelledIsFinal
