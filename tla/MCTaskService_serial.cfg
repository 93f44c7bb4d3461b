\* One request at a time: the methods as functions of the rows.
SPECIFICATION Spec
CONSTANTS
    Runner = {p1}
    Caller = {p1}
    Methods = {"approve", "revise", "release", "retry", "cancel"}
    RequiredOutputs <- TwoKinds
    Route <- Routes
    Approval = "before_publish"
    AuditMayFail = TRUE
    MayCrash = TRUE
    MaxAttempts = 2
    MaxIds = 2
    MaxArtifacts = 4
INVARIANTS ReleaseReviewed RevisionsLinear SucceededIsApproved ProjectAgrees
PROPERTY ReleaseFailClosed
