\* A release overlaps a review.
SPECIFICATION Spec
CONSTANTS
    Runner = {p1}
    Caller = {p1, p2}
    Methods = {"approve", "revise", "release"}
    RequiredOutputs <- OneKind
    Route <- Routes
    Approval = "before_publish"
    AuditMayFail = FALSE
    MayCrash = FALSE
    MaxAttempts = 1
    MaxIds = 1
    MaxArtifacts = 3
PROPERTY ReleaseFailClosed
