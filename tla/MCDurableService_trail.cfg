\* A worker and a reviewer write to one log; the disk fails and processes die.
SPECIFICATION Spec
CONSTANTS
    Runner = {w1}
    Caller = {c1}
    None = None
    Writer <- Writers
    Event <- Events
    Methods = {"submit", "retry"}
    RequiredOutputs <- TwoKinds
    Route <- Routes
    Approval = "before_publish"
    MaxAttempts = 2
    MaxIds = 1
    MaxArtifacts = 2
    MayCrash = TRUE
    DiskMayFail = TRUE
    MayLosePower = FALSE
    MaxFile = 4
INVARIANTS ExecutionsRecorded CompletedIsBacked CheckpointSound
CHECK_DEADLOCK FALSE
