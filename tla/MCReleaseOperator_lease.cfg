\* Two processes contend for the lease that a third left behind when it died.
SPECIFICATION Spec
CHECK_DEADLOCK FALSE
CONSTANTS
    Identity = {u1}
    Stored <- StoredNames
    Executor = {p1, p2}
    Fingerprint = {f1}
    Modes = {FALSE}
    Revocable = FALSE
    Timely = TRUE
    MaxCrashes = 1
    MaxRequests = 0
    MaxDirect = 2
    None = None
INVARIANT OneReleaseAtATime
