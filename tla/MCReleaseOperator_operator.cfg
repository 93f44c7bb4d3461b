\* Two processes request, decide, revoke and execute at the same time; one dies.
SPECIFICATION Spec
SYMMETRY Symmetry
CONSTRAINTS CrashWithOneApproval NamesThatMatter
CONSTANTS
    Identity = {u1, u2}
    Stored <- StoredNames
    Executor = {p1, p2}
    Fingerprint = {f1, f2}
    Modes = {TRUE, FALSE}
    Revocable = TRUE
    Timely = TRUE
    MaxCrashes = 1
    MaxRequests = 1
    MaxDirect = 1
    None = None
INVARIANTS LeaseExclusive SingleUse DecidedOnce TwoPersons CompletedIsReleased
