\* One process at a time, as under the release lease; every commit, probe, actuation
\* and smoke test may fail and the process may die anywhere.
SPECIFICATION Spec
SYMMETRY Symmetry
CONSTANTS
    Slot = {blue, green}
    Release = {r1}
    HasActuator = TRUE
    Ambiguous = TRUE
    None = None
    Adapter = {a1}
    Version = {v1, v2}
    Offered <- AllVersions
    Mock = {}
    Process = {p1}
    CommitMayFail = TRUE
    MayCrash = TRUE
    MaxActions = 4
    MaxReleases = 2
PROPERTIES SucceededIsInForce FailedLeavesPrevious AdaptersLast ReconciledIsServed
