\* A command in each of the sandboxes.
SPECIFICATION FairSpec
CONSTANTS
    Kid = {k1}
    None = None
    OutBudget = 1
    ByteBudget = 1
    FileBudget = 1
    ScanLimit = 4
    MaxOut = 2
    Usage <- Sizes
    Stuck = TRUE
    DrainsInTime = TRUE
    Backend = {"bubblewrap", "seatbelt", "none"}
    RequireSandbox = TRUE
    Manifest <- Manifests
    InputsMayFail = TRUE
INVARIANTS AcceptedIsLeft AcceptedWithinBudget TreeGone
PROPERTY EndsInTime
