SPECIFICATION LogFairSpec
CONSTANTS
    Writer = {p1, p2}
    Event = {e1, e2}
    None = None
    DiskMayFail = TRUE
    MayCrash = TRUE
    MayLosePower = TRUE
    MaxFile = 4
INVARIANTS NeverInvalid DamageConfined AckedKept
PROPERTIES LockReleased OnlyAppended
