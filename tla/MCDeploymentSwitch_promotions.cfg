\* Two operators promote the two slots at the same time.
SPECIFICATION SwitchSpec
CONSTANTS
    Slot = {blue, green}
    Release = {r1}
    Process = {p1, p2}
    HasActuator = FALSE
    Ambiguous = FALSE
    CommitMayFail = FALSE
    MayCrash = FALSE
    MaxActions = 0
    None = None
INVARIANTS OneActive
