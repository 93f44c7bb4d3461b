\* One operator; any number of crashes, failing commits, refused and lost actuations.
SPECIFICATION SwitchSpec
SYMMETRY Symmetry
CONSTRAINT LongJournal
CONSTANTS
    Slot = {blue, green}
    Release = {r1, r2}
    Process = {p1}
    HasActuator = TRUE
    Ambiguous = TRUE
    CommitMayFail = TRUE
    MayCrash = TRUE
    MaxActions = 4
    None = None
INVARIANTS OneActive EvidenceMatches RegistryMatchesTraffic
