\* Evidence is collected for an adapter that is active.
SPECIFICATION MatrixSpec
CONSTANTS
    a1 = a1
    a2 = a2
    v1 = v1
    v2 = v2
    v3 = v3
    m1 = m1
    Adapter = {a1, a2}
    Version = {v1, v2, v3, m1}
    Offered <- Versions
    Mock = {m1}
    Process = {p1}
    CommitMayFail = FALSE
    MayCrash = FALSE
PROPERTY QualifyOnlyKeepsActive
