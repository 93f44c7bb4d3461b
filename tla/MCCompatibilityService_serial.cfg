\* One process at a time; commits fail and the process dies anywhere.
SPECIFICATION MatrixSpec
SYMMETRY Symmetry
CONSTANTS
    a1 = a1
    a2 = a2
    v1 = v1
    v2 = v2
    v3 = v3
    m1 = m1
    Adapter = {a1, a2}
    Version = {v1, v2, v3, m1}
    Offered <- Versions
    Mock = {m1}
    Process = {p1}
    CommitMayFail = TRUE
    MayCrash = TRUE
INVARIANT ActiveQualified
PROPERTY PromotedTogether
