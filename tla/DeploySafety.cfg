SPECIFICATION Spec
CONSTANTS
    r1 = r1
    r2 = r2
    r3 = r3
    r4 = r4
    p1 = p1
    p2 = p2
    None = None
    Releases = {r1, r2, r3, r4}
    Processes = {p1, p2}
    Retention = 3
    MaxRuns = 4
    MaxKills = 1
SYMMETRY Symmetry
INVARIANTS
    TypeOK
    ProtectedExist
    SettledIsVerified
PROPERTY
    RetentionKept
CHECK_DEADLOCK FALSE
