SPECIFICATION Spec
CONSTANTS
    r1 = r1
    r2 = r2
    p1 = p1
    None = None
    Releases = {r1, r2}
    Processes = {p1}
    Retention = 2
    MaxRuns = 1
    MaxKills = 0
SYMMETRY Symmetry
INVARIANT
    ActiveUntouched
CHECK_DEADLOCK FALSE
