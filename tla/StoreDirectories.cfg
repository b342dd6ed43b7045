SPECIFICATION Spec
CONSTANTS
    Publishers = {p1, p2}
    Modules = {m1}
    Versions = {v1}
    Digests = {d1}
    Torn = Torn
    None = None
    MaxAttempts = 1
    MaxFaults <- PowerOnly
SYMMETRY Symmetry
CHECK_DEADLOCK FALSE
INVARIANT SuccessSurvives
