SPECIFICATION Spec
CONSTANTS
    q1 = q1
    q2 = q2
    None = None
    Requests = {q1, q2}
    MaxAttempts = 2
    Window = 1
    CodesPerSet = 1
    MaxRows = 2
    MaxRequests = 3
    MaxTime = 1
    MaxFaults = 0
SYMMETRY Symmetry
INVARIANTS
    EnrolmentEndsOtherSessions
CHECK_DEADLOCK FALSE
