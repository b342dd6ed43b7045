SPECIFICATION Spec
CONSTANTS
    q1 = q1
    q2 = q2
    None = None
    Requests = {q1, q2}
    MaxAttempts = 2
    Window = 1
    CodesPerSet = 1
    MaxRows = 2
    MaxRequests = 4
    MaxTime = 2
    MaxFaults = 1
SYMMETRY Symmetry
INVARIANTS
    TypeOK
    FactorUsedOnce
    ChallengeBounded
    OneOpenChallenge
    EnabledIsConfirmed
PROPERTY
    ClosedStaysClosed
CHECK_DEADLOCK FALSE
