SPECIFICATION Spec
CONSTANTS
    q1 = q1
    q2 = q2
    None = None
    Requests = {q1, q2}
    MaxRows = 4
    MaxRequests = 5
    MaxTicks = 2
    MaxFaults = 1
SYMMETRY Symmetry
INVARIANTS
    TypeOK
    OneLivePerFamily
    UserLockEndsSessions
PROPERTY
    InactiveNeverRotates
CHECK_DEADLOCK FALSE
