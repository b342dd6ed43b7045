SPECIFICATION Spec
CONSTANTS
    q1 = q1
    q2 = q2
    None = None
    Requests = {q1, q2}
    MaxRows = 3
    MaxRequests = 4
    MaxTicks = 1
    MaxFaults = 0
INVARIANT
    PasswordChangeEndsSessions
CHECK_DEADLOCK FALSE
