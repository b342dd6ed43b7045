SPECIFICATION Spec
CONSTANTS
    e1 = e1  e2 = e2  e3 = e3  s1 = s1  s2 = s2  s3 = s3
    github = github  google = google  k1 = k1
    None = None
    Requests = {r1, r2}
    MaxUsers = 3
    Emails = {e1, e2, e3}
    Subjects = {s1, s2, s3}
    ProviderOf <- MCProviderOf
    EmailOf <- MCEmailOf
    Keys = {k1}
    Superusers = {1, 2}
    SecondFactor = {}
    Existing <- MCExisting
    Linked <- MCLinked
    Registered <- MCNoPasskeys
    MaxMails = 1
    MaxResets = 2
    MaxRequests = 3
CHECK_DEADLOCK FALSE
INVARIANT SignInRemains
