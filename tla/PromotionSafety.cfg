SPECIFICATION FairSpec
CONSTANTS
    ghost = ghost  m1 = m1  m2 = m2  stable = stable
    d1 = d1  d2 = d2  d3 = d3  d4 = d4  d5 = d5  d6 = d6  k1 = k1  k2 = k2
    p1 = p1  p2 = p2
    None = None
    Promoters = {p1, p2}
    Modules <- MCModules
    Registered = {m1, m2}
    Versions = {1, 2, 3}
    Channels = {stable}
    Digests = {d1, d2, d3, d4, d5, d6}
    Keys = {k1, k2}
    Requires <- MCRequires
    Intents <- MCIntents
    Candidates <- MCCandidates
    Imported <- MCImported
    MaxAttempts <- MCAttempts
    MaxFaults = 1
    MaxRevisions = 1
CHECK_DEADLOCK FALSE
INVARIANTS TypeOK BytesBeforeMetadata ChannelsFollowV1 AuditMatchesData RetriesAgree
PROPERTIES HistoryOnlyGrows CommittedRetryAccepted EveryPromotionEnds
