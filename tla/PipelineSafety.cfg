SPECIFICATION Spec
CONSTANTS
    a1 = a1
    s0 = s0
    s1 = s1
    areas = areas
    stats = stats
    ca = ca
    c0 = c0
    c1 = c1
    c2 = c2
    wa = wa
    wb = wb
    r0 = r0
    None = None
    Runs = {r0, r1}
    Authors = {anna}
    Order <- MCOrder
    ModuleOf <- MCModuleOf
    Prerelease = {s1}
    Allowlisted = {stats}
    Channels = {"beta", "stable"}
    Commits = {ca, c0, c1, c2}
    Tagged <- MCTagged
    Manifest <- MCManifest
    Needs <- MCNeeds
    Satisfies <- MCSatisfies
    Parts = {wa, wb}
    Wheels <- MCWheels
    Fronts <- MCFronts
    HostAccepts <- MCHostAccepts
    Requests <- MCRequests
    Retags <- MCRetags
    Assets <- MCAssets
    Drafts <- MCDrafts
    Files <- MCFiles
    Proposed <- MCProposed
    Imported <- MCImported
    MaxEvents = 2
CHECK_DEADLOCK FALSE
INVARIANTS TypeOK MirrorUrlServed StoredIsReviewed ProvenanceIsTrue
PROPERTY HistoryImmutable
