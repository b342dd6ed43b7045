SPECIFICATION Spec
CONSTANTS
    Publishers = {p1, p2}
    Modules = {m1}
    Versions = {v1}
    Digests = {d1, d2}
    Torn = Torn
    None = None
    MaxAttempts = 2
    MaxFaults <- AllFaults
SYMMETRY Symmetry
CHECK_DEADLOCK FALSE
INVARIANTS TypeOK NoPartialArtifact SuccessIsStored OnePublished
PROPERTIES NeverReplaced LostOnlyUnsynced ImplementsImmutableStore
