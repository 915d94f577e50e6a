SPECIFICATION Spec
CONSTANTS
    u1 = u1
    u2 = u2
    AdminSnapshots <- TwoSnapshots
    Managed = Managed
    Bare = Bare
    Mixed = Mixed
    None = None
    Down = Down
    MaxEdits = 2
    MaxCrashes = 2
SYMMETRY SnapshotSymmetry
INVARIANTS
    TypeOK
    OriginalKept
PROPERTIES
    GivenUpRestored
    ActiveMeansForwarding
    EditsRespected
