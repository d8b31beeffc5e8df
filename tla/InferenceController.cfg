SPECIFICATION Spec
CONSTANTS
    CellIds = {c1, c2, c3}
    MaxHash = 3
    MaxVersion = 2
SYMMETRY CellSymmetry
CHECK_DEADLOCK FALSE
INVARIANTS
    NeverServesLaunchWeights
    ServesPublishedVersion
    SnapshotStable
    ServingIsRouted
