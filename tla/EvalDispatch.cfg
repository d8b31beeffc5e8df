SPECIFICATION FairSpec
CONSTANTS
    MaxPoints = 4
    MaxInFlight = 2
    KeepSnapshots = 0
    Given = {1}
    Skip = TRUE
    Engines = {e1, e2}
    MaxFaults = 2
CHECK_DEADLOCK FALSE
INVARIANTS
    CollectionIsRight
    NoMixedEvaluation
PROPERTY EveryPointIsReported
