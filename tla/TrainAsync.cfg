SPECIFICATION TrainSpec
CONSTANTS
    Batch = 1
    GroupSize = 1
    Budget = 1
    Capacity = 1
    MaxStaleness = 0
    WithinStaleness = FALSE
    RetryUnused = FALSE
    MaxDraws = 3
    MaxVersion = 3
    Interval = 2
    AsyncSave = TRUE
    MaxRetained = 3
    NumRollout = 3
    MaxCrashes = 1
CHECK_DEADLOCK FALSE
INVARIANTS
    NothingLostOrRepeated
    BoundedLag
