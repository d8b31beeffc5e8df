SPECIFICATION Spec
CONSTANTS
    Batch = 1
    GroupSize = 2
    Budget = 2
    Capacity = 2
    MaxStaleness = 2
    WithinStaleness = TRUE
    RetryUnused = TRUE
    MaxDraws = 4
    MaxVersion = 3
INVARIANTS
    Conservation
    AdmissionWindow
    BoundedQueueing
    WithinLimits
    NoMissedWakeup
