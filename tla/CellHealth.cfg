SPECIFICATION HealthFairSpec
CONSTANTS
    Cells = {0}
    Threshold = 2
    MaxFaults = 2
    MaxEpochs = 2
    MaxTimeouts = 1
INVARIANTS
    LiveIsNotFailed
    OnlyTheBrokenAreStopped
PROPERTY Recovers
