SPECIFICATION FairSpec
CONSTANTS
    Cells = {0, 1, 2}
    MaxRollouts = 2
    MaxAttempts = 3
    MaxFaults = 2
    MaxDeploys = 2
CHECK_DEADLOCK FALSE
INVARIANTS
    ReplicasAgree
    AllreduceIsSound
PROPERTY TrainEnds
