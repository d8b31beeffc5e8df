SPECIFICATION FairSpec
CONSTANTS
    Contexts = {a, b, u, v}
    Updaters = {u, v}
    MaxGeneration = 4
CHECK_DEADLOCK FALSE
INVARIANTS
    MutualExclusion
    NoLeakedLock
    StragglerLosesLock
PROPERTY WaiterServed
