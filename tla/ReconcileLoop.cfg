SPECIFICATION FairSpec
CONSTANTS
    Objects = {o1, o2}
    Parents = {p1, p2}
    NoParent = NoParent
    Revs = {1}
    MaxChanges = 2
    MaxFaults = 2
CHECK_DEADLOCK FALSE
INVARIANTS
    LoopInvariant
    NothingForgotten
PROPERTIES
    Converges
    ImplementsPromise
