SPECIFICATION FairSpec
CONSTANTS
    OldCalls = {a}
    NewCalls = {c}
    Gate = gate
    MaxBoots = 3
    MaxTimeouts = 2
CHECK_DEADLOCK FALSE
INVARIANTS
    AtMostOnce
    RunsWherePinned
    AnswerIsKept
    TakeOverIsQuiet
PROPERTY CallsEnd
