SPECIFICATION SessionSpec
CONSTANTS
    Chats = {c1, c2, c3, c4}
    Prompts = {"p", "q"}
    Contents = {"x", "y"}
    Branches = FALSE
    MaxTurns = 5
    Trim = 1
SYMMETRY Symmetry
CHECK_DEADLOCK FALSE
INVARIANTS
    RecordsAlign
    TokensTellTheHistory
    StoreHoldsWhatWasGiven
