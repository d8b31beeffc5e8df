SPECIFICATION Spec
CONSTANTS
    Models = {"a", "b"}
    Sessions = {"s", "t"}
    SessionOf <- MCSessionOf
    Slots = {1, 2}
    Programs <- MCPrograms
    MaxLen = 2
    Budget = 2
    ClientWaits = TRUE
    MaxSweeps = 1
    MaxExpired = 1
CHECK_DEADLOCK FALSE
INVARIANTS
    StepConsumesItsWindow
    BarrierSeparates
    SlotsAreExclusive
    NoRequestIsStranded
