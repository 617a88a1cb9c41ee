CONSTANTS
    Inputs = {i1}
    MaxEpoch = 2
    MaxAttempts = 1
    TextLength = 2
    MaxFaults = 1
    FaultKinds = {"leg", "raise", "refuse"}
    InterruptKinds = {"turn", "action"}
    Parking = TRUE
SPECIFICATION Spec
CHECK_DEADLOCK FALSE
INVARIANTS OneVisibleStream LeaseHeld 
PROPERTIES WritesAreFenced
