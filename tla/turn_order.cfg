CONSTANTS
    Inputs = {i1, i2}
    MaxEpoch = 2
    MaxAttempts = 1
    TextLength = 2
    MaxFaults = 1
    FaultKinds = {"refuse"}
    InterruptKinds = {}
    Parking = FALSE
SPECIFICATION Spec
CHECK_DEADLOCK FALSE
INVARIANTS OrderIsKept
 
