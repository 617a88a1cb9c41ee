CONSTANTS
    Inputs = {i1}
    MaxEpoch = 2
    MaxAttempts = 2
    TextLength = 2
    MaxFaults = 1
    FaultKinds = {"leg", "refuse"}
    InterruptKinds = {"action"}
    Parking = FALSE
SPECIFICATION FairSpec
CHECK_DEADLOCK FALSE
INVARIANTS CancelIsClean
PROPERTIES TurnsEnd
