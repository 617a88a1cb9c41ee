CONSTANTS
    Inputs = {i1}
    MaxEpoch = 2
    MaxAttempts = 1
    TextLength = 2
    MaxFaults = 0
    FaultKinds = {}
    InterruptKinds = {}
    Parking = FALSE
SPECIFICATION FairSpec
CHECK_DEADLOCK FALSE
PROPERTIES UncertainDeliveryCloses
