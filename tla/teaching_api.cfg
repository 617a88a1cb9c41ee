CONSTANTS
    Opens = {o1}
    Replies = {r1, r2}
    Envelopes <- ApiEnvelopes
    MaxEpoch = 2
    MaxFaults = 2
    HintRungs = 1
    SoftAttempts = 1
    HardAttempts = 2
    SoftTurns = 2
    HardTurns = 2
    WebHost = FALSE
SYMMETRY ReplySymmetry
SPECIFICATION Spec
CHECK_DEADLOCK FALSE
PROPERTIES RepliesMoveForward 
