CONSTANTS
    Opens = {o1, o2}
    Replies = {r1, r2}
    Envelopes <- WebEnvelopes
    MaxEpoch = 2
    MaxFaults = 1
    HintRungs = 1
    SoftAttempts = 1
    HardAttempts = 1
    SoftTurns = 2
    HardTurns = 2
    WebHost = TRUE
SYMMETRY ReplySymmetry
SPECIFICATION Spec
CHECK_DEADLOCK FALSE
INVARIANTS MomentsAreLocked SupportIsHonest
