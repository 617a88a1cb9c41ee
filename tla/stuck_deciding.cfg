CONSTANTS
    Opens = {o1}
    Replies = {r1, r2}
    Envelopes <- HelpEnvelopes
    MaxEpoch = 1
    MaxFaults = 0
    HintRungs = 1
    SoftAttempts = 2
    HardAttempts = 2
    SoftTurns = 3
    HardTurns = 3
    WebHost = TRUE
SPECIFICATION FairSpec
CHECK_DEADLOCK FALSE
PROPERTIES DecidingMovesOn
