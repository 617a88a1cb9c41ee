SPECIFICATION Spec
CONSTANTS
  Opens = {o1}
  Replies = {r1}
  Envelopes <- MCEnvelopes
  LessonEpochs = 3
  HintRungs = 1
  SoftAttempts = 2
  HardAttempts = 2
  SoftTurns = 3
  HardTurns = 3
  WebHost = TRUE
  MaxTurn = 1
  Contents = {"a", "b"}
  Proposed <- MCProposed
  MaxEpoch = 2
  MaxFaults = 2
  FaultKinds = {"transient", "raise"}
  Requests = {"q1", "q2", "q3"}
  Streamed = {"q1", "q2"}
  Frames = 1
CHECK_DEADLOCK FALSE
PROPERTIES MomentsMoveOn ProjectionsEnd RequestsAreAnswered
