SPECIFICATION Spec
CONSTANTS
  Turns = {"t1"}
  Attempts = {"a1"}
  Targets = {"r", "c"}
  Capability = "c"
  MaxEpoch = 2
  MaxClaims = 3
  NoTarget = "no"
  Forms <- MCForms
  Personas = {"x", "y"}
  MaxLog = 4
  MaxDay = 1
  TargetType = "RESOURCE"
  Events = {"e1", "e2"}
  Interval <- MCInterval
  Grace = 1
  MaxNow = 3
  MaxMark = 2
  Foci = {"a", "b"}
  FactForms <- MCFacts
  Contexts <- MCContexts
  MaxShown = 1
  Openings = {"o1"}
  Hints = {"h1"}
  Skips = {"s1"}
  Owed = {"k"}
  MaxWrong = 2
  Letters = {1, 2}
  Cooldown = 1
  Stage = "BALANCED"
  MaxClock = 1
  MaxFaults = 1
CHECK_DEADLOCK FALSE
INVARIANTS  DecisionsFollowPolicy
PROPERTIES EstimatesAreFair SchedulesAdvance LedgerIsConsistent GateFailsClosed OpeningsAreWelcome
