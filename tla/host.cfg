SPECIFICATION HostSpec
CONSTANTS
  MaxTurn = 2
  Contents = {"a", "b"}
  Proposed <- MCProposed
  MaxEpoch = 2
  MaxFaults = 1
  FaultKinds = {"transient", "raise", "refuse"}
  Chats = {"c1", "c2"}
  Memories = {"m1", "m2"}
  Studied = {"t1"}
  MaxRequests = 2
  Words = {"w1", "w2"}
  MaxVersion = 2
  Levels <- MCLevels
  PersonaRules <- MCPersonaRules
  Profiles = {"p1", "p2"}
  Endpoints <- MCEndpoints
  Insecure <- MCInsecure
  Launch <- MCLaunch
  Entities = {"e1", "e2"}
  Nodes = {"n1", "n2"}
  DocForms <- MCDocs
  LinkForms <- MCLinks
  Pilot = {"e1"}
  Errors = {"x", "y"}
  FirstSource <- MCSource
  MaxEdits = 2
  Rules = {"c1", "c2"}
  RuleForms <- MCRules
  FocusIds = {1, 2}
  Stamps <- MCStamps
  Targets = {"a", "b"}
  MaxNow = 2
  MaxFlips = 1
  MaxRows = 2
  Packages <- MCPackages
  Fields = {"f", "g"}
  Texts = {"o", "v"}
  MaxRevision = 2
  MaxPending = 1
  Original = "o"
CHECK_DEADLOCK FALSE
INVARIANTS WorkIsAccounted  ArtifactsAreTrustworthy WorldsAreFounded
PROPERTIES HistoryStands ConstraintsAreHonoured  
