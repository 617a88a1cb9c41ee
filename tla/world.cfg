SPECIFICATION WorldSpec
CONSTANTS
  TextLength = 2
  Handlers = {h1, h2}
  MaxLetters = 2
  MaxBeats = 3
  ChainSteps = 2
  ParkedStops = 2
  MaxChoices = 1
  Actors = {"a", "b"}
  Player = "you"
  Thinkings = {"p", "q"}
  Beats <- MCBeats
  MaxRuns = 3
  Signs = {"nl", "dash", "w"}
  Break = "nl"
  Sentinel <- MCSentinel
  Hold = 4
  MaxSigns = 5
  MaxPiece = 2
  Key <- MCKey
  Pieces = {"k1", "k2", "w"}
  Ceiling = 4
  Told = {t1, t2}
  Sayings = {x, y}
  Natures <- MCNatures
  MaxOffers = 3
SYMMETRY Symmetry
CHECK_DEADLOCK FALSE
INVARIANTS AcksAreSound PageShowsTheProse ShownIsAnswered MemoriesAreSound
PROPERTIES OnlyRefines  ThoughtsAreHonest
