SPECIFICATION FairSpec
CONSTANTS
  Kinds <- AllKinds
  Faults = {"fail", "unplug", "reconnect", "row", "mux"}
  MaxFrames = 4
  MaxWindows = 2
  MaxConnects = 3
  Slots = 2
  MaxRestarts = 1
INVARIANTS
  OneOwner
  ReportsAreTrue
  ReaderSurvives
PROPERTIES
  CallsReturn
CHECK_DEADLOCK FALSE
