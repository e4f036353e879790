SPECIFICATION FairViewerSpec
CONSTANTS
  Clients = {c1, c2}
  Opened = {"connected", "recording"}
  Blocking = TRUE
  ViewerFaults = {"connect", "start", "stop", "cancel", "strand", "leave", "join"}
  MaxCommands = 2
  Countdown = 1
INVARIANTS
  StopsAreAnswered
  ClosedReleases
PROPERTIES
  CommandsEnd
CHECK_DEADLOCK FALSE
