SPECIFICATION FairSpec
CONSTANTS
  a = a
  b = b
  Streams = {a, b}
  Audio = {a}
  Role = "follower"
  AutoDiscover = FALSE
  Calls = {"add", "connect", "start", "oneshot", "stop", "cancel", "disconnect"}
  Faults = {"start", "stop", "leader", "config", "rmtree"}
  MaxTake = 2
INVARIANTS
  TakesAreWhole
PROPERTIES
  CallsEnd
CHECK_DEADLOCK FALSE
