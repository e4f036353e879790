SPECIFICATION Spec
CONSTANTS
  a = a
  b = b
  Streams = {a, b}
  Audio = {a, b}
  Role = "leader"
  AutoDiscover = FALSE
  Calls = {"add", "remove", "set_chirp_mode", "connect", "start", "oneshot", "stop", "cancel", "disconnect", "exit", "interrupt"}
  Faults = {"connect", "start", "stop", "start_chirp", "stop_chirp", "rmtree", "disk", "config"}
  MaxTake = 2
INVARIANTS
  WritersInCurrentEpisode
  AtomicRecording
PROPERTIES
  SealedTakesFrozen
  StoreSpec
CHECK_DEADLOCK FALSE
