SPECIFICATION FairSpec
CONSTANTS
  Detectors = {"stall", "nodata", "startup", "adapter", "rate", "jitter", "pressure"}
  Faults = {"connect", "start", "raise"}
  Threshold = 2
  Recovery = 1
  MaxInbox = 2
INVARIANTS
  SealedLogsBalance
PROPERTIES
  NoFalseStall
  StreamsAreFollowed
CHECK_DEADLOCK FALSE
