SPECIFICATION FairSpec
CONSTANTS
  a = a
  b = b
  Streams = {a, b}
  Faults = {"open", "prepare", "commit", "finalize", "log", "sync_point", "callback", "persist"}
  MaxSegment = 3
INVARIANTS
  FrameMeetsItsRow
  OneWindowPerSegment
  NothingHalfOpen
  RotationSettled
PROPERTIES
  SealedSegmentsFrozen
  RotationReturns
CHECK_DEADLOCK FALSE
