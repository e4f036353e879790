SPECIFICATION FairSpec
CONSTANTS
  Threads = {t1, t2}
  Modes = {TRUE, FALSE}
  Capacity = 2
  Batch = 2
  DiskFails = TRUE
  MaxSamples = 4
  MaxWindows = 2
INVARIANTS
  NoSampleTwice
  CountedIsWritten
PROPERTIES
  LogSpec
  CloseReturns
CHECK_DEADLOCK FALSE
