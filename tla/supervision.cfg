CONSTANTS
  hot = hot
  plain = plain
  Streams = {hot, plain}
  HotSwap = {hot}
  Rated = {hot}
  MaxAttempts = 2
  Faults = {"reopen", "slow"}
  MaxCycles = 2
  MaxLosses = 1
SPECIFICATION FairSpec
CHECK_DEADLOCK FALSE
INVARIANTS DropsAreHandled CleanTeardown
PROPERTIES DropIsResolved
