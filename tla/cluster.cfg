SPECIFICATION FairSpec
CONSTANTS
  lead = lead
  a = a
  b = b
  Leader = lead
  Followers = {a, b}
  Roles <- EachRole
  Attended = {a}
  StaticPeers = FALSE
  Faults = {"network", "timeout", "delete", "exit"}
  MaxTake = 2
INVARIANTS
  BeginsWithLeader
  TakeIsUnanimous
PROPERTIES
  StopPropagates
CHECK_DEADLOCK FALSE
