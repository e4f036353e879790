SPECIFICATION FairSpec
CONSTANTS
  Cameras = {c1}
  Backends = {"usb", "wifi"}
  Faults = {"fail", "short", "disk", "stays", "unwritten", "unreachable"}
  Policies = {"eager", "on_demand"}
  LinkFaults = {"drop", "lost", "refused", "nameless"}
  MaxTakes = 1
  MaxJobs = 2
INVARIANTS
  FilesAreTrue
  HostReturns
  NothingForgotten
PROPERTIES
  JobsEnd
CHECK_DEADLOCK FALSE
