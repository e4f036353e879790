SPECIFICATION FairSpec
CONSTANTS
  Cameras = {c1}
  Backends = {"usb"}
  Faults = {"fail"}
  Policies = {"on_demand"}
  LinkFaults = {}
  MaxTakes = 0
  MaxJobs = 2
PROPERTIES
  RetriesEnd
CHECK_DEADLOCK FALSE
