SPECIFICATION Spec
CONSTANTS
  a = a
  b = b
  Streams = {a, b}
  Audio = {a, b}
  Role = "single"
  AutoDiscover = FALSE
  Calls = {"add", "remove", "connect", "start", "stop", "disconnect", "exit"}
  Faults = {"connect", "start"}
  MaxTake = 2
SYMMETRY Symmetry
INVARIANTS
  NothingRecordsAtRest
  NeverStranded
  BooksAgree
PROPERTIES
  ChirpsInsideTheTake
CHECK_DEADLOCK FALSE
