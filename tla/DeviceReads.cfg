SPECIFICATION FairSpec
CONSTANTS
  Threads = {"t1", "t2"}
  NoThread = "none"
  Backends = {"linux", "windows", "libusb", "mac"}
  Relock = {"blocks", "passes"}
  Disciplined = TRUE
  MaxCalls = 4
  MaxReports = 2
  MaxUnplugs = 1
  Cap = 2
INVARIANTS
  TypeOK
  OneInBackend
  FailureToldByItsText
PROPERTIES
  ReportKept
  ReturnedInOrder
  GoneEndsCalls
CHECK_DEADLOCK FALSE
