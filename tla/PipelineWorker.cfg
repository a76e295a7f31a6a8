SPECIFICATION Spec
CONSTANTS
  MaxQueued = 3
  MayBlock = {"start", "data", "end", "stop", "cancel"}
  MayCancelRun = TRUE
INVARIANTS
  EndFlushes
  StartedFirst
  ReportedOnce
  RunLeavesClean
PROPERTIES
  WaitsEnd
  CancelFinishes
CHECK_DEADLOCK FALSE
