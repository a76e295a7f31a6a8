SPECIFICATION Spec
CONSTANTS
  MaxQueued = 1
  MayBlock = {"end"}
  MayCancelRun = FALSE
PROPERTIES
  CancelAlwaysFinishes
CHECK_DEADLOCK FALSE
