SPECIFICATION Spec
CONSTANTS
  Members = {m1, m2}
  None = None
  Urgent = {m2}
  GivesReason = TRUE
INVARIANTS
  ErrorCancels
CHECK_DEADLOCK FALSE
