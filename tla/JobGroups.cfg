SPECIFICATION Spec
CONSTANTS
  Members = {m1, m2}
  None = None
  Urgent = {m2}
  GivesReason = FALSE
INVARIANTS
  CompletedMeansAll
PROPERTIES
  SettledOnce
  AnsweredOnce
  WaitEnds
CHECK_DEADLOCK FALSE
