SPECIFICATION Spec
CONSTANTS
  s = s
  d = d
  m = m
  n = n
  i = i
  c = c
  p = p
  r = r
  x = x
  y = y
  NoFrame = NoFrame
  Frame = {s, m, i, c}
  KindOf <- Kinds
  Ops = {"pauseUntil", "pauseAgain", "broadcast", "cleanup"}
INVARIANTS
  CleanupStopsTasks
PROPERTIES
  MustHandled
  PauseAlwaysLifted
  CleanupEnds
CHECK_DEADLOCK FALSE
