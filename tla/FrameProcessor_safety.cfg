SPECIFICATION Spec
CONSTANTS
  s = s
  d = d
  m = m
  n = n
  i = i
  c = c
  p = p
  r = r
  x = x
  y = y
  NoFrame = NoFrame
  Frame = {s, p, m, i, r}
  KindOf <- Kinds
  Ops = {"pause", "pauseUntil", "pauseInSetup", "broadcast", "cleanup"}
INVARIANTS
  MustNotLost
  StartFirst
  InterruptionSettles
PROPERTIES
  ArrivalOrder
  ImplementsDelivery
CHECK_DEADLOCK FALSE
