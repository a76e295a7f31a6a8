SPECIFICATION Spec
CONSTANTS
  s = s
  d = d
  m = m
  n = n
  i = i
  c = c
  p = p
  r = r
  x = x
  y = y
  NoFrame = NoFrame
  Frame = {s, d, m, i}
  KindOf <- Kinds
  Ops = {"pauseUntil", "pauseAgain"}
PROPERTIES
  LiftedAsPromised
CHECK_DEADLOCK FALSE
