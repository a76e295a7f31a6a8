SPECIFICATION Spec
CONSTANTS
  s = s
  d = d
  m = m
  n = n
  i = i
  c = c
  p = p
  r = r
  x = x
  y = y
  NoFrame = NoFrame
  Frame = {s, c, i, d}
  KindOf <- Kinds
  Ops = {}
PROPERTIES
  NothingAfterCancel
CHECK_DEADLOCK FALSE
