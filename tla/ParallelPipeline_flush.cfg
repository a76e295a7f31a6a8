SPECIFICATION Spec
CONSTANTS
  s = s
  e = e
  c = c
  i = i
  d = d
  f = f
  o = o
  Branch = {b1, b2}
  Frame = {s, f}
  Own = {}
  KindOf <- Kinds
PROPERTIES
  FlushComesBack
CHECK_DEADLOCK FALSE
