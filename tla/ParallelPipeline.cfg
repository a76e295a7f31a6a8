SPECIFICATION Spec
CONSTANTS
  s = s
  e = e
  c = c
  i = i
  d = d
  f = f
  o = o
  Branch = {b1, b2}
  Frame = {s, e, c, i, f}
  Own = {o}
  KindOf <- Kinds
INVARIANTS
  StartGoesFirst
  EndGoesLast
  AllBranchesFirst
  OrderKept
PROPERTIES
  PauseEnds
CHECK_DEADLOCK FALSE
