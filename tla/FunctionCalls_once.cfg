SPECIFICATION Spec
CONSTANTS
  lookup = lookup
  order = order
  confirm = confirm
  Calls = {lookup, order}
  Batch <- OneBatch
  Async = {order}
  Timed = {order}
  Modes <- Grouped
  MaxTurns = 0
INVARIANT GroupOnce
CHECK_DEADLOCK FALSE
