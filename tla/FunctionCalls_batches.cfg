SPECIFICATION Spec
CONSTANTS
  lookup = lookup
  order = order
  confirm = confirm
  Calls = {lookup, order, confirm}
  Batch <- TwoBatches
  Async = {order}
  Timed = {order}
  Modes <- Grouped
  MaxTurns = 0
PROPERTIES
  LLMHears
CHECK_DEADLOCK FALSE
