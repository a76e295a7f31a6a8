SPECIFICATION Spec
CONSTANTS
  lookup = lookup
  order = order
  confirm = confirm
  Calls = {lookup, order}
  Batch <- OneBatch
  Async = {order}
  Timed = {order}
  Modes <- Grouped
  MaxTurns = 1
INVARIANTS
  OneOutcome
PROPERTIES
  ResultRecorded
  ContextSettles
  OutcomeComes
  LLMHears
CHECK_DEADLOCK FALSE
