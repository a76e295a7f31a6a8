SPECIFICATION Spec

CONSTANTS
  MaxTurns = 2
  MaxChunks = 1
  MaxMust = 1
  MaxInterrupts = 1

PROPERTY EndReaches

CHECK_DEADLOCK FALSE
