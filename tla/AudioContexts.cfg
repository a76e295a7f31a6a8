SPECIFICATION Spec

CONSTANTS
  MaxTurns = 2
  MaxChunks = 1
  MaxMust = 1
  MaxInterrupts = 2

INVARIANTS
  ContextsReady

PROPERTIES
  NoStaleAudio
  PauseLifted
  MustEmitted
  StopDrains

CHECK_DEADLOCK FALSE
