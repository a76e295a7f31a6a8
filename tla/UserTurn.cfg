SPECIFICATION Spec

CONSTANTS
  SpeechTimers = {s1, s2, s3}
  SttTimers = {r1, r2}
  None = None
  MaxVad = 4
  MaxTexts = 3

INVARIANTS
  HeardAlike

PROPERTIES
  TurnEnds
  Answered

CHECK_DEADLOCK FALSE
