\* Reads and writes of any length, on both sides, and either side may close.
SPECIFICATION Spec
CONSTANTS
  RecvSize = 4
  CommandSize = 3
  ReadSize = 2
  MaxSent <- Sent
  MaxEmpty = 1
INVARIANTS DeviceGetsFrames AnswersFramed
PROPERTY EndsWithClient
CHECK_DEADLOCK FALSE
