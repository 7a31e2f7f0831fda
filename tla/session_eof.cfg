\* The device has nothing more to say when the client closes.
SPECIFICATION FairSpec
CONSTANTS
  IdleTimers <- OffAndTwo
  PollInterval = 1
  MaxTime = 3
  MaxInputs = 1
  MaxSignals = 0
PROPERTY ExitOnSocketEOF
CHECK_DEADLOCK FALSE
