\* Both sides send and close at any time, and two signals arrive.
SPECIFICATION FairSpec
CONSTANTS
  IdleTimers <- OffAndTwo
  PollInterval = 1
  MaxTime = 3
  MaxInputs = 2
  MaxSignals = 2
INVARIANTS LastPassRelays PortGivenBack
PROPERTIES ServesAsCountedOn IdleWasQuiet EndsInTime FatalSignalEnds
CHECK_DEADLOCK FALSE
