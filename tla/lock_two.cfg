\* Two processes find a stale lock; either may die, and calls may fail.
SPECIFICATION FairSpec
CONSTANTS
  p1 = p1
  p2 = p2
  p3 = p3
  Proc <- TwoProcs
  Ghost = Ghost
  Foreign = Foreign
  NoFile = NoFile
  InitialLock = Ghost
  Sleep = 3
  MaxDelay = 2
  Interrupted = FALSE
  MaxFailures = 2
INVARIANTS MutualExclusion NoOrphan SomeoneWins
PROPERTIES ImplementsMutex AttemptsEnd
CHECK_DEADLOCK FALSE
