\* Three processes find a stale lock.
SPECIFICATION Spec
CONSTANTS
  p1 = p1
  p2 = p2
  p3 = p3
  Proc <- ThreeProcs
  Ghost = Ghost
  Foreign = Foreign
  NoFile = NoFile
  InitialLock = Ghost
  Sleep = 3
  MaxDelay = 2
  Interrupted = FALSE
  MaxFailures = 0
INVARIANT MutualExclusion
CHECK_DEADLOCK FALSE
