\* An arbitrary client, and writes that may be cut short or fail.
SPECIFICATION Spec
CONSTANTS
  Size = 30
  Option <- Options
  MaxCuts = 1
  MaxMessages = 3
INVARIANTS SentOnce ModeFollowsBinary
CHECK_DEADLOCK FALSE
