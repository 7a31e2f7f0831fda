\* A client that asks for each thing once and takes no for an answer.
SPECIFICATION ClientSpec
CONSTANTS
  Size = 30
  Option <- Options
  MaxCuts = 0
  MaxMessages = 0
  Persistent = FALSE
  MaxAsks = 2
INVARIANTS Agreement RequestsAnswered
PROPERTY Settles
CHECK_DEADLOCK FALSE
