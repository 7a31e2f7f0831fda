\* A read() may end inside a command.
SPECIFICATION Spec
CONSTANTS
  Size = 30
  ClientToken <- ShortTokens
  SplitReads = TRUE
  Interrupted = FALSE
  ComPortEnabled = TRUE
  MaxTokens = 3
INVARIANT DataDelivered
