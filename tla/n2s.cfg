\* Reads end anywhere, signals cut writes short, and the buffer is smaller than
\* what is sent.
SPECIFICATION Spec
CONSTANTS
  Size = 8
  ClientToken <- Tokens
  SplitReads = TRUE
  Interrupted = TRUE
  ComPortEnabled = TRUE
  MaxTokens = 3
INVARIANTS TypeOK DataDeliveredUntorn CommandsActedOn NothingInvented
           StaysInside
PROPERTY ScanEnds
