\* Signals may interrupt writes; the buffer is large enough for every re-escape.
SPECIFICATION Spec
CONSTANTS
  Size = 70
  DeviceByte <- Bytes3
  MaxRead = 2
  Interrupted = TRUE
  noquote = FALSE
  MaxBytes = 4
INVARIANTS TypeOK TransparentUntilCut OtherBytesPreserved BufferLinear Headroom
