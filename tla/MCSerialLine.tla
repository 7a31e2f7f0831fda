---------------------------- MODULE MCSerialLine ----------------------------
(* SerialLine with files of a few lines. *)
EXTENDS SerialLine

Word(key, word) == [key |-> key, text |-> [word |-> word, num |-> 0]]
Num(key, num) == [key |-> key, text |-> [word |-> "a number", num |-> num]]

\* Lines for the server, for the ports, and lines that are not acceptable.
MCLines ==
  {Word("username", "nobody"), Word("group", "nobody"), Word("port", "ttyS0"),
   Num("speed", 19200), Num("baudrate", 1800), Num("databits", 7), Word("parity", "even"),
   Word("flow control", "xon/xoff"), Num("modemstate poll interval", 0), Num("idle timer", -1),
   [key |-> "group", text |-> NULL]}

MCAccounts == {"nobody"}
MCDirectories == {".", "/tmp", "/var/lock"}

\* Lines that nobody has set up: all flags off, and all on.
MCLeftovers ==
  {[speed |-> 1, csize |-> 5, parenb |-> FALSE, parodd |-> FALSE, cstopb |-> FALSE, cread |-> FALSE,
    crtscts |-> FALSE, ixon |-> FALSE, istrip |-> FALSE],
   [speed |-> 14, csize |-> 8, parenb |-> TRUE, parodd |-> TRUE, cstopb |-> TRUE, cread |-> TRUE,
    crtscts |-> TRUE, ixon |-> TRUE, istrip |-> TRUE]}

Ask(code, len, num) == [code |-> code, len |-> len, num |-> num]

\* Values that exist and values that do not, a question, a reply that the client
\* sends, a parameter of three bytes, and the question for the signature.
MCRequests ==
  {Ask(1, 4, 1200), Ask(1, 4, 1234), Ask(1, 4, 0), Ask(101, 4, 460800), Ask(1, 3, 1200),
   Ask(2, 1, 6), Ask(2, 1, 9), Ask(3, 1, 1), Ask(3, 1, 2), Ask(3, 1, 3), Ask(3, 1, 4),
   Ask(4, 1, 1), Ask(4, 1, 2), Ask(4, 1, 3), Ask(5, 1, 1), Ask(0, 0, 0)}
=============================================================================
