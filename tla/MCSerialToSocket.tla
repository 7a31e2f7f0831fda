-------------------------- MODULE MCSerialToSocket --------------------------
(* Small instances of SerialToSocket: one IAC and two ordinary bytes tell   *)
(* loss, duplication and reordering apart.                                  *)
EXTENDS SerialToSocket

Bytes3 == {IAC, 1, 2}
=============================================================================
