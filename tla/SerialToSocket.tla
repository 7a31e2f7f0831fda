--------------------------- MODULE SerialToSocket ---------------------------
(***************************************************************************)
(* The data path from the serial device to the network client:             *)
(* read_serial(), escape_iac_chars() and write_socket(), as the select     *)
(* loop of serial_ip_communication_process() calls them, one after the     *)
(* other, on serial_to_socket_buf.                                         *)
(*                                                                         *)
(* The serial device is the environment: it delivers any bytes of          *)
(* DeviceByte, at most MaxRead in one read().  The socket is in blocking   *)
(* mode, so a write() moves less than it was offered only when a signal    *)
(* interrupts it (Interrupted).  Two histories record what was read from   *)
(* the device and what was put on the wire.                                *)
(***************************************************************************)
EXTENDS Buffer, FiniteSets, SequencesExt

CONSTANTS
  DeviceByte,     \* the bytes the device sends
  MaxRead,        \* the most one read() of the device returns
  Interrupted,    \* may a signal interrupt a write()?
  noquote,        \* the command line option that turns escaping off
  MaxBytes        \* bound of the model: bytes read in one behaviour

ASSUME SerialAssumption ==
  /\ DeviceByte \subseteq Byte
  /\ MaxRead \in Nat \ {0}
  /\ Interrupted \in BOOLEAN
  /\ noquote \in BOOLEAN
  /\ MaxBytes \in Nat

VARIABLES
  pc,         \* "read", "write": the next call of the loop; "ended": it left it
  buf,        \* serial_to_socket_buf
  received,   \* history: the bytes read from the device
  wire,       \* history: the bytes written to the socket
  cut         \* history: has a write() moved less than it was offered?

vars == <<pc, buf, received, wire, cut>>

-----------------------------------------------------------------------------
(* escape_iac_chars: one IAC is inserted at each IAC of the whole active   *)
(* portion, which moves the read pointer once for each.                    *)

NumIAC(s) == Cardinality({i \in 1..Len(s) : s[i] = IAC})

Doubled(s) ==
  FlattenSeq([i \in 1..Len(s) |-> IF s[i] = IAC THEN <<IAC, IAC>> ELSE <<s[i]>>])

\* An escape that moves the pointer only, and one that stops at the first IAC.
EscapePointerOnly(b) == buffer_readpointer_position(b, NumIAC(Active(b)))
EscapeFirstOnly(b) == bfinsch(b, mystrchr(b, b.writep, IAC, b.nbuffered), IAC)

escape_iac_chars(b) ==
  buffer_readpointer_position(
    [b EXCEPT !.mem = Store(@, b.writep, Doubled(Active(b)))], NumIAC(Active(b)))

Escaped(b) == IF ~noquote /\ bfstrchr(b, IAC) THEN escape_iac_chars(b) ELSE b

-----------------------------------------------------------------------------
Init ==
  /\ pc = "read"
  /\ buf = bfmalloc
  /\ received = <<>>
  /\ wire = <<>>
  /\ cut = FALSE

\* read() returned some bytes.
ReadSerial ==
  /\ pc = "read"
  /\ \E n \in 1..MaxRead : \E data \in [1..n -> DeviceByte] :
       /\ n <= cal_numbytes_to_read(buf)
       /\ Len(received) + n <= MaxBytes
       /\ buf' = Escaped(Filled(buf, data))
       /\ received' = received \o data
  /\ pc' = "write"
  /\ UNCHANGED <<wire, cut>>

\* The buffer is full, or a signal interrupted the read(): no error.
ReadNothing ==
  /\ pc = "read"
  /\ cal_numbytes_to_read(buf) >= 0
  /\ pc' = "write"
  /\ UNCHANGED <<buf, received, wire, cut>>

\* End of file on the device, a failing read(), or a buffer whose read pointer
\* is past its tail: read_serial() reports an error and the loop ends.
ReadFails ==
  /\ pc = "read"
  /\ \/ cal_numbytes_to_read(buf) < 0 /\ UNCHANGED buf
     \/ cal_numbytes_to_read(buf) > 0 /\ buf' \in {buf, [buf EXCEPT !.eof = TRUE]}
  /\ pc' = "ended"
  /\ UNCHANGED <<received, wire, cut>>

\* write() moved n of the bytes it was offered.
WriteSocket ==
  /\ pc = "write"
  /\ \E n \in 0..cal_numbytes_to_write(buf) :
       /\ n < cal_numbytes_to_write(buf) => Interrupted
       /\ wire' = wire \o SubSeq(Active(buf), 1, n)
       /\ buf' = IF n > 0 THEN buffer_writepointer_position(buf, n) ELSE buf
       /\ cut' = (cut \/ n < cal_numbytes_to_write(buf))
  /\ pc' = "read"
  /\ UNCHANGED received

WriteFails ==
  /\ pc = "write"
  /\ cal_numbytes_to_write(buf) > 0
  /\ pc' = "ended"
  /\ UNCHANGED <<buf, received, wire, cut>>

Ended == pc = "ended" /\ UNCHANGED vars

Next == ReadSerial \/ ReadNothing \/ ReadFails \/ WriteSocket \/ WriteFails \/ Ended

Spec == Init /\ [][Next]_vars

-----------------------------------------------------------------------------
(* Properties *)

TypeOK ==
  /\ pc \in {"read", "write", "ended"} /\ cut \in BOOLEAN
  /\ buf \in BufferRecord /\ buf.readp <= Len(buf.mem)
  /\ received \in Seq(DeviceByte)
  /\ wire \in Seq(Byte)

\* What the client's telnet decoder makes of a byte stream: IAC IAC is a data
\* byte 255, an IAC before anything else starts a command that is not data.
DecodeStep(st, c) ==
  CASE st.iac /\ c = IAC  -> [out |-> Append(st.out, IAC), iac |-> FALSE]
    [] st.iac /\ c # IAC  -> [out |-> st.out, iac |-> FALSE]
    [] ~st.iac /\ c = IAC -> [out |-> st.out, iac |-> TRUE]
    [] OTHER              -> [out |-> Append(st.out, c), iac |-> FALSE]

DecodeState(s) == FoldLeft(DecodeStep, [out |-> <<>>, iac |-> FALSE], s)
Decoded(s) == DecodeState(s).out

\* The bytes of s that are not IAC.
Others(s) ==
  FlattenSeq([i \in 1..Len(s) |-> IF s[i] = IAC THEN <<>> ELSE <<s[i]>>])

Pending == wire \o Active(buf)

\* The serial buffer stays linear however reads, escapes and partial writes
\* alternate: the circular branches of cal_numbytes_to_read() and
\* cal_numbytes_to_write() are never taken.
BufferLinear == Linear(buf)

\* Until a write() is cut short, what the client decodes from the bytes written
\* and the bytes still buffered is exactly what the device sent, in order: each
\* IAC is escaped once.
TransparentUntilCut == ~cut => Decoded(Pending) = received

\* Whatever happens to IACs and however writes are cut, the other bytes of the
\* device reach the wire all, once and in order, and no IAC is forgotten.
OtherBytesPreserved ==
  /\ Others(Pending) = Others(received)
  /\ NumIAC(Pending) >= (IF noquote THEN 1 ELSE 2) * NumIAC(received)

\* Until a write() is cut short the buffer never holds more than one read, with
\* every IAC doubled: an allocation of twice the largest read is never overrun.
Headroom == ~cut => buf.readp <= 2 * MaxRead
=============================================================================
