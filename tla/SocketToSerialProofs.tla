------------------------ MODULE SocketToSerialProofs ------------------------
(***************************************************************************)
(* Proofs about the socket to serial path, for every buffer size, every    *)
(* set of client tokens, reads that end anywhere and interrupted writes:   *)
(* the scan and the buffer, the types, and, from the lemmas on tokens and  *)
(* on the parts of what is buffered, what the device and the server get;   *)
(* last, that the device gets nothing else, wherever reads and writes end. *)
(***************************************************************************)
EXTENDS SocketToSerial, BufferProofs

\* The inductive invariant: a linear buffer within its size, and a scan whose
\* window is the active portion from the IAC on.
ScanInv ==
  /\ IsBuffer(buf) /\ Linear(buf) /\ buf.readp <= Size
  /\ iac \in Nat /\ size \in Nat
  /\ ScanWindow

\* Where an iteration may go on: if enough is left for a command, the bytes
\* left are those up to the read pointer.
Resumable(c, from, left) ==
  /\ IsBuffer(c) /\ Linear(c) /\ c.readp <= Size
  /\ left >= 2 => c.writep <= from /\ from + left = c.readp

\* Wherever the loop resumes, the window holds again, no larger than what was left.
LEMMA ContinueKeepsWindow ==
  ASSUME NEW STATE c, NEW STATE from, NEW STATE left, from \in Nat, left \in Int,
         Resumable(c, from, left), Continue(c, from, left)
  PROVE  ScanInv' /\ (pc' = "parse" => size' <= left)
<1> DEFINE next == mystrchr(c, from, IAC, left)
           rest == left - (next - from)
<1>1. buf' = c
  BY DEF Continue
<1>2. CASE left >= 2 /\ next # NULL /\ rest >= 2
  <2>1. next \in Nat /\ from <= next /\ next < from + left
    BY <1>2, SearchBounds
  <2>2. pc' = "parse" /\ iac' = next /\ size' = rest
    BY <1>2 DEF Continue
  <2> HIDE DEF next
  <2>3. rest \in Nat /\ rest <= left /\ next + rest = from + left
    BY <1>2, <2>1
  <2> QED
    BY <1>1, <1>2, <2>1, <2>2, <2>3 DEF Resumable, ScanInv, ScanWindow, IsBuffer
<1>3. CASE ~(left >= 2 /\ next # NULL /\ rest >= 2)
  <2>1. pc' = "write" /\ iac' = 0 /\ size' = 0
    BY <1>3 DEF Continue
  <2> QED
    BY <1>1, <2>1 DEF Resumable, ScanInv, ScanWindow
<1> QED
  BY <1>2, <1>3

\* Removing n bytes at the start of the window and going on at "from".
LEMMA RemoveThenResume ==
  ASSUME NEW b, NEW p \in Nat, NEW sz \in Nat, IsBuffer(b), Linear(b), b.readp <= Size,
         b.writep <= p, p + sz = b.readp,
         NEW n \in Nat, NEW from \in Nat, NEW left \in Int,
         left >= 2 => n < sz /\ p <= from /\ from + left = (p + sz) - n
  PROVE  Resumable(bfrmstr(b, p, n), from, left)
<1> DEFINE c == bfrmstr(b, p, n)
<1>0. b.nbuffered = b.readp - b.writep /\ b.readp \in Nat /\ b.writep \in Nat
  BY DEF IsBuffer, Linear
<1>1. IsBuffer(c) /\ Linear(c) /\ c.readp <= b.readp
  BY RmstrLinear
<1>2. c.readp <= Size
  BY <1>0, <1>1, SizeAssumption DEF IsBuffer
<1>3. ASSUME left >= 2
      PROVE  c.writep <= from /\ from + left = c.readp
  <2>1. n < b.nbuffered /\ p + n <= b.readp
    BY <1>0, <1>3
  <2>2. Moved(b, c, -n)
    BY <2>1, RmstrMoves
  <2> QED
    BY <1>0, <1>3, <2>2 DEF Moved
<1> QED
  BY <1>1, <1>2, <1>3 DEF Resumable

\* One iteration of process_telnet_options(), whatever the command.
LEMMA ParseKeepsWindow ==
  ASSUME ScanInv, Parse
  PROVE  ScanInv' /\ (pc' = "parse" => size' < size)
<1>0. /\ pc = "parse" /\ buf.writep <= iac /\ iac + size = buf.readp /\ size >= 2
      /\ iac \in Nat /\ size \in Nat
      /\ IsBuffer(buf) /\ Linear(buf) /\ buf.readp <= Size
  BY DEF Parse, DoubleIAC, Negotiate, SubOption, OtherCommand, ScanInv, ScanWindow
<1>1. CASE DoubleIAC
  <2>1. /\ 1 \in Nat /\ iac + 1 \in Nat /\ size - 2 \in Int
        /\ size - 2 >= 2 => 1 < size /\ iac <= iac + 1 /\ (iac + 1) + (size - 2) = (iac + size) - 1
    BY <1>0
  <2>2. Resumable(bfrmstr(buf, iac, 1), iac + 1, size - 2)
    BY <1>0, <2>1, RemoveThenResume, Zenon
  <2>3. ScanInv' /\ (pc' = "parse" => size' <= size - 2)
    BY <1>1, <2>1, <2>2, ContinueKeepsWindow, Zenon DEF DoubleIAC
  <2> QED
    BY <1>0, <2>3 DEF ScanInv
<1>2. CASE Negotiate
  <2>1. /\ 3 \in Nat /\ size - 3 \in Int
        /\ size - 3 >= 2 => 3 < size /\ iac <= iac /\ iac + (size - 3) = (iac + size) - 3
    BY <1>0
  <2>2. Resumable(bfrmstr(buf, iac, 3), iac, size - 3)
    BY <1>0, <2>1, RemoveThenResume, Zenon
  <2>3. ScanInv' /\ (pc' = "parse" => size' <= size - 3)
    BY <1>0, <1>2, <2>1, <2>2, ContinueKeepsWindow, Zenon DEF Negotiate
  <2> QED
    BY <1>0, <2>3 DEF ScanInv
<1>3. CASE OtherCommand
  <2>1. /\ 2 \in Nat /\ size - 2 \in Int
        /\ size - 2 >= 2 => 2 < size /\ iac <= iac /\ iac + (size - 2) = (iac + size) - 2
    BY <1>0
  <2>2. Resumable(bfrmstr(buf, iac, 2), iac, size - 2)
    BY <1>0, <2>1, RemoveThenResume, Zenon
  <2>3. ScanInv' /\ (pc' = "parse" => size' <= size - 2)
    BY <1>0, <1>3, <2>1, <2>2, ContinueKeepsWindow, Zenon DEF OtherCommand
  <2> QED
    BY <1>0, <2>3 DEF ScanInv
<1>4. CASE SubOption
  <2> DEFINE se == mystrchr(buf, iac + 3, SE, size - 3)
             n  == se - iac + 1
  <2>1. CASE se # NULL
    <3>1. se \in Nat /\ iac + 3 <= se /\ se < iac + size
      BY <1>0, <2>1, SearchBounds
    <3>2. Continue(bfrmstr(buf, iac, n), iac, size - n)
      BY <1>4, <2>1 DEF SubOption
    <3> HIDE DEF se
    <3>3. /\ n \in Nat /\ size - n \in Int /\ n >= 4
          /\ size - n >= 2 => n < size /\ iac <= iac /\ iac + (size - n) = (iac + size) - n
      BY <1>0, <3>1
    <3> HIDE DEF n
    <3>4. Resumable(bfrmstr(buf, iac, n), iac, size - n)
      BY <1>0, <3>3, RemoveThenResume, Zenon
    <3>5. ScanInv' /\ (pc' = "parse" => size' <= size - n)
      BY <1>0, <3>2, <3>3, <3>4, ContinueKeepsWindow, Zenon
    <3> QED
      BY <1>0, <3>3, <3>5 DEF ScanInv
  <2>2. CASE se = NULL
    <3>1. Continue(buf, iac + 3, size - 3)
      BY <1>4, <2>2 DEF SubOption
    <3>2. Resumable(buf, iac + 3, size - 3) /\ iac + 3 \in Nat /\ size - 3 \in Int
      BY <1>0 DEF Resumable, IsBuffer
    <3>3. ScanInv' /\ (pc' = "parse" => size' <= size - 3)
      BY <3>1, <3>2, ContinueKeepsWindow, Zenon
    <3> QED
      BY <1>0, <3>3 DEF ScanInv
  <2> QED
    BY <2>1, <2>2
<1> QED
  BY <1>1, <1>2, <1>3, <1>4, Zenon DEF Parse

-----------------------------------------------------------------------------
LEMMA ScanInvInit == Init => ScanInv
BY MallocLinear, SizeAssumption
DEF Init, ScanInv, ScanWindow, bfmalloc, Rewound

\* A read() asks for no more than what is free, so the buffer stays within Size.
LEMMA FilledWithinSize ==
  ASSUME NEW b, IsBuffer(b), Linear(b), NEW data, Len(data) \in Nat \ {0},
         Len(data) <= cal_numbytes_to_read(b)
  PROVE  LET c == Filled(b, data) IN
         IsBuffer(c) /\ Linear(c) /\ c.readp <= Size
<1>1. Moved(b, Filled(b, data), Len(data))
  BY FilledLinear
<1>2. b.readp + Len(data) <= Size
  BY SizeAssumption DEF IsBuffer, Linear, cal_numbytes_to_read
<1> QED
  BY <1>1, <1>2 DEF Moved

LEMMA ScanInvNext == ScanInv /\ [Next]_vars => ScanInv'
<1> SUFFICES ASSUME ScanInv, [Next]_vars
             PROVE  ScanInv'
  OBVIOUS
<1>0. IsBuffer(buf) /\ Linear(buf) /\ buf.readp <= Size /\ iac \in Nat /\ size \in Nat
  BY DEF ScanInv
<1>1. CASE ReadSocket
  <2>1. PICK n \in 1..Len(stream) :
          /\ n <= cal_numbytes_to_read(buf)
          /\ LET b == Filled(buf, SubSeq(stream, 1, n)) IN
             IF bfstrchr(b, IAC)
             THEN Continue(b, b.writep, b.nbuffered)
             ELSE buf' = b /\ pc' = "write" /\ UNCHANGED <<iac, size>>
    BY <1>1 DEF ReadSocket
  <2> DEFINE data == SubSeq(stream, 1, n)
             b == Filled(buf, data)
  <2>2. Len(data) = n /\ n \in Nat \ {0}
    OBVIOUS
  <2>3. IsBuffer(b) /\ Linear(b) /\ b.readp <= Size
    BY <1>0, <2>1, <2>2, FilledWithinSize
  <2> HIDE DEF b
  <2>4. CASE bfstrchr(b, IAC)
    <3>1. b.writep \in Nat /\ b.nbuffered \in Int /\ Resumable(b, b.writep, b.nbuffered)
      BY <2>3 DEF Resumable, IsBuffer, Linear
    <3>2. Continue(b, b.writep, b.nbuffered)
      BY <2>1, <2>4 DEF b
    <3> QED
      BY <3>1, <3>2, ContinueKeepsWindow, Zenon
  <2>5. CASE ~bfstrchr(b, IAC)
    <3>1. buf' = b /\ pc' = "write" /\ UNCHANGED <<iac, size>>
      BY <2>1, <2>5 DEF b
    <3> QED
      BY <1>0, <2>3, <3>1 DEF ScanInv, ScanWindow
  <2> QED
    BY <2>4, <2>5
<1>2. CASE ReadNothing
  BY <1>2 DEF ReadNothing, ScanInv, ScanWindow
<1>3. CASE ReadFails
  <2> DEFINE c == [buf EXCEPT !.eof = TRUE]
  <2>1. /\ c.mem = buf.mem /\ c.nbuffered = buf.nbuffered
        /\ c.readp = buf.readp /\ c.writep = buf.writep /\ c.eof = TRUE
    BY <1>0 DEF IsBuffer
  <2>2. IsBuffer(c)
    BY <1>0, <2>1, Zenon DEF IsBuffer
  <2>3. Linear(c) /\ c.readp <= Size
    BY <1>0, <2>1 DEF Linear
  <2>4. buf' \in {buf, c} /\ pc' = "ended" /\ UNCHANGED <<iac, size>>
    BY <1>3 DEF ReadFails
  <2> HIDE DEF c
  <2> QED
    BY <1>0, <2>2, <2>3, <2>4 DEF ScanInv, ScanWindow
<1>4. CASE Parse
  BY <1>4, ParseKeepsWindow
<1>5. CASE WriteSerial
  <2>1. PICK n \in 0..cal_numbytes_to_write(buf) :
          buf' = IF n > 0 THEN buffer_writepointer_position(buf, n) ELSE buf
    BY <1>5 DEF WriteSerial
  <2>2. n \in Nat /\ n <= buf.nbuffered
    BY <1>0, <2>1 DEF IsBuffer, Linear, cal_numbytes_to_write
  <2>3. IsBuffer(buf') /\ Linear(buf') /\ buf'.readp <= buf.readp
    <3>1. CASE n > 0
      BY <1>0, <2>1, <2>2, <3>1, WritePointerLinear
    <3>2. CASE n = 0
      BY <1>0, <2>1, <3>2 DEF IsBuffer
    <3> QED
      BY <2>2, <3>1, <3>2
  <2>4. buf'.readp <= Size
    BY <1>0, <2>3, SizeAssumption DEF IsBuffer
  <2> QED
    BY <1>0, <1>5, <2>3, <2>4 DEF WriteSerial, ScanInv, ScanWindow
<1>6. CASE WriteFails
  BY <1>6 DEF WriteFails, ScanInv, ScanWindow
<1>7. CASE Ended \/ ClientSends \/ UNCHANGED vars
  BY <1>7 DEF Ended, ClientSends, vars, ScanInv, ScanWindow
<1> QED
  BY <1>1, <1>2, <1>3, <1>4, <1>5, <1>6, <1>7, Zenon DEF Next

\* socket_to_serial_buf stays linear and never holds more than its size, and the
\* scan of process_telnet_options() always works on exactly the bytes from its IAC
\* to the read pointer, however reads and writes are cut.
THEOREM SocketStaysInside == Spec => []StaysInside
<1>1. ScanInv => StaysInside
  BY DEF ScanInv, StaysInside, BufferLinear, InsideAllocation
<1> QED
  BY <1>1, ScanInvInit, ScanInvNext, PTL DEF Spec

\* Every iteration of process_telnet_options() shortens what is left to scan,
\* so the loop cannot run forever on any input.
THEOREM ScanAlwaysProgresses == Spec => ScanProgress
<1>1. ScanInv /\ [Next]_vars => [pc = "parse" /\ pc' = "parse" => size' < size]_<<pc, buf, iac, size>>
  <2> SUFFICES ASSUME ScanInv, [Next]_vars, pc = "parse", pc' = "parse",
                      <<pc, buf, iac, size>>' # <<pc, buf, iac, size>>
               PROVE  size' < size
    BY Zenon
  <2>1. CASE Parse
    BY <2>1, ParseKeepsWindow
  <2>2. CASE ~Parse
    BY <2>2 DEF Next, ReadSocket, ReadNothing, ReadFails, WriteSerial, WriteFails, Ended,
                ClientSends, vars
  <2> QED
    BY <2>1, <2>2
<1> QED
  BY <1>1, ScanInvInit, ScanInvNext, PTL DEF Spec, ScanProgress

-----------------------------------------------------------------------------
(* Types *)

\* What was read is a part of what was sent, and the rest stays to be read.
LEMMA StreamParts ==
  ASSUME NEW n \in 1..Len(stream), stream \in Seq(Byte)
  PROVE  /\ SubSeq(stream, 1, n) \in Seq(Byte) /\ Len(SubSeq(stream, 1, n)) = n
         /\ SubSeq(stream, n + 1, Len(stream)) \in Seq(Byte)
         /\ Len(SubSeq(stream, n + 1, Len(stream))) = Len(stream) - n
         /\ stream = SubSeq(stream, 1, n) \o SubSeq(stream, n + 1, Len(stream))
<1>1. /\ SubSeq(stream, 1, n) \in Seq(Byte) /\ Len(SubSeq(stream, 1, n)) = n
      /\ SubSeq(stream, n + 1, Len(stream)) \in Seq(Byte)
      /\ Len(SubSeq(stream, n + 1, Len(stream))) = Len(stream) - n
  OBVIOUS
<1>2. /\ 1 \in 1..(Len(stream) + 1) /\ n \in (1 - 1)..Len(stream)
      /\ Len(stream) \in n..Len(stream)
  OBVIOUS
<1>3. SubSeq(stream, 1, n) \o SubSeq(stream, n + 1, Len(stream)) = SubSeq(stream, 1, Len(stream))
  BY <1>2, ConcatAdjacentSubSeq
<1>4. SubSeq(stream, 1, Len(stream)) = stream
  BY SubSeqFull
<1> QED
  BY <1>1, <1>3, <1>4

\* The buffer after a command or one byte of an escaped IAC was removed.
LEMMA ParseKeepsWhole ==
  ASSUME Whole(buf), iac \in Nat, size \in Nat, Parse
  PROVE  Whole(buf') /\ pc' \in {"parse", "write"}
<1>1. \A n \in Nat : Whole(bfrmstr(buf, iac, n))
  <2>1. ASSUME NEW n \in Nat PROVE Whole(bfrmstr(buf, iac, n))
    BY RmstrWhole
  <2> QED
    BY <2>1
<1>2. CASE DoubleIAC
  BY <1>1, <1>2 DEF DoubleIAC, Continue
<1>3. CASE Negotiate
  BY <1>1, <1>3 DEF Negotiate, Continue
<1>4. CASE OtherCommand
  BY <1>1, <1>4 DEF OtherCommand, Continue
<1>5. CASE SubOption
  <2> DEFINE se == mystrchr(buf, iac + 3, SE, size - 3)
             n  == se - iac + 1
  <2>1. CASE se # NULL
    <3>1. Continue(bfrmstr(buf, iac, n), iac, size - n)
      BY <1>5, <2>1 DEF SubOption
    <3>2. iac + 3 \in Nat /\ size - 3 \in Int
      OBVIOUS
    <3>3. se \in Nat /\ iac + 3 <= se
      BY <2>1, <3>2, SearchBounds
    <3> HIDE DEF se
    <3>4. n \in Nat
      BY <3>3
    <3> HIDE DEF n
    <3> QED
      BY <1>1, <3>1, <3>4 DEF Continue
  <2>2. CASE se = NULL
    BY <1>5, <2>2 DEF SubOption, Continue
  <2> QED
    BY <2>1, <2>2
<1> QED
  BY <1>2, <1>3, <1>4, <1>5 DEF Parse

\* What is recorded of a command is two bytes, even when the scan looks past
\* the end of the active portion.
LEMMA ParseActs ==
  ASSUME Whole(buf), iac \in Nat, acted \in Seq(Byte \X Byte), Parse
  PROVE  acted' \in Seq(Byte \X Byte)
<1>1. optcode \in Byte /\ option \in Byte /\ SB \in Byte
  BY AtByte DEF optcode, option, Byte, SB
<1>2. CASE Negotiate
  BY <1>1, <1>2 DEF Negotiate
<1>3. CASE SubOption
  BY <1>1, <1>3 DEF SubOption
<1>4. CASE DoubleIAC \/ OtherCommand
  BY <1>4 DEF DoubleIAC, OtherCommand
<1> QED
  BY <1>2, <1>3, <1>4 DEF Parse

LEMMA WholeWithScan == ScanInv /\ TypeOK => Whole(buf)
BY DEF ScanInv, TypeOK, Whole

LEMMA TypesInit == Init => TypeOK
<1>1. Whole(bfmalloc)
  BY MallocWhole
<1>2. <<>> \in Seq(Byte) /\ <<>> \in Seq(ClientToken) /\ <<>> \in Seq(Byte \X Byte)
  BY EmptySeq
<1>3. Init => Whole(buf) /\ pc = "read" /\ iac = 0 /\ size = 0
  BY <1>1 DEF Init
<1>4. Init => /\ stream \in Seq(Byte) /\ port \in Seq(Byte) /\ sent \in Seq(ClientToken)
              /\ acted \in Seq(Byte \X Byte) /\ torn \in BOOLEAN
  BY <1>2, Zenon DEF Init
<1> QED
  BY <1>3, <1>4 DEF TypeOK, Whole

LEMMA TypesNext == ScanInv /\ TypeOK /\ [Next]_vars => TypeOK'
<1> SUFFICES ASSUME ScanInv, TypeOK, [Next]_vars
             PROVE  TypeOK'
  OBVIOUS
<1>whole. Whole(buf)
  BY WholeWithScan
<1>nums. iac' \in Nat /\ size' \in Nat
  BY ScanInvNext DEF ScanInv
<1>types. /\ pc \in {"read", "parse", "write", "ended"} /\ stream \in Seq(Byte)
          /\ port \in Seq(Byte) /\ sent \in Seq(ClientToken) /\ acted \in Seq(Byte \X Byte)
          /\ torn \in BOOLEAN /\ iac \in Nat /\ size \in Nat
  BY DEF TypeOK
<1>goal. /\ Whole(buf') /\ pc' \in {"read", "parse", "write", "ended"} /\ stream' \in Seq(Byte)
         /\ port' \in Seq(Byte) /\ sent' \in Seq(ClientToken) /\ acted' \in Seq(Byte \X Byte)
         /\ torn' \in BOOLEAN
         => TypeOK'
  BY <1>nums DEF TypeOK, Whole
<1>1. CASE ReadSocket
  <2>1. PICK n \in 1..Len(stream) :
          /\ LET b == Filled(buf, SubSeq(stream, 1, n)) IN
             IF bfstrchr(b, IAC)
             THEN Continue(b, b.writep, b.nbuffered)
             ELSE buf' = b /\ pc' = "write" /\ UNCHANGED <<iac, size>>
          /\ stream' = SubSeq(stream, n + 1, Len(stream))
          /\ torn' = (torn \/ ~TokenBoundary(Len(stream) - n))
    BY <1>1 DEF ReadSocket
  <2> DEFINE data == SubSeq(stream, 1, n)
             b == Filled(buf, data)
  <2>2. data \in Seq(Byte) /\ stream' \in Seq(Byte)
    BY <1>types, <2>1, StreamParts
  <2>3. Whole(b)
    BY <1>whole, <2>2, FilledWhole
  <2>4. buf' = b /\ pc' \in {"parse", "write"}
    BY <2>1 DEF Continue
  <2>5. torn' \in BOOLEAN
    BY <2>1, Zenon DEF TokenBoundary
  <2>6. UNCHANGED <<sent, port, acted>>
    BY <1>1 DEF ReadSocket
  <2> HIDE DEF b
  <2> QED
    BY <1>goal, <1>types, <2>2, <2>3, <2>4, <2>5, <2>6
<1>2. CASE ReadNothing
  BY <1>2, <1>goal, <1>types, <1>whole DEF ReadNothing
<1>3. CASE ReadFails
  <2>1. Whole(buf')
    <3>1. Whole([buf EXCEPT !.eof = TRUE])
      BY <1>whole, EofWhole
    <3>2. buf' \in {buf, [buf EXCEPT !.eof = TRUE]}
      BY <1>3 DEF ReadFails
    <3> QED
      BY <1>whole, <3>1, <3>2
  <2> QED
    BY <1>3, <1>goal, <1>types, <2>1 DEF ReadFails
<1>4. CASE Parse
  <2>1. Whole(buf') /\ pc' \in {"parse", "write"} /\ acted' \in Seq(Byte \X Byte)
    BY <1>4, <1>types, <1>whole, ParseKeepsWhole, ParseActs
  <2>2. UNCHANGED <<stream, sent, port, torn>>
    BY <1>4 DEF Parse, DoubleIAC, Negotiate, SubOption, OtherCommand
  <2> QED
    BY <1>goal, <1>types, <2>1, <2>2
<1>5. CASE WriteSerial
  <2>1. PICK n \in 0..cal_numbytes_to_write(buf) :
          /\ port' = port \o SubSeq(Active(buf), 1, n)
          /\ buf' = IF n > 0 THEN buffer_writepointer_position(buf, n) ELSE buf
          /\ torn' = (torn \/ n < cal_numbytes_to_write(buf))
    BY <1>5 DEF WriteSerial
  <2>2. n \in Nat /\ n <= buf.nbuffered
    BY <1>whole, <2>1, WholeIsBuffer DEF Linear, cal_numbytes_to_write
  <2>3. Whole(buf')
    <3>1. Whole(buffer_writepointer_position(buf, n))
      BY <1>whole, <2>2, WriteWhole
    <3> QED
      BY <1>whole, <2>1, <3>1
  <2>4. SubSeq(Active(buf), 1, n) \in Seq(Byte)
    <3>1. Active(buf) \in Seq(Byte) /\ n <= Len(Active(buf))
      BY <1>whole, <2>2, ActiveOfWhole
    <3> QED
      BY <2>2, <3>1
  <2>5. port' \in Seq(Byte)
    BY <1>types, <2>1, <2>4
  <2>6. torn' \in BOOLEAN
    BY <2>1, Zenon
  <2>7. pc' = "read" /\ UNCHANGED <<stream, sent, acted>>
    BY <1>5 DEF WriteSerial
  <2> QED
    BY <1>goal, <1>types, <2>3, <2>5, <2>6, <2>7
<1>6. CASE WriteFails
  BY <1>6, <1>goal, <1>types, <1>whole DEF WriteFails
<1>7. CASE ClientSends
  <2>1. PICK token \in ClientToken : stream' = stream \o token /\ sent' = Append(sent, token)
    BY <1>7 DEF ClientSends
  <2>2. token \in Seq(Byte)
    BY ClientAssumption
  <2>3. stream' \in Seq(Byte) /\ sent' \in Seq(ClientToken)
    BY <1>types, <2>1, <2>2
  <2> QED
    BY <1>7, <1>goal, <1>types, <1>whole, <2>3 DEF ClientSends
<1>8. CASE Ended \/ UNCHANGED vars
  BY <1>8, <1>goal, <1>types, <1>whole DEF Ended, vars
<1> QED
  BY <1>1, <1>2, <1>3, <1>4, <1>5, <1>6, <1>7, <1>8, Zenon DEF Next

\* Every variable of the path to the device keeps its type, for any buffer size,
\* any tokens, reads that end anywhere and writes that are cut: what is recorded
\* of a command is two bytes, also where the scan reads past the active portion.
THEOREM SocketTypeCorrect == Spec => []TypeOK
BY ScanInvInit, ScanInvNext, TypesInit, TypesNext, PTL DEF Spec
-----------------------------------------------------------------------------
(* What a sequence of tokens stands for *)

\* Associative, for the two kinds of sequences there are here.
LEMMA BytesAssociative ==
  ASSUME NEW p \in Seq(Byte), NEW q \in Seq(Byte), NEW r \in Seq(Byte)
  PROVE  (p \o q) \o r = p \o (q \o r)
BY Associative

LEMMA TokensAssociative ==
  ASSUME NEW p \in Seq(ClientToken), NEW q \in Seq(ClientToken), NEW r \in Seq(ClientToken)
  PROVE  (p \o q) \o r = p \o (q \o r)
BY Associative

\* f[t] for every token t, one after the other.
FlatMap(f, ts) == FlattenSeq([i \in 1..Len(ts) |-> f[ts[i]]])

\* The sequences a map gives for the tokens.
LEMMA FlatMapParts ==
  ASSUME NEW T, NEW Y, NEW f \in [T -> Seq(Y)], NEW ts \in Seq(T)
  PROVE  /\ [i \in 1..Len(ts) |-> f[ts[i]]] \in Seq(Seq(Y))
         /\ Len([i \in 1..Len(ts) |-> f[ts[i]]]) = Len(ts)
<1>1. \A i \in 1..Len(ts) : f[ts[i]] \in Seq(Y)
  OBVIOUS
<1>2. [i \in 1..Len(ts) |-> f[ts[i]]] \in [1..Len(ts) -> Seq(Y)]
  BY <1>1
<1>3. Len(ts) \in Nat
  OBVIOUS
<1> QED
  BY <1>2, <1>3

\* What tokens stand for is a sequence ...
LEMMA FlatMapType ==
  ASSUME NEW T, NEW Y, NEW f \in [T -> Seq(Y)], NEW ts \in Seq(T)
  PROVE  FlatMap(f, ts) \in Seq(Y)
<1> DEFINE u == [i \in 1..Len(ts) |-> f[ts[i]]]
<1>1. u \in Seq(Seq(Y))
  BY FlatMapParts
<1> HIDE DEF u
<1>2. FlattenSeq(u) \in Seq(Y)
  BY <1>1, FlattenSeqType
<1> QED
  BY <1>2, Zenon DEF FlatMap, u

\* ... the empty one for no token ...
LEMMA FlatMapNone ==
  ASSUME NEW f
  PROVE  FlatMap(f, <<>>) = <<>>
<1>1. [i \in 1..Len(<<>>) |-> f[<<>>[i]]] = <<>>
  OBVIOUS
<1>2. <<>> \in Seq(Seq(Int))
  BY EmptySeq
<1>3. FlattenSeq(<<>>) = <<>>
  BY <1>2, FlattenSeqType
<1> QED
  BY <1>1, <1>3, Zenon DEF FlatMap

\* ... and for two sequences of tokens, one after the other ...
LEMMA FlatMapConcat ==
  ASSUME NEW T, NEW Y, NEW f \in [T -> Seq(Y)], NEW ss \in Seq(T), NEW ts \in Seq(T)
  PROVE  FlatMap(f, ss \o ts) = FlatMap(f, ss) \o FlatMap(f, ts)
<1> DEFINE u == [i \in 1..Len(ss) |-> f[ss[i]]]
           v == [i \in 1..Len(ts) |-> f[ts[i]]]
           w == [i \in 1..Len(ss \o ts) |-> f[(ss \o ts)[i]]]
<1>1. u \in Seq(Seq(Y)) /\ Len(u) = Len(ss)
  BY FlatMapParts
<1>2. v \in Seq(Seq(Y)) /\ Len(v) = Len(ts)
  BY FlatMapParts
<1>3. /\ ss \o ts \in Seq(T) /\ Len(ss \o ts) = Len(ss) + Len(ts)
      /\ Len(ss) \in Nat /\ Len(ts) \in Nat
  OBVIOUS
<1>4. w \in Seq(Seq(Y)) /\ Len(w) = Len(ss \o ts)
  <2> DEFINE r == ss \o ts
  <2>1. r \in Seq(T)
    BY <1>3
  <2> HIDE DEF r
  <2>2. [i \in 1..Len(r) |-> f[r[i]]] \in Seq(Seq(Y)) /\ Len([i \in 1..Len(r) |-> f[r[i]]]) = Len(r)
    BY <2>1, FlatMapParts
  <2> QED
    BY <2>2, Zenon DEF r
<1>5. u \o v \in Seq(Seq(Y)) /\ Len(u \o v) = Len(u) + Len(v)
  BY <1>1, <1>2, ConcatProperties, Zenon
<1>6. ASSUME NEW i \in 1..(Len(ss) + Len(ts))
      PROVE  w[i] = (u \o v)[i]
  <2>1. w[i] = f[(ss \o ts)[i]]
    BY <1>3
  <2>2. CASE i <= Len(ss)
    <3>1. (ss \o ts)[i] = ss[i] /\ i \in 1..Len(ss)
      BY <2>2
    <3>2. u[i] = f[ss[i]]
      BY <3>1
    <3>3. (u \o v)[i] = u[i]
      <4> HIDE DEF u, v
      <4> QED
        BY <1>1, <1>2, <3>1
    <3> QED
      BY <2>1, <3>1, <3>2, <3>3, Zenon
  <2>3. CASE ~(i <= Len(ss))
    <3>1. (ss \o ts)[i] = ts[i - Len(ss)] /\ i - Len(ss) \in 1..Len(ts)
      BY <2>3
    <3>2. v[i - Len(ss)] = f[ts[i - Len(ss)]]
      BY <3>1
    <3>3. (u \o v)[i] = v[i - Len(ss)]
      <4> HIDE DEF u, v
      <4> QED
        BY <1>1, <1>2, <1>3, <2>3
    <3> QED
      BY <2>1, <3>1, <3>2, <3>3, Zenon
  <2> QED
    BY <2>2, <2>3
<1> HIDE DEF u, v, w
<1>7. w = u \o v
  <2>1. Len(w) = Len(u \o v) /\ \A i \in 1..Len(w) : w[i] = (u \o v)[i]
    BY <1>1, <1>2, <1>3, <1>4, <1>5, <1>6
  <2> QED
    BY <1>4, <1>5, <2>1, SeqEqual
<1>8. FlattenSeq(w) = FlattenSeq(u) \o FlattenSeq(v)
  BY <1>1, <1>2, <1>7, FlattenSeqConcat
<1> QED
  BY <1>8, Zenon DEF FlatMap, u, v, w

\* ... and for one token what the map gives for it.
LEMMA FlatMapOne ==
  ASSUME NEW T, NEW Y, NEW f \in [T -> Seq(Y)], NEW t \in T
  PROVE  FlatMap(f, <<t>>) = f[t]
<1>1. [i \in 1..Len(<<t>>) |-> f[<<t>>[i]]] = <<f[t]>>
  OBVIOUS
<1>2. /\ <<>> \in Seq(Seq(Y)) /\ f[t] \in Seq(Y) /\ Append(<<>>, f[t]) = <<f[t]>>
  OBVIOUS
<1>3. FlattenSeq(<<f[t]>>) = FlattenSeq(<<>>) \o f[t] /\ FlattenSeq(<<>>) = <<>>
  <2>1. FlattenSeq(Append(<<>>, f[t])) = FlattenSeq(<<>>) \o f[t]
    BY <1>2, FlattenSeqAppend
  <2>2. FlattenSeq(<<>>) = <<>>
    BY <1>2, FlattenSeqType
  <2> QED
    BY <1>2, <2>1, <2>2, Zenon
<1>4. <<>> \o f[t] = f[t]
  BY <1>2, ConcatEmptySeq
<1> QED
  BY <1>1, <1>3, <1>4, Zenon DEF FlatMap
-----------------------------------------------------------------------------
(* Tokens: data, and commands *)

DataToken == {t \in ClientToken : IsData(t)}
CommandToken == {t \in ClientToken : t[1] = IAC}

Datas(ts) == FlattenSeq([i \in 1..Len(ts) |-> TokenData(ts[i])])
Commands(ts) == FlattenSeq([i \in 1..Len(ts) |-> TokenCommand(ts[i])])

DataOf == [t \in ClientToken |-> TokenData(t)]
CommandOf == [t \in ClientToken |-> TokenCommand(t)]

\* The client's tokens are those of the telnet protocol.
Telnet == \A t \in ClientToken : WellFormed(t)

\* The codes of the protocol are bytes, and are told apart.
LEMMA CodesAreBytes ==
  /\ IAC \in Byte /\ SB \in Byte /\ SE \in Byte /\ OptCode \subseteq Byte
  /\ SB # IAC /\ SE # IAC /\ SB \notin OptCode /\ IAC \notin OptCode /\ SE # NULL
BY DEF IAC, SB, SE, OptCode, WILL, WONT, DO, DONT, Byte, NULL

LEMMA TokenIsBytes ==
  ASSUME NEW t \in ClientToken
  PROVE  t \in Seq(Byte)
BY ClientAssumption

\* Which tokens are data: those that do not begin with IAC.
LEMMA TokenKinds ==
  ASSUME Telnet, NEW t \in ClientToken
  PROVE  /\ Len(t) \in Nat /\ Len(t) >= 1
         /\ t \in CommandToken => Len(t) >= 2
         /\ t \notin CommandToken => t \in DataToken
         /\ t \in DataToken => t \notin CommandToken
<1>1. t \in Seq(Byte) /\ Len(t) \in Nat
  BY TokenIsBytes
<1>2. WellFormed(t)
  BY DEF Telnet
<1>3. CASE IsData(t)
  <2>1. Len(t) >= 1
    BY <1>1, <1>3, EmptySeq DEF IsData
  <2>2. t[1] # IAC
    BY <1>1, <1>3, <2>1 DEF IsData
  <2> QED
    BY <1>1, <1>3, <2>1, <2>2, Zenon DEF DataToken, CommandToken
<1>4. CASE ~IsData(t)
  <2>1. Len(t) >= 2 /\ t[1] = IAC
    BY <1>1, <1>2, <1>4 DEF WellFormed, IsRequest, IsSuboption, IsShort
  <2>2. t \in CommandToken /\ t \notin DataToken
    BY <1>4, <2>1 DEF CommandToken, DataToken
  <2> QED
    BY <1>1, <2>1, <2>2
<1> QED
  BY <1>3, <1>4

\* A token stands for bytes, and for commands of two bytes.
LEMMA TokenDataType ==
  ASSUME Telnet, NEW t \in ClientToken
  PROVE  TokenData(t) \in Seq(Byte) /\ TokenCommand(t) \in Seq(Seq(Byte))
<1>1. t \in Seq(Byte)
  BY TokenIsBytes
<1>2. TokenData(t) \in Seq(Byte)
  <2>1. <<IAC>> \in Seq(Byte) /\ <<>> \in Seq(Byte)
    BY CodesAreBytes
  <2> QED
    BY <1>1, <2>1 DEF TokenData
<1>3. TokenCommand(t) \in Seq(Seq(Byte))
  <2>1. CASE TokenCommand(t) = <<>>
    BY <2>1
  <2>2. CASE TokenCommand(t) # <<>>
    <3>1. /\ TokenCommand(t) = <<SubSeq(t, 2, 3)>>
          /\ t[1] = IAC /\ (t[2] \in OptCode \/ t[2] = SB)
      BY <2>2 DEF TokenCommand
    <3>2. IsRequest(t) \/ IsSuboption(t)
      <4>1. t \in CommandToken
        BY <3>1 DEF CommandToken
      <4>2. ~IsData(t)
        BY <4>1, TokenKinds DEF DataToken
      <4>3. t # <<IAC, IAC>>
        BY <3>1, CodesAreBytes
      <4>4. ~IsShort(t)
        BY <3>1 DEF IsShort
      <4> QED
        BY <4>2, <4>3, <4>4 DEF Telnet, WellFormed
    <3>3. Len(t) >= 3
      <4>1. IsRequest(t) => Len(t) = 3
        BY DEF IsRequest
      <4>2. IsSuboption(t) => Len(t) >= 5
        BY DEF IsSuboption
      <4>3. Len(t) \in Nat
        BY <1>1
      <4> QED
        BY <3>2, <4>1, <4>2, <4>3
    <3>4. SubSeq(t, 2, 3) \in Seq(Byte)
      BY <1>1, <3>3
    <3> QED
      BY <3>1, <3>4
  <2> QED
    BY <2>1, <2>2
<1> QED
  BY <1>2, <1>3

\* The two maps, and that SentData and SentCommands are made of them.
LEMMA MapsOfTokens ==
  ASSUME Telnet
  PROVE  /\ DataOf \in [ClientToken -> Seq(Byte)]
         /\ CommandOf \in [ClientToken -> Seq(Seq(Byte))]
BY TokenDataType DEF DataOf, CommandOf

LEMMA MapsAgree ==
  ASSUME NEW ts \in Seq(ClientToken)
  PROVE  Datas(ts) = FlatMap(DataOf, ts) /\ Commands(ts) = FlatMap(CommandOf, ts)
<1>1. \A i \in 1..Len(ts) : DataOf[ts[i]] = TokenData(ts[i]) /\ CommandOf[ts[i]] = TokenCommand(ts[i])
  BY DEF DataOf, CommandOf
<1>2. [i \in 1..Len(ts) |-> TokenData(ts[i])] = [i \in 1..Len(ts) |-> DataOf[ts[i]]]
  BY <1>1
<1>3. [i \in 1..Len(ts) |-> TokenCommand(ts[i])] = [i \in 1..Len(ts) |-> CommandOf[ts[i]]]
  BY <1>1
<1> QED
  BY <1>2, <1>3, Zenon DEF Datas, Commands, FlatMap

\* What tokens stand for, one after the other.
LEMMA DatasConcat ==
  ASSUME Telnet, NEW ss \in Seq(ClientToken), NEW ts \in Seq(ClientToken)
  PROVE  /\ Datas(ss \o ts) = Datas(ss) \o Datas(ts)
         /\ Commands(ss \o ts) = Commands(ss) \o Commands(ts)
         /\ Datas(ss) \in Seq(Byte) /\ Commands(ss) \in Seq(Seq(Byte))
<1> DEFINE r == ss \o ts
<1>0. /\ DataOf \in [ClientToken -> Seq(Byte)]
      /\ CommandOf \in [ClientToken -> Seq(Seq(Byte))]
  BY MapsOfTokens
<1>1. r \in Seq(ClientToken)
  OBVIOUS
<1>c. ASSUME NEW Y, NEW f \in [ClientToken -> Seq(Y)]
      PROVE  FlatMap(f, ss \o ts) = FlatMap(f, ss) \o FlatMap(f, ts)
  BY FlatMapConcat
<1>2. FlatMap(DataOf, ss \o ts) = FlatMap(DataOf, ss) \o FlatMap(DataOf, ts)
  BY <1>0, <1>c, Zenon
<1>3. FlatMap(CommandOf, ss \o ts) = FlatMap(CommandOf, ss) \o FlatMap(CommandOf, ts)
  BY <1>0, <1>c, Zenon
<1>4. FlatMap(DataOf, ss) \in Seq(Byte) /\ FlatMap(CommandOf, ss) \in Seq(Seq(Byte))
  BY MapsOfTokens, FlatMapType
<1>5. Datas(r) = FlatMap(DataOf, r) /\ Commands(r) = FlatMap(CommandOf, r)
  <2> HIDE DEF r
  <2> QED
    BY <1>1, MapsAgree, Zenon
<1>6. /\ Datas(ss) = FlatMap(DataOf, ss) /\ Commands(ss) = FlatMap(CommandOf, ss)
      /\ Datas(ts) = FlatMap(DataOf, ts) /\ Commands(ts) = FlatMap(CommandOf, ts)
  BY MapsAgree, Zenon
<1> QED
  BY <1>2, <1>3, <1>4, <1>5, <1>6, Zenon

\* One token, and none.
LEMMA DatasOne ==
  ASSUME Telnet, NEW t \in ClientToken
  PROVE  Datas(<<t>>) = TokenData(t) /\ Commands(<<t>>) = TokenCommand(t)
<1> DEFINE r == <<t>>
<1>1. r \in Seq(ClientToken)
  OBVIOUS
<1>2. FlatMap(DataOf, r) = TokenData(t)
  BY MapsOfTokens, FlatMapOne DEF DataOf
<1>3. FlatMap(CommandOf, r) = TokenCommand(t)
  BY MapsOfTokens, FlatMapOne DEF CommandOf
<1> HIDE DEF r
<1>4. Datas(r) = TokenData(t) /\ Commands(r) = TokenCommand(t)
  BY <1>1, <1>2, <1>3, MapsAgree, Zenon
<1> QED
  BY <1>4 DEF r

LEMMA DatasNone == Datas(<<>>) = <<>> /\ Commands(<<>>) = <<>>
<1>1. <<>> \in Seq(ClientToken)
  BY EmptySeq
<1> QED
  BY <1>1, MapsAgree, FlatMapNone
-----------------------------------------------------------------------------
(* Tokens in a row *)

\* The bytes of tokens.
Bytes(ts) == FlattenSeq(ts)

LEMMA TokensAreBytes == Seq(ClientToken) \subseteq Seq(Seq(Byte))
BY ClientAssumption, SeqMonotonic

\* The bytes of tokens, one after the other ...
LEMMA BytesConcat ==
  ASSUME NEW ss \in Seq(ClientToken), NEW ts \in Seq(ClientToken)
  PROVE  Bytes(ss) \in Seq(Byte) /\ Bytes(ss \o ts) = Bytes(ss) \o Bytes(ts)
<1>1. ss \in Seq(Seq(Byte)) /\ ts \in Seq(Seq(Byte))
  BY TokensAreBytes
<1>2. FlattenSeq(ss) \in Seq(Byte)
  BY <1>1, FlattenSeqType
<1>3. FlattenSeq(ss \o ts) = FlattenSeq(ss) \o FlattenSeq(ts)
  BY <1>1, FlattenSeqConcat
<1> QED
  BY <1>2, <1>3, Zenon DEF Bytes

LEMMA BytesNone == Bytes(<<>>) = <<>>
<1>1. <<>> \in Seq(Seq(Byte))
  BY EmptySeq
<1> QED
  BY <1>1, FlattenSeqType DEF Bytes

\* ... with one token more, and of one token.
LEMMA BytesAppend ==
  ASSUME NEW ss \in Seq(ClientToken), NEW t \in ClientToken
  PROVE  Bytes(Append(ss, t)) = Bytes(ss) \o t
<1>1. ss \in Seq(Seq(Byte)) /\ t \in Seq(Byte)
  BY TokensAreBytes, TokenIsBytes
<1> QED
  BY <1>1, FlattenSeqAppend DEF Bytes

LEMMA BytesOne ==
  ASSUME NEW t \in ClientToken
  PROVE  Bytes(<<t>>) = t
<1>1. <<>> \in Seq(ClientToken) /\ Append(<<>>, t) = <<t>>
  OBVIOUS
<1>2. Bytes(Append(<<>>, t)) = Bytes(<<>>) \o t
  BY <1>1, BytesAppend, Zenon
<1>3. <<>> \o t = t
  BY TokenIsBytes, ConcatEmptySeq
<1> QED
  BY <1>1, <1>2, <1>3, BytesNone, Zenon

\* No token is empty.
LEMMA BytesOfSome ==
  ASSUME Telnet, NEW ts \in Seq(ClientToken), Bytes(ts) = <<>>
  PROVE  ts = <<>>
<1> SUFFICES ASSUME ts # <<>>
             PROVE  FALSE
  OBVIOUS
<1> DEFINE n == Len(ts) - 1
           front == SubSeq(ts, 1, n)
           last == ts[n + 1]
<1>1. /\ front \in Seq(ClientToken) /\ last \in ClientToken /\ ts = Append(front, last)
  BY EmptySeq
<1> HIDE DEF front, last
<1>2. Bytes(ts) = Bytes(front) \o last
  BY <1>1, BytesAppend
<1>3. Bytes(front) \in Seq(Byte) /\ last \in Seq(Byte) /\ Len(last) >= 1
  BY <1>1, BytesConcat, TokenIsBytes, TokenKinds
<1>4. Len(Bytes(front) \o last) # 0
  BY <1>3
<1> QED
  BY <1>2, <1>4

\* The first of some tokens.
LEMMA FirstToken ==
  ASSUME NEW ts \in Seq(ClientToken), ts # <<>>
  PROVE  /\ ts[1] \in ClientToken /\ Tail(ts) \in Seq(ClientToken)
         /\ <<ts[1]>> \in Seq(ClientToken)
         /\ ts = <<ts[1]>> \o Tail(ts) /\ Bytes(ts) = ts[1] \o Bytes(Tail(ts))
<1>1. /\ ts[1] \in ClientToken /\ Tail(ts) \in Seq(ClientToken)
      /\ <<ts[1]>> \in Seq(ClientToken)
  BY EmptySeq
<1>2. ts = <<ts[1]>> \o Tail(ts)
  <2> DEFINE t == <<ts[1]>> \o Tail(ts)
  <2>1. Len(Tail(ts)) = Len(ts) - 1 /\ \A i \in 1..Len(Tail(ts)) : Tail(ts)[i] = ts[i + 1]
    BY HeadTailProperties
  <2>2. t \in Seq(ClientToken) /\ Len(t) = Len(ts)
    BY <1>1, <2>1
  <2>3. ASSUME NEW i \in 1..Len(ts)
        PROVE  ts[i] = t[i]
    <3>1. CASE i = 1
      BY <1>1, <2>2, <3>1
    <3>2. CASE i # 1
      <4>1. i - 1 \in 1..Len(Tail(ts)) /\ (i - 1) + 1 = i
        BY <2>1, <3>2
      <4>2. t[i] = Tail(ts)[i - 1]
        BY <1>1, <2>1, <3>2
      <4> QED
        BY <2>1, <4>1, <4>2
    <3> QED
      BY <3>1, <3>2
  <2> HIDE DEF t
  <2>4. ts = t
    BY <2>2, <2>3, SeqEqual
  <2> QED
    BY <2>4 DEF t
<1>3. Bytes(<<ts[1]>> \o Tail(ts)) = Bytes(<<ts[1]>>) \o Bytes(Tail(ts))
  BY <1>1, BytesConcat, Zenon
<1>4. Bytes(<<ts[1]>>) = ts[1]
  BY <1>1, BytesOne, Zenon
<1> QED
  BY <1>1, <1>2, <1>3, <1>4, Zenon

\* Tokens are some data, and then what begins with a command.
LEMMA TokenSplit ==
  ASSUME Telnet, NEW ts \in Seq(ClientToken)
  PROVE  \E ds \in Seq(DataToken), cs \in Seq(ClientToken) :
           ts = ds \o cs /\ (cs = <<>> \/ cs[1] \in CommandToken)
<1> DEFINE Split(s) == \E ds \in Seq(DataToken), cs \in Seq(ClientToken) :
                         s = ds \o cs /\ (cs = <<>> \/ cs[1] \in CommandToken)
           S == {s \in Seq(ClientToken) : Split(s)}
<1>0. Seq(DataToken) \subseteq Seq(ClientToken)
  BY SeqMonotonic DEF DataToken
<1>1. <<>> \in S
  <2>1. <<>> \in Seq(DataToken) /\ <<>> \in Seq(ClientToken) /\ <<>> = <<>> \o <<>>
    BY EmptySeq
  <2> QED
    BY <2>1
<1>2. ASSUME NEW s \in Seq(ClientToken), NEW t \in ClientToken, s \in S
      PROVE  Append(s, t) \in S
  <2>1. PICK ds \in Seq(DataToken), cs \in Seq(ClientToken) :
          s = ds \o cs /\ (cs = <<>> \/ cs[1] \in CommandToken)
    BY <1>2
  <2>2. Append(s, t) \in Seq(ClientToken) /\ ds \in Seq(ClientToken)
    BY <1>0, <1>2
  <2>3. CASE cs # <<>>
    <3>1. Append(cs, t) \in Seq(ClientToken) /\ Append(cs, t)[1] = cs[1]
      BY <2>3, EmptySeq
    <3>2. Append(s, t) = ds \o Append(cs, t)
      <4>1. Append(s, t) = s \o <<t>> /\ Append(cs, t) = cs \o <<t>> /\ <<t>> \in Seq(ClientToken)
        OBVIOUS
      <4>2. (ds \o cs) \o <<t>> = ds \o (cs \o <<t>>)
        BY <2>2, <4>1, Associative
      <4> QED
        BY <2>1, <4>1, <4>2, Zenon
    <3>3. cs[1] \in CommandToken
      BY <2>1, <2>3
    <3> QED
      BY <2>2, <3>1, <3>2, <3>3
  <2>4. CASE cs = <<>> /\ t \in DataToken
    <3>1. Append(ds, t) \in Seq(DataToken) /\ <<>> \in Seq(ClientToken)
      BY <2>4
    <3>2. Append(s, t) = Append(ds, t) \o <<>>
      BY <2>1, <2>2, <2>4
    <3> QED
      BY <2>2, <3>1, <3>2
  <2>5. CASE cs = <<>> /\ t \notin DataToken
    <3>1. <<t>> \in Seq(ClientToken) /\ <<t>>[1] = t
      OBVIOUS
    <3>2. t \in CommandToken
      BY <2>5, TokenKinds
    <3>3. Append(s, t) = ds \o <<t>>
      BY <2>1, <2>2, <2>5
    <3> QED
      BY <2>2, <3>1, <3>2, <3>3
  <2> QED
    BY <2>3, <2>4, <2>5
<1> HIDE DEF S
<1>3. Seq(ClientToken) \subseteq S
  BY <1>1, <1>2, SequenceInduction
<1> QED
  BY <1>3 DEF S

\* Data stands for itself, and has no IAC.
LEMMA DataFlat ==
  ASSUME Telnet, NEW ds \in Seq(DataToken)
  PROVE  /\ ds \in Seq(ClientToken)
         /\ Datas(ds) = Bytes(ds) /\ Commands(ds) = <<>>
         /\ Bytes(ds) \in Seq(Byte)
         /\ \A i \in 1..Len(Bytes(ds)) : Bytes(ds)[i] # IAC
<1> DEFINE Flat(s) == /\ Datas(s) = Bytes(s) /\ Commands(s) = <<>> /\ Bytes(s) \in Seq(Byte)
                      /\ \A i \in 1..Len(Bytes(s)) : Bytes(s)[i] # IAC
           S == {s \in Seq(DataToken) : Flat(s)}
<1>0. Seq(DataToken) \subseteq Seq(ClientToken)
  BY SeqMonotonic DEF DataToken
<1>1. <<>> \in S
  <2>1. <<>> \in Seq(DataToken) /\ <<>> \in Seq(Byte)
    BY EmptySeq
  <2>2. \A i \in 1..Len(Bytes(<<>>)) : Bytes(<<>>)[i] # IAC
    <3>1. Len(Bytes(<<>>)) = 0
      BY BytesNone
    <3> QED
      BY <3>1
  <2> QED
    BY <2>1, <2>2, DatasNone, BytesNone, Zenon
<1>2. ASSUME NEW s \in Seq(DataToken), NEW t \in DataToken, s \in S
      PROVE  Append(s, t) \in S
  <2>1. /\ s \in Seq(ClientToken) /\ t \in ClientToken /\ <<t>> \in Seq(ClientToken)
        /\ Append(s, t) = s \o <<t>> /\ Append(s, t) \in Seq(DataToken)
    BY <1>0 DEF DataToken
  <2>2. t \in Seq(Byte) /\ IsData(t) /\ Len(t) \in Nat /\ Len(t) >= 1
    BY <2>1, TokenIsBytes, TokenKinds DEF DataToken
  <2>3. t[1] # IAC
    BY <2>2 DEF IsData
  <2>4. TokenData(t) = t /\ TokenCommand(t) = <<>>
    BY <2>3 DEF TokenData, TokenCommand
  <2>5. Datas(Append(s, t)) = Datas(s) \o t /\ Commands(Append(s, t)) = Commands(s) \o <<>>
    BY <2>1, <2>4, DatasConcat, DatasOne, Zenon
  <2>6. Bytes(Append(s, t)) = Bytes(s) \o t
    BY <2>1, BytesAppend
  <2>7. Bytes(s) \in Seq(Byte) /\ \A i \in 1..Len(Bytes(s)) : Bytes(s)[i] # IAC
    BY <1>2
  <2>8. Datas(s) = Bytes(s) /\ Commands(s) = <<>>
    BY <1>2
  <2> DEFINE b == Bytes(s)
  <2> HIDE DEF b, Flat
  <2>9. b \o t \in Seq(Byte) /\ \A i \in 1..Len(b \o t) : (b \o t)[i] # IAC
    <3>1. b \in Seq(Byte) /\ \A i \in 1..Len(b) : b[i] # IAC
      BY <2>7 DEF b
    <3>2. ASSUME NEW i \in 1..Len(b \o t) PROVE (b \o t)[i] # IAC
      <4>1. CASE i <= Len(b)
        BY <2>2, <3>1, <4>1
      <4>2. CASE ~(i <= Len(b))
        <5>1. i - Len(b) \in 1..Len(t) /\ (b \o t)[i] = t[i - Len(b)]
          BY <2>2, <3>1, <4>2
        <5> QED
          BY <2>2, <5>1 DEF IsData
      <4> QED
        BY <4>1, <4>2
    <3> QED
      BY <2>2, <3>1, <3>2
  <2>10. Flat(Append(s, t))
    <3>1. Commands(Append(s, t)) = <<>>
      BY <2>5, <2>8
    <3>2. Bytes(Append(s, t)) = b \o t /\ Datas(Append(s, t)) = b \o t
      BY <2>5, <2>6, <2>8 DEF b
    <3> QED
      BY <2>9, <3>1, <3>2 DEF Flat
  <2> QED
    BY <2>1, <2>10
<1> HIDE DEF S
<1>3. Seq(DataToken) \subseteq S
  BY <1>1, <1>2, SequenceInduction
<1>4. ds \in S
  BY <1>3
<1> QED
  BY <1>0, <1>4 DEF S
-----------------------------------------------------------------------------
(* The parts of what is buffered *)

\* The least number of a set is the only one that is.
LEMMA LeastIs ==
  ASSUME NEW S, S \subseteq Nat, NEW x \in S, \A y \in S : x <= y
  PROVE  LeastOf(S) = x
<1>1. /\ LeastOf(S) \in S
      /\ \A q \in S : LeastOf(S) <= q
  BY DEF LeastOf
<1>2. LeastOf(S) <= x /\ x <= LeastOf(S)
  BY <1>1
<1>3. LeastOf(S) \in Nat /\ x \in Nat
  BY <1>1
<1> QED
  BY <1>2, <1>3

\* The first of n places from p on that holds ch is k places on.
Nearest(b, p, ch, n, k) ==
  /\ p \in Nat /\ n \in Nat /\ k \in Nat /\ k < n
  /\ At(b, p + k) = ch
  /\ \A j \in Nat : j < k => At(b, p + j) # ch

\* A search finds the first place that holds ch ...
LEMMA SearchFinds ==
  ASSUME NEW b, NEW p, NEW n, NEW ch, NEW k, Nearest(b, p, ch, n, k)
  PROVE  mystrchr(b, p, ch, n) = p + k
<1>0. /\ p \in Nat /\ n \in Nat /\ k \in Nat /\ k < n
      /\ At(b, p + k) = ch
      /\ \A j \in Nat : j < k => At(b, p + j) # ch
  BY DEF Nearest
<1> DEFINE found == {q \in p .. (p + n - 1) : At(b, q) = ch}
<1>1. p + k \in found /\ found \subseteq Nat
  BY <1>0
<1>2. ASSUME NEW y \in found
      PROVE  p + k <= y
  <2>1. y - p \in Nat /\ p + (y - p) = y /\ At(b, y) = ch /\ y \in Nat
    BY <1>0
  <2>2. ~(y - p < k)
    BY <1>0, <2>1
  <2> QED
    BY <1>0, <2>1, <2>2
<1>3. mystrchr(b, p, ch, n) = LeastOf(found)
  BY <1>1 DEF mystrchr
<1> HIDE DEF found
<1>4. LeastOf(found) = p + k
  BY <1>1, <1>2, LeastIs
<1> QED
  BY <1>3, <1>4

\* ... if there is one.
LEMMA SearchFails ==
  ASSUME NEW b, NEW p \in Nat, NEW n \in Nat, NEW ch, \A j \in Nat : j < n => At(b, p + j) # ch
  PROVE  mystrchr(b, p, ch, n) = NULL
<1> DEFINE found == {q \in p .. (p + n - 1) : At(b, q) = ch}
<1>1. ASSUME NEW q \in found
      PROVE  FALSE
  <2>1. q - p \in Nat /\ q - p < n /\ p + (q - p) = q /\ At(b, q) = ch
    OBVIOUS
  <2> QED
    BY <2>1
<1>2. found = {}
  BY <1>1
<1> QED
  BY <1>2 DEF mystrchr

\* A byte of the second part of what is buffered.
LEMMA AtPart ==
  ASSUME NEW b, Whole(b), NEW p \in Seq(Byte), NEW q \in Seq(Byte), Active(b) = p \o q,
         NEW j \in Nat, j < Len(q)
  PROVE  At(b, (b.writep + Len(p)) + j) = q[j + 1]
<1>1. b.nbuffered = Len(p \o q)
  BY ActiveOfWhole
<1>2. Len(p \o q) = Len(p) + Len(q) /\ Len(p) \in Nat /\ Len(q) \in Nat
  OBVIOUS
<1> DEFINE i == (Len(p) + j) + 1
<1>3. i \in 1..b.nbuffered /\ b.writep \in Nat
  BY <1>1, <1>2, WholeIsBuffer
<1>4. (b.writep + i) - 1 = (b.writep + Len(p)) + j
  BY <1>2, <1>3
<1>5. (p \o q)[i] = q[j + 1]
  BY <1>2
<1> HIDE DEF i
<1>6. At(b, (b.writep + i) - 1) = Active(b)[i]
  BY <1>3, AtActive, Zenon
<1> QED
  BY <1>4, <1>5, <1>6

\* The parts of what is buffered: p, t and q, where they are.
InParts(b, p, t, q) == Whole(b) /\ Active(b) = p \o (t \o q)

Placed(b, p, t, q) ==
  /\ SubSeq(b.mem, b.writep + 1, b.writep + Len(p)) = p
  /\ SubSeq(b.mem, ((b.writep + Len(p)) + Len(t)) + 1, b.readp) = q
  /\ (b.writep + Len(p)) + Len(t) <= b.readp
  /\ b.nbuffered = Len(p) + Len(t) + Len(q)

\* The parts of what is buffered are parts of the memory.
LEMMA PartsOfMemory ==
  ASSUME NEW b, NEW p \in Seq(Byte), NEW t \in Seq(Byte), NEW q \in Seq(Byte),
         InParts(b, p, t, q)
  PROVE  Placed(b, p, t, q)
<1>0. Whole(b) /\ Active(b) = p \o (t \o q)
  BY DEF InParts
<1>1. PICK r \in Nat, w \in Nat, m \in Seq(Byte), e \in BOOLEAN :
        /\ b = [mem |-> m, nbuffered |-> r - w, readp |-> r, writep |-> w, eof |-> e]
        /\ w <= r /\ r <= Len(m) /\ (w = r => r = 0)
  BY <1>0, WholeIsRecord
<1>2. /\ b.mem = m /\ b.nbuffered = r - w /\ b.readp = r /\ b.writep = w
  BY <1>1
<1> DEFINE a == p \o (t \o q)
           k == Len(p) + Len(t)
<1>3. /\ Len(p) \in Nat /\ Len(t) \in Nat /\ Len(q) \in Nat /\ k \in Nat
      /\ a \in Seq(Byte) /\ Len(a) = k + Len(q)
      /\ \A i \in 1..Len(p) : a[i] = p[i]
      /\ \A i \in 1..Len(q) : a[k + i] = q[i]
  <2>1. t \o q \in Seq(Byte) /\ Len(t \o q) = Len(t) + Len(q)
    OBVIOUS
  <2>2. \A i \in 1..Len(q) : (t \o q)[Len(t) + i] = q[i]
    OBVIOUS
  <2> DEFINE u == t \o q
  <2> HIDE DEF u
  <2>3. u \in Seq(Byte) /\ Len(u) = Len(t) + Len(q) /\ \A i \in 1..Len(q) : u[Len(t) + i] = q[i]
    BY <2>1, <2>2 DEF u
  <2>4. /\ Len(p) \in Nat /\ Len(t) \in Nat /\ Len(q) \in Nat /\ k \in Nat
        /\ p \o u \in Seq(Byte) /\ Len(p \o u) = k + Len(q)
    <3>1. u \in Seq(Byte) /\ Len(u) = Len(t) + Len(q)
      BY <2>3
    <3>2. p \o u \in Seq(Byte) /\ Len(p \o u) = Len(p) + Len(u)
      BY <3>1, ConcatProperties, Zenon
    <3>3. Len(p) \in Nat /\ Len(t) \in Nat /\ Len(q) \in Nat
      OBVIOUS
    <3> QED
      BY <3>1, <3>2, <3>3
  <2>5. \A i \in 1..Len(p) : (p \o u)[i] = p[i]
    BY <2>3
  <2>6. \A i \in 1..Len(q) : (p \o u)[k + i] = q[i]
    <3> TAKE i \in 1..Len(q)
    <3>1. k + i \in 1..(Len(p) + Len(u)) /\ ~(k + i <= Len(p)) /\ (k + i) - Len(p) = Len(t) + i
      BY <2>3, <2>4
    <3>2. (p \o u)[k + i] = u[(k + i) - Len(p)]
      BY <2>3, <3>1, ConcatProperties
    <3> QED
      BY <2>3, <3>1, <3>2
  <2> QED
    BY <2>4, <2>5, <2>6 DEF u
<1>4. SubSeq(m, w + 1, r) = a
  BY <1>0, <1>2 DEF Active
<1> HIDE DEF a
<1>5. r - w = Len(a) /\ \A i \in 1..(r - w) : a[i] = m[w + i]
  BY <1>1, <1>4, Slice
<1>6. r = (w + k) + Len(q) /\ w + k \in Nat /\ w + Len(p) \in Nat /\ w + Len(p) <= Len(m)
      /\ w + k <= r /\ w + k <= Len(m)
  BY <1>1, <1>3, <1>5
<1>7. SubSeq(m, w + 1, w + Len(p)) = p
  <2> DEFINE z == w + Len(p)
             u == SubSeq(m, w + 1, z)
  <2>1. u \in Seq(Byte) /\ Len(u) = Len(p) /\ \A i \in 1..Len(p) : u[i] = m[w + i]
    <3>1. w <= z /\ z - w = Len(p) /\ z \in Nat /\ z <= Len(m)
      BY <1>3, <1>6
    <3> HIDE DEF z
    <3>2. /\ u \in Seq(Byte) /\ Len(u) = z - w /\ \A i \in 1..(z - w) : u[i] = m[w + i]
      BY <3>1, Slice
    <3> QED
      BY <3>1, <3>2, Zenon
  <2> HIDE DEF u
  <2>2. \A i \in 1..Len(p) : u[i] = p[i]
    BY <1>3, <1>5, <2>1
  <2>3. u = p
    BY <2>1, <2>2, SeqEqual
  <2> QED
    BY <2>3 DEF u
<1>8. SubSeq(m, (w + k) + 1, r) = q
  <2> DEFINE u == SubSeq(m, (w + k) + 1, r)
  <2>1. u \in Seq(Byte) /\ Len(u) = Len(q) /\ \A i \in 1..Len(q) : u[i] = m[(w + k) + i]
    <3>1. r - (w + k) = Len(q)
      BY <1>3, <1>6
    <3> QED
      BY <1>1, <1>6, <3>1, Slice
  <2> HIDE DEF u
  <2>2. \A i \in 1..Len(q) : u[i] = q[i]
    <3> TAKE i \in 1..Len(q)
    <3>1. k + i \in 1..(r - w) /\ w + (k + i) = (w + k) + i
      BY <1>3, <1>5
    <3> QED
      BY <1>3, <1>5, <2>1, <3>1
  <2>3. u = q
    BY <2>1, <2>2, SeqEqual
  <2> QED
    BY <2>3 DEF u
<1>9. (w + Len(p)) + Len(t) = w + k /\ r - w = Len(p) + Len(t) + Len(q)
  BY <1>3, <1>5
<1> QED
  BY <1>2, <1>6, <1>7, <1>8, <1>9 DEF Placed

Removed(c, b, p, q) ==
  Whole(c) /\ Active(c) = p \o q /\ (q # <<>> => c.writep = b.writep)

\* Removing the middle part leaves the other two, where they were.
LEMMA RemovePart ==
  ASSUME NEW b, NEW p \in Seq(Byte), NEW t \in Seq(Byte), NEW q \in Seq(Byte),
         InParts(b, p, t, q)
  PROVE  Removed(bfrmstr(b, b.writep + Len(p), Len(t)), b, p, q)
<1> DEFINE at == b.writep + Len(p)
           c == bfrmstr(b, at, Len(t))
<1>1. /\ SubSeq(b.mem, b.writep + 1, at) = p
      /\ SubSeq(b.mem, (at + Len(t)) + 1, b.readp) = q
      /\ at + Len(t) <= b.readp
      /\ b.nbuffered = Len(p) + Len(t) + Len(q)
  BY PartsOfMemory, Zenon DEF Placed
<1>w. Whole(b)
  BY DEF InParts
<1>2. /\ b.writep \in Nat /\ Len(p) \in Nat /\ Len(t) \in Nat /\ Len(q) \in Nat
      /\ at \in Nat /\ b.writep <= at /\ b.readp \in Nat
  BY <1>w, WholeIsBuffer
<1> HIDE DEF at
<1>3. Whole(c)
  BY <1>2, <1>w, RmstrWhole
<1>4. CASE Len(t) < b.nbuffered
  <2>1. /\ c.writep = b.writep
        /\ Active(c) = SubSeq(b.mem, b.writep + 1, at)
                         \o SubSeq(b.mem, (at + Len(t)) + 1, b.readp)
    BY <1>1, <1>2, <1>4, <1>w, RmstrWhole
  <2>2. Active(c) = p \o q
    BY <1>1, <2>1, Zenon
  <2> QED
    BY <1>3, <2>1, <2>2, Zenon DEF c, at, Removed
<1>5. CASE ~(Len(t) < b.nbuffered)
  <2>1. Len(p) = 0 /\ Len(q) = 0 /\ at <= b.readp /\ b.nbuffered <= Len(t)
    BY <1>1, <1>2, <1>5
  <2>2. p = <<>> /\ q = <<>>
    BY <2>1, EmptySeq
  <2>3. Active(c) = <<>>
    BY <1>2, <2>1, <1>w, RmstrWhole
  <2>4. p \o q = <<>>
    BY <2>2
  <2> QED
    BY <1>3, <2>2, <2>3, <2>4, Zenon DEF c, at, Removed
<1> QED
  BY <1>4, <1>5
-----------------------------------------------------------------------------
(* The scan, token by token *)

\* The bytes p are parsed, and the tokens "raw" are buffered after them: none when
\* the scan is over, and otherwise it is at the first of them, a command.
Scanned(raw, p, place, b, at, left) ==
  /\ Whole(b) /\ Active(b) = p \o Bytes(raw)
  /\ raw = <<>> => place # "parse"
  /\ raw # <<>> => /\ place = "parse" /\ raw[1] \in CommandToken
                   /\ at = b.writep + Len(p) /\ left = Len(Bytes(raw))

\* The scan may go on in b after the bytes p, with the tokens ts to look at.
Ahead(ts, p, b, from, left) ==
  /\ Whole(b) /\ Active(b) = p \o Bytes(ts)
  /\ from \in Nat /\ left = Len(Bytes(ts))
  /\ ts # <<>> => from = b.writep + Len(p)

\* Wherever the scan goes on, it passes over the data and stops at the next command.
LEMMA ContinueScans ==
  ASSUME Telnet, NEW ts \in Seq(ClientToken), NEW p \in Seq(Byte),
         NEW b, NEW from, NEW left, Ahead(ts, p, b, from, left), Continue(b, from, left)
  PROVE  \E ds \in Seq(DataToken), cs \in Seq(ClientToken) :
           /\ ts = ds \o cs
           /\ Scanned(cs, p \o Bytes(ds), pc', buf', iac', size')
<1>1. PICK ds \in Seq(DataToken), cs \in Seq(ClientToken) :
        ts = ds \o cs /\ (cs = <<>> \/ cs[1] \in CommandToken)
  BY TokenSplit
<1> DEFINE d == Bytes(ds)
           c == Bytes(cs)
           next == mystrchr(b, from, IAC, left)
           rest == left - (next - from)
<1>2. /\ ds \in Seq(ClientToken) /\ d \in Seq(Byte) /\ \A i \in 1..Len(d) : d[i] # IAC
  BY DataFlat
<1>3. c \in Seq(Byte) /\ Bytes(ds \o cs) = d \o c
  BY <1>2, BytesConcat
<1>4. /\ Whole(b) /\ Active(b) = p \o Bytes(ts) /\ from \in Nat /\ left = Len(Bytes(ts))
      /\ ts # <<>> => from = b.writep + Len(p)
  BY DEF Ahead
<1>5. Bytes(ts) = d \o c
  BY <1>1, <1>3, Zenon
<1> HIDE DEF d, c
<1>6. /\ Len(d) \in Nat /\ Len(c) \in Nat /\ left = Len(d) + Len(c)
      /\ d \o c \in Seq(Byte) /\ Len(d \o c) = left
      /\ \A i \in 1..Len(d) : (d \o c)[i] = d[i]
      /\ \A i \in 1..Len(c) : (d \o c)[Len(d) + i] = c[i]
  <2>1. /\ Len(d) \in Nat /\ Len(c) \in Nat /\ d \o c \in Seq(Byte)
        /\ Len(d \o c) = Len(d) + Len(c)
    BY <1>2, <1>3
  <2>2. \A i \in 1..Len(d) : (d \o c)[i] = d[i]
    BY <1>2, <1>3
  <2>3. \A i \in 1..Len(c) : (d \o c)[Len(d) + i] = c[i]
    BY <1>2, <1>3
  <2>4. left = Len(d \o c)
    BY <1>4, <1>5
  <2> QED
    BY <2>1, <2>2, <2>3, <2>4
<1>7. ASSUME ts # <<>>, NEW j \in Nat, j < left
      PROVE  At(b, from + j) = (d \o c)[j + 1]
  <2>1. Active(b) = p \o (d \o c) /\ d \o c \in Seq(Byte) /\ j < Len(d \o c)
    BY <1>4, <1>5, <1>6, <1>7
  <2> DEFINE q == d \o c
  <2> HIDE DEF q
  <2>2. At(b, (b.writep + Len(p)) + j) = q[j + 1]
    BY <1>4, <2>1, AtPart, Zenon DEF q
  <2> QED
    BY <1>4, <1>7, <2>2 DEF q
<1>8. buf' = b
  BY DEF Continue
<1>9. Active(b) = (p \o d) \o c
  <2>1. (p \o d) \o c = p \o (d \o c)
    BY <1>2, <1>3, Associative
  <2> QED
    BY <1>4, <1>5, <2>1, Zenon
<1>10. CASE cs = <<>>
  <2>1. c = <<>>
    BY <1>10, BytesNone DEF c
  <2>2. ASSUME left >= 2
        PROVE  next = NULL
    <3>1. ts # <<>>
      <4>1. Bytes(ts) # <<>>
        BY <1>4, <2>2
      <4> QED
        BY <4>1, BytesNone
    <3>2. ASSUME NEW j \in Nat, j < left
          PROVE  At(b, from + j) # IAC
      <4>1. At(b, from + j) = (d \o c)[j + 1]
        BY <1>7, <3>1, <3>2
      <4>2. j + 1 \in 1..Len(d)
        BY <1>6, <2>1, <3>2
      <4> QED
        BY <1>2, <1>6, <4>1, <4>2
    <3>3. left \in Nat
      BY <1>6
    <3> QED
      BY <1>4, <3>2, <3>3, SearchFails
  <2>3. pc' = "write"
    BY <2>2 DEF Continue
  <2>4. Scanned(cs, p \o d, pc', buf', iac', size')
    BY <1>4, <1>8, <1>9, <1>10, <2>3 DEF Scanned, c
  <2> QED
    BY <1>1, <2>4 DEF d
<1>11. CASE cs # <<>>
  <2>1. cs[1] \in ClientToken /\ c = cs[1] \o Bytes(Tail(cs)) /\ Bytes(Tail(cs)) \in Seq(Byte)
    BY <1>11, FirstToken, BytesConcat DEF c
  <2>2. cs[1] \in Seq(Byte) /\ Len(cs[1]) \in Nat /\ Len(cs[1]) >= 2 /\ cs[1][1] = IAC
    BY <1>1, <1>11, <2>1, TokenIsBytes, TokenKinds DEF CommandToken
  <2>3. Len(c) >= 2 /\ c[1] = IAC
    <3> DEFINE t == cs[1]
               u == Bytes(Tail(cs))
    <3>1. t \in Seq(Byte) /\ u \in Seq(Byte) /\ Len(t) >= 2 /\ t[1] = IAC /\ c = t \o u
      BY <2>1, <2>2
    <3> HIDE DEF t, u
    <3> QED
      BY <3>1
  <2>4. ts # <<>>
    <3>1. left >= 2
      BY <1>6, <2>3
    <3>2. Bytes(ts) # <<>>
      <4> DEFINE n == Len(Bytes(ts))
      <4>1. n # 0
        BY <1>4, <3>1
      <4> QED
        BY <4>1
    <3> QED
      BY <3>2, BytesNone
  <2>5. next = from + Len(d)
    <3>1. At(b, from + Len(d)) = IAC
      <4>1. Len(d) < left /\ 1 \in 1..Len(c)
        BY <1>6, <2>3
      <4>2. At(b, from + Len(d)) = (d \o c)[Len(d) + 1]
        BY <1>6, <1>7, <2>4, <4>1
      <4> QED
        BY <1>6, <2>3, <4>1, <4>2
    <3>2. ASSUME NEW j \in Nat, j < Len(d)
          PROVE  At(b, from + j) # IAC
      <4>1. j < left /\ j + 1 \in 1..Len(d)
        BY <1>6, <3>2
      <4>2. At(b, from + j) = (d \o c)[j + 1]
        BY <1>7, <2>4, <4>1, Zenon
      <4> QED
        BY <1>2, <1>6, <4>1, <4>2
    <3>3. left \in Nat /\ Len(d) < left /\ Len(d) \in Nat /\ from \in Nat
      BY <1>4, <1>6, <2>3
    <3>4. Nearest(b, from, IAC, left, Len(d))
      BY <3>1, <3>2, <3>3 DEF Nearest
    <3> QED
      BY <3>4, SearchFinds, Zenon
  <2>6. left >= 2 /\ next # NULL /\ rest = Len(c)
    BY <1>4, <1>6, <2>3, <2>5 DEF NULL
  <2>7. pc' = "parse" /\ iac' = from + Len(d) /\ size' = Len(c)
    BY <2>3, <2>5, <2>6 DEF Continue
  <2>8. from + Len(d) = b.writep + Len(p \o d)
    <3>1. Len(p \o d) = Len(p) + Len(d)
      BY <1>2
    <3> QED
      BY <1>4, <1>6, <2>4, <3>1, WholeIsBuffer
  <2>9. Scanned(cs, p \o d, pc', buf', iac', size')
    BY <1>1, <1>4, <1>8, <1>9, <1>11, <2>7, <2>8 DEF Scanned, c
  <2> QED
    BY <1>1, <2>9 DEF d
<1> QED
  BY <1>10, <1>11
-----------------------------------------------------------------------------
(* One iteration of the scan is one command *)

\* The scan is at t: p is before it in what is buffered, and q after it.
HeadOf(b, at, left, p, t, q) ==
  /\ p \in Seq(Byte) /\ t \in Seq(Byte) /\ q \in Seq(Byte)
  /\ InParts(b, p, t, q)
  /\ at \in Nat /\ at = b.writep + Len(p) /\ left = Len(t) + Len(q)
  /\ \A j \in Nat : j < Len(t) => At(b, at + j) = t[j + 1]

\* The scan is at the first of the tokens still to be looked at.
LEMMA CommandAhead ==
  ASSUME Telnet, NEW raw \in Seq(ClientToken), raw # <<>>, NEW p \in Seq(Byte),
         NEW place, NEW b, NEW at, NEW left, Scanned(raw, p, place, b, at, left)
  PROVE  /\ raw[1] \in CommandToken /\ Tail(raw) \in Seq(ClientToken)
         /\ HeadOf(b, at, left, p, raw[1], Bytes(Tail(raw)))
<1> DEFINE t == raw[1]
           q == Bytes(Tail(raw))
<1>1. /\ t \in ClientToken /\ Tail(raw) \in Seq(ClientToken) /\ Bytes(raw) = t \o q
  BY FirstToken
<1>2. t \in Seq(Byte) /\ q \in Seq(Byte)
  BY <1>1, TokenIsBytes, BytesConcat
<1>3. /\ Whole(b) /\ Active(b) = p \o Bytes(raw) /\ t \in CommandToken
      /\ at = b.writep + Len(p) /\ left = Len(Bytes(raw))
  BY DEF Scanned
<1>4. Active(b) = p \o (t \o q)
  BY <1>1, <1>3, Zenon
<1> HIDE DEF t, q
<1> DEFINE u == t \o q
<1>5. /\ u \in Seq(Byte) /\ Len(u) = Len(t) + Len(q) /\ Len(t) \in Nat
      /\ \A i \in 1..Len(t) : u[i] = t[i]
  BY <1>2
<1>6. InParts(b, p, t, q)
  BY <1>3, <1>4 DEF InParts
<1>7. at \in Nat
  BY <1>3, WholeIsBuffer
<1>8. left = Len(t) + Len(q)
  BY <1>1, <1>3, <1>5
<1>9. Len(q) \in Nat
  BY <1>2
<1> HIDE DEF u
<1>10. ASSUME NEW j \in Nat, j < Len(t)
       PROVE  At(b, at + j) = t[j + 1]
  <2>1. j < Len(u) /\ j + 1 \in 1..Len(t)
    BY <1>5, <1>9, <1>10
  <2>2. Active(b) = p \o u
    BY <1>4 DEF u
  <2>3. At(b, (b.writep + Len(p)) + j) = u[j + 1]
    BY <1>3, <1>5, <2>1, <2>2, AtPart, Zenon
  <2> QED
    BY <1>3, <1>5, <2>1, <2>3
<1>11. HeadOf(b, at, left, p, t, q)
  BY <1>2, <1>3, <1>6, <1>7, <1>8, <1>10 DEF HeadOf
<1> QED
  BY <1>1, <1>3, <1>11 DEF t, q

\* The second byte of a command says of which kind it is.
LEMMA CommandKinds ==
  ASSUME Telnet, NEW t \in CommandToken
  PROVE  /\ t \in Seq(Byte) /\ Len(t) \in Nat /\ Len(t) >= 2 /\ t[1] = IAC
         /\ t[2] = IAC => t = <<IAC, IAC>>
         /\ t[2] \in OptCode => IsRequest(t)
         /\ t[2] = SB => IsSuboption(t)
         /\ t[2] \notin OptCode \union {IAC, SB} => IsShort(t)
<1>1. t \in ClientToken /\ t[1] = IAC
  BY DEF CommandToken
<1>2. t \in Seq(Byte) /\ Len(t) \in Nat /\ Len(t) >= 2 /\ ~IsData(t)
  BY <1>1, TokenIsBytes, TokenKinds DEF DataToken
<1>3. t = <<IAC, IAC>> \/ IsRequest(t) \/ IsSuboption(t) \/ IsShort(t)
  BY <1>1, <1>2 DEF Telnet, WellFormed
<1>4. t = <<IAC, IAC>> => t[2] = IAC
  OBVIOUS
<1> QED
  BY <1>1, <1>2, <1>3, <1>4, CodesAreBytes DEF IsRequest, IsSuboption, IsShort

\* When a whole command is removed, the scan goes on after it.
LEMMA RemoveCommand ==
  ASSUME Telnet, NEW rest \in Seq(ClientToken), NEW b, NEW at, NEW left, NEW p, NEW t,
         HeadOf(b, at, left, p, t, Bytes(rest))
  PROVE  Ahead(rest, p, bfrmstr(b, at, Len(t)), at, left - Len(t))
<1> DEFINE q == Bytes(rest)
           c == bfrmstr(b, b.writep + Len(p), Len(t))
<1>1. /\ p \in Seq(Byte) /\ t \in Seq(Byte) /\ q \in Seq(Byte) /\ InParts(b, p, t, q)
      /\ at \in Nat /\ at = b.writep + Len(p) /\ left = Len(t) + Len(q)
  BY DEF HeadOf
<1>2. Whole(c) /\ Active(c) = p \o q /\ (q # <<>> => c.writep = b.writep)
  BY <1>1, RemovePart, Zenon DEF Removed
<1>3. left - Len(t) = Len(q)
  BY <1>1
<1>4. rest # <<>> => q # <<>>
  BY BytesOfSome
<1> HIDE DEF c
<1>5. Ahead(rest, p, c, at, left - Len(t))
  BY <1>1, <1>2, <1>3, <1>4 DEF Ahead
<1> QED
  BY <1>1, <1>5 DEF c
-----------------------------------------------------------------------------
\* The command t is parsed away: it is acted on, what it stands for as data joins
\* the parsed bytes, and the scan goes on with the tokens after it.
ParsedOne(t, rest, p) ==
  /\ acted' = acted \o TokenCommand(t)
  /\ \E c, from, left : Ahead(rest, p \o TokenData(t), c, from, left) /\ Continue(c, from, left)

\* What the loop reads after its IAC.
LEMMA HeadBytes ==
  ASSUME Telnet, NEW t \in CommandToken, NEW p, NEW q, HeadOf(buf, iac, size, p, t, q)
  PROVE  optcode = t[2] /\ (Len(t) >= 3 => option = t[3])
<1>1. \A j \in Nat : j < Len(t) => At(buf, iac + j) = t[j + 1]
  BY DEF HeadOf
<1>2. Len(t) \in Nat /\ Len(t) >= 2
  BY CommandKinds
<1>3. At(buf, iac + 1) = t[2]
  BY <1>1, <1>2
<1>4. Len(t) >= 3 => At(buf, iac + 2) = t[3]
  BY <1>1, <1>2
<1> QED
  BY <1>3, <1>4 DEF optcode, option

LEMMA EmptyAfter ==
  ASSUME NEW X, NEW p \in Seq(X)
  PROVE  p \o <<>> = p
OBVIOUS

LEMMA AppendedAtEnd ==
  ASSUME NEW X, NEW p \in Seq(X), NEW x \in X
  PROVE  Append(p, x) = p \o <<x>>
OBVIOUS

\* The length of two sequences in a row.
LEMMA ConcatLength ==
  ASSUME NEW X, NEW p \in Seq(X), NEW q \in Seq(X)
  PROVE  /\ p \o q \in Seq(X) /\ Len(p \o q) = Len(p) + Len(q)
         /\ p # <<>> => p \o q # <<>>
<1>1. p \o q \in Seq(X) /\ Len(p \o q) = Len(p) + Len(q)
  OBVIOUS
<1>2. p # <<>> => Len(p) # 0
  OBVIOUS
<1> DEFINE r == p \o q
<1>3. p # <<>> => Len(r) # 0
  BY <1>1, <1>2
<1>4. p # <<>> => r # <<>>
  BY <1>3
<1> QED
  BY <1>1, <1>4

\* The second and the third of at least three bytes.
LEMMA SecondAndThird ==
  ASSUME NEW X, NEW t \in Seq(X), Len(t) >= 3
  PROVE  /\ SubSeq(t, 2, 3) = <<t[2], t[3]>>
         /\ t[2] \in X /\ t[3] \in X
<1> DEFINE u == SubSeq(t, 1 + 1, 3)
           v == <<t[2], t[3]>>
<1>1. u \in Seq(X) /\ Len(u) = 2 /\ \A i \in 1..2 : u[i] = t[1 + i]
  BY Slice
<1>2. v \in Seq(X) /\ Len(v) = 2 /\ v[1] = t[2] /\ v[2] = t[3]
  OBVIOUS
<1> HIDE DEF v
<1>3. \A i \in 1..2 : u[i] = v[i]
  <2>1. u[1] = v[1] /\ u[2] = v[2]
    BY <1>1, <1>2
  <2> QED
    BY <2>1
<1> HIDE DEF u
<1>4. u = v
  BY <1>1, <1>2, <1>3, SeqEqual
<1> QED
  BY <1>4 DEF u, v

\* A command that is no data.
LEMMA ParsedCommand ==
  ASSUME Telnet, NEW rest \in Seq(ClientToken), NEW t \in CommandToken, NEW p,
         HeadOf(buf, iac, size, p, t, Bytes(rest)), t # <<IAC, IAC>>,
         Continue(bfrmstr(buf, iac, Len(t)), iac, size - Len(t)),
         acted' = acted \o TokenCommand(t)
  PROVE  ParsedOne(t, rest, p)
<1>1. TokenData(t) = <<>>
  BY CommandKinds DEF TokenData
<1>2. p \o TokenData(t) = p
  BY <1>1, EmptyAfter DEF HeadOf
<1>3. Ahead(rest, p, bfrmstr(buf, iac, Len(t)), iac, size - Len(t))
  BY RemoveCommand
<1> QED
  BY <1>2, <1>3, Zenon DEF ParsedOne

\* The four kinds of commands: a command of two bytes ...
LEMMA ParsedShort ==
  ASSUME Telnet, acted \in Seq(Byte \X Byte), NEW rest \in Seq(ClientToken),
         NEW t \in CommandToken, NEW p,
         HeadOf(buf, iac, size, p, t, Bytes(rest)), OtherCommand
  PROVE  ParsedOne(t, rest, p)
<1>1. t[2] \notin OptCode \union {IAC, SB} /\ Continue(bfrmstr(buf, iac, 2), iac, size - 2)
      /\ acted' = acted
  BY HeadBytes DEF OtherCommand
<1>2. Len(t) = 2 /\ t # <<IAC, IAC>>
  BY <1>1, CommandKinds DEF IsShort
<1>3. TokenCommand(t) = <<>>
  BY <1>1 DEF TokenCommand
<1>4. acted' = acted \o TokenCommand(t)
  BY <1>1, <1>3, EmptyAfter
<1> QED
  BY <1>1, <1>2, <1>4, ParsedCommand

\* ... WILL, WONT, DO or DONT ...
LEMMA ParsedRequest ==
  ASSUME Telnet, acted \in Seq(Byte \X Byte), NEW rest \in Seq(ClientToken),
         NEW t \in CommandToken, NEW p,
         HeadOf(buf, iac, size, p, t, Bytes(rest)), Negotiate
  PROVE  ParsedOne(t, rest, p)
<1>1. t[2] \in OptCode /\ Continue(bfrmstr(buf, iac, 3), iac, size - 3)
      /\ acted' = Append(acted, <<optcode, option>>)
  BY HeadBytes DEF Negotiate
<1>2. /\ t \in Seq(Byte) /\ IsRequest(t) /\ t[1] = IAC
      /\ t = <<IAC, IAC>> => Len(t) = 2
  BY <1>1, CommandKinds
<1>3. Len(t) = 3 /\ t # <<IAC, IAC>>
  BY <1>2 DEF IsRequest
<1>4. TokenCommand(t) = <<SubSeq(t, 2, 3)>>
  BY <1>1, <1>2 DEF TokenCommand
<1>5. /\ SubSeq(t, 2, 3) = <<optcode, option>>
      /\ <<optcode, option>> \in Byte \X Byte
  BY <1>2, <1>3, HeadBytes, SecondAndThird
<1>6. acted' = acted \o TokenCommand(t)
  BY <1>1, <1>4, <1>5, AppendedAtEnd
<1> QED
  BY <1>1, <1>3, <1>6, ParsedCommand

\* ... the escaped IAC, of which one byte stays ...
LEMMA ParsedDouble ==
  ASSUME Telnet, acted \in Seq(Byte \X Byte), NEW rest \in Seq(ClientToken),
         NEW t \in CommandToken, NEW p,
         HeadOf(buf, iac, size, p, t, Bytes(rest)), DoubleIAC
  PROVE  ParsedOne(t, rest, p)
<1> DEFINE q == Bytes(rest)
           i == <<IAC>>
           u == i \o q
           c == bfrmstr(buf, buf.writep + Len(p), Len(i))
<1>1. t[2] = IAC /\ Continue(bfrmstr(buf, iac, 1), iac + 1, size - 2) /\ acted' = acted
  BY HeadBytes DEF DoubleIAC
<1>2. t = <<IAC, IAC>>
  BY <1>1, CommandKinds
<1>3. /\ p \in Seq(Byte) /\ q \in Seq(Byte) /\ InParts(buf, p, t, q)
      /\ iac \in Nat /\ iac = buf.writep + Len(p) /\ size = Len(t) + Len(q)
  BY DEF HeadOf
<1>4. i \in Seq(Byte) /\ Len(i) = 1 /\ t = i \o i
  BY <1>2, CodesAreBytes
<1> HIDE DEF i
<1>5. t \o q = i \o u
  BY <1>3, <1>4, BytesAssociative, ZenonT(40)
<1>6. u \in Seq(Byte) /\ u # <<>>
  <2>1. i # <<>>
    BY DEF i
  <2> QED
    BY <1>3, <1>4, <2>1, ConcatLength
<1> HIDE DEF u, q
<1>7. InParts(buf, p, i, u)
  BY <1>3, <1>5 DEF InParts
<1>8. Whole(c) /\ Active(c) = p \o u /\ c.writep = buf.writep
  <2>1. Removed(c, buf, p, u)
    BY <1>3, <1>4, <1>6, <1>7, RemovePart, Zenon
  <2> QED
    BY <1>6, <2>1 DEF Removed
<1> HIDE DEF c
<1>9. Active(c) = (p \o i) \o q
  <2>1. (p \o i) \o q = p \o (i \o q)
    BY <1>3, <1>4, BytesAssociative, ZenonT(40)
  <2> QED
    BY <1>8, <2>1, Zenon DEF u
<1>10. iac + 1 = c.writep + Len(p \o i) /\ iac + 1 \in Nat
  <2>1. Len(p \o i) = Len(p) + 1
    BY <1>3, <1>4, ConcatLength
  <2>2. buf.writep \in Nat /\ Len(p) \in Nat
    BY <1>3, WholeIsBuffer DEF InParts
  <2>3. iac = buf.writep + Len(p) /\ iac \in Nat
    BY <1>3, Zenon
  <2>4. iac + 1 = buf.writep + (Len(p) + 1) /\ iac + 1 \in Nat
    BY <2>2, <2>3
  <2> QED
    BY <1>8, <2>1, <2>4, Zenon
<1>11. size - 2 = Len(q)
  BY <1>2, <1>3
<1>12. Ahead(rest, p \o i, c, iac + 1, size - 2)
  BY <1>8, <1>9, <1>10, <1>11 DEF Ahead, q
<1>13. TokenData(t) = i /\ TokenCommand(t) = <<>>
  BY <1>2, CodesAreBytes DEF TokenData, TokenCommand, i
<1>14. acted' = acted \o TokenCommand(t)
  BY <1>1, <1>13, EmptyAfter
<1>15. Continue(c, iac + 1, size - 2)
  <2>1. c = bfrmstr(buf, iac, 1)
    BY <1>3, <1>4, Zenon DEF c
  <2> QED
    BY <1>1, <2>1, Zenon
<1> QED
  BY <1>12, <1>13, <1>14, <1>15, Zenon DEF ParsedOne

\* A search for SE from the k-th byte of a suboption on finds its end.
LEMMA SuboptionEnds ==
  ASSUME NEW t \in Seq(Byte), IsSuboption(t), NEW p, NEW q, HeadOf(buf, iac, size, p, t, q),
         NEW k \in 3..4, k < Len(t)
  PROVE  mystrchr(buf, iac + k, SE, size - k) = (iac + Len(t)) - 1
<1>1. /\ Len(t) \in Nat /\ Len(t) >= 5 /\ t[Len(t)] = SE
      /\ \A i \in 4..(Len(t) - 1) : t[i] # SE
  BY DEF IsSuboption
<1>2. /\ iac \in Nat /\ size = Len(t) + Len(q) /\ Len(q) \in Nat
      /\ \A j \in Nat : j < Len(t) => At(buf, iac + j) = t[j + 1]
  BY DEF HeadOf
<1> DEFINE n == (Len(t) - 1) - k
<1>3. /\ iac + k \in Nat /\ size - k \in Nat /\ n \in Nat /\ n < size - k
      /\ (iac + k) + n = (iac + Len(t)) - 1
  BY <1>1, <1>2
<1>4. At(buf, (iac + k) + n) = SE
  <2>1. /\ Len(t) - 1 \in Nat /\ Len(t) - 1 < Len(t) /\ (Len(t) - 1) + 1 = Len(t)
        /\ (iac + k) + n = iac + (Len(t) - 1)
    BY <1>1, <1>2
  <2>2. At(buf, iac + (Len(t) - 1)) = t[(Len(t) - 1) + 1]
    BY <1>2, <2>1
  <2> QED
    BY <1>1, <2>1, <2>2
<1>5. ASSUME NEW j \in Nat, j < n
      PROVE  At(buf, (iac + k) + j) # SE
  <2>1. /\ k + j \in Nat /\ k + j < Len(t) /\ (iac + k) + j = iac + (k + j)
        /\ (k + j) + 1 \in 4..(Len(t) - 1)
    BY <1>1, <1>2, <1>5
  <2>2. At(buf, iac + (k + j)) = t[(k + j) + 1]
    BY <1>2, <2>1
  <2> QED
    BY <1>1, <2>1, <2>2
<1> HIDE DEF n
<1>6. Nearest(buf, iac + k, SE, size - k, n)
  BY <1>3, <1>4, <1>5 DEF Nearest
<1>7. mystrchr(buf, iac + k, SE, size - k) = (iac + k) + n
  BY <1>6, SearchFinds, ZenonT(40)
<1> QED
  BY <1>3, <1>7

\* ... and a suboption, acted on when it is a complete Com Port one.
LEMMA ParsedSuboption ==
  ASSUME Telnet, acted \in Seq(Byte \X Byte), NEW rest \in Seq(ClientToken),
         NEW t \in CommandToken, NEW p,
         HeadOf(buf, iac, size, p, t, Bytes(rest)), SubOption
  PROVE  ParsedOne(t, rest, p)
<1> DEFINE end == (iac + Len(t)) - 1
           se == mystrchr(buf, iac + 3, SE, size - 3)
           act == option = TELOPT_COM_PORT_OPTION /\ ComPortEnabled /\ CpcSuboptionComplete
<1>1. t[2] = SB /\ optcode = SB
  BY HeadBytes DEF SubOption
<1>2. /\ acted' = IF act THEN Append(acted, <<SB, option>>) ELSE acted
      /\ IF se # NULL THEN Continue(bfrmstr(buf, iac, (se - iac) + 1), iac, size - ((se - iac) + 1))
                      ELSE Continue(buf, iac + 3, size - 3)
  BY DEF SubOption
<1>3. IsSuboption(t) /\ t \in Seq(Byte)
  BY <1>1, CommandKinds
<1>4. /\ Len(t) \in Nat /\ Len(t) >= 5 /\ t[1] = IAC /\ t[2] = SB /\ t[Len(t) - 1] = IAC
      /\ t # <<IAC, IAC>> /\ (t[3] = TELOPT_COM_PORT_OPTION => Len(t) >= 6)
  BY <1>3 DEF IsSuboption
<1>5. /\ iac \in Nat /\ size = Len(t) + Len(Bytes(rest)) /\ Len(Bytes(rest)) \in Nat
      /\ \A j \in Nat : j < Len(t) => At(buf, iac + j) = t[j + 1]
  BY DEF HeadOf
<1>6. se = end /\ mystrchr(buf, iac + 4, SE, size - 4) = end
  <2>1. 3 \in 3..4 /\ 4 \in 3..4 /\ 3 < Len(t) /\ 4 < Len(t)
    BY <1>4
  <2> QED
    BY <1>3, <2>1, SuboptionEnds
<1>nums. iac \in Nat /\ Len(t) \in Nat /\ Len(t) >= 5
  BY <1>4, <1>5, Zenon
<1>7. end # NULL /\ (end - iac) + 1 = Len(t)
  BY <1>nums DEF NULL
<1>8. Continue(bfrmstr(buf, iac, Len(t)), iac, size - Len(t))
  BY <1>2, <1>6, <1>7, Zenon
<1>9. option = t[3]
  BY <1>4, HeadBytes
<1>10. t[3] = TELOPT_COM_PORT_OPTION => CpcSuboptionComplete
  <2>1. SUFFICES ASSUME Len(t) >= 6
                 PROVE  CpcSuboptionComplete
    BY <1>4
  <2>2. Len(t) - 2 \in Nat /\ Len(t) - 2 < Len(t) /\ iac + (Len(t) - 2) = end - 1
        /\ (Len(t) - 2) + 1 = Len(t) - 1
    BY <1>nums
  <2>3. At(buf, end - 1) = IAC
    BY <1>4, <1>5, <2>2
  <2>4. size - 3 >= 3
    BY <1>4, <1>5, <2>1
  <2> QED
    BY <1>6, <1>7, <2>3, <2>4, Zenon DEF CpcSuboptionComplete
<1>11. act <=> (t[3] = TELOPT_COM_PORT_OPTION /\ ComPortEnabled)
  BY <1>9, <1>10
<1>12. SubSeq(t, 2, 3) = <<SB, option>> /\ <<SB, option>> \in Byte \X Byte
  BY <1>3, <1>4, <1>9, SecondAndThird
<1>13. TokenCommand(t) = IF act THEN <<<<SB, option>>>> ELSE <<>>
  <2>1. t[2] \notin OptCode
    BY <1>4, CodesAreBytes
  <2> HIDE DEF act
  <2> QED
    BY <1>4, <1>11, <1>12, <2>1 DEF TokenCommand
<1> HIDE DEF act
<1>14. acted' = acted \o TokenCommand(t)
  <2>1. CASE act
    <3>1. acted' = Append(acted, <<SB, option>>) /\ TokenCommand(t) = <<<<SB, option>>>>
      BY <1>2, <1>13, <2>1
    <3> QED
      BY <1>12, <3>1, AppendedAtEnd
  <2>2. CASE ~act
    <3>1. acted' = acted /\ TokenCommand(t) = <<>>
      BY <1>2, <1>13, <2>2
    <3> QED
      BY <3>1, EmptyAfter
  <2> QED
    BY <2>1, <2>2
<1> QED
  BY <1>4, <1>8, <1>14, ParsedCommand

\* One iteration is one token.
LEMMA ParsedToken ==
  ASSUME Telnet, acted \in Seq(Byte \X Byte), NEW rest \in Seq(ClientToken),
         NEW t \in CommandToken, NEW p,
         HeadOf(buf, iac, size, p, t, Bytes(rest)), Parse
  PROVE  ParsedOne(t, rest, p) /\ UNCHANGED <<stream, sent, port, torn>>
<1>1. UNCHANGED <<stream, sent, port, torn>>
  BY DEF Parse, DoubleIAC, Negotiate, SubOption, OtherCommand
<1>2. ParsedOne(t, rest, p)
  BY ParsedShort, ParsedRequest, ParsedDouble, ParsedSuboption DEF Parse
<1> QED
  BY <1>1, <1>2
-----------------------------------------------------------------------------
(* Where a read() ends *)

\* The elements of two sequences in a row.
Joined(X, p, q, b) ==
  /\ Len(p) \in Nat /\ Len(q) \in Nat
  /\ b \in Seq(X) /\ Len(b) = Len(p) + Len(q)
  /\ \A i \in 1..Len(p) : b[i] = p[i]
  /\ \A i \in 1..Len(q) : b[Len(p) + i] = q[i]

LEMMA ConcatFacts ==
  ASSUME NEW X, NEW p \in Seq(X), NEW q \in Seq(X), NEW b, b = p \o q
  PROVE  Joined(X, p, q, b)
BY DEF Joined

\* The parts of two sequences in a row are those sequences.
Halves(b, n, p, q) == SubSeq(b, 1, n) = p /\ SubSeq(b, n + 1, Len(b)) = q

LEMMA PartsAre ==
  ASSUME NEW X, NEW p \in Seq(X), NEW q \in Seq(X), NEW n, n = Len(p), NEW b, b = p \o q
  PROVE  Halves(b, n, p, q)
<1>0. Joined(X, p, q, b)
  BY ConcatFacts
<1>1. /\ n \in Nat /\ Len(q) \in Nat /\ b \in Seq(X) /\ Len(b) = n + Len(q)
      /\ \A i \in 1..n : b[i] = p[i]
      /\ \A i \in 1..Len(q) : b[n + i] = q[i]
  BY <1>0 DEF Joined
<1>2. p = SubSeq(b, 0 + 1, n)
  <2> DEFINE u == SubSeq(b, 0 + 1, n)
  <2>1. n <= Len(b) /\ Len(b) \in Nat /\ 0 \in Nat /\ 0 <= n /\ n - 0 = n
    BY <1>1
  <2>2. u \in Seq(X) /\ Len(u) = n /\ \A j \in 1..n : u[j] = b[0 + j]
    BY <1>1, <2>1, Slice
  <2> HIDE DEF u
  <2>3. \A j \in 1..n : p[j] = u[j]
    BY <1>1, <2>2
  <2>4. p = u
    BY <2>2, <2>3, SeqEqual
  <2> QED
    BY <2>4 DEF u
<1>3. q = SubSeq(b, n + 1, Len(b))
  <2> DEFINE u == SubSeq(b, n + 1, Len(b))
             m == Len(b)
  <2>1. n <= m /\ m \in Nat /\ m - n = Len(q) /\ m = Len(b)
    BY <1>1
  <2> HIDE DEF m
  <2>2. u \in Seq(X) /\ Len(u) = Len(q) /\ \A j \in 1..Len(q) : u[j] = b[n + j]
    BY <1>1, <2>1, Slice
  <2> HIDE DEF u
  <2>3. \A j \in 1..Len(q) : q[j] = u[j]
    BY <1>1, <2>2
  <2>4. q = u
    BY <2>2, <2>3, SeqEqual
  <2> QED
    BY <2>4 DEF u
<1>4. SubSeq(b, 1, n) = SubSeq(b, 0 + 1, n)
  OBVIOUS
<1> QED
  BY <1>2, <1>3, <1>4, Zenon DEF Halves

\* A sequence is what was there before, and the rest.
LEMMA TwoParts ==
  ASSUME NEW X, NEW s \in Seq(X), NEW k \in Nat, k <= Len(s)
  PROVE  /\ SubSeq(s, 1, k) \in Seq(X) /\ SubSeq(s, k + 1, Len(s)) \in Seq(X)
         /\ Len(SubSeq(s, 1, k)) = k
         /\ s = SubSeq(s, 1, k) \o SubSeq(s, k + 1, Len(s))
<1> DEFINE u == SubSeq(s, 0 + 1, k)
           v == SubSeq(s, k + 1, Len(s))
<1>1. Len(s) \in Nat
  OBVIOUS
<1>2. u \in Seq(X) /\ Len(u) = k /\ \A i \in 1..k : u[i] = s[0 + i]
  BY <1>1, Slice
<1>3. v \in Seq(X) /\ Len(v) = Len(s) - k /\ \A i \in 1..(Len(s) - k) : v[i] = s[k + i]
  BY <1>1, Slice
<1> HIDE DEF u, v
<1>4. u \o v \in Seq(X) /\ Len(u \o v) = Len(s)
  BY <1>1, <1>2, <1>3
<1>5. ASSUME NEW i \in 1..Len(s)
      PROVE  s[i] = (u \o v)[i]
  <2>1. CASE i <= k
    BY <1>1, <1>2, <1>3, <2>1
  <2>2. CASE ~(i <= k)
    <3>1. i - k \in 1..(Len(s) - k) /\ k + (i - k) = i
      BY <1>1, <2>2
    <3>2. v[i - k] = s[i]
      BY <1>3, <3>1
    <3>3. (u \o v)[i] = v[i - k]
      BY <1>1, <1>2, <1>3, <2>2
    <3> QED
      BY <3>2, <3>3
  <2> QED
    BY <2>1, <2>2
<1>6. s = u \o v
  BY <1>1, <1>4, <1>5, SeqEqual
<1>7. u = SubSeq(s, 1, k)
  BY DEF u
<1> QED
  BY <1>2, <1>3, <1>6, <1>7 DEF v

\* The end of two sequences in a row, when it begins in the second one.
LEMMA EndOfSecond ==
  ASSUME NEW X, NEW s \in Seq(X), NEW t \in Seq(X), NEW i \in Nat, Len(s) <= i, i <= Len(s \o t)
  PROVE  SubSeq(s \o t, i + 1, Len(s \o t)) = SubSeq(t, (i - Len(s)) + 1, Len(t))
<1> DEFINE r == s \o t
           k == i - Len(s)
           u == SubSeq(r, i + 1, Len(r))
           v == SubSeq(t, k + 1, Len(t))
<1>1. /\ Len(s) \in Nat /\ Len(t) \in Nat /\ r \in Seq(X) /\ Len(r) = Len(s) + Len(t)
      /\ \A j \in 1..Len(t) : r[Len(s) + j] = t[j]
  OBVIOUS
<1>2. k \in Nat /\ k <= Len(t) /\ Len(r) - i = Len(t) - k /\ i <= Len(r) /\ Len(r) \in Nat
  BY <1>1
<1> HIDE DEF r
<1>3. u \in Seq(X) /\ Len(u) = Len(r) - i /\ \A j \in 1..(Len(r) - i) : u[j] = r[i + j]
  <2> DEFINE m == Len(r)
  <2>1. m \in Nat /\ i <= m /\ m <= Len(r) /\ i \in Nat
    BY <1>2
  <2> HIDE DEF m
  <2>2. /\ SubSeq(r, i + 1, m) \in Seq(X) /\ Len(SubSeq(r, i + 1, m)) = m - i
        /\ \A j \in 1..(m - i) : SubSeq(r, i + 1, m)[j] = r[i + j]
    BY <1>1, <2>1, Slice
  <2> QED
    BY <2>2 DEF m
<1>4. v \in Seq(X) /\ Len(v) = Len(t) - k /\ \A j \in 1..(Len(t) - k) : v[j] = t[k + j]
  BY <1>1, <1>2, Slice
<1>5. ASSUME NEW j \in 1..(Len(t) - k)
      PROVE  u[j] = v[j]
  <2>1. k + j \in 1..Len(t) /\ Len(s) + (k + j) = i + j
    BY <1>1, <1>2
  <2>2. r[i + j] = t[k + j]
    BY <1>1, <2>1
  <2> QED
    BY <1>2, <1>3, <1>4, <2>2
<1> HIDE DEF u, v
<1>6. u = v
  BY <1>2, <1>3, <1>4, <1>5, SeqEqual
<1> QED
  BY <1>6 DEF u, v, r

\* When it begins in the first one, all of the second is in it.
LEMMA EndOfFirst ==
  ASSUME NEW X, NEW s \in Seq(X), NEW t \in Seq(X), NEW i \in Nat, i <= Len(s)
  PROVE  SubSeq(s \o t, i + 1, Len(s \o t)) = SubSeq(s, i + 1, Len(s)) \o t
<1> DEFINE r == s \o t
           u == SubSeq(r, i + 1, Len(r))
           v == SubSeq(s, i + 1, Len(s))
<1>1. /\ Len(s) \in Nat /\ Len(t) \in Nat /\ r \in Seq(X) /\ Len(r) = Len(s) + Len(t)
      /\ \A j \in 1..Len(s) : r[j] = s[j]
      /\ \A j \in 1..Len(t) : r[Len(s) + j] = t[j]
  OBVIOUS
<1>2. i <= Len(r) /\ Len(r) \in Nat
  BY <1>1
<1> HIDE DEF r
<1>3. u \in Seq(X) /\ Len(u) = Len(r) - i /\ \A j \in 1..(Len(r) - i) : u[j] = r[i + j]
  BY <1>1, <1>2, Slice
<1>4. v \in Seq(X) /\ Len(v) = Len(s) - i /\ \A j \in 1..(Len(s) - i) : v[j] = s[i + j]
  BY <1>1, Slice
<1> HIDE DEF u, v
<1> DEFINE w == v \o t
<1>5. /\ w \in Seq(X) /\ Len(w) = (Len(s) - i) + Len(t)
      /\ \A j \in 1..(Len(s) - i) : w[j] = v[j]
      /\ \A j \in 1..Len(t) : w[(Len(s) - i) + j] = t[j]
  <2>1. /\ w \in Seq(X) /\ Len(w) = Len(v) + Len(t)
        /\ \A j \in 1..Len(v) : w[j] = v[j]
        /\ \A j \in 1..Len(t) : w[Len(v) + j] = t[j]
    <3>1. v \in Seq(X) /\ t \in Seq(X)
      BY <1>4
    <3>2. Joined(X, v, t, w)
      BY <3>1, ConcatFacts, Zenon
    <3> QED
      BY <3>2, Zenon DEF Joined
  <2> QED
    BY <1>4, <2>1, Zenon
<1> HIDE DEF w
<1>6. Len(u) = Len(w) /\ Len(w) \in Nat
  BY <1>1, <1>3, <1>5
<1>7. ASSUME NEW j \in 1..Len(w)
      PROVE  u[j] = w[j]
  <2>1. u[j] = r[i + j]
    BY <1>3, <1>6
  <2>2. CASE j <= Len(s) - i
    <3>1. i + j \in 1..Len(s) /\ j \in 1..(Len(s) - i)
      BY <1>1, <1>5, <2>2
    <3>2. r[i + j] = s[i + j] /\ w[j] = v[j] /\ v[j] = s[i + j]
      BY <1>1, <1>4, <1>5, <3>1
    <3> QED
      BY <2>1, <3>2
  <2>3. CASE ~(j <= Len(s) - i)
    <3> DEFINE h == j - (Len(s) - i)
    <3>1. h \in 1..Len(t) /\ Len(s) + h = i + j /\ (Len(s) - i) + h = j
      BY <1>1, <1>5, <2>3
    <3> HIDE DEF h
    <3>2. r[Len(s) + h] = t[h] /\ w[(Len(s) - i) + h] = t[h]
      BY <1>1, <1>5, <3>1
    <3> QED
      BY <2>1, <3>1, <3>2
  <2> QED
    BY <2>2, <2>3
<1>8. u = w
  BY <1>3, <1>5, <1>6, <1>7, SeqEqual
<1> QED
  BY <1>8 DEF u, v, w, r

\* A read() that leaves whole tokens takes whole tokens.
LEMMA BoundarySplits ==
  ASSUME NEW done \in Seq(ClientToken), NEW left \in Seq(ClientToken), NEW all, all = done \o left,
         NEW n \in Nat, 1 <= n, n <= Len(Bytes(left)),
         NEW i \in 0..Len(all), Len(Bytes(SubSeq(all, i + 1, Len(all)))) = Len(Bytes(left)) - n
  PROVE  \E mid \in Seq(ClientToken), rest \in Seq(ClientToken) :
           /\ left = mid \o rest
           /\ Bytes(mid) = SubSeq(Bytes(left), 1, n)
           /\ Bytes(rest) = SubSeq(Bytes(left), n + 1, Len(Bytes(left)))
<1> DEFINE end == SubSeq(all, i + 1, Len(all))
           k == i - Len(done)
           mid == SubSeq(left, 1, k)
           rest == SubSeq(left, k + 1, Len(left))
           b == Bytes(left)
<1>1. /\ b \in Seq(Byte) /\ Len(b) \in Nat /\ Len(done) \in Nat /\ Len(left) \in Nat
      /\ all \in Seq(ClientToken) /\ Len(all) = Len(done) + Len(left) /\ i \in Nat /\ i <= Len(all)
  BY BytesConcat
<1>2. Len(done) <= i
  <2> SUFFICES ASSUME i < Len(done)
               PROVE  FALSE
    BY <1>1
  <2> DEFINE v == SubSeq(done, i + 1, Len(done))
  <2>1. end = v \o left
    <3>1. i <= Len(done)
      BY <1>1
    <3>2. SubSeq(done \o left, i + 1, Len(done \o left)) = v \o left
      BY <1>1, <3>1, EndOfFirst
    <3> QED
      BY <3>2
  <2>2. v \in Seq(ClientToken)
    BY <1>1, TwoParts
  <2> HIDE DEF v, end
  <2>3. Bytes(end) = Bytes(v) \o b /\ Bytes(v) \in Seq(Byte)
    BY <2>1, <2>2, BytesConcat
  <2> HIDE DEF b
  <2>4. Len(Bytes(end)) = Len(Bytes(v)) + Len(b) /\ Len(Bytes(v)) \in Nat
    BY <1>1, <2>3, ConcatLength
  <2>5. Len(Bytes(end)) = Len(b) - n
    BY DEF end, b
  <2> QED
    BY <1>1, <2>4, <2>5
<1>3. k \in Nat /\ k <= Len(left)
  BY <1>1, <1>2
<1>4. end = rest
  BY <1>1, <1>2, EndOfSecond
<1>5. mid \in Seq(ClientToken) /\ rest \in Seq(ClientToken) /\ left = mid \o rest
  BY <1>3, TwoParts
<1>6. Len(Bytes(rest)) = Len(b) - n
  BY <1>4
<1> HIDE DEF mid, rest, k, end
<1>7. b = Bytes(mid) \o Bytes(rest) /\ Bytes(mid) \in Seq(Byte) /\ Bytes(rest) \in Seq(Byte)
  BY <1>5, BytesConcat
<1> HIDE DEF b
<1>8. Len(Bytes(mid)) = n
  <2>1. Len(b) = Len(Bytes(mid)) + Len(Bytes(rest))
    BY <1>7, ConcatLength
  <2>2. Len(Bytes(mid)) \in Nat /\ Len(Bytes(rest)) \in Nat
    BY <1>7
  <2> QED
    BY <1>1, <1>6, <2>1, <2>2
<1>9. Bytes(mid) = SubSeq(b, 1, n) /\ Bytes(rest) = SubSeq(b, n + 1, Len(b))
  <2>1. Halves(b, n, Bytes(mid), Bytes(rest))
    BY <1>7, <1>8, PartsAre, Zenon
  <2> QED
    BY <2>1, Zenon DEF Halves
<1> QED
  BY <1>5, <1>9 DEF b

\* What begins a sequence is a prefix of it.
LEMMA PrefixOfConcat ==
  ASSUME NEW X, NEW p \in Seq(X), NEW q \in Seq(X)
  PROVE  IsPrefix(p, p \o q)
<1> DEFINE b == p \o q
           n == Len(p)
           e == <<>>
<1>1. n <= Len(b)
  BY ConcatFacts DEF Joined
<1>2. Halves(b, n, p, q)
  BY PartsAre
<1>3. Halves(p, n, p, e)
  <2>1. e \in Seq(X) /\ p = p \o e
    OBVIOUS
  <2> HIDE DEF e
  <2> QED
    BY <2>1, PartsAre
<1> HIDE DEF b, n
<1>4. IsPrefix(p, b)
  BY <1>1, <1>2, <1>3, Zenon DEF Halves, IsPrefix, n
<1> QED
  BY <1>4 DEF b
-----------------------------------------------------------------------------
(* What was sent is delivered *)

\* The tokens sent are those done with, those buffered, and those left to read; p are
\* the bytes that are parsed but not yet written.
Delivered(done, raw, left, p) ==
  /\ sent = (done \o raw) \o left
  /\ stream = Bytes(left)
  /\ port \o p = Datas(done)
  /\ acted = Commands(done)
  /\ Scanned(raw, p, pc, buf, iac, size)
  /\ pc = "read" => Active(buf) = <<>>

DeliveredInv ==
  ~torn => \E done, raw, left \in Seq(ClientToken), p \in Seq(Byte) : Delivered(done, raw, left, p)

\* Outside process_telnet_options() nothing that is buffered is still to be parsed.
LEMMA DeliveredIdle ==
  ASSUME pc # "parse", NEW done, NEW raw, NEW left, NEW p \in Seq(Byte), Delivered(done, raw, left, p)
  PROVE  raw = <<>> /\ Active(buf) = p
<1>1. raw = <<>> /\ Active(buf) = p \o Bytes(raw)
  BY DEF Delivered, Scanned
<1> QED
  BY <1>1, BytesNone, EmptyAfter

\* Nothing is sent at first.
LEMMA DeliveredInit == Init => DeliveredInv
<1> SUFFICES ASSUME Init
             PROVE  DeliveredInv
  OBVIOUS
<1> DEFINE none == <<>>
<1>1. none \in Seq(ClientToken) /\ none \in Seq(Byte) /\ none \o none = none
  OBVIOUS
<1>2. Bytes(none) = none /\ Datas(none) = none /\ Commands(none) = none
  BY BytesNone, DatasNone
<1>3. Whole(buf) /\ Active(buf) = none
  BY MallocWhole DEF Init
<1>4. /\ pc = "read" /\ stream = none /\ sent = none /\ port = none /\ acted = none
  BY DEF Init
<1> HIDE DEF none
<1>5. Scanned(none, none, pc, buf, iac, size)
  BY <1>1, <1>2, <1>3, <1>4 DEF Scanned, none
<1>6. Delivered(none, none, none, none)
  BY <1>1, <1>2, <1>3, <1>4, <1>5 DEF Delivered, none
<1> QED
  BY <1>1, <1>6 DEF DeliveredInv

\* A step that lets the scan go on with the tokens ts delivers.
LEMMA ScanDelivers ==
  ASSUME Telnet, NEW done \in Seq(ClientToken), NEW ts \in Seq(ClientToken),
         NEW left \in Seq(ClientToken), NEW p \in Seq(Byte), NEW b, NEW from, NEW n,
         Ahead(ts, p, b, from, n), Continue(b, from, n), port' \in Seq(Byte),
         sent' = (done \o ts) \o left, stream' = Bytes(left),
         port' \o p = Datas(done), acted' = Commands(done)
  PROVE  DeliveredInv'
<1>1. PICK ds \in Seq(DataToken), cs \in Seq(ClientToken) :
        /\ ts = ds \o cs
        /\ Scanned(cs, p \o Bytes(ds), pc', buf', iac', size')
  BY ContinueScans
<1>2. /\ ds \in Seq(ClientToken) /\ Datas(ds) = Bytes(ds) /\ Commands(ds) = <<>>
      /\ Bytes(ds) \in Seq(Byte)
  BY DataFlat
<1> DEFINE d == Bytes(ds)
           all == done \o ds
           r == p \o d
<1>3. all \in Seq(ClientToken) /\ r \in Seq(Byte)
  BY <1>2
<1>4. sent' = (all \o cs) \o left
  <2>1. (done \o ds) \o cs = done \o (ds \o cs)
    BY <1>2, TokensAssociative, ZenonT(40)
  <2> QED
    BY <1>1, <2>1, Zenon
<1>5. port' \o r = Datas(all)
  <2>1. Datas(all) = Datas(done) \o d
    BY <1>2, DatasConcat
  <2>2. (port' \o p) \o d = port' \o r
    BY <1>2, BytesAssociative, ZenonT(40)
  <2> QED
    BY <2>1, <2>2, Zenon
<1>6. acted' = Commands(all)
  <2>1. Commands(all) = Commands(done) \o <<>> /\ Commands(done) \in Seq(Seq(Byte))
    BY <1>2, DatasConcat
  <2> QED
    BY <2>1, EmptyAfter
<1>7. pc' # "read"
  BY DEF Continue
<1> HIDE DEF all, r
<1>8. Delivered(all, cs, left, r)'
  BY <1>1, <1>4, <1>5, <1>6, <1>7 DEF Delivered, r, d
<1> QED
  BY <1>3, <1>8 DEF DeliveredInv

\* One iteration of process_telnet_options() delivers.
LEMMA ParseDelivers ==
  ASSUME Telnet, TypeOK, TypeOK', DeliveredInv, Parse, ~torn'
  PROVE  DeliveredInv'
<1>1. ~torn /\ pc = "parse"
  BY DEF Parse, DoubleIAC, Negotiate, SubOption, OtherCommand
<1>2. PICK done \in Seq(ClientToken), raw \in Seq(ClientToken), left \in Seq(ClientToken),
            p \in Seq(Byte) : Delivered(done, raw, left, p)
  BY <1>1 DEF DeliveredInv
<1>3. Scanned(raw, p, pc, buf, iac, size) /\ raw # <<>>
  BY <1>1, <1>2 DEF Delivered, Scanned
<1> DEFINE t == raw[1]
           rest == Tail(raw)
           d == TokenData(t)
<1>4. /\ t \in CommandToken /\ rest \in Seq(ClientToken)
      /\ HeadOf(buf, iac, size, p, t, Bytes(rest))
  BY <1>3, CommandAhead
<1>5. t \in ClientToken /\ raw = <<t>> \o rest /\ <<t>> \in Seq(ClientToken)
  BY <1>3, FirstToken
<1> HIDE DEF t, rest
<1>6. acted \in Seq(Byte \X Byte) /\ port \in Seq(Byte) /\ port' \in Seq(Byte)
  BY DEF TypeOK
<1>7. ParsedOne(t, rest, p) /\ stream' = stream /\ sent' = sent /\ port' = port
  BY <1>4, <1>6, ParsedToken
<1>8. d \in Seq(Byte)
  BY <1>5, TokenDataType
<1>9. PICK c, from, n : Ahead(rest, p \o d, c, from, n) /\ Continue(c, from, n)
  BY <1>7 DEF ParsedOne
<1> DEFINE now == done \o <<t>>
           q == p \o d
<1>10. now \in Seq(ClientToken) /\ q \in Seq(Byte)
  BY <1>5, <1>8
<1>11. sent' = (now \o rest) \o left
  <2>1. (done \o <<t>>) \o rest = done \o (<<t>> \o rest)
    BY <1>4, <1>5, TokensAssociative, ZenonT(40)
  <2>3. done \o raw = now \o rest
    BY <1>5, <2>1, Zenon
  <2>2. sent = (done \o raw) \o left
    BY <1>2 DEF Delivered
  <2> QED
    BY <1>7, <2>3, <2>2, Zenon
<1>12. Datas(now) = Datas(done) \o d /\ Commands(now) = Commands(done) \o TokenCommand(t)
  <2>1. /\ Datas(now) = Datas(done) \o Datas(<<t>>)
        /\ Commands(now) = Commands(done) \o Commands(<<t>>)
    BY <1>5, DatasConcat, ZenonT(40)
  <2>2. Datas(<<t>>) = d /\ Commands(<<t>>) = TokenCommand(t)
    BY <1>5, DatasOne, ZenonT(40)
  <2> QED
    BY <2>1, <2>2, Zenon
<1>13. port' \o q = Datas(now)
  <2>1. (port \o p) \o d = port \o (p \o d)
    BY <1>6, <1>8, BytesAssociative, ZenonT(40)
  <2>2. port \o p = Datas(done)
    BY <1>2 DEF Delivered
  <2> QED
    BY <1>7, <1>12, <2>1, <2>2, Zenon
<1>14. acted' = Commands(now)
  BY <1>2, <1>7, <1>12, Zenon DEF Delivered, ParsedOne
<1>15. stream' = Bytes(left)
  BY <1>2, <1>7 DEF Delivered
<1> HIDE DEF now, q
<1>16. Ahead(rest, q, c, from, n)
  BY <1>9 DEF q
<1> QED
  BY <1>4, <1>6, <1>9, <1>10, <1>11, <1>13, <1>14, <1>15, <1>16, ScanDelivers, Zenon
-----------------------------------------------------------------------------
\* When bfstrchr() finds no IAC in what was read, all of it is data.
LEMMA NoCommandRead ==
  ASSUME Telnet, NEW ts \in Seq(ClientToken), NEW b, Whole(b), Active(b) = Bytes(ts),
         ~bfstrchr(b, IAC)
  PROVE  ts \in Seq(DataToken)
<1>1. PICK ds \in Seq(DataToken), cs \in Seq(ClientToken) :
        ts = ds \o cs /\ (cs = <<>> \/ cs[1] \in CommandToken)
  BY TokenSplit
<1>2. CASE cs = <<>>
  BY <1>1, <1>2, EmptyAfter
<1>3. CASE cs # <<>>
  <2> DEFINE d == Bytes(ds)
             t == cs[1]
             q == Bytes(Tail(cs))
             u == t \o q
  <2>1. t \in CommandToken /\ q \in Seq(Byte) /\ Bytes(cs) = u
    BY <1>1, <1>3, FirstToken, BytesConcat
  <2>2. t \in Seq(Byte) /\ Len(t) \in Nat /\ Len(t) >= 2 /\ t[1] = IAC
    BY <2>1, CommandKinds
  <2>3. d \in Seq(Byte) /\ Bytes(ds \o cs) = d \o Bytes(cs)
    BY DataFlat, BytesConcat
  <2> HIDE DEF d, t, q
  <2>4. Joined(Byte, t, q, u)
    BY <2>1, <2>2, ConcatFacts, Zenon
  <2>5. u \in Seq(Byte) /\ Len(u) \in Nat /\ 1 <= Len(u) /\ u[1] = IAC
    BY <2>2, <2>4 DEF Joined
  <2>6. Active(b) = d \o u
    BY <1>1, <2>1, <2>3, Zenon
  <2> HIDE DEF u
  <2>7. b.nbuffered = Len(d) + Len(u) /\ Len(d) \in Nat
    <3>1. Len(d \o u) = Len(d) + Len(u)
      BY <2>3, <2>5
    <3>2. b.nbuffered = Len(Active(b))
      BY ActiveOfWhole
    <3> QED
      BY <2>3, <2>6, <3>1, <3>2
  <2>8. At(b, (b.writep + Len(d)) + 0) = u[0 + 1]
    <3>1. 0 \in Nat /\ 0 < Len(u)
      BY <2>5
    <3> QED
      BY <2>3, <2>5, <2>6, <3>1, AtPart
  <2>9. At(b, b.writep + Len(d)) = IAC /\ b.writep + Len(d) \in b.writep .. (b.writep + b.nbuffered)
    BY <2>5, <2>7, <2>8, WholeIsBuffer
  <2> QED
    BY <2>9 DEF bfstrchr
<1> QED
  BY <1>2, <1>3

\* A read() delivers.
LEMMA ReadDelivers ==
  ASSUME Telnet, TypeOK, TypeOK', DeliveredInv, ReadSocket, ~torn'
  PROVE  DeliveredInv'
<1>1. PICK n \in 1..Len(stream) :
        /\ LET b == Filled(buf, SubSeq(stream, 1, n)) IN
           IF bfstrchr(b, IAC)
           THEN Continue(b, b.writep, b.nbuffered)
           ELSE buf' = b /\ pc' = "write" /\ UNCHANGED <<iac, size>>
        /\ stream' = SubSeq(stream, n + 1, Len(stream))
        /\ torn' = (torn \/ ~TokenBoundary(Len(stream) - n))
  BY DEF ReadSocket
<1>2. ~torn /\ TokenBoundary(Len(stream) - n)
  BY <1>1, Zenon
<1>3. pc = "read" /\ sent' = sent /\ port' = port /\ acted' = acted
  BY DEF ReadSocket
<1>4. PICK done \in Seq(ClientToken), raw \in Seq(ClientToken), left \in Seq(ClientToken),
            p0 \in Seq(Byte) : Delivered(done, raw, left, p0)
  BY <1>2 DEF DeliveredInv
<1> DEFINE p == <<>>
<1>5. raw = <<>> /\ Active(buf) = p /\ p0 = p
  BY <1>3, <1>4, DeliveredIdle DEF Delivered
<1>6. /\ sent = (done \o <<>>) \o left /\ stream = Bytes(left)
      /\ port \o p = Datas(done) /\ acted = Commands(done)
      /\ Whole(buf)
  BY <1>4, <1>5 DEF Delivered, Scanned
<1>7. sent = done \o left
  BY <1>6, EmptyAfter, Zenon
<1>8. PICK i \in 0..Len(sent) :
        Len(FlattenSeq(SubSeq(sent, i + 1, Len(sent)))) = Len(stream) - n
  BY <1>2 DEF TokenBoundary
<1>9. stream \in Seq(Byte) /\ Len(stream) \in Nat /\ n \in Nat /\ 1 <= n /\ n <= Len(stream)
      /\ port \in Seq(Byte) /\ port' \in Seq(Byte)
  BY DEF TypeOK
<1>10. PICK mid \in Seq(ClientToken), rest \in Seq(ClientToken) :
         /\ left = mid \o rest
         /\ Bytes(mid) = SubSeq(Bytes(left), 1, n)
         /\ Bytes(rest) = SubSeq(Bytes(left), n + 1, Len(Bytes(left)))
  <2>1. n <= Len(Bytes(left)) /\ Len(Bytes(SubSeq(sent, i + 1, Len(sent)))) = Len(Bytes(left)) - n
    BY <1>6, <1>8, <1>9, Zenon DEF Bytes
  <2> QED
    BY <1>7, <1>9, <2>1, BoundarySplits, ZenonT(40)
<1> DEFINE b == Filled(buf, Bytes(mid))
<1>11. /\ SubSeq(stream, 1, n) = Bytes(mid) /\ stream' = Bytes(rest)
       /\ IF bfstrchr(b, IAC)
          THEN Continue(b, b.writep, b.nbuffered)
          ELSE buf' = b /\ pc' = "write"
  BY <1>1, <1>6, <1>10, Zenon
<1>12. Bytes(mid) \in Seq(Byte)
  BY BytesConcat
<1>13. p \in Seq(Byte) /\ p \o Bytes(mid) = Bytes(mid)
  BY <1>12
<1>14. Whole(b) /\ Active(b) = p \o Bytes(mid)
  BY <1>5, <1>6, <1>12, FilledWhole
<1>15. b.writep \in Nat /\ b.nbuffered = Len(Bytes(mid)) /\ b.writep = b.writep + Len(p)
  <2>1. Whole(b) /\ Active(b) = Bytes(mid)
    BY <1>13, <1>14
  <2> HIDE DEF b
  <2> QED
    BY <2>1, WholeIsBuffer, ActiveOfWhole
<1> HIDE DEF b, p
<1>16. CASE bfstrchr(b, IAC)
  <2>1. Ahead(mid, p, b, b.writep, b.nbuffered)
    BY <1>14, <1>15 DEF Ahead
  <2>2. sent' = (done \o mid) \o rest
    <3>1. (done \o mid) \o rest = done \o (mid \o rest)
      BY TokensAssociative, ZenonT(40)
    <3> QED
      BY <1>3, <1>7, <1>10, <3>1, Zenon
  <2>3. port' \o p = Datas(done) /\ acted' = Commands(done)
    BY <1>3, <1>6, Zenon
  <2> QED
    BY <1>9, <1>11, <1>13, <1>16, <2>1, <2>2, <2>3, ScanDelivers, Zenon
<1>17. CASE ~bfstrchr(b, IAC)
  <2> DEFINE now == done \o mid
             d == Bytes(mid)
             none == <<>>
  <2>1. mid \in Seq(DataToken)
    BY <1>13, <1>14, <1>17, NoCommandRead
  <2>2. Datas(mid) = d /\ Commands(mid) = <<>>
    BY <2>1, DataFlat
  <2>3. Datas(now) = Datas(done) \o d
    BY <2>2, DatasConcat
  <2>4. Commands(now) = Commands(done)
    <3>1. Commands(now) = Commands(done) \o <<>> /\ Commands(done) \in Seq(Seq(Byte))
      BY <2>2, DatasConcat
    <3> QED
      BY <3>1, EmptyAfter
  <2>5. port' \o d = Datas(now)
    <3>1. (port \o p) \o d = port \o (p \o d)
      BY <1>9, <1>12, <1>13, BytesAssociative, ZenonT(40)
    <3> QED
      BY <1>3, <1>6, <1>13, <2>3, <3>1, Zenon
  <2>6. /\ now \in Seq(ClientToken) /\ none \in Seq(ClientToken)
        /\ sent' = (now \o none) \o rest
    <3>1. now \in Seq(ClientToken)
      OBVIOUS
    <3>2. (done \o mid) \o rest = done \o (mid \o rest)
      BY TokensAssociative, ZenonT(40)
    <3> HIDE DEF now
    <3>3. now \o none = now /\ none \in Seq(ClientToken)
      BY <3>1, EmptyAfter
    <3>4. sent' = now \o rest
      BY <1>3, <1>7, <1>10, <3>2, Zenon DEF now
    <3> QED
      BY <3>1, <3>3, <3>4
  <2> HIDE DEF now
  <2>7. buf' = b /\ pc' = "write"
    BY <1>11, <1>17
  <2>8. Active(b) = d \o Bytes(none)
    BY <1>12, <1>13, <1>14, BytesNone, EmptyAfter
  <2>9. Scanned(none, d, pc', buf', iac', size')
    BY <1>14, <2>7, <2>8 DEF Scanned
  <2> HIDE DEF none
  <2>10. Delivered(now, none, rest, d)'
    BY <1>3, <1>6, <1>11, <2>4, <2>5, <2>6, <2>7, <2>9 DEF Delivered
  <2> QED
    BY <1>12, <2>6, <2>10 DEF DeliveredInv
<1> QED
  BY <1>16, <1>17

\* A write() delivers.
LEMMA WriteDelivers ==
  ASSUME TypeOK, DeliveredInv, WriteSerial, ~torn'
  PROVE  DeliveredInv'
<1>1. PICK n \in 0..cal_numbytes_to_write(buf) :
        /\ port' = port \o SubSeq(Active(buf), 1, n)
        /\ buf' = IF n > 0 THEN buffer_writepointer_position(buf, n) ELSE buf
        /\ torn' = (torn \/ n < cal_numbytes_to_write(buf))
  BY DEF WriteSerial
<1>2. ~torn /\ ~(n < cal_numbytes_to_write(buf))
  BY <1>1, Zenon
<1>3. pc = "write" /\ pc' = "read" /\ stream' = stream /\ sent' = sent /\ acted' = acted
  BY DEF WriteSerial
<1>4. PICK done \in Seq(ClientToken), raw \in Seq(ClientToken), left \in Seq(ClientToken),
            p \in Seq(Byte) : Delivered(done, raw, left, p)
  BY <1>2 DEF DeliveredInv
<1> DEFINE none == <<>>
<1>5. raw = none /\ Active(buf) = p
  BY <1>3, <1>4, DeliveredIdle
<1>6. /\ sent = (done \o raw) \o left /\ stream = Bytes(left)
      /\ port \o p = Datas(done) /\ acted = Commands(done)
      /\ Whole(buf)
  BY <1>4 DEF Delivered, Scanned
<1>7. /\ n \in Nat /\ n = Len(p) /\ n <= buf.nbuffered
  <2>1. cal_numbytes_to_write(buf) = buf.nbuffered /\ buf.nbuffered \in Nat
    BY <1>6, WholeIsBuffer DEF Linear, cal_numbytes_to_write
  <2>2. buf.nbuffered = Len(p)
    BY <1>5, <1>6, ActiveOfWhole
  <2> QED
    BY <1>1, <1>2, <2>1, <2>2
<1>8. SubSeq(p, 1, n) = p
  <2>1. none \in Seq(Byte) /\ p = p \o none
    BY EmptySeq, EmptyAfter
  <2> HIDE DEF none
  <2>2. Halves(p, n, p, none)
    BY <1>7, <2>1, PartsAre, Zenon
  <2> QED
    BY <2>2 DEF Halves
<1>9. Whole(buf') /\ Active(buf') = none
  <2>1. CASE n > 0
    <3> DEFINE c == buffer_writepointer_position(buf, n)
    <3>1. Whole(c) /\ p \o Active(c) = p
      BY <1>5, <1>6, <1>7, <1>8, WriteWhole
    <3>2. Active(c) \in Seq(Byte)
      BY <3>1, ActiveOfWhole
    <3> DEFINE a == Active(c)
    <3>3. a \in Seq(Byte) /\ p \o a = p
      BY <3>1, <3>2
    <3> HIDE DEF a
    <3>4. Len(a) = 0
      BY <1>7, <3>3, ConcatLength
    <3>5. a = <<>>
      BY <3>3, <3>4
    <3> QED
      BY <1>1, <2>1, <3>1, <3>5 DEF a
  <2>2. CASE ~(n > 0)
    <3>1. Len(p) = 0
      BY <1>7, <2>2
    <3> QED
      BY <1>1, <1>5, <1>6, <2>2, <3>1
  <2> QED
    BY <2>1, <2>2
<1>10. port' \o none = Datas(done)
  <2>1. port \o p \in Seq(Byte)
    BY DEF TypeOK
  <2> QED
    BY <1>1, <1>5, <1>6, <1>8, <2>1, EmptyAfter, Zenon
<1>11. /\ none \in Seq(Byte) /\ none \o Bytes(none) = none
  BY EmptySeq, BytesNone
<1>12. Scanned(none, none, pc', buf', iac', size')
  BY <1>3, <1>9, <1>11 DEF Scanned
<1>13. none \in Seq(ClientToken)
  BY EmptySeq
<1> HIDE DEF none
<1>14. sent' = (done \o none) \o left /\ stream' = Bytes(left) /\ acted' = Commands(done)
  BY <1>3, <1>5, <1>6, Zenon
<1>15. Active(buf') = <<>>
  BY <1>9 DEF none
<1>16. Delivered(done, none, left, none)'
  BY <1>10, <1>12, <1>14, <1>15 DEF Delivered
<1> QED
  BY <1>11, <1>13, <1>16 DEF DeliveredInv

LEMMA AppendToSecond ==
  ASSUME NEW p \in Seq(ClientToken), NEW q \in Seq(ClientToken), NEW t \in ClientToken
  PROVE  Append(p \o q, t) = p \o Append(q, t)
<1> DEFINE one == <<t>>
           r == p \o q
<1>1. one \in Seq(ClientToken) /\ r \in Seq(ClientToken)
  OBVIOUS
<1>2. Append(r, t) = r \o one /\ Append(q, t) = q \o one
  BY <1>1, AppendedAtEnd
<1> HIDE DEF one
<1>3. (p \o q) \o one = p \o (q \o one)
  BY <1>1, TokensAssociative, ZenonT(40)
<1> QED
  BY <1>2, <1>3

\* So does sending ...
LEMMA SendDelivers ==
  ASSUME TypeOK, DeliveredInv, ClientSends, ~torn'
  PROVE  DeliveredInv'
<1>1. PICK token \in ClientToken : stream' = stream \o token /\ sent' = Append(sent, token)
  BY DEF ClientSends
<1>2. UNCHANGED <<pc, buf, iac, size, port, acted, torn>>
  BY DEF ClientSends
<1>3. PICK done \in Seq(ClientToken), raw \in Seq(ClientToken), left \in Seq(ClientToken),
            p \in Seq(Byte) : Delivered(done, raw, left, p)
  BY <1>2 DEF DeliveredInv
<1> DEFINE now == Append(left, token)
           old == done \o raw
<1>4. now \in Seq(ClientToken) /\ Bytes(now) = Bytes(left) \o token
  BY BytesAppend
<1>5. sent' = old \o now
  <2>1. old \in Seq(ClientToken)
    OBVIOUS
  <2>2. sent = old \o left
    BY <1>3 DEF Delivered
  <2> HIDE DEF old
  <2>3. Append(old \o left, token) = old \o Append(left, token)
    BY <2>1, AppendToSecond, Zenon
  <2> QED
    BY <1>1, <2>2, <2>3, Zenon
<1>6. stream' = Bytes(now)
  BY <1>1, <1>3, <1>4 DEF Delivered
<1> HIDE DEF now
<1>7. Delivered(done, raw, now, p)'
  BY <1>2, <1>3, <1>5, <1>6 DEF Delivered
<1> QED
  BY <1>4, <1>7 DEF DeliveredInv

\* ... and every step that moves no byte.
LEMMA IdleDelivers ==
  ASSUME DeliveredInv, ~torn', UNCHANGED <<iac, size, stream, sent, port, acted, torn>>,
         \/ pc' = pc /\ buf' = buf
         \/ pc = "read" /\ pc' \in {"write", "ended"} /\ buf' \in {buf, [buf EXCEPT !.eof = TRUE]}
         \/ pc = "write" /\ pc' = "ended" /\ buf' = buf
  PROVE  DeliveredInv'
<1>1. PICK done \in Seq(ClientToken), raw \in Seq(ClientToken), left \in Seq(ClientToken),
            p \in Seq(Byte) : Delivered(done, raw, left, p)
  BY DEF DeliveredInv
<1>2. Scanned(raw, p, pc, buf, iac, size)
  BY <1>1 DEF Delivered
<1>3. Whole(buf') /\ Active(buf') = Active(buf)
  BY <1>2, EofWhole DEF Scanned
<1>4. Scanned(raw, p, pc', buf', iac', size')
  <2>1. CASE pc' = pc /\ buf' = buf
    BY <1>2, <2>1
  <2>2. CASE pc \in {"read", "write"} /\ pc' # "parse"
    <3>1. raw = <<>>
      BY <1>2, <2>2 DEF Scanned
    <3> QED
      BY <1>2, <1>3, <2>2, <3>1 DEF Scanned
  <2> QED
    BY <2>1, <2>2
<1>5. pc' = "read" => Active(buf') = <<>>
  BY <1>1, <1>3 DEF Delivered
<1>6. Delivered(done, raw, left, p)'
  BY <1>1, <1>4, <1>5 DEF Delivered
<1> QED
  BY <1>6 DEF DeliveredInv

\* Every step delivers.
LEMMA DeliveredNext ==
  ASSUME Telnet
  PROVE  TypeOK /\ TypeOK' /\ DeliveredInv /\ [Next]_vars => DeliveredInv'
<1> SUFFICES ASSUME TypeOK, TypeOK', DeliveredInv, [Next]_vars, ~torn'
             PROVE  DeliveredInv'
  BY DEF DeliveredInv
<1>1. CASE ReadSocket
  BY <1>1, ReadDelivers
<1>2. CASE Parse
  BY <1>2, ParseDelivers
<1>3. CASE WriteSerial
  BY <1>3, WriteDelivers
<1>4. CASE ClientSends
  BY <1>4, SendDelivers
<1>5. CASE ReadNothing
  BY <1>5, IdleDelivers DEF ReadNothing
<1>6. CASE ReadFails
  BY <1>6, IdleDelivers DEF ReadFails
<1>7. CASE WriteFails
  BY <1>7, IdleDelivers DEF WriteFails
<1>8. CASE Ended \/ UNCHANGED vars
  BY <1>8, IdleDelivers DEF Ended, vars
<1> QED
  BY <1>1, <1>2, <1>3, <1>4, <1>5, <1>6, <1>7, <1>8, Zenon DEF Next

\* What the invariant says of the bytes the device has got, and of the commands.
LEMMA DeliveredIsAll ==
  ASSUME Telnet, TypeOK, DeliveredInv
  PROVE  DataDeliveredUntorn /\ CommandsActedOn
<1> SUFFICES ASSUME ~torn
             PROVE  /\ DataDelivered
                    /\ IsPrefix(acted, SentCommands)
                    /\ stream = <<>> /\ pc # "parse" => acted = SentCommands
  BY DEF DataDeliveredUntorn, CommandsActedOn
<1>1. PICK done \in Seq(ClientToken), raw \in Seq(ClientToken), left \in Seq(ClientToken),
            p \in Seq(Byte) : Delivered(done, raw, left, p)
  BY DEF DeliveredInv
<1>2. /\ sent = (done \o raw) \o left /\ stream = Bytes(left)
      /\ port \o p = Datas(done) /\ acted = Commands(done)
      /\ Scanned(raw, p, pc, buf, iac, size)
  BY <1>1 DEF Delivered
<1>3. Unwritten = p
  <2>1. CASE pc = "parse"
    <3>1. raw # <<>>
      BY <1>2, <2>1 DEF Scanned
    <3>2. HeadOf(buf, iac, size, p, raw[1], Bytes(Tail(raw)))
      BY <1>2, <3>1, CommandAhead
    <3>3. Placed(buf, p, raw[1], Bytes(Tail(raw)))
      BY <3>2, PartsOfMemory DEF HeadOf
    <3>4. iac = buf.writep + Len(p)
      BY <3>2 DEF HeadOf
    <3> QED
      BY <2>1, <3>3, <3>4, Zenon DEF Unwritten, Placed
  <2>2. CASE pc # "parse"
    BY <1>1, <2>2, DeliveredIdle DEF Unwritten
  <2> QED
    BY <2>1, <2>2
<1> DEFINE more == raw \o left
<1>4. more \in Seq(ClientToken) /\ sent = done \o more
  <2>1. (done \o raw) \o left = done \o (raw \o left)
    BY TokensAssociative, ZenonT(40)
  <2>2. sent = done \o more
    BY <1>2, <2>1, Zenon
  <2> QED
    BY <2>2
<1>5. SentData = Datas(sent) /\ SentCommands = Commands(sent)
  BY Zenon DEF SentData, SentCommands, Datas, Commands
<1>6. /\ Datas(sent) = Datas(done) \o Datas(more)
      /\ Commands(sent) = Commands(done) \o Commands(more)
      /\ Datas(done) \in Seq(Byte) /\ Commands(done) \in Seq(Seq(Byte))
      /\ Datas(more) \in Seq(Byte) /\ Commands(more) \in Seq(Seq(Byte))
  <2>1. /\ Datas(more \o <<>>) = Datas(more) \o Datas(<<>>)
        /\ Datas(more) \in Seq(Byte) /\ Commands(more) \in Seq(Seq(Byte))
    BY <1>4, EmptySeq, DatasConcat
  <2> HIDE DEF more
  <2> QED
    BY <1>4, <2>1, DatasConcat
<1>7. IsPrefix(Datas(done), Datas(sent)) /\ IsPrefix(Commands(done), Commands(sent))
  BY <1>6, PrefixOfConcat
<1>8. ASSUME stream = <<>>, pc # "parse"
      PROVE  sent = done
  <2>1. left = <<>>
    BY <1>2, <1>8, BytesOfSome
  <2>2. raw = <<>>
    BY <1>1, <1>8, DeliveredIdle
  <2> QED
    BY <1>2, <2>1, <2>2, EmptyAfter
<1> QED
  BY <1>2, <1>3, <1>5, <1>7, <1>8 DEF DataDelivered

\* As long as reads end between the tokens of the client and no write is cut, the
\* device gets the client's data, each IAC IAC as one byte 255 and no command, in
\* order and nothing twice: for any buffer size and any tokens of the protocol,
\* however many of them a read() takes.
THEOREM DeviceGetsTheData ==
  ASSUME Telnet
  PROVE  Spec => []DataDeliveredUntorn
<1>1. TypeOK /\ DeliveredInv => DataDeliveredUntorn
  BY DeliveredIsAll
<1>2. TypeOK /\ TypeOK' /\ DeliveredInv /\ [Next]_vars => DeliveredInv'
  BY DeliveredNext
<1> QED
  BY <1>1, <1>2, DeliveredInit, SocketTypeCorrect, PTL DEF Spec

\* ... and every request and Com Port suboption of the client is acted on once, in
\* the order sent.
THEOREM CommandsAreActedOn ==
  ASSUME Telnet
  PROVE  Spec => []CommandsActedOn
<1>1. TypeOK /\ DeliveredInv => CommandsActedOn
  BY DeliveredIsAll
<1>2. TypeOK /\ TypeOK' /\ DeliveredInv /\ [Next]_vars => DeliveredInv'
  BY DeliveredNext
<1> QED
  BY <1>1, <1>2, DeliveredInit, SocketTypeCorrect, PTL DEF Spec

-----------------------------------------------------------------------------
(* Nothing is invented *)

\* One step of the search Matched() makes, and the function it is defined by.
Taken(s, t, before, j) ==
  IF before < Len(s) /\ s[before + 1] = t[j] THEN before + 1 ELSE before

MatchesUpTo(s, t, n, f) ==
  f = [j \in 0..n |-> IF j = 0 THEN 0 ELSE Taken(s, t, f[j - 1], j)]

LEMMA MatchesExists ==
  ASSUME NEW s, NEW t, NEW k \in Nat
  PROVE  \E f : MatchesUpTo(s, t, k, f)
<1> DEFINE S == {n \in Nat : \E f : MatchesUpTo(s, t, n, f)}
<1>1. 0 \in S
  <2> DEFINE f == [j \in 0..0 |-> 0]
  <2>1. f = [j \in 0..0 |-> IF j = 0 THEN 0 ELSE Taken(s, t, f[j - 1], j)]
    OBVIOUS
  <2>2. MatchesUpTo(s, t, 0, f)
    BY <2>1, Zenon DEF MatchesUpTo
  <2> QED
    BY <2>2
<1>2. ASSUME NEW n \in Nat, n \in S
      PROVE  n + 1 \in S
  <2>1. PICK f : MatchesUpTo(s, t, n, f)
    BY <1>2
  <2> DEFINE g == [j \in 0..(n + 1) |-> IF j = n + 1 THEN Taken(s, t, f[n], n + 1) ELSE f[j]]
             h == [j \in 0..(n + 1) |-> IF j = 0 THEN 0 ELSE Taken(s, t, g[j - 1], j)]
  <2>2. ASSUME NEW j \in 0..(n + 1)
        PROVE  g[j] = h[j]
    <3>1. CASE j = n + 1
      <4>1. j # 0 /\ j - 1 = n /\ n \in 0..(n + 1) /\ n # n + 1
        BY <3>1
      <4>2. g[n] = f[n] /\ g[j] = Taken(s, t, f[n], j)
        BY <3>1, <4>1
      <4> QED
        BY <4>1, <4>2
    <3>2. CASE j # n + 1
      <4>1. j \in 0..n /\ (j # 0 => j - 1 \in 0..(n + 1) /\ j - 1 # n + 1)
        BY <3>2
      <4>2. f[j] = IF j = 0 THEN 0 ELSE Taken(s, t, f[j - 1], j)
        BY <2>1, <4>1 DEF MatchesUpTo
      <4>3. g[j] = f[j] /\ (j # 0 => g[j - 1] = f[j - 1])
        BY <3>2, <4>1
      <4> QED
        BY <4>2, <4>3
    <3> QED
      BY <3>1, <3>2
  <2>3. g = h
    BY <2>2
  <2>4. MatchesUpTo(s, t, n + 1, g)
    BY <2>3, Zenon DEF MatchesUpTo
  <2> QED
    BY <2>4
<1> HIDE DEF S
<1>3. k \in S
  BY <1>1, <1>2, Induction
<1> QED
  BY <1>3 DEF S

LEMMA MatchedIs ==
  ASSUME NEW s, NEW t, Len(t) \in Nat
  PROVE  \E f : MatchesUpTo(s, t, Len(t), f) /\ Matched(s, t) = f[Len(t)]
<1> DEFINE f == CHOOSE f : MatchesUpTo(s, t, Len(t), f)
<1>1. MatchesUpTo(s, t, Len(t), f)
  BY MatchesExists
<1>2. Matched(s, t) = f[Len(t)]
  BY Zenon DEF Matched, MatchesUpTo, Taken
<1> QED
  BY <1>1, <1>2

\* The places in t, in their order, of the elements of s.
Places(f, s, t) ==
  /\ f \in [1..Len(s) -> 1..Len(t)]
  /\ \A i \in 1..Len(s) : s[i] = t[f[i]]
  /\ \A i, j \in 1..Len(s) : i < j => f[i] < f[j]

Embedded(s, t) == \E f : Places(f, s, t)

\* The search finds the elements of s if they have places in t.
LEMMA MatchesEmbedded ==
  ASSUME NEW s \in Seq(Byte), NEW t \in Seq(Byte), Embedded(s, t)
  PROVE  LeavesOut(s, t)
<1>1. PICK f : Places(f, s, t)
  BY DEF Embedded
<1>2. Len(s) \in Nat /\ Len(t) \in Nat
  OBVIOUS
<1>3. PICK m : MatchesUpTo(s, t, Len(t), m) /\ Matched(s, t) = m[Len(t)]
  BY <1>2, MatchedIs
<1>4. m[0] = 0 /\ \A n \in Nat : n + 1 <= Len(t) => m[n + 1] = Taken(s, t, m[n], n + 1)
  <2>1. 0 \in 0..Len(t)
    BY <1>2
  <2>2. ASSUME NEW n \in Nat, n + 1 <= Len(t)
        PROVE  m[n + 1] = Taken(s, t, m[n], n + 1)
    <3>1. n + 1 \in 0..Len(t) /\ n + 1 # 0 /\ (n + 1) - 1 = n
      BY <1>2, <2>2
    <3> QED
      BY <1>3, <3>1 DEF MatchesUpTo
  <2> QED
    BY <1>3, <2>1, <2>2 DEF MatchesUpTo
<1> DEFINE S == {n \in Nat : n <= Len(t) =>
                   /\ m[n] \in 0..Len(s)
                   /\ \A i \in 1..Len(s) : f[i] <= n => i <= m[n]}
<1>5. 0 \in S
  <2>1. \A i \in 1..Len(s) : ~(f[i] <= 0)
    BY <1>1, <1>2 DEF Places
  <2> QED
    BY <1>2, <1>4, <2>1
<1>6. ASSUME NEW n \in Nat, n \in S
      PROVE  n + 1 \in S
  <2> SUFFICES ASSUME n + 1 <= Len(t)
               PROVE  /\ m[n + 1] \in 0..Len(s)
                      /\ \A i \in 1..Len(s) : f[i] <= n + 1 => i <= m[n + 1]
    OBVIOUS
  <2>1. /\ m[n] \in 0..Len(s)
        /\ \A i \in 1..Len(s) : f[i] <= n => i <= m[n]
    BY <1>2, <1>6
  <2>2. m[n + 1] = IF m[n] < Len(s) /\ s[m[n] + 1] = t[n + 1] THEN m[n] + 1 ELSE m[n]
    BY <1>4 DEF Taken
  <2> HIDE DEF S
  <2>3. m[n + 1] \in 0..Len(s) /\ m[n] <= m[n + 1]
    BY <1>2, <2>1, <2>2
  <2>4. ASSUME NEW i \in 1..Len(s), f[i] <= n + 1
        PROVE  i <= m[n + 1]
    <3>1. CASE f[i] <= n
      BY <1>2, <2>1, <2>3, <3>1
    <3>2. CASE f[i] > n
      <4>1. f[i] = n + 1 /\ s[i] = t[n + 1]
        BY <1>1, <1>2, <2>4, <3>2 DEF Places
      <4>2. i - 1 <= m[n]
        <5>1. CASE i = 1
          BY <1>2, <2>1, <5>1
        <5>2. CASE i # 1
          <6>1. i - 1 \in 1..Len(s) /\ i - 1 < i
            BY <1>2, <5>2
          <6>2. f[i - 1] < f[i] /\ f[i - 1] \in 1..Len(t)
            BY <1>1, <6>1 DEF Places
          <6>3. f[i - 1] <= n
            BY <1>2, <4>1, <6>2
          <6> QED
            BY <2>1, <6>1, <6>3
        <5> QED
          BY <5>1, <5>2
      <4>3. CASE i <= m[n]
        BY <1>2, <2>1, <2>3, <4>3
      <4>4. CASE m[n] = i - 1
        <5>1. m[n] < Len(s) /\ m[n] + 1 = i
          BY <1>2, <4>4
        <5> QED
          BY <2>2, <4>1, <5>1
      <4> QED
        BY <1>2, <2>1, <4>2, <4>3, <4>4
    <3>3. f[i] \in Nat
      BY <1>1, <1>2 DEF Places
    <3> QED
      BY <3>1, <3>2, <3>3
  <2> QED
    BY <2>3, <2>4
<1> HIDE DEF S
<1>7. Len(t) \in S
  BY <1>2, <1>5, <1>6, Induction
<1>8. /\ m[Len(t)] \in 0..Len(s)
      /\ \A i \in 1..Len(s) : f[i] <= Len(t) => i <= m[Len(t)]
  BY <1>2, <1>7 DEF S
<1>9. m[Len(t)] = Len(s)
  <2>1. CASE Len(s) = 0
    BY <1>8, <2>1
  <2>2. CASE Len(s) # 0
    <3>1. Len(s) \in 1..Len(s)
      BY <1>2, <2>2
    <3>2. f[Len(s)] <= Len(t)
      BY <1>1, <1>2, <3>1 DEF Places
    <3> QED
      BY <1>2, <1>8, <3>1, <3>2
  <2> QED
    BY <2>1, <2>2
<1> QED
  BY <1>3, <1>9 DEF LeavesOut

LEMMA EmbeddedInItself ==
  ASSUME NEW s \in Seq(Byte)
  PROVE  Embedded(s, s)
<1> DEFINE f == [i \in 1..Len(s) |-> i]
<1>1. Places(f, s, s)
  BY DEF Places
<1> QED
  BY <1>1, Zenon DEF Embedded

\* What is sent later has its places after all others.
LEMMA EmbeddedSuffix ==
  ASSUME NEW s \in Seq(Byte), NEW t \in Seq(Byte), NEW u \in Seq(Byte), Embedded(s, t)
  PROVE  Embedded(s \o u, t \o u)
<1>1. PICK f : Places(f, s, t)
  BY DEF Embedded
<1> DEFINE n == Len(s)
           k == Len(t)
           g == [i \in 1..(n + Len(u)) |-> IF i <= n THEN f[i] ELSE (i - n) + k]
<1>2. n \in Nat /\ k \in Nat /\ Len(u) \in Nat
  OBVIOUS
<1>3. /\ Len(s \o u) = n + Len(u) /\ Len(t \o u) = k + Len(u)
      /\ \A i \in 1..(n + Len(u)) : (s \o u)[i] = IF i <= n THEN s[i] ELSE u[i - n]
      /\ \A i \in 1..(k + Len(u)) : (t \o u)[i] = IF i <= k THEN t[i] ELSE u[i - k]
  OBVIOUS
<1>4. \A i \in 1..n : f[i] \in 1..k /\ s[i] = t[f[i]]
  BY <1>1 DEF Places
<1>5. \A i, j \in 1..n : i < j => f[i] < f[j]
  BY <1>1 DEF Places
<1> HIDE DEF n, k
<1>6. ASSUME NEW i \in 1..(n + Len(u))
      PROVE  g[i] \in 1..(k + Len(u)) /\ (s \o u)[i] = (t \o u)[g[i]]
  <2>1. CASE i <= n
    <3>1. i \in 1..n /\ g[i] = f[i]
      BY <1>2, <2>1
    <3>2. f[i] \in 1..(k + Len(u)) /\ f[i] <= k
      BY <1>2, <1>4, <3>1
    <3> QED
      BY <1>3, <1>4, <2>1, <3>1, <3>2
  <2>2. CASE ~(i <= n)
    <3>1. g[i] = (i - n) + k
      BY <2>2
    <3>2. /\ (i - n) + k \in 1..(k + Len(u)) /\ ~((i - n) + k <= k)
          /\ ((i - n) + k) - k = i - n
      BY <1>2, <2>2
    <3> QED
      BY <1>3, <2>2, <3>1, <3>2
  <2> QED
    BY <2>1, <2>2
<1>7. ASSUME NEW i \in 1..(n + Len(u)), NEW j \in 1..(n + Len(u)), i < j
      PROVE  g[i] < g[j]
  <2>1. CASE j <= n
    <3>1. i \in 1..n /\ j \in 1..n /\ g[i] = f[i] /\ g[j] = f[j]
      BY <1>2, <1>7, <2>1
    <3> QED
      BY <1>5, <1>7, <3>1
  <2>2. CASE i <= n /\ ~(j <= n)
    <3>1. i \in 1..n /\ g[i] = f[i] /\ g[j] = (j - n) + k
      BY <1>2, <2>2
    <3>2. f[i] \in 1..k
      BY <1>4, <3>1
    <3> QED
      BY <1>2, <2>2, <3>1, <3>2
  <2>3. CASE ~(i <= n) /\ ~(j <= n)
    BY <1>2, <1>7, <2>3
  <2> QED
    BY <1>2, <1>7, <2>1, <2>2, <2>3
<1>8. g \in [1..(n + Len(u)) -> 1..(k + Len(u))]
  BY <1>6
<1> HIDE DEF g
<1>9. Places(g, s \o u, t \o u)
  BY <1>3, <1>6, <1>7, <1>8, Zenon DEF Places
<1> QED
  BY <1>9 DEF Embedded

\* Leaving out the middle of what has places.
LEMMA EmbeddedWithout ==
  ASSUME NEW a \in Seq(Byte), NEW b \in Seq(Byte), NEW c \in Seq(Byte), NEW t \in Seq(Byte),
         Embedded(a \o (b \o c), t)
  PROVE  Embedded(a \o c, t)
<1> DEFINE s == a \o (b \o c)
           n == Len(a)
           k == Len(b)
           l == Len(c)
<1>1. PICK f : Places(f, s, t)
  BY DEF Embedded
<1> DEFINE g == [i \in 1..(n + l) |-> IF i <= n THEN f[i] ELSE f[i + k]]
<1>2. n \in Nat /\ k \in Nat /\ l \in Nat
  OBVIOUS
<1>3. /\ Len(a \o c) = n + l
      /\ \A i \in 1..(n + l) : (a \o c)[i] = IF i <= n THEN a[i] ELSE c[i - n]
  OBVIOUS
<1>4. /\ Len(s) = n + (k + l)
      /\ \A i \in 1..(n + (k + l)) : s[i] = IF i <= n THEN a[i] ELSE (b \o c)[i - n]
      /\ \A i \in 1..(k + l) : (b \o c)[i] = IF i <= k THEN b[i] ELSE c[i - k]
  <2>1. b \o c \in Seq(Byte) /\ Len(b \o c) = k + l
    OBVIOUS
  <2> QED
    BY <2>1
<1>5. /\ \A i \in 1..(n + (k + l)) : f[i] \in 1..Len(t) /\ s[i] = t[f[i]]
      /\ \A i, j \in 1..(n + (k + l)) : i < j => f[i] < f[j]
  BY <1>1, <1>4 DEF Places
<1> HIDE DEF s, n, k, l
<1>6. ASSUME NEW i \in 1..(n + l)
      PROVE  g[i] \in 1..Len(t) /\ (a \o c)[i] = t[g[i]]
  <2>1. CASE i <= n
    <3>1. i \in 1..(n + (k + l)) /\ g[i] = f[i]
      BY <1>2, <2>1
    <3> QED
      BY <1>3, <1>4, <1>5, <2>1, <3>1
  <2>2. CASE ~(i <= n)
    <3>1. /\ i + k \in 1..(n + (k + l)) /\ g[i] = f[i + k] /\ ~(i + k <= n)
          /\ (i + k) - n \in 1..(k + l) /\ ~((i + k) - n <= k) /\ ((i + k) - n) - k = i - n
      BY <1>2, <2>2
    <3>2. s[i + k] = c[i - n]
      BY <1>4, <3>1
    <3> QED
      BY <1>3, <1>5, <2>2, <3>1, <3>2
  <2> QED
    BY <2>1, <2>2
<1>7. ASSUME NEW i \in 1..(n + l), NEW j \in 1..(n + l), i < j
      PROVE  g[i] < g[j]
  <2> DEFINE x == IF i <= n THEN i ELSE i + k
             y == IF j <= n THEN j ELSE j + k
  <2>1. x \in 1..(n + (k + l)) /\ y \in 1..(n + (k + l)) /\ x < y
    BY <1>2, <1>7
  <2>2. g[i] = f[x] /\ g[j] = f[y]
    OBVIOUS
  <2> HIDE DEF x, y, g
  <2> QED
    BY <1>5, <2>1, <2>2
<1>8. g \in [1..(n + l) -> 1..Len(t)]
  BY <1>6
<1> HIDE DEF g
<1>9. Places(g, a \o c, t)
  BY <1>3, <1>6, <1>7, <1>8, Zenon DEF Places
<1> QED
  BY <1>9 DEF Embedded

\* Removing bytes leaves what was buffered without a part of it: none when the
\* place is not buffered, all when that much is to be removed.
LEMMA RmstrLeavesOut ==
  ASSUME NEW b, Whole(b), NEW p \in Nat, NEW nbytes \in Nat
  PROVE  \E x \in Seq(Byte), y \in Seq(Byte), z \in Seq(Byte) :
           Active(b) = x \o (y \o z) /\ Active(bfrmstr(b, p, nbytes)) = x \o z
<1> DEFINE none == <<>>
<1>1. none \in Seq(Byte) /\ none \o none = none
  OBVIOUS
<1>2. Active(b) \in Seq(Byte)
  BY ActiveOfWhole
<1>3. \A s \in Seq(Byte) : none \o s = s /\ s \o none = s
  OBVIOUS
<1> HIDE DEF none
<1>4. /\ b.mem \in Seq(Byte) /\ b.readp \in Nat /\ b.writep \in Nat /\ b.nbuffered \in Nat
      /\ b.nbuffered = b.readp - b.writep /\ b.readp <= Len(b.mem)
  BY WholeIsBuffer
<1>5. CASE ~InActivePortion(b, p)
  <2>1. bfrmstr(b, p, nbytes) = b
    BY <1>5 DEF bfrmstr
  <2>2. none \o (none \o Active(b)) = Active(b) /\ none \o Active(b) = Active(b)
    BY <1>2, <1>3
  <2> QED
    BY <1>1, <1>2, <2>1, <2>2
<1>6. CASE InActivePortion(b, p) /\ nbytes >= b.nbuffered
  <2>1. Active(bfrmstr(b, p, nbytes)) = none
    BY <1>4, <1>6, RmstrWhole DEF InActivePortion, none
  <2>2. none \o (Active(b) \o none) = Active(b)
    BY <1>2, <1>3
  <2> QED
    BY <1>1, <1>2, <2>1, <2>2
<1>7. CASE InActivePortion(b, p) /\ ~(nbytes >= b.nbuffered)
  <2> DEFINE n == IF nbytes > b.readp - p THEN b.readp - p ELSE nbytes
             x == SubSeq(b.mem, b.writep + 1, p)
             y == SubSeq(b.mem, p + 1, p + n)
             z == SubSeq(b.mem, (p + n) + 1, b.readp)
  <2>1. b.writep <= p /\ p <= b.readp /\ nbytes < b.nbuffered
    BY <1>4, <1>7 DEF InActivePortion
  <2>2. n \in Nat /\ p + n <= b.readp /\ n < b.nbuffered /\ ~(n > b.readp - p)
    BY <1>4, <2>1
  <2>3. bfrmstr(b, p, nbytes) = bfrmstr(b, p, n)
    <3>1. /\ InActivePortion(b, p) /\ ~(nbytes >= b.nbuffered) /\ ~(n >= b.nbuffered)
          /\ n = IF n > b.readp - p THEN b.readp - p ELSE n
      BY <1>4, <1>7, <2>2
    <3> QED
      BY <3>1 DEF bfrmstr
  <2> HIDE DEF n
  <2>4. Active(bfrmstr(b, p, n)) = x \o z
    BY <2>1, <2>2, RmstrWhole
  <2>5. /\ p + n \in Nat /\ p + n <= Len(b.mem) /\ p <= p + n
        /\ p <= Len(b.mem) /\ b.writep <= b.readp
    BY <1>4, <2>1, <2>2
  <2>6. x \in Seq(Byte) /\ y \in Seq(Byte) /\ z \in Seq(Byte)
    <3>1. x \in Seq(Byte)
      BY <1>4, <2>1, <2>5, Slice
    <3>2. y \in Seq(Byte)
      BY <1>4, <2>5, Slice
    <3>3. z \in Seq(Byte)
      BY <1>4, <2>2, <2>5, Slice
    <3> QED
      BY <3>1, <3>2, <3>3
  <2>7. y \o z = SubSeq(b.mem, p + 1, b.readp)
    <3>1. p + 1 \in 1..(Len(b.mem) + 1) /\ p + n \in (p + 1) - 1 .. Len(b.mem)
          /\ b.readp \in p + n .. Len(b.mem)
      BY <1>4, <2>2, <2>5
    <3> QED
      BY <1>4, <3>1, ConcatAdjacentSubSeq
  <2>8. x \o SubSeq(b.mem, p + 1, b.readp) = Active(b)
    <3>1. /\ b.writep + 1 \in 1..(Len(b.mem) + 1)
          /\ p \in (b.writep + 1) - 1 .. Len(b.mem) /\ b.readp \in p .. Len(b.mem)
      BY <1>4, <2>1, <2>5
    <3> QED
      BY <1>4, <3>1, ConcatAdjacentSubSeq DEF Active
  <2> HIDE DEF x, y, z
  <2> QED
    BY <2>3, <2>4, <2>6, <2>7, <2>8
<1> QED
  BY <1>5, <1>6, <1>7

\* An iteration of process_telnet_options() leaves the buffer as it is or removes
\* bytes at the IAC.
LEMMA ParseRemoves ==
  ASSUME iac \in Nat, size \in Nat, Parse
  PROVE  /\ buf' = buf \/ \E n \in Nat : buf' = bfrmstr(buf, iac, n)
         /\ UNCHANGED <<stream, sent, port>>
<1>1. CASE DoubleIAC
  BY <1>1 DEF DoubleIAC, Continue
<1>2. CASE Negotiate
  BY <1>2 DEF Negotiate, Continue
<1>3. CASE OtherCommand
  BY <1>3 DEF OtherCommand, Continue
<1>4. CASE SubOption
  <2> DEFINE se == mystrchr(buf, iac + 3, SE, size - 3)
             n  == se - iac + 1
  <2>1. CASE se # NULL
    <3>1. Continue(bfrmstr(buf, iac, n), iac, size - n)
      BY <1>4, <2>1 DEF SubOption
    <3>2. se \in Nat /\ iac + 3 <= se
      BY <2>1, SearchBounds
    <3> HIDE DEF se
    <3>3. n \in Nat
      BY <3>2
    <3> HIDE DEF n
    <3> QED
      BY <1>4, <3>1, <3>3 DEF Continue, SubOption
  <2>2. CASE se = NULL
    BY <1>4, <2>2 DEF SubOption, Continue
  <2> QED
    BY <2>1, <2>2
<1> QED
  BY <1>1, <1>2, <1>3, <1>4 DEF Parse

\* Three parts, put together from either end.
FromFirst(p, q, r) == (p \o q) \o r
FromLast(p, q, r) == p \o (q \o r)

LEMMA ThreeParts ==
  ASSUME NEW p \in Seq(Byte), NEW q \in Seq(Byte), NEW r \in Seq(Byte)
  PROVE  FromFirst(p, q, r) = FromLast(p, q, r)
BY BytesAssociative DEF FromFirst, FromLast

\* The inductive invariant: what was written, what is buffered and what is unread
\* have places, in their order, among the bytes the client has sent.
Held == (port \o Active(buf)) \o stream
InventsNothing == Embedded(Held, Bytes(sent))

\* What the three parts are, and that together they are bytes.
LEMMA HeldParts ==
  ASSUME ScanInv, TypeOK
  PROVE  /\ Whole(buf) /\ port \in Seq(Byte) /\ Active(buf) \in Seq(Byte)
         /\ stream \in Seq(Byte) /\ Held \in Seq(Byte)
         /\ sent \in Seq(ClientToken) /\ Bytes(sent) \in Seq(Byte)
<1>1. /\ Whole(buf) /\ port \in Seq(Byte) /\ stream \in Seq(Byte)
      /\ sent \in Seq(ClientToken)
  BY WholeWithScan DEF TypeOK
<1>2. Active(buf) \in Seq(Byte)
  BY <1>1, ActiveOfWhole
<1>3. Held \in Seq(Byte)
  BY <1>1, <1>2 DEF Held
<1>4. Bytes(sent) \in Seq(Byte)
  BY <1>1, BytesConcat
<1> QED
  BY <1>1, <1>2, <1>3, <1>4

LEMMA InventsInit == Init => InventsNothing
<1> SUFFICES ASSUME Init
             PROVE  InventsNothing
  OBVIOUS
<1>1. Active(buf) = <<>>
  BY MallocWhole DEF Init
<1>2. <<>> \in Seq(Byte) /\ (<<>> \o <<>>) \o <<>> = <<>>
  OBVIOUS
<1>3. Held = <<>> /\ Bytes(sent) = <<>>
  BY <1>1, <1>2, BytesNone DEF Init, Held
<1> QED
  BY <1>2, <1>3, EmbeddedInItself DEF InventsNothing

\* Reading moves bytes from the socket to the buffer.
LEMMA ReadMoves ==
  ASSUME ScanInv, TypeOK, ReadSocket
  PROVE  Held' = Held
<1>1. PICK n \in 1..Len(stream) :
        /\ buf' = Filled(buf, SubSeq(stream, 1, n))
        /\ stream' = SubSeq(stream, n + 1, Len(stream))
  BY DEF ReadSocket, Continue
<1> DEFINE data == SubSeq(stream, 1, n)
           rest == SubSeq(stream, n + 1, Len(stream))
<1>2. Whole(buf) /\ port \in Seq(Byte) /\ Active(buf) \in Seq(Byte) /\ stream \in Seq(Byte)
  BY HeldParts
<1>3. data \in Seq(Byte) /\ rest \in Seq(Byte) /\ stream = data \o rest
  BY <1>2, StreamParts
<1>4. Active(Filled(buf, data)) = Active(buf) \o data
  BY <1>2, <1>3, FilledWhole
<1>5. port' = port
  BY DEF ReadSocket
<1>6. Held' = (port \o (Active(buf) \o data)) \o rest
  BY <1>1, <1>4, <1>5, Zenon DEF Held
<1> HIDE DEF data, rest
<1>7. FromFirst(port, Active(buf), data) = FromLast(port, Active(buf), data)
  BY <1>2, <1>3, ThreeParts
<1> DEFINE first == port \o Active(buf)
<1>8. first \in Seq(Byte)
  BY <1>2
<1> HIDE DEF first
<1>9. FromFirst(first, data, rest) = FromLast(first, data, rest)
  BY <1>3, <1>8, ThreeParts
<1> QED
  BY <1>3, <1>6, <1>7, <1>9, Zenon DEF Held, FromFirst, FromLast, first

\* Writing moves bytes from the buffer to the device, also when it is cut.
LEMMA WriteMoves ==
  ASSUME ScanInv, TypeOK, WriteSerial
  PROVE  Held' = Held
<1>1. PICK n \in 0..cal_numbytes_to_write(buf) :
        /\ port' = port \o SubSeq(Active(buf), 1, n)
        /\ buf' = IF n > 0 THEN buffer_writepointer_position(buf, n) ELSE buf
  BY DEF WriteSerial
<1> DEFINE data == SubSeq(Active(buf), 1, n)
<1>2. Whole(buf) /\ port \in Seq(Byte) /\ Active(buf) \in Seq(Byte)
  BY HeldParts
<1>3. n \in Nat /\ n <= buf.nbuffered /\ Len(Active(buf)) = buf.nbuffered
  BY <1>1, <1>2, WholeIsBuffer, ActiveOfWhole DEF Linear, cal_numbytes_to_write
<1>4. data \in Seq(Byte)
  BY <1>2, <1>3
<1>5. Active(buf') \in Seq(Byte) /\ data \o Active(buf') = Active(buf)
  <2>1. CASE n > 0
    <3>1. buf' = buffer_writepointer_position(buf, n)
      BY <1>1, <2>1
    <3>2. Whole(buf') /\ data \o Active(buf') = Active(buf)
      BY <1>2, <1>3, <3>1, WriteWhole
    <3> QED
      BY <3>2, ActiveOfWhole
  <2>2. CASE ~(n > 0)
    <3>1. buf' = buf /\ n = 0
      BY <1>1, <1>3, <2>2
    <3>2. data = <<>>
      BY <3>1
    <3>3. data \o Active(buf) = Active(buf)
      BY <1>2, <3>2, ConcatEmptySeq, Zenon
    <3> QED
      BY <1>2, <3>1, <3>3
  <2> QED
    BY <2>1, <2>2
<1>6. Active(buf)' = Active(buf') /\ stream' = stream
  BY DEF WriteSerial, Active
<1> HIDE DEF data
<1>7. FromFirst(port, data, Active(buf')) = FromLast(port, data, Active(buf'))
  BY <1>2, <1>4, <1>5, ThreeParts
<1>8. port' = port \o data
  BY <1>1 DEF data
<1> QED
  BY <1>5, <1>6, <1>7, <1>8, Zenon DEF Held, FromFirst, FromLast

\* Four parts, put together from the inside or in two pairs.
Nested(p, x, q, r) == (p \o (x \o q)) \o r
InPairs(p, x, q, r) == (p \o x) \o (q \o r)

LEMMA FourParts ==
  ASSUME NEW p \in Seq(Byte), NEW x \in Seq(Byte), NEW q \in Seq(Byte), NEW r \in Seq(Byte)
  PROVE  Nested(p, x, q, r) = InPairs(p, x, q, r)
<1> DEFINE px == p \o x
<1>1. px \in Seq(Byte)
  OBVIOUS
<1>2. FromFirst(p, x, q) = FromLast(p, x, q)
  BY ThreeParts
<1> HIDE DEF px
<1>3. FromFirst(px, q, r) = FromLast(px, q, r)
  BY <1>1, ThreeParts
<1> QED
  BY <1>2, <1>3, Zenon DEF px, Nested, InPairs, FromFirst, FromLast

\* Leaving out a part of what lies between other parts.
LEMMA EmbeddedInside ==
  ASSUME NEW p \in Seq(Byte), NEW x \in Seq(Byte), NEW y \in Seq(Byte), NEW z \in Seq(Byte),
         NEW r \in Seq(Byte), NEW t \in Seq(Byte), Embedded(Nested(p, x, y \o z, r), t)
  PROVE  Embedded(Nested(p, x, z, r), t)
<1>1. p \o x \in Seq(Byte) /\ z \o r \in Seq(Byte) /\ y \o z \in Seq(Byte)
  OBVIOUS
<1>2. FromFirst(y, z, r) = FromLast(y, z, r)
  BY ThreeParts
<1>3. Nested(p, x, z, r) = InPairs(p, x, z, r)
  BY FourParts
<1>4. Nested(p, x, y \o z, r) = InPairs(p, x, y \o z, r)
  <2> DEFINE yz == y \o z
  <2>1. yz \in Seq(Byte)
    BY <1>1
  <2> HIDE DEF yz
  <2>2. Nested(p, x, yz, r) = InPairs(p, x, yz, r)
    BY <2>1, FourParts
  <2> QED
    BY <2>2 DEF yz
<1>5. Embedded((p \o x) \o (y \o (z \o r)), t)
  BY <1>2, <1>4, Zenon DEF InPairs, FromFirst, FromLast
<1>6. Embedded((p \o x) \o (z \o r), t)
  BY <1>1, <1>5, EmbeddedWithout, Zenon
<1> QED
  BY <1>3, <1>6, Zenon DEF InPairs

\* Parsing leaves out a part of what is buffered.
LEMMA ParseLeavesOut ==
  ASSUME ScanInv, TypeOK, InventsNothing, Parse
  PROVE  InventsNothing'
<1>1. /\ Whole(buf) /\ port \in Seq(Byte) /\ Active(buf) \in Seq(Byte)
      /\ stream \in Seq(Byte) /\ Bytes(sent) \in Seq(Byte)
  BY HeldParts
<1>2. iac \in Nat /\ size \in Nat
  BY DEF TypeOK
<1>3. /\ buf' = buf \/ \E n \in Nat : buf' = bfrmstr(buf, iac, n)
      /\ UNCHANGED <<stream, sent, port>>
  BY <1>2, ParseRemoves
<1>4. CASE buf' = buf
  BY <1>3, <1>4 DEF InventsNothing, Held, Active, Bytes
<1>5. CASE \E n \in Nat : buf' = bfrmstr(buf, iac, n)
  <2>1. PICK n \in Nat : buf' = bfrmstr(buf, iac, n)
    BY <1>5
  <2>2. PICK x \in Seq(Byte), y \in Seq(Byte), z \in Seq(Byte) :
          Active(buf) = x \o (y \o z) /\ Active(buf') = x \o z
    <3>1. \E x \in Seq(Byte), y \in Seq(Byte), z \in Seq(Byte) :
            Active(buf) = x \o (y \o z) /\ Active(bfrmstr(buf, iac, n)) = x \o z
      BY <1>1, <1>2, RmstrLeavesOut
    <3> QED
      BY <2>1, <3>1
  <2>3. Embedded(Nested(port, x, y \o z, stream), Bytes(sent))
    BY <2>2, Zenon DEF InventsNothing, Held, Nested
  <2>4. Embedded(Nested(port, x, z, stream), Bytes(sent))
    BY <1>1, <2>3, EmbeddedInside
  <2>5. Held' = Nested(port, x, z, stream)
    <3>1. Active(buf)' = Active(buf')
      BY DEF Active
    <3> QED
      BY <1>3, <2>2, <3>1, Zenon DEF Held, Nested
  <2>6. Bytes(sent)' = Bytes(sent)
    BY <1>3 DEF Bytes
  <2> QED
    BY <2>4, <2>5, <2>6 DEF InventsNothing
<1> QED
  BY <1>3, <1>4, <1>5

\* What is sent is unread, and the last that was sent.
LEMMA SendInvents ==
  ASSUME ScanInv, TypeOK, InventsNothing, ClientSends
  PROVE  InventsNothing'
<1>1. PICK token \in ClientToken : stream' = stream \o token /\ sent' = Append(sent, token)
  BY DEF ClientSends
<1>2. /\ port \in Seq(Byte) /\ Active(buf) \in Seq(Byte) /\ stream \in Seq(Byte)
      /\ Held \in Seq(Byte) /\ sent \in Seq(ClientToken) /\ Bytes(sent) \in Seq(Byte)
  BY HeldParts
<1>3. token \in Seq(Byte)
  BY ClientAssumption
<1>4. port' = port /\ Active(buf)' = Active(buf)
  BY DEF ClientSends, Active
<1> DEFINE first == port \o Active(buf)
<1>5. first \in Seq(Byte)
  BY <1>2
<1>6. Held = first \o stream /\ Held' = first \o (stream \o token)
  BY <1>1, <1>4 DEF Held
<1> HIDE DEF first
<1>7. Held' = Held \o token
  <2>1. FromFirst(first, stream, token) = FromLast(first, stream, token)
    BY <1>2, <1>3, <1>5, ThreeParts
  <2> QED
    BY <1>6, <2>1, Zenon DEF FromFirst, FromLast
<1>8. Bytes(sent)' = Bytes(sent) \o token
  <2>1. Bytes(Append(sent, token)) = Bytes(sent) \o token
    BY <1>2, BytesAppend
  <2> QED
    BY <1>1, <2>1 DEF Bytes
<1>9. Embedded(Held \o token, Bytes(sent) \o token)
  BY <1>2, <1>3, EmbeddedSuffix DEF InventsNothing
<1> QED
  BY <1>7, <1>8, <1>9 DEF InventsNothing

LEMMA InventsNext == ScanInv /\ TypeOK /\ InventsNothing /\ [Next]_vars => InventsNothing'
<1> SUFFICES ASSUME ScanInv, TypeOK, InventsNothing, [Next]_vars
             PROVE  InventsNothing'
  OBVIOUS
<1>idle. Held' = Held /\ sent' = sent => InventsNothing'
  BY DEF InventsNothing, Bytes
<1>same. port' = port /\ Active(buf') = Active(buf) /\ stream' = stream => Held' = Held
  BY DEF Held, Active
<1>1. CASE ReadSocket
  <2>1. sent' = sent
    BY <1>1 DEF ReadSocket
  <2> QED
    BY <1>1, <1>idle, <2>1, ReadMoves
<1>2. CASE ReadNothing \/ WriteFails \/ Ended \/ UNCHANGED vars
  <2>1. UNCHANGED <<buf, stream, sent, port>>
    BY <1>2 DEF ReadNothing, WriteFails, Ended, vars
  <2> QED
    BY <1>idle, <1>same, <2>1
<1>3. CASE ReadFails
  <2>1. UNCHANGED <<stream, sent, port>> /\ buf' \in {buf, [buf EXCEPT !.eof = TRUE]}
    BY <1>3 DEF ReadFails
  <2>2. Active(buf') = Active(buf)
    <3>1. Active([buf EXCEPT !.eof = TRUE]) = Active(buf)
      BY HeldParts, EofWhole
    <3> QED
      BY <2>1, <3>1
  <2> QED
    BY <1>idle, <1>same, <2>1, <2>2
<1>4. CASE Parse
  BY <1>4, ParseLeavesOut
<1>5. CASE WriteSerial
  <2>1. sent' = sent
    BY <1>5 DEF WriteSerial
  <2> QED
    BY <1>5, <1>idle, <2>1, WriteMoves
<1>6. CASE ClientSends
  BY <1>6, SendInvents
<1> QED
  BY <1>1, <1>2, <1>3, <1>4, <1>5, <1>6, Zenon DEF Next

\* Wherever reads and writes are cut, and whatever the client sends, be it telnet or
\* not: the device gets no byte that was not sent, none twice and none out of
\* order, for any buffer size.
THEOREM DeviceGetsNothingElse == Spec => []NothingInvented
<1>1. ScanInv /\ TypeOK /\ InventsNothing => NothingInvented
  <2> SUFFICES ASSUME ScanInv, TypeOK, InventsNothing
               PROVE  NothingInvented
    OBVIOUS
  <2>1. Held \in Seq(Byte) /\ Bytes(sent) \in Seq(Byte)
    BY HeldParts
  <2>2. LeavesOut(Held, Bytes(sent))
    BY <2>1, MatchesEmbedded DEF InventsNothing
  <2> QED
    BY <2>2, Zenon DEF NothingInvented, Held, Bytes
<1> QED
  BY <1>1, ScanInvInit, ScanInvNext, TypesInit, TypesNext, InventsInit, InventsNext, PTL DEF Spec
=============================================================================
