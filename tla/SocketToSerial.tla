--------------------------- MODULE SocketToSerial ---------------------------
(***************************************************************************)
(* The data path from the network client to the serial device:             *)
(* read_socket(), process_telnet_options() and write_serial() on           *)
(* socket_to_serial_buf.  The loop of process_telnet_options() is modelled *)
(* one iteration a step, with its locals "iac" and "size"; what it answers *)
(* to the client is the business of Negotiation.                           *)
(*                                                                         *)
(* The client is the environment: it sends data bytes, escaped IACs and    *)
(* telnet commands (ClientToken).  TCP keeps the order of the bytes but    *)
(* not the boundaries of what was sent: with SplitReads a read() ends      *)
(* anywhere.  The device is in blocking mode: a write() is partial only    *)
(* when a signal interrupts it (Interrupted).                              *)
(***************************************************************************)
EXTENDS Buffer, SequencesExt

CONSTANTS
  ClientToken,     \* what the client sends at a time: byte sequences
  SplitReads,      \* may a read() end inside a token?
  Interrupted,     \* may a signal interrupt a write()?
  ComPortEnabled,  \* telnet_client_option_is_enabled(TELOPT_COM_PORT_OPTION)
  MaxTokens        \* bound of the model: tokens sent in one behaviour

TELOPT_COM_PORT_OPTION == 44

ASSUME ClientAssumption ==
  /\ ClientToken \subseteq Seq(Byte)
  /\ SplitReads \in BOOLEAN
  /\ Interrupted \in BOOLEAN
  /\ ComPortEnabled \in BOOLEAN
  /\ MaxTokens \in Nat

VARIABLES
  pc,       \* "read", "parse" (in process_telnet_options), "write", "ended"
  buf,      \* socket_to_serial_buf
  iac,      \* offset of the IAC the loop is at
  size,     \* bytes the loop has left, from iac on
  stream,   \* bytes the client has sent and the server has not read
  sent,     \* history: the tokens the client has sent
  port,     \* history: the bytes written to the serial device
  acted,    \* history: the commands acted on, <<optcode, option>>
  torn      \* history: has a read() ended inside a token, or a write() been cut?

vars == <<pc, buf, iac, size, stream, sent, port, acted, torn>>

-----------------------------------------------------------------------------
Init ==
  /\ pc = "read"
  /\ buf = bfmalloc
  /\ iac = 0 /\ size = 0
  /\ stream = <<>> /\ sent = <<>> /\ port = <<>> /\ acted = <<>>
  /\ torn = FALSE

\* The distance to the next IAC is forgotten.
ContinueUncounted(b, from, left) ==
  LET next == mystrchr(b, from, IAC, left) IN
  /\ buf' = b
  /\ IF left >= 2 /\ next # NULL
     THEN pc' = "parse" /\ iac' = next /\ size' = left
     ELSE pc' = "write" /\ iac' = 0 /\ size' = 0

\* The loop goes on with the buffer b at the first IAC among the "left" bytes
\* from "from" on, unless fewer than the two bytes of a shortest command remain.
\* The first IAC of a fresh buffer is found in the same way.
Continue(b, from, left) ==
  LET next == mystrchr(b, from, IAC, left)
      rest == left - (next - from) IN
  /\ buf' = b
  /\ IF left >= 2 /\ next # NULL /\ rest >= 2
     THEN pc' = "parse" /\ iac' = next /\ size' = rest
     ELSE pc' = "write" /\ iac' = 0 /\ size' = 0

\* Whether the last "unread" bytes of what was sent are a number of whole tokens.
TokenBoundary(unread) ==
  \E i \in 0..Len(sent) : Len(FlattenSeq(SubSeq(sent, i + 1, Len(sent)))) = unread

\* read() returned n bytes of the stream.
ReadSocket ==
  /\ pc = "read"
  /\ \E n \in 1..Len(stream) :
       /\ n <= cal_numbytes_to_read(buf)
       /\ n < Len(stream) => SplitReads
       /\ LET b == Filled(buf, SubSeq(stream, 1, n)) IN
          IF bfstrchr(b, IAC)
          THEN Continue(b, b.writep, b.nbuffered)
          ELSE buf' = b /\ pc' = "write" /\ UNCHANGED <<iac, size>>
       /\ stream' = SubSeq(stream, n + 1, Len(stream))
       /\ torn' = (torn \/ ~TokenBoundary(Len(stream) - n))
  /\ UNCHANGED <<sent, port, acted>>

\* A full buffer, or a read() interrupted by a signal.
ReadNothing ==
  /\ pc = "read"
  /\ cal_numbytes_to_read(buf) >= 0
  /\ pc' = "write"
  /\ UNCHANGED <<buf, iac, size, stream, sent, port, acted, torn>>

\* End of file on the socket, or a failing read(): the session is over.
ReadFails ==
  /\ pc = "read"
  /\ \/ cal_numbytes_to_read(buf) < 0 /\ UNCHANGED buf
     \/ cal_numbytes_to_read(buf) > 0 /\ buf' \in {buf, [buf EXCEPT !.eof = TRUE]}
  /\ pc' = "ended"
  /\ UNCHANGED <<iac, size, stream, sent, port, acted, torn>>

-----------------------------------------------------------------------------
(* One iteration of process_telnet_options, by the byte after the IAC *)

optcode == At(buf, iac + 1)
option  == At(buf, iac + 2)

RemoveBothIAC ==
  /\ pc = "parse" /\ optcode = IAC
  /\ Continue(bfrmstr(buf, iac, 2), iac, size - 2)
  /\ UNCHANGED <<stream, sent, port, acted, torn>>

\* IAC IAC is a data byte 255: one of the two is removed.
DoubleIAC ==
  /\ pc = "parse" /\ optcode = IAC
  /\ Continue(bfrmstr(buf, iac, 1), iac + 1, size - 2)
  /\ UNCHANGED <<stream, sent, port, acted, torn>>

\* WILL, WONT, DO, DONT: respond_telnet_option(), then three bytes go.
Negotiate ==
  /\ pc = "parse" /\ optcode \in OptCode
  /\ acted' = Append(acted, <<optcode, option>>)
  /\ Continue(bfrmstr(buf, iac, 3), iac, size - 3)
  /\ UNCHANGED <<stream, sent, port, torn>>

\* The shortest suboption is taken for incomplete.
CpcSuboptionLonger ==
  LET se == mystrchr(buf, iac + 4, SE, size - 4) IN
  size - 3 > 3 /\ se # NULL /\ At(buf, se - 1) = IAC

\* process_telnet_cpc_suboption() acts on a suboption that ends in IAC SE.  Of one
\* that is empty the length comes out as -1, and the null byte that ends it falls
\* before "command", on the unused end of telnet_cpc_log_subopt's "fmt" (the two
\* statics are neighbours in the build): nothing that is modelled changes.
CpcSuboptionComplete ==
  LET se == mystrchr(buf, iac + 4, SE, size - 4) IN
  size - 3 >= 3 /\ se # NULL /\ At(buf, se - 1) = IAC

\* A suboption without its end is looked at again and again.
SubOptionStuck ==
  /\ pc = "parse" /\ optcode = SB
  /\ LET se == mystrchr(buf, iac + 3, SE, size - 3)
         n  == se - iac + 1 IN
     IF se # NULL THEN Continue(bfrmstr(buf, iac, n), iac, size - n)
                  ELSE Continue(buf, iac, size)
  /\ UNCHANGED <<stream, sent, port, acted, torn>>

\* A suboption goes up to the first SE byte; without one it stays.
SubOption ==
  /\ pc = "parse" /\ optcode = SB
  /\ acted' = IF option = TELOPT_COM_PORT_OPTION /\ ComPortEnabled /\ CpcSuboptionComplete
              THEN Append(acted, <<SB, option>>) ELSE acted
  /\ LET se == mystrchr(buf, iac + 3, SE, size - 3)
         n  == se - iac + 1 IN
     IF se # NULL THEN Continue(bfrmstr(buf, iac, n), iac, size - n)
                  ELSE Continue(buf, iac + 3, size - 3)
  /\ UNCHANGED <<stream, sent, port, torn>>

\* Any other byte after IAC: a two byte command, removed unread.
OtherCommand ==
  /\ pc = "parse" /\ optcode \notin OptCode \union {IAC, SB}
  /\ Continue(bfrmstr(buf, iac, 2), iac, size - 2)
  /\ UNCHANGED <<stream, sent, port, acted, torn>>

-----------------------------------------------------------------------------
\* What an interrupted write() did move is offered again.
WriteSerialAgain ==
  /\ pc = "write"
  /\ \E n \in 0..cal_numbytes_to_write(buf) :
       /\ n < cal_numbytes_to_write(buf) => Interrupted
       /\ port' = port \o SubSeq(Active(buf), 1, n)
       /\ buf' = IF n = cal_numbytes_to_write(buf)
                 THEN buffer_writepointer_position(buf, n) ELSE buf
       /\ torn' = (torn \/ n < cal_numbytes_to_write(buf))
  /\ pc' = "read"
  /\ UNCHANGED <<iac, size, stream, sent, acted>>

\* write() moved n of the bytes it was offered.
WriteSerial ==
  /\ pc = "write"
  /\ \E n \in 0..cal_numbytes_to_write(buf) :
       /\ n < cal_numbytes_to_write(buf) => Interrupted
       /\ port' = port \o SubSeq(Active(buf), 1, n)
       /\ buf' = IF n > 0 THEN buffer_writepointer_position(buf, n) ELSE buf
       /\ torn' = (torn \/ n < cal_numbytes_to_write(buf))
  /\ pc' = "read"
  /\ UNCHANGED <<iac, size, stream, sent, acted>>

WriteFails ==
  /\ pc = "write"
  /\ cal_numbytes_to_write(buf) > 0
  /\ pc' = "ended"
  /\ UNCHANGED <<buf, iac, size, stream, sent, port, acted, torn>>

Ended == pc = "ended" /\ UNCHANGED vars

ClientSends ==
  /\ Len(sent) < MaxTokens
  /\ \E token \in ClientToken :
       /\ stream' = stream \o token
       /\ sent' = Append(sent, token)
  /\ UNCHANGED <<pc, buf, iac, size, port, acted, torn>>

Parse == DoubleIAC \/ Negotiate \/ SubOption \/ OtherCommand

Next ==
  \/ ReadSocket \/ ReadNothing \/ ReadFails
  \/ Parse
  \/ WriteSerial \/ WriteFails
  \/ Ended
  \/ ClientSends

\* process_telnet_options() runs without blocking: the process is scheduled.
Spec == Init /\ [][Next]_vars /\ WF_vars(Parse)

-----------------------------------------------------------------------------
(* Properties *)

TypeOK ==
  /\ pc \in {"read", "parse", "write", "ended"}
  /\ buf \in BufferRecord /\ buf.readp <= Len(buf.mem)
  /\ iac \in Nat /\ size \in Nat
  /\ stream \in Seq(Byte) /\ port \in Seq(Byte)
  /\ sent \in Seq(ClientToken)
  /\ acted \in Seq(Byte \X Byte) /\ torn \in BOOLEAN

\* What a telnet client sends at a time: data without IAC, an escaped IAC, a
\* request, a suboption, whose only SE ends it (a Com Port one names a command),
\* or another command of two bytes.
IsData(t) == t # <<>> /\ \A i \in 1..Len(t) : t[i] # IAC
IsRequest(t) == Len(t) = 3 /\ t[1] = IAC /\ t[2] \in OptCode
IsSuboption(t) ==
  /\ Len(t) >= 5 /\ (t[3] = TELOPT_COM_PORT_OPTION => Len(t) >= 6)
  /\ t[1] = IAC /\ t[2] = SB /\ t[Len(t) - 1] = IAC /\ t[Len(t)] = SE
  /\ \A i \in 4..(Len(t) - 1) : t[i] # SE
IsShort(t) == Len(t) = 2 /\ t[1] = IAC /\ t[2] \notin OptCode \union {IAC, SB}

WellFormed(t) ==
  IsData(t) \/ t = <<IAC, IAC>> \/ IsRequest(t) \/ IsSuboption(t) \/ IsShort(t)

\* What a token of the client stands for: data for the device, or a command.
TokenData(t) ==
  CASE t[1] # IAC -> t [] t = <<IAC, IAC>> -> <<IAC>> [] OTHER -> <<>>

TokenCommand(t) ==
  IF /\ t[1] = IAC
     /\ t[2] \in OptCode \/ (t[2] = SB /\ t[3] = TELOPT_COM_PORT_OPTION /\ ComPortEnabled)
  THEN <<SubSeq(t, 2, 3)>> ELSE <<>>

SentData == FlattenSeq([i \in 1..Len(sent) |-> TokenData(sent[i])])
SentCommands == FlattenSeq([i \in 1..Len(sent) |-> TokenCommand(sent[i])])

Unwritten == IF pc = "parse" THEN SubSeq(buf.mem, buf.writep + 1, iac) ELSE Active(buf)

\* The comment of process_telnet_options: commands are removed from the buffer
\* "so they won't be passed on to the serial port".  What was written to the
\* device, with what is parsed and still buffered, is a prefix of the client's
\* data; it is all of it when nothing is left to read or to parse.
DataDelivered ==
  /\ IsPrefix(port \o Unwritten, SentData)
  /\ stream = <<>> /\ pc # "parse" => port \o Unwritten = SentData

\* As long as reads end between tokens and writes are complete, it is so.
DataDeliveredUntorn == ~torn => DataDelivered

\* Until then every command is acted on once, in the order sent.
CommandsActedOn ==
  ~torn => /\ IsPrefix(acted, SentCommands)
           /\ stream = <<>> /\ pc # "parse" => acted = SentCommands

\* How many elements of s, from its first on, are found in t one after the other.
Matched(s, t) ==
  LET found[j \in 0..Len(t)] ==
        IF j = 0 THEN 0
        ELSE LET before == found[j - 1] IN
             IF before < Len(s) /\ s[before + 1] = t[j] THEN before + 1 ELSE before
  IN found[Len(t)]

\* s is t with some of its elements left out.
LeavesOut(s, t) == Matched(s, t) = Len(s)

\* Wherever reads and writes are cut, also inside commands: no byte reaches the
\* device that the client has not sent, none twice and none before another that
\* was sent earlier; parsing, which moves bytes in the buffer, only drops some.
NothingInvented == LeavesOut(port \o Active(buf) \o stream, FlattenSeq(sent))

\* The scan never leaves the active portion: the bytes left are exactly those
\* from the IAC to the read pointer, and there are enough for a command.
ScanWindow ==
  pc = "parse" => /\ buf.writep <= iac /\ iac + size = buf.readp
                  /\ size >= 2

\* socket_to_serial_buf stays linear, and never holds more than its size:
\* parsing only removes, and read() asks for what is free.
BufferLinear == Linear(buf)
InsideAllocation == buf.readp <= Size

\* So neither the scan nor what it removes touches a byte outside the buffer.
StaysInside == BufferLinear /\ InsideAllocation /\ ScanWindow

\* Each iteration of process_telnet_options() consumes at least one byte ...
ScanProgress == [][pc = "parse" /\ pc' = "parse" => size' < size]_<<pc, buf, iac, size>>

\* ... so the loop always ends and the bytes go on to the device.
ScanEnds == pc = "parse" ~> pc = "write"
=============================================================================
