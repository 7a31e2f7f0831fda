----------------------------- MODULE RawGateway -----------------------------
(***************************************************************************)
(* A session of the raw TCP gateway: the select loop of                    *)
(* serial_ip_communication_process() with raw_flag set.  Whatever one      *)
(* recv() returns goes to the device with a null byte after it, whatever   *)
(* one read() of the device returns goes to the client with a newline.     *)
(*                                                                         *)
(* A byte of data is the number of its place in the stream it is sent in.  *)
(* Polling, the idle timer and the signals are as in Session, but a signal  *)
(* that interrupts a read() or a send() is an error here.                  *)
(***************************************************************************)
EXTENDS Integers, SequencesExt

CONSTANTS
  RecvSize,    \* sizeof(raw_buffer), 256
  CommandSize, \* MAX_LEN_MESSAGE, 100
  ReadSize,    \* sizeof(op_pdu_send.data), 200
  MaxSent,     \* bound of the model: of each side, how many bytes it sends
  MaxEmpty     \* bound of the model: answers without data that are recorded

Side == {"client", "device"}

ASSUME RawAssumption ==
  /\ RecvSize \in Nat \ {0} /\ CommandSize \in Nat \ {0} /\ ReadSize \in Nat \ {0}
  /\ MaxSent \in [Side -> Nat] /\ MaxEmpty \in Nat

NUL == 0
NewLine == -1
Stray == -2  \* any other byte: whatever the stack holds

VARIABLES
  pc,      \* where the loop is: "select", "socket", "serial", "done", "crashed"
  sent,    \* of each side, how many bytes it has sent
  unread,  \* of each side, the bytes that were sent and not read
  gone,    \* the sides that have closed
  chunks,  \* history: of each side, what every read returned, empty reads included
  passed,  \* of each side, what was written to the other one
  cut      \* history: the sides something of which was lost in a write

vars == <<pc, sent, unread, gone, chunks, passed, cut>>

Init ==
  /\ pc = "select"
  /\ sent = [s \in Side |-> 0] /\ gone = {} /\ cut = {}
  /\ unread = [s \in Side |-> <<>>]
  /\ chunks = [s \in Side |-> <<>>] /\ passed = [s \in Side |-> <<>>]

Over == pc \in {"done", "crashed"}
Ready(s) == unread[s] # <<>> \/ s \in gone

\* A select that looks at the device first, and only then at the client.
SelectDeviceFirst ==
  /\ pc = "select" /\ \E s \in Side : Ready(s)
  /\ pc' = IF Ready("device") THEN "serial" ELSE "socket"
  /\ UNCHANGED <<sent, unread, gone, chunks, passed, cut>>

Select ==
  /\ pc = "select" /\ \E s \in Side : Ready(s)
  /\ pc' = IF Ready("client") THEN "socket" ELSE "serial"
  /\ UNCHANGED <<sent, unread, gone, chunks, passed, cut>>

\* One read takes any part of what is there, up to its size.
Reads(s, size, chunk) ==
  /\ Len(chunk) <= size
  /\ unread' = [unread EXCEPT ![s] = SubSeq(@, Len(chunk) + 1, Len(@))]
  /\ chunks' = [chunks EXCEPT ![s] = Append(@, chunk)]

Parts(seq) == Prefixes(seq) \ {<<>>}

\* One write of a frame: all of it, or a part of it, and nobody sends the rest.
Writes(s, frame) ==
  \E part \in Parts(frame) :
    /\ passed' = [passed EXCEPT ![s] = @ \o part]
    /\ cut' = IF part = frame THEN cut ELSE cut \union {s}

Lost(s) == passed' = passed /\ cut' = cut \union {s}

\* The copy into command, and the null byte after what was read, do not fit.
Overruns(chunk) == Len(chunk) >= CommandSize \/ Len(chunk) = RecvSize

\* What lies behind command on the stack may be the very bytes to be written, or
\* how many they are.
Spoilt(frame) ==
  LET Of(n) == {[i \in 1..n |-> IF i \in kept THEN frame[i] ELSE Stray] :
                  kept \in SUBSET DOMAIN frame}
  IN  UNION {Of(n) : n \in 1..(Len(frame) + 1)}

MessageFrames(chunk) ==
  IF Overruns(chunk) THEN Spoilt(Append(chunk, NUL)) ELSE {Append(chunk, NUL)}

\* An end of file that is no error.
IgnoreEOF ==
  /\ pc = "socket" /\ unread["client"] = <<>>
  /\ pc' = "serial"
  /\ passed' = [passed EXCEPT !["client"] = Append(SelectSeq(@, LAMBDA b : b # Stray), Stray)]
  /\ UNCHANGED <<sent, unread, gone, chunks, cut>>

\* At the end of the client's data the frame is one byte that nobody has set.  A
\* connection that was reset has none, and may lose what was not read.
SocketEOF ==
  /\ pc = "socket" /\ "client" \in gone
  /\ pc' = "done"
  /\ \/ unread["client"] = <<>> /\ Writes("client", <<Stray>>)
     \/ UNCHANGED <<passed, cut>>
  /\ UNCHANGED <<sent, unread, gone, chunks>>

\* One recv() and one write().  What runs over command changes the frame, or ends
\* the process as the function returns.
raw_TCP_socket_to_serial ==
  /\ pc = "socket"
  /\ \E chunk \in Parts(unread["client"]) : \E frame \in MessageFrames(chunk) :
       /\ Reads("client", RecvSize, chunk)
       /\ \/ Writes("client", frame) /\ pc' = "serial"
          \/ Lost("client") /\ pc' = "done"
          \/ Overruns(chunk) /\ pc' = "crashed" /\ (Writes("client", frame) \/ Lost("client"))
  /\ UNCHANGED <<sent, gone>>

\* No newline after what was read.
NoNewLine(chunk) == chunk
Answer(chunk) == Append(chunk, NewLine)

\* send() fails once the client has closed, or when a signal interrupts it while
\* the client does not read.
SendAnswer(chunk) ==
  \/ Writes("device", Answer(chunk)) /\ pc' = "select"
  \/ Lost("device") /\ pc' = "done"

\* The loop reads the device whether it is ready or not, and the read() blocks.
raw_data_to_TCP_socket ==
  /\ pc = "serial"
  /\ \E chunk \in Parts(unread["device"]) :
       Reads("device", ReadSize, chunk) /\ SendAnswer(chunk)
  /\ UNCHANGED <<sent, gone>>

\* A signal that the process survives ends the session if the read() blocks.
ReadInterrupted ==
  /\ pc = "serial" /\ unread["device"] = <<>> /\ "device" \notin gone
  /\ pc' = "done"
  /\ UNCHANGED <<sent, unread, gone, chunks, passed, cut>>

\* A device that has hung up: an error ends the session, an end of file does not,
\* and is answered each time.
DeviceEOF ==
  /\ pc = "serial" /\ unread["device"] = <<>> /\ "device" \in gone
  /\ \/ pc' = "done" /\ UNCHANGED <<unread, chunks, passed, cut>>
     \/ /\ Cardinality({i \in DOMAIN chunks["device"] : chunks["device"][i] = <<>>}) < MaxEmpty
        /\ Reads("device", ReadSize, <<>>) /\ SendAnswer(<<>>)
     \/ /\ Cardinality({i \in DOMAIN chunks["device"] : chunks["device"][i] = <<>>}) >= MaxEmpty
        /\ pc' = "select" /\ UNCHANGED <<unread, chunks, passed, cut>>
  /\ UNCHANGED <<sent, gone>>

Sends(s) ==
  /\ s \notin gone /\ sent[s] < MaxSent[s]
  /\ sent' = [sent EXCEPT ![s] = @ + 1]
  /\ unread' = [unread EXCEPT ![s] = Append(@, sent[s] + 1)]
  /\ UNCHANGED <<pc, gone, chunks, passed, cut>>

Closes(s) ==
  /\ s \notin gone
  /\ gone' = gone \union {s}
  /\ UNCHANGED <<pc, sent, unread, chunks, passed, cut>>

Session == Select \/ raw_TCP_socket_to_serial \/ SocketEOF \/ raw_data_to_TCP_socket \/ DeviceEOF

Next == Session \/ ReadInterrupted \/ \E s \in Side : Sends(s) \/ Closes(s)

\* The loop goes on whenever no call blocks.
Spec == Init /\ [][Next]_vars /\ WF_vars(Session)

-----------------------------------------------------------------------------
(* Properties *)

Stream(n) == [i \in 1..n |-> i]
Framed(reads, end) == FlattenSeq([i \in DOMAIN reads |-> Append(reads[i], end)])

\* However TCP cuts the client's bytes into reads, the device gets each of them
\* once, in order, and a null byte after every read; the byte that nobody has set
\* comes last and once, when the session is over.  A read that runs over command
\* may spoil its own frame and what follows, and never what the device has got of
\* the reads before.
DeviceGetsFrames ==
  LET reads == chunks["client"]
      Sound(k) == \A i \in 1..k : ~Overruns(reads[i])
  IN
  /\ FlattenSeq(reads) \o unread["client"] = Stream(sent["client"])
  /\ "client" \notin cut =>
       /\ Sound(Len(reads)) =>
            \/ passed["client"] = Framed(reads, NUL)
            \/ pc = "done" /\ passed["client"] = Append(Framed(reads, NUL), Stray)
       /\ \A k \in 1..Len(reads) :
            Sound(k) => IsPrefix(Framed(SubSeq(reads, 1, k), NUL), passed["client"])

\* The client gets each byte of the device once, in order, and a newline after
\* every read; a line without data only from a device that has hung up.
AnswersFramed ==
  LET reads == chunks["device"] IN
  /\ FlattenSeq(reads) \o unread["device"] = Stream(sent["device"])
  /\ "device" \notin cut => passed["device"] = Framed(reads, NewLine)
  /\ \A i \in DOMAIN reads : reads[i] = <<>> => "device" \in gone

Blocked == pc = "serial" /\ unread["device"] = <<>> /\ "device" \notin gone

\* When the client has closed, the session ends, even if the device goes on
\* sending or hangs up and makes the loop spin; only a device that stays silent
\* keeps it, blocked in a read().
EndsWithClient == "client" \in gone ~> Over \/ []Blocked
=============================================================================
