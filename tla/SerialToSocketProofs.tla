------------------------ MODULE SerialToSocketProofs ------------------------
(***************************************************************************)
(* Proofs about the serial to socket path, for every buffer size, every    *)
(* set of device bytes and every length of behaviour.                      *)
(***************************************************************************)
EXTENDS SerialToSocket, BufferProofs, FiniteSetTheorems

\* Escaping a sequence inserts at most one IAC per byte.
LEMMA NumIACBound ==
  ASSUME NEW s, Len(s) \in Nat
  PROVE  NumIAC(s) \in Nat /\ NumIAC(s) <= Len(s)
<1> DEFINE at == {i \in 1..Len(s) : s[i] = IAC}
<1>1. IsFiniteSet(1..Len(s)) /\ Cardinality(1..Len(s)) = Len(s)
  BY FS_Interval, SMTT(40)
<1>2. IsFiniteSet(at) /\ Cardinality(at) <= Cardinality(1..Len(s))
  BY <1>1, FS_Subset
<1>3. Cardinality(at) \in Nat
  BY <1>2, FS_CardinalityType
<1> QED
  BY <1>1, <1>2, <1>3 DEF NumIAC

\* The active portion of a linear buffer is as long as the buffer says.
LEMMA ActiveLength ==
  ASSUME NEW b, IsBuffer(b), Linear(b)
  PROVE  Len(Active(b)) = b.nbuffered
BY DEF IsBuffer, Linear, Active

-----------------------------------------------------------------------------
(* The buffer stays linear *)

LinearInv == IsBuffer(buf) /\ Linear(buf)

\* Escaping only ever moves the read pointer ahead.
LEMMA EscapedLinear ==
  ASSUME NEW b, IsBuffer(b), Linear(b), b.nbuffered > 0
  PROVE  /\ IsBuffer(Escaped(b)) /\ Linear(Escaped(b))
         /\ Escaped(b).readp <= b.readp + b.nbuffered
         /\ Escaped(b).writep = b.writep
<1> DEFINE n == NumIAC(Active(b))
<1>0. b.nbuffered \in Nat /\ b.readp \in Nat /\ b.writep \in Nat
  BY DEF IsBuffer
<1>1. n \in Nat /\ n <= b.nbuffered
  BY <1>0, ActiveLength, NumIACBound
<1> HIDE DEF n
<1>2. /\ IsBuffer(escape_iac_chars(b)) /\ Linear(escape_iac_chars(b))
      /\ escape_iac_chars(b).readp = b.readp + n
      /\ escape_iac_chars(b).writep = b.writep
  <2>1. b.nbuffered + n > 0
    BY <1>0, <1>1
  <2> QED
    BY <1>1, <2>1, ReadPointerLinear DEF escape_iac_chars, n, Moved
<1> QED
  BY <1>0, <1>1, <1>2 DEF Escaped

\* In a linear buffer a write() is offered exactly the buffered bytes.
LEMMA OfferIsBuffered ==
  ASSUME NEW b, IsBuffer(b), Linear(b)
  PROVE  cal_numbytes_to_write(b) = b.nbuffered
BY DEF IsBuffer, Linear, cal_numbytes_to_write

LEMMA LinearInvNext == LinearInv /\ [Next]_vars => LinearInv'
<1> SUFFICES ASSUME LinearInv, [Next]_vars
             PROVE  LinearInv'
  OBVIOUS
<1> USE SerialAssumption DEF LinearInv
<1>1. CASE ReadSerial
  <2>1. PICK n \in 1..MaxRead : \E data \in [1..n -> DeviceByte] :
          buf' = Escaped(Filled(buf, data))
    BY <1>1 DEF ReadSerial
  <2>2. PICK data \in [1..n -> DeviceByte] : buf' = Escaped(Filled(buf, data))
    BY <2>1
  <2>3. Len(data) \in Nat \ {0}
    OBVIOUS
  <2>4. Moved(buf, Filled(buf, data), Len(data))
    BY <2>3, FilledLinear
  <2>5. Filled(buf, data).nbuffered > 0
    BY <2>3, <2>4 DEF Moved, Linear, IsBuffer
  <2> QED
    BY <2>2, <2>4, <2>5, EscapedLinear DEF Moved
<1>2. CASE ReadNothing
  BY <1>2 DEF ReadNothing
<1>3. CASE ReadFails
  <2> DEFINE c == [buf EXCEPT !.eof = TRUE]
  <2>1. /\ c.mem = buf.mem /\ c.nbuffered = buf.nbuffered
        /\ c.readp = buf.readp /\ c.writep = buf.writep /\ c.eof = TRUE
    BY DEF IsBuffer
  <2>2. IsBuffer(c)
    BY <2>1, Zenon DEF IsBuffer
  <2>3. Linear(c)
    BY <2>1 DEF Linear
  <2> QED
    BY <1>3, <2>2, <2>3 DEF ReadFails
<1>4. CASE WriteSocket
  <2>1. PICK n \in 0..cal_numbytes_to_write(buf) :
          buf' = IF n > 0 THEN buffer_writepointer_position(buf, n) ELSE buf
    BY <1>4 DEF WriteSocket
  <2>2. n \in Nat /\ n <= buf.nbuffered
    BY <2>1, OfferIsBuffered DEF IsBuffer
  <2> QED
    BY <2>1, <2>2, WritePointerLinear
<1>5. CASE WriteFails
  BY <1>5 DEF WriteFails
<1>6. CASE Ended \/ UNCHANGED vars
  BY <1>6 DEF Ended, vars
<1> QED
  BY <1>1, <1>2, <1>3, <1>4, <1>5, <1>6 DEF Next

\* serial_to_socket_buf stays linear whatever the device sends and wherever
\* the writes are interrupted.
THEOREM SerialBufferLinear == Spec => []BufferLinear
<1>1. Init => LinearInv
  BY MallocLinear DEF Init, LinearInv
<1>2. LinearInv => BufferLinear
  BY DEF LinearInv, BufferLinear
<1> QED
  BY <1>1, <1>2, LinearInvNext, PTL DEF Spec

-----------------------------------------------------------------------------
(* Capacity *)

\* While writes are complete, the buffer is empty at every read() and holds at
\* most one escaped read in between.
CapacityInv ==
  /\ LinearInv
  /\ ~cut => /\ pc = "read" => buf.nbuffered = 0
             /\ buf.readp <= 2 * MaxRead

\* Until a write() is cut short, twice the largest read() is all the room the
\* doubled IACs ever need, whatever the bytes.
THEOREM CapacitySuffices == Spec => []Headroom
<1> USE SerialAssumption, SizeAssumption
<1>1. Init => CapacityInv
  BY MallocLinear DEF Init, CapacityInv, LinearInv, bfmalloc, Rewound
<1>2. CapacityInv /\ [Next]_vars => CapacityInv'
  <2> SUFFICES ASSUME CapacityInv, [Next]_vars, ~cut'
               PROVE  (pc' = "read" => buf'.nbuffered = 0) /\ buf'.readp <= 2 * MaxRead
    BY LinearInvNext DEF CapacityInv
  <2>0. IsBuffer(buf) /\ Linear(buf)
    BY DEF CapacityInv, LinearInv
  <2>1. ~cut /\ (pc = "read" => buf.nbuffered = 0) /\ buf.readp <= 2 * MaxRead
    <3>1. CASE WriteSocket
      BY <3>1, Zenon DEF CapacityInv, WriteSocket
    <3>2. CASE ~WriteSocket
      <4>1. cut' = cut
        BY <3>2 DEF Next, vars, ReadSerial, ReadNothing, ReadFails, WriteFails, Ended
      <4> QED
        BY <4>1, Zenon DEF CapacityInv
    <3> QED
      BY <3>1, <3>2
  <2>2. CASE ReadSerial
    <3>1. PICK n \in 1..MaxRead : \E data \in [1..n -> DeviceByte] :
            buf' = Escaped(Filled(buf, data))
      BY <2>2 DEF ReadSerial
    <3>2. PICK data \in [1..n -> DeviceByte] : buf' = Escaped(Filled(buf, data))
      BY <3>1
    <3> DEFINE c == Filled(buf, data)
    <3>3. buf.nbuffered = 0 /\ buf.readp = 0 /\ buf.writep = 0
      BY <2>0, <2>1, <2>2 DEF ReadSerial, IsBuffer, Linear
    <3>4. Len(data) = n /\ Moved(buf, c, Len(data))
      BY <2>0, FilledLinear
    <3> HIDE DEF c
    <3>5. IsBuffer(c) /\ Linear(c) /\ c.readp = n /\ c.nbuffered = n
      BY <3>3, <3>4 DEF IsBuffer, Linear, Moved
    <3>6. IsBuffer(buf') /\ buf'.readp <= n + n
      BY <3>2, <3>5, EscapedLinear DEF c
    <3>7. buf'.readp <= 2 * MaxRead
      BY <3>6 DEF IsBuffer
    <3> QED
      BY <2>2, <3>7 DEF ReadSerial
  <2>3. CASE ReadFails
    <3>1. buf' \in {buf, [buf EXCEPT !.eof = TRUE]} /\ pc' = "ended"
      BY <2>3 DEF ReadFails
    <3>2. buf'.readp = buf.readp
      BY <2>0, <3>1 DEF IsBuffer
    <3> QED
      BY <2>1, <3>1, <3>2
  <2>4. CASE WriteSocket
    <3>1. PICK n \in 0..cal_numbytes_to_write(buf) :
            /\ buf' = IF n > 0 THEN buffer_writepointer_position(buf, n) ELSE buf
            /\ cut' = (cut \/ n < cal_numbytes_to_write(buf))
      BY <2>4 DEF WriteSocket
    <3>2. n \in Nat /\ n = buf.nbuffered
      <4>1. ~(n < cal_numbytes_to_write(buf))
        BY <3>1, Zenon
      <4> QED
        BY <2>0, <3>1, <4>1, OfferIsBuffered DEF IsBuffer
    <3>3. CASE n > 0
      <4>1. buf' = bfinit(buf)
        BY <2>0, <3>1, <3>2, <3>3, WritePointerLinear
      <4> QED
        BY <4>1 DEF bfinit, Rewound
    <3>4. CASE n = 0
      <4>1. buf' = buf
        BY <3>1, <3>4
      <4> QED
        BY <2>1, <3>2, <3>4, <4>1
    <3> QED
      BY <3>2, <3>3, <3>4
  <2>5. CASE ReadNothing \/ WriteFails \/ Ended \/ UNCHANGED vars
    BY <2>1, <2>5 DEF ReadNothing, WriteFails, Ended, vars
  <2> QED
    BY <2>2, <2>3, <2>4, <2>5 DEF Next
<1>3. CapacityInv => Headroom
  BY DEF CapacityInv, Headroom
<1> QED
  BY <1>1, <1>2, <1>3, PTL DEF Spec

-----------------------------------------------------------------------------
(* Escaping, on sequences *)

\* The bytes of s that escape_iac_chars() leaves in the place of each.
Pieces(s) == [i \in 1..Len(s) |-> IF s[i] = IAC THEN <<IAC, IAC>> ELSE <<s[i]>>]
Piece(c) == IF c = IAC THEN <<IAC, IAC>> ELSE <<c>>

LEMMA IACIsByte == IAC \in Byte
BY DEF IAC, Byte

LEMMA DoubledOne ==
  ASSUME NEW s \in Seq(Byte), NEW c \in Byte
  PROVE  /\ Doubled(s) \in Seq(Byte)
         /\ Doubled(Append(s, c)) = Doubled(s) \o Piece(c)
<1> DEFINE t == Append(s, c)
<1>1. Doubled(s) = FlattenSeq(Pieces(s)) /\ Doubled(t) = FlattenSeq(Pieces(t))
  BY DEF Doubled, Pieces
<1>2. Pieces(s) \in Seq(Seq(Byte)) /\ Piece(c) \in Seq(Byte)
  <2>1. ASSUME NEW d \in Byte
        PROVE  Piece(d) \in Seq(Byte)
    <3>1. <<d>> \in Seq(Byte) /\ <<IAC, IAC>> \in Seq(Byte)
      BY IACIsByte
    <3> QED
      BY <3>1 DEF Piece
  <2>2. \A i \in 1..Len(s) : Pieces(s)[i] = Piece(s[i])
    BY DEF Pieces, Piece
  <2>3. ASSUME NEW i \in 1..Len(s)
        PROVE  Pieces(s)[i] \in Seq(Byte)
    <3>1. s[i] \in Byte
      OBVIOUS
    <3> QED
      BY <2>1, <2>2, <3>1
  <2>4. Pieces(s) \in [1..Len(s) -> Seq(Byte)]
    BY <2>3 DEF Pieces
  <2>5. Len(s) \in Nat
    OBVIOUS
  <2>6. Pieces(s) \in Seq(Seq(Byte))
    BY <2>4, <2>5
  <2> QED
    BY <2>1, <2>6, Zenon
<1>3. Pieces(t) = Append(Pieces(s), Piece(c))
  BY DEF Pieces, Piece
<1> QED
  BY <1>1, <1>2, <1>3, FlattenSeqType, FlattenSeqAppend

LEMMA DoubledNone == Doubled(<<>>) = <<>>
<1>1. Pieces(<<>>) = <<>> /\ <<>> \in Seq(Seq(Byte))
  BY DEF Pieces
<1>2. Doubled(<<>>) = FlattenSeq(Pieces(<<>>))
  BY DEF Doubled, Pieces
<1> QED
  BY <1>1, <1>2, FlattenSeqType

\* The same for the bytes that are not IAC.
OtherPieces(s) == [i \in 1..Len(s) |-> IF s[i] = IAC THEN <<>> ELSE <<s[i]>>]
OtherPiece(c) == IF c = IAC THEN <<>> ELSE <<c>>

LEMMA OthersOne ==
  ASSUME NEW s \in Seq(Byte), NEW c \in Byte
  PROVE  /\ Others(s) \in Seq(Byte)
         /\ Others(Append(s, c)) = Others(s) \o OtherPiece(c)
<1> DEFINE t == Append(s, c)
<1>1. Others(s) = FlattenSeq(OtherPieces(s)) /\ Others(t) = FlattenSeq(OtherPieces(t))
  BY DEF Others, OtherPieces
<1>2. OtherPieces(s) \in Seq(Seq(Byte)) /\ OtherPiece(c) \in Seq(Byte)
  BY DEF OtherPieces, OtherPiece
<1>3. OtherPieces(t) = Append(OtherPieces(s), OtherPiece(c))
  BY DEF OtherPieces, OtherPiece
<1> QED
  BY <1>1, <1>2, <1>3, FlattenSeqType, FlattenSeqAppend

LEMMA OthersNone == Others(<<>>) = <<>>
<1>1. OtherPieces(<<>>) = <<>> /\ <<>> \in Seq(Seq(Byte))
  BY DEF OtherPieces
<1>2. Others(<<>>) = FlattenSeq(OtherPieces(<<>>))
  BY DEF Others, OtherPieces
<1> QED
  BY <1>1, <1>2, FlattenSeqType

\* The number of IACs, one byte at a time.
LEMMA NumIACOne ==
  ASSUME NEW s \in Seq(Byte), NEW c \in Byte
  PROVE  /\ NumIAC(s) \in Nat
         /\ NumIAC(Append(s, c)) = NumIAC(s) + (IF c = IAC THEN 1 ELSE 0)
<1> DEFINE t == Append(s, c)
           at == {i \in 1..Len(s) : s[i] = IAC}
           now == {i \in 1..Len(t) : t[i] = IAC}
<1>1. /\ Len(t) = Len(s) + 1 /\ Len(s) \in Nat /\ t[Len(s) + 1] = c
      /\ \A i \in 1..Len(s) : t[i] = s[i]
  OBVIOUS
<1>2. IsFiniteSet(at)
  <2>1. IsFiniteSet(1..Len(s))
    BY <1>1, FS_Interval
  <2> QED
    BY <2>1, FS_Subset
<1> HIDE DEF t
<1>3. now = IF c = IAC THEN at \union {Len(s) + 1} ELSE at
  BY <1>1
<1>4. Len(s) + 1 \notin at
  BY <1>1
<1>5. NumIAC(s) = Cardinality(at) /\ NumIAC(t) = Cardinality(now)
  BY DEF NumIAC
<1> HIDE DEF at, now
<1>6. Cardinality(at) \in Nat /\ Cardinality(at \union {Len(s) + 1}) = Cardinality(at) + 1
  BY <1>2, <1>4, FS_CardinalityType, FS_AddElement
<1> QED
  BY <1>3, <1>5, <1>6 DEF t

LEMMA NumIACNone == NumIAC(<<>>) = 0
<1>1. {i \in 1..Len(<<>>) : <<>>[i] = IAC} = {}
  OBVIOUS
<1> QED
  BY <1>1, FS_EmptySet DEF NumIAC

LEMMA NumIACConcat ==
  ASSUME NEW s \in Seq(Byte), NEW t \in Seq(Byte)
  PROVE  NumIAC(s \o t) = NumIAC(s) + NumIAC(t)
<1> DEFINE S == {u \in Seq(Byte) : NumIAC(s \o u) = NumIAC(s) + NumIAC(u)}
<1>1. <<>> \in S
  <2>1. s \o <<>> = s /\ NumIAC(s) \in Nat
    BY NumIACOne, IACIsByte
  <2> QED
    BY <2>1, NumIACNone
<1>2. ASSUME NEW u \in Seq(Byte), NEW c \in Byte, u \in S
      PROVE  Append(u, c) \in S
  <2>1. s \o Append(u, c) = Append(s \o u, c) /\ s \o u \in Seq(Byte) /\ Append(u, c) \in Seq(Byte)
    OBVIOUS
  <2>2. /\ NumIAC(Append(s \o u, c)) = NumIAC(s \o u) + (IF c = IAC THEN 1 ELSE 0)
        /\ NumIAC(Append(u, c)) = NumIAC(u) + (IF c = IAC THEN 1 ELSE 0)
        /\ NumIAC(s) \in Nat /\ NumIAC(u) \in Nat
    BY <2>1, NumIACOne
  <2>3. NumIAC(s \o u) = NumIAC(s) + NumIAC(u)
    BY <1>2
  <2>4. NumIAC(s \o Append(u, c)) = NumIAC(s) + NumIAC(Append(u, c))
    BY <2>1, <2>2, <2>3
  <2> QED
    BY <2>1, <2>4
<1> HIDE DEF S
<1>3. t \in S
  BY <1>1, <1>2, SequenceInduction
<1> QED
  BY <1>3 DEF S

LEMMA OthersConcat ==
  ASSUME NEW s \in Seq(Byte), NEW t \in Seq(Byte)
  PROVE  Others(s \o t) = Others(s) \o Others(t)
<1>1. /\ Others(s) = FlattenSeq(OtherPieces(s)) /\ Others(t) = FlattenSeq(OtherPieces(t))
      /\ Others(s \o t) = FlattenSeq(OtherPieces(s \o t))
  BY DEF Others, OtherPieces
<1>2. ASSUME NEW u \in Seq(Byte)
      PROVE  OtherPieces(u) \in Seq(Seq(Byte)) /\ Len(OtherPieces(u)) = Len(u)
  BY DEF OtherPieces
<1>3. OtherPieces(s \o t) = OtherPieces(s) \o OtherPieces(t)
  BY <1>2 DEF OtherPieces
<1>4. OtherPieces(s) \in Seq(Seq(Byte)) /\ OtherPieces(t) \in Seq(Seq(Byte))
  BY <1>2
<1>5. FlattenSeq(OtherPieces(s) \o OtherPieces(t))
      = FlattenSeq(OtherPieces(s)) \o FlattenSeq(OtherPieces(t))
  BY <1>4, FlattenSeqConcat, Zenon
<1> QED
  BY <1>1, <1>3, <1>5, Zenon

\* What the escape of one byte adds to an escaped sequence.
LEMMA PieceAdds ==
  ASSUME NEW d \in Seq(Byte), NEW c \in Byte
  PROVE  /\ Len(d \o Piece(c)) = Len(d) + 1 + (IF c = IAC THEN 1 ELSE 0)
         /\ NumIAC(d \o Piece(c)) = NumIAC(d) + 2 * (IF c = IAC THEN 1 ELSE 0)
         /\ Others(d \o Piece(c)) = Others(d) \o OtherPiece(c)
<1> DEFINE e == Append(d, c)
<1>1. e \in Seq(Byte) /\ Len(e) = Len(d) + 1 /\ Len(d) \in Nat
  OBVIOUS
<1>2. NumIAC(d) \in Nat /\ NumIAC(e) = NumIAC(d) + (IF c = IAC THEN 1 ELSE 0)
  BY NumIACOne
<1>3. Others(e) = Others(d) \o OtherPiece(c) /\ Others(d) \in Seq(Byte)
  BY OthersOne
<1>4. CASE c = IAC
  <2>1. Piece(c) = <<c, c>>
    BY <1>4 DEF Piece
  <2>2. d \o Piece(c) = Append(e, c)
    BY <2>1
  <2> HIDE DEF e
  <2>3. Len(Append(e, c)) = Len(e) + 1
    BY <1>1
  <2>4. NumIAC(Append(e, c)) = NumIAC(e) + 1
    BY <1>1, <1>4, NumIACOne
  <2>5. Others(Append(e, c)) = Others(e) \o OtherPiece(c)
    BY <1>1, OthersOne
  <2>6. OtherPiece(c) = <<>>
    BY <1>4 DEF OtherPiece
  <2>7. (Others(d) \o <<>>) \o <<>> = Others(d) \o <<>>
    BY <1>3
  <2> QED
    BY <1>1, <1>2, <1>3, <1>4, <2>2, <2>3, <2>4, <2>5, <2>6, <2>7
<1>5. CASE c # IAC
  <2>1. Piece(c) = <<c>>
    BY <1>5 DEF Piece
  <2>2. d \o Piece(c) = e
    BY <2>1
  <2> QED
    BY <1>1, <1>2, <1>3, <1>5, <2>2
<1> QED
  BY <1>4, <1>5

\* Escaping adds one byte for each IAC, doubles their number and leaves the
\* other bytes alone.
LEMMA DoubledCounts ==
  ASSUME NEW s \in Seq(Byte)
  PROVE  /\ Doubled(s) \in Seq(Byte)
         /\ NumIAC(s) \in Nat
         /\ Len(Doubled(s)) = Len(s) + NumIAC(s)
         /\ NumIAC(Doubled(s)) = 2 * NumIAC(s)
         /\ Others(Doubled(s)) = Others(s)
<1> DEFINE S == {u \in Seq(Byte) :
                   /\ Len(Doubled(u)) = Len(u) + NumIAC(u)
                   /\ NumIAC(Doubled(u)) = 2 * NumIAC(u)
                   /\ Others(Doubled(u)) = Others(u)}
<1>1. <<>> \in S
  BY DoubledNone, NumIACNone, OthersNone
<1>2. ASSUME NEW u \in Seq(Byte), NEW c \in Byte, u \in S
      PROVE  Append(u, c) \in S
  <2> DEFINE d == Doubled(u)
             t == Append(u, c)
  <2>1. d \in Seq(Byte) /\ Doubled(t) = d \o Piece(c)
    BY DoubledOne
  <2>2. t \in Seq(Byte) /\ Len(t) = Len(u) + 1 /\ Len(u) \in Nat
    OBVIOUS
  <2>3. NumIAC(u) \in Nat /\ NumIAC(t) = NumIAC(u) + (IF c = IAC THEN 1 ELSE 0)
    BY NumIACOne
  <2>4. Others(t) = Others(u) \o OtherPiece(c)
    BY OthersOne
  <2>5. Len(d) = Len(u) + NumIAC(u) /\ NumIAC(d) = 2 * NumIAC(u) /\ Others(d) = Others(u)
    BY <1>2
  <2> HIDE DEF d, t
  <2>6. /\ Len(d \o Piece(c)) = Len(d) + 1 + (IF c = IAC THEN 1 ELSE 0)
        /\ NumIAC(d \o Piece(c)) = NumIAC(d) + 2 * (IF c = IAC THEN 1 ELSE 0)
        /\ Others(d \o Piece(c)) = Others(d) \o OtherPiece(c)
    BY <2>1, PieceAdds
  <2>7. /\ Len(Doubled(t)) = Len(t) + NumIAC(t)
        /\ NumIAC(Doubled(t)) = 2 * NumIAC(t)
        /\ Others(Doubled(t)) = Others(t)
    BY <2>1, <2>2, <2>3, <2>4, <2>5, <2>6, SMTT(40)
  <2> QED
    BY <2>2, <2>7 DEF t
<1> HIDE DEF S
<1>3. s \in S
  BY <1>1, <1>2, SequenceInduction
<1> QED
  BY <1>3, DoubledOne, NumIACOne, IACIsByte DEF S

\* Escaping leaves a sequence without IACs as it is.
LEMMA DoubledPlain ==
  ASSUME NEW s \in Seq(Byte), \A i \in 1..Len(s) : s[i] # IAC
  PROVE  Doubled(s) = s
<1> DEFINE S == {u \in Seq(Byte) : (\A i \in 1..Len(u) : u[i] # IAC) => Doubled(u) = u}
<1>1. <<>> \in S
  BY DoubledNone
<1>2. ASSUME NEW u \in Seq(Byte), NEW c \in Byte, u \in S
      PROVE  Append(u, c) \in S
  <2> DEFINE t == Append(u, c)
  <2>0. t \in Seq(Byte)
    OBVIOUS
  <2> SUFFICES ASSUME \A i \in 1..Len(t) : t[i] # IAC
               PROVE  Doubled(t) = t
    BY <2>0
  <2>1. Len(t) = Len(u) + 1 /\ t[Len(u) + 1] = c /\ \A i \in 1..Len(u) : t[i] = u[i]
    OBVIOUS
  <2>2. c # IAC /\ \A i \in 1..Len(u) : u[i] # IAC
    BY <2>1
  <2>3. Doubled(t) = Doubled(u) \o Piece(c)
    BY DoubledOne
  <2>4. Doubled(u) = u
    BY <1>2, <2>2
  <2>5. Piece(c) = <<c>>
    BY <2>2 DEF Piece
  <2>6. u \o <<c>> = t
    OBVIOUS
  <2> QED
    BY <2>3, <2>4, <2>5, <2>6, Zenon
<1> HIDE DEF S
<1>3. s \in S
  BY <1>1, <1>2, SequenceInduction
<1> QED
  BY <1>3 DEF S

-----------------------------------------------------------------------------
(* The client's decoder, one byte at a time *)

State0 == [out |-> <<>>, iac |-> FALSE]

\* What FoldLeft() is defined by, on the sets of places 1..k.
DecodesUpTo(s, k, g) ==
  g = [t \in SUBSET (1..k) |->
         IF t = {} THEN State0 ELSE DecodeStep(g[t \ {Max(t)}], s[Max(t)])]

LEMMA MaxIsLast ==
  ASSUME NEW k \in Nat, NEW t, t \subseteq 1..(k + 1), k + 1 \in t
  PROVE  Max(t) = k + 1
<1>1. \A y \in t : k + 1 >= y /\ (y >= k + 1 => y = k + 1)
  OBVIOUS
<1>2. \E x \in t : \A y \in t : x >= y
  BY <1>1
<1>3. Max(t) \in t /\ \A y \in t : Max(t) >= y
  BY <1>2 DEF Max
<1> QED
  BY <1>1, <1>3

LEMMA DecodesExists ==
  ASSUME NEW s, NEW n \in Nat
  PROVE  \E g : DecodesUpTo(s, n, g)
<1> DEFINE S == {k \in Nat : \E g : DecodesUpTo(s, k, g)}
<1>1. 0 \in S
  <2> DEFINE g == [t \in SUBSET (1..0) |-> State0]
  <2>1. \A t \in SUBSET (1..0) : t = {}
    OBVIOUS
  <2>2. g = [t \in SUBSET (1..0) |->
               IF t = {} THEN State0 ELSE DecodeStep(g[t \ {Max(t)}], s[Max(t)])]
    BY <2>1
  <2>3. DecodesUpTo(s, 0, g)
    BY <2>2, Zenon DEF DecodesUpTo
  <2> QED
    BY <2>3
<1>2. ASSUME NEW k \in Nat, k \in S
      PROVE  k + 1 \in S
  <2>1. PICK g : DecodesUpTo(s, k, g)
    BY <1>2
  <2> DEFINE h == [t \in SUBSET (1..(k + 1)) |->
                     IF k + 1 \in t THEN DecodeStep(g[t \ {k + 1}], s[k + 1]) ELSE g[t]]
             step(t) == IF t = {} THEN State0 ELSE DecodeStep(h[t \ {Max(t)}], s[Max(t)])
  <2>2. ASSUME NEW t \in SUBSET (1..(k + 1))
        PROVE  h[t] = step(t)
    <3>1. CASE k + 1 \in t
      <4>1. Max(t) = k + 1
        BY <3>1, MaxIsLast
      <4>2. t \ {k + 1} \in SUBSET (1..(k + 1)) /\ k + 1 \notin t \ {k + 1} /\ t # {}
        BY <3>1
      <4>3. h[t \ {k + 1}] = g[t \ {k + 1}]
        BY <4>2, Zenon
      <4>4. h[t] = DecodeStep(g[t \ {k + 1}], s[k + 1])
        BY <3>1, Zenon
      <4> QED
        BY <4>1, <4>2, <4>3, <4>4, Zenon
    <3>2. CASE k + 1 \notin t
      <4>1. t \in SUBSET (1..k)
        BY <3>2
      <4>2. g[t] = IF t = {} THEN State0 ELSE DecodeStep(g[t \ {Max(t)}], s[Max(t)])
        BY <2>1, <4>1, Zenon DEF DecodesUpTo
      <4>3. h[t] = g[t]
        BY <3>2, Zenon
      <4>4. t \ {Max(t)} \in SUBSET (1..(k + 1)) /\ k + 1 \notin t \ {Max(t)}
        BY <3>2
      <4>5. h[t \ {Max(t)}] = g[t \ {Max(t)}]
        BY <4>4, Zenon
      <4> QED
        BY <4>2, <4>3, <4>5, Zenon
    <3> QED
      BY <3>1, <3>2, Zenon
  <2>3. h = [t \in SUBSET (1..(k + 1)) |-> h[t]]
    BY Zenon
  <2> HIDE DEF h
  <2>4. h = [t \in SUBSET (1..(k + 1)) |-> step(t)]
    BY <2>2, <2>3, Zenon
  <2>5. DecodesUpTo(s, k + 1, h)
    BY <2>4, Zenon DEF DecodesUpTo
  <2> QED
    BY <2>5
<1> HIDE DEF S
<1>3. n \in S
  BY <1>1, <1>2, Induction
<1> QED
  BY <1>3 DEF S

LEMMA DecodeStateIs ==
  ASSUME NEW s \in Seq(Byte)
  PROVE  \E g : DecodesUpTo(s, Len(s), g) /\ DecodeState(s) = g[1..Len(s)]
<1> DEFINE g == CHOOSE f : DecodesUpTo(s, Len(s), f)
<1>1. DecodesUpTo(s, Len(s), g)
  BY DecodesExists
<1>2. DOMAIN s = 1..Len(s)
  OBVIOUS
<1>3. DecodeState(s)
      = (CHOOSE f : f = [t \in SUBSET (DOMAIN s) |->
           IF t = {} THEN State0 ELSE DecodeStep(f[t \ {Max(t)}], s[Max(t)])])[DOMAIN s]
  BY DEF DecodeState, FoldLeft, MapThenFoldSet, State0
<1>4. DecodeState(s) = g[1..Len(s)]
  BY <1>2, <1>3, Zenon DEF DecodesUpTo
<1> QED
  BY <1>1, <1>4

LEMMA DecodesAt ==
  ASSUME NEW s, NEW n \in Nat, NEW g, DecodesUpTo(s, n, g), NEW k \in Nat
  PROVE  /\ g[1..0] = State0
         /\ k + 1 <= n => g[1..(k + 1)] = DecodeStep(g[1..k], s[k + 1])
<1>1. 1..0 = {} /\ {} \in SUBSET (1..n)
  OBVIOUS
<1>2. g[{}] = State0
  BY <1>1, Zenon DEF DecodesUpTo
<1>3. ASSUME k + 1 <= n
      PROVE  g[1..(k + 1)] = DecodeStep(g[1..k], s[k + 1])
  <2> DEFINE t == 1..(k + 1)
  <2>1. t \in SUBSET (1..n) /\ k + 1 \in t /\ t # {} /\ t \ {k + 1} = 1..k
    BY <1>3
  <2>2. Max(t) = k + 1
    BY <2>1, MaxIsLast
  <2> HIDE DEF t
  <2>3. g[t] = IF t = {} THEN State0 ELSE DecodeStep(g[t \ {Max(t)}], s[Max(t)])
    BY <2>1, Zenon DEF DecodesUpTo
  <2> QED
    BY <2>1, <2>2, <2>3, Zenon DEF t
<1> QED
  BY <1>1, <1>2, <1>3, Zenon

\* The state of the decoder after one more byte.
LEMMA DecodeOne ==
  ASSUME NEW s \in Seq(Byte), NEW c \in Byte
  PROVE  DecodeState(Append(s, c)) = DecodeStep(DecodeState(s), c)
<1> DEFINE t == Append(s, c)
<1> SUFFICES ASSUME NEW n \in Nat, n = Len(s)
             PROVE  DecodeState(t) = DecodeStep(DecodeState(s), c)
  OBVIOUS
<1>1. t \in Seq(Byte) /\ Len(t) = n + 1 /\ t[n + 1] = c /\ \A i \in 1..n : t[i] = s[i]
  OBVIOUS
<1> HIDE DEF t
<1>2. PICK g : DecodesUpTo(s, n, g) /\ DecodeState(s) = g[1..n]
  BY DecodeStateIs
<1>3. PICK h : DecodesUpTo(t, n + 1, h) /\ DecodeState(t) = h[1..(n + 1)]
  BY <1>1, DecodeStateIs
<1> DEFINE S == {k \in Nat : k <= n => g[1..k] = h[1..k]}
<1>4. 0 \in S
  <2>1. g[1..0] = State0
    BY <1>2, DecodesAt
  <2>2. h[1..0] = State0
    <3>1. n + 1 \in Nat
      OBVIOUS
    <3> QED
      BY <1>3, <3>1, DecodesAt
  <2> QED
    BY <2>1, <2>2
<1>5. ASSUME NEW k \in Nat, k \in S
      PROVE  k + 1 \in S
  <2> SUFFICES ASSUME k + 1 <= n
               PROVE  g[1..(k + 1)] = h[1..(k + 1)]
    OBVIOUS
  <2>1. g[1..(k + 1)] = DecodeStep(g[1..k], s[k + 1])
    BY <1>2, DecodesAt
  <2>2. h[1..(k + 1)] = DecodeStep(h[1..k], t[k + 1])
    <3>1. n + 1 \in Nat /\ k + 1 <= n + 1
      OBVIOUS
    <3> QED
      BY <1>3, <3>1, DecodesAt
  <2>3. g[1..k] = h[1..k] /\ t[k + 1] = s[k + 1]
    BY <1>1, <1>5
  <2> QED
    BY <2>1, <2>2, <2>3, Zenon
<1> HIDE DEF S
<1>6. n \in S
  BY <1>4, <1>5, Induction
<1>7. g[1..n] = h[1..n]
  BY <1>6 DEF S
<1>8. h[1..(n + 1)] = DecodeStep(h[1..n], t[n + 1])
  <2>1. n + 1 \in Nat /\ n + 1 <= n + 1
    OBVIOUS
  <2> QED
    BY <1>3, <2>1, DecodesAt
<1> QED
  BY <1>1, <1>2, <1>3, <1>7, <1>8, Zenon DEF t

LEMMA DecodeNone == DecodeState(<<>>) = State0
<1>1. <<>> \in Seq(Byte) /\ Len(<<>>) = 0 /\ 0 \in Nat
  OBVIOUS
<1>2. PICK g : DecodesUpTo(<<>>, 0, g) /\ DecodeState(<<>>) = g[1..0]
  BY <1>1, DecodeStateIs
<1> QED
  BY <1>1, <1>2, DecodesAt, Zenon

\* After a whole number of characters, an escaped sequence decodes to itself.
LEMMA DecodeEscaped ==
  ASSUME NEW w \in Seq(Byte), NEW out \in Seq(Byte), NEW d \in Seq(Byte),
         DecodeState(w) = [out |-> out, iac |-> FALSE]
  PROVE  DecodeState(w \o Doubled(d)) = [out |-> out \o d, iac |-> FALSE]
<1> DEFINE S == {u \in Seq(Byte) :
                   DecodeState(w \o Doubled(u)) = [out |-> out \o u, iac |-> FALSE]}
<1>1. <<>> \in S
  <2>1. w \o <<>> = w /\ out \o <<>> = out /\ <<>> \in Seq(Byte)
    OBVIOUS
  <2>2. DecodeState(w \o Doubled(<<>>)) = [out |-> out \o <<>>, iac |-> FALSE]
    BY <2>1, DoubledNone, Zenon
  <2> QED
    BY <2>1, <2>2
<1>2. ASSUME NEW u \in Seq(Byte), NEW c \in Byte, u \in S
      PROVE  Append(u, c) \in S
  <2> DEFINE e == w \o Doubled(u)
             f == out \o u
  <2>1. e \in Seq(Byte) /\ f \in Seq(Byte) /\ Doubled(Append(u, c)) = Doubled(u) \o Piece(c)
        /\ Doubled(u) \in Seq(Byte)
    BY DoubledOne
  <2>2. DecodeState(e) = [out |-> f, iac |-> FALSE]
    BY <1>2
  <2>3. out \o Append(u, c) = Append(f, c) /\ Append(u, c) \in Seq(Byte)
    OBVIOUS
  <2>4. CASE c = IAC
    <3>1. Piece(c) = <<c, c>>
      BY <2>4 DEF Piece
    <3>2. w \o Doubled(Append(u, c)) = Append(Append(e, c), c) /\ Append(e, c) \in Seq(Byte)
      <4> DEFINE v == Doubled(u)
      <4>1. v \in Seq(Byte) /\ w \o Doubled(Append(u, c)) = w \o (v \o <<c, c>>)
        BY <2>1, <3>1, Zenon
      <4> HIDE DEF v
      <4>2. w \o (v \o <<c, c>>) = Append(Append(w \o v, c), c) /\ Append(w \o v, c) \in Seq(Byte)
        <5>1. v \o <<c, c>> = Append(Append(v, c), c) /\ Append(v, c) \in Seq(Byte)
          BY <4>1
        <5>2. w \o Append(Append(v, c), c) = Append(w \o Append(v, c), c)
          BY <5>1
        <5>3. w \o Append(v, c) = Append(w \o v, c) /\ Append(w \o v, c) \in Seq(Byte)
          BY <4>1
        <5> QED
          BY <5>1, <5>2, <5>3, Zenon
      <4> QED
        BY <4>1, <4>2, Zenon DEF v
    <3> HIDE DEF e, f
    <3>3. DecodeState(Append(e, c)) = DecodeStep([out |-> f, iac |-> FALSE], c)
      BY <2>1, <2>2, DecodeOne
    <3>4. DecodeStep([out |-> f, iac |-> FALSE], c) = [out |-> f, iac |-> TRUE]
      BY <2>4 DEF DecodeStep
    <3>5. DecodeState(Append(Append(e, c), c)) = DecodeStep([out |-> f, iac |-> TRUE], c)
      BY <3>2, <3>3, <3>4, DecodeOne
    <3>6. DecodeStep([out |-> f, iac |-> TRUE], c) = [out |-> Append(f, c), iac |-> FALSE]
      BY <2>4 DEF DecodeStep
    <3> QED
      BY <2>3, <3>2, <3>5, <3>6
  <2>5. CASE c # IAC
    <3>1. Piece(c) = <<c>>
      BY <2>5 DEF Piece
    <3>2. w \o Doubled(Append(u, c)) = Append(e, c)
      BY <2>1, <3>1
    <3> HIDE DEF e, f
    <3>3. DecodeState(Append(e, c)) = DecodeStep([out |-> f, iac |-> FALSE], c)
      BY <2>1, <2>2, DecodeOne
    <3>4. DecodeStep([out |-> f, iac |-> FALSE], c) = [out |-> Append(f, c), iac |-> FALSE]
      BY <2>5 DEF DecodeStep
    <3> QED
      BY <2>3, <3>2, <3>3, <3>4
  <2> QED
    BY <2>4, <2>5
<1> HIDE DEF S
<1>3. d \in S
  BY <1>1, <1>2, SequenceInduction
<1> QED
  BY <1>3 DEF S

-----------------------------------------------------------------------------
(* The bytes on their way *)

\* On a buffer, escape_iac_chars() doubles the IACs of what is buffered, and does
\* nothing else to it.
LEMMA EscapeWhole ==
  ASSUME NEW b, Whole(b)
  PROVE  Whole(escape_iac_chars(b)) /\ Active(escape_iac_chars(b)) = Doubled(Active(b))
<1>1. PICK r \in Nat, w \in Nat, m \in Seq(Byte), e \in BOOLEAN :
        /\ b = [mem |-> m, nbuffered |-> r - w, readp |-> r, writep |-> w, eof |-> e]
        /\ w <= r /\ r <= Len(m) /\ (w = r => r = 0)
  BY WholeIsRecord
<1> DEFINE a == SubSeq(m, w + 1, r)
           d == Doubled(a)
           k == NumIAC(a)
           s == Store(m, w, d)
           c == escape_iac_chars(b)
<1>2. b.mem = m /\ b.nbuffered = r - w /\ b.readp = r /\ b.writep = w /\ b.eof = e
  BY <1>1
<1>3. Active(b) = a
  BY <1>2 DEF Active
<1>4. a \in Seq(Byte) /\ Len(a) = r - w
  BY <1>1, Slice
<1> HIDE DEF a
<1>5. d \in Seq(Byte) /\ k \in Nat /\ Len(d) = (r - w) + k
  BY <1>4, DoubledCounts
<1>6. k <= r - w
  <2>1. Len(a) \in Nat
    BY <1>4
  <2> QED
    BY <1>4, <2>1, NumIACBound
<1> HIDE DEF d, k
<1>7. s \in Seq(Byte) /\ Len(s) \in Nat /\ w + Len(d) <= Len(s) /\ SubSeq(s, w + 1, w + Len(d)) = d
  <2>1. w <= Len(m)
    BY <1>1
  <2>2. s \in Seq(Byte)
    BY <1>5, <2>1, StoreFields
  <2>3. Len(s) \in Nat /\ w + Len(d) <= Len(s)
    BY <1>5, <2>1, StoreFields
  <2>4. SubSeq(s, w + 1, w + Len(d)) = d
    BY <1>5, <2>1, StoredIsThere, Zenon
  <2> QED
    BY <2>2, <2>3, <2>4
<1> HIDE DEF s
<1>8. /\ r + k = w + Len(d) /\ r + k \in Nat /\ w <= r + k /\ (w = r + k => r + k = 0)
      /\ (r - w) + k = (r + k) - w /\ (r - w) + k \in Nat
  BY <1>1, <1>5, <1>6
<1>9. c = [mem |-> s, nbuffered |-> (r + k) - w, readp |-> r + k, writep |-> w, eof |-> e]
  <2>1. c = buffer_readpointer_position([b EXCEPT !.mem = s], k)
    BY <1>2, <1>3, Zenon DEF escape_iac_chars, s, d, k
  <2>2. IsBuffer(b) /\ k \in Int /\ b.nbuffered + k \in Nat /\ b.readp + k \in Nat
    BY <1>2, <1>5, <1>8, WholeIsBuffer
  <2> HIDE DEF c
  <2>3. buffer_readpointer_position([b EXCEPT !.mem = s], k)
         = [mem |-> s, nbuffered |-> b.nbuffered + k, readp |-> b.readp + k,
            writep |-> b.writep, eof |-> b.eof]
    BY <2>2, ReadPointerRecord, Zenon
  <2> QED
    BY <1>2, <1>8, <2>1, <2>3
<1> HIDE DEF c
<1>10. Whole(c)
  <2>1. r + k <= Len(s)
    BY <1>7, <1>8
  <2> QED
    BY <1>1, <1>7, <1>8, <1>9, <2>1, WholeFrom
<1>11. Active(c) = SubSeq(s, w + 1, r + k)
  BY <1>9 DEF Active
<1> QED
  BY <1>3, <1>7, <1>8, <1>10, <1>11 DEF c, d

\* The bytes that escape_iac_chars() is called for: none if the command line
\* turns escaping off.
Escapes(s) == IF noquote THEN s ELSE Doubled(s)

\* read_serial() need not escape a buffer in which bfstrchr() finds no IAC.
LEMMA EscapedWhole ==
  ASSUME NEW b, Whole(b)
  PROVE  Whole(Escaped(b)) /\ Active(Escaped(b)) = Escapes(Active(b))
<1>1. CASE noquote
  BY <1>1 DEF Escaped, Escapes
<1>2. CASE ~noquote /\ bfstrchr(b, IAC)
  BY <1>2, EscapeWhole DEF Escaped, Escapes
<1>3. CASE ~noquote /\ ~bfstrchr(b, IAC)
  <2>1. PICK r \in Nat, w \in Nat, m \in Seq(Byte), e \in BOOLEAN :
          /\ b = [mem |-> m, nbuffered |-> r - w, readp |-> r, writep |-> w, eof |-> e]
          /\ w <= r /\ r <= Len(m)
    BY WholeIsRecord
  <2> DEFINE a == SubSeq(m, w + 1, r)
  <2>2. b.mem = m /\ b.nbuffered = r - w /\ b.readp = r /\ b.writep = w
    BY <2>1
  <2>3. a \in Seq(Byte) /\ Len(a) = r - w /\ \A i \in 1..(r - w) : a[i] = m[w + i]
    BY <2>1, Slice
  <2>4. Active(b) = a
    BY <2>2 DEF Active
  <2> HIDE DEF a
  <2>5. ASSUME NEW i \in 1..(r - w)
        PROVE  m[w + i] # IAC
    <3>1. (w + i) - 1 \in w..(w + (r - w)) /\ (w + i) - 1 < Len(m) /\ ((w + i) - 1) + 1 = w + i
      BY <2>1
    <3>2. At(b, (w + i) - 1) # IAC
      BY <1>3, <2>2, <3>1 DEF bfstrchr
    <3>3. At(b, (w + i) - 1) = m[w + i]
      BY <2>2, <3>1 DEF At
    <3> QED
      BY <3>2, <3>3
  <2>6. Doubled(a) = a
    BY <2>3, <2>5, DoubledPlain
  <2> QED
    BY <1>3, <2>4, <2>6 DEF Escaped, Escapes
<1> QED
  BY <1>1, <1>2, <1>3

\* The inductive invariant of what has been received and what is pending.
StreamInv ==
  /\ pc \in {"read", "write", "ended"} /\ cut \in BOOLEAN
  /\ Whole(buf)
  /\ received \in Seq(DeviceByte) /\ wire \in Seq(Byte)
  /\ OtherBytesPreserved

\* While writes are complete: nothing is buffered when the device is read, and
\* the client is between two characters when all that is pending has arrived.
UncutInv ==
  ~cut => /\ pc = "read" => buf.nbuffered = 0
          /\ DecodeState(Pending) = [out |-> received, iac |-> FALSE]

LEMMA StreamInvInit == Init => StreamInv /\ UncutInv
<1> SUFFICES ASSUME Init
             PROVE  StreamInv /\ UncutInv
  OBVIOUS
<1>1. buf = bfmalloc /\ wire = <<>> /\ received = <<>> /\ pc = "read" /\ cut = FALSE
  BY DEF Init
<1>2. Whole(buf) /\ Active(buf) = <<>> /\ buf.nbuffered = 0
  BY <1>1, MallocWhole DEF bfmalloc, Rewound
<1>3. Pending = <<>> /\ Pending = received
  BY <1>1, <1>2 DEF Pending
<1>4. OtherBytesPreserved
  BY <1>3, NumIACNone DEF OtherBytesPreserved
<1>5. DecodeState(Pending) = [out |-> received, iac |-> FALSE]
  BY <1>1, <1>3, DecodeNone DEF State0
<1>6. received \in Seq(DeviceByte) /\ wire \in Seq(Byte)
  BY <1>1
<1> QED
  BY <1>1, <1>2, <1>4, <1>5, <1>6 DEF StreamInv, UncutInv

\* Reading keeps the other bytes, and adds the IACs read, doubled.
LEMMA EscapesKeeps ==
  ASSUME NEW w \in Seq(Byte), NEW a \in Seq(Byte), NEW d \in Seq(Byte), NEW r \in Seq(Byte),
         Others(w \o a) = Others(r),
         NumIAC(w \o a) >= (IF noquote THEN 1 ELSE 2) * NumIAC(r)
  PROVE  /\ Others(w \o Escapes(a \o d)) = Others(r \o d)
         /\ NumIAC(w \o Escapes(a \o d)) >= (IF noquote THEN 1 ELSE 2) * NumIAC(r \o d)
<1> DEFINE t == a \o d
           x == Escapes(t)
<1>1. t \in Seq(Byte)
  OBVIOUS
<1>2. /\ NumIAC(t) = NumIAC(a) + NumIAC(d) /\ NumIAC(r \o d) = NumIAC(r) + NumIAC(d)
      /\ NumIAC(w \o a) = NumIAC(w) + NumIAC(a)
  BY NumIACConcat
<1>3. NumIAC(w) \in Nat /\ NumIAC(a) \in Nat /\ NumIAC(d) \in Nat /\ NumIAC(r) \in Nat
  BY DoubledCounts
<1>4. Others(w) \in Seq(Byte) /\ Others(a) \in Seq(Byte) /\ Others(d) \in Seq(Byte)
  BY OthersOne, IACIsByte
<1>5. /\ Others(t) = Others(a) \o Others(d) /\ Others(w \o a) = Others(w) \o Others(a)
      /\ Others(r \o d) = Others(r) \o Others(d)
  BY OthersConcat
<1> HIDE DEF t
<1>6. x \in Seq(Byte) /\ Others(x) = Others(t) /\ NumIAC(x) = (IF noquote THEN 1 ELSE 2) * NumIAC(t)
  <2>1. NumIAC(t) \in Nat
    BY <1>1, DoubledCounts
  <2>2. Doubled(t) \in Seq(Byte) /\ Others(Doubled(t)) = Others(t) /\ NumIAC(Doubled(t)) = 2 * NumIAC(t)
    BY <1>1, DoubledCounts
  <2>3. x = IF noquote THEN t ELSE Doubled(t)
    BY DEF Escapes
  <2> HIDE DEF x
  <2>4. CASE noquote
    BY <1>1, <2>1, <2>3, <2>4
  <2>5. CASE ~noquote
    BY <2>2, <2>3, <2>5
  <2> QED
    BY <2>4, <2>5
<1> HIDE DEF x
<1>7. NumIAC(w \o x) = NumIAC(w) + NumIAC(x) /\ Others(w \o x) = Others(w) \o Others(x)
  BY <1>6, NumIACConcat, OthersConcat
<1>8. Others(w) \o (Others(a) \o Others(d)) = (Others(w) \o Others(a)) \o Others(d)
  BY <1>4
<1>9. Others(w \o x) = Others(r \o d)
  BY <1>5, <1>6, <1>7, <1>8, Zenon
<1>10. NumIAC(w \o x) >= (IF noquote THEN 1 ELSE 2) * NumIAC(r \o d)
  <2>1. CASE noquote
    BY <1>2, <1>3, <1>6, <1>7, <2>1
  <2>2. CASE ~noquote
    BY <1>2, <1>3, <1>6, <1>7, <2>2, SMTT(40)
  <2> QED
    BY <2>1, <2>2
<1> QED
  BY <1>9, <1>10 DEF x, t

\* What the read() of the loop leaves.
LEMMA ReadSerialDoes ==
  ASSUME StreamInv, ReadSerial
  PROVE  \E d \in Seq(DeviceByte) :
           /\ d \in Seq(Byte) /\ received' = received \o d
           /\ Whole(buf') /\ Active(buf') = Escapes(Active(buf) \o d)
           /\ pc = "read" /\ pc' = "write" /\ wire' = wire /\ cut' = cut
<1> USE SerialAssumption
<1>1. PICK n \in 1..MaxRead : \E d \in [1..n -> DeviceByte] :
        buf' = Escaped(Filled(buf, d)) /\ received' = received \o d
  BY DEF ReadSerial
<1>2. PICK d \in [1..n -> DeviceByte] :
        buf' = Escaped(Filled(buf, d)) /\ received' = received \o d
  BY <1>1
<1>3. d \in Seq(DeviceByte)
  OBVIOUS
<1>4. d \in Seq(Byte)
  BY <1>3, SeqMonotonic
<1>5. Whole(Filled(buf, d)) /\ Active(Filled(buf, d)) = Active(buf) \o d
  BY <1>4, FilledWhole DEF StreamInv
<1>6. Whole(buf') /\ Active(buf') = Escapes(Active(buf) \o d)
  BY <1>2, <1>5, EscapedWhole
<1>7. pc = "read" /\ pc' = "write" /\ wire' = wire /\ cut' = cut
  BY DEF ReadSerial
<1> QED
  BY <1>2, <1>3, <1>4, <1>6, <1>7

LEMMA StreamInvRead ==
  ASSUME StreamInv, ReadSerial
  PROVE  StreamInv' /\ (UncutInv /\ (~noquote \/ IAC \notin DeviceByte) => UncutInv')
<1> USE SerialAssumption
<1>1. PICK d \in Seq(DeviceByte) :
        /\ d \in Seq(Byte) /\ received' = received \o d
        /\ Whole(buf') /\ Active(buf') = Escapes(Active(buf) \o d)
        /\ pc = "read" /\ pc' = "write" /\ wire' = wire /\ cut' = cut
  BY ReadSerialDoes
<1> DEFINE a == Active(buf)
<1>2. /\ wire \in Seq(Byte) /\ received \in Seq(DeviceByte) /\ Whole(buf) /\ cut \in BOOLEAN
      /\ Others(wire \o a) = Others(received)
      /\ NumIAC(wire \o a) >= (IF noquote THEN 1 ELSE 2) * NumIAC(received)
  BY DEF StreamInv, OtherBytesPreserved, Pending
<1>3. received \in Seq(Byte)
  BY <1>2, SeqMonotonic
<1>4. a \in Seq(Byte) /\ Len(a) = buf.nbuffered
  BY <1>2, ActiveOfWhole
<1>5. Pending' = wire \o Escapes(a \o d)
  BY <1>1 DEF Pending
<1> HIDE DEF a
<1>6. OtherBytesPreserved'
  <2>1. /\ Others(wire \o Escapes(a \o d)) = Others(received \o d)
        /\ NumIAC(wire \o Escapes(a \o d)) >= (IF noquote THEN 1 ELSE 2) * NumIAC(received \o d)
    BY <1>1, <1>2, <1>3, <1>4, EscapesKeeps
  <2> QED
    BY <1>1, <1>5, <2>1 DEF OtherBytesPreserved
<1>7. received' \in Seq(DeviceByte)
  BY <1>1, <1>2
<1>8. StreamInv'
  BY <1>1, <1>2, <1>6, <1>7 DEF StreamInv
<1>9. ASSUME UncutInv, ~noquote \/ IAC \notin DeviceByte, ~cut'
      PROVE  DecodeState(Pending') = [out |-> received', iac |-> FALSE]
  <2>1. buf.nbuffered = 0 /\ DecodeState(Pending) = [out |-> received, iac |-> FALSE]
    BY <1>1, <1>9 DEF UncutInv
  <2>2. a = <<>>
    BY <1>4, <2>1, EmptySeq
  <2>3. a \o d = d
    BY <1>1, <2>2
  <2>4. Pending = wire
    BY <1>2, <2>2 DEF Pending, a
  <2>5. Escapes(d) = Doubled(d)
    <3>1. CASE noquote
      <4>1. ASSUME NEW i \in 1..Len(d)
            PROVE  d[i] # IAC
        <5>1. d[i] \in DeviceByte
          BY <1>1
        <5> QED
          BY <1>9, <3>1, <5>1
      <4> QED
        BY <1>1, <3>1, <4>1, DoubledPlain DEF Escapes
    <3>2. CASE ~noquote
      BY <3>2 DEF Escapes
    <3> QED
      BY <3>1, <3>2
  <2>6. DecodeState(wire \o Doubled(d)) = [out |-> received \o d, iac |-> FALSE]
    BY <1>1, <1>2, <1>3, <2>1, <2>4, DecodeEscaped, Zenon
  <2> QED
    BY <1>1, <1>5, <2>3, <2>5, <2>6, Zenon
<1> QED
  BY <1>1, <1>8, <1>9 DEF UncutInv

LEMMA StreamInvWrite ==
  ASSUME StreamInv, WriteSocket
  PROVE  StreamInv' /\ (UncutInv => UncutInv')
<1>1. PICK n \in 0..cal_numbytes_to_write(buf) :
        /\ wire' = wire \o SubSeq(Active(buf), 1, n)
        /\ buf' = IF n > 0 THEN buffer_writepointer_position(buf, n) ELSE buf
        /\ cut' = (cut \/ n < cal_numbytes_to_write(buf))
  BY DEF WriteSocket
<1>2. pc' = "read" /\ received' = received
  BY DEF WriteSocket
<1>3. /\ Whole(buf) /\ wire \in Seq(Byte) /\ received \in Seq(DeviceByte) /\ cut \in BOOLEAN
      /\ OtherBytesPreserved
  BY DEF StreamInv
<1>4. IsBuffer(buf) /\ Linear(buf) /\ buf.nbuffered \in Nat
  BY <1>3, WholeIsBuffer
<1>5. n \in Nat /\ n <= buf.nbuffered /\ cal_numbytes_to_write(buf) = buf.nbuffered
  BY <1>1, <1>4, OfferIsBuffered
<1> DEFINE a == Active(buf)
<1>6. a \in Seq(Byte) /\ Len(a) = buf.nbuffered
  BY <1>3, ActiveOfWhole
<1>7. SubSeq(a, 1, n) \in Seq(Byte)
  BY <1>4, <1>5, <1>6
<1>8. /\ Whole(buf') /\ SubSeq(a, 1, n) \o Active(buf') = a
      /\ n = buf.nbuffered => buf'.nbuffered = 0
  <2>1. CASE n > 0
    <3>1. buf' = buffer_writepointer_position(buf, n)
      BY <1>1, <2>1
    <3>2. n = buf.nbuffered => buf' = bfinit(buf)
      BY <1>4, <1>5, <3>1, WritePointerLinear
    <3>3. bfinit(buf).nbuffered = 0
      BY InitLinear
    <3> QED
      BY <1>3, <1>5, <3>1, <3>2, <3>3, WriteWhole
  <2>2. CASE n = 0
    <3>1. buf' = buf /\ SubSeq(a, 1, n) = <<>>
      BY <1>1, <1>6, <2>2
    <3> QED
      BY <1>3, <1>5, <1>6, <2>2, <3>1
  <2> QED
    BY <1>5, <2>1, <2>2
<1>9. Active(buf') \in Seq(Byte)
  BY <1>8, ActiveOfWhole
<1>10. Pending' = Pending
  <2>1. Pending' = (wire \o SubSeq(a, 1, n)) \o Active(buf')
    BY <1>1 DEF Pending
  <2>2. Pending = wire \o (SubSeq(a, 1, n) \o Active(buf'))
    BY <1>8, Zenon DEF Pending
  <2>3. (wire \o SubSeq(a, 1, n)) \o Active(buf') = wire \o (SubSeq(a, 1, n) \o Active(buf'))
    <3>1. ASSUME NEW p \in Seq(Byte), NEW q \in Seq(Byte), NEW r \in Seq(Byte)
          PROVE  (p \o q) \o r = p \o (q \o r)
      BY ConcatAssociative
    <3> QED
      BY <1>3, <1>7, <1>9, <3>1, Zenon
  <2> QED
    BY <2>1, <2>2, <2>3, Zenon
<1>11. OtherBytesPreserved'
  BY <1>2, <1>3, <1>10 DEF OtherBytesPreserved
<1>12. StreamInv'
  <2>1. wire' \in Seq(Byte)
    BY <1>1, <1>3, <1>7
  <2>2. cut' \in BOOLEAN
    BY <1>1
  <2> QED
    BY <1>2, <1>3, <1>8, <1>11, <2>1, <2>2 DEF StreamInv
<1>13. ASSUME UncutInv, ~cut'
       PROVE  buf'.nbuffered = 0 /\ DecodeState(Pending') = [out |-> received', iac |-> FALSE]
  <2>1. ~cut /\ ~(n < cal_numbytes_to_write(buf))
    BY <1>1, <1>13, Zenon
  <2>2. n = buf.nbuffered
    BY <1>4, <1>5, <2>1
  <2> QED
    BY <1>2, <1>8, <1>10, <1>13, <2>1, <2>2 DEF UncutInv
<1> QED
  BY <1>12, <1>13 DEF UncutInv

LEMMA StreamInvNext ==
  ASSUME StreamInv, [Next]_vars
  PROVE  StreamInv' /\ (UncutInv /\ (~noquote \/ IAC \notin DeviceByte) => UncutInv')
<1>1. CASE ReadSerial
  BY <1>1, StreamInvRead
<1>2. CASE WriteSocket
  BY <1>2, StreamInvWrite
<1>3. CASE ReadNothing
  <2>1. pc' = "write" /\ buf' = buf /\ received' = received /\ wire' = wire /\ cut' = cut
    BY <1>3 DEF ReadNothing
  <2> QED
    BY <2>1 DEF StreamInv, UncutInv, OtherBytesPreserved, Pending
<1>4. CASE ReadFails
  <2>1. /\ pc' = "ended" /\ received' = received /\ wire' = wire /\ cut' = cut
        /\ buf' \in {buf, [buf EXCEPT !.eof = TRUE]}
    BY <1>4 DEF ReadFails
  <2>2. Whole(buf') /\ Active(buf') = Active(buf)
    BY <2>1, EofWhole DEF StreamInv
  <2>3. Pending' = Pending
    BY <2>1, <2>2 DEF Pending
  <2>4. OtherBytesPreserved'
    BY <2>1, <2>3 DEF StreamInv, OtherBytesPreserved
  <2> QED
    BY <2>1, <2>2, <2>3, <2>4 DEF StreamInv, UncutInv
<1>5. CASE WriteFails
  <2>1. pc' = "ended" /\ buf' = buf /\ received' = received /\ wire' = wire /\ cut' = cut
    BY <1>5 DEF WriteFails
  <2> QED
    BY <2>1 DEF StreamInv, UncutInv, OtherBytesPreserved, Pending
<1>6. CASE Ended \/ UNCHANGED vars
  <2>1. pc' = pc /\ buf' = buf /\ received' = received /\ wire' = wire /\ cut' = cut
    BY <1>6 DEF Ended, vars
  <2> QED
    BY <2>1 DEF StreamInv, UncutInv, OtherBytesPreserved, Pending
<1> QED
  BY <1>1, <1>2, <1>3, <1>4, <1>5, <1>6 DEF Next

\* The buffer's record, its pointers and the two histories keep their types,
\* and the memory always holds what the read pointer says.
THEOREM SerialTypeCorrect == Spec => []TypeOK
<1>1. StreamInv => TypeOK
  BY DEF StreamInv, TypeOK, Whole
<1> QED
  BY <1>1, StreamInvInit, StreamInvNext, PTL DEF Spec

\* However the device's bytes are cut into reads, and however often signals cut
\* the writes and what is buffered is escaped again, no other byte than IAC is
\* lost, added or moved, and no IAC is forgotten.
THEOREM NothingButIACChanged == Spec => []OtherBytesPreserved
<1>1. StreamInv => OtherBytesPreserved
  BY DEF StreamInv
<1> QED
  BY <1>1, StreamInvInit, StreamInvNext, PTL DEF Spec

\* As long as the writes are complete the client decodes what the device sent, if
\* IACs are escaped or the device sends none.
THEOREM TransparentStream ==
  ASSUME ~noquote \/ IAC \notin DeviceByte
  PROVE  Spec => []TransparentUntilCut
<1> DEFINE I == StreamInv /\ UncutInv
<1>1. Init => I
  BY StreamInvInit
<1>2. I /\ [Next]_vars => I'
  BY StreamInvNext
<1>3. I => TransparentUntilCut
  <2> SUFFICES ASSUME I, ~cut
               PROVE  Decoded(Pending) = received
    BY DEF TransparentUntilCut
  <2>1. DecodeState(Pending) = [out |-> received, iac |-> FALSE]
    BY DEF UncutInv
  <2> QED
    BY <2>1 DEF Decoded
<1> QED
  BY <1>1, <1>2, <1>3, PTL DEF Spec
=============================================================================
