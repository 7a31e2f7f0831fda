------------------------------- MODULE Buffer -------------------------------
(***************************************************************************)
(* struct buffer_t and the operations of buffer_handle.c on it.            *)
(*                                                                         *)
(* Pointers are offsets from buffp.  "mem" is what has been stored from    *)
(* buffp on since the last bfinit(); bfinit() clears the memory, so every  *)
(* later byte reads as NUL.  "mem" keeps the bytes outside the active      *)
(* portion too (already written, or left behind by bfrmstr), because some  *)
(* callers do look at them.                                                *)
(*                                                                         *)
(* The operators are pure: each maps a buffer to the buffer the C function *)
(* leaves behind.                                                          *)
(***************************************************************************)
EXTENDS Integers, Sequences, TelnetCodes

CONSTANT Size     \* buff->size, SIZE_BUFFER in the program

ASSUME SizeAssumption == Size \in Nat \ {0}

Byte == 0..255

\* The result of a search that finds nothing.
NULL == -1

LeastOf(S) == CHOOSE p \in S : \A q \in S : p <= q

-----------------------------------------------------------------------------
(* Reading and storing memory *)

At(b, p) == IF p < Len(b.mem) THEN b.mem[p + 1] ELSE NUL

\* The memory after the bytes of "data" are stored at offset p.
Store(mem, p, data) ==
  LET end == p + Len(data) IN
  [i \in 1..(IF Len(mem) > end THEN Len(mem) ELSE end) |->
     IF i > p /\ i <= end THEN data[i - p]
     ELSE IF i <= Len(mem) THEN mem[i] ELSE NUL]

\* The active portion: the bytes between writep and readp.
Active(b) == SubSeq(b.mem, b.writep + 1, b.readp)

-----------------------------------------------------------------------------
(* Life of a buffer and its two pointers *)

Rewound(eof) ==
  [mem |-> <<>>, nbuffered |-> 0, readp |-> 0, writep |-> 0, eof |-> eof]

bfmalloc == Rewound(FALSE)

\* bfinit without the pointers.
ClearedOnly(b) == [b EXCEPT !.mem = <<>>, !.nbuffered = 0]

bfinit(b) == Rewound(b.eof)

buffer_readpointer_position(b, n) ==
  [b EXCEPT !.nbuffered = @ + n, !.readp = @ + n]

\* Forgetting to start over when all is written, and starting over too early.
AdvancedOnly(b, n) == [b EXCEPT !.nbuffered = @ - n, !.writep = @ + n]
AllForgotten(b, n) == bfinit(b)

buffer_writepointer_position(b, n) ==
  IF b.nbuffered - n > 0
  THEN [b EXCEPT !.nbuffered = @ - n, !.writep = @ + n]
  ELSE bfinit(b)

\* How many bytes the next read() may ask for; negative means "corrupt".
cal_numbytes_to_read(b) ==
  CASE b.readp > b.writep -> Size - b.readp
    [] b.readp < b.writep -> b.writep - b.readp
    [] OTHER -> IF b.nbuffered = 0 THEN Size ELSE 0

\* How many bytes the next write() offers.
cal_numbytes_to_write(b) ==
  CASE b.readp > b.writep -> b.readp - b.writep
    [] b.readp < b.writep -> Size - b.writep
    [] OTHER -> IF b.nbuffered = 0 THEN 0 ELSE Size - b.writep

FilledCountedTwice(b, data) ==
  buffer_readpointer_position([b EXCEPT !.mem = Store(@, b.readp, data)], 2 * Len(data))

\* read_from_fd_to_buffer when read() returned the bytes "data".
Filled(b, data) ==
  buffer_readpointer_position([b EXCEPT !.mem = Store(@, b.readp, data)], Len(data))

-----------------------------------------------------------------------------
(* Searching and editing *)

\* Whether bfstrchr returns a pointer.  When the loop runs out, the C function
\* still compares the byte one past the active portion.
bfstrchr(b, ch) == \E p \in b.writep .. (b.writep + b.nbuffered) : At(b, p) = ch

\* The first offset in p .. p+size-1 that holds ch, or NULL.
mystrchr(b, p, ch, size) ==
  LET found == {q \in p .. (p + size - 1) : At(b, q) = ch} IN
  IF found = {} THEN NULL ELSE LeastOf(found)

InActivePortion(b, p) == b.writep <= p /\ p <= b.readp

bfinsch(b, p, ch) ==
  IF InActivePortion(b, p)
  THEN buffer_readpointer_position(
         [b EXCEPT !.mem = Store(@, p, <<ch>> \o SubSeq(@, p + 1, b.readp))], 1)
  ELSE b

\* Removing at least nbuffered bytes empties the buffer, the bytes before p
\* included; otherwise the bytes after the removed ones move left.
bfrmstr(b, p, nbytes) ==
  LET n == IF nbytes > b.readp - p THEN b.readp - p ELSE nbytes IN
  CASE ~InActivePortion(b, p)    -> b
    [] InActivePortion(b, p) /\ nbytes >= b.nbuffered -> bfinit(b)
    [] OTHER -> buffer_readpointer_position(
                  [b EXCEPT !.mem = Store(@, p, SubSeq(@, p + n + 1, b.readp))], -n)

\* Appends what fits of "data"; bfstrcat does the same with a C string.
bfstrncat(b, data) ==
  LET room == Size - b.nbuffered
      len  == IF Len(data) > room THEN room ELSE Len(data) IN
  Filled(b, SubSeq(data, 1, len))

-----------------------------------------------------------------------------
(* What every operation keeps *)

BufferRecord ==
  [mem : Seq(Byte), nbuffered : Int, readp : Int, writep : Int, eof : BOOLEAN]

\* The buffer is linear: nbuffered is the distance of the two pointers, the
\* read pointer never falls behind the write pointer, and an empty buffer has
\* been rewound to its base.
Linear(b) ==
  /\ b.nbuffered = b.readp - b.writep
  /\ 0 <= b.writep /\ b.writep <= b.readp
  /\ b.nbuffered = 0 => b.readp = 0
=============================================================================
