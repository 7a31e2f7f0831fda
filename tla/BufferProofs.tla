---------------------------- MODULE BufferProofs ----------------------------
(***************************************************************************)
(* What the operations of buffer_handle.c keep, for every buffer size, and *)
(* what FlattenSeq() computes, for every sequence of sequences.            *)
(***************************************************************************)
EXTENDS Buffer, SequencesExt, SequenceTheorems, WellFoundedInduction, TLAPS

-----------------------------------------------------------------------------
(* Induction, on numbers and on sequences *)

\* A set that holds 0, and with each number the next one, holds all of them.
LEMMA Induction ==
  ASSUME NEW S, 0 \in S, \A n \in Nat : n \in S => n + 1 \in S
  PROVE  Nat \subseteq S
<1> DEFINE R == OpToRel(<, Nat)
           bad == Nat \ S
<1>1. R = {ss \in Nat \X Nat : ss[1] < ss[2]}
  BY Zenon DEF OpToRel
<1>2. IsWellFoundedOn(R, Nat)
  BY NatLessThanWellFounded
<1> HIDE DEF R
<1> SUFFICES ASSUME bad # {}
             PROVE  FALSE
  OBVIOUS
<1>3. PICK x \in bad : \A y \in bad : ~(<<y, x>> \in R)
  BY <1>2, WFMin
<1>4. x # 0 /\ x - 1 \in Nat /\ (x - 1) + 1 = x
  BY DEF bad
<1>5. x - 1 \in S
  <2>1. <<x - 1, x>> \in R
    BY <1>1, <1>4 DEF bad
  <2> QED
    BY <1>3, <1>4, <2>1 DEF bad
<1> QED
  BY <1>4, <1>5

\* The same for the sequences over X, built one element at a time.
LEMMA SequenceInduction ==
  ASSUME NEW X, NEW S, <<>> \in S,
         \A s \in Seq(X) : \A x \in X : s \in S => Append(s, x) \in S
  PROVE  Seq(X) \subseteq S
<1> DEFINE N == {n \in Nat : \A s \in Seq(X) : Len(s) = n => s \in S}
<1>1. 0 \in N
  BY EmptySeq
<1>2. ASSUME NEW n \in Nat, n \in N
      PROVE  n + 1 \in N
  <2> SUFFICES ASSUME NEW s \in Seq(X), Len(s) = n + 1
               PROVE  s \in S
    OBVIOUS
  <2> DEFINE front == SubSeq(s, 1, n)
             last == s[n + 1]
  <2>1. front \in Seq(X) /\ Len(front) = n /\ last \in X /\ s = Append(front, last)
    OBVIOUS
  <2> HIDE DEF front, last
  <2>2. front \in S
    BY <1>2, <2>1
  <2> QED
    BY <2>1, <2>2
<1> HIDE DEF N
<1>3. Nat \subseteq N
  BY <1>1, <1>2, Induction
<1>4. ASSUME NEW s \in Seq(X)
      PROVE  s \in S
  <2>1. Len(s) \in N
    BY <1>3
  <2> QED
    BY <2>1 DEF N
<1> QED
  BY <1>4

-----------------------------------------------------------------------------
(* Concatenating a sequence of sequences *)

\* What FlattenSeq() is defined by.
Flattens(ss, f) ==
  f = [i \in 1..Len(ss) |-> IF i = 1 THEN ss[i] ELSE f[i - 1] \o ss[i]]

FlattensUpTo(ss, n) ==
  \E f : f = [i \in 1..n |-> IF i = 1 THEN ss[i] ELSE f[i - 1] \o ss[i]]

LEMMA FlattensExists ==
  ASSUME NEW ss, Len(ss) \in Nat
  PROVE  \E f : Flattens(ss, f)
<1> DEFINE S == {n \in Nat : FlattensUpTo(ss, n)}
<1>1. 0 \in S
  <2> DEFINE f == [i \in 1..0 |-> ss[i]]
  <2>1. f = [i \in 1..0 |-> IF i = 1 THEN ss[i] ELSE f[i - 1] \o ss[i]]
    OBVIOUS
  <2> QED
    BY <2>1 DEF FlattensUpTo
<1>2. ASSUME NEW n \in Nat, n \in S
      PROVE  n + 1 \in S
  <2>1. PICK f : f = [i \in 1..n |-> IF i = 1 THEN ss[i] ELSE f[i - 1] \o ss[i]]
    BY <1>2 DEF FlattensUpTo
  <2> DEFINE last == IF n = 0 THEN ss[1] ELSE f[n] \o ss[n + 1]
             g == [i \in 1..(n + 1) |-> IF i = n + 1 THEN last ELSE f[i]]
             h == [i \in 1..(n + 1) |-> IF i = 1 THEN ss[i] ELSE g[i - 1] \o ss[i]]
  <2>2. ASSUME NEW i \in 1..(n + 1)
        PROVE  g[i] = h[i]
    <3>1. CASE i = n + 1
      BY <3>1
    <3>2. CASE i # n + 1
      <4>1. i \in 1..n /\ (i # 1 => i - 1 \in 1..n /\ i - 1 # n + 1 /\ i - 1 \in 1..(n + 1))
        BY <3>2
      <4>2. f[i] = IF i = 1 THEN ss[i] ELSE f[i - 1] \o ss[i]
        BY <2>1, <4>1
      <4>3. g[i] = f[i] /\ (i # 1 => g[i - 1] = f[i - 1])
        BY <3>2, <4>1
      <4> QED
        BY <4>2, <4>3
    <3> QED
      BY <3>1, <3>2
  <2>3. g = h
    BY <2>2
  <2>4. FlattensUpTo(ss, n + 1)
    BY <2>3, Zenon DEF FlattensUpTo
  <2> QED
    BY <2>4
<1> HIDE DEF S
<1>3. Len(ss) \in S
  BY <1>1, <1>2, Induction
<1> QED
  BY <1>3 DEF S, FlattensUpTo, Flattens

LEMMA FlattenIs ==
  ASSUME NEW ss, Len(ss) \in Nat
  PROVE  \E f : Flattens(ss, f) /\ (Len(ss) # 0 => FlattenSeq(ss) = f[Len(ss)])
<1> DEFINE f == CHOOSE f : Flattens(ss, f)
<1>1. Flattens(ss, f)
  BY FlattensExists
<1>2. Len(ss) # 0 => FlattenSeq(ss) = f[Len(ss)]
  BY DEF FlattenSeq, Flattens
<1> QED
  BY <1>1, <1>2


LEMMA FlattenStep ==
  ASSUME NEW ss, NEW f, Len(ss) \in Nat, Flattens(ss, f), NEW n \in Nat, n + 1 <= Len(ss)
  PROVE  f[n + 1] = IF n = 0 THEN ss[n + 1] ELSE f[n] \o ss[n + 1]
<1>1. n + 1 \in 1..Len(ss) /\ (n + 1) - 1 = n /\ (n + 1 = 1 <=> n = 0)
  OBVIOUS
<1>2. f[n + 1] = IF n + 1 = 1 THEN ss[n + 1] ELSE f[(n + 1) - 1] \o ss[n + 1]
  BY <1>1 DEF Flattens
<1> QED
  BY <1>1, <1>2

LEMMA FlattenType ==
  ASSUME NEW X, NEW ss \in Seq(Seq(X)), NEW f, Flattens(ss, f), NEW i \in 1..Len(ss)
  PROVE  f[i] \in Seq(X)
<1> DEFINE S == {n \in Nat : n \in 1..Len(ss) => f[n] \in Seq(X)}
<1>1. 0 \in S
  OBVIOUS
<1>2. ASSUME NEW n \in Nat, n \in S
      PROVE  n + 1 \in S
  <2> SUFFICES ASSUME n + 1 \in 1..Len(ss)
               PROVE  f[n + 1] \in Seq(X)
    OBVIOUS
  <2>1. f[n + 1] = IF n = 0 THEN ss[n + 1] ELSE f[n] \o ss[n + 1]
    <3>1. n + 1 <= Len(ss) /\ Len(ss) \in Nat
      OBVIOUS
    <3> QED
      BY <3>1, FlattenStep
  <2>2. ss[n + 1] \in Seq(X)
    OBVIOUS
  <2>3. n # 0 => f[n] \in Seq(X)
    BY <1>2
  <2>4. ASSUME n # 0 PROVE f[n] \o ss[n + 1] \in Seq(X)
    BY <2>2, <2>3, <2>4
  <2> QED
    BY <2>1, <2>2, <2>3, <2>4
<1> HIDE DEF S
<1>3. i \in Nat
  OBVIOUS
<1>4. i \in S
  BY <1>1, <1>2, <1>3, Induction
<1> QED
  BY <1>4 DEF S

\* FlattenSeq() returns a sequence of the elements; of nothing, nothing.
LEMMA FlattenSeqType ==
  ASSUME NEW X, NEW ss \in Seq(Seq(X))
  PROVE  FlattenSeq(ss) \in Seq(X) /\ (ss = <<>> => FlattenSeq(ss) = <<>>)
<1>1. CASE Len(ss) = 0
  <2>1. ss = <<>>
    BY <1>1
  <2>2. FlattenSeq(ss) = ss
    BY <1>1 DEF FlattenSeq
  <2>3. ss \in Seq(X)
    BY <2>1
  <2> QED
    BY <2>1, <2>2, <2>3, Zenon
<1>2. CASE Len(ss) # 0
  <2>1. PICK f : Flattens(ss, f) /\ FlattenSeq(ss) = f[Len(ss)]
    <3>1. Len(ss) \in Nat
      OBVIOUS
    <3> QED
      BY <1>2, <3>1, FlattenIs, Zenon
  <2>2. f[Len(ss)] \in Seq(X)
    BY <1>2, <2>1, FlattenType
  <2> QED
    BY <1>2, <2>1, <2>2
<1> QED
  BY <1>1, <1>2

\* ... one more sequence at a time.
LEMMA FlattenSeqAppend ==
  ASSUME NEW X, NEW ss \in Seq(Seq(X)), NEW s \in Seq(X)
  PROVE  FlattenSeq(Append(ss, s)) = FlattenSeq(ss) \o s
<1> DEFINE tt == Append(ss, s)
<1> SUFFICES ASSUME NEW n \in Nat, n = Len(ss)
             PROVE  FlattenSeq(tt) = FlattenSeq(ss) \o s
  OBVIOUS
<1>1. /\ tt \in Seq(Seq(X)) /\ Len(tt) = n + 1
      /\ tt[n + 1] = s /\ \A i \in 1..n : tt[i] = ss[i]
  OBVIOUS
<1> HIDE DEF tt
<1>2. PICK g : Flattens(tt, g) /\ FlattenSeq(tt) = g[n + 1]
  <2>1. Len(tt) \in Nat /\ Len(tt) # 0
    BY <1>1
  <2>2. \E g : Flattens(tt, g) /\ FlattenSeq(tt) = g[Len(tt)]
    BY <2>1, FlattenIs, Zenon
  <2> QED
    BY <1>1, <2>2, Zenon
<1>3. g[n + 1] = IF n = 0 THEN s ELSE g[n] \o s
  <2>1. n + 1 <= Len(tt) /\ Len(tt) \in Nat
    BY <1>1
  <2> QED
    BY <1>1, <1>2, <2>1, FlattenStep
<1>4. CASE n = 0
  <2>1. FlattenSeq(ss) = <<>>
    <3>1. ss = <<>>
      BY <1>4, EmptySeq
    <3> QED
      BY <3>1, FlattenSeqType
  <2> QED
    BY <1>2, <1>3, <1>4, <2>1 DEF tt
<1>5. CASE n # 0
  <2>1. PICK f : Flattens(ss, f) /\ FlattenSeq(ss) = f[n]
    BY <1>1, <1>5, FlattenIs
  <2> DEFINE S == {k \in Nat : k \in 1..n => f[k] = g[k]}
  <2>2. 0 \in S
    OBVIOUS
  <2>3. ASSUME NEW k \in Nat, k \in S
        PROVE  k + 1 \in S
    <3> SUFFICES ASSUME k + 1 \in 1..n
                 PROVE  f[k + 1] = g[k + 1]
      OBVIOUS
    <3>1. f[k + 1] = IF k = 0 THEN ss[k + 1] ELSE f[k] \o ss[k + 1]
      <4>1. k + 1 <= Len(ss) /\ Len(ss) \in Nat
        OBVIOUS
      <4> QED
        BY <2>1, <4>1, FlattenStep
    <3>2. g[k + 1] = IF k = 0 THEN tt[k + 1] ELSE g[k] \o tt[k + 1]
      <4>1. k + 1 <= Len(tt) /\ Len(tt) \in Nat
        BY <1>1
      <4> QED
        BY <1>2, <4>1, FlattenStep
    <3>3. k # 0 => f[k] = g[k]
      BY <2>3
    <3>4. ss[k + 1] = tt[k + 1]
      BY <1>1
    <3> QED
      BY <3>1, <3>2, <3>3, <3>4
  <2> HIDE DEF S
  <2>4. n \in S
    BY <1>1, <2>2, <2>3, Induction
  <2>5. f[n] = g[n]
    BY <1>1, <1>5, <2>4 DEF S
  <2> QED
    BY <1>2, <1>3, <1>5, <2>1, <2>5 DEF tt
<1> QED
  BY <1>4, <1>5

LEMMA Associative ==
  ASSUME NEW X, NEW p \in Seq(X), NEW q \in Seq(X), NEW r \in Seq(X)
  PROVE  (p \o q) \o r = p \o (q \o r)
BY ConcatAssociative

\* FlattenSeq() of two sequences of sequences, one after the other.
LEMMA FlattenSeqConcat ==
  ASSUME NEW X, NEW ss \in Seq(Seq(X)), NEW tt \in Seq(Seq(X))
  PROVE  FlattenSeq(ss \o tt) = FlattenSeq(ss) \o FlattenSeq(tt)
<1> DEFINE S == {n \in Nat : \A uu \in Seq(Seq(X)) :
                   Len(uu) = n => FlattenSeq(ss \o uu) = FlattenSeq(ss) \o FlattenSeq(uu)}
<1>1. 0 \in S
  <2> SUFFICES ASSUME NEW uu \in Seq(Seq(X)), Len(uu) = 0
               PROVE  FlattenSeq(ss \o uu) = FlattenSeq(ss) \o FlattenSeq(uu)
    OBVIOUS
  <2>1. uu = <<>> /\ ss \o uu = ss
    OBVIOUS
  <2>2. FlattenSeq(uu) = <<>> /\ FlattenSeq(ss) \in Seq(X)
    BY <2>1, FlattenSeqType
  <2> QED
    BY <2>1, <2>2
<1>2. ASSUME NEW n \in Nat, n \in S
      PROVE  n + 1 \in S
  <2> SUFFICES ASSUME NEW uu \in Seq(Seq(X)), Len(uu) = n + 1
               PROVE  FlattenSeq(ss \o uu) = FlattenSeq(ss) \o FlattenSeq(uu)
    OBVIOUS
  <2> DEFINE front == SubSeq(uu, 1, n)
             last == uu[n + 1]
  <2>1. front \in Seq(Seq(X)) /\ Len(front) = n /\ last \in Seq(X) /\ uu = Append(front, last)
    OBVIOUS
  <2>2. FlattenSeq(ss \o front) = FlattenSeq(ss) \o FlattenSeq(front)
    BY <1>2, <2>1
  <2> HIDE DEF front, last
  <2>3. ss \o uu = Append(ss \o front, last) /\ ss \o front \in Seq(Seq(X))
    BY <2>1
  <2>4. FlattenSeq(ss \o uu) = FlattenSeq(ss \o front) \o last
    BY <2>1, <2>3, FlattenSeqAppend
  <2>5. FlattenSeq(uu) = FlattenSeq(front) \o last
    BY <2>1, FlattenSeqAppend
  <2>6. FlattenSeq(ss) \in Seq(X) /\ FlattenSeq(front) \in Seq(X)
    BY <2>1, FlattenSeqType
  <2>7. (FlattenSeq(ss) \o FlattenSeq(front)) \o last = FlattenSeq(ss) \o (FlattenSeq(front) \o last)
    <3>1. ASSUME NEW p \in Seq(X), NEW q \in Seq(X), NEW r \in Seq(X)
          PROVE  (p \o q) \o r = p \o (q \o r)
      BY Associative, SMTT(30)
    <3> QED
      BY <2>1, <2>6, <3>1, Zenon
  <2> QED
    BY <2>2, <2>4, <2>5, <2>7, Zenon
<1> HIDE DEF S
<1>3. Len(tt) \in Nat
  OBVIOUS
<1>4. Len(tt) \in S
  BY <1>1, <1>2, <1>3, Induction
<1> QED
  BY <1>4 DEF S
-----------------------------------------------------------------------------
(* The pointers stay linear *)

\* A buffer whose counters are natural numbers; its contents are arbitrary.
IsBuffer(b) ==
  b \in [mem : {b.mem}, nbuffered : Nat, readp : Nat, writep : Nat, eof : {b.eof}]

\* A new buffer is linear.
LEMMA MallocLinear == IsBuffer(bfmalloc) /\ Linear(bfmalloc)
BY DEF IsBuffer, Linear, bfmalloc, Rewound

\* bfinit() rewinds any buffer.
LEMMA InitLinear ==
  ASSUME NEW b
  PROVE  /\ IsBuffer(bfinit(b)) /\ Linear(bfinit(b))
         /\ bfinit(b).readp = 0 /\ bfinit(b).writep = 0 /\ bfinit(b).nbuffered = 0
         /\ bfinit(b).mem = <<>>
<1>1. bfinit(b) = [mem |-> <<>>, nbuffered |-> 0, readp |-> 0, writep |-> 0, eof |-> b.eof]
  BY DEF bfinit, Rewound
<1> QED
  BY <1>1 DEF IsBuffer, Linear

\* b with the memory m, the read pointer moved by k.
Remembered(b, m, k) == buffer_readpointer_position([b EXCEPT !.mem = m], k)

\* Storing into the memory and moving the read pointer by k, forwards for
\* read(), bfinsch() and bfstrncat(), backwards for bfrmstr().
LEMMA ReadPointerFields ==
  ASSUME NEW b, NEW m, NEW k \in Int, IsBuffer(b), b.nbuffered + k \in Nat, b.readp + k \in Nat,
         NEW c, c = Remembered(b, m, k)
  PROVE  /\ IsBuffer(c)
         /\ c.nbuffered = b.nbuffered + k /\ c.readp = b.readp + k
         /\ c.writep = b.writep /\ c.mem = m /\ c.eof = b.eof
<1> DEFINE d == [b EXCEPT !.mem = m]
<1>1. /\ d.nbuffered = b.nbuffered /\ d.readp = b.readp
      /\ d.writep = b.writep /\ d.mem = m /\ d.eof = b.eof
  BY DEF IsBuffer
<1>2. IsBuffer(d)
  BY <1>1, Zenon DEF IsBuffer
<1>c. c = buffer_readpointer_position(d, k)
  BY DEF Remembered
<1> HIDE DEF d
<1>3. /\ c.nbuffered = d.nbuffered + k /\ c.readp = d.readp + k
      /\ c.writep = d.writep /\ c.mem = d.mem /\ c.eof = d.eof
  BY <1>2, <1>c DEF IsBuffer, buffer_readpointer_position
<1>4. d.nbuffered + k \in Nat /\ d.readp + k \in Nat
  BY <1>1
<1>5. IsBuffer(c)
  BY <1>2, <1>3, <1>4, <1>c, Zenon DEF IsBuffer, buffer_readpointer_position
<1> QED
  BY <1>1, <1>3, <1>5, Zenon

\* c is linear, and b with its read pointer moved by k.
Moved(b, c, k) ==
  /\ IsBuffer(c) /\ Linear(c)
  /\ c.readp = b.readp + k /\ c.writep = b.writep

\* The same on a linear buffer, as long as something stays buffered.
LEMMA ReadPointerLinear ==
  ASSUME NEW b, NEW m, NEW k \in Int, IsBuffer(b), Linear(b),
         b.nbuffered + k > 0
  PROVE  Moved(b, buffer_readpointer_position([b EXCEPT !.mem = m], k), k)
<1> DEFINE c == buffer_readpointer_position([b EXCEPT !.mem = m], k)
<1>0. b.nbuffered \in Nat /\ b.readp \in Nat /\ b.writep \in Nat
  BY DEF IsBuffer
<1>1. b.nbuffered + k \in Nat /\ b.readp + k \in Nat
  BY <1>0 DEF Linear
<1>c. c = Remembered(b, m, k)
  BY DEF Remembered
<1> HIDE DEF c
<1>2. /\ IsBuffer(c)
      /\ c.nbuffered = b.nbuffered + k /\ c.readp = b.readp + k
      /\ c.writep = b.writep /\ c.mem = m /\ c.eof = b.eof
  BY <1>1, <1>c, ReadPointerFields
<1>3. Linear(c)
  BY <1>0, <1>2 DEF Linear
<1> QED
  BY <1>2, <1>3 DEF c, Moved

\* The bytes of one read(), or of an append.
LEMMA FilledLinear ==
  ASSUME NEW b, NEW data, IsBuffer(b), Linear(b), Len(data) \in Nat \ {0}
  PROVE  Moved(b, Filled(b, data), Len(data))
<1>1. b.nbuffered + Len(data) > 0 /\ Len(data) \in Int
  BY DEF IsBuffer
<1> QED
  BY <1>1, ReadPointerLinear, Zenon DEF Filled

\* What they leave in the buffer.
LEMMA FilledFields ==
  ASSUME NEW b, NEW data, IsBuffer(b), Linear(b), Len(data) \in Nat
  PROVE  /\ Filled(b, data).mem = Store(b.mem, b.readp, data)
         /\ Filled(b, data).readp = b.readp + Len(data)
         /\ Filled(b, data).writep = b.writep
<1> DEFINE d == [b EXCEPT !.mem = Store(@, b.readp, data)]
<1>1. /\ d.nbuffered = b.nbuffered /\ d.readp = b.readp /\ d.writep = b.writep
      /\ d.mem = Store(b.mem, b.readp, data)
  BY DEF IsBuffer
<1>2. IsBuffer(d)
  BY <1>1, Zenon DEF IsBuffer
<1>3. Filled(b, data) = buffer_readpointer_position(d, Len(data))
  BY Zenon DEF Filled
<1> HIDE DEF d
<1> DEFINE c == buffer_readpointer_position(d, Len(data))
<1>4. c.readp = d.readp + Len(data) /\ c.writep = d.writep /\ c.mem = d.mem
  BY <1>2 DEF IsBuffer, buffer_readpointer_position
<1> HIDE DEF c
<1> QED
  BY <1>1, <1>3, <1>4 DEF c

\* A write() of n of the buffered bytes.
LEMMA WritePointerLinear ==
  ASSUME NEW b, NEW n \in Nat, IsBuffer(b), Linear(b), n <= b.nbuffered
  PROVE  LET c == buffer_writepointer_position(b, n) IN
         /\ IsBuffer(c) /\ Linear(c)
         /\ c.readp <= b.readp
         /\ n = b.nbuffered => c = bfinit(b)
<1> DEFINE c == buffer_writepointer_position(b, n)
<1>0. b.nbuffered \in Nat /\ b.readp \in Nat /\ b.writep \in Nat
  BY DEF IsBuffer
<1>1. CASE b.nbuffered - n > 0
  <2> DEFINE d == [b EXCEPT !.nbuffered = @ - n, !.writep = @ + n]
  <2>1. c = d
    BY <1>1 DEF buffer_writepointer_position
  <2>2. /\ d.nbuffered = b.nbuffered - n /\ d.readp = b.readp
        /\ d.writep = b.writep + n /\ d.mem = b.mem /\ d.eof = b.eof
    BY DEF IsBuffer
  <2>3. b.nbuffered - n \in Nat /\ b.writep + n \in Nat
    BY <1>0, <1>1
  <2>4. IsBuffer(d)
    BY <2>2, <2>3, Zenon DEF IsBuffer
  <2> HIDE DEF d
  <2>5. Linear(d) /\ d.readp <= b.readp
    BY <1>0, <1>1, <2>2, <2>3 DEF Linear
  <2> QED
    BY <1>0, <1>1, <2>1, <2>4, <2>5
<1>2. CASE ~(b.nbuffered - n > 0)
  <2>1. c = bfinit(b)
    BY <1>2 DEF buffer_writepointer_position
  <2> QED
    BY <1>0, <2>1, InitLinear
<1> QED
  BY <1>1, <1>2

\* Inserting a byte anywhere keeps the buffer linear and moves readp by one.
LEMMA InschLinear ==
  ASSUME NEW b, NEW p \in Nat, NEW ch, IsBuffer(b), Linear(b)
  PROVE  IsBuffer(bfinsch(b, p, ch)) /\ Linear(bfinsch(b, p, ch))
<1>0. b.nbuffered + 1 > 0
  BY DEF IsBuffer
<1> QED
  BY <1>0, ReadPointerLinear DEF bfinsch, Moved

\* Removing bytes anywhere keeps the buffer linear and never moves readp ahead.
LEMMA RmstrLinear ==
  ASSUME NEW b, NEW p \in Nat, NEW nbytes \in Nat, IsBuffer(b), Linear(b)
  PROVE  /\ IsBuffer(bfrmstr(b, p, nbytes)) /\ Linear(bfrmstr(b, p, nbytes))
         /\ bfrmstr(b, p, nbytes).readp <= b.readp
<1> DEFINE n == IF nbytes > b.readp - p THEN b.readp - p ELSE nbytes
           m == Store(b.mem, p, SubSeq(b.mem, p + n + 1, b.readp))
<1>0. b.nbuffered \in Nat /\ b.readp \in Nat /\ b.writep \in Nat
  BY DEF IsBuffer
<1>1. CASE ~InActivePortion(b, p)
  BY <1>0, <1>1 DEF bfrmstr
<1>2. CASE InActivePortion(b, p) /\ nbytes >= b.nbuffered
  BY <1>0, <1>2, InitLinear DEF bfrmstr
<1>3. CASE InActivePortion(b, p) /\ ~(nbytes >= b.nbuffered)
  <2>1. n \in Nat /\ n <= nbytes /\ b.nbuffered + (-n) > 0
    BY <1>0, <1>3 DEF InActivePortion
  <2>2. bfrmstr(b, p, nbytes) = buffer_readpointer_position([b EXCEPT !.mem = m], -n)
    BY <1>3 DEF bfrmstr
  <2> HIDE DEF n, m
  <2> QED
    BY <1>0, <2>1, <2>2, ReadPointerLinear DEF Moved
<1> QED
  BY <1>1, <1>2, <1>3

\* Removing some but not all of the buffered bytes moves readp by that many.
LEMMA RmstrMoves ==
  ASSUME NEW b, NEW p \in Nat, NEW nbytes \in Nat, IsBuffer(b), Linear(b),
         b.writep <= p, p + nbytes <= b.readp, nbytes < b.nbuffered
  PROVE  Moved(b, bfrmstr(b, p, nbytes), -nbytes)
<1> DEFINE m == Store(b.mem, p, SubSeq(b.mem, p + nbytes + 1, b.readp))
<1>0. b.nbuffered \in Nat /\ b.readp \in Nat /\ b.writep \in Nat
  BY DEF IsBuffer
<1>1. bfrmstr(b, p, nbytes) = buffer_readpointer_position([b EXCEPT !.mem = m], -nbytes)
  BY <1>0 DEF bfrmstr, InActivePortion
<1>2. -nbytes \in Int /\ b.nbuffered + (-nbytes) > 0
  BY <1>0
<1> HIDE DEF m
<1> QED
  BY <1>1, <1>2, ReadPointerLinear, Zenon

-----------------------------------------------------------------------------
(* Searching *)

\* A nonempty set of natural numbers has a least element.
LEMMA LeastOfIsMember ==
  ASSUME NEW S, S \subseteq Nat, S # {}
  PROVE  LeastOf(S) \in S
<1> DEFINE R == OpToRel(<, Nat)
<1>0. R = {ss \in Nat \X Nat : ss[1] < ss[2]}
  BY Zenon DEF OpToRel
<1>3. IsWellFoundedOn(R, Nat)
  BY NatLessThanWellFounded
<1> HIDE DEF R
<1>1. PICK x \in S : \A y \in S : ~(<<y, x>> \in R)
  BY <1>3, WFMin
<1>2. ASSUME NEW y \in S
      PROVE  x <= y
  <2>1. y < x => <<y, x>> \in R
    BY <1>0
  <2> QED
    BY <1>1, <2>1
<1> QED
  BY <1>2 DEF LeastOf

\* What a successful search returns lies in the bytes it was given.
LEMMA SearchBounds ==
  ASSUME NEW b, NEW p \in Nat, NEW ch, NEW n \in Int, mystrchr(b, p, ch, n) # NULL
  PROVE  /\ mystrchr(b, p, ch, n) \in Nat
         /\ p <= mystrchr(b, p, ch, n) /\ mystrchr(b, p, ch, n) < p + n
<1> DEFINE found == {q \in p .. (p + n - 1) : At(b, q) = ch}
<1>1. found # {} /\ mystrchr(b, p, ch, n) = LeastOf(found)
  BY DEF mystrchr
<1>2. found \subseteq Nat
  OBVIOUS
<1>3. LeastOf(found) \in found
  BY <1>1, <1>2, LeastOfIsMember
<1> QED
  BY <1>1, <1>3

-----------------------------------------------------------------------------
(* What is buffered, byte for byte *)

\* A buffer whose memory holds all that is buffered.
Whole(b) == b \in BufferRecord /\ Linear(b) /\ b.readp <= Len(b.mem)

LEMMA WholeIsBuffer ==
  ASSUME NEW b, Whole(b)
  PROVE  /\ IsBuffer(b) /\ Linear(b) /\ b.mem \in Seq(Byte) /\ b.eof \in BOOLEAN
         /\ b.nbuffered \in Nat /\ b.readp \in Nat /\ b.writep \in Nat
         /\ b.writep <= b.readp /\ b.readp <= Len(b.mem)
         /\ b.nbuffered = b.readp - b.writep
         /\ b = [mem |-> b.mem, nbuffered |-> b.nbuffered, readp |-> b.readp,
                 writep |-> b.writep, eof |-> b.eof]
<1>1. /\ b.mem \in Seq(Byte) /\ b.eof \in BOOLEAN /\ b.nbuffered \in Int
      /\ b.readp \in Int /\ b.writep \in Int
      /\ b = [mem |-> b.mem, nbuffered |-> b.nbuffered, readp |-> b.readp,
              writep |-> b.writep, eof |-> b.eof]
  BY DEF Whole, BufferRecord
<1>2. b.nbuffered \in Nat /\ b.readp \in Nat /\ b.writep \in Nat
  BY <1>1 DEF Whole, Linear
<1>3. IsBuffer(b)
  BY <1>1, <1>2, Zenon DEF IsBuffer
<1> QED
  BY <1>1, <1>2, <1>3 DEF Whole, Linear

\* A whole buffer, by its two pointers.
LEMMA WholeIsRecord ==
  ASSUME NEW b, Whole(b)
  PROVE  \E r \in Nat, w \in Nat, m \in Seq(Byte), e \in BOOLEAN :
           /\ b = [mem |-> m, nbuffered |-> r - w, readp |-> r, writep |-> w, eof |-> e]
           /\ w <= r /\ r <= Len(m) /\ (w = r => r = 0)
<1>1. /\ b.readp \in Nat /\ b.writep \in Nat /\ b.mem \in Seq(Byte) /\ b.eof \in BOOLEAN
      /\ b.writep <= b.readp /\ b.readp <= Len(b.mem) /\ b.nbuffered = b.readp - b.writep
      /\ b = [mem |-> b.mem, nbuffered |-> b.nbuffered, readp |-> b.readp,
              writep |-> b.writep, eof |-> b.eof]
  BY WholeIsBuffer
<1>2. b = [mem |-> b.mem, nbuffered |-> b.readp - b.writep, readp |-> b.readp,
           writep |-> b.writep, eof |-> b.eof]
  BY <1>1, Zenon
<1>3. b.writep = b.readp => b.readp = 0
  BY <1>1 DEF Whole, Linear
<1> QED
  BY <1>1, <1>2, <1>3, Zenon

\* What makes a buffer whole again after an operation.
LEMMA WholeFrom ==
  ASSUME NEW m \in Seq(Byte), NEW r \in Nat, NEW w \in Nat, NEW e \in BOOLEAN, w <= r, r <= Len(m),
         w = r => r = 0,
         NEW b, b = [mem |-> m, nbuffered |-> r - w, readp |-> r, writep |-> w, eof |-> e]
  PROVE  Whole(b)
<1>1. b.mem = m /\ b.nbuffered = r - w /\ b.readp = r /\ b.writep = w /\ b.eof = e
  OBVIOUS
<1>2. r - w \in Int
  OBVIOUS
<1>3. b \in BufferRecord
  BY <1>2 DEF BufferRecord
<1>4. Linear(b)
  BY <1>1, <1>2 DEF Linear
<1> QED
  BY <1>1, <1>3, <1>4 DEF Whole

LEMMA MallocWhole == Whole(bfmalloc) /\ Active(bfmalloc) = <<>>
<1>1. bfmalloc = [mem |-> <<>>, nbuffered |-> 0 - 0, readp |-> 0, writep |-> 0, eof |-> FALSE]
  BY DEF bfmalloc, Rewound
<1>2. <<>> \in Seq(Byte) /\ Len(<<>>) = 0 /\ 0 \in Nat /\ 0 <= 0
  OBVIOUS
<1>3. Whole(bfmalloc)
  BY <1>1, <1>2, WholeFrom, Zenon
<1>4. Active(bfmalloc) = <<>>
  BY <1>1 DEF Active
<1> QED
  BY <1>3, <1>4

LEMMA InitWhole ==
  ASSUME NEW b, b.eof \in BOOLEAN
  PROVE  Whole(bfinit(b)) /\ Active(bfinit(b)) = <<>>
<1>1. bfinit(b) = [mem |-> <<>>, nbuffered |-> 0 - 0, readp |-> 0, writep |-> 0, eof |-> b.eof]
  BY DEF bfinit, Rewound
<1>2. <<>> \in Seq(Byte) /\ Len(<<>>) = 0 /\ 0 \in Nat /\ 0 <= 0
  OBVIOUS
<1>3. Whole(bfinit(b))
  BY <1>1, <1>2, WholeFrom, Zenon
<1>4. Active(bfinit(b)) = <<>>
  BY <1>1 DEF Active
<1> QED
  BY <1>3, <1>4

\* The elements of a part of a sequence.
LEMMA Slice ==
  ASSUME NEW X, NEW s \in Seq(X), NEW p \in Nat, NEW q \in Nat, p <= q, q <= Len(s)
  PROVE  /\ SubSeq(s, p + 1, q) \in Seq(X) /\ Len(SubSeq(s, p + 1, q)) = q - p
         /\ \A i \in 1..(q - p) : SubSeq(s, p + 1, q)[i] = s[p + i]
<1> DEFINE t == SubSeq(s, p + 1, q)
<1>1. t \in Seq(X) /\ Len(t) = q - p
  OBVIOUS
<1>2. ASSUME NEW i \in 1..(q - p)
      PROVE  t[i] = s[p + i]
  OBVIOUS
<1> QED
  BY <1>1, <1>2

\* What is buffered is a sequence of bytes, as long as the buffer says.
LEMMA ActiveOfWhole ==
  ASSUME NEW b, Whole(b)
  PROVE  Active(b) \in Seq(Byte) /\ Len(Active(b)) = b.nbuffered
<1>1. PICK r \in Nat, w \in Nat, m \in Seq(Byte), e \in BOOLEAN :
        /\ b = [mem |-> m, nbuffered |-> r - w, readp |-> r, writep |-> w, eof |-> e]
        /\ w <= r /\ r <= Len(m)
  BY WholeIsRecord
<1>2. b.mem = m /\ b.nbuffered = r - w /\ b.readp = r /\ b.writep = w
  BY <1>1
<1>3. Active(b) = SubSeq(m, w + 1, r)
  BY <1>2 DEF Active
<1>4. SubSeq(m, w + 1, r) \in Seq(Byte) /\ Len(SubSeq(m, w + 1, r)) = r - w
  BY <1>1, Slice
<1> QED
  BY <1>2, <1>3, <1>4, Zenon

\* The end of file mark is not about the bytes.
LEMMA EofWhole ==
  ASSUME NEW b, Whole(b)
  PROVE  /\ Whole([b EXCEPT !.eof = TRUE]) /\ Active([b EXCEPT !.eof = TRUE]) = Active(b)
         /\ [b EXCEPT !.eof = TRUE].nbuffered = b.nbuffered
<1>1. PICK r \in Nat, w \in Nat, m \in Seq(Byte), e \in BOOLEAN :
        /\ b = [mem |-> m, nbuffered |-> r - w, readp |-> r, writep |-> w, eof |-> e]
        /\ w <= r /\ r <= Len(m) /\ (w = r => r = 0)
  BY WholeIsRecord
<1> DEFINE c == [b EXCEPT !.eof = TRUE]
<1>2. c = [mem |-> m, nbuffered |-> r - w, readp |-> r, writep |-> w, eof |-> TRUE]
  <2>1. b \in [mem : {m}, nbuffered : {r - w}, readp : {r}, writep : {w}, eof : {e}]
    BY <1>1
  <2>2. c.mem = m /\ c.nbuffered = r - w /\ c.readp = r /\ c.writep = w /\ c.eof = TRUE
    BY <2>1
  <2>3. c \in [mem : {m}, nbuffered : {r - w}, readp : {r}, writep : {w}, eof : {TRUE}]
    BY <2>1, <2>2
  <2> HIDE DEF c
  <2> QED
    BY <2>3
<1> HIDE DEF c
<1>3. /\ b.mem = m /\ b.nbuffered = r - w /\ b.readp = r /\ b.writep = w
      /\ c.mem = m /\ c.nbuffered = r - w /\ c.readp = r /\ c.writep = w
  BY <1>1, <1>2
<1>4. Whole(c)
  <2>1. TRUE \in BOOLEAN
    OBVIOUS
  <2> QED
    BY <1>1, <1>2, <2>1, WholeFrom, Zenon
<1> QED
  BY <1>3, <1>4 DEF c, Active


LEMMA ReadPointerRecord ==
  ASSUME NEW b, NEW m, NEW k \in Int, IsBuffer(b), b.nbuffered + k \in Nat, b.readp + k \in Nat
  PROVE  buffer_readpointer_position([b EXCEPT !.mem = m], k)
         = [mem |-> m, nbuffered |-> b.nbuffered + k, readp |-> b.readp + k,
            writep |-> b.writep, eof |-> b.eof]
<1> DEFINE c == buffer_readpointer_position([b EXCEPT !.mem = m], k)
<1>c. c = Remembered(b, m, k)
  BY DEF Remembered
<1> HIDE DEF c
<1>1. /\ IsBuffer(c) /\ c.nbuffered = b.nbuffered + k /\ c.readp = b.readp + k
      /\ c.writep = b.writep /\ c.mem = m /\ c.eof = b.eof
  BY <1>c, ReadPointerFields
<1>2. c = [mem |-> c.mem, nbuffered |-> c.nbuffered, readp |-> c.readp,
           writep |-> c.writep, eof |-> c.eof]
  BY <1>1 DEF IsBuffer
<1> QED
  BY <1>1, <1>2, Zenon DEF c

LEMMA WritePointerRecord ==
  ASSUME NEW b, NEW n \in Int, b.nbuffered - n > 0,
         /\ b.nbuffered \in Int /\ b.readp \in Int /\ b.writep \in Int
         /\ b = [mem |-> b.mem, nbuffered |-> b.nbuffered, readp |-> b.readp,
                 writep |-> b.writep, eof |-> b.eof]
  PROVE  buffer_writepointer_position(b, n)
         = [mem |-> b.mem, nbuffered |-> b.nbuffered - n, readp |-> b.readp,
            writep |-> b.writep + n, eof |-> b.eof]
BY DEF buffer_writepointer_position

\* Storing "data" at an offset inside the memory.
LEMMA StoreFields ==
  ASSUME NEW X, NEW m \in Seq(X), NEW p \in Nat, NEW data \in Seq(X), p <= Len(m)
  PROVE  /\ Store(m, p, data) \in Seq(X)
         /\ Len(Store(m, p, data)) \in Nat
         /\ p + Len(data) <= Len(Store(m, p, data)) /\ Len(m) <= Len(Store(m, p, data))
         /\ \A i \in 1..p : Store(m, p, data)[i] = m[i]
         /\ \A i \in 1..Len(data) : Store(m, p, data)[p + i] = data[i]
<1> DEFINE end == p + Len(data)
           size == IF Len(m) > end THEN Len(m) ELSE end
           s == Store(m, p, data)
<1>1. end \in Nat /\ size \in Nat /\ end <= size /\ Len(m) <= size /\ Len(data) \in Nat
  OBVIOUS
<1>2. s = [i \in 1..size |-> IF i > p /\ i <= end THEN data[i - p]
                             ELSE IF i <= Len(m) THEN m[i] ELSE NUL]
  BY DEF Store
<1> HIDE DEF s
<1>3. ASSUME NEW i \in 1..size
      PROVE  s[i] \in X
  <2>1. CASE i > p /\ i <= end
    <3>1. i - p \in 1..Len(data) /\ s[i] = data[i - p]
      BY <1>1, <1>2, <2>1
    <3> QED
      BY <3>1
  <2>2. CASE ~(i > p /\ i <= end)
    <3>1. i \in 1..Len(m) /\ s[i] = m[i]
      BY <1>1, <1>2, <2>2
    <3> QED
      BY <3>1
  <2> QED
    BY <2>1, <2>2
<1> HIDE DEF size
<1>4. s \in Seq(X) /\ Len(s) = size
  <2>1. s \in [1..size -> X]
    BY <1>2, <1>3
  <2> QED
    BY <1>1, <2>1
<1>5. ASSUME NEW i \in 1..p
      PROVE  s[i] = m[i]
  <2>1. i \in 1..size /\ ~(i > p) /\ i <= Len(m)
    BY <1>1 DEF size
  <2> QED
    BY <1>2, <2>1
<1>6. ASSUME NEW i \in 1..Len(data)
      PROVE  s[p + i] = data[i]
  <2>1. p + i \in 1..size /\ p + i > p /\ p + i <= end /\ (p + i) - p = i
    BY <1>1
  <2> QED
    BY <1>2, <2>1
<1> QED
  BY <1>1, <1>4, <1>5, <1>6 DEF s

LEMMA StoredIsThere ==
  ASSUME NEW X, NEW m \in Seq(X), NEW p \in Nat, NEW data \in Seq(X), p <= Len(m)
  PROVE  SubSeq(Store(m, p, data), p + 1, p + Len(data)) = data
<1> DEFINE s == Store(m, p, data)
           t == SubSeq(s, p + 1, p + Len(data))
<1>1. s \in Seq(X) /\ Len(s) \in Nat /\ p + Len(data) <= Len(s)
  BY StoreFields
<1>2. \A i \in 1..Len(data) : Store(m, p, data)[p + i] = data[i]
  BY StoreFields
<1> HIDE DEF s
<1>3. t \in Seq(X) /\ Len(t) = Len(data) /\ \A i \in 1..Len(data) : t[i] = s[p + i]
  <2> DEFINE q == p + Len(data)
  <2>1. q \in Nat /\ p <= q /\ q - p = Len(data) /\ q <= Len(s)
    BY <1>1
  <2> HIDE DEF q
  <2>2. /\ SubSeq(s, p + 1, q) \in Seq(X) /\ Len(SubSeq(s, p + 1, q)) = q - p
        /\ \A i \in 1..(q - p) : SubSeq(s, p + 1, q)[i] = s[p + i]
    BY <1>1, <2>1, Slice
  <2> QED
    BY <2>1, <2>2, Zenon DEF q
<1> HIDE DEF t
<1>4. \A i \in 1..Len(data) : t[i] = data[i]
  BY <1>2, <1>3 DEF s
<1>5. t = data
  BY <1>3, <1>4, SeqEqual
<1> QED
  BY <1>5 DEF s, t

\* Storing at the end of the active portion: at the read pointer r, the write
\* pointer being w.
LEMMA StoreAtEnd ==
  ASSUME NEW X, NEW m \in Seq(X), NEW data \in Seq(X), NEW w \in Nat, NEW r \in Nat,
         w <= r, r <= Len(m)
  PROVE  SubSeq(Store(m, r, data), w + 1, r + Len(data)) = SubSeq(m, w + 1, r) \o data
<1> DEFINE s == Store(m, r, data)
           len == (r + Len(data)) - w
           u == SubSeq(s, w + 1, r + Len(data))
           t == SubSeq(m, w + 1, r)
<1>1. /\ s \in Seq(X) /\ Len(s) \in Nat /\ r + Len(data) <= Len(s)
      /\ \A i \in 1..r : s[i] = m[i]
      /\ \A i \in 1..Len(data) : s[r + i] = data[i]
  <2>1. s \in Seq(X) /\ Len(s) \in Nat /\ r + Len(data) <= Len(s)
    BY StoreFields
  <2>2. \A i \in 1..r : s[i] = m[i]
    BY StoreFields
  <2>3. \A i \in 1..Len(data) : Store(m, r, data)[r + i] = data[i]
    BY StoreFields
  <2> QED
    BY <2>1, <2>2, <2>3, Zenon
<1> HIDE DEF s
<1>2. Len(data) \in Nat /\ r + Len(data) \in Nat /\ w <= r + Len(data)
  OBVIOUS
<1>3. u \in Seq(X) /\ Len(u) = len /\ \A i \in 1..len : u[i] = s[w + i]
  BY <1>1, <1>2, Slice
<1>4. t \in Seq(X) /\ Len(t) = r - w /\ \A i \in 1..(r - w) : t[i] = m[w + i]
  BY Slice
<1> HIDE DEF u, t
<1>5. t \o data \in Seq(X) /\ Len(t \o data) = len
  <2>1. t \in Seq(X) /\ Len(t) + Len(data) = len
    BY <1>4
  <2> HIDE DEF len
  <2> QED
    BY <2>1, ConcatProperties, Zenon
<1>6. ASSUME NEW i \in 1..len
      PROVE  u[i] = (t \o data)[i]
  <2>1. CASE i <= r - w
    <3>1. w + i \in 1..r /\ i \in 1..(r - w)
      BY <2>1
    <3>2. (t \o data)[i] = t[i]
      BY <1>4, <3>1
    <3> QED
      BY <1>1, <1>3, <1>4, <3>1, <3>2
  <2>2. CASE ~(i <= r - w)
    <3>1. i - (r - w) \in 1..Len(data) /\ w + i = r + (i - (r - w))
      BY <2>2
    <3>2. (t \o data)[i] = data[i - (r - w)]
      <4>1. i \in 1..(Len(t) + Len(data)) /\ ~(i <= Len(t))
        BY <1>4, <2>2
      <4> QED
        BY <1>4, <4>1, ConcatProperties
    <3>3. s[r + (i - (r - w))] = data[i - (r - w)]
      BY <1>1, <3>1
    <3> QED
      BY <1>3, <3>1, <3>2, <3>3
  <2> QED
    BY <2>1, <2>2
<1>7. u = t \o data
  BY <1>3, <1>5, <1>6, SeqEqual
<1> QED
  BY <1>7 DEF u, t, s

\* Storing bytes inside the active portion: the bytes before them stay.
LEMMA StoreBytes ==
  ASSUME NEW m \in Seq(Byte), NEW data \in Seq(Byte), NEW w \in Nat, NEW p \in Nat,
         w <= p, p <= Len(m)
  PROVE  SubSeq(Store(m, p, data), w + 1, p + Len(data)) = SubSeq(m, w + 1, p) \o data
BY StoreAtEnd

\* Reading adds to what is buffered.
LEMMA FilledWhole ==
  ASSUME NEW b, Whole(b), NEW data \in Seq(Byte)
  PROVE  /\ Whole(Filled(b, data)) /\ Active(Filled(b, data)) = Active(b) \o data
         /\ Filled(b, data).nbuffered = b.nbuffered + Len(data)
<1>1. PICK r \in Nat, w \in Nat, m \in Seq(Byte), e \in BOOLEAN :
        /\ b = [mem |-> m, nbuffered |-> r - w, readp |-> r, writep |-> w, eof |-> e]
        /\ w <= r /\ r <= Len(m) /\ (w = r => r = 0)
  BY WholeIsRecord
<1> DEFINE s == Store(m, r, data)
           q == r + Len(data)
           c == Filled(b, data)
<1>2. b.mem = m /\ b.nbuffered = r - w /\ b.readp = r /\ b.writep = w /\ b.eof = e
  BY <1>1
<1>3. Len(data) \in Nat /\ q \in Nat /\ w <= q /\ (w = q => q = 0) /\ (r - w) + Len(data) = q - w
  BY <1>1
<1>4. s \in Seq(Byte) /\ Len(s) \in Nat /\ q <= Len(s)
  BY <1>1, StoreFields
<1>5. SubSeq(s, w + 1, q) = SubSeq(m, w + 1, r) \o data
  <2>1. SubSeq(Store(m, r, data), w + 1, r + Len(data)) = SubSeq(m, w + 1, r) \o data
    BY <1>1, StoreBytes, Zenon
  <2> QED
    BY <2>1, Zenon
<1>6. c = [mem |-> s, nbuffered |-> q - w, readp |-> q, writep |-> w, eof |-> e]
  <2>1. c = buffer_readpointer_position([b EXCEPT !.mem = s], Len(data))
    BY <1>2, Zenon DEF Filled
  <2> HIDE DEF s, q, c
  <2>2. /\ IsBuffer(b) /\ Len(data) \in Int
        /\ b.nbuffered + Len(data) \in Nat /\ b.readp + Len(data) \in Nat
    BY <1>2, <1>3, WholeIsBuffer
  <2>3. buffer_readpointer_position([b EXCEPT !.mem = s], Len(data))
         = [mem |-> s, nbuffered |-> b.nbuffered + Len(data), readp |-> b.readp + Len(data),
            writep |-> b.writep, eof |-> b.eof]
    BY <2>2, ReadPointerRecord, Zenon
  <2> QED
    BY <1>2, <1>3, <2>1, <2>3 DEF q
<1> HIDE DEF s, q, c
<1>7. Whole(c)
  BY <1>1, <1>3, <1>4, <1>6, WholeFrom
<1>8. Active(c) = SubSeq(s, w + 1, q) /\ Active(b) = SubSeq(m, w + 1, r) /\ c.nbuffered = q - w
  BY <1>1, <1>6 DEF Active
<1> QED
  BY <1>2, <1>3, <1>5, <1>7, <1>8 DEF c

\* Writing n bytes takes them from the front of what is buffered.
LEMMA WriteWhole ==
  ASSUME NEW b, Whole(b), NEW n \in Nat, n <= b.nbuffered
  PROVE  LET c == buffer_writepointer_position(b, n) IN
         Whole(c) /\ SubSeq(Active(b), 1, n) \o Active(c) = Active(b)
<1>1. PICK r \in Nat, w \in Nat, m \in Seq(Byte), e \in BOOLEAN :
        /\ b = [mem |-> m, nbuffered |-> r - w, readp |-> r, writep |-> w, eof |-> e]
        /\ w <= r /\ r <= Len(m) /\ (w = r => r = 0)
  BY WholeIsRecord
<1> DEFINE c == buffer_writepointer_position(b, n)
           t == SubSeq(m, w + 1, r)
<1>2. /\ b.mem = m /\ b.nbuffered = r - w /\ b.readp = r /\ b.writep = w /\ b.eof = e
      /\ b = [mem |-> b.mem, nbuffered |-> b.nbuffered, readp |-> b.readp,
              writep |-> b.writep, eof |-> b.eof]
  BY <1>1
<1>3. n <= r - w
  BY <1>2
<1>4. t \in Seq(Byte) /\ Len(t) = r - w /\ \A i \in 1..(r - w) : t[i] = m[w + i]
  BY <1>1, Slice
<1>5. Active(b) = t
  BY <1>2 DEF Active
<1> HIDE DEF t
<1>6. /\ (r - w) - n > 0 => c = [mem |-> m, nbuffered |-> (r - w) - n, readp |-> r,
                                 writep |-> w + n, eof |-> e]
      /\ ~((r - w) - n > 0) => c = bfinit(b)
  <2>1. CASE (r - w) - n > 0
    <3>1. /\ b.nbuffered - n > 0 /\ n \in Int
          /\ b.nbuffered \in Int /\ b.readp \in Int /\ b.writep \in Int
      BY <1>2, <2>1
    <3>2. c = [mem |-> b.mem, nbuffered |-> b.nbuffered - n, readp |-> b.readp,
               writep |-> b.writep + n, eof |-> b.eof]
      BY <1>2, <3>1, WritePointerRecord, Zenon
    <3> QED
      BY <1>2, <2>1, <3>2
  <2>2. CASE ~((r - w) - n > 0)
    BY <1>2, <2>2 DEF buffer_writepointer_position
  <2> QED
    BY <2>1, <2>2
<1> HIDE DEF c
<1>7. CASE (r - w) - n > 0
  <2>1. w + n \in Nat /\ w + n <= r /\ w + n # r /\ (r - w) - n = r - (w + n)
    BY <1>7
  <2>2. c = [mem |-> m, nbuffered |-> r - (w + n), readp |-> r, writep |-> w + n, eof |-> e]
    BY <1>6, <1>7, <2>1
  <2>3. Whole(c)
    BY <1>1, <2>1, <2>2, WholeFrom
  <2>4. Active(c) = SubSeq(m, (w + n) + 1, r)
    BY <2>2 DEF Active
  <2>5. SubSeq(t, 1, n) = SubSeq(m, w + 1, w + n)
    <3> DEFINE u == SubSeq(t, 1, n)
               v == SubSeq(m, w + 1, w + n)
    <3>1. u \in Seq(Byte) /\ Len(u) = n /\ \A i \in 1..n : u[i] = t[i]
      BY <1>3, <1>4
    <3>2. v \in Seq(Byte) /\ Len(v) = n /\ \A i \in 1..n : v[i] = m[w + i]
      <4>1. w <= w + n /\ w + n <= Len(m) /\ (w + n) - w = n
        BY <1>1, <2>1
      <4> QED
        BY <2>1, <4>1, Slice
    <3> HIDE DEF u, v
    <3>3. \A i \in 1..n : u[i] = v[i]
      <4>1. 1..n \subseteq 1..(r - w)
        BY <1>3
      <4> QED
        BY <1>4, <3>1, <3>2, <4>1
    <3>4. u = v
      BY <3>1, <3>2, <3>3, SeqEqual
    <3> QED
      BY <3>4 DEF u, v
  <2>6. SubSeq(m, w + 1, w + n) \o SubSeq(m, (w + n) + 1, r) = t
    <3>1. w + 1 \in 1..(Len(m) + 1) /\ w + n \in (w + 1) - 1 .. Len(m) /\ r \in w + n .. Len(m)
      BY <1>1, <2>1
    <3> QED
      BY <3>1, ConcatAdjacentSubSeq DEF t
  <2> QED
    BY <1>5, <2>3, <2>4, <2>5, <2>6 DEF c
<1>8. CASE ~((r - w) - n > 0)
  <2>1. n = r - w /\ c = bfinit(b)
    BY <1>3, <1>6, <1>8
  <2>2. Whole(c) /\ Active(c) = <<>>
    BY <1>2, <2>1, InitWhole
  <2>3. SubSeq(t, 1, n) = t
    BY <1>4, <2>1, SubSeqFull
  <2> QED
    BY <1>4, <1>5, <2>2, <2>3 DEF c
<1> QED
  BY <1>7, <1>8

\* What is removed leaves the bytes before and after it.
LEMMA RmstrWhole ==
  ASSUME NEW b, Whole(b), NEW p \in Nat, NEW nbytes \in Nat
  PROVE  /\ Whole(bfrmstr(b, p, nbytes))
         /\ b.writep <= p /\ p + nbytes <= b.readp /\ nbytes < b.nbuffered =>
              /\ bfrmstr(b, p, nbytes).writep = b.writep
              /\ Active(bfrmstr(b, p, nbytes))
                   = SubSeq(b.mem, b.writep + 1, p) \o SubSeq(b.mem, (p + nbytes) + 1, b.readp)
         /\ b.writep <= p /\ p <= b.readp /\ b.nbuffered <= nbytes =>
              Active(bfrmstr(b, p, nbytes)) = <<>>
<1>1. PICK r \in Nat, w \in Nat, m \in Seq(Byte), e \in BOOLEAN :
        /\ b = [mem |-> m, nbuffered |-> r - w, readp |-> r, writep |-> w, eof |-> e]
        /\ w <= r /\ r <= Len(m) /\ (w = r => r = 0)
  BY WholeIsRecord
<1>2. /\ b.mem = m /\ b.nbuffered = r - w /\ b.readp = r /\ b.writep = w /\ b.eof = e
  BY <1>1
<1> DEFINE n == IF nbytes > r - p THEN r - p ELSE nbytes
           data == SubSeq(m, (p + n) + 1, r)
           s == Store(m, p, data)
           c == bfrmstr(b, p, nbytes)
<1>3. CASE ~InActivePortion(b, p)
  <2>1. c = b
    BY <1>3 DEF bfrmstr
  <2>2. ~(w <= p /\ p <= r)
    BY <1>2, <1>3 DEF InActivePortion
  <2> QED
    BY <1>2, <2>1, <2>2
<1>4. CASE InActivePortion(b, p) /\ nbytes >= b.nbuffered
  <2>1. c = bfinit(b)
    BY <1>4 DEF bfrmstr
  <2>2. Whole(c) /\ Active(c) = <<>>
    BY <1>2, <2>1, InitWhole
  <2>3. ~(nbytes < r - w)
    BY <1>2, <1>4
  <2> QED
    BY <1>2, <2>2, <2>3
<1>5. CASE InActivePortion(b, p) /\ ~(nbytes >= b.nbuffered)
  <2>1. w <= p /\ p <= r /\ nbytes < r - w
    BY <1>2, <1>5 DEF InActivePortion
  <2>2. /\ n \in Nat /\ n <= r - p /\ n < r - w /\ p + n <= r
        /\ (p + nbytes <= r => n = nbytes)
    BY <2>1
  <2>3. c = buffer_readpointer_position([b EXCEPT !.mem = s], -n)
    BY <1>2, <1>5 DEF bfrmstr
  <2> HIDE DEF n, c
  <2>4. data \in Seq(Byte) /\ Len(data) = r - (p + n) /\ Len(data) \in Nat
    <3>1. p + n \in Nat /\ p + n <= r /\ r \in Nat /\ r <= Len(m)
      BY <1>1, <2>2
    <3> QED
      BY <3>1, Slice
  <2> HIDE DEF data
  <2>5. p <= Len(m)
    BY <1>1, <2>1
  <2>6. s \in Seq(Byte) /\ Len(s) \in Nat /\ Len(m) <= Len(s)
    BY <2>4, <2>5, StoreFields
  <2>7. SubSeq(s, w + 1, p + Len(data)) = SubSeq(m, w + 1, p) \o data
    <3>1. w <= p /\ p <= Len(m) /\ data \in Seq(Byte)
      BY <2>1, <2>4, <2>5
    <3> QED
      BY <3>1, StoreBytes, Zenon DEF s
  <2> HIDE DEF s
  <2> DEFINE q == r - n
  <2>8. /\ q \in Nat /\ w <= q /\ w # q /\ q <= Len(s) /\ (r - w) + (-n) = q - w
        /\ r + (-n) = q /\ p + Len(data) = q
    BY <1>1, <2>1, <2>2, <2>4, <2>6
  <2>9. c = [mem |-> s, nbuffered |-> q - w, readp |-> q, writep |-> w, eof |-> e]
    <3>1. /\ IsBuffer(b) /\ -n \in Int
          /\ b.nbuffered + (-n) \in Nat /\ b.readp + (-n) \in Nat
      <4>1. IsBuffer(b)
        BY WholeIsBuffer
      <4>2. -n \in Int /\ (r - w) + (-n) \in Nat /\ r + (-n) \in Nat
        BY <2>2, <2>8
      <4> QED
        BY <1>2, <4>1, <4>2
    <3>2. c = [mem |-> s, nbuffered |-> b.nbuffered + (-n), readp |-> b.readp + (-n),
               writep |-> b.writep, eof |-> b.eof]
      BY <2>3, <3>1, ReadPointerRecord, Zenon
    <3> QED
      BY <1>2, <2>8, <3>2
  <2> HIDE DEF q
  <2>10. Whole(c)
    BY <1>1, <2>6, <2>8, <2>9, WholeFrom, Zenon
  <2>11. c.writep = w /\ Active(c) = SubSeq(s, w + 1, q)
    BY <2>9 DEF Active
  <2>12. Active(c) = SubSeq(m, w + 1, p) \o data
    BY <2>7, <2>8, <2>11
  <2>13. p + nbytes <= r => data = SubSeq(m, (p + nbytes) + 1, r)
    BY <2>2 DEF data
  <2>14. /\ p + nbytes <= r => Active(c) = SubSeq(m, w + 1, p) \o SubSeq(m, (p + nbytes) + 1, r)
         /\ ~(r - w <= nbytes)
    <3>1. ~(r - w <= nbytes)
      BY <2>1
    <3> QED
      BY <2>12, <2>13, <3>1, Zenon
  <2>15. /\ Whole(c)
         /\ b.writep <= p /\ p + nbytes <= b.readp /\ nbytes < b.nbuffered =>
              /\ c.writep = b.writep
              /\ Active(c) = SubSeq(b.mem, b.writep + 1, p) \o SubSeq(b.mem, (p + nbytes) + 1, b.readp)
         /\ b.writep <= p /\ p <= b.readp /\ b.nbuffered <= nbytes => Active(c) = <<>>
    BY <1>2, <2>10, <2>11, <2>14, Zenon
  <2> QED
    BY <2>15, Zenon DEF c
<1> QED
  BY <1>3, <1>4, <1>5

\* A byte of the active portion, by its offset.
LEMMA AtActive ==
  ASSUME NEW b, Whole(b), NEW i \in 1..b.nbuffered
  PROVE  At(b, (b.writep + i) - 1) = Active(b)[i]
<1>1. PICK r \in Nat, w \in Nat, m \in Seq(Byte), e \in BOOLEAN :
        /\ b = [mem |-> m, nbuffered |-> r - w, readp |-> r, writep |-> w, eof |-> e]
        /\ w <= r /\ r <= Len(m) /\ (w = r => r = 0)
  BY WholeIsRecord
<1>2. /\ b.mem = m /\ b.nbuffered = r - w /\ b.readp = r /\ b.writep = w
  BY <1>1
<1>3. SubSeq(m, w + 1, r)[i] = m[w + i]
  BY <1>1, <1>2, Slice
<1>4. (w + i) - 1 < Len(m) /\ ((w + i) - 1) + 1 = w + i
  BY <1>1, <1>2
<1> QED
  BY <1>2, <1>3, <1>4 DEF At, Active

\* Every byte a scan may look at, those past the active portion included.
LEMMA AtByte ==
  ASSUME NEW b, Whole(b), NEW p \in Nat
  PROVE  At(b, p) \in Byte
<1>1. b.mem \in Seq(Byte) /\ NUL \in Byte
  BY WholeIsBuffer DEF Byte, NUL
<1> QED
  BY <1>1 DEF At
=============================================================================
