------------------------- MODULE NegotiationProofs -------------------------
(***************************************************************************)
(* Proofs about option negotiation, for every set of options: first with   *)
(* every client, however many messages it sends; then that the server and  *)
(* a client that follows the protocol agree whenever nothing is in flight. *)
(***************************************************************************)
EXTENDS NegotiationClient, BufferProofs, SequenceTheorems

\* The types of what the flags and the messages range over.
FlagTypes ==
  /\ offers \in Seq(OptCode \X AllOption)
  /\ toServer \in Seq(OptCode \X AllOption)
  /\ sentOpt \in [AllOption -> SUBSET OptCode]
  /\ client \in [AllOption -> BOOLEAN] /\ server \in [AllOption -> BOOLEAN]
  /\ tnmode \in [{"CLIENT", "SERVER"} -> {"ASCII", "BINARY"}]

LEMMA FlagTypesInit == Init => FlagTypes
<1> SUFFICES ASSUME Init PROVE FlagTypes
  OBVIOUS
<1>1. InitialOffers \in Seq(OptCode \X AllOption)
  BY DEF InitialOffers, AllOption, KnownOption, OptCode, TELOPT_BINARY, TELOPT_ECHO,
         TELOPT_SGA, TELOPT_LOGOUT, TELOPT_COM_PORT_OPTION
<1>2. /\ sentOpt \in [AllOption -> SUBSET OptCode]
      /\ client \in [AllOption -> BOOLEAN] /\ server \in [AllOption -> BOOLEAN]
  BY DEF Init
<1>3. tnmode \in [{"CLIENT", "SERVER"} -> {"ASCII", "BINARY"}]
  BY DEF Init
<1> QED
  BY <1>1, <1>2, <1>3 DEF Init, FlagTypes

\* The optcode and the option of the message at the head of a queue.
LEMMA HeadOfMessages ==
  ASSUME NEW q \in Seq(OptCode \X AllOption), q # <<>>
  PROVE  /\ Head(q)[1] \in OptCode /\ Head(q)[2] \in AllOption
         /\ Tail(q) \in Seq(OptCode \X AllOption)
<1>1. Head(q) \in OptCode \X AllOption /\ Tail(q) \in Seq(OptCode \X AllOption)
  OBVIOUS
<1> QED
  BY <1>1

LEMMA SendOptionTypes ==
  ASSUME FlagTypes, NEW op \in OptCode, NEW opt \in AllOption, SendOption(op, opt)
  PROVE  /\ sentOpt' \in [AllOption -> SUBSET OptCode]
         /\ \A o \in AllOption : sentOpt[o] \subseteq sentOpt'[o]
<1>1. sentOpt' = sentOpt \/ sentOpt' = [sentOpt EXCEPT ![opt] = @ \union {op}]
  <2>1. CASE op \in sentOpt[opt]
    BY <2>1 DEF SendOption
  <2>2. CASE op \notin sentOpt[opt]
    <3>1. PICK n : sentOpt' = IF n >= 3 THEN [sentOpt EXCEPT ![opt] = @ \union {op}] ELSE sentOpt
      BY <2>2, Zenon DEF SendOption, mark_telnet_option_as_sent
    <3> QED
      BY <3>1
  <2> QED
    BY <2>1, <2>2
<1> QED
  BY <1>1 DEF FlagTypes

-----------------------------------------------------------------------------
(* What one answer does to the flags *)

\* The two sides of an option behave alike; "sent" says which optcode an enabled
\* option rests on.
LEMMA RespondKnownFlags ==
  ASSUME FlagTypes, ModeFollowsBinary, NEW op \in OptCode, NEW opt \in AllOption,
         respond_known_telnet_option(op, opt)
  PROVE  /\ client' \in [AllOption -> BOOLEAN] /\ server' \in [AllOption -> BOOLEAN]
         /\ tnmode' \in [{"CLIENT", "SERVER"} -> {"ASCII", "BINARY"}]
         /\ sentOpt' \in [AllOption -> SUBSET OptCode]
         /\ ModeFollowsBinary'
<1>0. TELOPT_BINARY \in AllOption
  BY DEF AllOption, KnownOption
<1>1. CASE op = WILL /\ ClientSide(opt, DO, TRUE, "BINARY")
  BY <1>0, <1>1, SendOptionTypes, ZenonT(30)
  DEF ClientSide, SetMode, FlagTypes, ModeFollowsBinary, optionVars, OptCode
<1>2. CASE op = WONT /\ ClientSide(opt, DONT, FALSE, "ASCII")
  BY <1>0, <1>2, SendOptionTypes
  DEF ClientSide, SetMode, FlagTypes, ModeFollowsBinary, optionVars, OptCode
<1>3. CASE op = DO /\ ServerSide(opt, WILL, TRUE, "BINARY")
  BY <1>0, <1>3, SendOptionTypes
  DEF ServerSide, SetMode, FlagTypes, ModeFollowsBinary, optionVars, OptCode
<1>4. CASE op = DONT /\ ServerSide(opt, WONT, FALSE, "ASCII")
  BY <1>0, <1>4, SendOptionTypes
  DEF ServerSide, SetMode, FlagTypes, ModeFollowsBinary, optionVars, OptCode
<1> QED
  BY <1>1, <1>2, <1>3, <1>4 DEF respond_known_telnet_option

ModeInv == FlagTypes /\ ModeFollowsBinary

LEMMA LogoutIsKnown == DO \in OptCode /\ TELOPT_LOGOUT \in KnownOption /\ TELOPT_LOGOUT \in AllOption
  BY DEF OptCode, KnownOption, AllOption

LEMMA ModeInvNext == ModeInv /\ [Next]_vars => ModeInv'
<1> SUFFICES ASSUME ModeInv, [Next]_vars
             PROVE  ModeInv'
  OBVIOUS
<1> USE DEF ModeInv
<1>1. CASE SendInitialOffer
  <2>1. Head(offers)[1] \in OptCode /\ Head(offers)[2] \in AllOption
        /\ Tail(offers) \in Seq(OptCode \X AllOption)
    BY <1>1, HeadOfMessages DEF SendInitialOffer, FlagTypes
  <2>2. sentOpt' \in [AllOption -> SUBSET OptCode]
    BY <1>1, <2>1, SendOptionTypes DEF SendInitialOffer
  <2> QED
    BY <1>1, <2>1, <2>2 DEF SendInitialOffer, FlagTypes, ModeFollowsBinary
<1>2. CASE RespondOption
  <2> DEFINE op == Head(toServer)[1]
             opt == Head(toServer)[2]
  <2>1. op \in OptCode /\ opt \in AllOption /\ Tail(toServer) \in Seq(OptCode \X AllOption)
    BY <1>2, HeadOfMessages DEF RespondOption, FlagTypes
  <2>2. toServer' = Tail(toServer) /\ offers' = offers
    BY <1>2 DEF RespondOption
  <2>3. \/ respond_known_telnet_option(op, opt)
        \/ RefuseUnknown(op, opt)
    BY <1>2 DEF RespondOption
  <2> HIDE DEF op, opt
  <2>4. CASE respond_known_telnet_option(op, opt)
    BY <2>1, <2>2, <2>4, RespondKnownFlags DEF FlagTypes
  <2>5. CASE RefuseUnknown(op, opt)
    <3>1. PICK answer \in OptCode : SendOption(answer, opt)
      BY <2>5 DEF RefuseUnknown, OptCode
    <3>2. sentOpt' \in [AllOption -> SUBSET OptCode]
      BY <2>1, <3>1, SendOptionTypes
    <3> QED
      BY <2>1, <2>2, <2>5, <3>2 DEF RefuseUnknown, FlagTypes, ModeFollowsBinary
  <2> QED
    BY <2>3, <2>4, <2>5
<1>3. CASE SessionEnds
  BY <1>3 DEF SessionEnds, FlagTypes, ModeFollowsBinary, optionVars
<1>6. CASE IdleLogout
  <2>1. sentOpt' \in [AllOption -> SUBSET OptCode]
    BY <1>6, LogoutIsKnown, SendOptionTypes DEF IdleLogout
  <2> QED
    BY <1>6, <2>1 DEF IdleLogout, FlagTypes, ModeFollowsBinary
<1>4. CASE AnyClientSends
  <2>1. PICK op \in OptCode, opt \in Option : toServer' = Append(toServer, <<op, opt>>)
    BY <1>4 DEF AnyClientSends
  <2>2. toServer' \in Seq(OptCode \X AllOption)
    BY <2>1 DEF FlagTypes, AllOption
  <2> QED
    BY <1>4, <2>2 DEF AnyClientSends, serverVars, optionVars, FlagTypes, ModeFollowsBinary
<1>5. CASE AnyClientReads \/ UNCHANGED vars
  BY <1>5 DEF AnyClientReads, vars, serverVars, optionVars, FlagTypes, ModeFollowsBinary
<1> QED
  BY <1>1, <1>2, <1>3, <1>4, <1>5, <1>6 DEF Next, ServerStep

\* The transfer mode of each direction follows the BINARY option of that
\* direction, whatever the client sends and whatever becomes of the writes.
THEOREM ModeAlwaysFollowsBinary == Spec => []ModeFollowsBinary
<1>1. Init => ModeInv
  BY FlagTypesInit DEF Init, ModeInv, ModeFollowsBinary, AllOption, KnownOption
<1>2. ModeInv => ModeFollowsBinary
  BY DEF ModeInv
<1> QED
  BY <1>1, <1>2, ModeInvNext, PTL DEF Spec

-----------------------------------------------------------------------------
(* Complete writes: what was built was sent, once *)

\* Between two steps sabre_to_socket_buf is empty, and an option string was
\* built exactly for the optcodes marked as sent.
SendInv ==
  /\ IsBuffer(sabre) /\ Linear(sabre) /\ sabre.nbuffered = 0
  /\ times \in [AllOption -> [OptCode -> Nat]]
  /\ \A o \in AllOption, c \in OptCode : times[o][c] = IF c \in sentOpt[o] THEN 1 ELSE 0

\* What EnabledWasOffered says of the flags while no write() was cut short.
Offered ==
  \A o \in AllOption : /\ client[o] => DO \in sentOpt[o]
                       /\ server[o] => WILL \in sentOpt[o]

\* An option string joins an empty buffer and leaves it whole.
LEMMA OneOptionString ==
  ASSUME IsBuffer(sabre), Linear(sabre), sabre.nbuffered = 0, NEW op, NEW opt
  PROVE  LET b == bfstrncat(sabre, <<IAC, op, opt>>) IN
         IsBuffer(b) /\ Linear(b) /\ b.nbuffered = 3 /\ cal_numbytes_to_write(b) = 3
<1> DEFINE data == SubSeq(<<IAC, op, opt>>, 1, 3)
           b == bfstrncat(sabre, <<IAC, op, opt>>)
<1>1. Len(<<IAC, op, opt>>) = 3 /\ Len(data) = 3
  OBVIOUS
<1>2. b = Filled(sabre, data)
  BY <1>1, SizeAssumption, NegotiationAssumption DEF bfstrncat
<1>. HIDE DEF data
<1>3. Moved(sabre, Filled(sabre, data), Len(data))
  <2>1. IsBuffer(sabre) /\ Linear(sabre) /\ Len(data) \in Nat \ {0}
    BY <1>1
  <2> QED
    BY <2>1, FilledLinear, Zenon
<1>. HIDE DEF b
<1>4. IsBuffer(b) /\ Linear(b) /\ b.readp = sabre.readp + 3 /\ b.writep = sabre.writep
  BY <1>1, <1>2, <1>3 DEF Moved
<1>5. b.nbuffered = 3 /\ cal_numbytes_to_write(b) = 3
  BY <1>4 DEF IsBuffer, Linear, cal_numbytes_to_write
<1> QED
  BY <1>4, <1>5 DEF b

LEMMA SendOptionOnce ==
  ASSUME FlagTypes, SendInv, cuts \in Nat, cuts' = 0,
         NEW op \in OptCode, NEW opt \in AllOption, SendOption(op, opt)
  PROVE  SendInv' /\ op \in sentOpt'[opt]
<1>1. CASE op \in sentOpt[opt]
  BY <1>1 DEF SendOption, SendInv
<1>2. CASE op \notin sentOpt[opt]
  <2> DEFINE b == bfstrncat(sabre, <<IAC, op, opt>>)
  <2>1. IsBuffer(b) /\ Linear(b) /\ b.nbuffered = 3 /\ cal_numbytes_to_write(b) = 3
    BY OneOptionString DEF SendInv
  <2>2. PICK n \in 0..cal_numbytes_to_write(b) :
          /\ IF n < cal_numbytes_to_write(b) THEN cuts < MaxCuts /\ cuts' = cuts + 1
                                             ELSE UNCHANGED cuts
          /\ sabre' = IF n > 0 THEN buffer_writepointer_position(b, n) ELSE b
          /\ sentOpt' = IF n >= 3 THEN [sentOpt EXCEPT ![opt] = @ \union {op}] ELSE sentOpt
          /\ times' = [times EXCEPT ![opt][op] = @ + 1]
    BY <1>2, Zenon DEF SendOption, mark_telnet_option_as_sent
  <2> HIDE DEF b
  <2>3. n = 3
    BY <2>1, <2>2
  <2>4. sabre' = bfinit(b)
    BY <2>1, <2>2, <2>3, WritePointerLinear
  <2>5. IsBuffer(sabre') /\ Linear(sabre') /\ sabre'.nbuffered = 0
    BY <2>4, InitLinear
  <2>6. sentOpt' = [sentOpt EXCEPT ![opt] = @ \union {op}]
    BY <2>2, <2>3
  <2>7. times' = [times EXCEPT ![opt] = [times[opt] EXCEPT ![op] = times[opt][op] + 1]]
    BY <2>2
  <2>8. times' \in [AllOption -> [OptCode -> Nat]]
    BY <2>7 DEF SendInv
  <2>9. ASSUME NEW o \in AllOption, NEW c \in OptCode
        PROVE  times'[o][c] = IF c \in sentOpt'[o] THEN 1 ELSE 0
    BY <1>2, <2>6, <2>7 DEF SendInv, FlagTypes
  <2>10. op \in sentOpt'[opt]
    BY <2>6 DEF FlagTypes
  <2> QED
    BY <2>5, <2>8, <2>9, <2>10 DEF SendInv
<1> QED
  BY <1>1, <1>2

\* Answering for a known option enables it only with the server's own half sent.
LEMMA RespondKnownOffers ==
  ASSUME FlagTypes, SendInv, Offered, cuts \in Nat, cuts' = 0,
         NEW op \in OptCode, NEW opt \in AllOption, respond_known_telnet_option(op, opt)
  PROVE  SendInv' /\ Offered'
<1>0. DO \in OptCode /\ DONT \in OptCode /\ WILL \in OptCode /\ WONT \in OptCode
  BY DEF OptCode
<1>1. CASE op = WILL /\ ClientSide(opt, DO, TRUE, "BINARY")
  <2>1. CASE client[opt] # TRUE
    BY <1>0, <1>1, <2>1, SendOptionOnce, SendOptionTypes
    DEF ClientSide, FlagTypes, Offered
  <2>2. CASE client[opt] = TRUE
    <3>1. UNCHANGED <<sentOpt, client, server, sabre, times>>
      BY <1>1, <2>2 DEF ClientSide, optionVars
    <3> QED
      BY <3>1 DEF SendInv, Offered
  <2> QED
    BY <2>1, <2>2
<1>2. CASE op = WONT /\ ClientSide(opt, DONT, FALSE, "ASCII")
  <2>1. CASE client[opt] # FALSE
    BY <1>0, <1>2, <2>1, SendOptionOnce, SendOptionTypes
    DEF ClientSide, FlagTypes, Offered
  <2>2. CASE client[opt] = FALSE
    <3>1. UNCHANGED <<sentOpt, client, server, sabre, times>>
      BY <1>2, <2>2 DEF ClientSide, optionVars
    <3> QED
      BY <3>1 DEF SendInv, Offered
  <2> QED
    BY <2>1, <2>2
<1>3. CASE op = DO /\ ServerSide(opt, WILL, TRUE, "BINARY")
  <2>1. CASE server[opt] # TRUE
    BY <1>0, <1>3, <2>1, SendOptionOnce, SendOptionTypes
    DEF ServerSide, FlagTypes, Offered
  <2>2. CASE server[opt] = TRUE
    <3>1. UNCHANGED <<sentOpt, client, server, sabre, times>>
      BY <1>3, <2>2 DEF ServerSide, optionVars
    <3> QED
      BY <3>1 DEF SendInv, Offered
  <2> QED
    BY <2>1, <2>2
<1>4. CASE op = DONT /\ ServerSide(opt, WONT, FALSE, "ASCII")
  <2>1. CASE server[opt] # FALSE
    BY <1>0, <1>4, <2>1, SendOptionOnce, SendOptionTypes
    DEF ServerSide, FlagTypes, Offered
  <2>2. CASE server[opt] = FALSE
    <3>1. UNCHANGED <<sentOpt, client, server, sabre, times>>
      BY <1>4, <2>2 DEF ServerSide, optionVars
    <3> QED
      BY <3>1 DEF SendInv, Offered
  <2> QED
    BY <2>1, <2>2
<1> QED
  BY <1>1, <1>2, <1>3, <1>4 DEF respond_known_telnet_option

SendEnabledInv == SendInv /\ Offered

\* A write() cut short stays counted.
LEMMA CutsCounted ==
  ASSUME cuts \in Nat, [Next]_vars
  PROVE  cuts' \in Nat /\ cuts <= cuts'
<1>1. ASSUME NEW op, NEW opt, SendOption(op, opt)
      PROVE  cuts' = cuts \/ cuts' = cuts + 1
  BY <1>1, Zenon DEF SendOption
<1>2. cuts' = cuts \/ cuts' = cuts + 1
  <2>1. CASE SendInitialOffer \/ IdleLogout
    BY <1>1, <2>1 DEF SendInitialOffer, IdleLogout
  <2>2. CASE RespondOption
    <3>1. PICK op, opt : \/ respond_known_telnet_option(op, opt)
                        \/ RefuseUnknown(op, opt)
      BY <2>2 DEF RespondOption
    <3> QED
      BY <1>1, <3>1 DEF respond_known_telnet_option, ClientSide, ServerSide, RefuseUnknown
  <2>3. CASE SessionEnds \/ AnyClientSends \/ AnyClientReads \/ UNCHANGED vars
    BY <2>3 DEF SessionEnds, AnyClientSends, AnyClientReads, vars, serverVars
  <2> QED
    BY <2>1, <2>2, <2>3 DEF Next, ServerStep
<1> QED
  BY <1>2

LEMMA OfferStep ==
  ASSUME ModeInv, SendEnabledInv, cuts \in Nat, cuts' = 0, [Next]_vars
  PROVE  SendEnabledInv'
<1> USE DEF SendEnabledInv
<1>1. CASE SendInitialOffer
  <2>1. Head(offers)[1] \in OptCode /\ Head(offers)[2] \in AllOption
    BY <1>1, HeadOfMessages DEF SendInitialOffer, ModeInv, FlagTypes
  <2>2. SendOption(Head(offers)[1], Head(offers)[2]) /\ UNCHANGED <<client, server>>
    BY <1>1 DEF SendInitialOffer
  <2>3. SendInv' /\ \A o \in AllOption : sentOpt[o] \subseteq sentOpt'[o]
    BY <2>1, <2>2, SendOptionOnce, SendOptionTypes DEF ModeInv
  <2> QED
    BY <2>2, <2>3 DEF Offered
<1>2. CASE RespondOption
  <2> DEFINE op == Head(toServer)[1]
             opt == Head(toServer)[2]
  <2>1. op \in OptCode /\ opt \in AllOption
    BY <1>2, HeadOfMessages DEF RespondOption, ModeInv, FlagTypes
  <2>2. \/ respond_known_telnet_option(op, opt)
        \/ RefuseUnknown(op, opt)
    BY <1>2 DEF RespondOption
  <2> HIDE DEF op, opt
  <2>3. CASE respond_known_telnet_option(op, opt)
    BY <2>1, <2>3, RespondKnownOffers DEF ModeInv
  <2>4. CASE RefuseUnknown(op, opt)
    <3>1. PICK answer \in OptCode : SendOption(answer, opt)
      BY <2>4 DEF RefuseUnknown, OptCode
    <3>2. SendInv' /\ \A o \in AllOption : sentOpt[o] \subseteq sentOpt'[o]
      BY <2>1, <3>1, SendOptionOnce, SendOptionTypes DEF ModeInv
    <3> QED
      BY <2>4, <3>2 DEF RefuseUnknown, Offered
  <2> QED
    BY <2>2, <2>3, <2>4
<1>3. CASE SessionEnds
  BY <1>3 DEF SessionEnds, optionVars, SendInv, Offered
<1>6. CASE IdleLogout
  <2>1. SendOption(DO, TELOPT_LOGOUT) /\ UNCHANGED <<client, server>>
    BY <1>6 DEF IdleLogout
  <2>2. SendInv' /\ \A o \in AllOption : sentOpt[o] \subseteq sentOpt'[o]
    BY <2>1, LogoutIsKnown, SendOptionOnce, SendOptionTypes DEF ModeInv
  <2> QED
    BY <2>1, <2>2 DEF Offered
<1>4. CASE AnyClientSends
  BY <1>4 DEF AnyClientSends, serverVars, optionVars, SendInv, Offered
<1>5. CASE AnyClientReads \/ UNCHANGED vars
  BY <1>5 DEF AnyClientReads, vars, serverVars, optionVars, SendInv, Offered
<1> QED
  BY <1>1, <1>2, <1>3, <1>4, <1>5, <1>6 DEF Next, ServerStep

\* Until a write() is cut short: whatever the client says, no optcode is sent
\* twice for an option, so no exchange can loop, and no option is enabled whose
\* half the server has not sent.
THEOREM SendOnceAndOffered == Spec => [](SentOnce /\ EnabledWasOffered)
<1> DEFINE Inv == ModeInv /\ cuts \in Nat /\ (cuts = 0 => SendEnabledInv)
<1>1. Init => Inv
  <2> SUFFICES ASSUME Init PROVE Inv
    OBVIOUS
  <2>1. ModeInv
    BY FlagTypesInit DEF Init, ModeInv, ModeFollowsBinary, AllOption, KnownOption
  <2>2. SendInv
    BY MallocLinear DEF Init, SendInv, bfmalloc, Rewound
  <2>3. Offered /\ cuts \in Nat
    BY DEF Init, Offered
  <2> QED
    BY <2>1, <2>2, <2>3 DEF SendEnabledInv
<1>2. Inv /\ [Next]_vars => Inv'
  <2> SUFFICES ASSUME Inv, [Next]_vars PROVE Inv'
    OBVIOUS
  <2>1. ModeInv'
    BY ModeInvNext
  <2>2. cuts' \in Nat /\ (cuts' = 0 => cuts = 0)
    BY CutsCounted
  <2>3. cuts' = 0 => SendEnabledInv'
    BY <2>2, OfferStep
  <2> QED
    BY <2>1, <2>2, <2>3
<1>3. Inv => SentOnce /\ EnabledWasOffered
  BY DEF SendEnabledInv, SendInv, SentOnce, Offered, EnabledWasOffered
<1> HIDE DEF Inv
<1> QED
  BY <1>1, <1>2, <1>3, PTL DEF Spec

-----------------------------------------------------------------------------
(* Types *)

\* What an answer changes besides the flags: the buffer stays whole, whether the
\* write() of the option string is complete or not.
SendTypes ==
  /\ Whole(sabre) /\ toClient \in Seq(Byte)
  /\ times \in [AllOption -> [OptCode -> Nat]] /\ cuts \in 0..MaxCuts

LEMMA SendOptionAllTypes ==
  ASSUME SendTypes, NEW op \in OptCode, NEW opt \in AllOption, SendOption(op, opt)
  PROVE  SendTypes'
<1>1. CASE op \in sentOpt[opt]
  BY <1>1 DEF SendOption, SendTypes
<1>2. CASE op \notin sentOpt[opt]
  <2> DEFINE data == <<IAC, op, opt>>
             room == Size - sabre.nbuffered
             part == SubSeq(data, 1, IF Len(data) > room THEN room ELSE Len(data))
             b == bfstrncat(sabre, data)
  <2>1. b = Filled(sabre, part)
    BY DEF bfstrncat
  <2>2. part \in Seq(Byte)
    <3>1. op \in Byte /\ opt \in Byte /\ IAC \in Byte
      BY NegotiationAssumption DEF OptCode, AllOption, KnownOption, Byte, IAC, WILL, WONT, DO, DONT,
         TELOPT_BINARY, TELOPT_ECHO, TELOPT_SGA, TELOPT_LOGOUT, TELOPT_COM_PORT_OPTION
    <3>2. data \in Seq(Byte) /\ Len(data) = 3
      BY <3>1
    <3>3. room \in Int
      BY SizeAssumption, WholeIsBuffer DEF SendTypes
    <3> HIDE DEF data, room
    <3> DEFINE m == IF Len(data) > room THEN room ELSE Len(data)
    <3>4. m \in Int /\ m <= Len(data)
      BY <3>2, <3>3
    <3> HIDE DEF m
    <3>5. SubSeq(data, 1, m) \in Seq(Byte)
      <4>1. ASSUME NEW i \in 1..m PROVE data[i] \in Byte
        <5>1. i \in 1..Len(data)
          BY <3>2, <3>4
        <5> QED
          BY <3>2, <5>1, ElementOfSeq, Zenon
      <4> QED
        BY <3>4, <4>1, SubSeqProperties
    <3> QED
      BY <3>5, Zenon DEF m
  <2> HIDE DEF part, b
  <2>3. Whole(b)
    BY <2>1, <2>2, FilledWhole DEF SendTypes
  <2>4. PICK n \in 0..cal_numbytes_to_write(b) :
          /\ IF n < cal_numbytes_to_write(b) THEN cuts < MaxCuts /\ cuts' = cuts + 1
                                             ELSE UNCHANGED cuts
          /\ toClient' = toClient \o SubSeq(Active(b), 1, n)
          /\ sabre' = IF n > 0 THEN buffer_writepointer_position(b, n) ELSE b
          /\ times' = [times EXCEPT ![opt][op] = @ + 1]
    BY <1>2, Zenon DEF SendOption, b
  <2>5. n \in Nat /\ n <= b.nbuffered
    <3>1. cal_numbytes_to_write(b) = b.nbuffered
      BY <2>3, WholeIsBuffer DEF cal_numbytes_to_write, Linear
    <3> QED
      BY <2>3, <2>4, <3>1, WholeIsBuffer
  <2>6. Whole(sabre')
    BY <2>3, <2>4, <2>5, WriteWhole
  <2>7. toClient' \in Seq(Byte)
    <3>1. Active(b) \in Seq(Byte) /\ Len(Active(b)) = b.nbuffered
      BY <2>3, ActiveOfWhole, Zenon
    <3>2. SubSeq(Active(b), 1, n) \in Seq(Byte)
      BY <2>5, <3>1
    <3> QED
      BY <2>4, <3>2 DEF SendTypes
  <2>8. cuts' \in 0..MaxCuts
    BY <2>4, NegotiationAssumption DEF SendTypes
  <2>9. times' \in [AllOption -> [OptCode -> Nat]]
    BY <2>4 DEF SendTypes
  <2> QED
    BY <2>6, <2>7, <2>8, <2>9 DEF SendTypes
<1> QED
  BY <1>1, <1>2

PlaceTypes ==
  /\ pc \in {"init", "run", "last", "ended"} /\ (pc = "init" <=> offers # <<>>)
  /\ loggedIn \in BOOLEAN /\ messages \in 0..MaxMessages

TypeInv == ModeInv /\ PlaceTypes /\ SendTypes

LEMMA SendTypesNext == ModeInv /\ SendTypes /\ [Next]_vars => SendTypes'
<1> SUFFICES ASSUME ModeInv, SendTypes, [Next]_vars
             PROVE  SendTypes'
  OBVIOUS
<1>1. ASSUME UNCHANGED <<sabre, toClient, times, cuts>>
      PROVE  SendTypes'
  BY <1>1 DEF SendTypes
<1>2. CASE SendInitialOffer
  <2>1. Head(offers)[1] \in OptCode /\ Head(offers)[2] \in AllOption
    BY <1>2, HeadOfMessages DEF SendInitialOffer, ModeInv, FlagTypes
  <2> QED
    BY <1>2, <2>1, SendOptionAllTypes DEF SendInitialOffer
<1>3. CASE RespondOption
  <2> DEFINE op == Head(toServer)[1]
             opt == Head(toServer)[2]
  <2>1. op \in OptCode /\ opt \in AllOption
    BY <1>3, HeadOfMessages DEF RespondOption, ModeInv, FlagTypes
  <2>2. respond_known_telnet_option(op, opt) \/ RefuseUnknown(op, opt)
    BY <1>3 DEF RespondOption
  <2> HIDE DEF op, opt
  <2>3. \/ \E answer \in OptCode : SendOption(answer, opt)
        \/ UNCHANGED <<sabre, toClient, times, cuts>>
    BY <2>2 DEF respond_known_telnet_option, ClientSide, ServerSide, RefuseUnknown, OptCode
  <2> QED
    BY <1>1, <2>1, <2>3, SendOptionAllTypes
<1>4. CASE SessionEnds
  BY <1>1, <1>4 DEF SessionEnds
<1>7. CASE IdleLogout
  BY <1>7, LogoutIsKnown, SendOptionAllTypes DEF IdleLogout, ModeInv
<1>5. CASE AnyClientSends \/ UNCHANGED vars
  BY <1>1, <1>5 DEF AnyClientSends, vars, serverVars
<1>6. CASE AnyClientReads
  BY <1>6 DEF AnyClientReads, serverVars, SendTypes
<1> QED
  BY <1>2, <1>3, <1>4, <1>5, <1>6, <1>7 DEF Next, ServerStep

LEMMA LastOne ==
  ASSUME NEW X, NEW q \in Seq(X), q # <<>>
  PROVE  Tail(q) = <<>> <=> Len(q) = 1
<1>1. Tail(q) \in Seq(X) /\ Len(Tail(q)) = Len(q) - 1 /\ Len(q) \in Nat
  OBVIOUS
<1> DEFINE t == Tail(q)
<1>2. ASSUME NEW t2 \in Seq(X) PROVE t2 = <<>> <=> Len(t2) = 0
  OBVIOUS
<1>3. t = <<>> <=> Len(t) = 0
  BY <1>1, <1>2
<1> HIDE DEF t
<1>4. Len(t) = Len(q) - 1
  BY <1>1 DEF t
<1> QED
  BY <1>1, <1>3, <1>4 DEF t

LEMMA PlaceTypesNext == ModeInv /\ PlaceTypes /\ [Next]_vars => PlaceTypes'
<1> SUFFICES ASSUME ModeInv, PlaceTypes, [Next]_vars
             PROVE  PlaceTypes'
  OBVIOUS
<1>1. CASE SendInitialOffer
  <2>1. offers \in Seq(OptCode \X AllOption) /\ offers # <<>> /\ offers' = Tail(offers)
        /\ pc' = (IF Len(offers) = 1 THEN "run" ELSE "init") /\ UNCHANGED <<loggedIn, messages>>
    BY <1>1 DEF SendInitialOffer, ModeInv, FlagTypes
  <2>2. offers' # <<>> <=> Len(offers) # 1
    BY <2>1, LastOne
  <2> QED
    BY <2>1, <2>2 DEF PlaceTypes
<1>2. CASE RespondOption
  <2>1. loggedIn' \in BOOLEAN
    BY <1>2, Zenon DEF RespondOption, PlaceTypes
  <2>2. UNCHANGED <<pc, offers, messages>>
    BY <1>2 DEF RespondOption
  <2> QED
    BY <2>1, <2>2, Zenon DEF PlaceTypes
<1>3. CASE SessionEnds \/ IdleLogout
  BY <1>3 DEF SessionEnds, IdleLogout, PlaceTypes
<1>4. CASE AnyClientSends
  <2>1. messages' \in 0..MaxMessages
    BY <1>4, NegotiationAssumption DEF AnyClientSends, PlaceTypes
  <2> QED
    BY <1>4, <2>1 DEF AnyClientSends, serverVars, PlaceTypes
<1>5. CASE AnyClientReads \/ UNCHANGED vars
  BY <1>5 DEF AnyClientReads, vars, serverVars, PlaceTypes
<1> QED
  BY <1>1, <1>2, <1>3, <1>4, <1>5 DEF Next, ServerStep

\* Every variable of the negotiation keeps its type, the wires hold bytes and
\* whole messages, and telnet_init() ends with its last offer, whatever an
\* arbitrary client sends and wherever the writes of the answers are cut.
THEOREM NegotiationTypeCorrect == Spec => []TypeOK
<1>1. Init => TypeInv
  <2> SUFFICES ASSUME Init PROVE TypeInv
    OBVIOUS
  <2>1. ModeInv
    BY FlagTypesInit DEF Init, ModeInv, ModeFollowsBinary, AllOption, KnownOption
  <2>2. SendTypes
    <3>1. Whole(sabre)
      BY MallocWhole DEF Init
    <3> QED
      BY <3>1, NegotiationAssumption DEF Init, SendTypes
  <2>3. PlaceTypes
    <3>1. offers # <<>> /\ pc = "init" /\ messages \in 0..MaxMessages
      BY NegotiationAssumption DEF Init, InitialOffers
    <3>2. loggedIn \in BOOLEAN
      BY Zenon DEF Init
    <3> QED
      BY <3>1, <3>2 DEF PlaceTypes
  <2> QED
    BY <2>1, <2>2, <2>3 DEF TypeInv
<1>2. TypeInv /\ [Next]_vars => TypeInv'
  BY ModeInvNext, SendTypesNext, PlaceTypesNext DEF TypeInv
<1>3. TypeInv => TypeOK
  BY DEF TypeInv, ModeInv, FlagTypes, PlaceTypes, SendTypes, Whole, TypeOK
<1> QED
  BY <1>1, <1>2, <1>3, PTL DEF Spec

-----------------------------------------------------------------------------
(* A client that follows the protocol.                                       *)
(*                                                                           *)
(* The argument takes the two sides of each option one by one: the client's, *)
(* which WILL and WONT of the client and DO and DONT of the server are       *)
(* about, and the server's, with the optcodes exchanged.  Of the messages on *)
(* the wire in each direction those of one side form a subsequence, Among,   *)
(* and what this subsequence can be, with the flags of both ends, is one of  *)
(* six phases.  Every step of either end moves one side to another phase and *)
(* leaves the other sides where they are.                                    *)

\* The messages as <<optcode, option>>.
Messages == OptCode \X AllOption

\* P is the subsequence of q of its elements that are in S: f says where they are.
Among(q, S, P) ==
  \E f \in [1..Len(P) -> 1..Len(q)] :
    /\ \A i, j \in 1..Len(P) : i < j => f[i] < f[j]
    /\ \A i \in 1..Len(P) : q[f[i]] = P[i] /\ P[i] \in S
    /\ \A k \in 1..Len(q) : q[k] \in S => \E i \in 1..Len(P) : f[i] = k

\* Nothing is the only subsequence of nothing.
LEMMA AmongEmpty ==
  ASSUME NEW M, NEW S, NEW P \in Seq(M)
  PROVE  /\ Among(<<>>, S, <<>>)
         /\ Among(<<>>, S, P) => P = <<>>
<1>1. Among(<<>>, S, <<>>)
  <2> DEFINE f == [i \in 1..0 |-> 0]
  <2>1. f \in [1..Len(<<>>) -> 1..Len(<<>>)]
    OBVIOUS
  <2>2. \A i : i \notin 1..Len(<<>>)
    OBVIOUS
  <2> HIDE DEF f
  <2>3. /\ \A i, j \in 1..Len(<<>>) : i < j => f[i] < f[j]
        /\ \A i \in 1..Len(<<>>) : <<>>[f[i]] = <<>>[i] /\ <<>>[i] \in S
        /\ \A k \in 1..Len(<<>>) : <<>>[k] \in S => \E i \in 1..Len(<<>>) : f[i] = k
    BY <2>2, Zenon
  <2> QED
    BY <2>1, <2>3, Zenon DEF Among
<1>2. ASSUME Among(<<>>, S, P), P # <<>> PROVE FALSE
  <2>1. PICK f \in [1..Len(P) -> 1..Len(<<>>)] : TRUE
    BY <1>2 DEF Among
  <2>2. 1 \in 1..Len(P)
    BY <1>2
  <2>3. f[1] \in 1..Len(<<>>)
    BY <2>1, <2>2
  <2> QED
    BY <2>3
<1> QED
  BY <1>1, <1>2

\* What joins the queue joins the subsequence if it is in S.
LEMMA AmongAppend ==
  ASSUME NEW M, NEW S, NEW q \in Seq(M), NEW P \in Seq(M), NEW m \in M, Among(q, S, P)
  PROVE  /\ m \in S => Among(Append(q, m), S, Append(P, m))
         /\ m \notin S => Among(Append(q, m), S, P)
<1>1. PICK f \in [1..Len(P) -> 1..Len(q)] :
        /\ \A i, j \in 1..Len(P) : i < j => f[i] < f[j]
        /\ \A i \in 1..Len(P) : q[f[i]] = P[i] /\ P[i] \in S
        /\ \A k \in 1..Len(q) : q[k] \in S => \E i \in 1..Len(P) : f[i] = k
  BY DEF Among
<1>0. Len(q) \in Nat /\ Len(P) \in Nat
  OBVIOUS
<1>3. /\ Len(Append(q, m)) = Len(q) + 1 /\ Append(q, m)[Len(q) + 1] = m
      /\ \A i \in 1..Len(q) : Append(q, m)[i] = q[i]
  OBVIOUS
<1>4. /\ Len(Append(P, m)) = Len(P) + 1 /\ Append(P, m)[Len(P) + 1] = m
      /\ \A i \in 1..Len(P) : Append(P, m)[i] = P[i]
  OBVIOUS
<1>5. ASSUME m \in S PROVE Among(Append(q, m), S, Append(P, m))
  <2> DEFINE g == [i \in 1..(Len(P) + 1) |-> IF i = Len(P) + 1 THEN Len(q) + 1 ELSE f[i]]
  <2>1. g \in [1..Len(Append(P, m)) -> 1..Len(Append(q, m))]
    BY <1>0, <1>3, <1>4
  <2>2. /\ g[Len(P) + 1] = Len(q) + 1
        /\ \A i \in 1..Len(P) : g[i] = f[i] /\ f[i] \in 1..Len(q)
    BY <1>0
  <2> HIDE DEF g
  <2>3. ASSUME NEW i \in 1..Len(Append(P, m)), NEW j \in 1..Len(Append(P, m)), i < j
        PROVE  g[i] < g[j]
    <3>1. i \in 1..Len(P) /\ (j \in 1..Len(P) \/ j = Len(P) + 1)
      BY <1>0, <1>4, <2>3
    <3>2. g[i] = f[i] /\ f[i] \in 1..Len(q)
      BY <2>2, <3>1
    <3>3. CASE j \in 1..Len(P)
      BY <1>1, <2>2, <2>3, <3>1, <3>2, <3>3
    <3>4. CASE j = Len(P) + 1
      BY <1>0, <2>2, <3>2, <3>4
    <3> QED
      BY <3>1, <3>3, <3>4
  <2>4. \A i \in 1..Len(Append(P, m)) : Append(q, m)[g[i]] = Append(P, m)[i] /\ Append(P, m)[i] \in S
    BY <1>0, <1>1, <1>3, <1>4, <1>5, <2>2
  <2>5. ASSUME NEW k \in 1..Len(Append(q, m)), Append(q, m)[k] \in S
        PROVE  \E i \in 1..Len(Append(P, m)) : g[i] = k
    <3>1. CASE k = Len(q) + 1
      BY <1>0, <1>4, <2>2, <3>1
    <3>2. CASE k \in 1..Len(q)
      <4>1. PICK i \in 1..Len(P) : f[i] = k
        BY <1>1, <1>3, <2>5, <3>2
      <4>2. i \in 1..Len(Append(P, m)) /\ g[i] = f[i]
        BY <1>0, <1>4, <2>2
      <4> QED
        BY <4>1, <4>2
    <3> QED
      BY <1>0, <1>3, <3>1, <3>2
  <2> QED
    BY <2>1, <2>3, <2>4, <2>5 DEF Among
<1>6. ASSUME m \notin S PROVE Among(Append(q, m), S, P)
  <2>1. f \in [1..Len(P) -> 1..Len(Append(q, m))]
    BY <1>0, <1>3
  <2>2. \A i \in 1..Len(P) : Append(q, m)[f[i]] = P[i] /\ P[i] \in S
    BY <1>1, <1>3
  <2>3. \A k \in 1..Len(Append(q, m)) : Append(q, m)[k] \in S => \E i \in 1..Len(P) : f[i] = k
    BY <1>0, <1>1, <1>3, <1>6
  <2> QED
    BY <1>1, <2>1, <2>2, <2>3 DEF Among
<1> QED
  BY <1>5, <1>6

\* What leaves the queue leaves the subsequence if it is in S.
LEMMA AmongTail ==
  ASSUME NEW M, NEW S, NEW q \in Seq(M), NEW P \in Seq(M), q # <<>>, Among(q, S, P)
  PROVE  /\ Head(q) \in S => P # <<>> /\ Head(P) = Head(q) /\ Among(Tail(q), S, Tail(P))
         /\ Head(q) \notin S => Among(Tail(q), S, P)
<1>1. PICK f \in [1..Len(P) -> 1..Len(q)] :
        /\ \A i, j \in 1..Len(P) : i < j => f[i] < f[j]
        /\ \A i \in 1..Len(P) : q[f[i]] = P[i] /\ P[i] \in S
        /\ \A k \in 1..Len(q) : q[k] \in S => \E i \in 1..Len(P) : f[i] = k
  BY DEF Among
<1>0. Len(q) \in Nat \ {0} /\ Len(P) \in Nat
  OBVIOUS
<1>3. /\ Head(q) = q[1] /\ Len(Tail(q)) = Len(q) - 1
      /\ \A i \in 1..(Len(q) - 1) : Tail(q)[i] = q[i + 1]
  OBVIOUS
<1>5. ASSUME Head(q) \in S PROVE P # <<>> /\ Head(P) = Head(q) /\ Among(Tail(q), S, Tail(P))
  <2>1. PICK i \in 1..Len(P) : f[i] = 1
    BY <1>0, <1>1, <1>3, <1>5
  <2>2. i = 1
    BY <1>0, <1>1, <2>1
  <2>3. P # <<>> /\ Head(P) = P[1]
    BY <2>1
  <2>4. P[1] = q[1]
    BY <1>1, <2>1, <2>2
  <2>5. /\ Len(Tail(P)) = Len(P) - 1
        /\ \A j \in 1..(Len(P) - 1) : Tail(P)[j] = P[j + 1]
    BY <2>3
  <2> DEFINE g == [j \in 1..(Len(P) - 1) |-> f[j + 1] - 1]
  <2>6. \A j \in 1..(Len(P) - 1) : f[j + 1] \in 2..Len(q) /\ g[j] = f[j + 1] - 1
    <3> TAKE j \in 1..(Len(P) - 1)
    <3>1. 1 \in 1..Len(P) /\ j + 1 \in 1..Len(P) /\ 1 < j + 1
      BY <1>0
    <3>2. f[1] < f[j + 1]
      BY <1>1, <3>1
    <3> QED
      BY <2>1, <2>2, <3>1, <3>2
  <2>7. g \in [1..Len(Tail(P)) -> 1..Len(Tail(q))]
    BY <1>0, <1>3, <2>5, <2>6
  <2> HIDE DEF g
  <2>8. ASSUME NEW j \in 1..Len(Tail(P)), NEW k \in 1..Len(Tail(P)), j < k
        PROVE  g[j] < g[k]
    <3>1. /\ j \in 1..(Len(P) - 1) /\ k \in 1..(Len(P) - 1)
          /\ j + 1 \in 1..Len(P) /\ k + 1 \in 1..Len(P) /\ j + 1 < k + 1
      BY <1>0, <2>5, <2>8
    <3>2. f[j + 1] < f[k + 1]
      BY <1>1, <3>1
    <3>3. /\ g[j] = f[j + 1] - 1 /\ f[j + 1] \in 2..Len(q)
          /\ g[k] = f[k + 1] - 1 /\ f[k + 1] \in 2..Len(q)
      BY <2>6, <3>1
    <3> QED
      BY <3>2, <3>3
  <2>9. \A j \in 1..Len(Tail(P)) : Tail(q)[g[j]] = Tail(P)[j] /\ Tail(P)[j] \in S
    <3> TAKE j \in 1..Len(Tail(P))
    <3>1. j \in 1..(Len(P) - 1) /\ j + 1 \in 1..Len(P)
      BY <1>0, <2>5
    <3>4. f[j + 1] \in 2..Len(q)
      BY <2>6, <3>1
    <3>2. f[j + 1] - 1 \in 1..(Len(q) - 1) /\ (f[j + 1] - 1) + 1 = f[j + 1]
      BY <1>0, <3>4
    <3>3. Tail(q)[g[j]] = q[f[j + 1]]
      BY <1>3, <2>6, <3>1, <3>2
    <3> QED
      BY <1>1, <2>5, <3>1, <3>3
  <2>10. ASSUME NEW k \in 1..Len(Tail(q)), Tail(q)[k] \in S
         PROVE  \E j \in 1..Len(Tail(P)) : g[j] = k
    <3>1. k + 1 \in 1..Len(q) /\ q[k + 1] \in S
      BY <1>0, <1>3, <2>10
    <3>2. PICK j \in 1..Len(P) : f[j] = k + 1
      BY <1>1, <3>1
    <3>3. j # 1
      BY <1>0, <2>1, <2>2, <3>2
    <3>4. j - 1 \in 1..(Len(P) - 1) /\ (j - 1) + 1 = j
      BY <1>0, <3>3
    <3>5. g[j - 1] = k
      BY <1>0, <1>3, <2>6, <3>2, <3>4
    <3> QED
      BY <2>5, <3>4, <3>5
  <2> QED
    BY <1>3, <2>3, <2>4, <2>7, <2>8, <2>9, <2>10 DEF Among
<1>6. ASSUME Head(q) \notin S PROVE Among(Tail(q), S, P)
  <2> DEFINE g == [j \in 1..Len(P) |-> f[j] - 1]
  <2>1. \A j \in 1..Len(P) : f[j] \in 2..Len(q) /\ g[j] = f[j] - 1
    BY <1>0, <1>1, <1>3, <1>6
  <2>2. g \in [1..Len(P) -> 1..Len(Tail(q))]
    BY <1>0, <1>3, <2>1
  <2> HIDE DEF g
  <2>3. \A j, k \in 1..Len(P) : j < k => g[j] < g[k]
    BY <1>0, <1>1, <2>1
  <2>4. \A j \in 1..Len(P) : Tail(q)[g[j]] = P[j] /\ P[j] \in S
    <3> TAKE j \in 1..Len(P)
    <3>1. f[j] - 1 \in 1..(Len(q) - 1) /\ (f[j] - 1) + 1 = f[j]
      BY <1>0, <2>1
    <3> QED
      BY <1>1, <1>3, <2>1, <3>1
  <2>5. ASSUME NEW k \in 1..Len(Tail(q)), Tail(q)[k] \in S
        PROVE  \E j \in 1..Len(P) : g[j] = k
    <3>1. k + 1 \in 1..Len(q) /\ q[k + 1] \in S
      BY <1>0, <1>3, <2>5
    <3>2. PICK j \in 1..Len(P) : f[j] = k + 1
      BY <1>1, <3>1
    <3> QED
      BY <1>0, <1>3, <2>1, <3>2, SMTT(40)
  <2> QED
    BY <2>2, <2>3, <2>4, <2>5 DEF Among
<1> QED
  BY <1>5, <1>6

\* Sequences of one and two elements.
LEMMA Short ==
  ASSUME NEW x, NEW y
  PROVE  /\ Head(<<x>>) = x /\ Tail(<<x>>) = <<>> /\ <<x>> # <<>>
         /\ Head(<<x, y>>) = x /\ Tail(<<x, y>>) = <<y>> /\ <<x, y>> # <<>>
         /\ Append(<<>>, x) = <<x>> /\ Append(<<x>>, y) = <<x, y>>
<1>1. Head(<<x>>) = x /\ Head(<<x, y>>) = x
  OBVIOUS
<1>2. <<x>> # <<>> /\ <<x, y>> # <<>>
  OBVIOUS
<1>3. Tail(<<x>>) = <<>>
  OBVIOUS
<1>4. Tail(<<x, y>>) = <<y>>
  <2> DEFINE q == <<x, y>>
  <2>1. q \in Seq({x, y}) /\ Len(q) = 2 /\ q[2] = y
    OBVIOUS
  <2> HIDE DEF q
  <2>2. Tail(q) \in Seq({x, y}) /\ Len(Tail(q)) = 1 /\ Tail(q)[1] = y
    BY <2>1
  <2> QED
    BY <2>2 DEF q
<1>5. Append(<<>>, x) = <<x>>
  OBVIOUS
<1>6. Append(<<x>>, y) = <<x, y>>
  <2> DEFINE S == {x, y}
             p == <<x>>
             r == <<x, y>>
             q == Append(p, y)
  <2>1. y \in S /\ p \in Seq(S) /\ Len(p) = 1 /\ p[1] = x
    OBVIOUS
  <2>2. r \in Seq(S) /\ Len(r) = 2 /\ r[1] = x /\ r[2] = y
    OBVIOUS
  <2> HIDE DEF S, r, p
  <2>3. q \in Seq(S) /\ Len(q) = 2 /\ q[2] = y /\ q[1] = x
    BY <2>1
  <2> HIDE DEF q
  <2>4. q = r
    BY <2>2, <2>3
  <2> QED
    BY <2>4 DEF q, r, p
<1> QED BY <1>1, <1>2, <1>3, <1>4, <1>5, <1>6

\* r is q, or q with one message outside S read or added.
Untouched(q, r, S) ==
  \/ r = q
  \/ q # <<>> /\ Head(q) \notin S /\ r = Tail(q)
  \/ \E m \in Messages : m \notin S /\ r = Append(q, m)

\* ... which the subsequence of S does not notice.
LEMMA AmongUntouched ==
  ASSUME NEW q \in Seq(Messages), NEW r, NEW S, NEW P \in Seq(Messages),
         Among(q, S, P), Untouched(q, r, S)
  PROVE  Among(r, S, P)
<1>1. CASE q # <<>> /\ Head(q) \notin S /\ r = Tail(q)
  BY <1>1, AmongTail
<1>2. ASSUME NEW m \in Messages, m \notin S, r = Append(q, m) PROVE Among(r, S, P)
  BY <1>2, AmongAppend
<1> QED
  BY <1>1, <1>2 DEF Untouched

\* One side of option o: c names its optcodes, "ask" and "drop" of the client,
\* "grant" and "deny" of the server.  on is the server's flag, view the client's,
\* req and over its requests not answered and given up, sent the server's flags
\* of what it has sent; P and Q are the messages of this side on their way to
\* the server and to the client.  The phases, in order: untouched, but for a
\* request on its way; granted or offered, the grant on its way; on for the
\* client, which may have accepted an offer; given up by the client; denied
\* by the server after that; and, of an option it does not know, refused.
Phase(c, o, on, view, req, over, sent, P, Q) ==
  LET ask == <<c.ask, o>>    drop == <<c.drop, o>>
      grant == <<c.grant, o>> deny == <<c.deny, o>>
      asking == ask \in req   gone == ask \in over
      known == o \in KnownOption
      granted == c.grant \in sent   denied == c.deny \in sent
  IN
  \/ /\ ~on /\ ~view /\ ~gone /\ ~granted /\ ~denied
     /\ P = (IF asking THEN <<ask>> ELSE <<>>) /\ Q = <<>>
  \/ /\ known /\ granted /\ ~denied /\ ~gone /\ Q = <<grant>>
     /\ ~view
     /\ \/ ~on /\ P = (IF asking THEN <<ask>> ELSE <<>>)
        \/ on /\ asking /\ P = <<>>
  \/ /\ known /\ granted /\ ~denied /\ ~gone /\ Q = <<>>
     /\ view /\ ~asking
     /\ P = (IF on THEN <<>> ELSE <<ask>>)
  \/ /\ known /\ granted /\ ~denied /\ gone /\ Q = <<>>
     /\ ~view /\ ~asking
     /\ \/ on /\ P = <<drop>>
        \/ ~on /\ P \in {<<ask, drop>>, <<drop>>, <<>>}
  \/ /\ known /\ granted /\ denied /\ gone /\ Q \in {<<deny>>, <<>>}
     /\ ~view /\ ~asking /\ ~on /\ P = <<>>
  \/ /\ ~known /\ ~granted /\ denied
     /\ ~on /\ ~view /\ P = <<>>
     /\ IF asking THEN ~gone /\ Q = <<deny>> ELSE gone /\ Q = <<>>

\* The messages of one side, of the client and of the server.
Asks(c, o) == {<<c.ask, o>>, <<c.drop, o>>}
Answers(c, o) == {<<c.grant, o>>, <<c.deny, o>>}

\* One side among everything on its way: q to the server, w to the client.
Side(q, w, c, o, on, view, req, over, sent) ==
  \E P, Q \in Seq(Messages) :
    /\ Among(q, Asks(c, o), P)
    /\ Among(w, Answers(c, o), Q)
    /\ Phase(c, o, on, view, req, over, sent, P, Q)

\* What can name the optcodes of a side.
Codes == {c \in [ask : OptCode, drop : OptCode, grant : OptCode, deny : OptCode] :
           c.ask # c.drop /\ c.grant # c.deny}

\* send_telnet_option with complete writes: op is said once.
Sends(w, w2, sent, sent2, op, o) ==
  IF op \in sent THEN w2 = w /\ sent2 = sent
                 ELSE w2 = Append(w, <<op, o>>) /\ sent2 = sent \union {op}

\* A step about something else leaves the side in its phase.
LEMMA SideUntouched ==
  ASSUME NEW q \in Seq(Messages), NEW w \in Seq(Messages), NEW c \in Codes, NEW o \in AllOption,
         NEW on, NEW view, NEW req, NEW over, NEW sent,
         Side(q, w, c, o, on, view, req, over, sent),
         NEW q2, Untouched(q, q2, Asks(c, o)), NEW w2, Untouched(w, w2, Answers(c, o)),
         NEW req2, <<c.ask, o>> \in req2 <=> <<c.ask, o>> \in req,
         NEW over2, <<c.ask, o>> \in over2 <=> <<c.ask, o>> \in over,
         NEW sent2, c.grant \in sent2 <=> c.grant \in sent, c.deny \in sent2 <=> c.deny \in sent
  PROVE  Side(q2, w2, c, o, on, view, req2, over2, sent2)
<1>1. PICK P, Q \in Seq(Messages) :
        /\ Among(q, Asks(c, o), P)
        /\ Among(w, Answers(c, o), Q)
        /\ Phase(c, o, on, view, req, over, sent, P, Q)
  BY DEF Side
<1>2. Among(q2, Asks(c, o), P) /\ Among(w2, Answers(c, o), Q)
  BY <1>1, AmongUntouched
<1>3. Phase(c, o, on, view, req2, over2, sent2, P, Q)
  BY <1>1 DEF Phase
<1> QED
  BY <1>1, <1>2, <1>3 DEF Side

\* telnet_init() offers what it has not yet said.
LEMMA SideOffered ==
  ASSUME NEW q \in Seq(Messages), NEW w \in Seq(Messages), NEW c \in Codes, NEW o \in KnownOption, o \in AllOption,
         NEW on \in BOOLEAN, NEW view \in BOOLEAN, NEW req, NEW over, NEW sent,
         Side(q, w, c, o, on, view, req, over, sent),
         NEW w2, NEW sent2, Sends(w, w2, sent, sent2, c.grant, o)
  PROVE  Side(q, w2, c, o, on, view, req, over, sent2)
<1>1. PICK P, Q \in Seq(Messages) :
        /\ Among(q, Asks(c, o), P)
        /\ Among(w, Answers(c, o), Q)
        /\ Phase(c, o, on, view, req, over, sent, P, Q)
  BY DEF Side
<1>2. CASE c.grant \in sent
  BY <1>2 DEF Sends
<1>3. CASE c.grant \notin sent
  <2>1. w2 = Append(w, <<c.grant, o>>) /\ sent2 = sent \union {c.grant}
    BY <1>3 DEF Sends
  <2>2. <<c.grant, o>> \in Messages /\ <<c.grant, o>> \in Answers(c, o)
    BY DEF Messages, Answers, Codes
  <2>3. Among(w2, Answers(c, o), Append(Q, <<c.grant, o>>)) /\ Append(Q, <<c.grant, o>>) \in Seq(Messages)
    BY <1>1, <2>1, <2>2, AmongAppend
  <2>4. Phase(c, o, on, view, req, over, sent2, P, Append(Q, <<c.grant, o>>))
    BY <1>1, <1>3, <2>1, Short DEF Phase, Codes
  <2> QED
    BY <1>1, <2>3, <2>4 DEF Side
<1> QED
  BY <1>2, <1>3

\* The server reads a message of this side: it is the first of the side's own.
LEMMA SideHead ==
  ASSUME NEW q \in Seq(Messages), NEW w \in Seq(Messages), NEW c \in Codes, NEW o \in AllOption,
         NEW on, NEW view, NEW req, NEW over, NEW sent,
         Side(q, w, c, o, on, view, req, over, sent), q # <<>>,
         Head(q) \in Asks(c, o)
  PROVE  \E P, Q \in Seq(Messages) :
           /\ Among(w, Answers(c, o), Q)
           /\ Phase(c, o, on, view, req, over, sent, P, Q)
           /\ P # <<>> /\ Head(P) = Head(q)
           /\ Tail(P) \in Seq(Messages) /\ Among(Tail(q), Asks(c, o), Tail(P))
<1>1. PICK P, Q \in Seq(Messages) :
        /\ Among(q, Asks(c, o), P)
        /\ Among(w, Answers(c, o), Q)
        /\ Phase(c, o, on, view, req, over, sent, P, Q)
  BY DEF Side
<1>2. P # <<>> /\ Head(P) = Head(q) /\ Among(Tail(q), Asks(c, o), Tail(P))
  BY <1>1, AmongTail
<1>3. Tail(P) \in Seq(Messages)
  BY <1>2
<1> QED
  BY <1>1, <1>2, <1>3

\* ... and an answer becomes the last word of the side.
LEMMA SideAnswers ==
  ASSUME NEW w \in Seq(Messages), NEW c \in Codes, NEW o \in AllOption,
         NEW Q \in Seq(Messages), Among(w, Answers(c, o), Q), NEW op \in {c.grant, c.deny}
  PROVE  /\ Among(Append(w, <<op, o>>), Answers(c, o), Append(Q, <<op, o>>))
         /\ Append(Q, <<op, o>>) \in Seq(Messages)
<1>1. <<op, o>> \in Messages /\ <<op, o>> \in Answers(c, o)
  BY DEF Answers, Messages, Codes
<1> QED
  BY <1>1, AmongAppend

\* A request for a known option comes while the option is off.
LEMMA SideAskedOff ==
  ASSUME NEW q \in Seq(Messages), NEW w \in Seq(Messages), NEW c \in Codes, NEW o \in AllOption,
         NEW on \in BOOLEAN, NEW view \in BOOLEAN, NEW req, NEW over, NEW sent,
         Side(q, w, c, o, on, view, req, over, sent), q # <<>>,
         Head(q) = <<c.ask, o>>, o \in KnownOption
  PROVE  on = FALSE
<1>0. Head(q) \in Asks(c, o)
  BY DEF Asks
<1>1. PICK P, Q \in Seq(Messages) :
        /\ Among(w, Answers(c, o), Q)
        /\ Phase(c, o, on, view, req, over, sent, P, Q)
        /\ P # <<>> /\ Head(P) = Head(q)
        /\ Tail(P) \in Seq(Messages) /\ Among(Tail(q), Asks(c, o), Tail(P))
  BY <1>0, SideHead
<1>2. <<c.ask, o>> # <<c.drop, o>> /\ c.grant # c.deny
  BY DEF Codes
<1> QED
  BY <1>1, <1>2, Short DEF Phase

\* It is granted, and the grant is on its way already or goes out now.
LEMMA SideGrants ==
  ASSUME NEW q \in Seq(Messages), NEW w \in Seq(Messages), NEW c \in Codes, NEW o \in AllOption,
         NEW on \in BOOLEAN, NEW view \in BOOLEAN, NEW req, NEW over, NEW sent,
         Side(q, w, c, o, on, view, req, over, sent), q # <<>>,
         Head(q) = <<c.ask, o>>, o \in KnownOption,
         NEW w2, NEW sent2, Sends(w, w2, sent, sent2, c.grant, o), NEW on2, on2 = TRUE
  PROVE  Side(Tail(q), w2, c, o, on2, view, req, over, sent2)
<1>0. Head(q) \in Asks(c, o)
  BY DEF Asks
<1>1. PICK P, Q \in Seq(Messages) :
        /\ Among(w, Answers(c, o), Q)
        /\ Phase(c, o, on, view, req, over, sent, P, Q)
        /\ P # <<>> /\ Head(P) = Head(q)
        /\ Tail(P) \in Seq(Messages) /\ Among(Tail(q), Asks(c, o), Tail(P))
  BY <1>0, SideHead
<1>2. <<c.ask, o>> # <<c.drop, o>> /\ c.grant # c.deny
  BY DEF Codes
<1>3. on = FALSE
  BY SideAskedOff
<1>4. ASSUME c.grant \in sent
      PROVE  Side(Tail(q), w2, c, o, on2, view, req, over, sent2)
  <2>1. w2 = w /\ sent2 = sent
    BY <1>4 DEF Sends
  <2>2. \/ P = <<<<c.ask, o>>>> /\ Tail(P) = <<>>
        \/ P = <<<<c.ask, o>>, <<c.drop, o>>>> /\ Tail(P) = <<<<c.drop, o>>>>
    <3>1. P \in {<<>>, <<<<c.ask, o>>>>, <<<<c.drop, o>>>>, <<<<c.ask, o>>, <<c.drop, o>>>>}
      BY <1>1 DEF Phase
    <3>2. /\ Head(<<<<c.drop, o>>>>) = <<c.drop, o>> /\ Tail(<<<<c.ask, o>>>>) = <<>>
          /\ Tail(<<<<c.ask, o>>, <<c.drop, o>>>>) = <<<<c.drop, o>>>>
      BY Short
    <3>3. P # <<>> /\ P # <<<<c.drop, o>>>>
      BY <1>1, <1>2, <3>2
    <3> QED
      BY <3>1, <3>2, <3>3
  <2>3. Phase(c, o, on2, view, req, over, sent, Tail(P), Q)
    <3>1. CASE P = <<<<c.ask, o>>>> /\ Tail(P) = <<>>
      BY <1>1, <1>2, <1>4, <3>1 DEF Phase
    <3>2. CASE P = <<<<c.ask, o>>, <<c.drop, o>>>> /\ Tail(P) = <<<<c.drop, o>>>>
      BY <1>1, <1>2, <1>4, <3>2 DEF Phase
    <3> QED
      BY <2>2, <3>1, <3>2
  <2> QED
    BY <1>1, <2>1, <2>3 DEF Side
<1>5. ASSUME c.grant \notin sent
      PROVE  Side(Tail(q), w2, c, o, on2, view, req, over, sent2)
  <2>1. /\ w2 = Append(w, <<c.grant, o>>) /\ sent2 = sent \union {c.grant}
        /\ c.grant \in sent2 /\ (c.deny \in sent2 <=> c.deny \in sent)
    BY <1>2, <1>5 DEF Sends
  <2>2. Phase(c, o, on2, view, req, over, sent2, Tail(P), Append(Q, <<c.grant, o>>))
    <3>1. /\ view = FALSE /\ <<c.ask, o>> \notin over /\ c.deny \notin sent
          /\ P \in {<<>>, <<<<c.ask, o>>>>} /\ (P # <<>> => <<c.ask, o>> \in req) /\ Q = <<>>
      BY <1>1, <1>5 DEF Phase
    <3>2. Tail(<<<<c.ask, o>>>>) = <<>> /\ Append(<<>>, <<c.grant, o>>) = <<<<c.grant, o>>>>
      BY Short
    <3>3. Tail(P) = <<>> /\ <<c.ask, o>> \in req /\ Append(Q, <<c.grant, o>>) = <<<<c.grant, o>>>>
      BY <1>1, <3>1, <3>2
    <3> QED
      BY <1>5, <2>1, <3>1, <3>3 DEF Phase
  <2>3. /\ Among(w2, Answers(c, o), Append(Q, <<c.grant, o>>))
        /\ Append(Q, <<c.grant, o>>) \in Seq(Messages)
    BY <1>1, <2>1, SideAnswers
  <2> QED
    BY <1>1, <2>2, <2>3 DEF Side
<1> QED
  BY <1>3, <1>4, <1>5

\* A request for an option the server does not know is refused, once.
LEMMA SideRefuses ==
  ASSUME NEW q \in Seq(Messages), NEW w \in Seq(Messages), NEW c \in Codes, NEW o \in AllOption,
         NEW on \in BOOLEAN, NEW view \in BOOLEAN, NEW req, NEW over, NEW sent,
         Side(q, w, c, o, on, view, req, over, sent), q # <<>>,
         Head(q) = <<c.ask, o>>, o \notin KnownOption
  PROVE  \A w2, sent2 : Sends(w, w2, sent, sent2, c.deny, o) =>
           Side(Tail(q), w2, c, o, on, view, req, over, sent2)
<1>0. Head(q) \in Asks(c, o)
  BY DEF Asks
<1>1. PICK P, Q \in Seq(Messages) :
        /\ Among(w, Answers(c, o), Q)
        /\ Phase(c, o, on, view, req, over, sent, P, Q)
        /\ P # <<>> /\ Head(P) = Head(q)
        /\ Tail(P) \in Seq(Messages) /\ Among(Tail(q), Asks(c, o), Tail(P))
  BY <1>0, SideHead
<1>2. <<c.ask, o>> # <<c.drop, o>> /\ c.grant # c.deny
  BY DEF Codes
<1>3. /\ on = FALSE /\ view = FALSE /\ <<c.ask, o>> \notin over
      /\ c.grant \notin sent /\ c.deny \notin sent
      /\ P = <<<<c.ask, o>>>> /\ <<c.ask, o>> \in req /\ Q = <<>>
  BY <1>1 DEF Phase
<1>4. /\ Tail(P) = <<>> /\ Append(Q, <<c.deny, o>>) = <<<<c.deny, o>>>>
  BY <1>3, Short
<1>5. ASSUME NEW w2, NEW sent2, Sends(w, w2, sent, sent2, c.deny, o)
      PROVE  Side(Tail(q), w2, c, o, on, view, req, over, sent2)
  <2>1. /\ w2 = Append(w, <<c.deny, o>>) /\ c.deny \in sent2 /\ c.grant \notin sent2
    BY <1>2, <1>3, <1>5 DEF Sends
  <2>2. Phase(c, o, on, view, req, over, sent2, Tail(P), Append(Q, <<c.deny, o>>))
    BY <1>3, <1>4, <2>1 DEF Phase
  <2>3. /\ Among(w2, Answers(c, o), Append(Q, <<c.deny, o>>))
        /\ Append(Q, <<c.deny, o>>) \in Seq(Messages)
    BY <1>1, <2>1, SideAnswers
  <2> QED
    BY <1>1, <2>2, <2>3 DEF Side
<1> QED
  BY <1>5

\* A withdrawal is about an option the server knows, has granted and has not
\* denied; nothing else of the side is on its way.
LEMMA SideWithdrawn ==
  ASSUME NEW q \in Seq(Messages), NEW w \in Seq(Messages), NEW c \in Codes, NEW o \in AllOption,
         NEW on, NEW view, NEW req, NEW over, NEW sent,
         Side(q, w, c, o, on, view, req, over, sent), q # <<>>,
         Head(q) = <<c.drop, o>>
  PROVE  /\ o \in KnownOption
         /\ \E P, Q \in Seq(Messages) :
              /\ Among(w, Answers(c, o), Q) /\ Q = <<>>
              /\ Among(Tail(q), Asks(c, o), Tail(P)) /\ Tail(P) = <<>>
         /\ c.grant \in sent /\ c.deny \notin sent /\ <<c.ask, o>> \in over
         /\ <<c.ask, o>> \notin req /\ ~view
<1>0. Head(q) \in Asks(c, o)
  BY DEF Asks
<1>1. PICK P, Q \in Seq(Messages) :
        /\ Among(w, Answers(c, o), Q)
        /\ Phase(c, o, on, view, req, over, sent, P, Q)
        /\ P # <<>> /\ Head(P) = Head(q)
        /\ Tail(P) \in Seq(Messages) /\ Among(Tail(q), Asks(c, o), Tail(P))
  BY <1>0, SideHead
<1>2. <<c.ask, o>> # <<c.drop, o>> /\ c.grant # c.deny
  BY DEF Codes
<1>3. P = <<<<c.drop, o>>>> /\ Tail(P) = <<>>
  <2>1. P \in {<<>>, <<<<c.ask, o>>>>, <<<<c.drop, o>>>>, <<<<c.ask, o>>, <<c.drop, o>>>>}
    BY <1>1 DEF Phase
  <2>2. /\ Head(<<<<c.ask, o>>>>) = <<c.ask, o>>
        /\ Head(<<<<c.ask, o>>, <<c.drop, o>>>>) = <<c.ask, o>>
        /\ Tail(<<<<c.drop, o>>>>) = <<>>
    BY Short
  <2>3. P # <<>> /\ P # <<<<c.ask, o>>>> /\ P # <<<<c.ask, o>>, <<c.drop, o>>>>
    BY <1>1, <1>2, <2>2
  <2> QED
    BY <2>1, <2>2, <2>3
<1>4. /\ P # <<>> /\ P # <<<<c.ask, o>>>>
  BY <1>1, <1>2, <1>3, Short
<1>5. /\ o \in KnownOption /\ c.grant \in sent /\ c.deny \notin sent /\ <<c.ask, o>> \in over
      /\ <<c.ask, o>> \notin req /\ ~view /\ Q = <<>>
  BY <1>1, <1>4 DEF Phase
<1> QED
  BY <1>1, <1>3, <1>5

\* It is ignored when the option is off, ...
LEMMA SideIgnores ==
  ASSUME NEW q \in Seq(Messages), NEW w \in Seq(Messages), NEW c \in Codes, NEW o \in AllOption,
         NEW on \in BOOLEAN, NEW view \in BOOLEAN, NEW req, NEW over, NEW sent,
         Side(q, w, c, o, on, view, req, over, sent), q # <<>>,
         Head(q) = <<c.drop, o>>, on = FALSE
  PROVE  Side(Tail(q), w, c, o, on, view, req, over, sent)
<1>1. PICK P, Q \in Seq(Messages) :
        /\ Among(w, Answers(c, o), Q) /\ Q = <<>>
        /\ Among(Tail(q), Asks(c, o), Tail(P)) /\ Tail(P) = <<>>
  BY SideWithdrawn
<1>2. /\ o \in KnownOption /\ c.grant \in sent /\ c.deny \notin sent /\ <<c.ask, o>> \in over
      /\ <<c.ask, o>> \notin req /\ ~view
  BY SideWithdrawn
<1>3. Phase(c, o, on, view, req, over, sent, Tail(P), Q)
  BY <1>1, <1>2 DEF Phase
<1>4. Tail(P) \in Seq(Messages)
  BY <1>1
<1> QED
  BY <1>1, <1>3, <1>4 DEF Side

\* ... and acknowledged when it is on.
LEMMA SideWithdraws ==
  ASSUME NEW q \in Seq(Messages), NEW w \in Seq(Messages), NEW c \in Codes, NEW o \in AllOption,
         NEW on \in BOOLEAN, NEW view \in BOOLEAN, NEW req, NEW over, NEW sent,
         Side(q, w, c, o, on, view, req, over, sent), q # <<>>,
         Head(q) = <<c.drop, o>>,
         NEW w2, NEW sent2, Sends(w, w2, sent, sent2, c.deny, o), NEW on2, on2 = FALSE
  PROVE  Side(Tail(q), w2, c, o, on2, view, req, over, sent2)
<1>1. PICK P, Q \in Seq(Messages) :
        /\ Among(w, Answers(c, o), Q) /\ Q = <<>>
        /\ Among(Tail(q), Asks(c, o), Tail(P)) /\ Tail(P) = <<>>
  BY SideWithdrawn
<1>2. /\ o \in KnownOption /\ c.grant \in sent /\ c.deny \notin sent /\ <<c.ask, o>> \in over
      /\ <<c.ask, o>> \notin req /\ ~view
  BY SideWithdrawn
<1>3. /\ w2 = Append(w, <<c.deny, o>>) /\ c.deny \in sent2 /\ c.grant \in sent2
  BY <1>2 DEF Sends
<1>4. Append(Q, <<c.deny, o>>) = <<<<c.deny, o>>>>
  BY <1>1, Short
<1>5. Phase(c, o, on2, view, req, over, sent2, Tail(P), Append(Q, <<c.deny, o>>))
  BY <1>1, <1>2, <1>3, <1>4 DEF Phase
<1>6. /\ Among(w2, Answers(c, o), Append(Q, <<c.deny, o>>))
      /\ Append(Q, <<c.deny, o>>) \in Seq(Messages)
  BY <1>1, <1>3, SideAnswers
<1>7. Tail(P) \in Seq(Messages)
  BY <1>1
<1> QED
  BY <1>1, <1>5, <1>6, <1>7 DEF Side

\* What the client says becomes the last of the side's own messages.
LEMMA SideSays ==
  ASSUME NEW q \in Seq(Messages), NEW c \in Codes, NEW o \in AllOption,
         NEW P \in Seq(Messages), Among(q, Asks(c, o), P), NEW op \in {c.ask, c.drop}
  PROVE  /\ Among(Append(q, <<op, o>>), Asks(c, o), Append(P, <<op, o>>))
         /\ Append(P, <<op, o>>) \in Seq(Messages) /\ Append(q, <<op, o>>) \in Seq(Messages)
<1>1. <<op, o>> \in Messages /\ <<op, o>> \in Asks(c, o)
  BY DEF Asks, Messages, Codes
<1> QED
  BY <1>1, AmongAppend

\* The client asks for what is off and was not asked for, nor given up.
LEMMA SideAsks ==
  ASSUME NEW q \in Seq(Messages), NEW w \in Seq(Messages), NEW c \in Codes, NEW o \in AllOption,
         NEW on \in BOOLEAN, NEW view, NEW req, NEW over, NEW sent,
         Side(q, w, c, o, on, view, req, over, sent),
         ~view, <<c.ask, o>> \notin req, <<c.ask, o>> \notin over,
         NEW req2, <<c.ask, o>> \in req2
  PROVE  Side(Append(q, <<c.ask, o>>), w, c, o, on, view, req2, over, sent)
<1>1. PICK P, Q \in Seq(Messages) :
        /\ Among(q, Asks(c, o), P)
        /\ Among(w, Answers(c, o), Q)
        /\ Phase(c, o, on, view, req, over, sent, P, Q)
  BY DEF Side
<1>2. Append(<<>>, <<c.ask, o>>) = <<<<c.ask, o>>>>
  BY Short
<1>3. Phase(c, o, on, view, req2, over, sent, Append(P, <<c.ask, o>>), Q)
  BY <1>1, <1>2 DEF Phase
<1> QED
  BY <1>1, <1>3, SideSays DEF Side

\* The client gives up what is on.
LEMMA SideGivesUp ==
  ASSUME NEW q \in Seq(Messages), NEW w \in Seq(Messages), NEW c \in Codes, NEW o \in AllOption,
         NEW on \in BOOLEAN, NEW view, NEW req, NEW over, NEW sent,
         Side(q, w, c, o, on, view, req, over, sent),
         view, NEW view2, ~view2, NEW over2, <<c.ask, o>> \in over2
  PROVE  Side(Append(q, <<c.drop, o>>), w, c, o, on, view2, req, over2, sent)
<1>1. PICK P, Q \in Seq(Messages) :
        /\ Among(q, Asks(c, o), P)
        /\ Among(w, Answers(c, o), Q)
        /\ Phase(c, o, on, view, req, over, sent, P, Q)
  BY DEF Side
<1>2. /\ o \in KnownOption /\ c.grant \in sent /\ c.deny \notin sent /\ Q = <<>>
      /\ <<c.ask, o>> \notin req
      /\ IF on THEN P = <<>> ELSE P = <<<<c.ask, o>>>>
  BY <1>1 DEF Phase
<1>3. /\ Append(<<>>, <<c.drop, o>>) = <<<<c.drop, o>>>>
      /\ Append(<<<<c.ask, o>>>>, <<c.drop, o>>) = <<<<c.ask, o>>, <<c.drop, o>>>>
  BY Short
<1>4. Phase(c, o, on, view2, req, over2, sent, Append(P, <<c.drop, o>>), Q)
  BY <1>2, <1>3 DEF Phase
<1> QED
  BY <1>1, <1>4, SideSays DEF Side

\* The client reads a word of this side: it is the only one on its way.
LEMMA SideWord ==
  ASSUME NEW q \in Seq(Messages), NEW w \in Seq(Messages), NEW c \in Codes, NEW o \in AllOption,
         NEW on, NEW view, NEW req, NEW over, NEW sent,
         Side(q, w, c, o, on, view, req, over, sent),
         w # <<>>, Head(w) \in Answers(c, o)
  PROVE  \E P \in Seq(Messages) :
           /\ Among(q, Asks(c, o), P)
           /\ Phase(c, o, on, view, req, over, sent, P, <<Head(w)>>)
           /\ Among(Tail(w), Answers(c, o), <<>>)
<1>1. PICK P, Q \in Seq(Messages) :
        /\ Among(q, Asks(c, o), P)
        /\ Among(w, Answers(c, o), Q)
        /\ Phase(c, o, on, view, req, over, sent, P, Q)
  BY DEF Side
<1>2. Q # <<>> /\ Head(Q) = Head(w) /\ Among(Tail(w), Answers(c, o), Tail(Q))
  BY <1>1, AmongTail
<1>3. Q = <<Head(w)>> /\ Tail(Q) = <<>>
  <2>1. Q \in {<<>>, <<<<c.grant, o>>>>, <<<<c.deny, o>>>>}
    BY <1>1 DEF Phase
  <2>2. /\ Head(<<<<c.grant, o>>>>) = <<c.grant, o>> /\ Tail(<<<<c.grant, o>>>>) = <<>>
        /\ Head(<<<<c.deny, o>>>>) = <<c.deny, o>> /\ Tail(<<<<c.deny, o>>>>) = <<>>
    BY Short
  <2> QED
    BY <1>2, <2>1, <2>2
<1> QED
  BY <1>1, <1>2, <1>3

\* ... and it finds the side off, as the client sees it.
LEMMA SideOff ==
  ASSUME NEW q \in Seq(Messages), NEW w \in Seq(Messages), NEW c \in Codes, NEW o \in AllOption,
         NEW on, NEW view, NEW req, NEW over, NEW sent,
         Side(q, w, c, o, on, view, req, over, sent),
         w # <<>>, Head(w) \in Answers(c, o), view
  PROVE  FALSE
<1>1. PICK P \in Seq(Messages) : Phase(c, o, on, view, req, over, sent, P, <<Head(w)>>)
  BY SideWord
<1>2. <<Head(w)>> # <<>>
  OBVIOUS
<1> QED
  BY <1>1, <1>2 DEF Phase

\* The grant finds its option off; whether it answers a request or is an offer,
\* the server has not denied the option.
LEMMA SideGranted ==
  ASSUME NEW q \in Seq(Messages), NEW w \in Seq(Messages), NEW c \in Codes, NEW o \in AllOption,
         NEW on, NEW view, NEW req, NEW over, NEW sent,
         Side(q, w, c, o, on, view, req, over, sent),
         w # <<>>, Head(w) = <<c.grant, o>>
  PROVE  /\ ~view
         /\ o \in KnownOption /\ c.grant \in sent /\ c.deny \notin sent /\ <<c.ask, o>> \notin over
         /\ \E P \in Seq(Messages) :
              /\ Among(q, Asks(c, o), P) /\ Among(Tail(w), Answers(c, o), <<>>)
              /\ \/ ~on /\ P = (IF <<c.ask, o>> \in req THEN <<<<c.ask, o>>>> ELSE <<>>)
                 \/ on /\ <<c.ask, o>> \in req /\ P = <<>>
<1>0. Head(w) \in Answers(c, o)
  BY DEF Answers
<1>1. PICK P \in Seq(Messages) :
        /\ Among(q, Asks(c, o), P)
        /\ Phase(c, o, on, view, req, over, sent, P, <<Head(w)>>)
        /\ Among(Tail(w), Answers(c, o), <<>>)
  BY <1>0, SideWord
<1>2. <<Head(w)>> = <<<<c.grant, o>>>> /\ <<Head(w)>> # <<<<c.deny, o>>>> /\ <<Head(w)>> # <<>>
  BY DEF Codes
<1> QED
  BY <1>1, <1>2 DEF Phase

\* A denial answers a request, or finds the option given up.
LEMMA SideDenied ==
  ASSUME NEW q \in Seq(Messages), NEW w \in Seq(Messages), NEW c \in Codes, NEW o \in AllOption,
         NEW on, NEW view, NEW req, NEW over, NEW sent,
         Side(q, w, c, o, on, view, req, over, sent),
         w # <<>>, Head(w) = <<c.deny, o>>
  PROVE  /\ ~view /\ ~on /\ c.deny \in sent
         /\ Among(q, Asks(c, o), <<>>) /\ Among(Tail(w), Answers(c, o), <<>>)
         /\ IF <<c.ask, o>> \in req THEN o \notin KnownOption /\ c.grant \notin sent
                                    ELSE o \in KnownOption /\ c.grant \in sent /\ <<c.ask, o>> \in over
<1>0. Head(w) \in Answers(c, o)
  BY DEF Answers
<1>1. PICK P \in Seq(Messages) :
        /\ Among(q, Asks(c, o), P)
        /\ Phase(c, o, on, view, req, over, sent, P, <<Head(w)>>)
        /\ Among(Tail(w), Answers(c, o), <<>>)
  BY <1>0, SideWord
<1>2. <<Head(w)>> = <<<<c.deny, o>>>> /\ <<Head(w)>> # <<<<c.grant, o>>>> /\ <<Head(w)>> # <<>>
  BY DEF Codes
<1> QED
  BY <1>1, <1>2 DEF Phase

\* The grant of a request.
LEMMA SideLearnsGrant ==
  ASSUME NEW q \in Seq(Messages), NEW w \in Seq(Messages), NEW c \in Codes, NEW o \in AllOption,
         NEW on \in BOOLEAN, NEW view, NEW req, NEW over, NEW sent,
         Side(q, w, c, o, on, view, req, over, sent), w # <<>>,
         Head(w) = <<c.grant, o>>, <<c.ask, o>> \in req,
         NEW view2, view2, NEW req2, <<c.ask, o>> \notin req2
  PROVE  Side(q, Tail(w), c, o, on, view2, req2, over, sent)
<1>1. PICK P \in Seq(Messages) :
        /\ Among(q, Asks(c, o), P) /\ Among(Tail(w), Answers(c, o), <<>>)
        /\ \/ ~on /\ P = (IF <<c.ask, o>> \in req THEN <<<<c.ask, o>>>> ELSE <<>>)
           \/ on /\ <<c.ask, o>> \in req /\ P = <<>>
  BY SideGranted
<1>2. ~view /\ o \in KnownOption /\ c.grant \in sent /\ c.deny \notin sent /\ <<c.ask, o>> \notin over
  BY SideGranted
<1>3. <<>> \in Seq(Messages)
  OBVIOUS
<1>4. Phase(c, o, on, view2, req2, over, sent, P, <<>>)
  BY <1>1, <1>2 DEF Phase
<1> QED
  BY <1>1, <1>3, <1>4 DEF Side

\* An offer that is accepted: the client asks for what is granted already.
LEMMA SideAccepts ==
  ASSUME NEW q \in Seq(Messages), NEW w \in Seq(Messages), NEW c \in Codes, NEW o \in AllOption,
         NEW on \in BOOLEAN, NEW view, NEW req, NEW over, NEW sent,
         Side(q, w, c, o, on, view, req, over, sent), w # <<>>,
         Head(w) = <<c.grant, o>>, <<c.ask, o>> \notin req, NEW view2, view2
  PROVE  Side(Append(q, <<c.ask, o>>), Tail(w), c, o, on, view2, req, over, sent)
<1>1. PICK P \in Seq(Messages) :
        /\ Among(q, Asks(c, o), P) /\ Among(Tail(w), Answers(c, o), <<>>)
        /\ \/ ~on /\ P = (IF <<c.ask, o>> \in req THEN <<<<c.ask, o>>>> ELSE <<>>)
           \/ on /\ <<c.ask, o>> \in req /\ P = <<>>
  BY SideGranted
<1>2. ~view /\ o \in KnownOption /\ c.grant \in sent /\ c.deny \notin sent /\ <<c.ask, o>> \notin over
  BY SideGranted
<1>3. <<>> \in Seq(Messages)
  OBVIOUS
<1>4. Append(P, <<c.ask, o>>) = <<<<c.ask, o>>>>
  BY <1>1, Short
<1>5. Phase(c, o, on, view2, req, over, sent, Append(P, <<c.ask, o>>), <<>>)
  BY <1>1, <1>2, <1>4 DEF Phase
<1> QED
  BY <1>1, <1>3, <1>5, SideSays DEF Side

\* The client may decline an offer: it gives the option up.
LEMMA SideDeclines ==
  ASSUME NEW q \in Seq(Messages), NEW w \in Seq(Messages), NEW c \in Codes, NEW o \in AllOption,
         NEW on \in BOOLEAN, NEW view, NEW req, NEW over, NEW sent,
         Side(q, w, c, o, on, view, req, over, sent), w # <<>>,
         Head(w) = <<c.grant, o>>, <<c.ask, o>> \notin req,
         NEW view2, ~view2, NEW over2, <<c.ask, o>> \in over2
  PROVE  Side(Append(q, <<c.drop, o>>), Tail(w), c, o, on, view2, req, over2, sent)
<1>1. PICK P \in Seq(Messages) :
        /\ Among(q, Asks(c, o), P) /\ Among(Tail(w), Answers(c, o), <<>>)
        /\ \/ ~on /\ P = (IF <<c.ask, o>> \in req THEN <<<<c.ask, o>>>> ELSE <<>>)
           \/ on /\ <<c.ask, o>> \in req /\ P = <<>>
  BY SideGranted
<1>2. ~view /\ o \in KnownOption /\ c.grant \in sent /\ c.deny \notin sent /\ <<c.ask, o>> \notin over
  BY SideGranted
<1>3. <<>> \in Seq(Messages)
  OBVIOUS
<1>4. Append(P, <<c.drop, o>>) = <<<<c.drop, o>>>>
  BY <1>1, Short
<1>5. Phase(c, o, on, view2, req, over2, sent, Append(P, <<c.drop, o>>), <<>>)
  BY <1>1, <1>2, <1>4 DEF Phase
<1> QED
  BY <1>1, <1>3, <1>5, SideSays DEF Side

\* The denial of a request.
LEMMA SideLearnsDenial ==
  ASSUME NEW q \in Seq(Messages), NEW w \in Seq(Messages), NEW c \in Codes, NEW o \in AllOption,
         NEW on \in BOOLEAN, NEW view, NEW req, NEW over, NEW sent,
         Side(q, w, c, o, on, view, req, over, sent), w # <<>>,
         Head(w) = <<c.deny, o>>, <<c.ask, o>> \in req,
         NEW view2, ~view2, NEW req2, <<c.ask, o>> \notin req2, NEW over2, <<c.ask, o>> \in over2
  PROVE  Side(q, Tail(w), c, o, on, view2, req2, over2, sent)
<1>1. /\ ~on /\ c.deny \in sent /\ o \notin KnownOption /\ c.grant \notin sent
      /\ Among(q, Asks(c, o), <<>>) /\ Among(Tail(w), Answers(c, o), <<>>)
  BY SideDenied
<1>2. Phase(c, o, on, view2, req2, over2, sent, <<>>, <<>>)
  BY <1>1 DEF Phase
<1>3. <<>> \in Seq(Messages)
  OBVIOUS
<1> QED
  BY <1>1, <1>2, <1>3 DEF Side

\* The acknowledgement of a withdrawal.
LEMMA SideAcknowledged ==
  ASSUME NEW q \in Seq(Messages), NEW w \in Seq(Messages), NEW c \in Codes, NEW o \in AllOption,
         NEW on \in BOOLEAN, NEW view, NEW req, NEW over, NEW sent,
         Side(q, w, c, o, on, view, req, over, sent), w # <<>>,
         Head(w) = <<c.deny, o>>, <<c.ask, o>> \notin req
  PROVE  Side(q, Tail(w), c, o, on, view, req, over, sent)
<1>1. /\ ~view /\ ~on /\ c.deny \in sent
      /\ Among(q, Asks(c, o), <<>>) /\ Among(Tail(w), Answers(c, o), <<>>)
      /\ o \in KnownOption /\ c.grant \in sent /\ <<c.ask, o>> \in over
  BY SideDenied
<1>2. Phase(c, o, on, view, req, over, sent, <<>>, <<>>)
  BY <1>1 DEF Phase
<1>3. <<>> \in Seq(Messages)
  OBVIOUS
<1> QED
  BY <1>1, <1>2, <1>3 DEF Side

\* With nothing on its way the two ends agree, and nothing waits for an answer.
LEMMA SideSettled ==
  ASSUME NEW c, NEW o, NEW on \in BOOLEAN, NEW view \in BOOLEAN, NEW req, NEW over, NEW sent,
         Side(<<>>, <<>>, c, o, on, view, req, over, sent)
  PROVE  on = view /\ <<c.ask, o>> \notin req
<1>1. PICK P, Q \in Seq(Messages) :
        /\ Among(<<>>, Asks(c, o), P)
        /\ Among(<<>>, Answers(c, o), Q)
        /\ Phase(c, o, on, view, req, over, sent, P, Q)
  BY DEF Side
<1>2. P = <<>> /\ Q = <<>>
  BY <1>1, AmongEmpty
<1> QED
  BY <1>1, <1>2, Short DEF Phase

ClientCodes == [ask |-> WILL, drop |-> WONT, grant |-> DO, deny |-> DONT]
ServerCodes == [ask |-> DO, drop |-> DONT, grant |-> WILL, deny |-> WONT]
Sides == {ClientCodes, ServerCodes}

\* The flag of a side at each end.
On(c) == IF c.ask = WILL THEN client ELSE server
View(c) == IF c.ask = WILL THEN us ELSE him

\* The bytes are option strings, IAC optcode option, that say the words.
Framed(bytes, words) ==
  /\ Len(bytes) = 3 * Len(words)
  /\ \A k \in 1..Len(words) : <<bytes[3 * k - 1], bytes[3 * k]>> = words[k]

\* No bytes say nothing.
LEMMA FramedEmpty ==
  ASSUME NEW words \in Seq(Messages), Framed(<<>>, words)
  PROVE  words = <<>>
BY DEF Framed

\* An option string says one word more.
LEMMA FramedAppend ==
  ASSUME NEW bytes \in Seq(Byte), NEW words \in Seq(Messages), Framed(bytes, words),
         NEW op \in Byte, NEW opt \in Byte, <<op, opt>> \in Messages
  PROVE  /\ bytes \o <<IAC, op, opt>> \in Seq(Byte)
         /\ Framed(bytes \o <<IAC, op, opt>>, Append(words, <<op, opt>>))
<1> DEFINE s == <<IAC, op, opt>>
<1>0. s \in Seq(Byte) /\ Len(s) = 3 /\ s[2] = op /\ s[3] = opt
  BY DEF IAC, Byte
<1> HIDE DEF s
<1>1. /\ bytes \o s \in Seq(Byte) /\ Len(bytes \o s) = Len(bytes) + 3
      /\ \A i \in 1..(Len(bytes) + 3) :
           (bytes \o s)[i] = IF i <= Len(bytes) THEN bytes[i] ELSE s[i - Len(bytes)]
  <2>1. /\ bytes \o s \in Seq(Byte) /\ Len(bytes \o s) = Len(bytes) + Len(s)
        /\ \A i \in 1..(Len(bytes) + Len(s)) :
             (bytes \o s)[i] = IF i <= Len(bytes) THEN bytes[i] ELSE s[i - Len(bytes)]
    BY <1>0, ConcatProperties, Zenon
  <2> QED
    BY <1>0, <2>1
<1>2. /\ Len(Append(words, <<op, opt>>)) = Len(words) + 1
      /\ \A k \in 1..Len(words) : Append(words, <<op, opt>>)[k] = words[k]
      /\ Append(words, <<op, opt>>)[Len(words) + 1] = <<op, opt>>
  OBVIOUS
<1>3. Len(words) \in Nat /\ Len(bytes) = 3 * Len(words)
  BY DEF Framed
<1>4. ASSUME NEW k \in 1..(Len(words) + 1)
      PROVE  <<(bytes \o s)[3 * k - 1], (bytes \o s)[3 * k]>> = Append(words, <<op, opt>>)[k]
  <2>1. CASE k \in 1..Len(words)
    <3>1. /\ 3 * k - 1 \in 1..(Len(bytes) + 3) /\ 3 * k \in 1..(Len(bytes) + 3)
          /\ 3 * k - 1 <= Len(bytes) /\ 3 * k <= Len(bytes)
      BY <1>3, <2>1
    <3>2. (bytes \o s)[3 * k - 1] = bytes[3 * k - 1] /\ (bytes \o s)[3 * k] = bytes[3 * k]
      BY <1>1, <3>1
    <3> QED
      BY <1>2, <2>1, <3>2 DEF Framed
  <2>2. CASE k = Len(words) + 1
    <3>1. /\ 3 * k - 1 = Len(bytes) + 2 /\ 3 * k = Len(bytes) + 3 /\ Len(bytes) \in Nat
      BY <1>3, <2>2
    <3>2. (bytes \o s)[Len(bytes) + 2] = s[2] /\ (bytes \o s)[Len(bytes) + 3] = s[3]
      BY <1>1, <3>1
    <3> QED
      BY <1>0, <1>2, <2>2, <3>1, <3>2
  <2>3. k \in 1..Len(words) \/ k = Len(words) + 1
    BY <1>3
  <2> QED
    BY <2>1, <2>2, <2>3
<1>5. Len(bytes \o s) = 3 * (Len(words) + 1)
  BY <1>1, <1>3
<1>6. Framed(bytes \o s, Append(words, <<op, opt>>))
  BY <1>2, <1>4, <1>5 DEF Framed
<1> QED
  BY <1>1, <1>6 DEF s

\* The first three bytes say the first word.
LEMMA FramedTail ==
  ASSUME NEW bytes \in Seq(Byte), NEW words \in Seq(Messages), Framed(bytes, words), Len(bytes) >= 3
  PROVE  /\ words # <<>> /\ Head(words) = <<bytes[2], bytes[3]>>
         /\ Tail(words) \in Seq(Messages)
         /\ SubSeq(bytes, 4, Len(bytes)) \in Seq(Byte)
         /\ Framed(SubSeq(bytes, 4, Len(bytes)), Tail(words))
<1> DEFINE rest == SubSeq(bytes, 4, Len(bytes))
<1>1. Len(words) \in Nat \ {0} /\ Len(bytes) = 3 * Len(words) /\ Len(bytes) \in Nat
  BY DEF Framed
<1>2. /\ words # <<>> /\ Head(words) = words[1] /\ Tail(words) \in Seq(Messages)
      /\ Len(Tail(words)) = Len(words) - 1
      /\ \A k \in 1..(Len(words) - 1) : Tail(words)[k] = words[k + 1]
  BY <1>1
<1>3. <<bytes[3 * 1 - 1], bytes[3 * 1]>> = words[1]
  BY <1>1 DEF Framed
<1>4. /\ rest \in Seq(Byte) /\ Len(rest) = Len(bytes) - 3
      /\ \A i \in 1..(Len(bytes) - 3) : rest[i] = bytes[i + 3]
  BY <1>1
<1> HIDE DEF rest
<1>5. ASSUME NEW k \in 1..(Len(words) - 1)
      PROVE  <<rest[3 * k - 1], rest[3 * k]>> = Tail(words)[k]
  <2>1. k + 1 \in 1..Len(words) /\ 3 * (k + 1) - 1 = 3 * k - 1 + 3 /\ 3 * (k + 1) = 3 * k + 3
        /\ 3 * k - 1 \in 1..(Len(bytes) - 3) /\ 3 * k \in 1..(Len(bytes) - 3)
    BY <1>1
  <2>2. <<bytes[3 * (k + 1) - 1], bytes[3 * (k + 1)]>> = words[k + 1]
    BY <2>1 DEF Framed
  <2>3. rest[3 * k - 1] = bytes[3 * k - 1 + 3] /\ rest[3 * k] = bytes[3 * k + 3]
    BY <1>4, <2>1
  <2> QED
    BY <1>2, <2>1, <2>2, <2>3
<1>6. Len(rest) = 3 * (Len(words) - 1)
  BY <1>1, <1>4
<1>7. Framed(rest, Tail(words))
  BY <1>1, <1>2, <1>5, <1>6 DEF Framed
<1> QED
  BY <1>2, <1>3, <1>4, <1>7 DEF rest

\* The two sides have their optcodes and flags apart.
LEMMA SideCodes ==
  /\ ClientCodes \in Codes /\ ServerCodes \in Codes
  /\ \A c \in Sides : /\ c \in Codes
                      /\ c.ask \in {WILL, DO} /\ c.drop \in {WONT, DONT}
                      /\ c.grant \in {WILL, DO} /\ c.deny \in {WONT, DONT}
  /\ \A c, d \in Sides : c # d =>
       /\ c.ask # d.ask /\ c.drop # d.drop /\ c.grant # d.grant /\ c.deny # d.deny
       /\ (On(c) = client /\ On(d) = server) \/ (On(c) = server /\ On(d) = client)
<1>1. ClientCodes \in Codes /\ ServerCodes \in Codes
  BY DEF ClientCodes, ServerCodes, Codes, OptCode, WILL, WONT, DO, DONT
<1>2. /\ ClientCodes.ask = WILL /\ ClientCodes.drop = WONT
      /\ ClientCodes.grant = DO /\ ClientCodes.deny = DONT
      /\ ServerCodes.ask = DO /\ ServerCodes.drop = DONT
      /\ ServerCodes.grant = WILL /\ ServerCodes.deny = WONT
  BY DEF ClientCodes, ServerCodes
<1>3. WILL # DO /\ WONT # DONT
  BY DEF WILL, WONT, DO, DONT
<1>4. ASSUME NEW c \in Sides, NEW d \in Sides, c # d
      PROVE  /\ c.ask # d.ask /\ c.drop # d.drop /\ c.grant # d.grant /\ c.deny # d.deny
             /\ (On(c) = client /\ On(d) = server) \/ (On(c) = server /\ On(d) = client)
  <2>0. On(ClientCodes) = client /\ On(ServerCodes) = server
    BY <1>2, <1>3 DEF On
  <2>1. CASE c = ClientCodes /\ d = ServerCodes
    <3>1. c.ask # d.ask /\ c.drop # d.drop /\ c.grant # d.grant /\ c.deny # d.deny
      BY <1>2, <1>3, <2>1
    <3> QED
      BY <2>0, <2>1, <3>1
  <2>2. CASE c = ServerCodes /\ d = ClientCodes
    <3>1. c.ask # d.ask /\ c.drop # d.drop /\ c.grant # d.grant /\ c.deny # d.deny
      BY <1>2, <1>3, <2>2
    <3> QED
      BY <2>0, <2>2, <3>1
  <2> QED
    BY <1>4, <2>1, <2>2 DEF Sides
<1>5. ASSUME NEW c \in Sides
      PROVE  /\ c \in Codes
             /\ c.ask \in {WILL, DO} /\ c.drop \in {WONT, DONT}
             /\ c.grant \in {WILL, DO} /\ c.deny \in {WONT, DONT}
  BY <1>1, <1>2 DEF Sides
<1> QED
  BY <1>1, <1>4, <1>5

\* Which side of which option a message is about.
LEMMA AboutSide ==
  ASSUME NEW c \in Sides, NEW d \in Sides, NEW o, NEW p, c # d \/ o # p
  PROVE  /\ <<c.ask, o>> \notin Asks(d, p) /\ <<c.drop, o>> \notin Asks(d, p)
         /\ <<c.grant, o>> \notin Answers(d, p) /\ <<c.deny, o>> \notin Answers(d, p)
         /\ <<c.ask, o>> # <<d.ask, p>>
<1>1. /\ c.ask \in {WILL, DO} /\ c.drop \in {WONT, DONT}
      /\ c.grant \in {WILL, DO} /\ c.deny \in {WONT, DONT}
      /\ d.ask \in {WILL, DO} /\ d.drop \in {WONT, DONT}
      /\ d.grant \in {WILL, DO} /\ d.deny \in {WONT, DONT}
  BY SideCodes
<1>2. {WILL, DO} \cap {WONT, DONT} = {}
  BY DEF WILL, WONT, DO, DONT
<1>3. CASE o # p
  BY <1>3 DEF Asks, Answers
<1>4. CASE c # d
  <2>1. c.ask # d.ask /\ c.drop # d.drop /\ c.grant # d.grant /\ c.deny # d.deny
    BY <1>4, SideCodes
  <2> QED
    BY <1>1, <1>2, <2>1 DEF Asks, Answers
<1> QED
  BY <1>3, <1>4

\* Every optcode of the client asks or drops on one side, every optcode of the
\* server grants or denies on one side.
LEMMA WhichSide ==
  ASSUME NEW op \in OptCode
  PROVE  /\ \E c \in Sides : op = c.ask \/ op = c.drop
         /\ \E c \in Sides : op = c.grant \/ op = c.deny
BY DEF OptCode, Sides, ClientCodes, ServerCodes

-----------------------------------------------------------------------------

\* Every side of every option is in one of its phases.
Exchange(words) ==
  \A c \in Sides, o \in AllOption :
    Side(toServer, words, c, o, On(c)[o], View(c)[o], asked, gaveUp, sentOpt[o])

\* The types of what the client keeps, and of the wire to it.
ClientTypes ==
  /\ us \in [AllOption -> BOOLEAN] /\ him \in [AllOption -> BOOLEAN]
  /\ toClient \in Seq(Byte)
  /\ asked \subseteq {WILL, DO} \X AllOption

\* While no write() was cut short: the wire to the client holds whole option
\* strings, and the two ends are in step on every side of every option.
InStep ==
  /\ ClientTypes
  /\ sabre.mem = <<>>
  /\ offers \in Seq({WILL, DO} \X KnownOption)
  /\ \E words \in Seq(Messages) : Framed(toClient, words) /\ Exchange(words)

\* An option string that joins an empty buffer is all there is to write.
LEMMA OptionStringWritten ==
  ASSUME IsBuffer(sabre), Linear(sabre), sabre.nbuffered = 0, sabre.mem = <<>>, NEW op, NEW opt
  PROVE  SubSeq(Active(bfstrncat(sabre, <<IAC, op, opt>>)), 1, 3) = <<IAC, op, opt>>
<1> DEFINE s == <<IAC, op, opt>>
           S == {IAC, op, opt}
           b == bfstrncat(sabre, s)
<1>1. s \in Seq(S) /\ Len(s) = 3
  OBVIOUS
<1> HIDE DEF s, S
<1>2. ASSUME NEW r \in Seq(S), Len(r) = 3 PROVE SubSeq(r, 1, 3) = r
  BY <1>2, SubSeqFull
<1>3. b = Filled(sabre, s)
  <2>1. ~(3 > Size - 0)
    BY SizeAssumption, NegotiationAssumption
  <2> QED
    BY <1>1, <1>2, <2>1 DEF bfstrncat
<1>4. sabre.readp = 0 /\ sabre.writep = 0
  BY DEF IsBuffer, Linear
<1>5. Store(<<>>, 0, s) = s
  <2>1. Store(<<>>, 0, s) = [i \in 1..3 |-> s[i]]
    BY <1>1 DEF Store
  <2>2. s = [i \in 1..3 |-> s[i]]
    BY <1>1
  <2> QED
    BY <2>1, <2>2
<1>6. b.mem = s /\ b.readp = 3 /\ b.writep = 0
  <2>1. /\ Filled(sabre, s).mem = Store(sabre.mem, sabre.readp, s)
        /\ Filled(sabre, s).readp = sabre.readp + Len(s)
        /\ Filled(sabre, s).writep = sabre.writep
    <3>1. Len(s) \in Nat
      BY <1>1
    <3> QED
      BY <3>1, FilledFields, Zenon
  <2> HIDE DEF b
  <2> QED
    BY <1>1, <1>3, <1>4, <1>5, <2>1
<1>7. Active(b) = s
  BY <1>1, <1>2, <1>6 DEF Active
<1> QED
  BY <1>1, <1>2, <1>7 DEF b, s

\* Until a write() is cut short, SendOption sends its word, unless it has been
\* sent, and nothing else.
LEMMA SendOptionSends ==
  ASSUME FlagTypes, SendInv, sabre.mem = <<>>, toClient \in Seq(Byte), cuts \in Nat, cuts' = 0,
         NEW op \in OptCode, NEW opt \in AllOption, SendOption(op, opt),
         NEW words \in Seq(Messages), Framed(toClient, words)
  PROVE  /\ sabre'.mem = <<>> /\ toClient' \in Seq(Byte)
         /\ \A o \in AllOption : o # opt => sentOpt'[o] = sentOpt[o]
         /\ \E words2 \in Seq(Messages) :
              /\ Framed(toClient', words2)
              /\ Sends(words, words2, sentOpt[opt], sentOpt'[opt], op, opt)
<1>1. CASE op \in sentOpt[opt]
  <2>1. UNCHANGED <<sentOpt, sabre, toClient>>
    BY <1>1 DEF SendOption
  <2> QED
    BY <1>1, <2>1 DEF Sends
<1>2. CASE op \notin sentOpt[opt]
  <2> DEFINE b == bfstrncat(sabre, <<IAC, op, opt>>)
  <2>1. IsBuffer(b) /\ Linear(b) /\ b.nbuffered = 3 /\ cal_numbytes_to_write(b) = 3
    BY OneOptionString DEF SendInv
  <2>0. SubSeq(Active(b), 1, 3) = <<IAC, op, opt>>
    BY OptionStringWritten DEF SendInv
  <2>2. PICK n \in 0..cal_numbytes_to_write(b) :
          /\ IF n < cal_numbytes_to_write(b) THEN cuts < MaxCuts /\ cuts' = cuts + 1
                                             ELSE UNCHANGED cuts
          /\ toClient' = toClient \o SubSeq(Active(b), 1, n)
          /\ sabre' = IF n > 0 THEN buffer_writepointer_position(b, n) ELSE b
          /\ sentOpt' = IF n >= 3 THEN [sentOpt EXCEPT ![opt] = @ \union {op}] ELSE sentOpt
    BY <1>2, Zenon DEF SendOption, mark_telnet_option_as_sent
  <2> HIDE DEF b
  <2>3. n = 3
    BY <2>1, <2>2
  <2>4. sabre'.mem = <<>>
    BY <2>1, <2>2, <2>3, WritePointerLinear, InitLinear, SMTT(40)
  <2>5. toClient' = toClient \o <<IAC, op, opt>>
    BY <2>0, <2>2, <2>3
  <2>6. sentOpt' = [sentOpt EXCEPT ![opt] = @ \union {op}]
    BY <2>2, <2>3
  <2>7. op \in Byte /\ opt \in Byte /\ <<op, opt>> \in Messages
    BY NegotiationAssumption
    DEF OptCode, WILL, WONT, DO, DONT, Byte, AllOption, KnownOption, Messages, TELOPT_BINARY,
        TELOPT_ECHO, TELOPT_SGA, TELOPT_LOGOUT, TELOPT_COM_PORT_OPTION
  <2>8. toClient' \in Seq(Byte) /\ Framed(toClient', Append(words, <<op, opt>>))
    BY <2>5, <2>7, FramedAppend
  <2>9. Sends(words, Append(words, <<op, opt>>), sentOpt[opt], sentOpt'[opt], op, opt)
    BY <1>2, <2>6 DEF Sends, FlagTypes
  <2>10. \A o \in AllOption : o # opt => sentOpt'[o] = sentOpt[o]
    BY <2>6 DEF FlagTypes
  <2>11. Append(words, <<op, opt>>) \in Seq(Messages)
    BY <2>7
  <2> QED
    BY <2>4, <2>8, <2>9, <2>10, <2>11, Zenon
<1> QED
  BY <1>1, <1>2

\* ... which no other side of no other option notices.
LEMMA SendsElsewhere ==
  ASSUME NEW words \in Seq(Messages), NEW words2, NEW sent, NEW sent2, NEW op \in OptCode,
         NEW opt \in AllOption, Sends(words, words2, sent, sent2, op, opt),
         NEW c \in Sides, NEW o \in AllOption, <<op, opt>> \notin Answers(c, o)
  PROVE  /\ Untouched(words, words2, Answers(c, o))
         /\ o = opt => /\ c.grant \in sent2 <=> c.grant \in sent
                       /\ c.deny \in sent2 <=> c.deny \in sent
<1>1. <<op, opt>> \in Messages
  BY DEF Messages
<1>2. CASE op \in sent
  BY <1>2 DEF Sends, Untouched
<1>3. CASE op \notin sent
  BY <1>1, <1>3 DEF Sends, Untouched, Answers
<1> QED
  BY <1>2, <1>3

-----------------------------------------------------------------------------
(* The steps of the server *)

\* A side of an option that a step does not touch keeps its phase.
LEMMA SideKept ==
  ASSUME FlagTypes, ClientTypes, NEW words \in Seq(Messages), Exchange(words),
         NEW c \in Sides, NEW o \in AllOption,
         Untouched(toServer, toServer', Asks(c, o)),
         NEW words2, Untouched(words, words2, Answers(c, o)),
         On(c)'[o] = On(c)[o], View(c)'[o] = View(c)[o],
         <<c.ask, o>> \in asked' <=> <<c.ask, o>> \in asked,
         <<c.ask, o>> \in gaveUp' <=> <<c.ask, o>> \in gaveUp,
         c.grant \in sentOpt'[o] <=> c.grant \in sentOpt[o],
         c.deny \in sentOpt'[o] <=> c.deny \in sentOpt[o]
  PROVE  Side(toServer', words2, c, o, On(c)'[o], View(c)'[o], asked', gaveUp', sentOpt'[o])
<1>1. Side(toServer, words, c, o, On(c)[o], View(c)[o], asked, gaveUp, sentOpt[o])
  BY DEF Exchange
<1>2. toServer \in Seq(Messages) /\ c \in Codes
  BY SideCodes DEF FlagTypes, Messages
<1>3. Side(toServer', words2, c, o, On(c)[o], View(c)[o], asked', gaveUp', sentOpt'[o])
  BY <1>1, <1>2, SideUntouched
<1> QED
  BY <1>3

\* What sending an option string for side c of opt leaves alone.
LEMMA SendsKeeps ==
  ASSUME FlagTypes, ClientTypes, UNCHANGED clientVars,
         NEW words \in Seq(Messages), Exchange(words),
         NEW c \in Sides, NEW op \in {c.grant, c.deny}, NEW opt \in AllOption,
         NEW words2 \in Seq(Messages), Sends(words, words2, sentOpt[opt], sentOpt'[opt], op, opt),
         \A o \in AllOption : o # opt => sentOpt'[o] = sentOpt[o],
         NEW d \in Sides, NEW p \in AllOption, d # c \/ p # opt,
         On(d)'[p] = On(d)[p], Untouched(toServer, toServer', Asks(d, p))
  PROVE  Side(toServer', words2, d, p, On(d)'[p], View(d)'[p], asked', gaveUp', sentOpt'[p])
<1>1. op \in OptCode /\ <<op, opt>> \notin Answers(d, p)
  BY SideCodes, AboutSide DEF Codes
<1>2. /\ Untouched(words, words2, Answers(d, p))
      /\ p = opt => /\ d.grant \in sentOpt'[opt] <=> d.grant \in sentOpt[opt]
                    /\ d.deny \in sentOpt'[opt] <=> d.deny \in sentOpt[opt]
  BY <1>1, SendsElsewhere
<1>3. /\ d.grant \in sentOpt'[p] <=> d.grant \in sentOpt[p]
      /\ d.deny \in sentOpt'[p] <=> d.deny \in sentOpt[p]
  BY <1>2
<1>4. View(d)'[p] = View(d)[p] /\ asked' = asked /\ gaveUp' = gaveUp
  BY DEF clientVars, View
<1> QED
  BY <1>2, <1>3, <1>4, SideKept

\* The four cases of respond_telnet_option for an option the server knows, side
\* by side.
LEMMA RespondKnownSide ==
  ASSUME FlagTypes, NEW c \in Sides, NEW op, NEW opt \in AllOption,
         respond_known_telnet_option(op, opt)
  PROVE  /\ op = c.ask /\ On(c)[opt] = FALSE =>
              /\ SendOption(c.grant, opt)
              /\ On(c)' = [On(c) EXCEPT ![opt] = TRUE]
              /\ \A d \in Sides : d # c => On(d)' = On(d)
         /\ op = c.drop /\ On(c)[opt] = TRUE =>
              /\ SendOption(c.deny, opt)
              /\ On(c)' = [On(c) EXCEPT ![opt] = FALSE]
              /\ \A d \in Sides : d # c => On(d)' = On(d)
         /\ op = c.drop /\ On(c)[opt] = FALSE =>
              UNCHANGED <<sentOpt, client, server, sabre, toClient>>
<1>1. /\ ClientCodes.ask = WILL /\ ClientCodes.drop = WONT
      /\ ClientCodes.grant = DO /\ ClientCodes.deny = DONT
      /\ ServerCodes.ask = DO /\ ServerCodes.drop = DONT
      /\ ServerCodes.grant = WILL /\ ServerCodes.deny = WONT
  BY DEF ClientCodes, ServerCodes
<1>2. /\ WILL # DO /\ WILL # WONT /\ WILL # DONT /\ WONT # DO /\ WONT # DONT /\ DO # DONT
  BY DEF WILL, WONT, DO, DONT
<1>3. /\ On(ClientCodes) = client /\ On(ServerCodes) = server
      /\ On(ClientCodes)' = client' /\ On(ServerCodes)' = server'
  BY <1>1, <1>2 DEF On
<1>4. CASE c = ClientCodes
  <2>1. op = WILL => ClientSide(opt, DO, TRUE, "BINARY")
    BY <1>2 DEF respond_known_telnet_option
  <2>2. op = WONT => ClientSide(opt, DONT, FALSE, "ASCII")
    BY <1>2 DEF respond_known_telnet_option
  <2>3. \A d \in Sides : d # c => d = ServerCodes
    BY <1>4 DEF Sides
  <2>4. op = WILL /\ client[opt] = FALSE =>
          SendOption(DO, opt) /\ client' = [client EXCEPT ![opt] = TRUE] /\ server' = server
    BY <2>1 DEF ClientSide
  <2>5. op = WONT /\ client[opt] = TRUE =>
          SendOption(DONT, opt) /\ client' = [client EXCEPT ![opt] = FALSE] /\ server' = server
    BY <2>2 DEF ClientSide
  <2>6. op = WONT /\ client[opt] = FALSE => UNCHANGED <<sentOpt, client, server, sabre, toClient>>
    BY <2>2 DEF ClientSide, optionVars
  <2> QED
    BY <1>1, <1>3, <1>4, <2>3, <2>4, <2>5, <2>6
<1>5. CASE c = ServerCodes
  <2>1. op = DO => ServerSide(opt, WILL, TRUE, "BINARY")
    BY <1>2 DEF respond_known_telnet_option
  <2>2. op = DONT => ServerSide(opt, WONT, FALSE, "ASCII")
    BY <1>2 DEF respond_known_telnet_option
  <2>3. \A d \in Sides : d # c => d = ClientCodes
    BY <1>5 DEF Sides
  <2>4. op = DO /\ server[opt] = FALSE =>
          SendOption(WILL, opt) /\ server' = [server EXCEPT ![opt] = TRUE] /\ client' = client
    BY <2>1 DEF ServerSide
  <2>5. op = DONT /\ server[opt] = TRUE =>
          SendOption(WONT, opt) /\ server' = [server EXCEPT ![opt] = FALSE] /\ client' = client
    BY <2>2 DEF ServerSide
  <2>6. op = DONT /\ server[opt] = FALSE => UNCHANGED <<sentOpt, client, server, sabre, toClient>>
    BY <2>2 DEF ServerSide, optionVars
  <2> QED
    BY <1>1, <1>3, <1>5, <2>3, <2>4, <2>5, <2>6
<1> QED
  BY <1>4, <1>5 DEF Sides

\* An offer is sent, unless the client's request has been granted.
LEMMA SentOfferKeeps ==
  ASSUME ModeInv, SendEnabledInv, InStep, cuts \in Nat, cuts' = 0,
         NEW op, NEW opt, op \in {WILL, DO}, opt \in KnownOption, SendOption(op, opt),
         offers' \in Seq({WILL, DO} \X KnownOption),
         UNCHANGED <<client, server, toServer>>, UNCHANGED clientVars
  PROVE  InStep'
<1>1. opt \in AllOption
  BY DEF AllOption
<1>2. UNCHANGED <<client, server, toServer>> /\ UNCHANGED clientVars
  OBVIOUS
<1>3. PICK c \in Sides : op = c.grant
  BY <1>1 DEF Sides, ClientCodes, ServerCodes
<1>4. PICK words \in Seq(Messages) : Framed(toClient, words) /\ Exchange(words)
  BY DEF InStep
<1>5. op \in OptCode /\ op \in {c.grant, c.deny} /\ c \in Codes /\ FlagTypes /\ ClientTypes
      /\ toServer \in Seq(Messages)
  BY <1>1, <1>3, SideCodes DEF OptCode, ModeInv, InStep, FlagTypes, Messages
<1>6. /\ sabre'.mem = <<>> /\ toClient' \in Seq(Byte)
      /\ \A o \in AllOption : o # opt => sentOpt'[o] = sentOpt[o]
      /\ \E words2 \in Seq(Messages) :
           /\ Framed(toClient', words2)
           /\ Sends(words, words2, sentOpt[opt], sentOpt'[opt], op, opt)
  BY <1>1, <1>2, <1>4, <1>5, SendOptionSends DEF SendEnabledInv, InStep, ClientTypes
<1>7. PICK words2 \in Seq(Messages) :
        /\ Framed(toClient', words2)
        /\ Sends(words, words2, sentOpt[opt], sentOpt'[opt], op, opt)
  BY <1>6
<1>8. Exchange(words2)'
  <2> SUFFICES ASSUME NEW d \in Sides, NEW p \in AllOption
               PROVE  Side(toServer', words2, d, p, On(d)'[p], View(d)'[p], asked', gaveUp', sentOpt'[p])
    BY DEF Exchange
  <2>1. On(d)'[p] = On(d)[p] /\ Untouched(toServer, toServer', Asks(d, p))
    BY <1>2 DEF On, Untouched
  <2>2. CASE d # c \/ p # opt
    <3>1. op \in {c.grant, c.deny} /\ Exchange(words) /\ FlagTypes /\ ClientTypes
      BY <1>4, <1>5
    <3>2. Sends(words, words2, sentOpt[opt], sentOpt'[opt], op, opt)
      BY <1>7
    <3>3. \A o \in AllOption : o # opt => sentOpt'[o] = sentOpt[o]
      BY <1>6
    <3>4. UNCHANGED clientVars
      BY <1>2
    <3> QED
      BY <1>1, <2>1, <2>2, <3>1, <3>2, <3>3, <3>4, SendsKeeps
  <2>3. CASE d = c /\ p = opt
    <3>1. Side(toServer, words, c, opt, On(c)[opt], View(c)[opt], asked, gaveUp, sentOpt[opt])
      BY <1>1, <1>4 DEF Exchange
    <3>2. On(c)[opt] \in BOOLEAN /\ View(c)[opt] \in BOOLEAN
      BY <1>1, <1>5 DEF On, View, FlagTypes, ClientTypes
    <3>3. Side(toServer, words2, c, opt, On(c)[opt], View(c)[opt], asked, gaveUp, sentOpt'[opt])
      BY <1>1, <1>3, <1>5, <1>7, <3>1, <3>2, SideOffered
    <3>4. View(c)'[opt] = View(c)[opt] /\ asked' = asked /\ gaveUp' = gaveUp /\ toServer' = toServer
      BY <1>2 DEF clientVars, View
    <3> QED
      BY <2>1, <2>3, <3>3, <3>4
  <2> QED
    BY <2>2, <2>3
<1> QED
  BY <1>1, <1>2, <1>5, <1>6, <1>7, <1>8 DEF InStep, ClientTypes, clientVars

\* telnet_init() sends its next offer.
LEMMA OfferKeeps ==
  ASSUME ModeInv, SendEnabledInv, InStep, cuts \in Nat, cuts' = 0,
         SendInitialOffer, UNCHANGED clientVars
  PROVE  InStep'
<1>1. offers # <<>>
  BY DEF SendInitialOffer
<1>2. Head(offers) \in {WILL, DO} \X KnownOption /\ Tail(offers) \in Seq({WILL, DO} \X KnownOption)
  BY <1>1 DEF InStep
<1>3. Head(offers)[1] \in {WILL, DO} /\ Head(offers)[2] \in KnownOption
  BY <1>2
<1>4. /\ SendOption(Head(offers)[1], Head(offers)[2]) /\ offers' = Tail(offers)
      /\ UNCHANGED <<client, server, toServer>>
  BY DEF SendInitialOffer
<1> QED
  BY <1>2, <1>3, <1>4, SentOfferKeeps

\* An idle session asks for the logout.
LEMMA LogoutKeeps ==
  ASSUME ModeInv, SendEnabledInv, InStep, cuts \in Nat, cuts' = 0,
         IdleLogout, UNCHANGED clientVars
  PROVE  InStep'
<1>1. SendOption(DO, TELOPT_LOGOUT) /\ UNCHANGED <<offers, client, server, toServer>>
  BY DEF IdleLogout
<1>2. offers' \in Seq({WILL, DO} \X KnownOption)
  BY <1>1 DEF InStep
<1> QED
  BY <1>1, <1>2, LogoutIsKnown, SentOfferKeeps

\* The server answers the message at the head of its queue.
LEMMA AnswerKeeps ==
  ASSUME ModeInv, SendEnabledInv, InStep, cuts \in Nat, cuts' = 0,
         RespondOption, UNCHANGED clientVars
  PROVE  InStep'
<1> DEFINE op == Head(toServer)[1]
           opt == Head(toServer)[2]
<1>1. /\ op \in OptCode /\ opt \in AllOption /\ toServer # <<>>
      /\ Head(toServer) = <<op, opt>> /\ toServer \in Seq(Messages)
  BY HeadOfMessages DEF RespondOption, ModeInv, FlagTypes, Messages
<1>2. /\ toServer' = Tail(toServer) /\ offers' = offers
      /\ opt \in KnownOption => respond_known_telnet_option(op, opt)
      /\ opt \notin KnownOption => RefuseUnknown(op, opt)
  BY DEF RespondOption
<1> HIDE DEF op, opt
<1>3. PICK c \in Sides : op = c.ask \/ op = c.drop
  BY <1>1, WhichSide
<1>4. PICK words \in Seq(Messages) : Framed(toClient, words) /\ Exchange(words)
  BY DEF InStep
<1>5. c \in Codes /\ FlagTypes /\ ClientTypes /\ On(c)[opt] \in BOOLEAN /\ View(c)[opt] \in BOOLEAN
      /\ c.grant \in OptCode /\ c.deny \in OptCode
  BY <1>1, SideCodes DEF ModeInv, InStep, FlagTypes, ClientTypes, On, View, Codes
<1>6. Side(toServer, words, c, opt, On(c)[opt], View(c)[opt], asked, gaveUp, sentOpt[opt])
  BY <1>1, <1>4 DEF Exchange
<1>7. ASSUME NEW d \in Sides, NEW p \in AllOption, d # c \/ p # opt
      PROVE  Untouched(toServer, toServer', Asks(d, p))
  BY <1>1, <1>2, <1>3, <1>7, AboutSide DEF Untouched
<1>8. View(c)'[opt] = View(c)[opt] /\ asked' = asked /\ gaveUp' = gaveUp /\ us' = us /\ him' = him
  BY DEF clientVars, View
\* A step that sends an option string, and what is left to show for it.
<1>9. ASSUME NEW answer \in {c.grant, c.deny}, SendOption(answer, opt),
             \A d \in Sides, p \in AllOption : d # c \/ p # opt => On(d)'[p] = On(d)[p],
             \A words2, sent2 : Sends(words, words2, sentOpt[opt], sent2, answer, opt) =>
               Side(Tail(toServer), words2, c, opt, On(c)'[opt], View(c)[opt], asked, gaveUp, sent2)
      PROVE  InStep'
  <2>1. answer \in OptCode
    BY <1>5, <1>9
  <2>2. /\ sabre'.mem = <<>> /\ toClient' \in Seq(Byte)
        /\ \A o \in AllOption : o # opt => sentOpt'[o] = sentOpt[o]
        /\ \E words2 \in Seq(Messages) :
             /\ Framed(toClient', words2)
             /\ Sends(words, words2, sentOpt[opt], sentOpt'[opt], answer, opt)
    BY <1>1, <1>4, <1>5, <1>9, <2>1, SendOptionSends DEF SendEnabledInv, InStep, ClientTypes
  <2>3. PICK words2 \in Seq(Messages) :
          /\ Framed(toClient', words2)
          /\ Sends(words, words2, sentOpt[opt], sentOpt'[opt], answer, opt)
    BY <2>2
  <2>4. ASSUME NEW d \in Sides, NEW p \in AllOption
        PROVE  Side(toServer', words2, d, p, On(d)'[p], View(d)'[p], asked', gaveUp', sentOpt'[p])
    <3>1. CASE d # c \/ p # opt
      <4>1. On(d)'[p] = On(d)[p] /\ Untouched(toServer, toServer', Asks(d, p))
        BY <1>7, <1>9, <3>1
      <4> QED
        BY <1>1, <1>4, <1>5, <2>2, <2>3, <3>1, <4>1, SendsKeeps, SMTT(20)
    <3>2. CASE d = c /\ p = opt
      BY <1>2, <1>8, <1>9, <2>3, <3>2
    <3> QED
      BY <3>1, <3>2
  <2>5. Exchange(words2)'
    BY <2>4 DEF Exchange
  <2> QED
    BY <1>2, <1>5, <1>8, <2>2, <2>3, <2>5 DEF InStep, ClientTypes
<1>10. CASE op = c.ask /\ opt \in KnownOption
  <2>0. Head(toServer) = <<c.ask, opt>> /\ opt \in KnownOption
    BY <1>1, <1>10
  <2>1. On(c)[opt] = FALSE
    BY <1>1, <1>5, <1>6, <2>0, SideAskedOff
  <2>4. ASSUME NEW words2, NEW sent2, NEW on2, on2 = TRUE,
               Sends(words, words2, sentOpt[opt], sent2, c.grant, opt)
        PROVE  Side(Tail(toServer), words2, c, opt, on2, View(c)[opt], asked, gaveUp, sent2)
    BY <1>1, <1>5, <1>6, <2>0, <2>4, SideGrants, Zenon
  <2>2. /\ SendOption(c.grant, opt)
        /\ On(c)' = [On(c) EXCEPT ![opt] = TRUE]
        /\ \A d \in Sides : d # c => On(d)' = On(d)
    BY <1>1, <1>2, <1>5, <1>10, <2>1, RespondKnownSide
  <2>3. On(c)'[opt] = TRUE /\ \A p \in AllOption : p # opt => On(c)'[p] = On(c)[p]
    BY <1>1, <1>5, <2>2 DEF On, FlagTypes
  <2> QED
    BY <1>9, <2>2, <2>3, <2>4
<1>11. CASE op = c.drop
  <2>0. Head(toServer) = <<c.drop, opt>>
    BY <1>1, <1>11
  <2>1. opt \in KnownOption
    BY <1>1, <1>5, <1>6, <2>0, SideWithdrawn
  <2>4. ASSUME On(c)[opt] = TRUE, NEW words2, NEW sent2, NEW on2, on2 = FALSE,
               Sends(words, words2, sentOpt[opt], sent2, c.deny, opt)
        PROVE  Side(Tail(toServer), words2, c, opt, on2, View(c)[opt], asked, gaveUp, sent2)
    BY <1>1, <1>5, <1>6, <2>0, <2>4, SideWithdraws, Zenon
  <2>5. ASSUME On(c)[opt] = FALSE
        PROVE  Side(Tail(toServer), words, c, opt, On(c)[opt], View(c)[opt], asked, gaveUp, sentOpt[opt])
    BY <1>1, <1>5, <1>6, <2>0, <2>5, SideIgnores, Zenon
  <2>2. CASE On(c)[opt] = TRUE
    <3>1. /\ SendOption(c.deny, opt)
          /\ On(c)' = [On(c) EXCEPT ![opt] = FALSE]
          /\ \A d \in Sides : d # c => On(d)' = On(d)
      BY <1>1, <1>2, <1>5, <1>11, <2>1, <2>2, RespondKnownSide
    <3>2. On(c)'[opt] = FALSE /\ \A p \in AllOption : p # opt => On(c)'[p] = On(c)[p]
      BY <1>1, <1>5, <3>1 DEF On, FlagTypes
    <3> QED
      BY <1>9, <2>2, <2>4, <3>1, <3>2
  <2>3. CASE On(c)[opt] = FALSE
    <3>1. UNCHANGED <<sentOpt, client, server, sabre, toClient>>
      BY <1>1, <1>2, <1>5, <1>11, <2>1, <2>3, RespondKnownSide
    <3>2. ASSUME NEW d \in Sides, NEW p \in AllOption
          PROVE  Side(toServer', words, d, p, On(d)'[p], View(d)'[p], asked', gaveUp', sentOpt'[p])
      <4>1. On(d)' = On(d) /\ View(d)' = View(d)
        BY <1>8, <3>1 DEF On, View
      <4>2. CASE d # c \/ p # opt
        <5>1. Untouched(words, words, Answers(d, p))
          BY DEF Untouched
        <5> QED
          BY <1>4, <1>5, <1>7, <1>8, <3>1, <4>1, <4>2, <5>1, SideKept
      <4>3. CASE d = c /\ p = opt
        BY <1>2, <1>8, <2>3, <2>5, <3>1, <4>1, <4>3
      <4> QED
        BY <4>2, <4>3
    <3>3. Exchange(words)'
      BY <3>2 DEF Exchange
    <3> QED
      BY <1>2, <1>4, <1>8, <3>1, <3>3 DEF InStep, ClientTypes
  <2> QED
    BY <1>5, <2>2, <2>3
<1>12. CASE op = c.ask /\ opt \notin KnownOption
  <2>0. Head(toServer) = <<c.ask, opt>> /\ opt \notin KnownOption
    BY <1>1, <1>12
  <2>1. \A words2, sent2 : Sends(words, words2, sentOpt[opt], sent2, c.deny, opt) =>
          Side(Tail(toServer), words2, c, opt, On(c)[opt], View(c)[opt], asked, gaveUp, sent2)
    BY <1>1, <1>5, <1>6, <2>0, SideRefuses, Zenon
  <2>2. SendOption(c.deny, opt) /\ UNCHANGED <<client, server>>
    <3>1. CASE c = ClientCodes
      BY <1>2, <1>12, <3>1 DEF RefuseUnknown, ClientCodes
    <3>2. CASE c = ServerCodes
      BY <1>2, <1>12, <3>2 DEF RefuseUnknown, ServerCodes, WILL, WONT, DO, DONT
    <3> QED
      BY <3>1, <3>2 DEF Sides
  <2>3. \A d \in Sides : On(d)' = On(d)
    BY <2>2 DEF On
  <2> QED
    BY <1>9, <2>1, <2>2, <2>3
<1> QED
  BY <1>3, <1>10, <1>11, <1>12

-----------------------------------------------------------------------------
(* The steps of the client *)

\* The client does not touch what the server keeps.
LEMMA ClientStepKeeps ==
  ASSUME ModeInv, SendEnabledInv, UNCHANGED serverVars, toServer' \in Seq(Messages)
  PROVE  ModeInv' /\ SendEnabledInv'
<1>1. UNCHANGED <<offers, sentOpt, client, server, tnmode, sabre, times>>
  BY DEF serverVars, optionVars
<1>2. FlagTypes'
  BY <1>1 DEF ModeInv, FlagTypes, Messages
<1>3. ModeFollowsBinary'
  BY <1>1 DEF ModeInv, ModeFollowsBinary
<1>4. SendInv' /\ Offered'
  BY <1>1 DEF SendEnabledInv, SendInv, Offered
<1> QED
  BY <1>2, <1>3, <1>4 DEF ModeInv, SendEnabledInv

\* Two sets that differ in m at most.
SameBut(m, S, S2) == \A x : x # m => (x \in S2 <=> x \in S)

\* What a step of the client on side c of opt leaves alone.
LEMMA ClientKeeps ==
  ASSUME FlagTypes, ClientTypes, UNCHANGED serverVars,
         NEW words \in Seq(Messages), Exchange(words),
         NEW c \in Sides, NEW opt \in AllOption,
         \/ toServer' = toServer
         \/ \E op \in {c.ask, c.drop} : toServer' = Append(toServer, <<op, opt>>),
         NEW words2,
         \/ words2 = words
         \/ words # <<>> /\ Head(words) \in Answers(c, opt) /\ words2 = Tail(words),
         SameBut(<<c.ask, opt>>, asked, asked'), SameBut(<<c.ask, opt>>, gaveUp, gaveUp'),
         NEW d \in Sides, NEW p \in AllOption, d # c \/ p # opt, View(d)'[p] = View(d)[p]
  PROVE  Side(toServer', words2, d, p, On(d)'[p], View(d)'[p], asked', gaveUp', sentOpt'[p])
<1>1. /\ c.ask \in OptCode /\ c.drop \in OptCode
      /\ <<c.ask, opt>> \notin Asks(d, p) /\ <<c.drop, opt>> \notin Asks(d, p)
      /\ <<c.grant, opt>> \notin Answers(d, p) /\ <<c.deny, opt>> \notin Answers(d, p)
      /\ <<d.ask, p>> # <<c.ask, opt>>
  BY SideCodes, AboutSide DEF Codes
<1>2. Untouched(toServer, toServer', Asks(d, p))
  BY <1>1 DEF Untouched, Messages
<1>3. Untouched(words, words2, Answers(d, p))
  BY <1>1 DEF Untouched, Answers
<1>4. On(d)'[p] = On(d)[p] /\ sentOpt' = sentOpt
  BY DEF On, serverVars, optionVars
<1>5. /\ <<d.ask, p>> \in asked' <=> <<d.ask, p>> \in asked
      /\ <<d.ask, p>> \in gaveUp' <=> <<d.ask, p>> \in gaveUp
  BY <1>1 DEF SameBut
<1> QED
  BY <1>2, <1>3, <1>4, <1>5, SideKept

\* The client asks.  That it does not ask again for what it gave up is needed
\* here: of a second request the server may know nothing, or keep an old answer.
LEMMA AskKeeps ==
  ASSUME ~Persistent, ModeInv, SendEnabledInv, InStep,
         NEW op \in OptCode, NEW opt \in Option, Ask(op, opt)
  PROVE  ModeInv' /\ SendEnabledInv' /\ InStep'
<1>1. /\ UNCHANGED <<serverVars, toClient, us, him, gaveUp>>
      /\ toServer' = Append(toServer, <<op, opt>>) /\ asked' = asked \union {<<op, opt>>}
      /\ <<op, opt>> \notin asked /\ <<op, opt>> \notin gaveUp
  BY DEF Ask, Say
<1>2. opt \in AllOption /\ FlagTypes /\ ClientTypes /\ toServer \in Seq(Messages)
  BY DEF AllOption, ModeInv, InStep, FlagTypes, Messages
<1>3. PICK c \in Sides : op = c.ask /\ ~View(c)[opt]
  <2>1. CASE op = WILL /\ ~us[opt]
    <3>1. ClientCodes \in Sides /\ ClientCodes.ask = WILL /\ View(ClientCodes) = us
      BY DEF Sides, ClientCodes, View
    <3> QED
      BY <2>1, <3>1
  <2>2. CASE op = DO /\ ~him[opt]
    <3>1. ServerCodes \in Sides /\ ServerCodes.ask = DO /\ View(ServerCodes) = him
      BY DEF Sides, ServerCodes, View, WILL, DO
    <3> QED
      BY <2>2, <3>1
  <2> QED
    BY <2>1, <2>2 DEF Ask
<1>4. PICK words \in Seq(Messages) : Framed(toClient, words) /\ Exchange(words)
  BY DEF InStep
<1>5. c \in Codes /\ On(c)[opt] \in BOOLEAN
  BY <1>2, SideCodes DEF On, FlagTypes
<1>6. UNCHANGED <<client, server, sentOpt, sabre, offers>>
  BY <1>1 DEF serverVars, optionVars
<1>7. \A d \in Sides : On(d)' = On(d) /\ View(d)' = View(d)
  BY <1>1, <1>6 DEF On, View
<1>8. ASSUME NEW d \in Sides, NEW p \in AllOption
      PROVE  Side(toServer', words, d, p, On(d)'[p], View(d)'[p], asked', gaveUp', sentOpt'[p])
  <2>1. CASE d # c \/ p # opt
    <3>1. \E o2 \in {c.ask, c.drop} : toServer' = Append(toServer, <<o2, opt>>)
      BY <1>1, <1>3
    <3>2. SameBut(<<c.ask, opt>>, asked, asked') /\ SameBut(<<c.ask, opt>>, gaveUp, gaveUp')
      BY <1>1, <1>3 DEF SameBut
    <3> QED
      BY <1>1, <1>2, <1>4, <1>7, <2>1, <3>1, <3>2, ClientKeeps
  <2>2. CASE d = c /\ p = opt
    <3>1. Side(toServer, words, c, opt, On(c)[opt], View(c)[opt], asked, gaveUp, sentOpt[opt])
      BY <1>2, <1>4 DEF Exchange
    <3>2. <<c.ask, opt>> \notin asked /\ <<c.ask, opt>> \notin gaveUp /\ <<c.ask, opt>> \in asked'
      BY <1>1, <1>3
    <3>3. Side(Append(toServer, <<c.ask, opt>>), words, c, opt, On(c)[opt], View(c)[opt],
               asked', gaveUp, sentOpt[opt])
      BY <1>2, <1>3, <1>4, <1>5, <3>1, <3>2, SideAsks, Zenon
    <3> QED
      BY <1>1, <1>3, <1>6, <1>7, <2>2, <3>3
  <2> QED
    BY <2>1, <2>2
<1>9. Exchange(words)'
  BY <1>8 DEF Exchange
<1>10. toServer' \in Seq(Messages)
  BY <1>1, <1>2 DEF Messages
<1>11. asked' \subseteq {WILL, DO} \X AllOption
  BY <1>1, <1>2, <1>3, SideCodes DEF ClientTypes
<1>12. toClient' = toClient /\ us' = us /\ him' = him
  BY <1>1
<1> QED
  BY <1>1, <1>2, <1>4, <1>6, <1>9, <1>10, <1>11, <1>12, ClientStepKeeps DEF InStep, ClientTypes

\* The client gives up what is on.
LEMMA DropKeeps ==
  ASSUME ModeInv, SendEnabledInv, InStep,
         NEW op \in OptCode, NEW opt \in Option, Drop(op, opt)
  PROVE  ModeInv' /\ SendEnabledInv' /\ InStep'
<1>1. /\ UNCHANGED <<serverVars, toClient, asked>>
      /\ toServer' = Append(toServer, <<op, opt>>)
  BY DEF Drop, Say
<1>2. opt \in AllOption /\ FlagTypes /\ ClientTypes /\ toServer \in Seq(Messages)
  BY DEF AllOption, ModeInv, InStep, FlagTypes, Messages
<1>3. PICK c \in Sides : /\ op = c.drop /\ View(c)[opt]
                         /\ View(c)' = [View(c) EXCEPT ![opt] = FALSE]
                         /\ \A d \in Sides : d # c => View(d)' = View(d)
                         /\ gaveUp' = gaveUp \union {<<c.ask, opt>>}
                         /\ us' \in [AllOption -> BOOLEAN] /\ him' \in [AllOption -> BOOLEAN]
  <2>0. /\ ClientCodes \in Sides /\ ServerCodes \in Sides
        /\ ClientCodes.ask = WILL /\ ClientCodes.drop = WONT
        /\ ServerCodes.ask = DO /\ ServerCodes.drop = DONT
        /\ View(ClientCodes) = us /\ View(ServerCodes) = him
        /\ View(ClientCodes)' = us' /\ View(ServerCodes)' = him'
        /\ \A d \in Sides : d = ClientCodes \/ d = ServerCodes
    BY DEF Sides, ClientCodes, ServerCodes, View, WILL, DO
  <2>1. CASE /\ op = WONT /\ us[opt]
             /\ us' = [us EXCEPT ![opt] = FALSE] /\ UNCHANGED him
             /\ gaveUp' = gaveUp \union {<<WILL, opt>>}
    <3>1. us' \in [AllOption -> BOOLEAN] /\ him' \in [AllOption -> BOOLEAN]
      BY <1>2, <2>1 DEF ClientTypes
    <3> QED
      BY <2>0, <2>1, <3>1
  <2>2. CASE /\ op = DONT /\ him[opt]
             /\ him' = [him EXCEPT ![opt] = FALSE] /\ UNCHANGED us
             /\ gaveUp' = gaveUp \union {<<DO, opt>>}
    <3>1. us' \in [AllOption -> BOOLEAN] /\ him' \in [AllOption -> BOOLEAN]
      BY <1>2, <2>2 DEF ClientTypes
    <3> QED
      BY <2>0, <2>2, <3>1
  <2> QED
    BY <2>1, <2>2 DEF Drop
<1>4. PICK words \in Seq(Messages) : Framed(toClient, words) /\ Exchange(words)
  BY DEF InStep
<1>5. c \in Codes /\ On(c)[opt] \in BOOLEAN
  BY <1>2, SideCodes DEF On, FlagTypes
<1>6. UNCHANGED <<client, server, sentOpt, sabre, offers>>
  BY <1>1 DEF serverVars, optionVars
<1>7. /\ \A d \in Sides : On(d)' = On(d)
      /\ ~View(c)'[opt] /\ \A p \in AllOption : p # opt => View(c)'[p] = View(c)[p]
  BY <1>2, <1>3, <1>6 DEF On, View, ClientTypes
<1>8. ASSUME NEW d \in Sides, NEW p \in AllOption
      PROVE  Side(toServer', words, d, p, On(d)'[p], View(d)'[p], asked', gaveUp', sentOpt'[p])
  <2>1. CASE d # c \/ p # opt
    <3>1. \E o2 \in {c.ask, c.drop} : toServer' = Append(toServer, <<o2, opt>>)
      BY <1>1, <1>3
    <3>2. SameBut(<<c.ask, opt>>, asked, asked') /\ SameBut(<<c.ask, opt>>, gaveUp, gaveUp')
      BY <1>1, <1>3 DEF SameBut
    <3>3. View(d)'[p] = View(d)[p]
      BY <1>3, <1>7, <2>1
    <3>4. UNCHANGED serverVars /\ FlagTypes /\ ClientTypes /\ Exchange(words)
      BY <1>1, <1>2, <1>4
    <3>5. \/ toServer' = toServer
          \/ \E o2 \in {c.ask, c.drop} : toServer' = Append(toServer, <<o2, opt>>)
      BY <3>1
    <3>6. \/ words = words
          \/ words # <<>> /\ Head(words) \in Answers(c, opt) /\ words = Tail(words)
      OBVIOUS
    <3> QED
      BY <1>2, <2>1, <3>2, <3>3, <3>4, <3>5, <3>6, ClientKeeps, ZenonT(40)
  <2>2. CASE d = c /\ p = opt
    <3>1. Side(toServer, words, c, opt, On(c)[opt], View(c)[opt], asked, gaveUp, sentOpt[opt])
      BY <1>2, <1>4 DEF Exchange
    <3>2. <<c.ask, opt>> \in gaveUp' /\ View(c)[opt] /\ ~View(c)'[opt]
      BY <1>3, <1>7
    <3>3. Side(Append(toServer, <<c.drop, opt>>), words, c, opt, On(c)[opt], View(c)'[opt],
               asked, gaveUp', sentOpt[opt])
      BY <1>2, <1>4, <1>5, <3>1, <3>2, SideGivesUp, Zenon
    <3> QED
      BY <1>1, <1>3, <1>6, <1>7, <2>2, <3>3
  <2> QED
    BY <2>1, <2>2
<1>9. Exchange(words)'
  BY <1>8 DEF Exchange
<1>10. toServer' \in Seq(Messages)
  BY <1>1, <1>2 DEF Messages
<1>11. toClient' = toClient
  BY <1>1
<1> QED
  BY <1>1, <1>2, <1>3, <1>4, <1>6, <1>9, <1>10, <1>11, ClientStepKeeps DEF InStep, ClientTypes

\* What the client makes of the server's word, side by side.
LEMMA LearnsSide ==
  ASSUME ClientTypes, ClientReads, NEW c \in Sides, NEW opt \in AllOption,
         toClient[2] \in {c.grant, c.deny}, toClient[3] = opt
  PROVE  LET mine == <<c.ask, opt>> IN
         /\ \A d \in Sides : d # c => View(d)' = View(d)
         /\ us' \in [AllOption -> BOOLEAN] /\ him' \in [AllOption -> BOOLEAN]
         /\ \A p \in AllOption : p # opt => View(c)'[p] = View(c)[p]
         /\ toClient[2] = c.grant =>
              \/ /\ mine \in asked /\ View(c)'[opt] /\ toServer' = toServer
                 /\ asked' = asked \ {mine} /\ gaveUp' = gaveUp
              \/ mine \notin asked /\ View(c)[opt]
              \/ /\ mine \notin asked /\ View(c)'[opt] /\ toServer' = Append(toServer, <<c.ask, opt>>)
                 /\ UNCHANGED <<asked, gaveUp>>
              \/ /\ mine \notin asked /\ ~View(c)'[opt] /\ toServer' = Append(toServer, <<c.drop, opt>>)
                 /\ asked' = asked /\ gaveUp' = gaveUp \union {mine}
         /\ toClient[2] = c.deny =>
              \/ /\ mine \in asked /\ ~View(c)'[opt] /\ toServer' = toServer
                 /\ asked' = asked \ {mine} /\ gaveUp' = gaveUp \union {mine}
              \/ mine \notin asked /\ ~View(c)[opt] /\ UNCHANGED <<us, him, asked, gaveUp, toServer>>
              \/ mine \notin asked /\ View(c)[opt]
<1> DEFINE op == toClient[2]
<1>0. /\ ClientCodes.ask = WILL /\ ClientCodes.drop = WONT
      /\ ClientCodes.grant = DO /\ ClientCodes.deny = DONT
      /\ ServerCodes.ask = DO /\ ServerCodes.drop = DONT
      /\ ServerCodes.grant = WILL /\ ServerCodes.deny = WONT
  BY DEF ClientCodes, ServerCodes
<1>1. /\ WILL # DO /\ WILL # WONT /\ WILL # DONT /\ WONT # DO /\ WONT # DONT /\ DO # DONT
  BY DEF WILL, WONT, DO, DONT
<1>2. /\ View(ClientCodes) = us /\ View(ServerCodes) = him
      /\ View(ClientCodes)' = us' /\ View(ServerCodes)' = him'
  BY <1>0, <1>1 DEF View
<1>3. \/ op \in {DO, DONT} /\ Learn(us, opt, op = DO, WILL, WILL, WONT) /\ UNCHANGED him
      \/ op \in {WILL, WONT} /\ Learn(him, opt, op = WILL, DO, DO, DONT) /\ UNCHANGED us
  BY DEF ClientReads
<1>4. CASE c = ClientCodes
  <2>1. op \in {DO, DONT} /\ Learn(us, opt, op = DO, WILL, WILL, WONT) /\ UNCHANGED him
    BY <1>0, <1>1, <1>3, <1>4
  <2>2. CASE op = DO
    <3>1. \/ /\ <<WILL, opt>> \in asked /\ us' = [us EXCEPT ![opt] = TRUE] /\ toServer' = toServer
             /\ asked' = asked \ {<<WILL, opt>>} /\ gaveUp' = gaveUp
          \/ <<WILL, opt>> \notin asked /\ us[opt] = TRUE /\ us' = us
          \/ /\ <<WILL, opt>> \notin asked /\ us' = [us EXCEPT ![opt] = TRUE]
             /\ toServer' = Append(toServer, <<WILL, opt>>) /\ UNCHANGED <<asked, gaveUp>>
          \/ /\ <<WILL, opt>> \notin asked /\ us' = [us EXCEPT ![opt] = FALSE]
             /\ toServer' = Append(toServer, <<WONT, opt>>)
             /\ asked' = asked /\ gaveUp' = gaveUp \union {<<WILL, opt>>}
      BY <2>1, <2>2 DEF Learn, Say
    <3>2. us' \in [AllOption -> BOOLEAN] /\ \A p \in AllOption : p # opt => us'[p] = us[p]
      BY <3>1 DEF ClientTypes
    <3> QED
      BY <1>0, <1>1, <1>2, <1>4, <2>1, <2>2, <3>1, <3>2 DEF Sides, ClientTypes
  <2>3. CASE op = DONT
    <3>1. \/ /\ <<WILL, opt>> \in asked /\ us' = [us EXCEPT ![opt] = FALSE] /\ toServer' = toServer
             /\ asked' = asked \ {<<WILL, opt>>} /\ gaveUp' = gaveUp \union {<<WILL, opt>>}
          \/ <<WILL, opt>> \notin asked /\ us[opt] = FALSE /\ UNCHANGED <<us, asked, gaveUp, toServer>>
          \/ <<WILL, opt>> \notin asked /\ us[opt] # FALSE /\ us' = [us EXCEPT ![opt] = FALSE]
      BY <1>1, <2>1, <2>3 DEF Learn, Say
    <3>2. us' \in [AllOption -> BOOLEAN] /\ \A p \in AllOption : p # opt => us'[p] = us[p]
      BY <3>1 DEF ClientTypes
    <3> QED
      BY <1>0, <1>1, <1>2, <1>4, <2>1, <2>3, <3>1, <3>2 DEF Sides, ClientTypes
  <2> QED
    BY <2>1, <2>2, <2>3
<1>5. CASE c = ServerCodes
  <2>1. op \in {WILL, WONT} /\ Learn(him, opt, op = WILL, DO, DO, DONT) /\ UNCHANGED us
    BY <1>0, <1>1, <1>3, <1>5
  <2>2. CASE op = WILL
    <3>1. \/ /\ <<DO, opt>> \in asked /\ him' = [him EXCEPT ![opt] = TRUE] /\ toServer' = toServer
             /\ asked' = asked \ {<<DO, opt>>} /\ gaveUp' = gaveUp
          \/ <<DO, opt>> \notin asked /\ him[opt] = TRUE /\ him' = him
          \/ /\ <<DO, opt>> \notin asked /\ him' = [him EXCEPT ![opt] = TRUE]
             /\ toServer' = Append(toServer, <<DO, opt>>) /\ UNCHANGED <<asked, gaveUp>>
          \/ /\ <<DO, opt>> \notin asked /\ him' = [him EXCEPT ![opt] = FALSE]
             /\ toServer' = Append(toServer, <<DONT, opt>>)
             /\ asked' = asked /\ gaveUp' = gaveUp \union {<<DO, opt>>}
      BY <2>1, <2>2 DEF Learn, Say
    <3>2. him' \in [AllOption -> BOOLEAN] /\ \A p \in AllOption : p # opt => him'[p] = him[p]
      BY <3>1 DEF ClientTypes
    <3> QED
      BY <1>0, <1>1, <1>2, <1>5, <2>1, <2>2, <3>1, <3>2 DEF Sides, ClientTypes
  <2>3. CASE op = WONT
    <3>1. \/ /\ <<DO, opt>> \in asked /\ him' = [him EXCEPT ![opt] = FALSE] /\ toServer' = toServer
             /\ asked' = asked \ {<<DO, opt>>} /\ gaveUp' = gaveUp \union {<<DO, opt>>}
          \/ <<DO, opt>> \notin asked /\ him[opt] = FALSE /\ UNCHANGED <<him, asked, gaveUp, toServer>>
          \/ <<DO, opt>> \notin asked /\ him[opt] # FALSE /\ him' = [him EXCEPT ![opt] = FALSE]
      BY <1>1, <2>1, <2>3 DEF Learn, Say
    <3>2. him' \in [AllOption -> BOOLEAN] /\ \A p \in AllOption : p # opt => him'[p] = him[p]
      BY <3>1 DEF ClientTypes
    <3> QED
      BY <1>0, <1>1, <1>2, <1>5, <2>1, <2>3, <3>1, <3>2 DEF Sides, ClientTypes
  <2> QED
    BY <2>1, <2>2, <2>3
<1> QED
  BY <1>4, <1>5 DEF Sides

\* The client reads the first word of the server.
LEMMA ReadsKeeps ==
  ASSUME ModeInv, SendEnabledInv, InStep, ClientReads
  PROVE  ModeInv' /\ SendEnabledInv' /\ InStep'
<1>1. /\ UNCHANGED serverVars /\ Len(toClient) >= 3
      /\ toClient' = SubSeq(toClient, 4, Len(toClient))
  BY DEF ClientReads
<1>2. FlagTypes /\ ClientTypes /\ toServer \in Seq(Messages) /\ toClient \in Seq(Byte)
  BY DEF ModeInv, InStep, FlagTypes, Messages, ClientTypes
<1>3. PICK words \in Seq(Messages) : Framed(toClient, words) /\ Exchange(words)
  BY DEF InStep
<1> DEFINE op == toClient[2]
           opt == toClient[3]
           words2 == Tail(words)
<1>4. /\ words # <<>> /\ Head(words) = <<op, opt>> /\ words2 \in Seq(Messages)
      /\ toClient' \in Seq(Byte) /\ Framed(toClient', words2)
  BY <1>1, <1>2, <1>3, FramedTail
<1>5. op \in OptCode /\ opt \in AllOption
  <2>1. <<op, opt>> \in Messages
    BY <1>4
  <2> QED
    BY <2>1 DEF Messages
<1>6. PICK c \in Sides : op \in {c.grant, c.deny}
  BY <1>5, WhichSide
<1> DEFINE mine == <<c.ask, opt>>
<1>7. /\ \A d \in Sides : d # c => View(d)' = View(d)
      /\ us' \in [AllOption -> BOOLEAN] /\ him' \in [AllOption -> BOOLEAN]
      /\ \A p \in AllOption : p # opt => View(c)'[p] = View(c)[p]
      /\ op = c.grant =>
           \/ /\ mine \in asked /\ View(c)'[opt] /\ toServer' = toServer
              /\ asked' = asked \ {mine} /\ gaveUp' = gaveUp
           \/ mine \notin asked /\ View(c)[opt]
           \/ /\ mine \notin asked /\ View(c)'[opt] /\ toServer' = Append(toServer, mine)
              /\ UNCHANGED <<asked, gaveUp>>
           \/ /\ mine \notin asked /\ ~View(c)'[opt] /\ toServer' = Append(toServer, <<c.drop, opt>>)
              /\ asked' = asked /\ gaveUp' = gaveUp \union {mine}
      /\ op = c.deny =>
           \/ /\ mine \in asked /\ ~View(c)'[opt] /\ toServer' = toServer
              /\ asked' = asked \ {mine} /\ gaveUp' = gaveUp \union {mine}
           \/ mine \notin asked /\ ~View(c)[opt] /\ UNCHANGED <<us, him, asked, gaveUp, toServer>>
           \/ mine \notin asked /\ View(c)[opt]
  BY <1>2, <1>5, <1>6, LearnsSide
<1>8. /\ Side(toServer, words, c, opt, On(c)[opt], View(c)[opt], asked, gaveUp, sentOpt[opt])
      /\ c \in Codes /\ On(c)[opt] \in BOOLEAN
  BY <1>2, <1>3, <1>5, SideCodes DEF Exchange, On, FlagTypes
<1> HIDE DEF op, opt, words2
<1>9. ~View(c)[opt]
  <2>1. words # <<>> /\ Head(words) \in Answers(c, opt)
    BY <1>4, <1>6 DEF Answers
  <2> QED
    BY <1>2, <1>5, <1>8, <2>1, SideOff, Zenon
<1> DEFINE After == Side(toServer', words2, c, opt, On(c)[opt], View(c)'[opt], asked', gaveUp', sentOpt[opt])
           Elsewhere == /\ toServer' \in Seq(Messages) /\ asked' \subseteq asked
                        /\ SameBut(mine, asked, asked') /\ SameBut(mine, gaveUp, gaveUp')
                        /\ \/ toServer' = toServer
                           \/ \E o2 \in {c.ask, c.drop} : toServer' = Append(toServer, <<o2, opt>>)
<1>10. ASSUME op = c.grant PROVE After /\ Elsewhere
  <2>1. Head(words) = <<c.grant, opt>>
    BY <1>4, <1>10
  <2>2. CASE /\ mine \in asked /\ View(c)'[opt] /\ toServer' = toServer
             /\ asked' = asked \ {mine} /\ gaveUp' = gaveUp
    <3>1. mine \notin asked'
      BY <2>2
    <3>2. Side(toServer, words2, c, opt, On(c)[opt], View(c)'[opt], asked', gaveUp, sentOpt[opt])
      BY <1>2, <1>4, <1>5, <1>8, <2>1, <2>2, <3>1, SideLearnsGrant, Zenon DEF words2
    <3> QED
      BY <1>2, <2>2, <3>2 DEF SameBut
  <2>3. CASE /\ mine \notin asked /\ View(c)'[opt] /\ toServer' = Append(toServer, mine)
             /\ UNCHANGED <<asked, gaveUp>>
    <3>1. Side(Append(toServer, mine), words2, c, opt, On(c)[opt], View(c)'[opt], asked, gaveUp, sentOpt[opt])
      BY <1>2, <1>4, <1>5, <1>8, <2>1, <2>3, SideAccepts, Zenon DEF words2
    <3>2. Append(toServer, mine) \in Seq(Messages)
      BY <1>2, <1>5, <1>8 DEF Messages, Codes
    <3> QED
      BY <2>3, <3>1, <3>2 DEF SameBut
  <2>4. CASE /\ mine \notin asked /\ ~View(c)'[opt] /\ toServer' = Append(toServer, <<c.drop, opt>>)
             /\ asked' = asked /\ gaveUp' = gaveUp \union {mine}
    <3>1. mine \in gaveUp'
      BY <2>4
    <3>2. Side(Append(toServer, <<c.drop, opt>>), words2, c, opt, On(c)[opt], View(c)'[opt],
               asked, gaveUp', sentOpt[opt])
      BY <1>2, <1>4, <1>5, <1>8, <2>1, <2>4, <3>1, SideDeclines, Zenon DEF words2
    <3>3. Append(toServer, <<c.drop, opt>>) \in Seq(Messages)
      BY <1>2, <1>5, <1>8 DEF Messages, Codes
    <3> QED
      BY <2>4, <3>2, <3>3 DEF SameBut
  <2> QED
    BY <1>7, <1>9, <1>10, <2>2, <2>3, <2>4
<1>11. ASSUME op = c.deny PROVE After /\ Elsewhere
  <2>1. Head(words) = <<c.deny, opt>>
    BY <1>4, <1>11
  <2>2. CASE /\ mine \in asked /\ ~View(c)'[opt] /\ toServer' = toServer
             /\ asked' = asked \ {mine} /\ gaveUp' = gaveUp \union {mine}
    <3>1. mine \notin asked' /\ mine \in gaveUp'
      BY <2>2
    <3>2. Side(toServer, words2, c, opt, On(c)[opt], View(c)'[opt], asked', gaveUp', sentOpt[opt])
      BY <1>2, <1>4, <1>5, <1>8, <2>1, <2>2, <3>1, SideLearnsDenial, Zenon DEF words2
    <3> QED
      BY <1>2, <2>2, <3>2 DEF SameBut
  <2>3. CASE mine \notin asked /\ ~View(c)[opt] /\ UNCHANGED <<us, him, asked, gaveUp, toServer>>
    <3>1. Side(toServer, words2, c, opt, On(c)[opt], View(c)[opt], asked, gaveUp, sentOpt[opt])
      BY <1>2, <1>4, <1>5, <1>8, <2>1, <2>3, SideAcknowledged, Zenon DEF words2
    <3>2. View(c)' = View(c)
      BY <2>3 DEF View
    <3> QED
      BY <1>2, <2>3, <3>1, <3>2 DEF SameBut
  <2> QED
    BY <1>7, <1>9, <1>11, <2>2, <2>3
<1>12. After /\ Elsewhere
  BY <1>6, <1>10, <1>11
<1>13. UNCHANGED <<client, server, sentOpt, sabre, offers>>
  BY <1>1 DEF serverVars, optionVars
<1>14. ASSUME NEW d \in Sides, NEW p \in AllOption
       PROVE  Side(toServer', words2, d, p, On(d)'[p], View(d)'[p], asked', gaveUp', sentOpt'[p])
  <2>1. CASE d # c \/ p # opt
    <3>1. View(d)'[p] = View(d)[p]
      BY <1>7, <2>1
    <3>2. words # <<>> /\ Head(words) \in Answers(c, opt) /\ words2 = Tail(words)
      BY <1>4, <1>6 DEF Answers, words2
    <3>3. \/ words2 = words
          \/ words # <<>> /\ Head(words) \in Answers(c, opt) /\ words2 = Tail(words)
      BY <3>2
    <3>4. /\ SameBut(<<c.ask, opt>>, asked, asked') /\ SameBut(<<c.ask, opt>>, gaveUp, gaveUp')
          /\ \/ toServer' = toServer
             \/ \E o2 \in {c.ask, c.drop} : toServer' = Append(toServer, <<o2, opt>>)
      BY <1>12
    <3> HIDE DEF After, Elsewhere
    <3> QED
      BY <1>1, <1>2, <1>3, <1>5, <2>1, <3>1, <3>3, <3>4, ClientKeeps, ZenonT(60)
  <2>2. CASE d = c /\ p = opt
    <3>1. On(d)'[p] = On(d)[p] /\ sentOpt'[p] = sentOpt[p]
      BY <1>13 DEF On
    <3> QED
      BY <1>12, <2>2, <3>1
  <2> QED
    BY <2>1, <2>2
<1>15. Exchange(words2)'
  BY <1>14 DEF Exchange
<1>16. ModeInv' /\ SendEnabledInv'
  BY <1>1, <1>12, ClientStepKeeps
<1>17. ClientTypes'
  BY <1>2, <1>4, <1>7, <1>12 DEF ClientTypes
<1> QED
  BY <1>4, <1>13, <1>15, <1>16, <1>17 DEF InStep

-----------------------------------------------------------------------------
(* The invariant of the exchange, and what it says of a quiet one *)

\* The invariant: until a write() is cut short the two ends are in step.
ClientInv == cuts \in Nat /\ (cuts = 0 => ModeInv /\ SendEnabledInv /\ InStep)

\* Before the first offer nothing has been said.
LEMMA ClientInvInit == ClientInit => ClientInv
<1> SUFFICES ASSUME ClientInit PROVE ClientInv
  OBVIOUS
<1>1. ModeInv
  BY FlagTypesInit DEF ClientInit, Init, ModeInv, ModeFollowsBinary, AllOption, KnownOption
<1>2. SendInv
  BY MallocLinear DEF ClientInit, Init, SendInv, bfmalloc, Rewound
<1>3. Offered /\ cuts \in Nat
  BY DEF ClientInit, Init, Offered
<1>4. ClientTypes /\ sabre.mem = <<>>
  BY DEF ClientInit, Init, ClientTypes, bfmalloc, Rewound
<1>5. offers \in Seq({WILL, DO} \X KnownOption)
  BY DEF ClientInit, Init, InitialOffers, KnownOption
<1>6. <<>> \in Seq(Messages) /\ Framed(toClient, <<>>)
  BY DEF ClientInit, Init, Framed
<1>7. ASSUME NEW c \in Sides, NEW o \in AllOption
      PROVE  Side(toServer, <<>>, c, o, On(c)[o], View(c)[o], asked, gaveUp, sentOpt[o])
  <2>1. /\ toServer = <<>> /\ asked = {} /\ gaveUp = {} /\ sentOpt[o] = {}
        /\ ~On(c)[o] /\ ~View(c)[o]
    BY DEF ClientInit, Init, On, View
  <2>2. Phase(c, o, On(c)[o], View(c)[o], asked, gaveUp, sentOpt[o], <<>>, <<>>)
    BY <2>1 DEF Phase
  <2>3. Among(<<>>, Asks(c, o), <<>>) /\ Among(<<>>, Answers(c, o), <<>>)
    BY <1>6, AmongEmpty
  <2> QED
    BY <1>6, <2>1, <2>2, <2>3 DEF Side
<1>8. Exchange(<<>>)
  BY <1>7 DEF Exchange
<1> QED
  BY <1>1, <1>2, <1>3, <1>4, <1>5, <1>6, <1>8 DEF ClientInv, SendEnabledInv, InStep

\* A step that touches neither the options nor the wire.
LEMMA NothingSaidKeeps ==
  ASSUME InStep, UNCHANGED <<clientVars, optionVars, offers, sabre, toClient, toServer>>
  PROVE  InStep'
<1>1. /\ UNCHANGED <<us, him, asked, gaveUp, client, server, sentOpt>>
      /\ UNCHANGED <<offers, sabre, toClient, toServer>>
  BY DEF clientVars, optionVars
<1>2. PICK words \in Seq(Messages) : Framed(toClient, words) /\ Exchange(words)
  BY DEF InStep
<1>3. Exchange(words)'
  BY <1>1, <1>2 DEF Exchange, On, View
<1> QED
  BY <1>1, <1>2, <1>3 DEF InStep, ClientTypes

\* Every step of either end keeps them in step.
LEMMA ClientInvNext == ~Persistent /\ ClientInv /\ [ClientNext]_allVars => ClientInv'
<1> SUFFICES ASSUME ~Persistent, ClientInv, [ClientNext]_allVars PROVE ClientInv'
  OBVIOUS
<1> USE DEF ClientInv
<1>1. CASE (ServerStep \/ IdleLogout) /\ UNCHANGED clientVars
  <2>1. [Next]_vars
    BY <1>1 DEF Next
  <2>2. cuts' \in Nat /\ (cuts' = 0 => cuts = 0)
    BY <2>1, CutsCounted
  <2>3. ASSUME cuts' = 0 PROVE ModeInv' /\ SendEnabledInv' /\ InStep'
    <3>1. ModeInv /\ SendEnabledInv /\ InStep
      BY <2>2, <2>3
    <3>2. ModeInv' /\ SendEnabledInv'
      BY <2>1, <2>3, <3>1, ModeInvNext, OfferStep
    <3>3. CASE SendInitialOffer
      BY <1>1, <2>3, <3>1, <3>2, <3>3, OfferKeeps
    <3>4. CASE RespondOption
      BY <1>1, <2>3, <3>1, <3>2, <3>4, AnswerKeeps
    <3>5. CASE SessionEnds
      BY <1>1, <3>1, <3>2, <3>5, NothingSaidKeeps DEF SessionEnds
    <3>6. CASE IdleLogout
      BY <1>1, <2>3, <3>1, <3>2, <3>6, LogoutKeeps
    <3> QED
      BY <1>1, <3>2, <3>3, <3>4, <3>5, <3>6 DEF ServerStep
  <2> QED
    BY <2>2, <2>3
<1>2. ASSUME NEW op \in OptCode, NEW opt \in Option, Ask(op, opt)
      PROVE  ClientInv'
  <2>1. cuts' = cuts
    BY <1>2 DEF Ask, serverVars
  <2> QED
    BY <1>2, <2>1, AskKeeps
<1>3. ASSUME NEW op \in OptCode, NEW opt \in Option, Drop(op, opt)
      PROVE  ClientInv'
  <2>1. cuts' = cuts
    BY <1>3 DEF Drop, serverVars
  <2> QED
    BY <1>3, <2>1, DropKeeps
<1>4. CASE ClientReads
  <2>1. cuts' = cuts
    BY <1>4 DEF ClientReads, serverVars
  <2> QED
    BY <1>4, <2>1, ReadsKeeps
<1>5. CASE UNCHANGED allVars
  <2>1. UNCHANGED <<serverVars, clientVars, toClient, toServer>>
    BY <1>5 DEF allVars, vars
  <2>2. cuts' = cuts /\ UNCHANGED <<optionVars, offers, sabre>>
    BY <2>1 DEF serverVars
  <2>3. ASSUME cuts = 0 PROVE ModeInv' /\ SendEnabledInv'
    <3>1. ModeInv /\ toServer' \in Seq(Messages)
      BY <2>1, <2>3 DEF ModeInv, FlagTypes, Messages
    <3> QED
      BY <2>1, <2>3, <3>1, ClientStepKeeps
  <2> QED
    BY <2>1, <2>2, <2>3, NothingSaidKeeps
<1> QED
  BY <1>1, <1>2, <1>3, <1>4, <1>5 DEF ClientNext

\* Nothing is on its way: every side of every option is settled.
LEMMA QuietIsSettled ==
  ASSUME ClientInv, cuts = 0, Quiet
  PROVE  /\ \A o \in AllOption : client[o] = us[o] /\ server[o] = him[o]
         /\ asked = {}
<1>1. ModeInv /\ InStep /\ toClient = <<>> /\ toServer = <<>>
  BY DEF ClientInv, Quiet
<1>2. PICK words \in Seq(Messages) : Framed(toClient, words) /\ Exchange(words)
  BY <1>1 DEF InStep
<1>3. words = <<>>
  BY <1>1, <1>2, FramedEmpty
<1>4. ASSUME NEW c \in Sides, NEW o \in AllOption
      PROVE  On(c)[o] = View(c)[o] /\ <<c.ask, o>> \notin asked
  <2>1. Side(<<>>, <<>>, c, o, On(c)[o], View(c)[o], asked, gaveUp, sentOpt[o])
    BY <1>1, <1>2, <1>3 DEF Exchange
  <2>2. On(c)[o] \in BOOLEAN /\ View(c)[o] \in BOOLEAN
    BY <1>1 DEF ModeInv, FlagTypes, InStep, ClientTypes, On, View
  <2> QED
    BY <2>1, <2>2, SideSettled, Zenon
<1>5. /\ ClientCodes \in Sides /\ On(ClientCodes) = client /\ View(ClientCodes) = us
      /\ ServerCodes \in Sides /\ On(ServerCodes) = server /\ View(ServerCodes) = him
      /\ ClientCodes.ask = WILL /\ ServerCodes.ask = DO
  BY DEF Sides, ClientCodes, ServerCodes, On, View, WILL, DO
<1>6. ASSUME NEW o \in AllOption
      PROVE  /\ client[o] = us[o] /\ server[o] = him[o]
             /\ <<WILL, o>> \notin asked /\ <<DO, o>> \notin asked
  BY <1>4, <1>5
<1>7. asked \subseteq {WILL, DO} \X AllOption
  BY <1>1 DEF InStep, ClientTypes
<1>8. ASSUME NEW m \in asked PROVE FALSE
  <2>1. PICK op \in {WILL, DO}, o \in AllOption : m = <<op, o>>
    BY <1>7
  <2> QED
    BY <1>6, <2>1
<1> QED
  BY <1>6, <1>8

\* A client that does not ask again for what it gave up agrees with the server
\* on every option whenever nothing is in flight, whatever crossed on the way,
\* until a write() of the server is cut short.
THEOREM QuietEndsAgree ==
  ASSUME ~Persistent
  PROVE  ClientSpec => [](cuts = 0 => Agreement)
<1>1. ClientInv => (cuts = 0 => Agreement)
  BY QuietIsSettled DEF Agreement
<1>2. ClientInv /\ [ClientNext]_allVars => ClientInv'
  BY ClientInvNext
<1> QED
  BY <1>1, <1>2, ClientInvInit, PTL DEF ClientSpec

\* ... and each of its requests has been answered by then.
THEOREM QuietMeansAnswered ==
  ASSUME ~Persistent
  PROVE  ClientSpec => [](cuts = 0 => RequestsAnswered)
<1>1. ClientInv => (cuts = 0 => RequestsAnswered)
  BY QuietIsSettled DEF RequestsAnswered
<1>2. ClientInv /\ [ClientNext]_allVars => ClientInv'
  BY ClientInvNext
<1> QED
  BY <1>1, <1>2, ClientInvInit, PTL DEF ClientSpec
=============================================================================
