---------------------------- MODULE Negotiation ----------------------------
(***************************************************************************)
(* The server's side of telnet option negotiation: telnet_init(),          *)
(* send_telnet_option() and respond_telnet_option() of telnet.c, with      *)
(* sabre_to_socket_buf, the buffer its answers go through.                 *)
(*                                                                         *)
(* The client is arbitrary here: it may send any optcode for any option of *)
(* Option, at any time.  NegotiationClient restricts it to one that        *)
(* follows the protocol.  session_state is always RESUME: the suboptions   *)
(* that would suspend the session are compiled out.                        *)
(***************************************************************************)
EXTENDS Buffer, FiniteSets

CONSTANTS
  Option,         \* the options the client mentions
  MaxCuts,        \* bound of the model: writes to the socket that are short, or fail
  MaxMessages     \* bound of the model: messages of the arbitrary client

TELOPT_BINARY == 0
TELOPT_ECHO == 1
TELOPT_SGA == 3
TELOPT_LOGOUT == 18
TELOPT_COM_PORT_OPTION == 44

KnownOption ==
  {TELOPT_BINARY, TELOPT_ECHO, TELOPT_SGA, TELOPT_LOGOUT, TELOPT_COM_PORT_OPTION}

AllOption == Option \union KnownOption

ASSUME NegotiationAssumption ==
  /\ Option \subseteq Byte
  /\ MaxCuts \in Nat
  /\ MaxMessages \in Nat
  /\ Size >= 3           \* one option string fits in the buffer

\* What telnet_init() sends, in this order.
InitialOffers ==
  << <<DO, TELOPT_COM_PORT_OPTION>>, <<WILL, TELOPT_BINARY>>, <<DO, TELOPT_BINARY>>,
     <<WILL, TELOPT_ECHO>>, <<WILL, TELOPT_SGA>>, <<DO, TELOPT_SGA>> >>

VARIABLES
  pc,          \* "init": in telnet_init; "run": answering; "last": in the last
               \*   pass of an idle session; "ended"
  offers,      \* the initial offers still to be sent
  sentOpt,     \* the sent_will, sent_do, sent_wont, sent_dont flags, as a set
  client,      \* tnoptions[].client: enabled client to server
  server,      \* tnoptions[].server: enabled server to client
  tnmode,      \* [CLIENT, SERVER] -> "ASCII" or "BINARY"
  loggedIn,    \* client_logged_in
  sabre,       \* sabre_to_socket_buf
  toClient,    \* bytes on the wire to the client
  toServer,    \* messages <<optcode, option>> on the wire to the server
  times,       \* history: how often an option string was built and buffered
  cuts,        \* history: how many writes moved less than they were offered
  messages     \* how many messages the arbitrary client has sent

optionVars == <<sentOpt, client, server, tnmode>>
serverVars == <<pc, offers, optionVars, loggedIn, sabre, times, cuts>>
vars == <<serverVars, toClient, toServer, messages>>

-----------------------------------------------------------------------------
(* send_telnet_option and send_init_telnet_option *)

\* Optcodes other than WILL are not marked.
MarkWillOnly(op, opt) == IF op = WILL THEN [sentOpt EXCEPT ![opt] = @ \union {op}] ELSE sentOpt

mark_telnet_option_as_sent(op, opt) == [sentOpt EXCEPT ![opt] = @ \union {op}]

\* Nothing is sent twice.  Otherwise the option string joins what the buffer
\* holds, one write() is tried, and the option counts as sent only if at least
\* three bytes left; what a short write leaves stays in the buffer.
SendOption(op, opt) ==
  IF op \in sentOpt[opt]
  THEN UNCHANGED <<sentOpt, sabre, toClient, times, cuts>>
  ELSE LET b == bfstrncat(sabre, <<IAC, op, opt>>) IN
       \E n \in 0..cal_numbytes_to_write(b) :
         /\ IF n < cal_numbytes_to_write(b) THEN cuts < MaxCuts /\ cuts' = cuts + 1
                                            ELSE UNCHANGED cuts
         /\ toClient' = toClient \o SubSeq(Active(b), 1, n)
         /\ sabre' = IF n > 0 THEN buffer_writepointer_position(b, n) ELSE b
         /\ sentOpt' = IF n >= 3 THEN mark_telnet_option_as_sent(op, opt) ELSE sentOpt
         /\ times' = [times EXCEPT ![opt][op] = @ + 1]

\* telnet_init has cleared the option table; its first offer is still to come.
Init ==
  /\ pc = "init"
  /\ offers = InitialOffers
  /\ sentOpt = [o \in AllOption |-> {}]
  /\ client = [o \in AllOption |-> FALSE]
  /\ server = [o \in AllOption |-> FALSE]
  /\ tnmode = [CLIENT |-> "ASCII", SERVER |-> "ASCII"]
  /\ loggedIn = TRUE
  /\ sabre = bfmalloc
  /\ toClient = <<>> /\ toServer = <<>>
  /\ times = [o \in AllOption |-> [c \in OptCode |-> 0]]
  /\ cuts = 0 /\ messages = 0

\* The last offer does not end telnet_init().
SendOffersForever ==
  /\ pc = "init" /\ offers # <<>>
  /\ SendOption(Head(offers)[1], Head(offers)[2])
  /\ offers' = Tail(offers)
  /\ UNCHANGED <<pc, client, server, tnmode, loggedIn, toServer, messages>>

SendInitialOffer ==
  /\ pc = "init" /\ offers # <<>>
  /\ SendOption(Head(offers)[1], Head(offers)[2])
  /\ offers' = Tail(offers)
  /\ pc' = IF Len(offers) = 1 THEN "run" ELSE "init"
  /\ UNCHANGED <<client, server, tnmode, loggedIn, toServer, messages>>

-----------------------------------------------------------------------------
(* respond_telnet_option, by optcode *)

\* The mode changes with any option.
SetModeAlways(side, opt, mode) == tnmode' = [tnmode EXCEPT ![side] = mode]

SetMode(side, opt, mode) ==
  tnmode' = IF opt = TELOPT_BINARY THEN [tnmode EXCEPT ![side] = mode] ELSE tnmode

\* The change is acknowledged and not noted.
ClientSideForgotten(opt, answer, enable, mode) ==
  IF client[opt] # enable
  THEN SendOption(answer, opt) /\ UNCHANGED <<client, server, tnmode>>
  ELSE UNCHANGED <<optionVars, sabre, toClient, times, cuts>>

\* An optcode that asks for a change of a known option: the change is
\* acknowledged with "answer"; one that asks for the present state is ignored.
ClientSide(opt, answer, enable, mode) ==
  IF client[opt] # enable
  THEN /\ SendOption(answer, opt)
       /\ client' = [client EXCEPT ![opt] = enable]
       /\ SetMode("CLIENT", opt, mode)
       /\ UNCHANGED server
  ELSE UNCHANGED <<optionVars, sabre, toClient, times, cuts>>

ServerSide(opt, answer, enable, mode) ==
  IF server[opt] # enable
  THEN /\ SendOption(answer, opt)
       /\ server' = [server EXCEPT ![opt] = enable]
       /\ SetMode("SERVER", opt, mode)
       /\ UNCHANGED client
  ELSE UNCHANGED <<optionVars, sabre, toClient, times, cuts>>

respond_known_telnet_option(op, opt) ==
  \/ op = WILL /\ ClientSide(opt, DO, TRUE, "BINARY")
  \/ op = WONT /\ ClientSide(opt, DONT, FALSE, "ASCII")
  \/ op = DO   /\ ServerSide(opt, WILL, TRUE, "BINARY")
  \/ op = DONT /\ ServerSide(opt, WONT, FALSE, "ASCII")

RefuseSilently(op, opt) == UNCHANGED <<optionVars, sabre, toClient, times, cuts>>

RefuseUnknown(op, opt) ==
  /\ SendOption(IF op \in {WILL, WONT} THEN DONT ELSE WONT, opt)
  /\ UNCHANGED <<client, server, tnmode>>

\* process_telnet_options takes the next command of the client.
RespondOption ==
  /\ pc \in {"run", "last"} /\ toServer # <<>>
  /\ LET op == Head(toServer)[1]
         opt == Head(toServer)[2] IN
     /\ IF opt \in KnownOption THEN respond_known_telnet_option(op, opt)
                               ELSE RefuseUnknown(op, opt)
     /\ loggedIn' = (loggedIn /\ ~(opt = TELOPT_LOGOUT /\ op \in {WILL, DO}))
  /\ toServer' = Tail(toServer)
  /\ UNCHANGED <<pc, offers, messages>>

\* An idle session asks its client to log out, and passes through the select
\* loop once more for the answer.  When a session is idle is the matter of
\* Session; the text that goes before the request carries no option.
IdleLogout ==
  /\ pc = "run" /\ loggedIn
  /\ SendOption(DO, TELOPT_LOGOUT)
  /\ pc' = "last"
  /\ UNCHANGED <<offers, client, server, tnmode, loggedIn, toServer, messages>>

\* The select loop stops once the client has logged out, and after that pass.
SessionEnds ==
  /\ (pc = "run" /\ ~loggedIn) \/ pc = "last"
  /\ pc' = "ended"
  /\ UNCHANGED <<offers, optionVars, loggedIn, sabre, times, cuts, toClient, toServer, messages>>

ServerStep == SendInitialOffer \/ RespondOption \/ SessionEnds

\* A client that sends whatever it likes, and reads what it gets.
AnyClientSends ==
  /\ messages < MaxMessages
  /\ \E op \in OptCode, opt \in Option : toServer' = Append(toServer, <<op, opt>>)
  /\ messages' = messages + 1
  /\ UNCHANGED <<serverVars, toClient>>

AnyClientReads ==
  /\ toClient # <<>>
  /\ toClient' = <<>>
  /\ UNCHANGED <<serverVars, toServer, messages>>

Next == ServerStep \/ IdleLogout \/ AnyClientSends \/ AnyClientReads

Spec == Init /\ [][Next]_vars

-----------------------------------------------------------------------------
(* Properties *)

TypeOK ==
  /\ pc \in {"init", "run", "last", "ended"}
  /\ offers \in Seq(OptCode \X AllOption) /\ (pc = "init" <=> offers # <<>>)
  /\ sentOpt \in [AllOption -> SUBSET OptCode]
  /\ client \in [AllOption -> BOOLEAN] /\ server \in [AllOption -> BOOLEAN]
  /\ tnmode \in [{"CLIENT", "SERVER"} -> {"ASCII", "BINARY"}]
  /\ loggedIn \in BOOLEAN
  /\ sabre \in BufferRecord
  /\ toClient \in Seq(Byte) /\ toServer \in Seq(OptCode \X AllOption)
  /\ times \in [AllOption -> [OptCode -> Nat]]
  /\ cuts \in 0..MaxCuts /\ messages \in 0..MaxMessages

\* "make sure we only send it once": whatever the client says and however
\* often, no optcode is sent twice for an option, so no option loop can arise,
\* as long as the writes of the answers are complete.
SentOnce == cuts = 0 => \A o \in AllOption, c \in OptCode : times[o][c] <= 1

\* Until a write() is cut short, an option counts as negotiated only when the
\* server's half of the agreement has left: DO for an option of the client,
\* WILL for one of the server.
EnabledWasOffered ==
  cuts = 0 => \A o \in AllOption : /\ client[o] => DO \in sentOpt[o]
                                   /\ server[o] => WILL \in sentOpt[o]

\* The transfer mode of each direction is BINARY exactly while the BINARY
\* option of that direction is enabled, through any series of changes and
\* whatever becomes of the answers.
ModeFollowsBinary ==
  /\ tnmode["CLIENT"] = "BINARY" <=> client[TELOPT_BINARY]
  /\ tnmode["SERVER"] = "BINARY" <=> server[TELOPT_BINARY]
=============================================================================
