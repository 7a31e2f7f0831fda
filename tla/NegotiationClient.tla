------------------------- MODULE NegotiationClient -------------------------
(***************************************************************************)
(* Negotiation with a client that follows RFC 854: it asks for an option   *)
(* only when it is off, takes the server's next word on it as the answer,  *)
(* answers what changes the state and nothing else, and never refuses to   *)
(* turn an option off.  It accepts or refuses offers as it likes.  The     *)
(* client is external to the program: it is the environment that the       *)
(* server's side of the negotiation has to agree with.                     *)
(***************************************************************************)
EXTENDS Negotiation

CONSTANTS
  Persistent,    \* may the client ask again for what was refused or dropped?
  MaxAsks        \* bound of the model: requests and withdrawals of the client

ASSUME ClientAssumption == Persistent \in BOOLEAN /\ MaxAsks \in Nat

VARIABLES
  us,        \* option -> is it on, as the client sees it, client to server
  him,       \* option -> is it on, as the client sees it, server to client
  asked,     \* the client's requests, <<WILL or DO, option>>, not yet answered
  gaveUp,    \* the requests that were refused, or dropped once granted
  asks       \* how many requests and withdrawals were made

clientVars == <<us, him, asked, gaveUp, asks>>
allVars == <<vars, clientVars>>

ClientInit ==
  /\ Init
  /\ us = [o \in AllOption |-> FALSE] /\ him = [o \in AllOption |-> FALSE]
  /\ asked = {} /\ gaveUp = {} /\ asks = 0

Say(op, opt) == toServer' = Append(toServer, <<op, opt>>)

\* The client's own initiative.
Ask(op, opt) ==
  /\ asks < MaxAsks
  /\ \/ op = WILL /\ ~us[opt]
     \/ op = DO /\ ~him[opt]
  /\ <<op, opt>> \notin asked
  /\ Persistent \/ <<op, opt>> \notin gaveUp
  /\ Say(op, opt)
  /\ asked' = asked \union {<<op, opt>>}
  /\ asks' = asks + 1
  /\ UNCHANGED <<serverVars, toClient, messages, us, him, gaveUp>>

Drop(op, opt) ==
  /\ asks < MaxAsks
  /\ \/ /\ op = WONT /\ us[opt]
        /\ us' = [us EXCEPT ![opt] = FALSE] /\ UNCHANGED him
        /\ gaveUp' = gaveUp \union {<<WILL, opt>>}
     \/ /\ op = DONT /\ him[opt]
        /\ him' = [him EXCEPT ![opt] = FALSE] /\ UNCHANGED us
        /\ gaveUp' = gaveUp \union {<<DO, opt>>}
  /\ Say(op, opt)
  /\ asks' = asks + 1
  /\ UNCHANGED <<serverVars, toClient, messages, asked>>

\* What the client makes of the server's word on one side of an option: "on" is
\* its view of that side, "request" what it would have asked with, "yes" and
\* "no" its replies to an offer and to a withdrawal.
Learn(on, opt, granted, request, yes, no) ==
  LET mine == <<request, opt>> IN
  \/ /\ mine \in asked
     /\ on' = [on EXCEPT ![opt] = granted]
     /\ asked' = asked \ {mine}
     /\ gaveUp' = IF granted THEN gaveUp ELSE gaveUp \union {mine}
     /\ UNCHANGED toServer
  \/ /\ mine \notin asked /\ on[opt] = granted
     /\ UNCHANGED <<on, asked, gaveUp, toServer>>
  \/ /\ mine \notin asked /\ on[opt] # granted
     /\ \/ /\ granted /\ Say(yes, opt)
           /\ on' = [on EXCEPT ![opt] = TRUE] /\ UNCHANGED gaveUp
        \/ /\ Say(no, opt)
           /\ on' = [on EXCEPT ![opt] = FALSE] /\ gaveUp' = gaveUp \union {mine}
     /\ UNCHANGED asked

ClientReads ==
  /\ Len(toClient) >= 3
  /\ LET op == toClient[2]
         opt == toClient[3] IN
     \/ op \in {DO, DONT} /\ Learn(us, opt, op = DO, WILL, WILL, WONT) /\ UNCHANGED him
     \/ op \in {WILL, WONT} /\ Learn(him, opt, op = WILL, DO, DO, DONT) /\ UNCHANGED us
  /\ toClient' = SubSeq(toClient, 4, Len(toClient))
  /\ UNCHANGED <<serverVars, messages, asks>>

ClientNext ==
  \/ (ServerStep \/ IdleLogout) /\ UNCHANGED clientVars
  \/ \E op \in OptCode, opt \in Option : Ask(op, opt) \/ Drop(op, opt)
  \/ ClientReads

\* The server's loop runs whenever it has input, and the client reads its
\* socket; nobody has to ask for anything.
ClientSpec ==
  /\ ClientInit /\ [][ClientNext]_allVars
  /\ WF_allVars(ServerStep /\ UNCHANGED clientVars) /\ WF_allVars(ClientReads)

-----------------------------------------------------------------------------
(* Properties *)

Quiet == pc = "run" /\ toClient = <<>> /\ toServer = <<>>

\* When nothing is in flight, the two ends agree on every option, whatever
\* crossed on the way: enabled here means on there.
Agreement ==
  Quiet => \A o \in AllOption : client[o] = us[o] /\ server[o] = him[o]

\* ... and every request of the client has had its answer.
RequestsAnswered == Quiet => asked = {}

\* The negotiation settles, unless the session ends: no exchange of
\* acknowledgements goes on for ever.
Settles == <>[](Quiet \/ pc = "ended")
=============================================================================
