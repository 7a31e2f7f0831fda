-------------------------- MODULE MCSocketToSerial --------------------------
(* Small instances of SocketToSerial: two data bytes, an escaped IAC, an    *)
(* option request, a complete Com Port suboption and a two byte command.    *)
EXTENDS SocketToSerial

TELOPT_SGA == 3
NOP == 241

Tokens ==
  {<<1>>, <<2>>, <<IAC, IAC>>, <<IAC, DO, TELOPT_SGA>>,
   <<IAC, SB, TELOPT_COM_PORT_OPTION, 5, IAC, SE>>, <<IAC, NOP>>}

\* Without the suboption, whose six bytes only add interleavings.
ShortTokens == {<<1>>, <<IAC, IAC>>, <<IAC, DO, TELOPT_SGA>>}

\* They are tokens of the protocol, as the proofs take them to be.
ASSUME TokensAssumption == \A t \in Tokens \union ShortTokens : WellFormed(t)
=============================================================================
