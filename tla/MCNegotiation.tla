--------------------------- MODULE MCNegotiation ---------------------------
(* Small instances of Negotiation: an option with a transfer mode, one that *)
(* the server offers one way only, the logout, and one it does not know.    *)
EXTENDS Negotiation

UnknownOption == 99
Options == {TELOPT_BINARY, TELOPT_ECHO, TELOPT_LOGOUT, UnknownOption}
=============================================================================
