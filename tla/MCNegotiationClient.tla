------------------------ MODULE MCNegotiationClient ------------------------
(* Small instances: an option of both directions, and one the server does   *)
(* not know.                                                                *)
EXTENDS NegotiationClient

UnknownOption == 99
Options == {TELOPT_BINARY, UnknownOption}
OneOption == {TELOPT_SGA}
=============================================================================
