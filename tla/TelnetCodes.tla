---------------------------- MODULE TelnetCodes ----------------------------
(***************************************************************************)
(* The byte values of the telnet protocol that the program compares with.  *)
(* IAC to SE come from the system header <arpa/telnet.h>; the command and  *)
(* option names are used by telnet.c and serial_ip.h.                      *)
(***************************************************************************)
EXTENDS Naturals

NUL  == 0
IAC  == 255
DONT == 254
DO   == 253
WONT == 252
WILL == 251
SB   == 250
SE   == 240

\* The four optcodes of an option negotiation, IAC <optcode> <option>.
OptCode == {WILL, WONT, DO, DONT}
=============================================================================
