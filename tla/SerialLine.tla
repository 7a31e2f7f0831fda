----------------------------- MODULE SerialLine -----------------------------
(***************************************************************************)
(* The settings of the serial line: from the configuration (Configuration) *)
(* into the termios flags when a session begins, from there to the client  *)
(* and back through the suboptions of RFC 2217, and what the end of a      *)
(* session leaves behind.                                                  *)
(*                                                                         *)
(* Every change reads the flags, changes some and writes them back, so each *)
(* depends on all that were made before it.                                *)
(***************************************************************************)
EXTENDS Configuration

CONSTANTS
  Leftovers,  \* settings a line may have when nobody has set it up
  Requests,   \* the suboptions that a client sends: [code, len, num]
  MaxRequests \* bound of the model: suboptions of a session

VARIABLES
  line,    \* the termios settings of the line
  open,    \* is a session using it?
  request, \* the last suboption of the session, or NULL
  reply,   \* what was answered to it, or NULL
  served   \* how many suboptions the session has had

lineVars == <<line, open, request, reply, served>>
vars == <<configVars, lineVars>>

-----------------------------------------------------------------------------
(* Speeds and sizes *)

\* The rates that the two switches know; a speed_t is an index of it, B9600 the
\* one of 9600.
Rates ==
  <<0, 50, 75, 110, 134, 150, 200, 300, 600, 1200, 1800, 2400, 4800, 9600, 19200, 38400,
    57600, 115200, 230400, 460800>>
B9600 == 14

\* A rate without a symbol becomes 9600.
ulong2speed_t(rate) ==
  LET symbol == {i \in 1..Len(Rates) : Rates[i] = rate}
  IN IF symbol = {} THEN B9600 ELSE CHOOSE i \in symbol : TRUE

speed_t2ulong(speed) == IF speed \in 1..Len(Rates) THEN Rates[speed] ELSE 9600

\* A number of data bits without a symbol becomes 8.
uint2cs(bits) == IF bits \in 5..8 THEN bits ELSE 8

\* A struct termios, as far as it is about the line.
Termios ==
  [speed : 1..Len(Rates), csize : 5..8, parenb : BOOLEAN, parodd : BOOLEAN, cstopb : BOOLEAN,
   cread : BOOLEAN, crtscts : BOOLEAN, ixon : BOOLEAN, istrip : BOOLEAN]

ASSUME LineAssumption ==
  /\ MaxRequests \in Nat /\ Leftovers \subseteq Termios
  /\ Requests \subseteq [code : Nat, len : Nat, num : Nat] /\ NULL \notin Requests

LineInit ==
  /\ line \in Leftovers /\ open = FALSE
  /\ request = NULL /\ reply = NULL /\ served = 0

-----------------------------------------------------------------------------
(* The session's line *)

\* Settings for even parity that do not clear PARODD.
OddStays(t, parity) ==
  [t EXCEPT !.parenb = parity # "none", !.parodd = (@ \/ parity = "odd"), !.cstopb = FALSE]

\* The parity settings; both an odd and an even one leave one stop bit.
WithParity(t, parity) ==
  CASE parity = "odd" -> [t EXCEPT !.parenb = TRUE, !.parodd = TRUE, !.cstopb = FALSE]
    [] parity = "even" -> [t EXCEPT !.parenb = TRUE, !.parodd = FALSE, !.cstopb = FALSE]
    [] OTHER -> [t EXCEPT !.parenb = FALSE, !.cstopb = FALSE]

\* The stop bits of the configuration are not asked.
serial_init_termios(t, set) ==
  [WithParity(t, set.parity) EXCEPT
     !.speed = ulong2speed_t(set.speed),
     !.cread = TRUE,
     !.csize = uint2cs(set.databits),
     !.crtscts = set.flowcontrol = "hardware",
     !.istrip = set.parity # "none",
     !.ixon = set.flowcontrol = "software"]

\* select_serial_port takes the first port.
OpenPort ==
  /\ phase = "ready" /\ ~open
  /\ open' = TRUE
  /\ line' = serial_init_termios(line, ports[1].set)
  /\ request' = NULL /\ reply' = NULL /\ served' = 0

\* serial_cleanup has the settings of before in a struct that was passed by value
\* and never filled, and writes that.
Close ==
  /\ open
  /\ open' = FALSE /\ line' \in Leftovers
  /\ request' = NULL /\ reply' = NULL /\ served' = 0

-----------------------------------------------------------------------------
(* Suboptions *)

\* The data size that is or-ed into what was there: CS5 is 0, CS8 all the bits.
OrDatasize(t, value) ==
  [t EXCEPT !.csize = IF @ = 8 \/ value \notin 5..7 \/ {@, value} = {6, 7} THEN 8
                      ELSE IF @ > value THEN @ ELSE value]

set_baudrate(t, value) == [t EXCEPT !.speed = ulong2speed_t(value)]
set_datasize(t, value) == [t EXCEPT !.csize = uint2cs(value)]

\* Mark and space parity are ignored.
set_parity(t, value) ==
  CASE value = 2 -> WithParity(t, "odd")
    [] value = 3 -> WithParity(t, "even")
    [] value \in {4, 5} -> t
    [] OTHER -> WithParity(t, "none")

\* 1.5 stop bits are ignored, and for 2 the flags are and-ed with CSTOPB: no other
\* control flag is left, neither a speed nor the receiver.
set_stopsize(t, value) ==
  CASE value = 2 -> [t EXCEPT !.speed = ulong2speed_t(0), !.csize = 5, !.parenb = FALSE,
                              !.parodd = FALSE, !.cread = FALSE, !.crtscts = FALSE]
    [] value = 3 -> t
    [] OTHER -> [t EXCEPT !.cstopb = FALSE]

get_baudrate(t) == speed_t2ulong(t.speed)
get_datasize(t) == t.csize
get_parity(t) == IF ~t.parenb THEN 1 ELSE IF t.parodd THEN 2 ELSE 3
get_stopsize(t) == IF t.cstopb THEN 2 ELSE 1

\* A parameter of 1, 2 or 4 bytes is a number, any other is 0.
ValueOf(r) == IF r.len \in {1, 2, 4} THEN r.num ELSE 0

\* The settings that have a suboption, by its code.
SetBy(code, t, value) ==
  CASE code = 1 -> set_baudrate(t, value) [] code = 2 -> set_datasize(t, value)
    [] code = 3 -> set_parity(t, value) [] code = 4 -> set_stopsize(t, value)

GetBy(code, t) ==
  CASE code = 1 -> get_baudrate(t) [] code = 2 -> get_datasize(t)
    [] code = 3 -> get_parity(t) [] code = 4 -> get_stopsize(t)

\* Does the parameter begin with a null byte, or is there none?
Blank(r) == r.len = 0 \/ r.num < 256 ^ (r.len - 1)

\* The answer to the codes 0 and 100 is the program's signature, a text that is no
\* number: to the client's own there is none.
respond_telnet_cpc_signature_subopt(r) ==
  IF r.code \in {0, 100} /\ Blank(r) THEN [code |-> 100, value |-> 0] ELSE NULL

\* The value 0 asks for the setting.  The codes of the server's answers are taken
\* like the client's, the answer has always the server's, and the codes that are
\* not implemented have none.
process_telnet_cpc_suboption(r) ==
  LET code == r.code % 100 IN
  /\ open /\ served < MaxRequests
  /\ served' = served + 1
  /\ request' = r
  /\ IF r.code \in 1..4 \union 101..104
     THEN /\ line' = IF ValueOf(r) = 0 THEN line ELSE SetBy(code, line, ValueOf(r))
          /\ reply' = [code |-> code + 100, value |-> GetBy(code, line')]
     ELSE reply' = respond_telnet_cpc_signature_subopt(r) /\ UNCHANGED line
  /\ UNCHANGED open

LineNext ==
  \/ OpenPort \/ Close
  \/ \E r \in Requests : process_telnet_cpc_suboption(r)

Init == ConfigInit /\ LineInit

Next ==
  \/ ConfigNext /\ UNCHANGED lineVars
  \/ LineNext /\ UNCHANGED configVars

Spec == Init /\ [][Next]_vars

-----------------------------------------------------------------------------
(* Properties *)

\* The values that the line can have.
TypeOK ==
  /\ line \in Termios /\ open \in BOOLEAN
  /\ request \in Requests \union {NULL} /\ served \in 0 .. MaxRequests
  /\ reply # NULL => reply.code \in 100..104 /\ reply.value \in Nat

\* A parity as the file names it, from the number of the suboption.
ParityName == <<"none", "odd", "even">>

\* Whatever file was read, whatever the sessions before asked for, and whatever
\* they left behind: a session begins with the speed, size, parity and flow
\* control of the port in the file, with the receiver on and with one stop bit.
StartsAsConfigured ==
  open /\ request = NULL =>
    LET set == ports[1].set IN
    /\ get_baudrate(line) = set.speed
    /\ get_datasize(line) = set.databits
    /\ ParityName[get_parity(line)] = set.parity
    /\ get_stopsize(line) = 1
    /\ line.cread
    /\ line.crtscts <=> set.flowcontrol = "hardware"
    /\ line.ixon <=> set.flowcontrol = "software"

\* The suboptions that can be obeyed, two stop bits excepted.
Supported(r) ==
  CASE r.code \in {1, 101} -> ValueOf(r) \in {Rates[i] : i \in 1..Len(Rates)} \ {0}
    [] r.code \in {2, 102} -> ValueOf(r) \in 5..8
    [] r.code \in {3, 103} -> ValueOf(r) \in 1..3
    [] r.code \in {4, 104} -> ValueOf(r) = 1
    [] OTHER -> FALSE

\* Such a suboption sets exactly the setting it names, whatever the flags are by
\* then (a parity sets one stop bit as well), and is answered with the new value;
\* and none but the one for two stop bits turns the receiver off.
SetsExactlyThat ==
  [][ open /\ open' /\ request' # NULL /\ served' = served + 1 =>
        LET named == request'.code % 100
            value == ValueOf(request')
        IN /\ Supported(request') =>
                /\ reply' = [code |-> named + 100, value |-> value]
                /\ \A code \in 1..4 :
                     GetBy(code, line') = CASE code = named -> value
                                            [] code = 4 /\ named = 3 -> 1
                                            [] OTHER -> GetBy(code, line)
           /\ named # 4 => line'.cread = line.cread
    ]_vars
=============================================================================
