--------------------------- MODULE Configuration ---------------------------
(***************************************************************************)
(* serial_ip_init: the configuration file, read line by line into the      *)
(* records of the ports and of the server, and sane_config at its end.     *)
(*                                                                         *)
(* A line has a key and a text.  A text has the word it is and the number  *)
(* that atoi makes of it, 0 for a word that is no number.  The room of a    *)
(* string that is set twice is not modelled: save_value copies the second  *)
(* into the allocation of the first, whatever their lengths.               *)
(***************************************************************************)
EXTENDS Integers, Sequences, FiniteSets

CONSTANTS
  Lines,        \* the lines that a file may have: [key, text]
  MaxLines,     \* bound of the model: lines of a file
  MAX_SPORTS,   \* the size of conf.serial_port
  Accounts,     \* the users and groups that the system knows
  Directories,  \* the directories that exist
  NULL          \* a pointer to nothing, and the text that a line lacks

ASSUME ConfigurationAssumption ==
  /\ MaxLines \in Nat /\ MAX_SPORTS \in Nat \ {0}
  /\ Lines \subseteq [key : STRING, text : [word : STRING, num : Int] \union {NULL}]

VARIABLES
  file,     \* the lines read so far; forgotten when the file has been read
  phase,    \* "reading", "ready", or "exited"
  defaults, \* sabre_defaults, what the lines before the first device set
  ports,    \* conf.serial_port
  conf      \* the rest of conf

configVars == <<file, phase, defaults, ports, conf>>

-----------------------------------------------------------------------------
(* Keywords and values *)

Row(keyword, token, type) == [keyword |-> keyword, token |-> token, type |-> type]

\* keyword_table, without the keywords whose value nothing here depends on.
KeywordTable ==
  {Row("serial device", "DEVICE", "STRING"), Row("device", "DEVICE", "STRING"),
   Row("port", "DEVICE", "STRING"),
   Row("speed", "speed", "VALUE"), Row("baudrate", "speed", "VALUE"),
   Row("databits", "databits", "VALUE"), Row("parity", "parity", "STRING"),
   Row("stopbits", "stopbits", "VALUE"), Row("flow control", "flowcontrol", "STRING"),
   Row("flush on connect", "conn_flush", "BOOLEAN"),
   Row("flush on disconnect", "disc_flush", "BOOLEAN"),
   Row("user", "user", "STRING"), Row("username", "user", "STRING"), Row("group", "group", "STRING"),
   Row("server type", "server_type", "STRING"), Row("directory", "directory", "STRING"),
   Row("tmp directory", "tmpdir", "STRING"), Row("lock directory", "lockdir", "STRING"),
   Row("timeout", "timeout", "VALUE"), Row("idle timer", "idletimer", "VALUE"),
   Row("modemstate poll interval", "ms_pollinterval", "VALUE"),
   Row("linestate poll interval", "ls_pollinterval", "VALUE"),
   Row("reply purge data", "reply_purge_data", "BOOLEAN"),
   Row("send telnet logout", "send_logout", "BOOLEAN")}

PortKeyword == {"speed", "databits", "parity", "stopbits", "flowcontrol", "conn_flush", "disc_flush"}

\* The rows that parse_entry finds for a line: none for a blank line, a comment,
\* an unknown keyword and a line without a value, and none of these is an error.
parse_entry(line) == {row \in KeywordTable : row.keyword = line.key /\ line.text # NULL}

boolean_string_handle(word) ==
  CASE word \in {"0", "off", "false", "no"} -> 0
    [] word \in {"1", "on", "true", "yes"} -> 1
    [] OTHER -> -1

\* What a value is stored as.
save_value(text, type) ==
  CASE type = "VALUE" -> text.num
    [] type = "BOOLEAN" -> boolean_string_handle(text.word)
    [] type = "STRING" -> text.word

\* The two words for each way of flow control are one value.
Setting(row, text) ==
  CASE row.token = "flowcontrol" /\ text.word = "rts/cts" -> "hardware"
    [] row.token = "flowcontrol" /\ text.word = "xon/xoff" -> "software"
    [] OTHER -> save_value(text, row.type)

\* 1800 is not among them, although ulong2speed_t knows it.
valid_serial_speed ==
  {0, 50, 75, 110, 134, 150, 200, 300, 600, 1200, 2400, 4800, 9600, 19200, 38400,
   57600, 115200, 230400, 460800}

\* Is the value one that the line may have for this keyword?
Acceptable(token, value) ==
  CASE token = "speed" -> value \in valid_serial_speed
    [] token = "databits" -> value \in 5 .. 8
    [] token = "parity" -> value \in {"none", "odd", "even"}
    [] token = "stopbits" -> value \in 1 .. 2
    [] token = "flowcontrol" -> value \in {"hardware", "software", "none"}
    [] token \in {"conn_flush", "disc_flush", "reply_purge_data", "send_logout"} -> value # -1
    [] OTHER -> TRUE

-----------------------------------------------------------------------------
(* Reading the file *)

Builtin ==
  [speed |-> 9600, databits |-> 8, parity |-> "none", stopbits |-> 1,
   flowcontrol |-> "hardware", conn_flush |-> 0, disc_flush |-> 1]

Default ==
  [timeout |-> 30, ms_pollinterval |-> 10, ls_pollinterval |-> 30,
   reply_purge_data |-> 0, idletimer |-> 0, send_logout |-> 0,
   server_type |-> "raw TCP gateway", directory |-> ".", tmpdir |-> "/tmp", lockdir |-> "/var/lock"]

\* What serial_ip_init sets before it reads: the strings are null pointers.
Initial ==
  [user |-> NULL, group |-> NULL, server_type |-> NULL, directory |-> NULL, tmpdir |-> NULL,
   lockdir |-> NULL, timeout |-> Default.timeout, ms_pollinterval |-> Default.ms_pollinterval,
   ls_pollinterval |-> Default.ls_pollinterval, reply_purge_data |-> Default.reply_purge_data,
   idletimer |-> Default.idletimer, send_logout |-> Default.send_logout]

ConfigInit ==
  /\ file = <<>> /\ phase = "reading"
  /\ defaults = Builtin /\ ports = <<>> /\ conf = Initial

exit ==
  /\ phase' = "exited" /\ file' = <<>>
  /\ UNCHANGED <<defaults, ports, conf>>

More == phase = "reading" /\ Len(file) < MaxLines

\* A line that is no entry is skipped.
SkipLine(line) ==
  /\ More /\ parse_entry(line) = {}
  /\ file' = Append(file, line)
  /\ UNCHANGED <<phase, defaults, ports, conf>>

\* A port that does not start from the defaults.
AddBarePort(line) ==
  /\ More /\ \E row \in parse_entry(line) : row.token = "DEVICE"
  /\ ports' = Append(ports, [device |-> line.text.word, set |-> Builtin])
  /\ file' = Append(file, line)
  /\ UNCHANGED <<phase, defaults, conf>>

\* A device line starts a port, with a copy of the defaults.
add_serial_port_info(line) ==
  /\ More /\ \E row \in parse_entry(line) : row.token = "DEVICE"
  /\ IF Len(ports) >= MAX_SPORTS THEN exit
     ELSE /\ ports' = Append(ports, [device |-> line.text.word, set |-> defaults])
          /\ file' = Append(file, line)
          /\ UNCHANGED <<phase, defaults, conf>>

\* The line is about the last port, or about the defaults before there is one.
SetPort(line) ==
  /\ More
  /\ \E row \in parse_entry(line) :
       /\ row.token \in PortKeyword
       /\ LET value == Setting(row, line.text) IN
          IF ~Acceptable(row.token, value) THEN exit
          ELSE /\ IF ports = <<>>
                  THEN defaults' = [defaults EXCEPT ![row.token] = value] /\ UNCHANGED ports
                  ELSE ports' = [ports EXCEPT ![Len(ports)].set[row.token] = value] /\ UNCHANGED defaults
               /\ file' = Append(file, line)
               /\ UNCHANGED <<phase, conf>>

\* The line is about the server.
SetServer(line) ==
  /\ More
  /\ \E row \in parse_entry(line) :
       /\ row.token \in DOMAIN conf
       /\ LET value == save_value(line.text, row.type) IN
          IF ~Acceptable(row.token, value) THEN exit
          ELSE /\ conf' = [conf EXCEPT ![row.token] = value]
               /\ file' = Append(file, line)
               /\ UNCHANGED <<phase, defaults, ports>>

-----------------------------------------------------------------------------
(* The end of the file *)

\* Repair that lets an interval of 0 pass.
RepairedBelowZero ==
  [k \in DOMAIN conf |->
     CASE conf[k] = NULL /\ k \in DOMAIN Default -> Default[k]
       [] k \in {"timeout", "ms_pollinterval", "ls_pollinterval", "idletimer"}
            /\ conf[k] < 0 -> Default[k]
       [] OTHER -> conf[k]]

\* What sane_config replaces: null pointers, and numbers out of range.
Repaired ==
  [k \in DOMAIN conf |->
     CASE conf[k] = NULL /\ k \in DOMAIN Default -> Default[k]
       [] k \in {"timeout", "ms_pollinterval", "ls_pollinterval"} /\ conf[k] <= 0 -> Default[k]
       [] k \in {"reply_purge_data", "idletimer", "send_logout"} /\ conf[k] < 0 -> Default[k]
       [] OTHER -> conf[k]]

ServerType == {"raw TCP gateway", "concurrent", "iterative"}

\* What it does not repair.
Sane(c) ==
  /\ c.user \in Accounts /\ c.group \in Accounts
  /\ c.server_type \in ServerType
  /\ {c.directory, c.tmpdir, c.lockdir} \subseteq Directories
  /\ ports # <<>>

sane_config ==
  /\ phase = "reading"
  /\ file' = <<>>
  /\ conf' = Repaired
  /\ phase' = IF Sane(Repaired) THEN "ready" ELSE "exited"
  /\ UNCHANGED <<defaults, ports>>

ConfigNext ==
  \/ \E line \in Lines :
       SkipLine(line) \/ add_serial_port_info(line) \/ SetPort(line) \/ SetServer(line)
  \/ sane_config

-----------------------------------------------------------------------------
(* Properties *)

\* The lines that start a port, by their positions.
DeviceLines == {i \in 1..Len(file) : \E row \in parse_entry(file[i]) : row.token = "DEVICE"}

\* What the lines from first to last say of a setting, or else otherwise: the
\* last of them counts.
Says(token, first, last, otherwise) ==
  LET About(i) == {row \in parse_entry(file[i]) : row.token = token}
      at == {i \in first..last : About(i) # {}}
  IN IF at = {} THEN otherwise
     ELSE LET i == CHOOSE i \in at : \A j \in at : j <= i
          IN Setting(CHOOSE row \in About(i) : TRUE, file[i].text)

\* Lines are read in order into whatever port is current; still, every port has
\* what the file says between its device line and the next one, or else before the
\* first one, or else the built-in default, and no port loses it to another.
PortsAsWritten ==
  phase = "reading" =>
    LET first == CHOOSE i \in DeviceLines : \A j \in DeviceLines : i <= j
        Nth(n) == CHOOSE i \in DeviceLines : n = Cardinality({j \in DeviceLines : j <= i})
    IN \A n \in 1..Len(ports), token \in PortKeyword :
         LET last == IF n = Len(ports) THEN Len(file) ELSE Nth(n + 1) - 1
         IN ports[n].set[token] =
              Says(token, Nth(n), last, Says(token, 1, first, Builtin[token]))

\* Whatever file was accepted, the session can run with it: its select() has an
\* interval above 0 to wait and an idle time that is not negative, there is a
\* port, and every port has values that the line can be set to.
SaneForSession ==
  phase = "ready" =>
    /\ conf.ms_pollinterval > 0 /\ conf.ls_pollinterval > 0 /\ conf.timeout > 0
    /\ conf.idletimer >= 0 /\ conf.send_logout \in {0, 1}
    /\ conf.server_type \in ServerType
    /\ ports # <<>>
    /\ \A n \in 1..Len(ports), token \in PortKeyword : Acceptable(token, ports[n].set[token])
=============================================================================
