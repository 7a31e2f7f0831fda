-------------------------- MODULE SerialLineProofs --------------------------
(***************************************************************************)
(* Proofs about SerialLine, for every set of lines that a file may have,   *)
(* files of any length, any settings found on the line and any numbers     *)
(* that a client sends.                                                    *)
(***************************************************************************)
EXTENDS SerialLine, FiniteSetTheorems, TLAPS

-----------------------------------------------------------------------------
(* The keyword table *)

LEMMA RowFields ==
  ASSUME NEW k, NEW t, NEW y
  PROVE  Row(k, t, y).keyword = k /\ Row(k, t, y).token = t /\ Row(k, t, y).type = y
  BY DEF Row

Number == {"timeout", "ms_pollinterval", "ls_pollinterval", "idletimer"}
Switch == {"reply_purge_data", "send_logout"}
Name == {"user", "group", "server_type", "directory", "tmpdir", "lockdir"}

\* The type of each token that is a number or a switch.
LEMMA TypeOfToken ==
  ASSUME NEW row \in KeywordTable
  PROVE  /\ row.token \in Number => row.type = "VALUE"
         /\ row.token \in Switch \union {"conn_flush", "disc_flush"} => row.type = "BOOLEAN"
<1>1. \E k : \/ row = Row(k, "DEVICE", "STRING") \/ row = Row(k, "speed", "VALUE")
             \/ row = Row(k, "databits", "VALUE") \/ row = Row(k, "parity", "STRING")
             \/ row = Row(k, "stopbits", "VALUE") \/ row = Row(k, "flowcontrol", "STRING")
             \/ \E t \in {"conn_flush", "disc_flush"} \union Switch : row = Row(k, t, "BOOLEAN")
             \/ \E t \in Number : row = Row(k, t, "VALUE")
             \/ \E t \in Name : row = Row(k, t, "STRING")
  BY DEF KeywordTable, Number, Switch, Name
<1> QED
  BY <1>1, RowFields DEF Number, Switch, Name

-----------------------------------------------------------------------------
(* Ports *)

Device == {l.text.word : l \in Lines}
Value == valid_serial_speed \union 5..8 \union {0, 1, 2} \union {"none", "odd", "even", "hardware", "software"}
Settings == {set \in [PortKeyword -> Value] : \A token \in PortKeyword : Acceptable(token, set[token])}
PortRecord == [device : Device, set : Settings]

PortsOK == defaults \in Settings /\ ports \in Seq(PortRecord)

LEMMA BuiltinGood == Builtin \in Settings
<1>1. DOMAIN Builtin = PortKeyword
  BY DEF Builtin, PortKeyword
<1>2. Builtin = [t \in DOMAIN Builtin |-> Builtin[t]]
  BY DEF Builtin
<1>3. \A t \in PortKeyword : Builtin[t] \in Value /\ Acceptable(t, Builtin[t])
  BY DEF Builtin, PortKeyword, Value, Acceptable, valid_serial_speed
<1> QED
  BY <1>1, <1>2, <1>3 DEF Settings

\* A value that was accepted for a keyword is one of those that exist.
LEMMA AcceptedExists ==
  ASSUME NEW ln \in Lines, NEW row \in parse_entry(ln), row.token \in PortKeyword,
         Acceptable(row.token, Setting(row, ln.text))
  PROVE  Setting(row, ln.text) \in Value
<1>1. row \in KeywordTable
  BY DEF parse_entry
<1>2. CASE row.token \in {"conn_flush", "disc_flush"}
  <2>1. Setting(row, ln.text) = boolean_string_handle(ln.text.word)
    BY <1>1, <1>2, TypeOfToken DEF Setting, save_value
  <2> QED
    BY <2>1 , <1>2 DEF boolean_string_handle, Value, Acceptable
<1>3. CASE row.token \in {"speed", "databits", "parity", "stopbits", "flowcontrol"}
  BY <1>3 DEF Acceptable, Value
<1> QED
  BY <1>2, <1>3 DEF PortKeyword

LEMMA SetOne ==
  ASSUME NEW set \in Settings, NEW token \in PortKeyword, NEW value \in Value,
         Acceptable(token, value)
  PROVE  [set EXCEPT ![token] = value] \in Settings
  BY DEF Settings

LEMMA PortsInit == ConfigInit => PortsOK
  BY BuiltinGood DEF ConfigInit, PortsOK

LEMMA PortsNext == PortsOK /\ [ConfigNext]_configVars => PortsOK'
<1> SUFFICES ASSUME PortsOK, [ConfigNext]_configVars PROVE PortsOK'
  OBVIOUS
<1>1. CASE UNCHANGED <<defaults, ports>>
  BY <1>1 DEF PortsOK
<1>2. ASSUME NEW ln \in Lines, add_serial_port_info(ln) PROVE PortsOK'
  <2>1. CASE ports' = Append(ports, [device |-> ln.text.word, set |-> defaults]) /\ UNCHANGED defaults
    <3>1. [device |-> ln.text.word, set |-> defaults] \in PortRecord
      BY DEF PortsOK, PortRecord, Device
    <3> QED
      BY <2>1, <3>1 DEF PortsOK
  <2> QED
    BY <1>1, <1>2, <2>1 DEF add_serial_port_info, exit
<1>3. ASSUME NEW ln \in Lines, SetPort(ln) PROVE PortsOK'
  <2>1. PICK row \in parse_entry(ln) :
           /\ row.token \in PortKeyword
           /\ \/ UNCHANGED <<defaults, ports>>
              \/ /\ Acceptable(row.token, Setting(row, ln.text))
                 /\ \/ defaults' = [defaults EXCEPT ![row.token] = Setting(row, ln.text)] /\ UNCHANGED ports
                    \/ /\ ports # <<>> /\ UNCHANGED defaults
                       /\ ports' = [ports EXCEPT ![Len(ports)].set[row.token] = Setting(row, ln.text)]
    BY <1>3 DEF SetPort, exit
  <2> DEFINE value == Setting(row, ln.text)
  <2>2. CASE UNCHANGED <<defaults, ports>>
    BY <1>1, <2>2
  <2>3. ASSUME Acceptable(row.token, value) PROVE value \in Value
    BY <2>1, <2>3, AcceptedExists
  <2> HIDE DEF value
  <2>4. CASE Acceptable(row.token, value) /\ UNCHANGED ports
             /\ defaults' = [defaults EXCEPT ![row.token] = value]
    BY <2>1, <2>3, <2>4, SetOne DEF PortsOK
  <2>5. CASE /\ Acceptable(row.token, value) /\ ports # <<>> /\ UNCHANGED defaults
             /\ ports' = [ports EXCEPT ![Len(ports)].set[row.token] = value]
    <3> DEFINE n == Len(ports)
               new == [ports[n].set EXCEPT ![row.token] = value]
    <3>1. n \in 1..Len(ports) /\ ports[n] \in PortRecord
      BY <2>5 DEF PortsOK
    <3>2. ports[n].set \in Settings
      BY <3>1 DEF PortRecord
    <3>3. new \in Settings
      BY <2>1, <2>3, <2>5, <3>2, SetOne
    <3>4. ports' = [ports EXCEPT ![n] = [ports[n] EXCEPT !.set = new]]
      BY <2>5
    <3>5. [ports[n] EXCEPT !.set = new] \in PortRecord
      BY <3>1, <3>3 DEF PortRecord
    <3> QED
      BY <2>5, <3>1, <3>4, <3>5 DEF PortsOK
  <2> QED
    BY <2>1, <2>2, <2>4, <2>5 DEF value
<1> QED
  BY <1>1, <1>2, <1>3 DEF ConfigNext, configVars, SkipLine, SetServer, sane_config, exit

-----------------------------------------------------------------------------
(* The server's part of the configuration *)

ConfKey == Number \union Switch \union Name

\* The types that hold while the file is read, and what its end makes of them.
ServerOK ==
  /\ conf = [k \in ConfKey |-> conf[k]]
  /\ \A k \in Number : conf[k] \in Int
  /\ \A k \in Switch : conf[k] \in {0, 1}

ReadyOK ==
  phase = "ready" =>
    /\ conf.ms_pollinterval > 0 /\ conf.ls_pollinterval > 0 /\ conf.timeout > 0
    /\ conf.idletimer >= 0 /\ conf.server_type \in ServerType
    /\ ports # <<>>

ConfInv == PortsOK /\ ServerOK /\ ReadyOK

LEMMA ServerInit == ConfigInit => ServerOK /\ ReadyOK
<1> SUFFICES ASSUME ConfigInit PROVE ServerOK /\ ReadyOK
  OBVIOUS
<1>1. DOMAIN conf = ConfKey /\ conf = [k \in DOMAIN conf |-> conf[k]]
  BY DEF ConfigInit, Initial, ConfKey, Number, Switch, Name
<1>2. (\A k \in Number : conf[k] \in Int) /\ (\A k \in Switch : conf[k] \in {0, 1})
  BY DEF ConfigInit, Initial, Default, Number, Switch
<1> QED
  BY <1>1, <1>2 DEF ServerOK, ReadyOK, ConfigInit

LEMMA ServerSet ==
  ASSUME ConfInv, NEW ln \in Lines, SetServer(ln)
  PROVE  ServerOK' /\ ReadyOK'
<1>1. PICK row \in parse_entry(ln) :
         /\ row.token \in DOMAIN conf
         /\ \/ exit
            \/ /\ Acceptable(row.token, save_value(ln.text, row.type))
               /\ conf' = [conf EXCEPT ![row.token] = save_value(ln.text, row.type)]
               /\ phase' = "reading"
  BY DEF SetServer, More
<1>2. row \in KeywordTable /\ ln.text.num \in Int
  BY ConfigurationAssumption DEF parse_entry
<1>3. CASE exit
  BY <1>3 DEF exit, ConfInv, ServerOK, ReadyOK
<1>4. CASE /\ Acceptable(row.token, save_value(ln.text, row.type))
           /\ conf' = [conf EXCEPT ![row.token] = save_value(ln.text, row.type)]
           /\ phase' = "reading"
  <2> DEFINE value == save_value(ln.text, row.type)
  <2>1. row.token \in Number => value \in Int
    BY <1>2, TypeOfToken DEF save_value
  <2>2. row.token \in Switch => value \in {0, 1}
    <3>1. row.token \in Switch => value = boolean_string_handle(ln.text.word) /\ value # -1
      BY <1>2, <1>4, TypeOfToken DEF save_value, Acceptable, Switch
    <3> QED
      BY <3>1 DEF boolean_string_handle
  <2>3. row.token \in ConfKey
    BY <1>1 DEF ConfInv, ServerOK
  <2> HIDE DEF value
  <2>4. conf' = [conf EXCEPT ![row.token] = value]
    BY <1>4 DEF value
  <2>5. conf' = [k \in ConfKey |-> conf'[k]]
    BY <2>3, <2>4 DEF ConfInv, ServerOK
  <2>6. \A k \in ConfKey : conf'[k] = IF k = row.token THEN value ELSE conf[k]
    BY <2>3, <2>4 DEF ConfInv, ServerOK
  <2>7. (\A k \in Number : conf'[k] \in Int) /\ (\A k \in Switch : conf'[k] \in {0, 1})
    BY <2>1, <2>2, <2>6 DEF ConfInv, ServerOK, ConfKey
  <2> QED
    BY <1>4, <2>5, <2>7 DEF ServerOK, ReadyOK
<1> QED
  BY <1>1, <1>3, <1>4

LEMMA ServerRepaired ==
  ASSUME ConfInv, sane_config
  PROVE  ServerOK' /\ ReadyOK'
<1>1. conf' = Repaired /\ ports' = ports /\ DOMAIN conf = ConfKey
  BY DEF sane_config, ConfInv, ServerOK
<1>2. \A k \in ConfKey :
        conf'[k] = CASE conf[k] = NULL /\ k \in DOMAIN Default -> Default[k]
                     [] k \in {"timeout", "ms_pollinterval", "ls_pollinterval"} /\ conf[k] <= 0 -> Default[k]
                     [] k \in {"reply_purge_data", "idletimer", "send_logout"} /\ conf[k] < 0 -> Default[k]
                     [] OTHER -> conf[k]
  BY <1>1 DEF Repaired
<1>3. conf' = [k \in ConfKey |-> conf'[k]]
  BY <1>1 DEF Repaired
<1>4. /\ \A k \in Number : conf[k] \in Int
      /\ \A k \in Switch : conf[k] \in {0, 1}
  BY DEF ConfInv, ServerOK
<1>5. /\ Default["timeout"] = 30 /\ Default["ms_pollinterval"] = 10 /\ Default["ls_pollinterval"] = 30
      /\ Default["reply_purge_data"] = 0 /\ Default["idletimer"] = 0 /\ Default["send_logout"] = 0
  BY DEF Default
<1>6. \A k \in {"timeout", "ms_pollinterval", "ls_pollinterval"} : conf'[k] \in Int /\ conf'[k] > 0
  BY <1>2, <1>4, <1>5 DEF ConfKey, Number
<1>7. conf'["idletimer"] \in Int /\ conf'["idletimer"] >= 0
  BY <1>2, <1>4, <1>5 DEF ConfKey, Number
<1>8. \A k \in Switch : conf'[k] \in {0, 1}
  BY <1>2, <1>4, <1>5 DEF ConfKey, Switch
<1>9. phase' = "ready" => conf'.server_type \in ServerType /\ ports' # <<>>
  BY <1>1 DEF sane_config, Sane
<1> QED
  BY <1>3, <1>6, <1>7, <1>8, <1>9 DEF ServerOK, ReadyOK, Number

LEMMA ConfNext == ConfInv /\ [ConfigNext]_configVars => ConfInv'
<1> SUFFICES ASSUME ConfInv, [ConfigNext]_configVars PROVE ConfInv'
  OBVIOUS
<1>1. PortsOK'
  BY PortsNext DEF ConfInv
<1>2. CASE UNCHANGED <<phase, ports, conf>>
  BY <1>1, <1>2 DEF ConfInv, ServerOK, ReadyOK
<1>3. CASE phase' # "ready" /\ UNCHANGED conf
  BY <1>1, <1>3 DEF ConfInv, ServerOK, ReadyOK
<1>4. ASSUME NEW ln \in Lines, add_serial_port_info(ln) \/ SetPort(ln) PROVE ConfInv'
  BY <1>3, <1>4 DEF add_serial_port_info, SetPort, exit, More
<1>5. ASSUME NEW ln \in Lines, SkipLine(ln) PROVE ConfInv'
  BY <1>2, <1>5 DEF SkipLine
<1>6. ASSUME NEW ln \in Lines, SetServer(ln) PROVE ConfInv'
  BY <1>1, <1>6, ServerSet DEF ConfInv
<1>7. CASE sane_config
  BY <1>1, <1>7, ServerRepaired DEF ConfInv
<1> QED
  BY <1>2, <1>4, <1>5, <1>6, <1>7 DEF ConfigNext, configVars

LEMMA ConfAlways == Spec => []ConfInv
<1>1. Init => ConfInv
  BY PortsInit, ServerInit DEF Init, ConfInv
<1>2. ConfInv /\ [Next]_vars => ConfInv'
  BY ConfNext DEF Next, LineNext, vars, lineVars
<1> QED
  BY <1>1, <1>2, PTL DEF Spec

\* Whatever lines the file holds, in whatever order: a configuration that
\* serial_ip_init() and sane_config() let pass is one that a session can run with.
THEOREM AcceptedFilesAreSane == Spec => []SaneForSession
<1>1. ConfInv => SaneForSession
  <2> SUFFICES ASSUME ConfInv, phase = "ready" PROVE SaneForSession
    BY DEF SaneForSession
  <2>1. ASSUME NEW n \in 1..Len(ports), NEW token \in PortKeyword
        PROVE  Acceptable(token, ports[n].set[token])
    <3>1. ports[n] \in PortRecord
      BY DEF ConfInv, PortsOK
    <3> QED
      BY <3>1 DEF PortRecord, Settings
  <2>2. conf.send_logout \in {0, 1}
    BY DEF ConfInv, ServerOK, Switch
  <2> QED
    BY <2>1, <2>2 DEF SaneForSession, ConfInv, ReadyOK
<1> QED
  BY <1>1, ConfAlways, PTL

-----------------------------------------------------------------------------
(* The line *)

LEMMA RatesLen == Len(Rates) = 20 /\ \A i \in 1..20 : Rates[i] \in Nat
  BY DEF Rates

\* A rate that both tables know survives the way through them.
LEMMA RateFound ==
  ASSUME NEW rate, \E i \in 1..20 : Rates[i] = rate
  PROVE  ulong2speed_t(rate) \in 1..20 /\ speed_t2ulong(ulong2speed_t(rate)) = rate
  BY RatesLen DEF ulong2speed_t, speed_t2ulong

LEMMA RateValid == \A rate \in valid_serial_speed : \E i \in 1..20 : Rates[i] = rate
  BY DEF Rates, valid_serial_speed

LEMMA SpeedType == \A rate : ulong2speed_t(rate) \in 1..20
  BY RatesLen DEF ulong2speed_t, B9600

LEMMA WithParityFields ==
  ASSUME NEW t \in Termios, NEW parity
  PROVE  LET u == WithParity(t, parity) IN
         /\ u \in Termios
         /\ u.speed = t.speed /\ u.csize = t.csize /\ u.cread = t.cread /\ u.crtscts = t.crtscts
         /\ u.ixon = t.ixon /\ u.istrip = t.istrip /\ u.cstopb = FALSE
         /\ parity = "odd" => u.parenb = TRUE /\ u.parodd = TRUE
         /\ parity = "even" => u.parenb = TRUE /\ u.parodd = FALSE
         /\ parity \notin {"odd", "even"} => u.parenb = FALSE
  BY DEF WithParity, Termios

LEMMA InitFields ==
  ASSUME NEW t \in Termios, NEW set \in Settings
  PROVE  LET u == serial_init_termios(t, set) IN
         /\ u \in Termios
         /\ get_baudrate(u) = set.speed /\ get_datasize(u) = set.databits
         /\ ParityName[get_parity(u)] = set.parity /\ get_stopsize(u) = 1
         /\ u.cread = TRUE
         /\ u.crtscts = (set.flowcontrol = "hardware") /\ u.ixon = (set.flowcontrol = "software")
<1> DEFINE w == WithParity(t, set.parity)
           u == serial_init_termios(t, set)
<1>1. /\ set.speed \in valid_serial_speed /\ set.databits \in 5..8
      /\ set.parity \in {"none", "odd", "even"}
  BY DEF Settings, PortKeyword, Acceptable
<1>2. /\ w \in Termios /\ w.cstopb = FALSE
      /\ set.parity = "odd" => w.parenb = TRUE /\ w.parodd = TRUE
      /\ set.parity = "even" => w.parenb = TRUE /\ w.parodd = FALSE
      /\ set.parity \notin {"odd", "even"} => w.parenb = FALSE
  BY WithParityFields
<1> HIDE DEF w
<1>3. u = [w EXCEPT !.speed = ulong2speed_t(set.speed), !.cread = TRUE,
             !.csize = uint2cs(set.databits), !.crtscts = set.flowcontrol = "hardware",
             !.istrip = set.parity # "none", !.ixon = set.flowcontrol = "software"]
  BY DEF serial_init_termios, w
<1>4. ulong2speed_t(set.speed) \in 1..20 /\ uint2cs(set.databits) \in 5..8
      /\ uint2cs(set.databits) = set.databits
  BY <1>1, SpeedType DEF uint2cs
<1> HIDE DEF u
<1>5. /\ u \in Termios
      /\ u.speed = ulong2speed_t(set.speed) /\ u.csize = set.databits
      /\ u.cread = TRUE /\ u.cstopb = FALSE /\ u.parenb = w.parenb /\ u.parodd = w.parodd
      /\ u.crtscts = (set.flowcontrol = "hardware") /\ u.ixon = (set.flowcontrol = "software")
  <2>1. u \in Termios
    <3> DEFINE speed == ulong2speed_t(set.speed)
               csize == uint2cs(set.databits)
               hard == (set.flowcontrol = "hardware")
               strip == (set.parity # "none")
               soft == (set.flowcontrol = "software")
    <3>1. /\ speed \in 1..Len(Rates) /\ csize \in 5..8
          /\ hard \in BOOLEAN /\ strip \in BOOLEAN /\ soft \in BOOLEAN
      BY <1>4, RatesLen
    <3>2. u = [w EXCEPT !.speed = speed, !.cread = TRUE, !.csize = csize, !.crtscts = hard,
                        !.istrip = strip, !.ixon = soft]
      BY <1>3, Zenon
    <3> HIDE DEF speed, csize, hard, strip, soft
    <3>3. w.parenb \in BOOLEAN /\ w.parodd \in BOOLEAN /\ w.cstopb \in BOOLEAN
      BY <1>2 DEF Termios
    <3>4. u = [speed |-> speed, csize |-> csize, parenb |-> w.parenb, parodd |-> w.parodd,
               cstopb |-> w.cstopb, cread |-> TRUE, crtscts |-> hard, ixon |-> soft,
               istrip |-> strip]
      BY <1>2, <3>2 DEF Termios
    <3> QED
      BY <3>1, <3>3, <3>4 DEF Termios
  <2>2. u.speed = ulong2speed_t(set.speed) /\ u.csize = set.databits /\ u.cread = TRUE
    BY <1>2, <1>3, <1>4 DEF Termios
  <2>3. u.cstopb = FALSE /\ u.parenb = w.parenb /\ u.parodd = w.parodd
    BY <1>2, <1>3 DEF Termios
  <2>4. u.crtscts = (set.flowcontrol = "hardware") /\ u.ixon = (set.flowcontrol = "software")
    BY <1>2, <1>3 DEF Termios
  <2> QED
    BY <2>1, <2>2, <2>3, <2>4, Zenon
<1>6. get_baudrate(u) = set.speed
  BY <1>1, <1>5, RateFound, RateValid DEF get_baudrate
<1>7. ParityName[get_parity(u)] = set.parity
  BY <1>1, <1>2, <1>5 DEF get_parity, ParityName
<1> QED
  BY <1>5, <1>6, <1>7 DEF get_datasize, get_stopsize, u

-----------------------------------------------------------------------------
(* What a suboption does *)

LEMMA SizeSet ==
  ASSUME NEW t \in Termios, NEW bits \in 5..8
  PROVE  [t EXCEPT !.csize = bits] \in Termios
  BY DEF Termios

LEMMA SetFields ==
  ASSUME NEW t \in Termios, NEW code \in 1..4, NEW value \in Nat
  PROVE  SetBy(code, t, value) \in Termios
         /\ (code # 4 => SetBy(code, t, value).cread = t.cread)
<1>1. ulong2speed_t(value) \in 1..Len(Rates) /\ ulong2speed_t(0) \in 1..Len(Rates)
  BY SpeedType, RatesLen
<1>2. CASE code = 1
  BY <1>1, <1>2 DEF SetBy, set_baudrate, Termios
<1>3. CASE code = 2
  <2>1. uint2cs(value) \in 5..8
    BY DEF uint2cs
  <2> QED
    BY <1>3, <2>1, SizeSet DEF SetBy, set_datasize, Termios
<1>4. CASE code = 3
  <2>1. SetBy(code, t, value) = t \/ \E parity : SetBy(code, t, value) = WithParity(t, parity)
    BY <1>4 DEF SetBy, set_parity
  <2>2. CASE SetBy(code, t, value) = t
    BY <2>2
  <2>3. ASSUME NEW parity, SetBy(code, t, value) = WithParity(t, parity)
        PROVE  SetBy(code, t, value) \in Termios /\ SetBy(code, t, value).cread = t.cread
    <3>1. WithParity(t, parity) \in Termios /\ WithParity(t, parity).cread = t.cread
      BY WithParityFields
    <3> QED
      BY <2>3, <3>1
  <2> QED
    BY <2>1, <2>2, <2>3
<1>5. CASE code = 4
  <2>1. SetBy(code, t, value) = set_stopsize(t, value)
    BY <1>5 DEF SetBy
  <2>2. CASE value = 2
    <3> DEFINE still == [t EXCEPT !.speed = ulong2speed_t(0)]
               least == [still EXCEPT !.csize = 5]
               half == [least EXCEPT !.parenb = FALSE]
    <3>1. set_stopsize(t, value) = [half EXCEPT !.parodd = FALSE, !.cread = FALSE, !.crtscts = FALSE]
      BY <2>2 DEF set_stopsize
    <3>4. still \in Termios
      BY <1>1 DEF Termios
    <3> HIDE DEF still
    <3>5. least \in Termios
      BY <3>4, 5 \in 5..8, SizeSet
    <3> HIDE DEF least
    <3>2. half \in Termios
      BY <3>5 DEF Termios
    <3> HIDE DEF half
    <3>3. [half EXCEPT !.parodd = FALSE, !.cread = FALSE, !.crtscts = FALSE] \in Termios
      BY <3>2 DEF Termios
    <3> QED
      BY <1>5, <2>1, <3>1, <3>3
  <2>3. CASE value # 2
    BY <1>5, <2>1, <2>3 DEF set_stopsize, Termios
  <2> QED
    BY <2>2, <2>3
<1> QED
  BY <1>2, <1>3, <1>4, <1>5

\* What the other settings say afterwards, for the values that are obeyed.
LEMMA SetsOnlyThat ==
  ASSUME NEW t \in Termios, NEW code \in 1..4, NEW value,
         code = 1 => \E i \in 1..20 : Rates[i] = value,
         code = 2 => value \in 5..8,
         code = 3 => value \in 1..3,
         code = 4 => value = 1,
         NEW other \in 1..4
  PROVE  GetBy(other, SetBy(code, t, value)) =
           CASE other = code -> value [] other = 4 /\ code = 3 -> 1 [] OTHER -> GetBy(other, t)
<1> USE DEF GetBy, get_baudrate, get_datasize, get_parity, get_stopsize
<1>1. CASE code = 1
  <2>1. speed_t2ulong(ulong2speed_t(value)) = value
    BY <1>1, RateFound
  <2>2. SetBy(code, t, value) = [t EXCEPT !.speed = ulong2speed_t(value)]
    BY <1>1 DEF SetBy, set_baudrate
  <2> QED
    BY <1>1, <2>1, <2>2 DEF Termios
<1>2. CASE code = 2
  <2>1. SetBy(code, t, value) = [t EXCEPT !.csize = value]
    BY <1>2 DEF SetBy, set_datasize, uint2cs
  <2> QED
    BY <1>2, <2>1 DEF Termios
<1>3. CASE code = 3
  <2> DEFINE parity == IF value = 2 THEN "odd" ELSE IF value = 3 THEN "even" ELSE "none"
             u == WithParity(t, parity)
  <2>1. SetBy(code, t, value) = u
    BY <1>3 DEF SetBy, set_parity
  <2>3. /\ value = 2 => parity = "odd"
        /\ value = 3 => parity = "even"
        /\ value = 1 => parity \notin {"odd", "even"}
    OBVIOUS
  <2> HIDE DEF parity
  <2>2. /\ u.speed = t.speed /\ u.csize = t.csize /\ u.cstopb = FALSE
        /\ value = 2 => u.parenb = TRUE /\ u.parodd = TRUE
        /\ value = 3 => u.parenb = TRUE /\ u.parodd = FALSE
        /\ value = 1 => u.parenb = FALSE
    BY <2>3, WithParityFields, ZenonT(60)
  <2> HIDE DEF u
  <2> QED
    BY <1>3, <2>1, <2>2
<1>4. CASE code = 4
  <2>1. SetBy(code, t, value) = [t EXCEPT !.cstopb = FALSE]
    BY <1>4 DEF SetBy, set_stopsize
  <2> QED
    BY <1>4, <2>1 DEF Termios
<1> QED
  BY <1>1, <1>2, <1>3, <1>4

LEMMA GetNat == \A t \in Termios, code \in 1..4 : GetBy(code, t) \in Nat
<1> SUFFICES ASSUME NEW t \in Termios, NEW code \in 1..4 PROVE GetBy(code, t) \in Nat
  OBVIOUS
<1>1. speed_t2ulong(t.speed) \in Nat /\ t.csize \in Nat
  BY RatesLen DEF Termios, speed_t2ulong
<1> QED
  BY <1>1 DEF GetBy, get_baudrate, get_datasize, get_parity, get_stopsize

LEMMA ValueNat == \A r \in Requests : r.code \in Nat /\ ValueOf(r) \in Nat
  BY LineAssumption DEF ValueOf

-----------------------------------------------------------------------------
(* The state of the line *)

LineInv ==
  /\ line \in Termios /\ open \in BOOLEAN
  /\ request \in Requests \union {NULL} /\ served \in 0 .. MaxRequests
  /\ open => phase = "ready"
  /\ StartsAsConfigured

Inv == ConfInv /\ LineInv

LEMMA Bounds == 0 \in 0 .. MaxRequests /\ Leftovers \subseteq Termios
<1>1. MaxRequests \in Nat
  BY LineAssumption
<1> QED
  BY <1>1, LineAssumption

LEMMA LineStart == Init => LineInv
<1> SUFFICES ASSUME Init PROVE LineInv
  OBVIOUS
<1>1. line \in Termios /\ served \in 0 .. MaxRequests /\ request = NULL
  BY Bounds DEF Init, LineInit
<1>2. open = FALSE
  BY DEF Init, LineInit
<1> QED
  BY <1>1, <1>2 DEF LineInv, StartsAsConfigured

LEMMA Suboption ==
  ASSUME LineInv, NEW r \in Requests, process_telnet_cpc_suboption(r)
  PROVE  /\ line' \in Termios /\ request' = r /\ request' # NULL
         /\ served' \in 0 .. MaxRequests /\ UNCHANGED open /\ open
         /\ r.code % 100 # 4 => line'.cread = line.cread
<1>1. r.code \in Nat /\ ValueOf(r) \in Nat
  BY ValueNat
<1>2. request' = r /\ request' # NULL /\ UNCHANGED open /\ open /\ served' \in 0 .. MaxRequests
  BY LineAssumption DEF process_telnet_cpc_suboption, LineInv
<1>3. CASE line' = line
  BY <1>2, <1>3 DEF LineInv
<1>4. CASE r.code \in 1..4 \union 101..104 /\ line' = SetBy(r.code % 100, line, ValueOf(r))
  <2>1. r.code % 100 \in 1..4
    BY <1>4
  <2> QED
    BY <1>1, <1>2, <1>4, <2>1, SetFields DEF LineInv
<1> QED
  BY <1>2, <1>3, <1>4 DEF process_telnet_cpc_suboption

LEMMA LineStep == Inv /\ [Next]_vars => LineInv'
<1> SUFFICES ASSUME Inv, [Next]_vars PROVE LineInv'
  OBVIOUS
<1>1. CASE UNCHANGED lineVars /\ UNCHANGED configVars
  BY <1>1 DEF Inv, LineInv, StartsAsConfigured, lineVars, configVars
<1>2. CASE ConfigNext /\ UNCHANGED lineVars
  <2>1. phase = "reading"
    BY <1>2 DEF ConfigNext, SkipLine, add_serial_port_info, SetPort, SetServer, sane_config, More
  <2>2. ~open
    BY <2>1 DEF Inv, LineInv
  <2> QED
    BY <1>2, <2>2 DEF Inv, LineInv, StartsAsConfigured, lineVars
<1>3. CASE OpenPort /\ UNCHANGED configVars
  <2>1. ports[1].set \in Settings
    <3>1. ports \in Seq(PortRecord) /\ ports # <<>>
      BY <1>3 DEF Inv, ConfInv, PortsOK, ReadyOK, OpenPort
    <3>2. ports[1] \in PortRecord
      BY <3>1
    <3> QED
      BY <3>2 DEF PortRecord
  <2>2. line \in Termios /\ line' = serial_init_termios(line, ports[1].set) /\ ports' = ports
    BY <1>3 DEF Inv, LineInv, OpenPort, configVars
  <2>3. line' \in Termios /\ StartsAsConfigured'
    BY <2>1, <2>2, InitFields DEF StartsAsConfigured
  <2> QED
    BY <1>3, <2>3, Bounds DEF OpenPort, LineInv, configVars
<1>4. CASE Close
  <2>1. line' \in Termios /\ served' \in 0 .. MaxRequests /\ request' = NULL
    BY <1>4, Bounds DEF Close
  <2>2. open' = FALSE
    BY <1>4 DEF Close
  <2> QED
    BY <2>1, <2>2 DEF LineInv, StartsAsConfigured
<1>5. ASSUME NEW r \in Requests, process_telnet_cpc_suboption(r), UNCHANGED configVars PROVE LineInv'
  BY <1>5, Suboption DEF Inv, LineInv, StartsAsConfigured, configVars
<1> QED
  BY <1>1, <1>2, <1>3, <1>4, <1>5 DEF Next, LineNext, vars

LEMMA Always == Spec => []Inv
<1>1. Init => Inv
  BY LineStart, PortsInit, ServerInit DEF Init, Inv, ConfInv
<1>2. Inv /\ [Next]_vars => Inv'
  BY LineStep, ConfNext DEF Inv, Next, LineNext, vars, lineVars
<1> QED
  BY <1>1, <1>2, PTL DEF Spec

\* The line and the answers keep their types.
THEOREM LineTypeCorrect == Spec => []TypeOK
<1> DEFINE ReplyOK == reply # NULL => reply.code \in 100..104 /\ reply.value \in Nat
<1>1. Init => ReplyOK
  BY DEF Init, LineInit
<1>2. Inv /\ Inv' /\ ReplyOK /\ [Next]_vars => ReplyOK'
  <2> SUFFICES ASSUME Inv, Inv', ReplyOK, [Next]_vars, reply' # NULL, reply' # reply
               PROVE  reply'.code \in 100..104 /\ reply'.value \in Nat
    OBVIOUS
  <2>1. PICK r \in Requests : process_telnet_cpc_suboption(r)
    BY DEF Next, LineNext, OpenPort, Close, vars, lineVars
  <2> DEFINE code == r.code % 100
  <2>2. CASE r.code \notin 1..4 \union 101..104
    BY <2>1, <2>2 DEF process_telnet_cpc_suboption, respond_telnet_cpc_signature_subopt
  <2>3. CASE r.code \in 1..4 \union 101..104
    <3>1. reply' = [code |-> code + 100, value |-> GetBy(code, line')]
      BY <2>1, <2>3 DEF process_telnet_cpc_suboption
    <3>2. code \in 1..4
      BY <2>3
    <3> HIDE DEF code
    <3>3. GetBy(code, line') \in Nat
      BY <3>2, GetNat DEF Inv, LineInv
    <3> QED
      BY <3>1, <3>2, <3>3
  <2> QED
    BY <2>2, <2>3
<1>3. Inv /\ ReplyOK => TypeOK
  BY DEF Inv, LineInv, TypeOK
<1> QED
  BY <1>1, <1>2, <1>3, Always, PTL DEF Spec

\* A session begins as the file says, for every file and whatever settings the
\* line had when serial_init_termios() read them.
THEOREM SessionsStartAsConfigured == Spec => []StartsAsConfigured
<1>1. Inv => StartsAsConfigured
  BY DEF Inv, LineInv
<1> QED
  BY <1>1, Always, PTL

\* What a suboption sets is what process_telnet_cpc_suboption() answers, and all
\* that it sets, from every state of the line and for every number the client may
\* send.
THEOREM SuboptionsSetExactlyThat == Spec => SetsExactlyThat
<1>1. Inv /\ [Next]_vars => [ open /\ open' /\ request' # NULL /\ served' = served + 1 =>
        LET named == request'.code % 100
            value == ValueOf(request')
        IN /\ Supported(request') =>
                /\ reply' = [code |-> named + 100, value |-> value]
                /\ \A code \in 1..4 :
                     GetBy(code, line') = CASE code = named -> value
                                            [] code = 4 /\ named = 3 -> 1
                                            [] OTHER -> GetBy(code, line)
           /\ named # 4 => line'.cread = line.cread ]_vars
  <2> SUFFICES ASSUME Inv, [Next]_vars, open, open', request' # NULL, served' = served + 1
               PROVE  LET named == request'.code % 100
                          value == ValueOf(request')
                      IN /\ Supported(request') =>
                              /\ reply' = [code |-> named + 100, value |-> value]
                              /\ \A code \in 1..4 :
                                   GetBy(code, line') = CASE code = named -> value
                                                          [] code = 4 /\ named = 3 -> 1
                                                          [] OTHER -> GetBy(code, line)
                         /\ named # 4 => line'.cread = line.cread
    OBVIOUS
  <2>1. PICK r \in Requests : process_telnet_cpc_suboption(r)
    <3>1. served \in Nat
      BY LineAssumption DEF Inv, LineInv
    <3>2. served' # served
      BY <3>1
    <3> QED
      BY <3>2 DEF Next, LineNext, OpenPort, Close, vars, lineVars
  <2>2. line \in Termios /\ request' = r /\ (r.code % 100 # 4 => line'.cread = line.cread)
    BY <2>1, Suboption DEF Inv, LineInv
  <2> DEFINE named == r.code % 100
             value == ValueOf(r)
  <2>3. ASSUME Supported(r)
        PROVE  /\ reply' = [code |-> named + 100, value |-> value]
               /\ \A code \in 1..4 :
                    GetBy(code, line') = CASE code = named -> value
                                           [] code = 4 /\ named = 3 -> 1
                                           [] OTHER -> GetBy(code, line)
    <3>1. r.code \in Nat /\ value \in Nat
      BY ValueNat
    <3>2. r.code \in 1..4 \union 101..104
      BY <2>3, <3>1 DEF Supported
    <3>3. named \in 1..4 /\ (r.code = named \/ r.code = named + 100)
      BY <3>2
    <3> HIDE DEF value
    <3>4. /\ named = 1 => (\E i \in 1..20 : Rates[i] = value) /\ value # 0
          /\ named = 2 => value \in 5..8
          /\ named = 3 => value \in 1..3
          /\ named = 4 => value = 1
      BY <2>3, <3>2, <3>3, RatesLen DEF Supported, value
    <3>5. value # 0
      BY <3>3, <3>4
    <3>6. line' = SetBy(named, line, value)
          /\ reply' = [code |-> named + 100, value |-> GetBy(named, line')]
      BY <2>1, <3>2, <3>5 DEF process_telnet_cpc_suboption, value
    <3> HIDE DEF named
    <3>7. \A code \in 1..4 :
            GetBy(code, SetBy(named, line, value)) =
              CASE code = named -> value [] code = 4 /\ named = 3 -> 1 [] OTHER -> GetBy(code, line)
      BY <2>2, <3>3, <3>4, SetsOnlyThat
    <3>8. GetBy(named, line') = value
      BY <3>3, <3>6, <3>7
    <3> QED
      BY <3>6, <3>7, <3>8
  <2> QED
    BY <2>2, <2>3
<1> QED
  BY <1>1, Always, PTL DEF Spec, SetsExactlyThat

-----------------------------------------------------------------------------
(* What a line is about *)

\* The keywords of several words, by names that a prover can tell apart.
SerialDevice == "serial device"
FlowControl == "flow control"
FlushIn == "flush on connect"
FlushOut == "flush on disconnect"
TypeOfServer == "server type"
TmpDirectory == "tmp directory"
LockDirectory == "lock directory"
IdleTimer == "idle timer"
ModemPoll == "modemstate poll interval"
LinePoll == "linestate poll interval"
ReplyPurge == "reply purge data"
SendLogout == "send telnet logout"

PlainKeys == {"device", "port", "speed", "baudrate", "databits", "parity", "stopbits",
              "user", "username", "group", "directory", "timeout"}

\* They are told apart from each other and from the keywords of one word.
LEMMA KeysDiffer ==
  /\ SerialDevice \notin PlainKeys \union {FlowControl, FlushIn, FlushOut, TypeOfServer,
       TmpDirectory, LockDirectory, IdleTimer, ModemPoll, LinePoll, ReplyPurge, SendLogout}
  /\ FlowControl \notin PlainKeys \union {FlushIn, FlushOut, TypeOfServer,
       TmpDirectory, LockDirectory, IdleTimer, ModemPoll, LinePoll, ReplyPurge, SendLogout}
  /\ FlushIn \notin PlainKeys \union {FlushOut, TypeOfServer,
       TmpDirectory, LockDirectory, IdleTimer, ModemPoll, LinePoll, ReplyPurge, SendLogout}
  /\ FlushOut \notin PlainKeys \union {TypeOfServer,
       TmpDirectory, LockDirectory, IdleTimer, ModemPoll, LinePoll, ReplyPurge, SendLogout}
  /\ TypeOfServer \notin PlainKeys \union
       {TmpDirectory, LockDirectory, IdleTimer, ModemPoll, LinePoll, ReplyPurge, SendLogout}
  /\ TmpDirectory \notin PlainKeys \union
       {LockDirectory, IdleTimer, ModemPoll, LinePoll, ReplyPurge, SendLogout}
  /\ LockDirectory \notin PlainKeys \union {IdleTimer, ModemPoll, LinePoll, ReplyPurge, SendLogout}
  /\ IdleTimer \notin PlainKeys \union {ModemPoll, LinePoll, ReplyPurge, SendLogout}
  /\ ModemPoll \notin PlainKeys \union {LinePoll, ReplyPurge, SendLogout}
  /\ LinePoll \notin PlainKeys \union {ReplyPurge, SendLogout}
  /\ ReplyPurge \notin PlainKeys \union {SendLogout}
  /\ SendLogout \notin PlainKeys
  BY Zenon DEF PlainKeys, SerialDevice, FlowControl, FlushIn, FlushOut, TypeOfServer, TmpDirectory,
       LockDirectory, IdleTimer, ModemPoll, LinePoll, ReplyPurge, SendLogout

PlainRows ==
  {Row("device", "DEVICE", "STRING"), Row("port", "DEVICE", "STRING"),
   Row("speed", "speed", "VALUE"), Row("baudrate", "speed", "VALUE"),
   Row("databits", "databits", "VALUE"), Row("parity", "parity", "STRING"),
   Row("stopbits", "stopbits", "VALUE"),
   Row("user", "user", "STRING"), Row("username", "user", "STRING"), Row("group", "group", "STRING"),
   Row("directory", "directory", "STRING"), Row("timeout", "timeout", "VALUE")}

LongRows ==
  {Row(SerialDevice, "DEVICE", "STRING"), Row(FlowControl, "flowcontrol", "STRING"),
   Row(FlushIn, "conn_flush", "BOOLEAN"), Row(FlushOut, "disc_flush", "BOOLEAN"),
   Row(TypeOfServer, "server_type", "STRING"),
   Row(TmpDirectory, "tmpdir", "STRING"), Row(LockDirectory, "lockdir", "STRING"),
   Row(IdleTimer, "idletimer", "VALUE"), Row(ModemPoll, "ms_pollinterval", "VALUE"),
   Row(LinePoll, "ls_pollinterval", "VALUE"), Row(ReplyPurge, "reply_purge_data", "BOOLEAN"),
   Row(SendLogout, "send_logout", "BOOLEAN")}

LEMMA TwoKinds == KeywordTable = PlainRows \union LongRows
  BY Zenon DEF KeywordTable, PlainRows, LongRows, SerialDevice, FlowControl, FlushIn, FlushOut, TypeOfServer, TmpDirectory,
       LockDirectory, IdleTimer, ModemPoll, LinePoll, ReplyPurge, SendLogout

\* No keyword has two rows, so a line is about one thing at most.
LEMMA OneRow ==
  ASSUME NEW r \in KeywordTable, NEW s \in KeywordTable, r.keyword = s.keyword
  PROVE  r = s
<1>1. CASE r \in PlainRows /\ s \in PlainRows
  BY <1>1, RowFields DEF PlainRows
<1>2. CASE r \in LongRows /\ s \in LongRows
  BY <1>2, RowFields, KeysDiffer DEF LongRows
<1>3. ASSUME NEW x \in PlainRows, NEW y \in LongRows
      PROVE  x.keyword # y.keyword
  <2>1. x.keyword \in PlainKeys
    BY RowFields DEF PlainKeys, PlainRows
  <2>2. y.keyword \notin PlainKeys
    BY RowFields, KeysDiffer DEF LongRows
  <2> QED
    BY <2>1, <2>2
<1> QED
  BY <1>1, <1>2, <1>3, TwoKinds

\* Whether a line is about the token, and what it says.
About(token, ln) == {row \in parse_entry(ln) : row.token = token}
Said(token, ln) == Setting(CHOOSE row \in About(token, ln) : TRUE, ln.text)

LEMMA AboutOne ==
  ASSUME NEW ln, NEW row \in parse_entry(ln)
  PROVE  /\ About(row.token, ln) = {row}
         /\ Said(row.token, ln) = Setting(row, ln.text)
         /\ \A token : token # row.token => About(token, ln) = {}
<1>1. ASSUME NEW r \in parse_entry(ln)
      PROVE  r = row
  BY <1>1, OneRow DEF parse_entry
<1>2. About(row.token, ln) = {row}
  BY <1>1 DEF About
<1>3. \A token : token # row.token => About(token, ln) = {}
  BY <1>1 DEF About
<1>4. (CHOOSE r \in About(row.token, ln) : TRUE) = row
  BY <1>2
<1> QED
  BY <1>2, <1>3, <1>4 DEF Said

LEMMA AboutNone ==
  ASSUME NEW ln, parse_entry(ln) = {}, NEW token
  PROVE  About(token, ln) = {}
  BY DEF About

\* Where the device lines of a file f are, and what its lines say.
Devices(f) == {i \in 1..Len(f) : About("DEVICE", f[i]) # {}}

\* The line i is the last of those from first to last that is about the token.
LastAbout(f, token, first, last, i) ==
  /\ i \in first..last /\ About(token, f[i]) # {}
  /\ \A j \in first..last : About(token, f[j]) # {} => j <= i

SaysIn(f, token, first, last, otherwise) ==
  LET at == {i \in first..last : About(token, f[i]) # {}}
  IN IF at = {} THEN otherwise
     ELSE Said(token, f[CHOOSE i \in at : \A j \in at : j <= i])

LEMMA SaysIsSaysIn ==
  ASSUME NEW token, NEW first, NEW last, NEW otherwise
  PROVE  Says(token, first, last, otherwise) = SaysIn(file, token, first, last, otherwise)
  BY DEF Says, SaysIn, About, Said

LEMMA DevicesAre == DeviceLines = Devices(file)
<1>1. \A i : (\E row \in parse_entry(file[i]) : row.token = "DEVICE") <=> About("DEVICE", file[i]) # {}
  BY DEF About
<1> QED
  BY <1>1 DEF DeviceLines, Devices

LEMMA SaysNothing ==
  ASSUME NEW f, NEW token, NEW first \in Int, NEW last \in Int, NEW otherwise,
         \A i \in first..last : About(token, f[i]) = {}
  PROVE  SaysIn(f, token, first, last, otherwise) = otherwise
  BY DEF SaysIn

LEMMA SaysLast ==
  ASSUME NEW f, NEW token, NEW first \in Int, NEW last \in Int, NEW otherwise, NEW i,
         LastAbout(f, token, first, last, i)
  PROVE  SaysIn(f, token, first, last, otherwise) = Said(token, f[i])
<1> DEFINE at == {j \in first..last : About(token, f[j]) # {}}
           k == CHOOSE j \in at : \A h \in at : h <= j
<1>1. i \in at /\ \A h \in at : h <= i
  BY DEF LastAbout
<1>2. k \in at /\ \A h \in at : h <= k
  BY <1>1
<1>3. i \in Int /\ k \in Int
  BY <1>1, <1>2
<1>4. i <= k /\ k <= i
  BY <1>1, <1>2
<1>5. k = i
  BY <1>3, <1>4
<1>6. at # {}
  BY <1>1
<1>7. SaysIn(f, token, first, last, otherwise) = Said(token, f[k])
  BY <1>6 DEF SaysIn
<1> HIDE DEF k
<1> QED
  BY <1>5, <1>7

-----------------------------------------------------------------------------
(* What a range of lines says *)

\* What the lines from first to last say is v, without the choice of a last one.
Tells(f, token, first, last, otherwise, v) ==
  \/ v = otherwise /\ \A i \in first..last : About(token, f[i]) = {}
  \/ \E i : LastAbout(f, token, first, last, i) /\ v = Said(token, f[i])

LEMMA TellsSays ==
  ASSUME NEW f, NEW token, NEW first \in Int, NEW last \in Int, NEW otherwise, NEW v,
         Tells(f, token, first, last, otherwise, v)
  PROVE  v = SaysIn(f, token, first, last, otherwise)
  BY SaysNothing, SaysLast DEF Tells

\* Only what the lines from first to last are matters.
LEMMA TellsSame ==
  ASSUME NEW f, NEW g, NEW token, NEW first \in Int, NEW last \in Int, NEW otherwise, NEW v,
         \A i \in first..last : f[i] = g[i], Tells(f, token, first, last, otherwise, v)
  PROVE  Tells(g, token, first, last, otherwise, v)
<1>1. CASE v = otherwise /\ \A i \in first..last : About(token, f[i]) = {}
  BY <1>1 DEF Tells
<1>2. ASSUME NEW i, LastAbout(f, token, first, last, i), v = Said(token, f[i])
      PROVE  Tells(g, token, first, last, otherwise, v)
  <2>1. LastAbout(g, token, first, last, i) /\ f[i] = g[i]
    BY <1>2 DEF LastAbout
  <2> QED
    BY <1>2, <2>1 DEF Tells
<1> QED
  BY <1>1, <1>2 DEF Tells

\* A line more that is about something else.
LEMMA TellsMore ==
  ASSUME NEW f, NEW token, NEW first \in Int, NEW last \in Int, NEW otherwise, NEW v,
         Tells(f, token, first, last, otherwise, v), About(token, f[last + 1]) = {}
  PROVE  Tells(f, token, first, last + 1, otherwise, v)
<1>1. CASE v = otherwise /\ \A i \in first..last : About(token, f[i]) = {}
  <2>1. \A i \in first..(last + 1) : i \in first..last \/ i = last + 1
    OBVIOUS
  <2> QED
    BY <1>1, <2>1 DEF Tells
<1>2. ASSUME NEW i, LastAbout(f, token, first, last, i), v = Said(token, f[i])
      PROVE  Tells(f, token, first, last + 1, otherwise, v)
  <2>1. \A j \in first..(last + 1) : j \in first..last \/ j = last + 1
    OBVIOUS
  <2>2. LastAbout(f, token, first, last + 1, i)
    BY <1>2, <2>1 DEF LastAbout
  <2> QED
    BY <1>2, <2>2 DEF Tells
<1> QED
  BY <1>1, <1>2 DEF Tells

\* ... and one that is about it.
LEMMA TellsNow ==
  ASSUME NEW f, NEW token, NEW first \in Int, NEW last \in Int, NEW otherwise,
         first <= last, About(token, f[last]) # {}
  PROVE  Tells(f, token, first, last, otherwise, Said(token, f[last]))
<1>1. LastAbout(f, token, first, last, last)
  BY DEF LastAbout
<1> QED
  BY <1>1 DEF Tells

\* A line more, whatever it is about.
LEMMA TellsAppended ==
  ASSUME NEW f \in Seq(Lines), NEW ln \in Lines, NEW token, NEW first \in 1..(Len(f) + 1),
         NEW otherwise, NEW v, NEW w, Tells(f, token, first, Len(f), otherwise, v),
         w = IF About(token, ln) # {} THEN Said(token, ln) ELSE v
  PROVE  Tells(Append(f, ln), token, first, Len(f) + 1, otherwise, w)
<1> DEFINE g == Append(f, ln)
<1>1. /\ Len(f) \in Int /\ Len(f) + 1 \in Int /\ first \in Int /\ first <= Len(f) + 1
      /\ \A i \in first..Len(f) : f[i] = g[i]
      /\ g[Len(f) + 1] = ln
  OBVIOUS
<1> HIDE DEF g
<1>2. CASE About(token, ln) = {}
  <2>1. Tells(g, token, first, Len(f), otherwise, v)
    BY <1>1, TellsSame
  <2>2. Tells(g, token, first, Len(f) + 1, otherwise, v)
    BY <1>1, <1>2, <2>1, TellsMore
  <2> QED
    BY <1>2, <2>2 DEF g
<1>3. CASE About(token, ln) # {}
  <2>1. Tells(g, token, first, Len(f) + 1, otherwise, Said(token, g[Len(f) + 1]))
    BY <1>1, <1>3, TellsNow
  <2> QED
    BY <1>1, <1>3, <2>1 DEF g
<1> QED
  BY <1>2, <1>3

-----------------------------------------------------------------------------
(* Where the ports begin *)

\* The k device lines of f are at[1] to at[k].
Begun(f, k, at) ==
  /\ at \in [1..k -> 1..Len(f)]
  /\ \A n, m \in 1..k : n < m => at[n] < at[m]
  /\ \A n \in 1..k : About("DEVICE", f[at[n]]) # {}
  /\ \A i \in 1..Len(f) : About("DEVICE", f[i]) # {} => \E n \in 1..k : at[n] = i

LEMMA Counted ==
  ASSUME NEW f \in Seq(Lines), NEW k \in Nat, NEW at, Begun(f, k, at), NEW m \in 1..k
  PROVE  Cardinality({j \in Devices(f) : j <= at[m]}) = m
<1> DEFINE T == {j \in Devices(f) : j <= at[m]}
           g == [n \in 1..m |-> at[n]]
<1>1. ASSUME NEW n \in 1..m PROVE at[n] \in T
  <2>1. n \in 1..k /\ at[n] \in 1..Len(f) /\ at[m] \in 1..Len(f)
    BY DEF Begun
  <2>2. n = m \/ n < m
    OBVIOUS
  <2>3. at[n] <= at[m]
    BY <2>1, <2>2 DEF Begun
  <2> QED
    BY <2>1, <2>3 DEF Begun, Devices
<1>2. g \in [1..m -> T]
  BY <1>1
<1>3. ASSUME NEW a \in 1..m, NEW b \in 1..m, g[a] = g[b] PROVE a = b
  <2>1. a \in 1..k /\ b \in 1..k /\ at[a] = at[b] /\ at[a] \in Int
    BY <1>3 DEF Begun
  <2>2. ~(a < b) /\ ~(b < a)
    BY <2>1 DEF Begun
  <2> QED
    BY <2>2
<1>4. ASSUME NEW j \in T PROVE \E n \in 1..m : g[n] = j
  <2>1. PICK n \in 1..k : at[n] = j
    BY DEF Begun, Devices
  <2>2. at[n] \in Int /\ at[m] \in Int /\ at[n] <= at[m]
    BY <2>1 DEF Begun
  <2>3. ~(m < n)
    BY <2>2 DEF Begun
  <2>4. n \in 1..m
    BY <2>3
  <2> QED
    BY <2>1, <2>4
<1> HIDE DEF g, T
<1>5. g \in Bijection(1..m, T)
  BY <1>2, <1>3, <1>4 DEF Bijection, Injection, Surjection, IsInjective
<1>6. ExistsBijection(1..m, T) /\ m \in Nat
  BY <1>5 DEF ExistsBijection
<1> QED
  BY <1>6, FS_CountingElements DEF T

\* The property's Nth and first, and what they are.
PlaceOf(D, n) == CHOOSE i \in D : n = Cardinality({j \in D : j <= i})
FirstOf(D) == CHOOSE i \in D : \A j \in D : i <= j

LEMMA NthIs ==
  ASSUME NEW f \in Seq(Lines), NEW k \in Nat, NEW at, Begun(f, k, at), NEW m \in 1..k
  PROVE  PlaceOf(Devices(f), m) = at[m]
<1>1. at[m] \in Devices(f) /\ m = Cardinality({j \in Devices(f) : j <= at[m]})
  <2>1. at[m] \in 1..Len(f) /\ About("DEVICE", f[at[m]]) # {}
    BY DEF Begun
  <2>2. Cardinality({j \in Devices(f) : j <= at[m]}) = m
    BY Counted
  <2> QED
    BY <2>1, <2>2 DEF Devices
<1>2. ASSUME NEW i \in Devices(f), m = Cardinality({j \in Devices(f) : j <= i})
      PROVE  i = at[m]
  <2>1. PICK n \in 1..k : at[n] = i
    BY DEF Begun, Devices
  <2>2. Cardinality({j \in Devices(f) : j <= at[n]}) = n
    BY Counted
  <2> QED
    BY <1>2, <2>1, <2>2
<1> QED
  BY <1>1, <1>2 DEF PlaceOf

LEMMA FirstIs ==
  ASSUME NEW f \in Seq(Lines), NEW k \in Nat, NEW at, Begun(f, k, at), k >= 1
  PROVE  FirstOf(Devices(f)) = at[1]
<1>1. at[1] \in Devices(f)
  BY DEF Begun, Devices
<1>2. ASSUME NEW j \in Devices(f) PROVE at[1] <= j
  <2>1. PICK n \in 1..k : at[n] = j
    BY DEF Begun, Devices
  <2>2. at[1] \in Int /\ at[n] \in Int /\ 1 \in 1..k
    BY DEF Begun
  <2>3. n = 1 \/ 1 < n
    OBVIOUS
  <2> QED
    BY <2>1, <2>2, <2>3 DEF Begun
<1>3. ASSUME NEW i \in Devices(f), \A j \in Devices(f) : i <= j
      PROVE  i = at[1]
  <2>1. i \in Int /\ at[1] \in Int
    BY <1>1 DEF Devices
  <2> QED
    BY <1>1, <1>2, <1>3, <2>1
<1> QED
  BY <1>1, <1>2, <1>3 DEF FirstOf

-----------------------------------------------------------------------------
(* What is written where *)

\* Where what belongs to the port n ends, and to the defaults.
EndOf(f, k, at, n) == IF n = k THEN Len(f) ELSE at[n + 1] - 1
EndOfDefaults(f, k, at) == IF k = 0 THEN Len(f) ELSE at[1]

DefaultsWritten(f, k, at, d) ==
  \A token \in PortKeyword :
    Tells(f, token, 1, EndOfDefaults(f, k, at), Builtin[token], d[token])

PortWritten(f, k, at, d, set, n) ==
  \A token \in PortKeyword : Tells(f, token, at[n], EndOf(f, k, at, n), d[token], set[token])

Written(f, p, d, at) ==
  /\ Begun(f, Len(p), at)
  /\ DefaultsWritten(f, Len(p), at, d)
  /\ \A n \in 1..Len(p) : PortWritten(f, Len(p), at, d, p[n].set, n)

LEMMA WrittenIsProperty ==
  ASSUME file \in Seq(Lines), ports \in Seq(PortRecord), NEW at, Written(file, ports, defaults, at)
  PROVE  PortsAsWritten
<1> DEFINE k == Len(ports)
           first == FirstOf(DeviceLines)
           Nth(n) == PlaceOf(DeviceLines, n)
           last(n) == IF n = k THEN Len(file) ELSE Nth(n + 1) - 1
<1>1. k \in Nat /\ Begun(file, k, at) /\ Len(file) \in Nat
  BY DEF Written
<1>2. ASSUME NEW n \in 1..k PROVE Nth(n) = at[n]
  BY <1>1, NthIs, DevicesAre
<1>3. ASSUME k >= 1 PROVE first = at[1]
  BY <1>1, <1>3, FirstIs, DevicesAre
<1>4. ASSUME NEW n \in 1..k, NEW token \in PortKeyword
      PROVE  ports[n].set[token] = Says(token, Nth(n), last(n), Says(token, 1, first, Builtin[token]))
  <2>1. k >= 1 /\ n \in 1..k /\ (n # k => n + 1 \in 1..k)
    BY <1>1
  <2>2. Nth(n) = at[n] /\ first = at[1]
    BY <1>2, <1>3, <2>1
  <2>3. last(n) = EndOf(file, k, at, n)
    <3> HIDE DEF Nth
    <3>1. n # k => Nth(n + 1) = at[n + 1]
      BY <1>2, <2>1
    <3> QED
      BY <3>1 DEF EndOf
  <2> HIDE DEF Nth, first, last
  <2>4. at[n] \in Int /\ at[1] \in Int /\ EndOf(file, k, at, n) \in Int
    BY <1>1, <2>1 DEF Begun, EndOf
  <2>5. EndOfDefaults(file, k, at) = at[1]
    BY <1>1, <2>1 DEF EndOfDefaults
  <2>6. Tells(file, token, 1, at[1], Builtin[token], defaults[token])
    BY <2>5 DEF Written, DefaultsWritten
  <2>7. defaults[token] = SaysIn(file, token, 1, at[1], Builtin[token])
    BY <2>4, <2>6, TellsSays
  <2>8. Tells(file, token, at[n], EndOf(file, k, at, n), defaults[token], ports[n].set[token])
    BY DEF Written, PortWritten
  <2>9. ports[n].set[token] = SaysIn(file, token, at[n], EndOf(file, k, at, n), defaults[token])
    BY <2>4, <2>8, TellsSays
  <2> QED
    BY <2>2, <2>3, <2>7, <2>9, SaysIsSaysIn
<1> QED
  BY <1>4 DEF PortsAsWritten, FirstOf, PlaceOf

LEMMA NothingWritten == Written(<<>>, <<>>, Builtin, <<>>)
<1>1. Len(<<>>) = 0 /\ 1..0 = {}
  OBVIOUS
<1>2. Begun(<<>>, 0, <<>>)
  BY <1>1 DEF Begun
<1>3. DefaultsWritten(<<>>, 0, <<>>, Builtin)
  BY <1>1 DEF DefaultsWritten, EndOfDefaults, Tells
<1> QED
  BY <1>1, <1>2, <1>3 DEF Written

\* A line that starts no port: what it says goes where the last lines went.
LEMMA LineWritten ==
  ASSUME NEW f \in Seq(Lines), NEW p \in Seq(PortRecord), NEW d, NEW at, Written(f, p, d, at),
         NEW ln \in Lines, About("DEVICE", ln) = {},
         NEW q \in Seq(PortRecord), Len(q) = Len(p), NEW e,
         \A token \in PortKeyword :
           /\ e[token] = IF Len(p) = 0 /\ About(token, ln) # {} THEN Said(token, ln) ELSE d[token]
           /\ \A n \in 1..Len(p) :
                q[n].set[token] = IF n = Len(p) /\ About(token, ln) # {} THEN Said(token, ln)
                                  ELSE p[n].set[token]
  PROVE  Written(Append(f, ln), q, e, at)
<1> DEFINE g == Append(f, ln)
           k == Len(p)
<1>1. /\ k \in Nat /\ Len(f) \in Nat /\ Len(g) = Len(f) + 1
      /\ \A i \in 1..Len(f) : g[i] = f[i]
      /\ g[Len(f) + 1] = ln
  OBVIOUS
<1>2. Begun(f, k, at) /\ DefaultsWritten(f, k, at, d)
      /\ \A n \in 1..k : PortWritten(f, k, at, d, p[n].set, n)
  BY DEF Written
<1> HIDE DEF g
<1>3. \A n \in 1..k : at[n] \in 1..Len(f)
  BY <1>2 DEF Begun
<1>4. Begun(g, k, at)
  <2>1. at \in [1..k -> 1..Len(g)]
    BY <1>1, <1>2 DEF Begun
  <2>2. \A n \in 1..k : About("DEVICE", g[at[n]]) # {}
    BY <1>1, <1>2, <1>3 DEF Begun
  <2>3. ASSUME NEW i \in 1..Len(g), About("DEVICE", g[i]) # {} PROVE \E n \in 1..k : at[n] = i
    <3>1. i \in 1..Len(f)
      BY <1>1, <2>3
    <3> QED
      BY <1>1, <1>2, <2>3, <3>1 DEF Begun
  <2> QED
    BY <1>2, <2>1, <2>2, <2>3 DEF Begun
<1>5. DefaultsWritten(g, k, at, e)
  <2> SUFFICES ASSUME NEW token \in PortKeyword
               PROVE  Tells(g, token, 1, EndOfDefaults(g, k, at), Builtin[token], e[token])
    BY DEF DefaultsWritten
  <2>1. Tells(f, token, 1, EndOfDefaults(f, k, at), Builtin[token], d[token])
    BY <1>2 DEF DefaultsWritten
  <2>2. CASE k = 0
    <3>1. EndOfDefaults(f, k, at) = Len(f) /\ EndOfDefaults(g, k, at) = Len(f) + 1
      BY <1>1, <2>2 DEF EndOfDefaults
    <3>2. e[token] = IF About(token, ln) # {} THEN Said(token, ln) ELSE d[token]
      BY <2>2
    <3>3. 1 \in 1..(Len(f) + 1) /\ Tells(f, token, 1, Len(f), Builtin[token], d[token])
      BY <1>1, <2>1, <3>1
    <3>4. Tells(Append(f, ln), token, 1, Len(f) + 1, Builtin[token], e[token])
      BY <3>2, <3>3, TellsAppended
    <3> QED
      BY <3>1, <3>4 DEF g
  <2>3. CASE k # 0
    <3>1. EndOfDefaults(f, k, at) = at[1] /\ EndOfDefaults(g, k, at) = at[1] /\ e[token] = d[token]
      BY <2>3 DEF EndOfDefaults
    <3>2. at[1] \in Int /\ \A i \in 1..at[1] : f[i] = g[i]
      BY <1>1, <1>3, <2>3
    <3>3. Tells(f, token, 1, at[1], Builtin[token], d[token])
      BY <2>1, <3>1
    <3>4. Tells(g, token, 1, at[1], Builtin[token], d[token])
      BY <3>2, <3>3, TellsSame
    <3> QED
      BY <3>1, <3>4
  <2> QED
    BY <2>2, <2>3
<1>6. ASSUME NEW n \in 1..k PROVE PortWritten(g, k, at, e, q[n].set, n)
  <2> SUFFICES ASSUME NEW token \in PortKeyword
               PROVE  Tells(g, token, at[n], EndOf(g, k, at, n), e[token], q[n].set[token])
    BY DEF PortWritten
  <2> DEFINE v == p[n].set[token]
             w == q[n].set[token]
  <2>0. k # 0 /\ at[n] \in 1..Len(f) /\ (n # k => at[n + 1] \in 1..Len(f))
    BY <1>1, <1>3
  <2>1. Tells(f, token, at[n], EndOf(f, k, at, n), d[token], v)
    BY <1>2 DEF PortWritten
  <2>2. e[token] = d[token]
    BY <2>0
  <2>3. w = IF n = k /\ About(token, ln) # {} THEN Said(token, ln) ELSE v
    OBVIOUS
  <2> HIDE DEF v, w
  <2>4. CASE n = k
    <3>1. EndOf(f, k, at, n) = Len(f) /\ EndOf(g, k, at, n) = Len(f) + 1
      BY <1>1, <2>4 DEF EndOf
    <3>2. at[n] \in 1..(Len(f) + 1) /\ Tells(f, token, at[n], Len(f), d[token], v)
      BY <1>1, <2>0, <2>1, <3>1
    <3>3. w = IF About(token, ln) # {} THEN Said(token, ln) ELSE v
      BY <2>3, <2>4
    <3>4. Tells(Append(f, ln), token, at[n], Len(f) + 1, d[token], w)
      BY <3>2, <3>3, TellsAppended
    <3> QED
      BY <2>2, <3>1, <3>4 DEF g, w
  <2>5. CASE n # k
    <3>1. EndOf(f, k, at, n) = at[n + 1] - 1 /\ EndOf(g, k, at, n) = at[n + 1] - 1 /\ w = v
      BY <2>3, <2>5 DEF EndOf
    <3>2. at[n] \in Int /\ at[n + 1] - 1 \in Int /\ \A i \in at[n]..(at[n + 1] - 1) : f[i] = g[i]
      <4>1. at[n] \in 1..Len(f) /\ at[n + 1] \in 1..Len(f)
        BY <2>0, <2>5
      <4>2. \A i \in at[n]..(at[n + 1] - 1) : i \in 1..Len(f)
        BY <1>1, <4>1
      <4> QED
        BY <1>1, <4>1, <4>2
    <3>3. Tells(f, token, at[n], at[n + 1] - 1, d[token], v)
      BY <2>1, <3>1
    <3>4. Tells(g, token, at[n], at[n + 1] - 1, d[token], v)
      BY <3>2, <3>3, TellsSame
    <3> QED
      BY <2>2, <3>1, <3>4 DEF w
  <2> QED
    BY <2>4, <2>5
<1> QED
  BY <1>4, <1>5, <1>6 DEF Written, g

\* A device line ends what belongs to the port before it, or to the defaults.
LEMMA PortWrittenFirst ==
  ASSUME NEW f \in Seq(Lines), NEW p \in Seq(PortRecord), NEW d \in Settings, NEW at,
         Written(f, p, d, at),
         NEW ln \in Lines, About("DEVICE", ln) # {},
         \A token \in PortKeyword : About(token, ln) = {},
         NEW r \in PortRecord, r.set = d
  PROVE  \E new : Written(Append(f, ln), Append(p, r), d, new)
<1> DEFINE g == Append(f, ln)
           q == Append(p, r)
           k == Len(p)
           new == [n \in 1..(k + 1) |-> IF n = k + 1 THEN Len(f) + 1 ELSE at[n]]
<1>1. /\ k \in Nat /\ Len(f) \in Nat /\ Len(g) = Len(f) + 1 /\ Len(q) = k + 1
      /\ \A i \in 1..Len(f) : g[i] = f[i]
      /\ g[Len(f) + 1] = ln
      /\ \A n \in 1..k : q[n] = p[n]
      /\ q[k + 1] = r
  OBVIOUS
<1>2. Begun(f, k, at) /\ DefaultsWritten(f, k, at, d)
      /\ \A n \in 1..k : PortWritten(f, k, at, d, p[n].set, n)
  BY DEF Written
<1>3. \A n \in 1..k : at[n] \in 1..Len(f) /\ new[n] = at[n]
  BY <1>1, <1>2 DEF Begun
<1>4. new[k + 1] = Len(f) + 1 /\ DOMAIN new = 1..(k + 1) /\ new = [n \in 1..(k + 1) |-> new[n]]
  BY <1>1
<1> HIDE DEF g, q, new
<1>5. Begun(g, k + 1, new)
  <2>1. new \in [1..(k + 1) -> 1..Len(g)]
    <3>1. ASSUME NEW n \in 1..(k + 1) PROVE new[n] \in 1..Len(g)
      <4>1. CASE n \in 1..k
        <5>1. new[n] \in 1..Len(f)
          BY <1>3, <4>1
        <5> QED
          BY <1>1, <5>1
      <4>2. CASE n = k + 1
        BY <1>1, <1>4, <4>2
      <4> QED
        BY <1>1, <4>1, <4>2
    <3> QED
      BY <1>4, <3>1
  <2>2. ASSUME NEW n \in 1..(k + 1), NEW m \in 1..(k + 1), n < m PROVE new[n] < new[m]
    <3>1. n \in 1..k /\ (m \in 1..k \/ m = k + 1)
      BY <1>1, <2>2
    <3>2. CASE m \in 1..k
      BY <1>2, <1>3, <2>2, <3>1, <3>2 DEF Begun
    <3>3. CASE m = k + 1
      BY <1>1, <1>3, <1>4, <3>1, <3>3
    <3> QED
      BY <3>1, <3>2, <3>3
  <2>3. ASSUME NEW n \in 1..(k + 1) PROVE About("DEVICE", g[new[n]]) # {}
    <3>1. CASE n \in 1..k
      BY <1>1, <1>2, <1>3, <3>1 DEF Begun
    <3>2. CASE n = k + 1
      BY <1>1, <1>4, <3>2
    <3> QED
      BY <1>1, <3>1, <3>2
  <2>4. ASSUME NEW i \in 1..Len(g), About("DEVICE", g[i]) # {} PROVE \E n \in 1..(k + 1) : new[n] = i
    <3>1. CASE i = Len(f) + 1
      <4>1. k + 1 \in 1..(k + 1)
        BY <1>1
      <4> QED
        BY <1>4, <3>1, <4>1
    <3>2. CASE i \in 1..Len(f)
      <4>1. PICK n \in 1..k : at[n] = i
        BY <1>1, <1>2, <2>4, <3>2 DEF Begun
      <4>2. n \in 1..(k + 1) /\ new[n] = i
        BY <1>1, <1>3, <4>1
      <4> QED
        BY <4>2
    <3> QED
      BY <1>1, <3>1, <3>2
  <2> QED
    BY <2>1, <2>2, <2>3, <2>4 DEF Begun
<1>6. DefaultsWritten(g, k + 1, new, d)
  <2> SUFFICES ASSUME NEW token \in PortKeyword
               PROVE  Tells(g, token, 1, new[1], Builtin[token], d[token])
    BY <1>1 DEF DefaultsWritten, EndOfDefaults
  <2>1. Tells(f, token, 1, EndOfDefaults(f, k, at), Builtin[token], d[token])
    BY <1>2 DEF DefaultsWritten
  <2>2. CASE k = 0
    <3>1. EndOfDefaults(f, k, at) = Len(f) /\ new[1] = Len(f) + 1
      BY <1>1, <1>4, <2>2 DEF EndOfDefaults
    <3>2. 1 \in 1..(Len(f) + 1) /\ Tells(f, token, 1, Len(f), Builtin[token], d[token])
      BY <1>1, <2>1, <3>1
    <3>3. d[token] = IF About(token, ln) # {} THEN Said(token, ln) ELSE d[token]
      OBVIOUS
    <3>4. Tells(Append(f, ln), token, 1, Len(f) + 1, Builtin[token], d[token])
      BY <3>2, <3>3, TellsAppended
    <3> QED
      BY <3>1, <3>4 DEF g
  <2>3. CASE k # 0
    <3>1. EndOfDefaults(f, k, at) = at[1] /\ new[1] = at[1] /\ at[1] \in 1..Len(f)
      BY <1>1, <1>3, <2>3 DEF EndOfDefaults
    <3>2. at[1] \in Int /\ \A i \in 1..at[1] : f[i] = g[i]
      BY <1>1, <3>1
    <3>3. Tells(f, token, 1, at[1], Builtin[token], d[token])
      BY <2>1, <3>1
    <3>4. Tells(g, token, 1, at[1], Builtin[token], d[token])
      BY <3>2, <3>3, TellsSame
    <3> QED
      BY <3>1, <3>4
  <2> QED
    BY <2>2, <2>3
<1>7. ASSUME NEW n \in 1..k PROVE PortWritten(g, k + 1, new, d, q[n].set, n)
  <2> SUFFICES ASSUME NEW token \in PortKeyword
               PROVE  Tells(g, token, at[n], EndOf(f, k, at, n), d[token], p[n].set[token])
    <3>1. EndOf(g, k + 1, new, n) = EndOf(f, k, at, n)
      <4>1. n # k + 1 /\ EndOf(g, k + 1, new, n) = new[n + 1] - 1
        BY <1>1 DEF EndOf
      <4>2. CASE n = k
        BY <1>1, <1>4, <4>1, <4>2 DEF EndOf
      <4>3. CASE n # k
        <5>1. n + 1 \in 1..k
          BY <1>1, <4>3
        <5> QED
          BY <1>3, <4>1, <4>3, <5>1 DEF EndOf
      <4> QED
        BY <4>2, <4>3
    <3>2. new[n] = at[n] /\ q[n] = p[n]
      BY <1>1, <1>3
    <3> QED
      BY <3>1, <3>2 DEF PortWritten
  <2>1. Tells(f, token, at[n], EndOf(f, k, at, n), d[token], p[n].set[token])
    BY <1>2 DEF PortWritten
  <2>2. at[n] \in 1..Len(f) /\ EndOf(f, k, at, n) \in Int /\ EndOf(f, k, at, n) <= Len(f)
    <3>1. n # k => at[n + 1] \in 1..Len(f)
      BY <1>1, <1>3
    <3> QED
      BY <1>1, <1>3, <3>1 DEF EndOf
  <2>3. \A i \in at[n]..EndOf(f, k, at, n) : i \in 1..Len(f)
    BY <1>1, <2>2
  <2>4. \A i \in at[n]..EndOf(f, k, at, n) : f[i] = g[i]
    BY <1>1, <2>3
  <2>5. at[n] \in Int
    BY <2>2
  <2> QED
    BY <2>1, <2>2, <2>4, <2>5, TellsSame
<1>8. PortWritten(g, k + 1, new, d, q[k + 1].set, k + 1)
  <2>1. EndOf(g, k + 1, new, k + 1) = Len(f) + 1 /\ q[k + 1].set = d
    BY <1>1 DEF EndOf
  <2>2. ASSUME NEW token \in PortKeyword
        PROVE  Tells(g, token, Len(f) + 1, Len(f) + 1, d[token], d[token])
    <3>1. \A i \in (Len(f) + 1)..(Len(f) + 1) : i = Len(f) + 1
      BY <1>1
    <3> QED
      BY <1>1, <3>1 DEF Tells
  <2> QED
    BY <1>4, <2>1, <2>2 DEF PortWritten
<1>9. \A n \in 1..(k + 1) : n \in 1..k \/ n = k + 1
  BY <1>1
<1>10. Written(g, q, d, new)
  BY <1>1, <1>5, <1>6, <1>7, <1>8, <1>9 DEF Written
<1> QED
  BY <1>10 DEF g, q

-----------------------------------------------------------------------------
(* The steps *)

WrittenInv ==
  /\ file \in Seq(Lines)
  /\ phase = "reading" => \E at : Written(file, ports, defaults, at)

LEMMA WrittenSkip ==
  ASSUME ConfInv, WrittenInv, NEW ln \in Lines, SkipLine(ln)
  PROVE  WrittenInv'
<1>1. phase = "reading" /\ file \in Seq(Lines) /\ ports \in Seq(PortRecord)
  BY DEF SkipLine, More, ConfInv, PortsOK, WrittenInv
<1>2. PICK at : Written(file, ports, defaults, at)
  BY <1>1 DEF WrittenInv
<1>3. \A token : About(token, ln) = {}
  BY AboutNone DEF SkipLine
<1>4. Written(Append(file, ln), ports, defaults, at)
  BY <1>1, <1>2, <1>3, LineWritten
<1>5. file' = Append(file, ln) /\ ports' = ports /\ defaults' = defaults
  BY DEF SkipLine
<1> QED
  BY <1>1, <1>4, <1>5 DEF WrittenInv

LEMMA WrittenServer ==
  ASSUME ConfInv, WrittenInv, NEW ln \in Lines, SetServer(ln)
  PROVE  WrittenInv'
<1>1. phase = "reading" /\ file \in Seq(Lines) /\ ports \in Seq(PortRecord)
  BY DEF SetServer, More, ConfInv, PortsOK, WrittenInv
<1>2. PICK at : Written(file, ports, defaults, at)
  BY <1>1 DEF WrittenInv
<1>3. PICK row \in parse_entry(ln) :
         /\ row.token \in DOMAIN conf
         /\ \/ exit
            \/ file' = Append(file, ln) /\ UNCHANGED <<phase, defaults, ports>>
  BY DEF SetServer
<1>4. row.token \notin PortKeyword \union {"DEVICE"}
  BY <1>3 DEF ConfInv, ServerOK, ConfKey, Number, Switch, Name, PortKeyword
<1>5. \A token \in PortKeyword \union {"DEVICE"} : About(token, ln) = {}
  BY <1>4, AboutOne
<1>6. Written(Append(file, ln), ports, defaults, at)
  BY <1>1, <1>2, <1>5, LineWritten
<1>7. CASE exit
  BY <1>7 DEF exit, WrittenInv
<1>8. CASE file' = Append(file, ln) /\ UNCHANGED <<phase, defaults, ports>>
  BY <1>1, <1>6, <1>8 DEF WrittenInv
<1> QED
  BY <1>3, <1>7, <1>8

LEMMA WrittenDevice ==
  ASSUME ConfInv, WrittenInv, NEW ln \in Lines, add_serial_port_info(ln)
  PROVE  WrittenInv'
<1>1. phase = "reading" /\ file \in Seq(Lines) /\ ports \in Seq(PortRecord) /\ defaults \in Settings
  BY DEF add_serial_port_info, More, ConfInv, PortsOK, WrittenInv
<1>2. PICK at : Written(file, ports, defaults, at)
  BY <1>1 DEF WrittenInv
<1>3. PICK row \in parse_entry(ln) : row.token = "DEVICE"
  BY DEF add_serial_port_info
<1>4. About("DEVICE", ln) # {} /\ \A token \in PortKeyword : About(token, ln) = {}
  <2>1. "DEVICE" \notin PortKeyword
    BY DEF PortKeyword
  <2> QED
    BY <1>3, <2>1, AboutOne
<1> DEFINE r == [device |-> ln.text.word, set |-> defaults]
<1>5. r \in PortRecord /\ r.set = defaults
  BY <1>1 DEF PortRecord, Device
<1> HIDE DEF r
<1>6. PICK new : Written(Append(file, ln), Append(ports, r), defaults, new)
  BY <1>1, <1>2, <1>4, <1>5, PortWrittenFirst
<1>7. CASE exit
  BY <1>7 DEF exit, WrittenInv
<1>8. CASE ports' = Append(ports, r) /\ file' = Append(file, ln) /\ UNCHANGED <<phase, defaults>>
  BY <1>1, <1>6, <1>8 DEF WrittenInv
<1> QED
  BY <1>7, <1>8 DEF add_serial_port_info, r

LEMMA WrittenPort ==
  ASSUME ConfInv, ConfInv', WrittenInv, NEW ln \in Lines, SetPort(ln)
  PROVE  WrittenInv'
<1>1. phase = "reading" /\ file \in Seq(Lines) /\ ports \in Seq(PortRecord) /\ defaults \in Settings
      /\ ports' \in Seq(PortRecord)
  BY DEF SetPort, More, ConfInv, PortsOK, WrittenInv
<1>2. PICK at : Written(file, ports, defaults, at)
  BY <1>1 DEF WrittenInv
<1>3. PICK row \in parse_entry(ln) :
         /\ row.token \in PortKeyword
         /\ \/ exit
            \/ /\ file' = Append(file, ln) /\ UNCHANGED phase
               /\ \/ /\ ports = <<>> /\ UNCHANGED ports
                     /\ defaults' = [defaults EXCEPT ![row.token] = Setting(row, ln.text)]
                  \/ /\ ports # <<>> /\ UNCHANGED defaults
                     /\ ports' = [ports EXCEPT ![Len(ports)].set[row.token] = Setting(row, ln.text)]
  BY DEF SetPort
<1> DEFINE value == Setting(row, ln.text)
<1>4. /\ About(row.token, ln) # {} /\ Said(row.token, ln) = value
      /\ \A token : token # row.token => About(token, ln) = {}
  BY AboutOne
<1>5. About("DEVICE", ln) = {}
  <2>1. "DEVICE" \notin PortKeyword
    BY DEF PortKeyword
  <2> QED
    BY <1>3, <1>4, <2>1
<1>6. CASE exit
  BY <1>6 DEF exit, WrittenInv
<1> HIDE DEF value
<1>7. CASE /\ file' = Append(file, ln) /\ UNCHANGED phase /\ ports = <<>> /\ UNCHANGED ports
           /\ defaults' = [defaults EXCEPT ![row.token] = value]
  <2>1. ASSUME NEW token \in PortKeyword
        PROVE  defaults'[token] = IF About(token, ln) # {} THEN Said(token, ln) ELSE defaults[token]
    <3>1. DOMAIN defaults = PortKeyword
      BY <1>1 DEF Settings
    <3> QED
      BY <1>4, <1>7, <3>1
  <2>2. Len(ports) = 0 /\ 1..Len(ports) = {}
    BY <1>7
  <2>3. Written(Append(file, ln), ports, defaults', at)
    BY <1>1, <1>2, <1>5, <2>1, <2>2, LineWritten
  <2> QED
    BY <1>1, <1>7, <2>3 DEF WrittenInv
<1>8. CASE /\ file' = Append(file, ln) /\ UNCHANGED phase /\ ports # <<>> /\ UNCHANGED defaults
           /\ ports' = [ports EXCEPT ![Len(ports)].set[row.token] = value]
  <2> DEFINE k == Len(ports)
  <2>1. k \in Nat /\ k # 0 /\ Len(ports') = k /\ k \in DOMAIN ports
    BY <1>1, <1>8
  <2>2. ASSUME NEW token \in PortKeyword, NEW n \in 1..k
        PROVE  ports'[n].set[token] = IF n = k /\ About(token, ln) # {} THEN Said(token, ln)
                                      ELSE ports[n].set[token]
    <3>1. ports[n] \in PortRecord /\ n \in DOMAIN ports
      BY <1>1
    <3>2. ports[n].set \in Settings /\ DOMAIN ports[n].set = PortKeyword
      BY <3>1 DEF PortRecord, Settings
    <3>3. n # k => ports'[n] = ports[n]
      BY <1>8, <3>1
    <3>4. n = k => ports'[n].set = [ports[n].set EXCEPT ![row.token] = value]
      BY <1>8, <2>1, <3>1 DEF PortRecord
    <3> QED
      BY <1>4, <3>2, <3>3, <3>4
  <2>3. \A token \in PortKeyword :
          defaults[token] = IF k = 0 /\ About(token, ln) # {} THEN Said(token, ln) ELSE defaults[token]
    BY <2>1
  <2>4. Written(Append(file, ln), ports', defaults, at)
    BY <1>1, <1>2, <1>5, <2>1, <2>2, <2>3, LineWritten
  <2> QED
    BY <1>1, <1>8, <2>4 DEF WrittenInv
<1> QED
  BY <1>3, <1>6, <1>7, <1>8 DEF value

LEMMA WrittenNext ==
  ASSUME ConfInv, ConfInv', WrittenInv, [ConfigNext]_configVars
  PROVE  WrittenInv'
<1>1. CASE UNCHANGED configVars
  BY <1>1 DEF configVars, WrittenInv
<1>2. CASE sane_config
  BY <1>2 DEF sane_config, WrittenInv
<1> QED
  BY <1>1, <1>2, WrittenSkip, WrittenServer, WrittenDevice, WrittenPort DEF ConfigNext

\* While the file is read, every port has what the lines under it say, or else
\* those before the first port, or else the built-in defaults: no line that
\* serial_ip_init() handles goes to the wrong record, whatever the file.
THEOREM PortsReadAsWritten == Spec => []PortsAsWritten
<1>1. Init => ConfInv /\ WrittenInv
  <2> SUFFICES ASSUME Init PROVE ConfInv /\ WrittenInv
    OBVIOUS
  <2>1. file = <<>> /\ ports = <<>> /\ defaults = Builtin
    BY DEF Init, ConfigInit
  <2> QED
    BY <2>1, PortsInit, ServerInit, NothingWritten DEF Init, ConfInv, WrittenInv
<1>2. ConfInv /\ WrittenInv /\ [Next]_vars => (ConfInv /\ WrittenInv)'
  <2> SUFFICES ASSUME ConfInv, WrittenInv, [Next]_vars PROVE ConfInv' /\ WrittenInv'
    OBVIOUS
  <2>1. [ConfigNext]_configVars
    BY DEF Next, vars, LineNext
  <2> QED
    BY <2>1, ConfNext, WrittenNext
<1>3. ConfInv /\ WrittenInv => PortsAsWritten
  <2> SUFFICES ASSUME ConfInv, WrittenInv, phase = "reading" PROVE PortsAsWritten
    BY DEF PortsAsWritten
  <2>1. PICK at : Written(file, ports, defaults, at)
    BY DEF WrittenInv
  <2> QED
    BY <2>1, WrittenIsProperty DEF WrittenInv, ConfInv, PortsOK
<1> QED
  BY <1>1, <1>2, <1>3, PTL DEF Spec
=============================================================================
