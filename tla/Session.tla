------------------------------ MODULE Session ------------------------------
(***************************************************************************)
(* One telnet session in a child of the concurrent server: the select loop *)
(* of serial_ip_communication_process(), the child's signals and, once the *)
(* loop is over, serial_cleanup().  The bytes themselves are the business  *)
(* of SerialToSocket, SocketToSerial and Negotiation; what counts here is  *)
(* which side has something to read, and the calls that block.             *)
(*                                                                         *)
(* The device is in blocking mode and the loop reads it whenever select()  *)
(* reports anything, ready or not: that read() may block.  select() and    *)
(* the read() are each two steps, before and in the call, because a signal *)
(* interrupts a call only once it is being made.                           *)
(***************************************************************************)
EXTENDS Integers, Sequences

CONSTANTS
  IdleTimers,    \* the values of conf.idletimer; 0 turns the timer off
  PollInterval,  \* the smaller of conf.ms_pollinterval and conf.ls_pollinterval
  MaxTime,       \* bound of the model: where clocks stop counting
  MaxInputs,     \* bound of the model: messages of each side
  MaxSignals     \* bound of the model: signals sent to the process

ASSUME SessionAssumption ==
  /\ IdleTimers \subseteq Nat
  /\ PollInterval \in Nat \ {0}
  /\ MaxTime \in Nat /\ \A t \in IdleTimers : t <= MaxTime
  /\ MaxInputs \in Nat /\ MaxSignals \in Nat

Side == {"client", "device"}

\* The signals the child treats as fatal, one the kernel raises among them, and
\* those it survives.
Fatal == {"SIGTERM", "SIGPIPE"}
Survived == {"SIGINT", "SIGUSR1"}
None == "none"

VARIABLES
  pc,         \* where the process is
  idletimer,  \* conf.idletimer
  loggedIn,   \* client_logged_in
  idle,       \* the connection went idle
  error,      \* a read or a write has failed
  idle_cnt,   \* seconds spent in select() without input
  elapsed,    \* seconds spent in this select()
  signo_child,\* the pending signal
  lock,       \* does the lock file of the port exist?
  inbox,      \* what the client has sent and was not read: "data", "logout"
  device,     \* has the device sent something that was not read?
  gone,       \* the sides that have closed
  quiet,      \* history: seconds since anything arrived
  owed,       \* history: the sides whose input was unread when the idle timer ran out
  lost,       \* history: was a fatal signal overwritten or erased?
  inputs,     \* how many messages each side has sent
  signals     \* how many signals were sent

loopVars == <<loggedIn, idle, error>>
timeVars == <<idle_cnt, elapsed, quiet>>
sideVars == <<inbox, device, gone, inputs>>
signalVars == <<signo_child, lost, signals>>
vars == <<pc, idletimer, loopVars, timeVars, sideVars, signalVars, lock, owed>>

Min2(a, b) == IF a <= b THEN a ELSE b
Capped(t) == Min2(t, MaxTime)

tvsecs == IF idletimer > 0 THEN Min2(idletimer, PollInterval) ELSE PollInterval

\* A side is ready when it has something to read, or its end of file.
Ready ==
  {s \in Side : \/ s \in gone
                \/ s = "client" /\ inbox # <<>>
                \/ s = "device" /\ device}

Looping == {"check", "select", "selecting", "socket", "serial", "reading", "signals", "clear"}
Over == pc \in {"done", "killed"}

Init ==
  /\ pc = "check"
  /\ idletimer \in IdleTimers
  /\ loggedIn = TRUE /\ idle = FALSE /\ error = FALSE
  /\ idle_cnt = 0 /\ elapsed = 0 /\ quiet = 0
  /\ signo_child = None /\ lost = FALSE /\ signals = 0
  /\ lock = TRUE
  /\ inbox = <<>> /\ device = FALSE /\ gone = {}
  /\ inputs = [s \in Side |-> 0]
  /\ owed = {}

\* child_signal_received: one slot, in which a later signal replaces an earlier.
child_signal_received(sig) ==
  /\ signo_child' = sig
  /\ lost' = (lost \/ (signo_child \in Fatal /\ sig \notin Fatal))

\* Only a write() to a client that has closed fails, and then it may raise SIGPIPE.
SocketWrite(failed) ==
  /\ failed => "client" \in gone
  /\ \/ UNCHANGED signalVars
     \/ failed /\ child_signal_received("SIGPIPE") /\ UNCHANGED signals

-----------------------------------------------------------------------------
(* The select loop *)

\* The condition of the loop, one that forgets the logout, and one that takes any
\* signal for the end of the session.
ContinuesLoggedOut == ~idle /\ ~error
ContinuesUnsignalled == loggedIn /\ ~idle /\ ~error /\ signo_child = None
Continues == loggedIn /\ ~idle /\ ~error

LoopEnds ==
  /\ pc = "check" /\ ~Continues
  /\ pc' = "last"
  /\ UNCHANGED <<idletimer, loopVars, timeVars, sideVars, signalVars, lock, owed>>

Check ==
  /\ pc = "check" /\ Continues
  /\ ~(idletimer > 0 /\ idle_cnt >= idletimer)
  /\ pc' = "select"
  /\ UNCHANGED <<idletimer, loopVars, timeVars, sideVars, signalVars, lock, owed>>

\* The idle session ends at once.
GoIdleAtOnce ==
  /\ pc = "check" /\ Continues
  /\ idletimer > 0 /\ idle_cnt >= idletimer
  /\ idle' = TRUE
  /\ owed' = Ready
  /\ pc' = "last"
  /\ UNCHANGED <<idletimer, loggedIn, error, timeVars, sideVars, signalVars, lock>>

\* "we want to go through the select loop one last time": the client is told,
\* and asked to log out; a failing write() is not noticed, its SIGPIPE is.
GoIdle ==
  /\ pc = "check" /\ Continues
  /\ idletimer > 0 /\ idle_cnt >= idletimer
  /\ idle' = TRUE
  /\ owed' = Ready
  /\ \E failed \in BOOLEAN : SocketWrite(failed)
  /\ pc' = "select"
  /\ UNCHANGED <<idletimer, loggedIn, error, timeVars, sideVars, lock>>

Select ==
  /\ pc = "select"
  /\ elapsed' = 0
  /\ pc' = "selecting"
  /\ UNCHANGED <<idletimer, loopVars, idle_cnt, quiet, sideVars, signalVars, lock, owed>>

\* The count of the last silence is kept.
SelectReturnsCounting ==
  /\ pc = "selecting" /\ Ready # {}
  /\ pc' = IF "client" \in Ready THEN "socket" ELSE "serial"
  /\ elapsed' = 0
  /\ UNCHANGED <<idletimer, loopVars, idle_cnt, quiet, sideVars, signalVars, lock, owed>>

SelectReturns ==
  /\ pc = "selecting" /\ Ready # {}
  /\ idle_cnt' = 0
  /\ pc' = IF "client" \in Ready THEN "socket" ELSE "serial"
  /\ elapsed' = 0
  /\ UNCHANGED <<idletimer, loopVars, quiet, sideVars, signalVars, lock, owed>>

\* The time spent in select() counts as idle.
CountIdle == idle_cnt' = Capped(idle_cnt + elapsed) /\ elapsed' = 0

SelectTimesOut ==
  /\ pc = "selecting" /\ Ready = {} /\ elapsed = tvsecs
  /\ CountIdle
  /\ pc' = "signals"
  /\ UNCHANGED <<idletimer, loopVars, quiet, sideVars, signalVars, lock, owed>>

\* read_socket and write_serial.  The read() finds all that has arrived; the end
\* of file and a reset connection are errors.  The answers to telnet commands
\* may raise SIGPIPE unnoticed, and a device that is gone fails the write().
ReadSocket ==
  /\ pc = "socket"
  /\ \/ /\ inbox # <<>>
        /\ inbox' = <<>> /\ owed' = owed \ {"client"}
        /\ loggedIn' = (loggedIn /\ \A i \in 1..Len(inbox) : inbox[i] # "logout")
        /\ \E failed \in BOOLEAN : SocketWrite(failed)
        /\ error' \in (IF "device" \in gone THEN BOOLEAN ELSE {FALSE})
     \/ /\ "client" \in gone
        /\ error' = TRUE
        /\ UNCHANGED <<inbox, owed, loggedIn, signalVars>>
  /\ pc' = IF error' THEN "check" ELSE "serial"
  /\ UNCHANGED <<idletimer, idle, timeVars, device, gone, inputs, lock>>

\* read_serial calls read(), whether or not the device is ready ...
CallReadSerial ==
  /\ pc = "serial"
  /\ pc' = "reading"
  /\ UNCHANGED <<idletimer, loopVars, timeVars, sideVars, signalVars, lock, owed>>

\* ... which returns what the device has sent, for write_socket, or fails.
ReadSerial ==
  /\ pc = "reading"
  /\ \/ /\ device
        /\ device' = FALSE /\ owed' = owed \ {"device"}
        /\ error' \in BOOLEAN /\ SocketWrite(error')
     \/ /\ ~device /\ "device" \in gone
        /\ error' = TRUE
        /\ UNCHANGED <<device, owed, signalVars>>
  /\ pc' = IF error' THEN "check" ELSE "signals"
  /\ UNCHANGED <<idletimer, loggedIn, idle, timeVars, inbox, gone, inputs, lock>>

\* Signals are looked at only when the loop is over.
HandleSignalAtEnd ==
  /\ pc \in {"signals", "last"}
  /\ pc' = CASE signo_child \in Fatal /\ pc = "last" -> "killed"
             [] pc = "signals" -> "check"
             [] OTHER -> "lastclear"
  /\ UNCHANGED <<idletimer, loopVars, timeVars, sideVars, signalVars, lock, owed>>

\* child_pending_signal_handle: _exit() for a fatal signal ...
HandleSignal ==
  /\ pc \in {"signals", "last"}
  /\ pc' = CASE signo_child \in Fatal -> "killed"
             [] signo_child \notin Fatal /\ pc = "signals" -> "clear"
             [] OTHER -> "lastclear"
  /\ UNCHANGED <<idletimer, loopVars, timeVars, sideVars, signalVars, lock, owed>>

\* ... and the slot is cleared, whatever is in it by now.
ClearSignal ==
  /\ pc \in {"clear", "lastclear"}
  /\ signo_child' = None
  /\ lost' = (lost \/ signo_child \in Fatal)
  /\ pc' = IF pc = "clear" THEN "check" ELSE "cleanup"
  /\ UNCHANGED <<idletimer, loopVars, timeVars, sideVars, signals, lock, owed>>

\* The lock file is left behind.
KeepLock == UNCHANGED lock

ReleaseLock == lock' = FALSE

\* serial_cleanup: the device is closed and its lock released; the child exits.
Cleanup ==
  /\ pc = "cleanup"
  /\ ReleaseLock
  /\ pc' = "done"
  /\ UNCHANGED <<idletimer, loopVars, timeVars, sideVars, signalVars, owed>>

Process ==
  \/ LoopEnds \/ Check \/ GoIdle
  \/ Select \/ SelectReturns \/ SelectTimesOut
  \/ ReadSocket \/ CallReadSerial \/ ReadSerial
  \/ HandleSignal \/ ClearSignal \/ Cleanup

-----------------------------------------------------------------------------
(* The world around it *)

\* A second goes by in select().  Elsewhere time only makes the quiet longer.
Tick ==
  /\ pc = "selecting" /\ Ready = {} /\ elapsed < tvsecs
  /\ elapsed' = elapsed + 1
  /\ quiet' = Capped(quiet + 1)
  /\ UNCHANGED <<pc, idletimer, loopVars, idle_cnt, sideVars, signalVars, lock, owed>>

ClientSends ==
  /\ ~Over /\ "client" \notin gone /\ inputs["client"] < MaxInputs
  /\ \E message \in {"data", "logout"} : inbox' = Append(inbox, message)
  /\ inputs' = [inputs EXCEPT !["client"] = @ + 1]
  /\ quiet' = 0
  /\ UNCHANGED <<pc, idletimer, loopVars, idle_cnt, elapsed, device, gone, signalVars, lock, owed>>

DeviceSends ==
  /\ ~Over /\ "device" \notin gone /\ inputs["device"] < MaxInputs
  /\ device' = TRUE
  /\ inputs' = [inputs EXCEPT !["device"] = @ + 1]
  /\ quiet' = 0
  /\ UNCHANGED <<pc, idletimer, loopVars, idle_cnt, elapsed, inbox, gone, signalVars, lock, owed>>

\* The client closes its connection, or the device goes away.
Closes(s) ==
  /\ ~Over /\ s \notin gone
  /\ gone' = gone \union {s}
  /\ quiet' = 0
  /\ UNCHANGED <<pc, idletimer, loopVars, idle_cnt, elapsed, inbox, device, inputs, signalVars, lock, owed>>

\* A signal interrupts select() and the read() that block; both are no error.
SignalArrives(sig) ==
  /\ ~Over /\ signals < MaxSignals
  /\ signals' = signals + 1
  /\ child_signal_received(sig)
  /\ \/ /\ pc = "selecting" /\ Ready = {}
        /\ CountIdle
        /\ pc' = "signals"
     \/ /\ pc = "reading" /\ "device" \notin Ready
        /\ pc' = "signals"
        /\ UNCHANGED <<idle_cnt, elapsed>>
     \/ /\ ~(pc = "selecting" /\ Ready = {}) /\ ~(pc = "reading" /\ "device" \notin Ready)
        /\ UNCHANGED <<pc, idle_cnt, elapsed>>
  /\ UNCHANGED <<idletimer, loopVars, quiet, sideVars, lock, owed>>

World ==
  \/ Tick \/ ClientSends \/ DeviceSends
  \/ \E s \in Side : Closes(s)
  \/ \E sig \in {"SIGTERM"} \union Survived : SignalArrives(sig)

Next == Process \/ World

Spec == Init /\ [][Next]_vars

\* The process is scheduled whenever no call blocks it, and time passes.
FairSpec == Spec /\ WF_vars(Process) /\ WF_vars(Tick)

-----------------------------------------------------------------------------
(* Properties *)

TypeOK ==
  /\ pc \in Looping \union {"last", "lastclear", "cleanup", "done", "killed"}
  /\ idletimer \in IdleTimers
  /\ loggedIn \in BOOLEAN /\ idle \in BOOLEAN /\ error \in BOOLEAN
  /\ idle_cnt \in 0..MaxTime /\ elapsed \in 0..tvsecs /\ quiet \in 0..MaxTime
  /\ signo_child \in Fatal \union Survived \union {None} /\ lost \in BOOLEAN
  /\ signals \in 0..MaxSignals
  /\ lock \in BOOLEAN
  /\ inbox \in Seq({"data", "logout"}) /\ device \in BOOLEAN
  /\ gone \in SUBSET Side /\ inputs \in [Side -> 0..MaxInputs]
  /\ owed \in SUBSET Side

\* A session is taken for idle only if nothing arrived for conf.idletimer
\* seconds, or if what arrived since is still there for the last pass to read.
IdleWasQuiet == [][idle' /\ ~idle => quiet >= idletimer \/ Ready # {}]_vars

\* That last pass keeps its promise: when the loop ends for idleness alone, all
\* the input that had arrived by the time the timer ran out has been relayed.
LastPassRelays == pc \in {"last", "lastclear", "cleanup", "done"} /\ idle /\ ~error => owed = {}

\* Every end that is not a signal's gives the port back; and the only signal
\* nobody sent is the SIGPIPE of a client that has closed.
PortGivenBack == Over /\ lock => signals > 0 \/ "client" \in gone

\* The session implements what the daemon counts on: signals that it survives, in
\* whatever call they arrive, the pass after idleness and failing writes included,
\* it closes down for a cause and never without, and then gives the port back.
Phase ==
  IF pc \in Looping THEN "open"
  ELSE IF Over THEN IF pc = "done" THEN "ended" ELSE "killed" ELSE "closing"

Causes ==
  gone \union {c \in {"logout", "idle", "signal"} :
                \/ c = "logout" /\ ~loggedIn
                \/ c = "idle" /\ idle
                \/ c = "signal" /\ signals > 0}

Served == INSTANCE PortSession WITH phase <- Phase, held <- lock, causes <- Causes

ServesAsCountedOn == Served!Spec

\* The silence of the device never holds the process for ever.
Unblocked == []<>(pc # "reading")

\* As long as it does not, the session ends on the client's or the device's end
\* of file, on a logout, and on idleness.
EndsInTime ==
  Unblocked => (gone # {} \/ ~loggedIn \/ idle) ~> Over

\* ... and a fatal signal ends it unless another signal took its place.
FatalSignalEnds ==
  Unblocked => (signo_child = "SIGTERM" ~> Over \/ lost)

\* The comment of serial_ip_communication_process: "exit select() loop on socket
\* EOF".
ExitOnSocketEOF == "client" \in gone ~> Over
=============================================================================
