--------------------------- MODULE SessionProofs ---------------------------
(***************************************************************************)
(* Proofs about Session, for every idle timer, poll interval and number of *)
(* messages and signals, and about the session of RawGateway, for every    *)
(* size of its buffers.                                                    *)
(***************************************************************************)
EXTENDS Session, BufferProofs

-----------------------------------------------------------------------------
(* What each action does to the sides that are ready *)

\* Only the two reads take from a side what makes it ready.
ReadyKept == Ready \subseteq Ready'

LEMMA SidesUnchanged == UNCHANGED sideVars => Ready' = Ready
  BY DEF sideVars, Ready

LEMMA InputMakesReady ==
  /\ ClientSends => ReadyKept /\ "client" \in Ready'
  /\ DeviceSends => ReadyKept /\ "device" \in Ready'
  /\ \A s \in Side : Closes(s) => ReadyKept /\ s \in Ready'
<1>1. ClientSends => ReadyKept /\ "client" \in Ready'
  <2> SUFFICES ASSUME ClientSends PROVE ReadyKept /\ "client" \in Ready'
    OBVIOUS
  <2>1. PICK message \in {"data", "logout"} : inbox' = Append(inbox, message)
    BY DEF ClientSends
  <2>2. device' = device /\ gone' = gone
    BY DEF ClientSends
  <2>3. inbox' # <<>>
    BY <2>1
  <2> QED
    BY <2>2, <2>3 DEF ReadyKept, Ready, Side
<1>2. DeviceSends => ReadyKept /\ "device" \in Ready'
  BY DEF DeviceSends, ReadyKept, Ready, Side
<1>3. \A s \in Side : Closes(s) => ReadyKept /\ s \in Ready'
  BY DEF Closes, ReadyKept, Ready, Side
<1> QED
  BY <1>1, <1>2, <1>3

-----------------------------------------------------------------------------
(* The idle timer *)

\* Unless something is there to be read, the idle count and the time in the
\* present select() do not exceed the time since anything arrived; while input
\* is handled the count is zero.
IdleInv ==
  /\ idletimer \in IdleTimers
  /\ idle_cnt \in Nat /\ elapsed \in Nat /\ quiet \in Nat
  /\ quiet <= MaxTime
  /\ pc # "selecting" => elapsed = 0
  /\ pc \in {"socket", "serial", "reading"} => idle_cnt = 0
  /\ Ready = {} => Capped(idle_cnt + elapsed) <= quiet

LEMMA CappedFact ==
  ASSUME NEW t \in Nat
  PROVE  Capped(t) \in Nat /\ Capped(t) <= MaxTime /\ Capped(t) <= t
         /\ (t <= MaxTime => Capped(t) = t) /\ (t > MaxTime => Capped(t) = MaxTime)
  BY SessionAssumption DEF Capped, Min2

LEMMA IdleInvNext == IdleInv /\ [Next]_vars => IdleInv'
<1> SUFFICES ASSUME IdleInv, [Next]_vars PROVE IdleInv'
  OBVIOUS
<1> USE SessionAssumption
<1>1. ASSUME UNCHANGED sideVars, UNCHANGED quiet, idletimer' = idletimer,
             idle_cnt' = idle_cnt, elapsed' = elapsed,
             pc \notin {"selecting"}, pc' # "socket",
             pc' \in {"serial", "reading"} => pc \in {"socket", "serial", "reading"}
      PROVE  IdleInv'
  BY <1>1, SidesUnchanged DEF IdleInv, Capped, Min2
<1>2. CASE LoopEnds \/ Check \/ GoIdle
  BY <1>1, <1>2 DEF LoopEnds, Check, GoIdle, timeVars
<1>3. CASE Select
  BY <1>3, SidesUnchanged DEF Select, IdleInv, Capped, Min2
<1>4. CASE SelectReturns
  BY <1>4, SidesUnchanged DEF SelectReturns, IdleInv, Capped, Min2
<1>5. CASE SelectTimesOut
  BY <1>5, SidesUnchanged, CappedFact DEF SelectTimesOut, CountIdle, IdleInv, Capped, Min2
<1>6. CASE ReadSocket
  <2>1. idle_cnt' = 0 /\ elapsed' = 0 /\ quiet' = quiet /\ idletimer' = idletimer
    BY <1>6 DEF ReadSocket, IdleInv, timeVars
  <2>2. pc' # "selecting"
    BY <1>6 DEF ReadSocket
  <2> QED
    BY <2>1, <2>2, CappedFact DEF IdleInv, Capped, Min2
<1>7. CASE CallReadSerial
  BY <1>1, <1>7 DEF CallReadSerial, timeVars
<1>8. CASE ReadSerial
  <2>1. idle_cnt' = 0 /\ elapsed' = 0 /\ quiet' = quiet /\ idletimer' = idletimer
    BY <1>8 DEF ReadSerial, IdleInv, timeVars
  <2>2. pc' # "selecting"
    BY <1>8 DEF ReadSerial
  <2> QED
    BY <2>1, <2>2, CappedFact DEF IdleInv, Capped, Min2
<1>9. CASE HandleSignal \/ ClearSignal \/ Cleanup
  BY <1>1, <1>9 DEF HandleSignal, ClearSignal, Cleanup, timeVars
<1>10. CASE Tick
  BY <1>10, SidesUnchanged DEF Tick, IdleInv, Capped, Min2
<1>11. ASSUME Ready' # {}, pc' = pc, idletimer' = idletimer, quiet' = 0,
              idle_cnt' = idle_cnt, elapsed' = elapsed
       PROVE  IdleInv'
  BY <1>11 DEF IdleInv
<1>12. CASE ClientSends \/ DeviceSends \/ \E s \in Side : Closes(s)
  BY <1>11, <1>12, InputMakesReady DEF ClientSends, DeviceSends, Closes
<1>13. CASE \E sig \in {"SIGTERM"} \union Survived : SignalArrives(sig)
  <2>1. PICK sig : SignalArrives(sig)
    BY <1>13
  <2> QED
    BY <2>1, SidesUnchanged, CappedFact
    DEF SignalArrives, CountIdle, IdleInv, Capped, Min2
<1>14. CASE UNCHANGED vars
  BY <1>14, SidesUnchanged DEF vars, timeVars, IdleInv, Capped, Min2
<1> QED
  BY <1>2, <1>3, <1>4, <1>5, <1>6, <1>7, <1>8, <1>9, <1>10, <1>12, <1>13, <1>14
  DEF Next, Process, World

\* Whatever the timer, a session is taken for idle only after a whole idletimer
\* without any arrival, or with the input that came since still to be read: the
\* accounting of serial_ip_communication_process() over select() timeouts,
\* interrupted calls and input that comes between the calls is right.
THEOREM IdleTimerIsRight == Spec => IdleWasQuiet
<1>1. Init => IdleInv
  BY SessionAssumption DEF Init, IdleInv, Capped, Min2
<1>2. IdleInv /\ [Next]_vars => [idle' /\ ~idle => quiet >= idletimer \/ Ready # {}]_vars
  <2> SUFFICES ASSUME IdleInv, Next, idle', ~idle PROVE quiet >= idletimer \/ Ready # {}
    OBVIOUS
  <2>1. GoIdle
    BY Zenon DEF Next, Process, World, LoopEnds, Check, GoIdle, Select, SelectReturns, SelectTimesOut,
       ReadSocket, CallReadSerial, ReadSerial, HandleSignal, ClearSignal, Cleanup,
       Tick, ClientSends, DeviceSends, Closes, SignalArrives, loopVars
  <2>2. idle_cnt >= idletimer /\ elapsed = 0
    BY <2>1 DEF GoIdle, IdleInv
  <2> QED
    BY <2>2, SessionAssumption DEF IdleInv, Capped, Min2
<1> QED
  BY <1>1, <1>2, IdleInvNext, PTL DEF Spec, IdleWasQuiet

-----------------------------------------------------------------------------
(* The last pass *)

\* What was unread when the timer ran out stays ready until the pass gets to it:
\* first the client's part, then the device's; and an error ends the loop.
LastPassInv ==
  /\ idle \in BOOLEAN /\ error \in BOOLEAN
  /\ error => pc \in {"check", "last", "lastclear", "cleanup", "done", "killed"}
  /\ idle /\ ~error =>
       /\ pc \in {"select", "selecting", "socket"} => owed \subseteq Ready
       /\ pc \in {"serial", "reading"} => owed \subseteq Ready \ {"client"}
       /\ pc \in {"check", "signals", "clear", "last", "lastclear", "cleanup", "done"} => owed = {}

LEMMA LastPassInvNext == LastPassInv /\ [Next]_vars => LastPassInv'
<1> SUFFICES ASSUME LastPassInv, [Next]_vars PROVE LastPassInv'
  OBVIOUS
<1>1. CASE LoopEnds \/ Check
  BY <1>1, SidesUnchanged DEF LoopEnds, Check, Continues, loopVars, LastPassInv
<1>2. CASE GoIdle
  BY <1>2, SidesUnchanged DEF GoIdle, Continues, LastPassInv
<1>3. CASE Select
  BY <1>3, SidesUnchanged DEF Select, loopVars, LastPassInv
<1>4. CASE SelectReturns
  BY <1>4, SidesUnchanged DEF SelectReturns, loopVars, LastPassInv
<1>5. CASE SelectTimesOut
  BY <1>5 DEF SelectTimesOut, loopVars, LastPassInv
<1>6. CASE ReadSocket
  <2>1. idle' = idle /\ ~error /\ error' \in BOOLEAN
        /\ pc' = (IF error' THEN "check" ELSE "serial")
    BY <1>6 DEF ReadSocket, LastPassInv
  <2>2. CASE error'
    BY <2>1, <2>2 DEF LastPassInv
  <2>3. CASE ~error'
    <3>1. owed' = owed \ {"client"} /\ device' = device /\ gone' = gone
      BY <1>6, <2>3 DEF ReadSocket
    <3>2. Ready \ {"client"} \subseteq Ready'
      BY <3>1 DEF Ready
    <3>3. idle => owed \subseteq Ready
      BY <1>6, <2>1 DEF ReadSocket, LastPassInv
    <3> QED
      BY <2>1, <2>3, <3>1, <3>2, <3>3 DEF LastPassInv
  <2> QED
    BY <2>2, <2>3
<1>7. CASE CallReadSerial
  BY <1>7, SidesUnchanged DEF CallReadSerial, loopVars, LastPassInv
<1>8. CASE ReadSerial
  <2>1. idle' = idle /\ ~error /\ error' \in BOOLEAN
        /\ pc' = (IF error' THEN "check" ELSE "signals")
    BY <1>8 DEF ReadSerial, LastPassInv
  <2>2. CASE error'
    BY <2>1, <2>2 DEF LastPassInv
  <2>3. CASE ~error'
    <3>1. owed' = owed \ {"device"}
      BY <1>8, <2>3 DEF ReadSerial
    <3>2. idle => owed \subseteq {"device"}
      BY <1>8, <2>1 DEF ReadSerial, LastPassInv, Ready, Side
    <3>3. idle => owed' = {}
      BY <3>1, <3>2
    <3> QED
      BY <2>1, <2>3, <3>3 DEF LastPassInv
  <2> QED
    BY <2>2, <2>3
<1>9. CASE HandleSignal
  <2>1. pc \in {"signals", "last"} /\ pc' \in {"killed", "clear", "lastclear"}
        /\ (pc = "last" => pc' \in {"killed", "lastclear"})
    BY <1>9, Zenon DEF HandleSignal
  <2>2. idle' = idle /\ error' = error /\ owed' = owed
    BY <1>9 DEF HandleSignal, loopVars
  <2> QED
    BY <2>1, <2>2 DEF LastPassInv
<1>10. CASE ClearSignal \/ Cleanup
  BY <1>10 DEF ClearSignal, Cleanup, loopVars, LastPassInv
<1>11. ASSUME ReadyKept, pc' = pc, idle' = idle, error' = error, owed' = owed
       PROVE  LastPassInv'
  BY <1>11 DEF LastPassInv, ReadyKept
<1>12. CASE Tick
  BY <1>11, <1>12, SidesUnchanged DEF Tick, loopVars, ReadyKept
<1>13. CASE ClientSends \/ DeviceSends \/ \E s \in Side : Closes(s)
  BY <1>11, <1>13, InputMakesReady DEF ClientSends, DeviceSends, Closes, loopVars
<1>14. CASE \E sig \in {"SIGTERM"} \union Survived : SignalArrives(sig)
  <2>1. PICK sig : SignalArrives(sig)
    BY <1>14
  <2>2. Ready' = Ready /\ idle' = idle /\ error' = error /\ owed' = owed
    BY <2>1, SidesUnchanged DEF SignalArrives, loopVars
  <2>3. CASE pc' = pc
    BY <1>11, <2>2, <2>3 DEF ReadyKept
  <2>4. CASE pc = "selecting" /\ pc' = "signals" /\ Ready = {}
    BY <2>2, <2>4 DEF LastPassInv
  <2>5. CASE pc = "reading" /\ pc' = "signals" /\ "device" \notin Ready
    <3>1. Ready \ {"client"} = {}
      BY <2>5 DEF Ready, Side
    <3> QED
      BY <2>2, <2>5, <3>1 DEF LastPassInv
  <2> QED
    BY <2>1, <2>3, <2>4, <2>5 DEF SignalArrives
<1>15. CASE UNCHANGED vars
  BY <1>11, <1>15, SidesUnchanged DEF vars, loopVars, ReadyKept
<1> QED
  BY <1>1, <1>2, <1>3, <1>4, <1>5, <1>6, <1>7, <1>8, <1>9, <1>10, <1>12, <1>13, <1>14, <1>15
  DEF Next, Process, World

\* The pass the loop makes after the idle timer ran out relays all the input that
\* had come by then, from both sides, however signals interrupt its calls.
THEOREM LastPassRelaysAll == Spec => []LastPassRelays
<1>1. Init => LastPassInv
  BY DEF Init, LastPassInv
<1>2. LastPassInv => LastPassRelays
  BY DEF LastPassInv, LastPassRelays
<1> QED
  BY <1>1, <1>2, LastPassInvNext, PTL DEF Spec

-----------------------------------------------------------------------------
(* The port *)

\* A signal in the slot was sent, or is the SIGPIPE of a client that has closed.
PortInv ==
  /\ signals \in Nat
  /\ signo_child \in Fatal => signals > 0 \/ "client" \in gone
  /\ pc = "killed" => signals > 0 \/ "client" \in gone
  /\ pc = "done" => ~lock

LEMMA SocketWriteSignal ==
  ASSUME NEW failed, SocketWrite(failed), PortInv
  PROVE  signals' = signals /\ (signo_child' \in Fatal => signals > 0 \/ "client" \in gone)
  BY DEF SocketWrite, child_signal_received, signalVars, PortInv

LEMMA PortInvNext == PortInv /\ [Next]_vars => PortInv'
<1> SUFFICES ASSUME PortInv, [Next]_vars PROVE PortInv'
  OBVIOUS
<1>1. ASSUME UNCHANGED signalVars, gone' = gone, pc' \notin {"killed", "done"}
      PROVE  PortInv'
  BY <1>1 DEF PortInv, signalVars
<1>2. CASE LoopEnds \/ Check \/ Select \/ SelectReturns \/ SelectTimesOut \/ CallReadSerial
  BY <1>1, <1>2 DEF LoopEnds, Check, Select, SelectReturns, SelectTimesOut, CallReadSerial, sideVars
<1>3. CASE GoIdle
  <2>1. PICK failed \in BOOLEAN : SocketWrite(failed)
    BY <1>3 DEF GoIdle
  <2> QED
    BY <1>3, <2>1, SocketWriteSignal DEF GoIdle, sideVars, PortInv
<1>4. CASE ReadSocket
  <2>1. gone' = gone /\ pc' \in {"check", "serial"}
    BY <1>4 DEF ReadSocket
  <2>2. CASE \E failed \in BOOLEAN : SocketWrite(failed)
    BY <2>1, <2>2, SocketWriteSignal DEF PortInv
  <2> QED
    BY <1>1, <1>4, <2>1, <2>2 DEF ReadSocket
<1>5. CASE ReadSerial
  <2>1. gone' = gone /\ pc' \in {"check", "signals"}
    BY <1>5 DEF ReadSerial
  <2>2. CASE SocketWrite(error')
    BY <2>1, <2>2, SocketWriteSignal DEF PortInv
  <2> QED
    BY <1>1, <1>5, <2>1, <2>2 DEF ReadSerial
<1>6. CASE HandleSignal
  <2>1. pc' # "done" /\ (pc' = "killed" => signo_child \in Fatal)
    BY <1>6, Zenon DEF HandleSignal
  <2> QED
    BY <1>6, <2>1 DEF HandleSignal, signalVars, sideVars, PortInv
<1>7. CASE ClearSignal
  BY <1>7 DEF ClearSignal, Fatal, None, sideVars, PortInv
<1>8. CASE Cleanup
  BY <1>8 DEF Cleanup, ReleaseLock, signalVars, sideVars, PortInv
<1>9. CASE Tick \/ ClientSends \/ DeviceSends \/ \E s \in Side : Closes(s)
  BY <1>9 DEF Tick, ClientSends, DeviceSends, Closes, signalVars, sideVars, PortInv
<1>10. CASE \E sig \in {"SIGTERM"} \union Survived : SignalArrives(sig)
  <2>1. PICK sig : SignalArrives(sig)
    BY <1>10
  <2> QED
    BY <2>1 DEF SignalArrives, child_signal_received, sideVars, Over, PortInv
<1>11. CASE UNCHANGED vars
  BY <1>11 DEF vars, signalVars, sideVars, PortInv
<1> QED
  BY <1>2, <1>3, <1>4, <1>5, <1>6, <1>7, <1>8, <1>9, <1>10, <1>11 DEF Next, Process, World

\* The lock file outlives the process only if it was killed by a signal, which
\* somebody sent or a client that has closed provoked.
THEOREM PortIsGivenBack == Spec => []PortGivenBack
<1>1. Init => PortInv
  BY DEF Init, PortInv, Fatal, None
<1>2. PortInv => PortGivenBack
  BY DEF PortInv, PortGivenBack, Over
<1> QED
  BY <1>1, <1>2, PortInvNext, PTL DEF Spec

-----------------------------------------------------------------------------
(* Types *)

LEMMA TimeTypes ==
  ASSUME TypeOK
  PROVE  /\ tvsecs \in Nat /\ 0 \in 0..tvsecs /\ 0 \in 0..MaxTime
         /\ Capped(idle_cnt + elapsed) \in 0..MaxTime /\ Capped(quiet + 1) \in 0..MaxTime
<1>1. tvsecs \in Nat
  BY SessionAssumption DEF TypeOK, tvsecs, Min2
<1>2. /\ idle_cnt \in Nat /\ elapsed \in Nat /\ quiet \in Nat /\ MaxTime \in Nat
      /\ idle_cnt + elapsed \in Nat /\ quiet + 1 \in Nat
  BY <1>1, SessionAssumption DEF TypeOK
<1>3. Capped(idle_cnt + elapsed) \in 0..MaxTime /\ Capped(quiet + 1) \in 0..MaxTime
  BY <1>2, CappedFact
<1> QED
  BY <1>1, <1>2, <1>3

LEMMA SignalTypes ==
  ASSUME TypeOK, NEW sig \in Fatal \union Survived, child_signal_received(sig)
  PROVE  signo_child' \in Fatal \union Survived \union {None} /\ lost' \in BOOLEAN
  BY DEF TypeOK, child_signal_received

LEMMA SocketWriteTypes ==
  ASSUME TypeOK, NEW failed, SocketWrite(failed)
  PROVE  /\ signo_child' \in Fatal \union Survived \union {None} /\ lost' \in BOOLEAN
         /\ signals' \in 0..MaxSignals
<1>1. CASE UNCHANGED signalVars
  BY <1>1 DEF signalVars, TypeOK
<1>2. CASE child_signal_received("SIGPIPE") /\ UNCHANGED signals
  BY <1>2, SignalTypes DEF Fatal, TypeOK
<1> QED
  BY <1>1, <1>2 DEF SocketWrite

LEMMA TypeNext == TypeOK /\ [Next]_vars => TypeOK'
<1> SUFFICES ASSUME TypeOK, [Next]_vars PROVE TypeOK'
  OBVIOUS
<1> DEFINE Place == pc' \in Looping \union {"last", "lastclear", "cleanup", "done", "killed"}
           Loop == loggedIn' \in BOOLEAN /\ idle' \in BOOLEAN /\ error' \in BOOLEAN
           Time == idle_cnt' \in 0..MaxTime /\ elapsed' \in 0..tvsecs /\ quiet' \in 0..MaxTime
           Sides == /\ inbox' \in Seq({"data", "logout"}) /\ device' \in BOOLEAN
                    /\ gone' \in SUBSET Side /\ inputs' \in [Side -> 0..MaxInputs]
           Signal == /\ signo_child' \in Fatal \union Survived \union {None} /\ lost' \in BOOLEAN
                     /\ signals' \in 0..MaxSignals
<1>goal. ASSUME idletimer' = idletimer, Place, Loop, Time, Sides, Signal,
                lock' \in BOOLEAN, owed' \in SUBSET Side
         PROVE  TypeOK'
  BY <1>goal DEF TypeOK, tvsecs
<1>kept. /\ UNCHANGED loopVars => Loop
         /\ UNCHANGED timeVars => Time
         /\ UNCHANGED sideVars => Sides
         /\ UNCHANGED signalVars => Signal
         /\ UNCHANGED pc => Place
         /\ UNCHANGED lock => lock' \in BOOLEAN
         /\ UNCHANGED owed => owed' \in SUBSET Side
  BY DEF TypeOK, loopVars, timeVars, sideVars, signalVars
<1>1. CASE LoopEnds \/ Check
  BY <1>1, <1>goal, <1>kept DEF LoopEnds, Check, Looping
<1>2. CASE GoIdle
  <2>1. Signal
    BY <1>2, SocketWriteTypes DEF GoIdle
  <2>2. Loop /\ Place /\ owed' \in SUBSET Side
    BY <1>2 DEF GoIdle, TypeOK, Ready, Looping
  <2> QED
    BY <1>2, <1>goal, <1>kept, <2>1, <2>2 DEF GoIdle
<1>3. CASE Select \/ SelectReturns \/ SelectTimesOut
  <2>1. Time
    BY <1>3, TimeTypes DEF Select, SelectReturns, SelectTimesOut, CountIdle, TypeOK
  <2>2. Place
    BY <1>3 DEF Select, SelectReturns, SelectTimesOut, Looping
  <2> QED
    BY <1>3, <1>goal, <1>kept, <2>1, <2>2 DEF Select, SelectReturns, SelectTimesOut
<1>4. CASE ReadSocket
  <2>1. Signal
    BY <1>4, <1>kept, SocketWriteTypes DEF ReadSocket
  <2>2. Loop /\ Place
    <3>1. loggedIn' \in BOOLEAN
      BY <1>4, Zenon DEF ReadSocket, TypeOK
    <3>2. error' \in BOOLEAN
      BY <1>4, Zenon DEF ReadSocket
    <3>3. idle' = idle /\ pc' \in {"check", "serial"}
      BY <1>4, Zenon DEF ReadSocket
    <3> QED
      BY <3>1, <3>2, <3>3 DEF TypeOK, Looping
  <2>3. Sides /\ owed' \in SUBSET Side
    <3>1. /\ inbox' = <<>> \/ inbox' = inbox
          /\ owed' = owed \ {"client"} \/ owed' = owed
          /\ device' = device /\ gone' = gone /\ inputs' = inputs
      BY <1>4, Zenon DEF ReadSocket
    <3>2. inbox \in Seq({"data", "logout"}) /\ owed \in SUBSET Side
      BY DEF TypeOK
    <3>3. <<>> \in Seq({"data", "logout"})
      OBVIOUS
    <3>4. inbox' \in Seq({"data", "logout"})
      BY <3>1, <3>2, <3>3, Zenon
    <3>5. owed' \in SUBSET Side
      BY <3>1, <3>2
    <3> QED
      BY <3>1, <3>4, <3>5, Zenon DEF TypeOK
  <2> QED
    BY <1>4, <1>goal, <1>kept, <2>1, <2>2, <2>3 DEF ReadSocket
<1>5. CASE CallReadSerial
  BY <1>5, <1>goal, <1>kept DEF CallReadSerial, Looping
<1>6. CASE ReadSerial
  <2>1. Signal
    BY <1>6, <1>kept, SocketWriteTypes DEF ReadSerial
  <2>2. Loop /\ Place
    BY <1>6 DEF ReadSerial, TypeOK, Looping
  <2>3. Sides /\ owed' \in SUBSET Side
    BY <1>6 DEF ReadSerial, TypeOK
  <2> QED
    BY <1>6, <1>goal, <1>kept, <2>1, <2>2, <2>3 DEF ReadSerial
<1>7. CASE HandleSignal
  <2>1. pc' \in {"killed", "clear", "lastclear"}
    BY <1>7, Zenon DEF HandleSignal
  <2>2. Place
    BY <2>1 DEF Looping
  <2> QED
    BY <1>7, <1>goal, <1>kept, <2>2 DEF HandleSignal
<1>8. CASE ClearSignal
  <2>1. Signal /\ Place
    BY <1>8 DEF ClearSignal, TypeOK, Looping
  <2> QED
    BY <1>8, <1>goal, <1>kept, <2>1 DEF ClearSignal
<1>9. CASE Cleanup
  BY <1>9, <1>goal, <1>kept DEF Cleanup, ReleaseLock
<1>10. CASE Tick
  <2>1. Time
    BY <1>10, TimeTypes DEF Tick, TypeOK
  <2> QED
    BY <1>10, <1>goal, <1>kept, <2>1 DEF Tick
<1>11. CASE ClientSends \/ DeviceSends \/ \E s \in Side : Closes(s)
  <2>1. Time
    BY <1>11, TimeTypes DEF ClientSends, DeviceSends, Closes, TypeOK
  <2>2. Sides
    <3>1. CASE ClientSends
      <4>1. inbox' \in Seq({"data", "logout"})
        BY <3>1 DEF ClientSends, TypeOK
      <4>2. inputs' \in [Side -> 0..MaxInputs]
        BY <3>1, SessionAssumption DEF ClientSends, TypeOK, Side
      <4> QED
        BY <3>1, <4>1, <4>2 DEF ClientSends, TypeOK
    <3>2. CASE DeviceSends
      <4>1. inputs' \in [Side -> 0..MaxInputs]
        BY <3>2, SessionAssumption DEF DeviceSends, TypeOK, Side
      <4> QED
        BY <3>2, <4>1 DEF DeviceSends, TypeOK
    <3>3. CASE \E s \in Side : Closes(s)
      BY <3>3 DEF Closes, TypeOK
    <3> QED
      BY <1>11, <3>1, <3>2, <3>3
  <2> QED
    BY <1>11, <1>goal, <1>kept, <2>1, <2>2 DEF ClientSends, DeviceSends, Closes
<1>12. CASE \E sig \in {"SIGTERM"} \union Survived : SignalArrives(sig)
  <2>1. PICK sig \in Fatal \union Survived : SignalArrives(sig)
    BY <1>12 DEF Fatal
  <2>2. Signal
    BY <2>1, SignalTypes, SessionAssumption DEF SignalArrives, TypeOK
  <2>3. Time
    BY <2>1, TimeTypes DEF SignalArrives, CountIdle, TypeOK
  <2>4. Place
    BY <2>1 DEF SignalArrives, Looping, TypeOK
  <2> QED
    BY <1>goal, <1>kept, <2>1, <2>2, <2>3, <2>4 DEF SignalArrives
<1>13. CASE UNCHANGED vars
  BY <1>13, <1>goal, <1>kept DEF vars
<1> QED
  BY <1>1, <1>2, <1>3, <1>4, <1>5, <1>6, <1>7, <1>8, <1>9, <1>10, <1>11, <1>12, <1>13
  DEF Next, Process, World

\* The state of a session keeps its types, and a select() never lasts longer than
\* the time it was given, for every timer and poll interval.
THEOREM SessionTypeCorrect == Spec => []TypeOK
<1>1. Init => TypeOK
  <2> SUFFICES ASSUME Init PROVE TypeOK
    OBVIOUS
  <2>1. tvsecs \in Nat
    BY SessionAssumption DEF Init, tvsecs, Min2
  <2>2. /\ pc \in Looping \union {"last", "lastclear", "cleanup", "done", "killed"}
        /\ signo_child \in Fatal \union Survived \union {None}
        /\ gone \in SUBSET Side /\ owed \in SUBSET Side
        /\ inbox \in Seq({"data", "logout"}) /\ inputs \in [Side -> 0..MaxInputs]
        /\ idletimer \in IdleTimers
    BY SessionAssumption DEF Init, Looping
  <2>3. idle_cnt \in 0..MaxTime /\ elapsed \in 0..tvsecs /\ quiet \in 0..MaxTime
        /\ signals \in 0..MaxSignals
    BY <2>1, SessionAssumption DEF Init
  <2>4. /\ loggedIn \in BOOLEAN /\ idle \in BOOLEAN /\ error \in BOOLEAN
        /\ lost \in BOOLEAN /\ lock \in BOOLEAN /\ device \in BOOLEAN
    BY Zenon DEF Init
  <2> QED
    BY <2>2, <2>3, <2>4 DEF TypeOK
<1> QED
  BY <1>1, TypeNext, PTL DEF Spec

-----------------------------------------------------------------------------
(* What the daemon counts on *)

\* A read or a write has failed only if a side has closed.
ErrorInv == error => gone # {}

LEMMA ErrorNext == ErrorInv /\ [Next]_vars => ErrorInv'
<1> SUFFICES ASSUME ErrorInv, [Next]_vars PROVE ErrorInv'
  OBVIOUS
<1>1. CASE ReadSocket
  BY <1>1 DEF ReadSocket, ErrorInv
<1>2. CASE ReadSerial
  BY <1>2 DEF ReadSerial, SocketWrite, ErrorInv
<1>3. CASE \E s \in Side : Closes(s)
  BY <1>3 DEF Closes, ErrorInv
<1>4. CASE UNCHANGED <<error, gone>>
  BY <1>4 DEF ErrorInv
<1> QED
  BY <1>1, <1>2, <1>3, <1>4
  DEF Next, Process, World, LoopEnds, Check, GoIdle, Select, SelectReturns, SelectTimesOut,
      CallReadSerial, HandleSignal, ClearSignal, Cleanup, Tick, ClientSends, DeviceSends,
      SignalArrives, vars, loopVars, sideVars

\* Causes arise, and none goes away.
LEMMA CausesGrow ==
  ASSUME gone \subseteq gone', signals' >= signals, signals \in Nat, signals' \in Nat,
         loggedIn' => loggedIn, idle => idle'
  PROVE  Causes \subseteq Causes'
  BY DEF Causes

\* Where the session stays open, or goes on to close down, causes may arise.
LEMMA StaysInPhase ==
  ASSUME TypeOK, TypeOK', Phase' = Phase, ~Over, lock' = lock, Causes \subseteq Causes'
  PROVE  [Served!Next]_<<Phase, lock, Causes>>
<1>1. Causes' \in SUBSET Served!Cause
  BY DEF TypeOK, Side, Causes, Served!Cause
<1>2. Causes' = Causes \union Causes'
  OBVIOUS
<1>3. Phase \in {"open", "closing"}
  BY DEF Phase
<1>4. Served!Arise(Causes')
  BY <1>2, <1>3 DEF Served!Arise
<1> QED
  BY <1>1, <1>4 DEF Served!Next

LEMMA ServedStep ==
  ASSUME TypeOK, TypeOK', PortInv, ErrorInv, [Next]_vars
  PROVE  [Served!Next]_<<Phase, lock, Causes>>
<1> USE DEF loopVars, timeVars, sideVars, signalVars
<1>1. /\ signals \in Nat /\ signals' \in Nat
      /\ loggedIn \in BOOLEAN /\ loggedIn' \in BOOLEAN /\ idle \in BOOLEAN
  BY SessionAssumption DEF TypeOK
<1>2. CASE LoopEnds
  <2>1. Phase = "open" /\ Phase' = "closing" /\ lock' = lock /\ Causes' = Causes
    BY <1>2 DEF LoopEnds, Phase, Looping, Over, Causes
  <2>2. gone # {} \/ ~loggedIn \/ idle
    BY <1>2 DEF LoopEnds, Continues, ErrorInv
  <2>3. gone \subseteq {"client", "device"}
    BY DEF TypeOK, Side
  <2>4. Causes \ {"signal"} # {}
    <3>1. CASE gone # {}
      BY <2>3, <3>1 DEF Causes
    <3>2. CASE ~loggedIn
      <4>1. "logout" \in Causes
        BY <3>2 DEF Causes
      <4> QED
        BY <4>1
    <3>3. CASE idle
      <4>1. "idle" \in Causes
        BY <3>3 DEF Causes
      <4> QED
        BY <4>1
    <3> QED
      BY <2>2, <3>1, <3>2, <3>3
  <2> QED
    BY <2>1, <2>4 DEF Served!Next, Served!Close
<1>3. CASE Cleanup
  <2>1. Phase = "closing" /\ Phase' = "ended" /\ lock' = FALSE /\ Causes' = Causes
    BY <1>3 DEF Cleanup, ReleaseLock, Phase, Looping, Over, Causes
  <2> QED
    BY <2>1 DEF Served!Next, Served!Finish
<1>4. CASE HandleSignal
  <2>1. lock' = lock /\ Causes' = Causes
    BY <1>4 DEF HandleSignal, Causes
  <2>2. CASE signo_child \in Fatal
    <3>1. Phase \in {"open", "closing"} /\ Phase' = "killed"
      BY <1>4, <2>2 DEF HandleSignal, Phase, Looping, Over
    <3>2. Causes \intersect {"signal", "client"} # {}
      BY <1>1, <2>2 DEF PortInv, Causes
    <3> QED
      BY <2>1, <3>1, <3>2 DEF Served!Next, Served!Kill
  <2>3. CASE signo_child \notin Fatal
    BY <1>4, <2>1, <2>3 DEF HandleSignal, Phase, Looping, Over
  <2> QED
    BY <2>2, <2>3
<1>5. ASSUME Phase' = Phase, ~Over, lock' = lock, gone \subseteq gone',
             signals' >= signals, loggedIn' => loggedIn, idle => idle'
      PROVE  [Served!Next]_<<Phase, lock, Causes>>
  BY <1>1, <1>5, CausesGrow, StaysInPhase
<1>6. CASE Check \/ Select \/ SelectReturns \/ SelectTimesOut \/ CallReadSerial
  BY <1>1, <1>5, <1>6
  DEF Check, Select, SelectReturns, SelectTimesOut, CallReadSerial, Phase, Looping, Over
<1>7. CASE GoIdle
  <2>1. signals' = signals
    BY <1>7 DEF GoIdle, SocketWrite
  <2> QED
    BY <1>1, <1>5, <1>7, <2>1 DEF GoIdle, Phase, Looping, Over
<1>8. CASE ReadSocket
  <2>1. loggedIn' => loggedIn
    BY <1>8, Zenon DEF ReadSocket
  <2>2. signals' = signals
    BY <1>8, Zenon DEF ReadSocket, SocketWrite
  <2> QED
    BY <1>1, <1>5, <1>8, <2>1, <2>2 DEF ReadSocket, Phase, Looping, Over
<1>9. CASE ReadSerial
  <2>1. signals' = signals
    BY <1>9 DEF ReadSerial, SocketWrite
  <2> QED
    BY <1>1, <1>5, <1>9, <2>1 DEF ReadSerial, Phase, Looping, Over
<1>10. CASE ClearSignal
  BY <1>1, <1>5, <1>10 DEF ClearSignal, Phase, Looping, Over
<1>11. CASE Tick \/ ClientSends \/ DeviceSends \/ \E s \in Side : Closes(s)
  BY <1>1, <1>5, <1>11 DEF Tick, ClientSends, DeviceSends, Closes, Phase, Looping, Over
<1>12. ASSUME NEW sig, SignalArrives(sig) PROVE [Served!Next]_<<Phase, lock, Causes>>
  BY <1>1, <1>5, <1>12 DEF SignalArrives, Phase, Looping, Over
<1>13. CASE UNCHANGED vars
  BY <1>13 DEF vars, Phase, Causes, Over
<1> QED
  BY <1>2, <1>3, <1>4, <1>6, <1>7, <1>8, <1>9, <1>10, <1>11, <1>12, <1>13 DEF Next, Process, World

LEMMA ServedInit == Init => Served!Init /\ PortInv /\ ErrorInv
  BY DEF Init, Served!Init, Phase, Looping, Causes, PortInv, ErrorInv, Fatal, None

\* A session closes down when a side has closed, the client has logged out or the
\* connection is idle, and for nothing else that may happen in the loop; it gives
\* the port back, unless it is killed by a signal that was sent, or that a client
\* which has closed provoked: PortSession, which Server counts on, is implemented.
THEOREM SessionServesAsCountedOn == Spec => ServesAsCountedOn
<1>1. Spec => []TypeOK
  BY SessionTypeCorrect
<1>2. PortInv /\ ErrorInv /\ [Next]_vars => (PortInv /\ ErrorInv)'
  BY PortInvNext, ErrorNext
<1>3. TypeOK /\ TypeOK' /\ PortInv /\ ErrorInv /\ [Next]_vars => [Served!Next]_<<Phase, lock, Causes>>
  BY ServedStep
<1>4. Spec => Served!Spec
  BY <1>1, <1>2, <1>3, ServedInit, PTL DEF Spec, Served!Spec
<1> QED
  BY <1>4 DEF ServesAsCountedOn

-----------------------------------------------------------------------------
(* How far the end of a session is, once there is a cause for it.  The loop *)
(* may still go round: what arrived before the end of file is read first,   *)
(* and a pass that has read a side by then sees its end in the next.        *)

\* There is a cause for the session to end.
Due == gone # {} \/ ~loggedIn \/ idle

\* The steps that are left of a pass, and after the loop.
StepsLeft ==
  CASE pc = "check" -> IF Continues THEN 12 ELSE 4
    [] pc = "select" -> 11 [] pc = "selecting" -> 10 [] pc = "socket" -> 9
    [] pc = "serial" -> 8 [] pc = "reading" -> 7 [] pc = "signals" -> 6
    [] pc = "clear" -> 5 [] pc = "last" -> 3 [] pc = "lastclear" -> 2
    [] pc = "cleanup" -> 1 [] OTHER -> 0

\* The passes that are still to come after this one until the end of file of a side
\* that has closed is read: one, if this pass has read that side already, and one
\* for what came before the end.
PassesLeft(s) ==
  IF s = "client"
  THEN (IF pc \in {"serial", "reading", "signals", "clear"} THEN 1 ELSE 0) + (IF inbox # <<>> THEN 1 ELSE 0)
  ELSE (IF pc \in {"signals", "clear"} THEN 1 ELSE 0) + (IF device THEN 1 ELSE 0)

Passes ==
  IF pc \notin Looping \/ ~Continues THEN 0
  ELSE IF gone = Side THEN Min2(PassesLeft("client"), PassesLeft("device"))
  ELSE IF "client" \in gone THEN PassesLeft("client") ELSE PassesLeft("device")

Distance == 9 * Passes + StepsLeft

\* After a failure the process goes to the condition of the loop and leaves it.
Failed == error => gone # {} /\ pc \notin Looping \ {"check"}

LEMMA FailedNext == Failed /\ [Next]_vars => Failed'
<1> SUFFICES ASSUME Failed, [Next]_vars PROVE Failed'
  OBVIOUS
<1> USE DEF Failed, Looping, loopVars, sideVars
<1>1. CASE ReadSocket
  BY <1>1 DEF ReadSocket
<1>2. CASE ReadSerial
  BY <1>2 DEF ReadSerial, SocketWrite
<1>3. CASE LoopEnds \/ Check \/ GoIdle
  BY <1>3, Zenon DEF LoopEnds, Check, GoIdle, Continues
<1>4. CASE Select \/ SelectReturns \/ SelectTimesOut \/ CallReadSerial
  BY <1>4 DEF Select, SelectReturns, SelectTimesOut, CallReadSerial
<1>5. CASE HandleSignal
  BY <1>5 DEF HandleSignal
<1>6. CASE ClearSignal
  BY <1>6 DEF ClearSignal
<1>7. CASE Cleanup
  BY <1>7 DEF Cleanup
<1>8. CASE World
  BY <1>8 DEF World, Tick, ClientSends, DeviceSends, Closes, SignalArrives
<1>9. CASE UNCHANGED vars
  BY <1>9 DEF vars
<1> QED
  BY <1>1, <1>2, <1>3, <1>4, <1>5, <1>6, <1>7, <1>8, <1>9 DEF Next, Process

LEMMA DistanceBounds ==
  ASSUME TypeOK
  PROVE  /\ Passes \in 0..2 /\ StepsLeft \in 0..12
         /\ Distance \in 0..30 /\ (Distance = 0 <=> Over)
<1>1. \A s \in Side : PassesLeft(s) \in 0..2
  BY DEF PassesLeft
<1>2. Passes \in 0..2
  BY <1>1 DEF Passes, Min2, Side
<1>3. StepsLeft \in 0..12 /\ (StepsLeft = 0 <=> Over)
  BY DEF StepsLeft, TypeOK, Looping, Over
<1>4. StepsLeft = 0 => Passes = 0
  BY <1>3 DEF Passes, Over, Looping
<1> QED
  BY <1>2, <1>3, <1>4 DEF Distance

LEMMA DistanceBoundsNext ==
  ASSUME TypeOK'
  PROVE  Passes' \in 0..2 /\ StepsLeft' \in 0..12
<1>1. \A s \in Side : PassesLeft(s)' \in 0..2
  BY DEF PassesLeft
<1>2. Passes' \in 0..2
  BY <1>1 DEF Passes, Min2, Side
<1>3. StepsLeft' \in 0..12
  BY DEF StepsLeft
<1> QED
  BY <1>2, <1>3

LEMMA DistanceIs ==
  ASSUME TypeOK, TypeOK'
  PROVE  /\ Distance = 9 * Passes + StepsLeft /\ Distance' = 9 * Passes' + StepsLeft'
         /\ Passes \in 0..2 /\ StepsLeft \in 0..12 /\ Passes' \in 0..2 /\ StepsLeft' \in 0..12
<1>1. Distance = 9 * Passes + StepsLeft
  BY DEF Distance
<1>2. Distance' = 9 * Passes' + StepsLeft'
  BY DEF Distance
<1> QED
  BY <1>1, <1>2, DistanceBounds, DistanceBoundsNext

LEMMA Nearer ==
  ASSUME TypeOK, TypeOK', StepsLeft' < StepsLeft, Passes' <= Passes
  PROVE  Distance' < Distance
<1> QED
  BY DistanceIs

LEMMA NotFarther ==
  ASSUME TypeOK, TypeOK', StepsLeft' <= StepsLeft, Passes' <= Passes
  PROVE  Distance' <= Distance
<1> QED
  BY DistanceIs

\* Every step of the process comes nearer: within a pass by the step, and where a
\* new pass begins by a pass that has read what kept the end of file back.
LEMMA ProcessNears ==
  ASSUME TypeOK, TypeOK', Failed, Due, Process
  PROVE  Distance' < Distance
<1> USE DEF loopVars, sideVars
<1>0. /\ Passes \in 0..2 /\ StepsLeft \in 0..12 /\ Passes' \in 0..2 /\ StepsLeft' \in 0..12
      /\ gone \in SUBSET Side
  BY DistanceBounds, DistanceBoundsNext DEF TypeOK
<1>ends. pc' \notin Looping \/ ~Continues' => Passes' = 0
  BY DEF Passes
<1>due. Continues => gone # {} /\ gone \in {{"client"}, {"device"}, Side}
  BY <1>0 DEF Continues, Due, Side
<1>1. CASE LoopEnds
  <2>1. StepsLeft' < StepsLeft /\ Passes' = 0
    BY <1>1, <1>ends DEF LoopEnds, StepsLeft, Looping
  <2> QED
    BY <1>0, <2>1, Nearer
<1>2. CASE Check \/ Select \/ CallReadSerial
  <2>1. Continues' <=> Continues
    BY <1>2 DEF Check, Select, CallReadSerial, Continues
  <2>2. StepsLeft' < StepsLeft
    BY <1>2 DEF Check, Select, CallReadSerial, StepsLeft
  <2>3. Passes' <= Passes
    BY <1>0, <1>2, <1>due, <2>1 DEF Check, Select, CallReadSerial, Passes, PassesLeft, Looping, Min2
  <2> QED
    BY <2>2, <2>3, Nearer
<1>3. CASE GoIdle
  <2>1. StepsLeft' < StepsLeft /\ ~Continues'
    BY <1>3 DEF GoIdle, StepsLeft, Continues
  <2> QED
    BY <1>0, <1>ends, <2>1, Nearer
<1>4. CASE SelectReturns
  <2>1. Continues' <=> Continues
    BY <1>4 DEF SelectReturns, Continues
  <2>2. StepsLeft' < StepsLeft
    BY <1>4 DEF SelectReturns, StepsLeft
  <2>3. "client" \in gone => pc' = "socket"
    BY <1>4 DEF SelectReturns, Ready, Side
  <2>4. Passes' <= Passes
    BY <1>0, <1>4, <1>due, <2>1, <2>3 DEF SelectReturns, Passes, PassesLeft, Looping, Min2, Side
  <2> QED
    BY <2>2, <2>4, Nearer
<1>5. CASE SelectTimesOut
  <2>1. gone = {}
    BY <1>0, <1>5 DEF SelectTimesOut, Ready
  <2>2. ~Continues'
    BY <1>5, <1>due, <2>1 DEF SelectTimesOut, Continues
  <2>3. StepsLeft' < StepsLeft
    BY <1>5 DEF SelectTimesOut, StepsLeft
  <2> QED
    BY <1>0, <1>ends, <2>2, <2>3, Nearer
<1>6. CASE ReadSocket
  <2>1. CASE error'
    <3>1. pc = "socket" /\ pc' = "check" /\ ~Continues'
      BY <1>6, <2>1 DEF ReadSocket, Continues
    <3>2. StepsLeft' < StepsLeft
      BY <3>1 DEF StepsLeft
    <3> QED
      BY <1>0, <1>ends, <3>1, <3>2, Nearer
  <2>2. CASE ~error'
    <3>1. pc = "socket" /\ pc' = "serial" /\ inbox # <<>> /\ inbox' = <<>> /\ device' = device /\ gone' = gone
      BY <1>6, <2>2, Zenon DEF ReadSocket
    <3>2. StepsLeft' < StepsLeft
      BY <3>1 DEF StepsLeft
    <3>3. ~error
      BY <3>1 DEF Failed, Looping
    <3>4. loggedIn' => loggedIn
      BY <1>6, Zenon DEF ReadSocket
    <3>5. idle' = idle
      BY <1>6 DEF ReadSocket
    <3>6. Continues' => Continues
      BY <3>3, <3>4, <3>5 DEF Continues
    <3>7. Passes' <= Passes
      BY <1>0, <1>due, <1>ends, <3>1, <3>6 DEF Passes, PassesLeft, Looping, Min2, Side
    <3> QED
      BY <3>2, <3>7, Nearer
  <2> QED
    BY <2>1, <2>2
<1>7. CASE ReadSerial
  <2>1. CASE error'
    <3>1. pc = "reading" /\ pc' = "check" /\ ~Continues'
      BY <1>7, <2>1 DEF ReadSerial, Continues
    <3>2. StepsLeft' < StepsLeft
      BY <3>1 DEF StepsLeft
    <3> QED
      BY <1>0, <1>ends, <3>1, <3>2, Nearer
  <2>2. CASE ~error'
    <3>1. pc = "reading" /\ pc' = "signals" /\ device /\ ~device' /\ inbox' = inbox /\ gone' = gone
      BY <1>7, <2>2, Zenon DEF ReadSerial
    <3>2. StepsLeft' < StepsLeft
      BY <3>1 DEF StepsLeft
    <3>3. ~error
      BY <3>1 DEF Failed, Looping
    <3>4. Continues' => Continues
      BY <1>7, <3>3 DEF ReadSerial, Continues
    <3>5. Passes' <= Passes
      BY <1>0, <1>due, <1>ends, <3>1, <3>4 DEF Passes, PassesLeft, Looping, Min2, Side
    <3> QED
      BY <3>2, <3>5, Nearer
  <2> QED
    BY <2>1, <2>2
<1>8. CASE HandleSignal
  <2>1. \/ pc = "signals" /\ pc' \in {"killed", "clear"}
        \/ pc = "last" /\ pc' \in {"killed", "lastclear"}
    BY <1>8 DEF HandleSignal
  <2>2. StepsLeft' < StepsLeft
    BY <2>1 DEF StepsLeft
  <2>3. Continues' <=> Continues
    BY <1>8 DEF HandleSignal, Continues
  <2>4. UNCHANGED <<inbox, device, gone>>
    BY <1>8 DEF HandleSignal
  <2>5. Passes' <= Passes
    BY <1>0, <1>due, <1>ends, <2>1, <2>3, <2>4 DEF Passes, PassesLeft, Looping, Min2, Side
  <2> QED
    BY <2>2, <2>5, Nearer
<1>9. CASE ClearSignal
  <2>1. /\ \/ pc = "clear" /\ pc' = "check"
           \/ pc = "lastclear" /\ pc' = "cleanup"
        /\ UNCHANGED <<inbox, device, gone>>
    BY <1>9 DEF ClearSignal
  <2>2. Continues' <=> Continues
    BY <1>9 DEF ClearSignal, Continues
  <2>3. CASE pc = "lastclear" \/ ~Continues
    <3>1. StepsLeft' < StepsLeft /\ Passes' = 0
      BY <1>ends, <2>1, <2>2, <2>3 DEF StepsLeft, Looping
    <3> QED
      BY <1>0, <3>1, Nearer
  <2>4. CASE pc = "clear" /\ Continues
    <3>1. StepsLeft = 5 /\ StepsLeft' = 12
      BY <2>1, <2>2, <2>4 DEF StepsLeft
    <3>2. Passes' < Passes
      BY <1>0, <1>due, <2>1, <2>2, <2>4 DEF Passes, PassesLeft, Looping, Min2, Side
    <3> QED
      BY <3>1, <3>2, DistanceIs
  <2> QED
    BY <2>1, <2>3, <2>4
<1>10. CASE Cleanup
  <2>1. StepsLeft' < StepsLeft /\ Passes' = 0
    BY <1>10, <1>ends DEF Cleanup, StepsLeft, Looping
  <2> QED
    BY <1>0, <2>1, Nearer
<1> QED
  BY <1>1, <1>2, <1>3, <1>4, <1>5, <1>6, <1>7, <1>8, <1>9, <1>10 DEF Process

\* What the world does, and a process that waits, puts the end no farther off.
LEMMA WorldKeepsNear ==
  ASSUME TypeOK, TypeOK', Due, World \/ UNCHANGED vars
  PROVE  Distance' <= Distance
<1> USE DEF loopVars, sideVars
<1>0. Passes \in 0..2 /\ Passes' \in 0..2 /\ StepsLeft \in 0..12 /\ gone \in SUBSET Side
  BY DistanceIs DEF TypeOK
<1>1. UNCHANGED <<loggedIn, idle, error>>
  BY DEF World, Tick, ClientSends, DeviceSends, Closes, SignalArrives, vars
<1>2. Continues' <=> Continues
  BY <1>1 DEF Continues
<1>due. Continues => gone # {} /\ gone \in {{"client"}, {"device"}, Side}
  BY <1>0 DEF Continues, Due, Side
<1>ends. pc' \notin Looping \/ ~Continues' => Passes' = 0
  BY DEF Passes
<1>3. CASE UNCHANGED <<pc, inbox, device, gone>>
  <2>1. StepsLeft' = StepsLeft
    BY <1>2, <1>3 DEF StepsLeft
  <2>2. Passes' = Passes
    BY <1>2, <1>3 DEF Passes, PassesLeft
  <2> QED
    BY <1>0, <2>1, <2>2, NotFarther
<1>4. CASE ClientSends
  <2>1. "client" \notin gone /\ UNCHANGED <<pc, device, gone>>
    BY <1>4 DEF ClientSends
  <2>2. StepsLeft' = StepsLeft
    BY <1>2, <2>1 DEF StepsLeft
  <2>3. Passes' <= Passes
    BY <1>0, <1>2, <1>due, <1>ends, <2>1 DEF Passes, PassesLeft, Side
  <2> QED
    BY <1>0, <2>2, <2>3, NotFarther
<1>5. CASE DeviceSends
  <2>1. "device" \notin gone /\ UNCHANGED <<pc, inbox, gone>>
    BY <1>5 DEF DeviceSends
  <2>2. StepsLeft' = StepsLeft
    BY <1>2, <2>1 DEF StepsLeft
  <2>3. Passes' <= Passes
    BY <1>0, <1>2, <1>due, <1>ends, <2>1 DEF Passes, PassesLeft, Side
  <2> QED
    BY <1>0, <2>2, <2>3, NotFarther
<1>6. ASSUME NEW s \in Side, Closes(s)
      PROVE  Distance' <= Distance
  <2>1. gone' = gone \union {s} /\ s \notin gone /\ UNCHANGED <<pc, inbox, device>>
    BY <1>6 DEF Closes
  <2>2. StepsLeft' = StepsLeft
    BY <1>2, <2>1 DEF StepsLeft
  <2>3. Continues => gone \in {{"client"}, {"device"}} /\ gone' = Side
    BY <1>0, <1>due, <2>1 DEF Side
  <2>4. Passes' <= Passes
    BY <1>0, <1>2, <1>ends, <2>1, <2>3 DEF Passes, PassesLeft, Min2, Side
  <2> QED
    BY <1>0, <2>2, <2>4, NotFarther
<1>7. ASSUME NEW sig \in {"SIGTERM"} \union Survived, SignalArrives(sig)
      PROVE  Distance' <= Distance
  <2>1. UNCHANGED <<inbox, device, gone>>
    BY <1>7 DEF SignalArrives
  <2>2. CASE UNCHANGED pc
    BY <1>3, <2>1, <2>2
  <2>3. CASE pc' # pc
    <3>1. /\ pc' = "signals"
          /\ \/ pc = "selecting" /\ gone = {}
             \/ pc = "reading" /\ "device" \notin gone
      BY <1>0, <1>7, <2>3 DEF SignalArrives, Ready
    <3>2. StepsLeft' <= StepsLeft
      BY <3>1 DEF StepsLeft
    <3>3. Passes' <= Passes
      BY <1>0, <1>2, <1>due, <1>ends, <2>1, <3>1 DEF Passes, PassesLeft, Looping, Side
    <3> QED
      BY <3>2, <3>3, NotFarther
  <2> QED
    BY <2>2, <2>3
<1>8. CASE Tick
  BY <1>3, <1>8 DEF Tick
<1>9. CASE UNCHANGED vars
  BY <1>3, <1>9 DEF vars
<1> QED
  BY <1>4, <1>5, <1>6, <1>7, <1>8, <1>9 DEF World

LEMMA DueStays == TypeOK /\ Due /\ [Next]_vars => Due'
<1> SUFFICES ASSUME TypeOK, Due, [Next]_vars PROVE Due'
  OBVIOUS
<1>1. gone \subseteq gone'
  BY DEF Next, Process, World, vars, loopVars, sideVars, LoopEnds, Check, GoIdle, Select,
    SelectReturns, SelectTimesOut, ReadSocket, CallReadSerial, ReadSerial, HandleSignal, ClearSignal,
    Cleanup, Tick, ClientSends, DeviceSends, Closes, SignalArrives
<1>2. ~loggedIn => ~loggedIn'
  BY Zenon DEF Next, Process, World, vars, loopVars, sideVars, LoopEnds, Check, GoIdle, Select,
    SelectReturns, SelectTimesOut, ReadSocket, CallReadSerial, ReadSerial, HandleSignal, ClearSignal,
    Cleanup, Tick, ClientSends, DeviceSends, Closes, SignalArrives
<1>3. idle => idle'
  BY Zenon DEF Next, Process, World, vars, loopVars, sideVars, LoopEnds, Check, GoIdle, Select,
    SelectReturns, SelectTimesOut, ReadSocket, CallReadSerial, ReadSerial, HandleSignal, ClearSignal,
    Cleanup, Tick, ClientSends, DeviceSends, Closes, SignalArrives
<1> QED
  BY <1>1, <1>2, <1>3 DEF Due

\* Once a side has closed, the client has logged out or the session is idle, it is
\* at most 30 steps of the process to its end, counted by Distance, which is 0 at
\* the end and nowhere else: every step of the process brings the end nearer, and
\* no message, signal, end of file or second that goes by puts it off.  What
\* EndsInTime adds to this is that the process is scheduled and not held by the
\* read() of a silent device.
THEOREM EndComesNearer ==
  Spec => /\ [](Distance \in 0..30 /\ (Distance = 0 <=> Over))
          /\ [][Due => Due' /\ Distance' <= Distance /\ (Process => Distance' < Distance)]_vars
<1>1. Init => Failed
  BY DEF Init, Failed
<1>2. Spec => []Failed
  BY <1>1, FailedNext, PTL DEF Spec
<1>3. TypeOK => Distance \in 0..30 /\ (Distance = 0 <=> Over)
  BY DistanceBounds
<1>4. TypeOK /\ TypeOK' /\ Failed /\ [Next]_vars
        => [Due => Due' /\ Distance' <= Distance /\ (Process => Distance' < Distance)]_vars
  <2> SUFFICES ASSUME TypeOK, TypeOK', Failed, [Next]_vars, Due
               PROVE  Due' /\ Distance' <= Distance /\ (Process => Distance' < Distance)
    OBVIOUS
  <2>1. Due'
    BY DueStays
  <2>2. Process => Distance' < Distance
    BY ProcessNears
  <2>3. Process => Distance' <= Distance
    BY <2>2, DistanceIs
  <2>4. World \/ UNCHANGED vars => Distance' <= Distance
    BY WorldKeepsNear
  <2> QED
    BY <2>1, <2>2, <2>3, <2>4 DEF Next
<1> QED
  BY <1>2, <1>3, <1>4, SessionTypeCorrect, PTL DEF Spec

-----------------------------------------------------------------------------
(* The session of the raw gateway, which passes the bytes of both sides on *)
(* as it reads them.  It has a state of its own: raw_pc is its pc, raw_gone *)
(* its gone.                                                               *)

CONSTANTS RecvSize, CommandSize, ReadSize, MaxSent, MaxEmpty
VARIABLES raw_pc, sent, unread, raw_gone, chunks, passed, cut

Raw == INSTANCE RawGateway WITH pc <- raw_pc, gone <- raw_gone

\* All the bytes that appear: places in a stream, and what the program adds.
LEMMA RawBytes == Raw!NUL \in Int /\ Raw!NewLine \in Int /\ Raw!Stray \in Int
  BY DEF Raw!NUL, Raw!NewLine, Raw!Stray

\* The instance has the community modules' operators under names of its own.
LEMMA SameFlattenSeq == ASSUME NEW ss PROVE Raw!FlattenSeq(ss) = FlattenSeq(ss)
  BY DEF Raw!FlattenSeq, FlattenSeq

LEMMA SameIsPrefix == ASSUME NEW ss, NEW tt PROVE Raw!IsPrefix(ss, tt) <=> IsPrefix(ss, tt)
  BY DEF Raw!IsPrefix, IsPrefix

RawTypeInv ==
  /\ sent \in [Raw!Side -> Nat]
  /\ unread \in [Raw!Side -> Seq(Int)] /\ passed \in [Raw!Side -> Seq(Int)]
  /\ chunks \in [Raw!Side -> Seq(Seq(Int))]

RawInv == RawTypeInv /\ Raw!DeviceGetsFrames /\ Raw!AnswersFramed

\* What a read took, with what it left, is what was there.
LEMMA PartAndRest ==
  ASSUME NEW X, NEW u \in Seq(X), NEW chunk \in Raw!Parts(u)
  PROVE  /\ chunk \in Seq(X) /\ SubSeq(u, Len(chunk) + 1, Len(u)) \in Seq(X)
         /\ chunk \o SubSeq(u, Len(chunk) + 1, Len(u)) = u
         /\ chunk # <<>>
<1>1. PICK l \in 0..Len(u) : chunk = SubSeq(u, 1, l)
  BY DEF Raw!Parts, Raw!Prefixes
<1>2. chunk \in Seq(X) /\ Len(chunk) = l /\ SubSeq(u, l + 1, Len(u)) \in Seq(X)
  BY <1>1
<1>3. chunk \o SubSeq(u, l + 1, Len(u)) = u
  <2>1. 1 \in 1..(Len(u) + 1) /\ l \in 1 - 1 .. Len(u) /\ Len(u) \in l .. Len(u)
    OBVIOUS
  <2>2. SubSeq(u, 1, l) \o SubSeq(u, l + 1, Len(u)) = SubSeq(u, 1, Len(u))
    BY <2>1, ConcatAdjacentSubSeq
  <2> QED
    BY <1>1, <2>2, SubSeqFull
<1>4. chunk # <<>>
  BY DEF Raw!Parts
<1> QED
  BY <1>2, <1>3, <1>4

\* What the frames of a sequence of reads are, one read at a time.
Frames(cs, end) == FlattenSeq([i \in DOMAIN cs |-> Append(cs[i], end)])

LEMMA FramesOne ==
  ASSUME NEW cs \in Seq(Seq(Int)), NEW chunk \in Seq(Int), NEW end \in Int
  PROVE  /\ Frames(cs, end) \in Seq(Int)
         /\ Frames(Append(cs, chunk), end) = Frames(cs, end) \o Append(chunk, end)
<1> DEFINE f(dd) == [i \in DOMAIN dd |-> Append(dd[i], end)]
           ds == Append(cs, chunk)
<1>1. f(cs) \in Seq(Seq(Int)) /\ Append(chunk, end) \in Seq(Int)
  <2>1. ASSUME NEW i \in 1..Len(cs)
        PROVE  Append(cs[i], end) \in Seq(Int)
    <3>1. cs[i] \in Seq(Int)
      OBVIOUS
    <3> QED
      BY <3>1
  <2>2. f(cs) \in [1..Len(cs) -> Seq(Int)] /\ Len(cs) \in Nat
    BY <2>1
  <2>3. f(cs) \in Seq(Seq(Int))
    BY <2>2
  <2> QED
    BY <2>3
<1>2. f(ds) = Append(f(cs), Append(chunk, end))
  OBVIOUS
<1> QED
  BY <1>1, <1>2, FlattenSeqType, FlattenSeqAppend DEF Frames

LEMMA FramesNone == ASSUME NEW end PROVE Frames(<<>>, end) = <<>>
<1>1. [i \in DOMAIN <<>> |-> Append(<<>>[i], end)] = <<>> /\ <<>> \in Seq(Seq(Int))
  OBVIOUS
<1>2. FlattenSeq(<<>>) = <<>>
  BY <1>1, FlattenSeqType
<1> QED
  BY <1>1, <1>2 DEF Frames

LEMMA StreamOne ==
  ASSUME NEW n \in Nat
  PROVE  Raw!Stream(n) \in Seq(Int) /\ Raw!Stream(n + 1) = Append(Raw!Stream(n), n + 1)
BY DEF Raw!Stream

\* What the device has got of the client's reads, as long as none of them, or none
\* of the first k, ran over command.
Sound(cs, k) == \A i \in 1..k : ~Raw!Overruns(cs[i])
AllFramed(cs, p) == Sound(cs, Len(cs)) => p = Frames(cs, Raw!NUL)
Begun(cs, p) ==
  \A k \in 1..Len(cs) : Sound(cs, k) => IsPrefix(Frames(SubSeq(cs, 1, k), Raw!NUL), p)

LEMMA PrefixGrows ==
  ASSUME NEW p \in Seq(Int), NEW q \in Seq(Int), NEW r \in Seq(Int), IsPrefix(p, q)
  PROVE  IsPrefix(p, q \o r) /\ IsPrefix(p, p)
<1>0. SubSeq(p, 1, Len(p)) = p /\ Len(p) \in Nat /\ Len(q) \in Nat
  OBVIOUS
<1>1. p = SubSeq(q, 1, Len(p)) /\ Len(p) <= Len(q) /\ Len(p) \in Nat /\ Len(q) \in Nat
  BY <1>0, Zenon DEF IsPrefix
<1>2. SubSeq(q \o r, 1, Len(p)) = SubSeq(q, 1, Len(p)) /\ Len(q \o r) >= Len(p)
  BY <1>1
<1>3. SubSeq(p, 1, Len(p)) = p /\ Len(p) <= Len(p)
  BY <1>0
<1> QED
  BY <1>1, <1>2, <1>3, Zenon DEF IsPrefix

LEMMA BegunGrows ==
  ASSUME NEW cs \in Seq(Seq(Int)), NEW p \in Seq(Int), NEW r \in Seq(Int), Begun(cs, p)
  PROVE  Begun(cs, p \o r)
<1> SUFFICES ASSUME NEW k \in 1..Len(cs), Sound(cs, k)
             PROVE  IsPrefix(Frames(SubSeq(cs, 1, k), Raw!NUL), p \o r)
  BY Zenon DEF Begun
<1>1. IsPrefix(Frames(SubSeq(cs, 1, k), Raw!NUL), p)
  BY Zenon DEF Begun
<1>2. SubSeq(cs, 1, k) \in Seq(Seq(Int)) /\ <<>> \in Seq(Int)
  OBVIOUS
<1>3. Frames(SubSeq(cs, 1, k), Raw!NUL) \in Seq(Int)
  BY <1>2, RawBytes, FramesOne, Zenon
<1> QED
  BY <1>1, <1>3, PrefixGrows, Zenon

\* A read that fits adds its frame, one that does not adds whatever it likes.
LEMMA MessageAdds ==
  ASSUME NEW cs \in Seq(Seq(Int)), NEW p \in Seq(Int), NEW chunk \in Seq(Int),
         NEW frame \in Seq(Int), AllFramed(cs, p), Begun(cs, p),
         Raw!Overruns(chunk) \/ frame = Append(chunk, Raw!NUL)
  PROVE  AllFramed(Append(cs, chunk), p \o frame) /\ Begun(Append(cs, chunk), p \o frame)
<1> DEFINE ds == Append(cs, chunk)
<1>1. /\ ds \in Seq(Seq(Int)) /\ Len(ds) = Len(cs) + 1 /\ Len(cs) \in Nat /\ ds[Len(ds)] = chunk
      /\ \A i \in 1..Len(cs) : ds[i] = cs[i]
      /\ \A k \in 1..Len(cs) : SubSeq(ds, 1, k) = SubSeq(cs, 1, k)
      /\ SubSeq(ds, 1, Len(ds)) = ds
  OBVIOUS
<1>2. Frames(ds, Raw!NUL) = Frames(cs, Raw!NUL) \o Append(chunk, Raw!NUL)
  BY RawBytes, FramesOne, Zenon
<1> HIDE DEF ds
<1>3. \A k \in 1..Len(cs) : Sound(ds, k) => Sound(cs, k)
  BY <1>1 DEF Sound
<1>4. Sound(ds, Len(ds)) => Sound(cs, Len(cs)) /\ ~Raw!Overruns(chunk)
  <2> SUFFICES ASSUME Sound(ds, Len(ds)) PROVE Sound(cs, Len(cs)) /\ ~Raw!Overruns(chunk)
    OBVIOUS
  <2>1. \A i \in 1..Len(ds) : ~Raw!Overruns(ds[i])
    BY DEF Sound
  <2>2. Len(ds) \in 1..Len(ds) /\ (\A i \in 1..Len(cs) : i \in 1..Len(ds))
    BY <1>1
  <2> QED
    BY <1>1, <2>1, <2>2, Zenon DEF Sound
<1>5. AllFramed(ds, p \o frame)
  BY <1>2, <1>4, Zenon DEF AllFramed
<1>6. Begun(ds, p \o frame)
  <2> SUFFICES ASSUME NEW k \in 1..Len(ds), Sound(ds, k)
               PROVE  IsPrefix(Frames(SubSeq(ds, 1, k), Raw!NUL), p \o frame)
    BY Zenon DEF Begun
  <2>1. CASE k \in 1..Len(cs)
    <3>1. Begun(cs, p \o frame)
      BY BegunGrows
    <3> QED
      BY <1>1, <1>3, <2>1, <3>1, Zenon DEF Begun
  <2>2. CASE k = Len(ds)
    <3>1. p \o frame = Frames(ds, Raw!NUL)
      BY <1>5, <2>2, Zenon DEF AllFramed
    <3>2. Frames(ds, Raw!NUL) \in Seq(Int)
      BY <1>1, RawBytes, FramesOne, Zenon
    <3>3. IsPrefix(p \o frame, p \o frame)
      BY <3>1, <3>2 DEF IsPrefix
    <3> QED
      BY <1>1, <2>2, <3>1, <3>3, Zenon
  <2> QED
    BY <1>1, <2>1, <2>2
<1> QED
  BY <1>5, <1>6 DEF ds

\* What is written for a read is a sequence of bytes, and the frame if the read fits.
LEMMA MessageFrame ==
  ASSUME NEW chunk \in Seq(Int), NEW frame \in Raw!MessageFrames(chunk)
  PROVE  frame \in Seq(Int) /\ (Raw!Overruns(chunk) \/ frame = Append(chunk, Raw!NUL))
<1> DEFINE whole == Append(chunk, Raw!NUL)
<1>1. whole \in Seq(Int)
  BY RawBytes
<1> HIDE DEF whole
<1>2. CASE frame = whole
  BY <1>1, <1>2 DEF whole
<1>3. CASE Raw!Overruns(chunk) /\ frame \in Raw!Spoilt(whole)
  <2> DEFINE Of(n) == {[i \in 1..n |-> IF i \in kept THEN whole[i] ELSE Raw!Stray] :
                         kept \in SUBSET DOMAIN whole}
  <2>1. PICK n \in 1..(Len(whole) + 1), kept \in SUBSET DOMAIN whole :
          frame = [i \in 1..n |-> IF i \in kept THEN whole[i] ELSE Raw!Stray]
    <3>1. frame \in UNION {Of(n) : n \in 1..(Len(whole) + 1)}
      BY <1>3, Zenon DEF Raw!Spoilt
    <3>2. PICK n \in 1..(Len(whole) + 1) : frame \in Of(n)
      <4> HIDE DEF Of
      <4> QED
        BY <3>1, Zenon
    <3>3. PICK kept \in SUBSET DOMAIN whole :
            frame = [i \in 1..n |-> IF i \in kept THEN whole[i] ELSE Raw!Stray]
      BY <3>2, Zenon
    <3> QED
      BY <3>3, Zenon
  <2>2. DOMAIN whole = 1..Len(whole) /\ Len(whole) \in Nat /\ \A i \in 1..Len(whole) : whole[i] \in Int
    BY <1>1
  <2>3. frame \in [1..n -> Int] /\ n \in Nat
    BY <2>1, <2>2, RawBytes
  <2> QED
    BY <1>3, <2>3
<1> QED
  BY <1>2, <1>3 DEF Raw!MessageFrames, whole

\* What the invariant says of one side, whatever its state in the session.
StreamKept(s) == FlattenSeq(chunks[s]) \o unread[s] = Raw!Stream(sent[s])
EmptyFromGone ==
  \A i \in DOMAIN chunks["device"] : chunks["device"][i] = <<>> => "device" \in raw_gone

LEMMA RawInvIs ==
  RawInv <=>
    /\ RawTypeInv /\ StreamKept("client") /\ StreamKept("device") /\ EmptyFromGone
    /\ "client" \notin cut =>
         /\ \/ AllFramed(chunks["client"], passed["client"])
            \/ raw_pc = "done" /\ passed["client"] = Append(Frames(chunks["client"], Raw!NUL), Raw!Stray)
         /\ Begun(chunks["client"], passed["client"])
    /\ "device" \notin cut => passed["device"] = Frames(chunks["device"], Raw!NewLine)
<1>1. ASSUME NEW cs, NEW end
      PROVE  Raw!Framed(cs, end) = Frames(cs, end)
  BY SameFlattenSeq, Zenon DEF Raw!Framed, Frames
<1>2. ASSUME NEW s
      PROVE  (Raw!FlattenSeq(chunks[s]) \o unread[s] = Raw!Stream(sent[s])) <=> StreamKept(s)
  BY SameFlattenSeq, Zenon DEF StreamKept
<1> QED
  BY <1>1, <1>2, SameIsPrefix, Zenon
    DEF RawInv, Raw!DeviceGetsFrames, Raw!AnswersFramed, EmptyFromGone, AllFramed, Begun, Sound

LEMMA RawInvInit == Raw!Init => RawInv
<1> SUFFICES ASSUME Raw!Init
             PROVE  RawInv
  OBVIOUS
<1>1. /\ sent = [s \in Raw!Side |-> 0] /\ raw_gone = {} /\ cut = {}
      /\ unread = [s \in Raw!Side |-> <<>>]
      /\ chunks = [s \in Raw!Side |-> <<>>] /\ passed = [s \in Raw!Side |-> <<>>]
  BY DEF Raw!Init
<1>2. RawTypeInv
  BY <1>1 DEF RawTypeInv
<1>3. FlattenSeq(<<>>) = <<>>
  <2>1. <<>> \in Seq(Seq(Int))
    OBVIOUS
  <2> QED
    BY <2>1, FlattenSeqType, Zenon
<1>4. Raw!Stream(0) = <<>> /\ <<>> \o <<>> = <<>>
  BY DEF Raw!Stream
<1>5. ASSUME NEW s \in Raw!Side, NEW end
      PROVE  /\ StreamKept(s) /\ passed[s] = Frames(chunks[s], end) /\ DOMAIN chunks[s] = {}
  <2>1. chunks[s] = <<>> /\ unread[s] = <<>> /\ sent[s] = 0 /\ passed[s] = <<>>
    BY <1>1
  <2>2. DOMAIN chunks[s] = {}
    BY <2>1
  <2> QED
    BY <1>3, <1>4, <2>1, <2>2, FramesNone, Zenon DEF StreamKept
<1>6. "client" \in Raw!Side /\ "device" \in Raw!Side
  BY DEF Raw!Side
<1>7. Begun(chunks["client"], passed["client"])
  <2>1. chunks["client"] = <<>>
    BY <1>1, <1>6
  <2>2. 1..Len(chunks["client"]) = {}
    BY <2>1
  <2> QED
    BY <2>2, Zenon DEF Begun
<1>8. AllFramed(chunks["client"], passed["client"])
  BY <1>5, <1>6, Zenon DEF AllFramed
<1> QED
  BY <1>2, <1>5, <1>6, <1>7, <1>8, RawInvIs, Zenon DEF EmptyFromGone

LEMMA ConcatInts ==
  ASSUME NEW p \in Seq(Int), NEW q \in Seq(Int), NEW r \in Seq(Int)
  PROVE  (p \o q) \o r = p \o (q \o r)
  BY ConcatAssociative

ReadKept(s, chunk, end) ==
  /\ chunks' \in [Raw!Side -> Seq(Seq(Int))] /\ unread' \in [Raw!Side -> Seq(Int)]
  /\ StreamKept(s)'
  /\ chunks'[s] = Append(chunks[s], chunk)
  /\ Frames(chunks'[s], end) = Frames(chunks[s], end) \o Append(chunk, end)
  /\ \A t \in Raw!Side \ {s} : chunks'[t] = chunks[t] /\ (StreamKept(t) => StreamKept(t)')

\* A read moves what it takes from what is unread to the chunks of its side.
LEMMA ReadKeepsStream ==
  ASSUME RawTypeInv, NEW s \in Raw!Side, NEW size, NEW chunk \in Seq(Int), NEW end \in Int,
         SubSeq(unread[s], Len(chunk) + 1, Len(unread[s])) \in Seq(Int),
         chunk \o SubSeq(unread[s], Len(chunk) + 1, Len(unread[s])) = unread[s],
         Raw!Reads(s, size, chunk), UNCHANGED sent,
         StreamKept(s)
  PROVE  ReadKept(s, chunk, end)
<1> DEFINE rest == SubSeq(unread[s], Len(chunk) + 1, Len(unread[s]))
<1>1. /\ unread' = [unread EXCEPT ![s] = rest]
      /\ chunks' = [chunks EXCEPT ![s] = Append(chunks[s], chunk)]
  BY DEF Raw!Reads
<1>2. /\ unread \in [Raw!Side -> Seq(Int)] /\ chunks \in [Raw!Side -> Seq(Seq(Int))]
      /\ chunks[s] \in Seq(Seq(Int)) /\ rest \in Seq(Int)
  BY DEF RawTypeInv
<1> HIDE DEF rest
<1>3. unread'[s] = rest /\ chunks'[s] = Append(chunks[s], chunk)
  BY <1>1, <1>2
<1>4. Append(chunks[s], chunk) \in Seq(Seq(Int))
  BY <1>2
<1>5. chunks' \in [Raw!Side -> Seq(Seq(Int))] /\ unread' \in [Raw!Side -> Seq(Int)]
  BY <1>1, <1>2, <1>4
<1>6. StreamKept(s)'
  <2>1. FlattenSeq(chunks'[s]) = FlattenSeq(chunks[s]) \o chunk
    BY <1>2, <1>3, FlattenSeqAppend, Zenon
  <2>2. FlattenSeq(chunks[s]) \in Seq(Int)
    BY <1>2, FlattenSeqType, Zenon
  <2>3. (FlattenSeq(chunks[s]) \o chunk) \o rest = FlattenSeq(chunks[s]) \o (chunk \o rest)
    BY <1>2, <2>2, ConcatInts, Zenon
  <2>4. chunk \o rest = unread[s]
    BY DEF rest
  <2> QED
    BY <1>3, <2>1, <2>3, <2>4, Zenon DEF StreamKept
<1>7. ASSUME NEW t \in Raw!Side \ {s}
      PROVE  chunks'[t] = chunks[t] /\ (StreamKept(t) => StreamKept(t)')
  <2>1. chunks'[t] = chunks[t] /\ unread'[t] = unread[t]
    BY <1>1, <1>2
  <2> QED
    BY <2>1 DEF StreamKept
<1>8. /\ Frames(chunks'[s], end) = Frames(chunks[s], end) \o Append(chunk, end)
  BY <1>2, <1>3, FramesOne, Zenon
<1> QED
  BY <1>3, <1>5, <1>6, <1>7, <1>8, Zenon DEF ReadKept

\* A write that was not cut short adds the frame, and only to its side.
LEMMA WriteAddsFrame ==
  ASSUME RawTypeInv, NEW s \in Raw!Side, NEW frame \in Seq(Int),
         Raw!Writes(s, frame) \/ Raw!Lost(s)
  PROVE  /\ passed' \in [Raw!Side -> Seq(Int)]
         /\ s \notin cut' => s \notin cut /\ passed'[s] = passed[s] \o frame
         /\ \A t \in Raw!Side \ {s} : passed'[t] = passed[t] /\ (t \in cut' <=> t \in cut)
<1>1. CASE Raw!Lost(s)
  BY <1>1 DEF Raw!Lost, RawTypeInv
<1>2. CASE Raw!Writes(s, frame)
  <2>1. PICK part \in Raw!Parts(frame) :
          /\ passed' = [passed EXCEPT ![s] = passed[s] \o part]
          /\ cut' = IF part = frame THEN cut ELSE cut \union {s}
    BY <1>2 DEF Raw!Writes
  <2>2. part \in Seq(Int)
    BY PartAndRest, Zenon
  <2>3. passed \in [Raw!Side -> Seq(Int)] /\ passed[s] \in Seq(Int)
    BY DEF RawTypeInv
  <2>4. passed[s] \o part \in Seq(Int)
    BY <2>2, <2>3
  <2>5. /\ passed' \in [Raw!Side -> Seq(Int)] /\ passed'[s] = passed[s] \o part
        /\ \A t \in Raw!Side \ {s} : passed'[t] = passed[t]
    BY <2>1, <2>3, <2>4
  <2> QED
    BY <2>1, <2>5
<1> QED
  BY <1>1, <1>2

LEMMA RawInvStep == RawInv /\ [Raw!Next]_(Raw!vars) => RawInv'
<1> SUFFICES ASSUME RawInv, [Raw!Next]_(Raw!vars)
             PROVE  RawInv'
  OBVIOUS
<1> DEFINE ClientOK ==
             "client" \notin cut =>
               /\ \/ AllFramed(chunks["client"], passed["client"])
                  \/ /\ raw_pc = "done"
                     /\ passed["client"] = Append(Frames(chunks["client"], Raw!NUL), Raw!Stray)
               /\ Begun(chunks["client"], passed["client"])
           ClientWhole ==
             "client" \notin cut =>
               /\ AllFramed(chunks["client"], passed["client"])
               /\ Begun(chunks["client"], passed["client"])
           DeviceOK ==
             "device" \notin cut => passed["device"] = Frames(chunks["device"], Raw!NewLine)
<1>inv. /\ RawTypeInv /\ StreamKept("client") /\ StreamKept("device") /\ EmptyFromGone
        /\ ClientOK /\ DeviceOK
  BY RawInvIs, Zenon
<1>goal. ASSUME /\ RawTypeInv' /\ StreamKept("client")' /\ StreamKept("device")' /\ EmptyFromGone'
                /\ ClientOK' /\ DeviceOK'
         PROVE  RawInv'
  BY <1>goal, RawInvIs, PTL
<1>sides. /\ "client" \in Raw!Side /\ "device" \in Raw!Side /\ "client" # "device"
          /\ "client" \in Raw!Side \ {"device"} /\ "device" \in Raw!Side \ {"client"}
          /\ \A s \in Raw!Side : s = "client" \/ s = "device"
  BY DEF Raw!Side
<1>whole. ASSUME raw_pc # "done" PROVE ClientWhole
  BY <1>inv, <1>whole
<1>types. /\ sent \in [Raw!Side -> Nat] /\ unread \in [Raw!Side -> Seq(Int)]
          /\ passed \in [Raw!Side -> Seq(Int)] /\ chunks \in [Raw!Side -> Seq(Seq(Int))]
  BY <1>inv DEF RawTypeInv
<1>quiet. ASSUME UNCHANGED <<sent, unread, chunks, passed, cut>>, raw_gone \subseteq raw_gone',
                 raw_pc = "done" => raw_pc' = "done"
          PROVE  RawInv'
  <2>1. RawTypeInv' /\ StreamKept("client")' /\ StreamKept("device")'
    BY <1>inv, <1>quiet DEF RawTypeInv, StreamKept
  <2>2. EmptyFromGone'
    BY <1>inv, <1>quiet DEF EmptyFromGone
  <2>3. ClientOK' /\ DeviceOK'
    BY <1>inv, <1>quiet
  <2> QED
    BY <1>goal, <2>1, <2>2, <2>3
<1>1. CASE Raw!Select
  BY <1>1, <1>quiet DEF Raw!Select
<1>2. CASE Raw!raw_TCP_socket_to_serial
  <2>1. raw_pc = "socket" /\ UNCHANGED <<sent, raw_gone>>
    BY <1>2 DEF Raw!raw_TCP_socket_to_serial
  <2>2. PICK chunk \in Raw!Parts(unread["client"]) :
          \E frame \in Raw!MessageFrames(chunk) :
            /\ Raw!Reads("client", RecvSize, chunk)
            /\ Raw!Writes("client", frame) \/ Raw!Lost("client")
    BY <1>2 DEF Raw!raw_TCP_socket_to_serial
  <2>frame. PICK frame \in Raw!MessageFrames(chunk) :
          /\ Raw!Reads("client", RecvSize, chunk)
          /\ Raw!Writes("client", frame) \/ Raw!Lost("client")
    BY <2>2
  <2> DEFINE rest == SubSeq(unread["client"], Len(chunk) + 1, Len(unread["client"]))
  <2>3. unread["client"] \in Seq(Int)
    BY <1>types, <1>sides
  <2>4. chunk \in Seq(Int) /\ rest \in Seq(Int) /\ chunk \o rest = unread["client"]
    BY <2>3, PartAndRest, Zenon
  <2>5. frame \in Seq(Int) /\ (Raw!Overruns(chunk) \/ frame = Append(chunk, Raw!NUL))
    BY <2>4, MessageFrame, Zenon
  <2>6. /\ chunks' \in [Raw!Side -> Seq(Seq(Int))] /\ unread' \in [Raw!Side -> Seq(Int)]
        /\ StreamKept("client")'
        /\ chunks'["client"] = Append(chunks["client"], chunk)
        /\ chunks'["device"] = chunks["device"]
        /\ StreamKept("device") => StreamKept("device")'
    <3>1. sent' = sent
      BY <2>1
    <3>2. ReadKept("client", chunk, Raw!NUL)
      BY <1>inv, <1>sides, <2>frame, <2>4, <3>1, RawBytes, ReadKeepsStream, Zenon
    <3> QED
      BY <1>sides, <3>2, Zenon DEF ReadKept
  <2>7. /\ passed' \in [Raw!Side -> Seq(Int)]
        /\ "client" \notin cut' =>
             "client" \notin cut /\ passed'["client"] = passed["client"] \o frame
        /\ passed'["device"] = passed["device"] /\ ("device" \in cut' <=> "device" \in cut)
    BY <1>inv, <1>sides, <2>frame, <2>5, WriteAddsFrame, Zenon
  <2>8. RawTypeInv'
    BY <1>types, <2>1, <2>6, <2>7 DEF RawTypeInv
  <2>9. EmptyFromGone'
    BY <1>inv, <2>1, <2>6, Zenon DEF EmptyFromGone
  <2>10. ClientWhole' /\ DeviceOK'
    <3>1. ClientWhole
      BY <1>whole, <2>1
    <3>2. chunks["client"] \in Seq(Seq(Int)) /\ passed["client"] \in Seq(Int)
      BY <1>types, <1>sides
    <3>3. ASSUME "client" \notin cut'
          PROVE  /\ AllFramed(Append(chunks["client"], chunk), passed["client"] \o frame)
                 /\ Begun(Append(chunks["client"], chunk), passed["client"] \o frame)
      <4>1. AllFramed(chunks["client"], passed["client"]) /\ Begun(chunks["client"], passed["client"])
        BY <2>7, <3>1, <3>3, Zenon
      <4> QED
        BY <2>4, <2>5, <3>2, <4>1, MessageAdds, Zenon
    <3> QED
      BY <3>3, <1>inv, <2>6, <2>7, Zenon DEF AllFramed, Begun
  <2> QED
    BY <1>goal, <1>inv, <2>6, <2>8, <2>9, <2>10
<1>3. CASE Raw!SocketEOF
  <2>1. raw_pc = "socket" /\ raw_pc' = "done" /\ UNCHANGED <<sent, unread, raw_gone, chunks>>
    BY <1>3 DEF Raw!SocketEOF
  <2>2. CASE UNCHANGED <<passed, cut>>
    BY <1>quiet, <2>1, <2>2
  <2>3. CASE Raw!Writes("client", <<Raw!Stray>>)
    <3>1. <<Raw!Stray>> \in Seq(Int)
      BY RawBytes
    <3>2. /\ passed' \in [Raw!Side -> Seq(Int)]
          /\ "client" \notin cut' =>
               "client" \notin cut /\ passed'["client"] = passed["client"] \o <<Raw!Stray>>
          /\ passed'["device"] = passed["device"] /\ ("device" \in cut' <=> "device" \in cut)
      BY <1>inv, <1>sides, <2>3, <3>1, WriteAddsFrame, Zenon
    <3>3. passed["client"] \o <<Raw!Stray>> = Append(passed["client"], Raw!Stray)
      BY <1>types, <1>sides, RawBytes
    <3>4. ClientWhole
      BY <1>whole, <2>1
    <3>5. ClientOK' /\ DeviceOK'
      <4>1. chunks["client"] \in Seq(Seq(Int)) /\ passed["client"] \in Seq(Int)
        BY <1>types, <1>sides
      <4>2. ASSUME "client" \notin cut'
            PROVE  /\ Begun(chunks["client"], passed'["client"])
                   /\ \/ passed'["client"] = Append(Frames(chunks["client"], Raw!NUL), Raw!Stray)
                      \/ AllFramed(chunks["client"], passed'["client"])
        <5>1. AllFramed(chunks["client"], passed["client"]) /\ Begun(chunks["client"], passed["client"])
          BY <3>2, <3>4, <4>2, Zenon
        <5>2. Begun(chunks["client"], passed["client"] \o <<Raw!Stray>>)
          BY <3>1, <4>1, <5>1, BegunGrows, Zenon
        <5> QED
          BY <3>2, <3>3, <4>2, <5>1, <5>2, Zenon DEF AllFramed
      <4>3. chunks' = chunks /\ raw_pc' = "done" /\ passed'["device"] = passed["device"]
            /\ ("device" \in cut' <=> "device" \in cut)
        BY <2>1, <3>2
      <4> QED
        BY <1>inv, <4>2, <4>3, Zenon DEF AllFramed, Begun
    <3>6. RawTypeInv' /\ StreamKept("client")' /\ StreamKept("device")' /\ EmptyFromGone'
      BY <1>inv, <2>1, <3>2 DEF RawTypeInv, StreamKept, EmptyFromGone
    <3> QED
      BY <1>goal, <3>5, <3>6
  <2> QED
    BY <1>3, <2>2, <2>3 DEF Raw!SocketEOF
<1>4. ASSUME NEW chunk \in Seq(Int),
             chunk = <<>> => "device" \in raw_gone,
             SubSeq(unread["device"], Len(chunk) + 1, Len(unread["device"])) \in Seq(Int),
             chunk \o SubSeq(unread["device"], Len(chunk) + 1, Len(unread["device"]))
               = unread["device"],
             raw_pc = "serial", UNCHANGED <<sent, raw_gone>>,
             Raw!Reads("device", ReadSize, chunk), Raw!SendAnswer(chunk)
      PROVE  RawInv'
  <2> DEFINE frame == Append(chunk, Raw!NewLine)
  <2>1. Raw!Writes("device", frame) \/ Raw!Lost("device")
    BY <1>4 DEF Raw!SendAnswer, Raw!Answer
  <2>2. frame \in Seq(Int)
    BY RawBytes
  <2> HIDE DEF frame
  <2>3. /\ chunks' \in [Raw!Side -> Seq(Seq(Int))] /\ unread' \in [Raw!Side -> Seq(Int)]
        /\ StreamKept("device")'
        /\ chunks'["device"] = Append(chunks["device"], chunk)
        /\ Frames(chunks'["device"], Raw!NewLine) = Frames(chunks["device"], Raw!NewLine) \o frame
        /\ chunks'["client"] = chunks["client"]
        /\ StreamKept("client") => StreamKept("client")'
    <3>1. sent' = sent
      BY <1>4
    <3>2. ReadKept("device", chunk, Raw!NewLine)
      BY <1>inv, <1>sides, <1>4, <3>1, RawBytes, ReadKeepsStream, Zenon
    <3> QED
      BY <1>sides, <3>2, Zenon DEF ReadKept, frame
  <2>4. /\ passed' \in [Raw!Side -> Seq(Int)]
        /\ "device" \notin cut' =>
             "device" \notin cut /\ passed'["device"] = passed["device"] \o frame
        /\ passed'["client"] = passed["client"] /\ ("client" \in cut' <=> "client" \in cut)
    BY <1>inv, <1>sides, <2>1, <2>2, WriteAddsFrame, Zenon
  <2>5. RawTypeInv'
    BY <1>types, <1>4, <2>3, <2>4 DEF RawTypeInv
  <2>6. EmptyFromGone'
    <3>1. ASSUME NEW i \in DOMAIN chunks'["device"], chunks'["device"][i] = <<>>
          PROVE  "device" \in raw_gone'
      <4>1. chunks["device"] \in Seq(Seq(Int))
        BY <1>types, <1>sides
      <4>2. \/ i \in DOMAIN chunks["device"] /\ chunks'["device"][i] = chunks["device"][i]
            \/ chunks'["device"][i] = chunk
        BY <2>3, <3>1, <4>1
      <4> QED
        BY <1>inv, <1>4, <3>1, <4>2 DEF EmptyFromGone
    <3> QED
      BY <3>1 DEF EmptyFromGone
  <2>7. ClientWhole' /\ DeviceOK'
    <3>1. ClientWhole
      BY <1>whole, <1>4
    <3> QED
      BY <3>1, <1>inv, <2>3, <2>4, Zenon
  <2> QED
    BY <1>goal, <1>inv, <2>3, <2>5, <2>6, <2>7
<1>5. CASE Raw!raw_data_to_TCP_socket
  <2>1. PICK chunk \in Raw!Parts(unread["device"]) :
          Raw!Reads("device", ReadSize, chunk) /\ Raw!SendAnswer(chunk)
    BY <1>5 DEF Raw!raw_data_to_TCP_socket
  <2>2. raw_pc = "serial" /\ UNCHANGED <<sent, raw_gone>>
    BY <1>5 DEF Raw!raw_data_to_TCP_socket
  <2>3. unread["device"] \in Seq(Int)
    BY <1>types, <1>sides
  <2>4. /\ chunk \in Seq(Int) /\ chunk # <<>>
        /\ SubSeq(unread["device"], Len(chunk) + 1, Len(unread["device"])) \in Seq(Int)
        /\ chunk \o SubSeq(unread["device"], Len(chunk) + 1, Len(unread["device"]))
             = unread["device"]
    BY <2>3, PartAndRest, Zenon
  <2> QED
    BY <1>4, <2>1, <2>2, <2>4, Zenon
<1>6. CASE Raw!DeviceEOF
  <2>1. /\ raw_pc = "serial" /\ unread["device"] = <<>> /\ "device" \in raw_gone
        /\ UNCHANGED <<sent, raw_gone>>
    BY <1>6 DEF Raw!DeviceEOF
  <2>2. CASE UNCHANGED <<unread, chunks, passed, cut>>
    BY <1>quiet, <2>1, <2>2
  <2>3. CASE Raw!Reads("device", ReadSize, <<>>) /\ Raw!SendAnswer(<<>>)
    <3>1. /\ <<>> \in Seq(Int) /\ SubSeq(<<>>, Len(<<>>) + 1, Len(<<>>)) = <<>>
          /\ <<>> \o <<>> = <<>>
      OBVIOUS
    <3> QED
      BY <1>4, <2>1, <2>3, <3>1, Zenon
  <2> QED
    BY <1>6, <2>2, <2>3 DEF Raw!DeviceEOF
<1>7. ASSUME NEW s \in Raw!Side, Raw!Sends(s)
      PROVE  RawInv'
  <2>1. /\ sent' = [sent EXCEPT ![s] = sent[s] + 1]
        /\ unread' = [unread EXCEPT ![s] = Append(unread[s], sent[s] + 1)]
        /\ UNCHANGED <<raw_pc, raw_gone, chunks, passed, cut>>
    BY <1>7 DEF Raw!Sends
  <2>2. sent[s] \in Nat /\ unread[s] \in Seq(Int) /\ chunks[s] \in Seq(Seq(Int))
    BY <1>types
  <2>3. /\ sent' \in [Raw!Side -> Nat] /\ unread' \in [Raw!Side -> Seq(Int)]
        /\ sent'[s] = sent[s] + 1 /\ unread'[s] = Append(unread[s], sent[s] + 1)
    BY <1>types, <2>1, <2>2
  <2>4. RawTypeInv'
    BY <1>types, <2>1, <2>3 DEF RawTypeInv
  <2>5. StreamKept(s) => StreamKept(s)'
    <3>1. FlattenSeq(chunks[s]) \in Seq(Int)
      BY <2>2, FlattenSeqType, Zenon
    <3>2. ASSUME NEW p \in Seq(Int), NEW q \in Seq(Int), NEW n \in Nat
          PROVE  p \o Append(q, n + 1) = Append(p \o q, n + 1)
      OBVIOUS
    <3>3. Raw!Stream(sent[s] + 1) = Append(Raw!Stream(sent[s]), sent[s] + 1)
      BY <2>2, StreamOne, Zenon
    <3>4. chunks'[s] = chunks[s]
      BY <2>1
    <3> QED
      BY <2>2, <2>3, <3>1, <3>2, <3>3, <3>4, Zenon DEF StreamKept
  <2>6. ASSUME NEW t \in Raw!Side, t # s
        PROVE  StreamKept(t) => StreamKept(t)'
    <3>1. unread'[t] = unread[t] /\ sent'[t] = sent[t] /\ chunks'[t] = chunks[t]
      BY <1>types, <2>1, <2>6
    <3> QED
      BY <3>1 DEF StreamKept
  <2>7. StreamKept("client")' /\ StreamKept("device")'
    BY <1>inv, <1>sides, <2>5, <2>6, Zenon
  <2>8. EmptyFromGone' /\ ClientOK' /\ DeviceOK'
    BY <1>inv, <2>1 DEF EmptyFromGone
  <2> QED
    BY <1>goal, <2>4, <2>7, <2>8
<1>8. ASSUME NEW s \in Raw!Side, Raw!Closes(s)
      PROVE  RawInv'
  BY <1>8, <1>quiet DEF Raw!Closes
<1>9. CASE Raw!ReadInterrupted
  BY <1>9, <1>quiet DEF Raw!ReadInterrupted
<1>10. CASE UNCHANGED Raw!vars
  BY <1>10, <1>quiet DEF Raw!vars
<1> QED
  BY <1>1, <1>2, <1>3, <1>5, <1>6, <1>7, <1>8, <1>9, <1>10 DEF Raw!Next, Raw!Session

\* The gateway without telnet passes the client's bytes to the device all, once
\* and in order, with a null byte after what each recv() returned, however TCP
\* cuts them into reads that command has room for, for any sizes of the buffers;
\* a read it has no room for leaves what the device had got before as it was.
THEOREM FramesReachDevice == Raw!Spec => []Raw!DeviceGetsFrames
<1>1. RawInv => Raw!DeviceGetsFrames
  BY DEF RawInv
<1> QED
  BY <1>1, RawInvInit, RawInvStep, PTL DEF Raw!Spec

\* ... and the device's bytes to the client, with a newline after what each
\* read() returned; only a device that has hung up is read without data.
THEOREM FramesReachClient == Raw!Spec => []Raw!AnswersFramed
<1>1. RawInv => Raw!AnswersFramed
  BY DEF RawInv
<1> QED
  BY <1>1, RawInvInit, RawInvStep, PTL DEF Raw!Spec
=============================================================================
