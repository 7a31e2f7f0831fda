---------------------------- MODULE ServerProofs ----------------------------
(***************************************************************************)
(* Proofs about Server, for every number of clients and ports, every       *)
(* server type and any number of signals and failures.                     *)
(***************************************************************************)
EXTENDS Server, TLAPS

Place == {"clean", "init", "kill", "wait", "again", "level"}

LEMMA Bounds == MaxLevel \in Nat /\ NumPorts \in Nat /\ NumPorts >= 1
<1>1. MaxLevel \in Nat
  BY ServerAssumption
<1>2. NumPorts \in Nat \ {0}
  BY ServerAssumption
<1> QED
  BY <1>1, <1>2

LEMMA Distinct == Daemon \notin Client /\ NoOne \notin Client /\ NoOne # Daemon /\ NoOne \notin Signal
  BY ServerAssumption DEF Proc

-----------------------------------------------------------------------------
(* The stack of signal actions *)

LEMMA Pushed ==
  ASSUME NEW f \in Frame, NEW s \in Seq(Frame)
  PROVE  /\ <<f>> \o s \in Seq(Frame) /\ Len(<<f>> \o s) = Len(s) + 1
         /\ (<<f>> \o s)[1] = f
         /\ \A i \in 2..Len(s)+1 : (<<f>> \o s)[i] = s[i - 1]
<1>1. <<f>> \in Seq(Frame) /\ Len(<<f>>) = 1 /\ <<f>>[1] = f
  OBVIOUS
<1>2. <<f>> \o s \in Seq(Frame)
  BY <1>1
<1>3. Len(<<f>> \o s) = Len(s) + 1
  BY <1>1
<1>4. (<<f>> \o s)[1] = f
  BY <1>1
<1>5. ASSUME NEW i \in 2..Len(s)+1 PROVE (<<f>> \o s)[i] = s[i - 1]
  BY <1>1
<1> QED
  BY <1>2, <1>3, <1>4, <1>5

LEMMA Popped ==
  ASSUME NEW s \in Seq(Frame), s # <<>>
  PROVE  /\ Tail(s) \in Seq(Frame) /\ Len(Tail(s)) = Len(s) - 1
         /\ Head(s) = s[1] /\ s[1] \in Frame /\ Len(s) \in Nat /\ Len(s) >= 1
         /\ \A i \in 1..Len(s)-1 : Tail(s)[i] = s[i + 1]
  OBVIOUS

LEMMA Moved ==
  ASSUME NEW s \in Seq(Frame), s # <<>>, NEW a \in Place
  PROVE  LET t == [s EXCEPT ![1].at = a] IN
         /\ t \in Seq(Frame) /\ Len(t) = Len(s)
         /\ t[1] \in Frame /\ t[1].at = a /\ t[1].sig = s[1].sig /\ t[1].handler = s[1].handler
         /\ \A i \in 2..Len(s) : t[i] = s[i]
<1> DEFINE t == [s EXCEPT ![1].at = a]
<1>1. 1 \in 1..Len(s) /\ s[1] \in Frame
  OBVIOUS
<1>2. t = [s EXCEPT ![1] = [s[1] EXCEPT !.at = a]]
  OBVIOUS
<1>3. [s[1] EXCEPT !.at = a] \in Frame /\ [s[1] EXCEPT !.at = a].at = a
      /\ [s[1] EXCEPT !.at = a].sig = s[1].sig /\ [s[1] EXCEPT !.at = a].handler = s[1].handler
  BY <1>1 DEF Frame, Place
<1>4. t \in Seq(Frame) /\ Len(t) = Len(s)
  BY <1>1, <1>2, <1>3
<1> QED
  BY <1>1, <1>2, <1>3, <1>4

-----------------------------------------------------------------------------
(* Which actions are on the stack, and why *)

\* What is true of each action on the stack: where it can be, that the accept loop
\* is waiting for the one that is no handler, and that somebody sent the signal.
FrameOK(f, loop, sent) ==
  /\ f.at \in {"clean", "init", "kill"} <=> f.sig \in Urgent
  /\ f.at \in {"wait", "again"} <=> f.sig = "SIGCHLD"
  /\ ~f.handler => loop = "calling"
  /\ sent = 0 => f.sig \notin Urgent

StackOK == \A i \in 1..Len(frames) : FrameOK(frames[i], pc, urgent)

\* Without a SIGTERM or SIGHUP, nothing that only they do has been done.
Caused ==
  urgent = 0 =>
    stale = FALSE /\ signo \notin Urgent /\ (\A sig \in pending : sig \notin Urgent)

SigInv == TypeOK /\ StackOK /\ Caused

LEMMA EntryOK ==
  ASSUME NEW sig \in Signal, NEW h \in BOOLEAN, NEW loop, NEW sent \in Nat,
         ~h => loop = "calling", sent = 0 => sig \notin Urgent
  PROVE  LET f == [sig |-> sig, at |-> Entry(sig), handler |-> h]
         IN f \in Frame /\ FrameOK(f, loop, sent)
  BY DEF Entry, Frame, FrameOK, Signal, Sent, Urgent

LEMMA ReturnOK ==
  ASSUME SigInv, frames # <<>>, Return, urgent' = urgent
  PROVE  /\ frames' \in Seq(Frame) /\ StackOK'
         /\ pc' \in {"accept", "failed", "calling", "serving"}
         /\ signo' \in Signal /\ (urgent = 0 => signo' \notin Urgent)
         /\ \A i \in 1..Len(frames') : frames'[i] = frames[i + 1]
         /\ Top = frames[1] /\ Len(frames') = Len(frames) - 1
         /\ pc' # pc => pc' \in {"accept", "failed"} /\ pc \in {"accept", "calling"}
<1>1. frames \in Seq(Frame) /\ pc \in {"accept", "failed", "calling", "serving"} /\ urgent \in Nat
  BY DEF SigInv, TypeOK
<1>2. /\ frames' \in Seq(Frame) /\ Len(frames') = Len(frames) - 1
      /\ Top = frames[1] /\ frames[1] \in Frame /\ Len(frames) \in Nat /\ Len(frames) >= 1
      /\ \A i \in 1..Len(frames') : frames'[i] = frames[i + 1]
  BY <1>1, Popped DEF Return, Top
<1>3. FrameOK(frames[1], pc, urgent)
  BY <1>2 DEF SigInv, StackOK
<1>4. Top.sig \in Signal /\ Top.handler \in BOOLEAN
  BY <1>2 DEF Frame
<1>5. signo' \in Signal /\ (urgent = 0 => signo' \notin Urgent)
  BY <1>2, <1>3, <1>4 DEF Return, FrameOK
<1>6. \/ Len(frames) = 1 /\ pc' \in {"accept", "failed"} /\ pc \in {"accept", "calling"}
      \/ pc' = pc
  BY <1>2, <1>3 DEF Return, FrameOK
<1>7. StackOK'
  <2> SUFFICES ASSUME NEW i \in 1..Len(frames') PROVE FrameOK(frames'[i], pc', urgent')
    BY DEF StackOK
  <2>1. Len(frames) > 1 /\ i + 1 \in 1..Len(frames)
    BY <1>2
  <2>2. pc' = pc
    BY <1>6, <2>1
  <2> QED
    BY <1>2, <2>1, <2>2 DEF SigInv, StackOK
<1> QED
  BY <1>1, <1>2, <1>5, <1>6, <1>7

LEMMA MoveOK ==
  ASSUME SigInv, frames # <<>>, NEW a \in Place,
         frames' = [frames EXCEPT ![1].at = a], pc' = pc, urgent' = urgent,
         frames[1].sig \in Urgent => a \in {"clean", "init", "kill"},
         frames[1].sig = "SIGCHLD" => a \in {"wait", "again"},
         frames[1].sig \in {"SIGCHLD"} \union Urgent
  PROVE  /\ frames' \in Seq(Frame) /\ StackOK' /\ Len(frames') = Len(frames)
         /\ \A i \in 1..Len(frames) : frames'[i].sig = frames[i].sig
<1>1. frames \in Seq(Frame)
  BY DEF SigInv, TypeOK
<1>2. /\ frames' \in Seq(Frame) /\ Len(frames') = Len(frames)
      /\ frames'[1].at = a /\ frames'[1].sig = frames[1].sig
      /\ frames'[1].handler = frames[1].handler
      /\ \A i \in 2..Len(frames) : frames'[i] = frames[i]
  BY <1>1, Moved
<1>3. Len(frames) \in Nat /\ Len(frames) >= 1
  BY <1>1, Popped
<1>4. FrameOK(frames'[1], pc, urgent)
  <2>1. FrameOK(frames[1], pc, urgent)
    BY <1>3 DEF SigInv, StackOK
  <2> QED
    BY <1>2, <2>1 DEF FrameOK, Place, Urgent
<1> QED
  BY <1>2, <1>3, <1>4 DEF SigInv, StackOK

LEMMA SigInvInit == Init => SigInv
<1> SUFFICES ASSUME Init PROVE SigInv
  OBVIOUS
<1>1. frames \in Seq(Frame) /\ StackOK
  BY DEF Init, StackOK
<1>2. TypeOK
  <2>1. /\ stage \in [Proc -> {"none", "young", "search", "verify", "sleep", "session", "zombie", "gone"}]
        /\ busy \in [Proc -> SUBSET Port] /\ lock \in [Port -> Proc \union {NoOne}]
        /\ seen \in [Proc -> Proc \union {NoOne}]
        /\ conn \in [Client -> {"out", "queued", "accepted", "served", "closed", "cut"}]
    BY DEF Init
  <2>2. level \in 0 .. MaxLevel /\ urgent \in Nat /\ signals \in Nat /\ failures \in Nat
    BY Bounds DEF Init
  <2>3. stale \in BOOLEAN
    BY DEF Init
  <2> QED
    BY <1>1, <2>1, <2>2, <2>3 DEF Init, TypeOK
<1>3. Caused
  BY Distinct DEF Init, Caused, Signal, Sent
<1> QED
  BY <1>1, <1>2, <1>3 DEF SigInv

\* The actions that leave the stack, its loop and the causes alone, or throw the
\* stack away, preserve all but the types.
LEMMA StackKept ==
  ASSUME SigInv, frames' \in {frames, <<>>}, pc' = pc \/ frames' = <<>>, urgent' = urgent
  PROVE  frames' \in Seq(Frame) /\ StackOK'
<1>1. CASE frames' = <<>>
  BY <1>1 DEF StackOK
<1>2. CASE frames' = frames /\ pc' = pc
  BY <1>2 DEF StackOK, SigInv, TypeOK
<1> QED
  BY <1>1, <1>2

LEMMA DownOK ==
  ASSUME SigInv, NEW how \in {"terminated", "exited", "crashed"}, NEW survivors, Down(how, survivors)
  PROVE  /\ status' \in {"up", "terminated", "exited", "crashed"} /\ status' # "up"
         /\ frames' = <<>> /\ pending' = {}
         /\ stage' \in [Proc -> {"none", "young", "search", "verify", "sleep", "session", "zombie", "gone"}]
<1>1. stage \in [Proc -> {"none", "young", "search", "verify", "sleep", "session", "zombie", "gone"}]
  BY DEF SigInv, TypeOK
<1> QED
  BY <1>1 DEF Down

LEMMA SigInvAccept ==
  ASSUME SigInv, NEW c \in Client, concurrent_server(c) \/ iterative_server(c)
  PROVE  SigInv'
<1> USE DEF confVars, signalVars, poolVars, clientVars, worldVars
<1>1. c \in Proc /\ Daemon \in Proc
  BY DEF Proc
<1>2. frames' = frames /\ frames = <<>> /\ urgent' = urgent
  BY DEF concurrent_server, iterative_server, Listening
<1>3. frames' \in Seq(Frame) /\ StackOK'
  BY <1>2, StackKept
<1>4. CASE concurrent_server(c)
  <2>1. TypeOK'
    BY <1>1, <1>3, <1>4 DEF SigInv, TypeOK, concurrent_server, Closed, Listening
  <2> QED
    BY <1>3, <1>4, <2>1 DEF SigInv, Caused, concurrent_server
<1>5. CASE iterative_server(c)
  <2>1. TypeOK'
    BY <1>1, <1>3, <1>5 DEF SigInv, TypeOK, iterative_server, Listening
  <2> QED
    BY <1>3, <1>5, <2>1 DEF SigInv, Caused, iterative_server
<1> QED
  BY <1>4, <1>5

LEMMA SigInvLoop ==
  ASSUME SigInv, AcceptFails \/ RunAgain \/ \E sig \in Signal : Deliver(sig)
  PROVE  SigInv'
<1> USE DEF confVars, signalVars, poolVars, clientVars, worldVars
<1>1. CASE AcceptFails
  <2>1. frames' \in Seq(Frame) /\ StackOK'
    BY <1>1, StackKept DEF AcceptFails, Listening
  <2>2. TypeOK'
    BY <1>1, <2>1 DEF SigInv, TypeOK, AcceptFails
  <2> QED
    BY <1>1, <2>1, <2>2 DEF SigInv, Caused, AcceptFails
<1>2. CASE RunAgain
  <2>1. frames' \in Seq(Frame) /\ StackOK'
    <3>1. CASE signo = NoOne
      BY <1>2, <3>1, StackKept DEF RunAgain
    <3>2. CASE signo # NoOne
      <4> DEFINE f == [sig |-> signo, at |-> Entry(signo), handler |-> FALSE]
      <4>1. signo \in Signal /\ urgent \in Nat /\ (urgent = 0 => signo \notin Urgent)
        BY <3>2 DEF SigInv, TypeOK, Caused
      <4>2. frames' = <<f>> /\ pc' = "calling" /\ urgent' = urgent
        BY <1>2, <3>2 DEF RunAgain
      <4>3. f \in Frame /\ FrameOK(f, "calling", urgent)
        BY <4>1, EntryOK
      <4> HIDE DEF f
      <4> QED
        BY <4>2, <4>3 DEF StackOK
    <3> QED
      BY <3>1, <3>2
  <2>2. TypeOK'
    BY <1>2, <2>1 DEF SigInv, TypeOK, RunAgain
  <2> QED
    BY <1>2, <2>1, <2>2 DEF SigInv, Caused, RunAgain
<1>3. ASSUME NEW sig \in Signal, Deliver(sig) PROVE SigInv'
  <2> DEFINE f == [sig |-> sig, at |-> Entry(sig), handler |-> TRUE]
  <2>1. frames \in Seq(Frame) /\ urgent \in Nat /\ (urgent = 0 => sig \notin Urgent)
    BY <1>3 DEF SigInv, TypeOK, Caused, Deliver
  <2>2. f \in Frame /\ FrameOK(f, pc, urgent)
    BY <2>1, EntryOK
  <2>3. frames' = <<f>> \o frames /\ pc' = pc /\ urgent' = urgent
    BY <1>3 DEF Deliver
  <2> HIDE DEF f
  <2>4. frames' \in Seq(Frame) /\ StackOK'
    BY <2>1, <2>2, <2>3, Pushed DEF StackOK, SigInv
  <2>5. TypeOK'
    BY <1>3, <2>4 DEF SigInv, TypeOK, Deliver
  <2> QED
    BY <1>3, <2>4, <2>5 DEF SigInv, Caused, Deliver
<1> QED
  BY <1>1, <1>2, <1>3

LEMMA SigInvHandler ==
  ASSUME SigInv, Handler
  PROVE  SigInv'
<1> USE DEF confVars, signalVars, poolVars, clientVars, worldVars
<1>1. /\ status = "up" /\ frames # <<>> /\ frames \in Seq(Frame) /\ Top = frames[1]
      /\ frames[1] \in Frame /\ FrameOK(frames[1], pc, urgent)
      /\ \E place \in Place : At(place) /\ frames[1].at = place
  <2>1. status = "up" /\ frames # <<>> /\ \E place \in Place : At(place) /\ Top.at = place
    BY DEF Handler, program_clean_up, action_sigterm, serial_ip_init, action_sigchild,
           action_sigusr, At, Place
  <2>2. frames \in Seq(Frame)
    BY DEF SigInv, TypeOK
  <2>3. Top = frames[1] /\ frames[1] \in Frame /\ Len(frames) \in Nat /\ Len(frames) >= 1
    BY <2>1, <2>2, Popped DEF Top
  <2> QED
    BY <2>1, <2>2, <2>3 DEF SigInv, StackOK
<1>2. CASE program_clean_up
  <2>1. CASE Down("crashed", Client) /\ UNCHANGED confVars
    <3>1. frames' \in Seq(Frame) /\ StackOK'
      BY <1>2, <2>1, StackKept DEF program_clean_up, Down
    <3>2. TypeOK'
      BY <1>2, <2>1, <3>1, DownOK DEF SigInv, TypeOK, program_clean_up
    <3> QED
      BY <1>2, <2>1, <3>1, <3>2 DEF SigInv, Caused, program_clean_up, Down
  <2>2. CASE frames' = [frames EXCEPT ![1].at = IF Top.sig = "SIGHUP" THEN "init" ELSE "kill"]
             /\ conf' = "freed" /\ stale' = (stale \/ stage[Daemon] = "session")
             /\ UNCHANGED <<status, pending, stage>>
    <3>1. frames[1].sig \in Urgent
      BY <1>1, <1>2 DEF program_clean_up, At, FrameOK
    <3>2. frames' \in Seq(Frame) /\ StackOK'
      <4> DEFINE a == IF Top.sig = "SIGHUP" THEN "init" ELSE "kill"
      <4>1. a \in Place /\ a \in {"clean", "init", "kill"}
        BY DEF Place
      <4>2. frames' = [frames EXCEPT ![1].at = a] /\ pc' = pc /\ urgent' = urgent
        BY <1>2, <2>2 DEF program_clean_up
      <4>3. frames[1].sig # "SIGCHLD"
        BY <3>1 DEF Urgent
      <4> HIDE DEF a
      <4> QED
        BY <1>1, <3>1, <4>1, <4>2, <4>3, MoveOK
    <3>3. TypeOK'
      <4>1. stale' \in BOOLEAN
        BY <2>2 DEF SigInv, TypeOK
      <4> QED
        BY <1>2, <2>2, <3>2, <4>1 DEF SigInv, TypeOK, program_clean_up
    <3>4. urgent # 0
      BY <1>1, <3>1 DEF FrameOK
    <3> QED
      BY <1>2, <3>2, <3>3, <3>4 DEF SigInv, Caused, program_clean_up
  <2> QED
    BY <1>2, <2>1, <2>2 DEF program_clean_up
<1>3. CASE action_sigterm
  <2>1. frames' \in Seq(Frame) /\ StackOK'
    BY <1>3, StackKept DEF action_sigterm, KillGroup, Down
  <2>2. TypeOK'
    BY <1>3, <2>1, DownOK DEF SigInv, TypeOK, action_sigterm, KillGroup
  <2> QED
    BY <1>3, <2>1, <2>2 DEF SigInv, Caused, action_sigterm, KillGroup, Down
<1>4. CASE serial_ip_init
  <2>1. CASE Return /\ conf' = "loaded" /\ UNCHANGED <<status, pending, stage>>
    <3>1. urgent' = urgent
      BY <1>4 DEF serial_ip_init
    <3>2. TypeOK'
      BY <1>1, <1>4, <2>1, <3>1, ReturnOK DEF SigInv, TypeOK, serial_ip_init
    <3> QED
      BY <1>1, <1>4, <2>1, <3>1, <3>2, ReturnOK DEF SigInv, Caused, serial_ip_init
  <2>2. CASE Down("exited", Client) /\ UNCHANGED <<conf, pc, signo>>
    <3>1. frames' \in Seq(Frame) /\ StackOK'
      BY <1>4, <2>2, StackKept DEF serial_ip_init, Down
    <3>2. TypeOK'
      BY <1>4, <2>2, <3>1, DownOK DEF SigInv, TypeOK, serial_ip_init
    <3> QED
      BY <1>4, <2>2, <3>1, <3>2 DEF SigInv, Caused, serial_ip_init, Down
  <2> QED
    BY <1>4, <2>1, <2>2 DEF serial_ip_init
<1>5. CASE action_sigchild
  <2>1. frames[1].sig = "SIGCHLD" /\ urgent' = urgent
    BY <1>1, <1>5 DEF action_sigchild, At, FrameOK
  <2>2. CASE Return
    <3>1. stage' \in [Proc -> {"none", "young", "search", "verify", "sleep", "session", "zombie", "gone"}]
      <4>1. stage' = stage \/ \E c \in Zombies : stage' = [stage EXCEPT ![c] = "gone"]
        BY <1>5 DEF action_sigchild
      <4> QED
        BY <4>1 DEF SigInv, TypeOK, Proc, Zombies
    <3>2. TypeOK'
      BY <1>1, <1>5, <2>1, <2>2, <3>1, ReturnOK DEF SigInv, TypeOK, action_sigchild
    <3> QED
      BY <1>1, <1>5, <2>1, <2>2, <3>2, ReturnOK DEF SigInv, Caused, action_sigchild
  <2>3. ASSUME NEW a \in {"wait", "again"}, frames' = [frames EXCEPT ![1].at = a],
               UNCHANGED <<pc, signo>>,
               stage' = stage \/ \E c \in Client : stage' = [stage EXCEPT ![c] = "gone"]
        PROVE  SigInv'
    <3>1. a \in Place /\ frames[1].sig \notin Urgent
      BY <2>1 DEF Place, Urgent
    <3>2. frames' \in Seq(Frame) /\ StackOK'
      BY <1>1, <2>1, <2>3, <3>1, MoveOK
    <3>3. stage' \in [Proc -> {"none", "young", "search", "verify", "sleep", "session", "zombie", "gone"}]
      BY <2>3 DEF SigInv, TypeOK, Proc
    <3>4. TypeOK'
      BY <1>5, <2>3, <3>2, <3>3 DEF SigInv, TypeOK, action_sigchild
    <3> QED
      BY <1>5, <2>3, <3>2, <3>4 DEF SigInv, Caused, action_sigchild
  <2> QED
    BY <1>5, <2>2, <2>3 DEF action_sigchild, Zombies
<1>6. CASE action_sigusr
  <2>1. Return /\ urgent' = urgent
    BY <1>6 DEF action_sigusr
  <2>2. level' \in 0 .. MaxLevel
    BY <1>6, Bounds DEF SigInv, TypeOK, action_sigusr
  <2>3. TypeOK'
    BY <1>1, <1>6, <2>1, <2>2, ReturnOK DEF SigInv, TypeOK, action_sigusr
  <2> QED
    BY <1>1, <1>6, <2>1, <2>3, ReturnOK DEF SigInv, Caused, action_sigusr
<1> QED
  BY <1>2, <1>3, <1>4, <1>5, <1>6 DEF Handler

-----------------------------------------------------------------------------
(* The search for a port *)

Turn(p) ==
  select_serial_port(p) \/ OwnerFound(p) \/ RemoveStale(p) \/ SecondLink(p) \/ LinkRefused(p)

\* A turn of the search that does not end it.
Searches(p) ==
  /\ \E new \in Searching : stage' = [stage EXCEPT ![p] = new]
  /\ \E o \in Proc \union {NoOne} : seen' = [seen EXCEPT ![p] = o]
  /\ busy' = busy \/ busy' = [busy EXCEPT ![p] = busy[p] \union {Index}]
  /\ lock' = lock \/ (RemoveStale(p) /\ lock' = [lock EXCEPT ![Index] = NoOne])
  /\ UNCHANGED <<conn, stale>>

LEMMA Turns ==
  ASSUME TypeOK, NEW p \in Proc, Turn(p)
  PROVE  Runs(p) /\ stage[p] \in Searching /\ Elsewhere /\ (Locks(p) \/ Searches(p))
<1>1. NoOne \in Proc \union {NoOne} /\ Index \in Port /\ lock \in [Port -> Proc \union {NoOne}]
  BY Bounds DEF TypeOK, Index, Port
<1>2. "search" \in Searching /\ "verify" \in Searching /\ "sleep" \in Searching
  BY DEF Searching
<1>3. ASSUME PortBusy(p) PROVE Searches(p)
  BY <1>1, <1>2, <1>3 DEF PortBusy, Searches
<1>4. CASE select_serial_port(p)
  <2>1. ASSUME stage' = [stage EXCEPT ![p] = "verify"], seen' = [seen EXCEPT ![p] = lock[Index]],
               UNCHANGED <<busy, lock, conn, stale>>
        PROVE  Searches(p)
    BY <1>1, <1>2, <2>1 DEF Searches
  <2> QED
    BY <1>2, <1>4, <2>1 DEF select_serial_port
<1>5. CASE RemoveStale(p)
  <2>1. Searches(p)
    BY <1>1, <1>2, <1>5 DEF RemoveStale, Searches
  <2> QED
    BY <1>2, <1>5, <2>1 DEF RemoveStale
<1>6. CASE OwnerFound(p) \/ SecondLink(p) \/ LinkRefused(p)
  BY <1>2, <1>3, <1>6 DEF OwnerFound, SecondLink, LinkRefused
<1> QED
  BY <1>2, <1>4, <1>5, <1>6 DEF Turn, RemoveStale

LEMMA ServeParts ==
  ASSUME NEW p \in Proc, Serve(p)
  PROVE  handle_network_connection(p) \/ Turn(p) \/ OpenFails(p) \/ NoPort(p)
  BY DEF Serve, Turn

LEMMA ServeRuns ==
  ASSUME TypeOK, NEW p \in Proc, Serve(p) \/ SessionEnds(p)
  PROVE  Runs(p) /\ stage[p] \in {"young", "session"} \union Searching
<1>1. CASE handle_network_connection(p)
  BY <1>1 DEF handle_network_connection
<1>2. CASE Turn(p)
  BY <1>2, Turns
<1>3. CASE OpenFails(p) \/ NoPort(p) \/ SessionEnds(p)
  BY <1>3 DEF OpenFails, NoPort, SessionEnds, Searching
<1> QED
  BY <1>1, <1>2, <1>3, ServeParts

LEMMA SigInvServe ==
  ASSUME SigInv, NEW p \in Proc, Serve(p) \/ SessionEnds(p)
  PROVE  SigInv'
<1> USE DEF confVars, signalVars, poolVars, clientVars, worldVars
<1>1. /\ Index \in Port /\ NoOne \notin Proc
      /\ p # Daemon => p \in Client
      /\ stage \in [Proc -> {"none", "young", "search", "verify", "sleep", "session", "zombie", "gone"}]
  BY Bounds, Distinct DEF Index, Port, Proc, SigInv, TypeOK
<1>2. ASSUME Finished(p), lock' \in [Port -> Proc \union {NoOne}]
      PROVE  SigInv'
  <2>1. frames' \in Seq(Frame) /\ StackOK'
    <3>1. frames' = frames /\ urgent' = urgent
      BY <1>2 DEF Finished
    <3>2. CASE pc' = pc
      BY <3>1, <3>2, StackKept
    <3>3. CASE pc' # pc
      <4>1. p = Daemon
        BY <1>2, <3>3 DEF Finished
      <4>2. Runs(p)
        BY ServeRuns DEF SigInv
      <4> QED
        BY <3>1, <4>1, <4>2, StackKept DEF Runs
    <3> QED
      BY <3>2, <3>3
  <2>2. /\ stage' \in [Proc -> {"none", "young", "search", "verify", "sleep", "session", "zombie", "gone"}]
        /\ pending' \subseteq Signal /\ (\A sig \in pending' : sig \in pending \/ sig = "SIGCHLD")
    BY <1>1, <1>2 DEF Finished, ChildEnds, SigInv, TypeOK, Signal
  <2>3. TypeOK'
    BY <1>2, <2>1, <2>2 DEF SigInv, TypeOK, Finished, Closed
  <2> QED
    BY <1>2, <2>1, <2>2, <2>3 DEF SigInv, Caused, Finished, Urgent
<1>3. CASE handle_network_connection(p)
  <2>1. CASE /\ stage' = [stage EXCEPT ![p] = "search"] /\ busy' = [busy EXCEPT ![p] = {}]
             /\ UNCHANGED <<status, pending, frames, conn>>
    <3>1. frames' \in Seq(Frame) /\ StackOK'
      BY <1>3, <2>1, StackKept DEF handle_network_connection
    <3>2. TypeOK'
      BY <1>3, <2>1, <3>1 DEF SigInv, TypeOK, handle_network_connection
    <3> QED
      BY <1>3, <2>1, <3>1, <3>2 DEF SigInv, Caused, handle_network_connection
  <2>2. CASE /\ Closed(p) /\ UNCHANGED busy
             /\ IF p = Daemon THEN Down("exited", {}) ELSE ChildEnds(p) /\ UNCHANGED <<status, frames>>
    <3>1. frames' \in Seq(Frame) /\ StackOK'
      BY <1>3, <2>2, StackKept DEF handle_network_connection, Down
    <3>2. /\ stage' \in [Proc -> {"none", "young", "search", "verify", "sleep", "session", "zombie", "gone"}]
          /\ status' \in {"up", "terminated", "exited", "crashed"}
          /\ pending' \subseteq Signal /\ (\A sig \in pending' : sig \in pending \/ sig = "SIGCHLD")
      <4>1. CASE p = Daemon
        BY <2>2, <4>1, DownOK
      <4>2. CASE p # Daemon
        BY <1>1, <2>2, <4>2 DEF ChildEnds, SigInv, TypeOK, Signal
      <4> QED
        BY <4>1, <4>2
    <3>3. TypeOK'
      BY <1>3, <2>2, <3>1, <3>2 DEF SigInv, TypeOK, handle_network_connection, Closed
    <3> QED
      BY <1>3, <2>2, <3>1, <3>2, <3>3 DEF SigInv, Caused, handle_network_connection, Urgent
  <2> QED
    BY <1>3, <2>1, <2>2 DEF handle_network_connection
<1>4. CASE Turn(p)
  <2>1. Elsewhere /\ (Locks(p) \/ Searches(p))
    BY <1>4, Turns DEF SigInv
  <2>2. frames' \in Seq(Frame) /\ StackOK'
    BY <2>1, StackKept DEF Elsewhere
  <2>3. /\ lock \in [Port -> Proc \union {NoOne}] /\ busy \in [Proc -> SUBSET Port]
        /\ seen \in [Proc -> Proc \union {NoOne}] /\ stale \in BOOLEAN
        /\ conn \in [Client -> {"out", "queued", "accepted", "served", "closed", "cut"}]
    BY DEF SigInv, TypeOK
  <2>4. lock' \in [Port -> Proc \union {NoOne}]
    BY <1>1, <2>1, <2>3 DEF Locks, Searches
  <2>5. busy' \in [Proc -> SUBSET Port]
    <3>1. busy[p] \union {Index} \in SUBSET Port
      BY <1>1, <2>3
    <3> QED
      BY <2>1, <2>3, <3>1 DEF Locks, Searches
  <2>6. seen' \in [Proc -> Proc \union {NoOne}]
    BY <2>1, <2>3 DEF Locks, Searches
  <2>7. stale' \in BOOLEAN /\ (stale' => stale)
    <3>1. stale' = FALSE \/ stale' = stale
      BY <2>1 DEF Locks, Searches
    <3>2. CASE stale' = FALSE
      BY <3>2
    <3>3. CASE stale' = stale
      BY <2>3, <3>3
    <3> QED
      BY <3>1, <3>2, <3>3
  <2>8. stage' \in [Proc -> {"none", "young", "search", "verify", "sleep", "session", "zombie", "gone"}]
    BY <1>1, <2>1 DEF Locks, Searches, Searching
  <2>9. conn' \in [Client -> {"out", "queued", "accepted", "served", "closed", "cut"}]
    BY <2>1, <2>3 DEF Locks, Searches
  <2>10. TypeOK'
    BY <2>1, <2>2, <2>4, <2>5, <2>6, <2>7, <2>8, <2>9 DEF SigInv, TypeOK, Elsewhere
  <2> QED
    BY <2>1, <2>2, <2>7, <2>10 DEF SigInv, Caused, Elsewhere
<1>5. CASE OpenFails(p) \/ NoPort(p)
  <2>1. lock' \in [Port -> Proc \union {NoOne}]
    BY <1>1, <1>5 DEF OpenFails, NoPort, SigInv, TypeOK
  <2> QED
    BY <1>2, <1>5, <2>1 DEF OpenFails, NoPort
<1>6. CASE SessionEnds(p)
  <2>1. lock \in [Port -> Proc \union {NoOne}] /\ Unlocked(p) \in [Port -> Proc \union {NoOne}]
    BY DEF Unlocked, SigInv, TypeOK
  <2>2. CASE Finished(p) /\ lock' \in {lock, Unlocked(p)}
    BY <1>2, <2>1, <2>2
  <2>3. CASE /\ Down("crashed", {}) /\ Closed(p)
             /\ UNCHANGED <<server_type, pc, signo, level, confVars, poolVars, current, worldVars>>
    <3>1. frames' \in Seq(Frame) /\ StackOK'
      BY <2>3, StackKept DEF Down
    <3>2. TypeOK'
      BY <2>3, <3>1, DownOK DEF SigInv, TypeOK, Closed
    <3> QED
      BY <2>3, <3>1, <3>2, DownOK DEF SigInv, Caused
  <2> QED
    BY <1>6, <2>2, <2>3 DEF SessionEnds
<1> QED
  BY <1>3, <1>4, <1>5, <1>6, ServeParts

LEMMA SigInvWorld ==
  ASSUME SigInv,
         \/ \E c \in Client : ChildKilled(c) \/ YoungChildTermed(c) \/ Connect(c)
         \/ \E sig \in Sent : Send(sig)
  PROVE  SigInv'
<1> USE DEF confVars, signalVars, poolVars, clientVars, worldVars
<1>1. ASSUME NEW c \in Client, ChildKilled(c) PROVE SigInv'
  <2>1. frames' \in Seq(Frame) /\ StackOK'
    BY <1>1, StackKept DEF ChildKilled
  <2>2. /\ stage' \in [Proc -> {"none", "young", "search", "verify", "sleep", "session", "zombie", "gone"}]
        /\ pending' \subseteq Signal /\ (\A sig \in pending' : sig \in pending \/ sig = "SIGCHLD")
    BY <1>1 DEF ChildKilled, ChildEnds, Grown, SigInv, TypeOK, Signal, Proc
  <2>3. TypeOK'
    BY <1>1, <2>1, <2>2 DEF SigInv, TypeOK, ChildKilled
  <2> QED
    BY <1>1, <2>1, <2>2, <2>3 DEF SigInv, Caused, ChildKilled, Urgent
<1>2. ASSUME NEW c \in Client, YoungChildTermed(c) PROVE SigInv'
  <2>1. /\ frames \in Seq(Frame) /\ urgent \in Nat /\ pending \subseteq Signal
        /\ stage \in [Proc -> {"none", "young", "search", "verify", "sleep", "session", "zombie", "gone"}]
        /\ conn \in [Client -> {"out", "queued", "accepted", "served", "closed", "cut"}]
    BY DEF SigInv, TypeOK
  <2>2. /\ pending' \subseteq Signal /\ urgent' \in Nat
        /\ urgent' = 0 => urgent = 0 /\ pending' = pending
    <3>1. CASE status = "up"
      <4>1. urgent' = urgent + 1 /\ pending' = pending \union {"SIGTERM", "SIGCHLD"}
        BY <1>2, <3>1 DEF YoungChildTermed
      <4> QED
        BY <2>1, <4>1 DEF Signal, Sent, Urgent
    <3>2. CASE status # "up"
      BY <1>2, <2>1, <3>2 DEF YoungChildTermed
    <3> QED
      BY <3>1, <3>2
  <2>3. StackOK'
    BY <1>2, <2>1, <2>2 DEF SigInv, StackOK, FrameOK, YoungChildTermed
  <2>4. stage' \in [Proc -> {"none", "young", "search", "verify", "sleep", "session", "zombie", "gone"}]
    BY <1>2, <2>1 DEF YoungChildTermed
  <2>5. conn' \in [Client -> {"out", "queued", "accepted", "served", "closed", "cut"}]
    BY <1>2, <2>1 DEF YoungChildTermed
  <2>6. signals' \in Nat
    BY <1>2 DEF YoungChildTermed, SigInv, TypeOK
  <2>7. TypeOK'
    BY <1>2, <2>1, <2>2, <2>4, <2>5, <2>6 DEF SigInv, TypeOK, YoungChildTermed
  <2> QED
    BY <1>2, <2>2, <2>3, <2>7 DEF SigInv, Caused, YoungChildTermed
<1>3. ASSUME NEW c \in Client, Connect(c) PROVE SigInv'
  <2>1. frames' \in Seq(Frame) /\ StackOK'
    BY <1>3, StackKept DEF Connect
  <2>2. TypeOK'
    BY <1>3, <2>1 DEF SigInv, TypeOK, Connect
  <2> QED
    BY <1>3, <2>1, <2>2 DEF SigInv, Caused, Connect
<1>4. ASSUME NEW sig \in Sent, Send(sig) PROVE SigInv'
  <2>1. frames \in Seq(Frame) /\ urgent \in Nat /\ urgent' \in Nat /\ (urgent' = 0 => urgent = 0 /\ sig \notin Urgent)
    BY <1>4 DEF Send, SigInv, TypeOK
  <2>2. StackOK'
    BY <1>4, <2>1 DEF SigInv, StackOK, FrameOK, Send
  <2>3. pending' \subseteq Signal /\ signals' \in Nat
    BY <1>4 DEF SigInv, TypeOK, Send, Signal
  <2>4. TypeOK'
    BY <1>4, <2>1, <2>3 DEF SigInv, TypeOK, Send
  <2> QED
    BY <1>4, <2>1, <2>2, <2>4 DEF SigInv, Caused, Send
<1> QED
  BY <1>1, <1>2, <1>3, <1>4

LEMMA SigInvNext == SigInv /\ [Next]_vars => SigInv'
<1> SUFFICES ASSUME SigInv, [Next]_vars PROVE SigInv'
  OBVIOUS
<1>1. CASE UNCHANGED vars
  BY <1>1 DEF SigInv, TypeOK, StackOK, Caused, vars, signalVars, confVars, poolVars, clientVars, worldVars
<1>2. CASE Next
  BY <1>2, SigInvAccept, SigInvLoop, SigInvHandler, SigInvServe, SigInvWorld DEF Next, Accept
<1> QED
  BY <1>1, <1>2

-----------------------------------------------------------------------------
(* Every child that ended is announced *)

Collecting == \E i \in 1..Len(frames) : frames[i].sig = "SIGCHLD"

LEMMA StillAnnounced ==
  ASSUME ChildrenAnnounced,
         status' = "up" => status = "up",
         status' = "up" => Zombies' \subseteq Zombies \/ "SIGCHLD" \in pending',
         status' = "up" /\ "SIGCHLD" \in pending => "SIGCHLD" \in pending' \/ Collecting',
         status' = "up" /\ Collecting => Collecting'
  PROVE  ChildrenAnnounced'
  BY DEF ChildrenAnnounced, Collecting

LEMMA AnnouncedReturn ==
  ASSUME SigInv, ChildrenAnnounced, frames # <<>>, Return, urgent' = urgent,
         frames[1].sig # "SIGCHLD", UNCHANGED <<status, stage, pending>>
  PROVE  ChildrenAnnounced'
<1>1. /\ frames \in Seq(Frame) /\ Len(frames) \in Nat /\ Len(frames') = Len(frames) - 1
      /\ \A i \in 1..Len(frames') : frames'[i] = frames[i + 1]
  BY ReturnOK, Popped DEF SigInv, TypeOK
<1>2. Collecting => Collecting'
  <2> SUFFICES ASSUME NEW i \in 1..Len(frames), frames[i].sig = "SIGCHLD" PROVE Collecting'
    BY DEF Collecting
  <2>1. i - 1 \in 1..Len(frames') /\ (i - 1) + 1 = i
    BY <1>1
  <2>2. frames'[i - 1].sig = "SIGCHLD"
    BY <1>1, <2>1
  <2> QED
    BY <2>1, <2>2 DEF Collecting
<1> QED
  BY <1>2, StillAnnounced DEF Zombies

LEMMA AnnouncedMove ==
  ASSUME SigInv, ChildrenAnnounced, frames # <<>>, NEW a \in Place,
         frames' = [frames EXCEPT ![1].at = a], UNCHANGED <<status, stage, pending>>
  PROVE  ChildrenAnnounced'
<1>1. /\ Len(frames') = Len(frames) /\ Len(frames) \in Nat /\ frames'[1].sig = frames[1].sig
      /\ \A i \in 2..Len(frames) : frames'[i] = frames[i]
  BY Moved, Popped DEF SigInv, TypeOK
<1>2. \A i \in 1..Len(frames) : frames'[i].sig = frames[i].sig
  BY <1>1
<1>3. Collecting => Collecting'
  BY <1>1, <1>2 DEF Collecting
<1> QED
  BY <1>3, StillAnnounced DEF Zombies

LEMMA AnnouncedHandler ==
  ASSUME SigInv, ChildrenAnnounced, Handler
  PROVE  ChildrenAnnounced'
<1>1. /\ status = "up" /\ frames # <<>> /\ frames \in Seq(Frame) /\ Top = frames[1]
      /\ 1 \in 1..Len(frames) /\ FrameOK(frames[1], pc, urgent)
  <2>1. status = "up" /\ frames # <<>>
    BY DEF Handler, program_clean_up, action_sigterm, serial_ip_init, action_sigchild,
           action_sigusr, At
  <2>2. frames \in Seq(Frame)
    BY DEF SigInv, TypeOK
  <2>3. Top = frames[1] /\ 1 \in 1..Len(frames)
    BY <2>1, <2>2, Popped DEF Top
  <2> QED
    BY <2>1, <2>2, <2>3 DEF SigInv, StackOK
<1>2. CASE program_clean_up
  <2>1. CASE status' # "up"
    BY <2>1 DEF ChildrenAnnounced
  <2>2. CASE status' = "up"
    <3>1. /\ frames' = [frames EXCEPT ![1].at = IF Top.sig = "SIGHUP" THEN "init" ELSE "kill"]
          /\ UNCHANGED <<status, pending, stage>>
      BY <1>2, <2>2 DEF program_clean_up, Down
    <3> QED
      BY <1>1, <3>1, AnnouncedMove DEF Place
  <2> QED
    BY <2>1, <2>2
<1>3. CASE action_sigterm
  BY <1>3 DEF action_sigterm, KillGroup, Down, ChildrenAnnounced
<1>4. CASE serial_ip_init
  <2>1. CASE Down("exited", Client)
    BY <2>1 DEF Down, ChildrenAnnounced
  <2>2. CASE Return /\ UNCHANGED <<status, pending, stage>>
    <3>1. frames[1].sig # "SIGCHLD" /\ urgent' = urgent
      BY <1>1, <1>4 DEF serial_ip_init, At, FrameOK, worldVars
    <3> QED
      BY <1>1, <2>2, <3>1, AnnouncedReturn
  <2> QED
    BY <1>4, <2>1, <2>2 DEF serial_ip_init
<1>5. CASE action_sigchild
  <2>1. frames[1].sig = "SIGCHLD" /\ UNCHANGED <<status, pending>>
    BY <1>1, <1>5 DEF action_sigchild, At, FrameOK
  <2>2. CASE Zombies = {} /\ UNCHANGED stage
    BY <2>1, <2>2 DEF Zombies, ChildrenAnnounced
  <2>3. ASSUME frames' = [frames EXCEPT ![1].at = "wait"] PROVE ChildrenAnnounced'
    <3>1. Len(frames') = Len(frames) /\ frames'[1].sig = frames[1].sig
      BY <1>1, <2>3, Moved DEF Place
    <3> QED
      BY <1>1, <2>1, <3>1 DEF ChildrenAnnounced
  <2> QED
    BY <1>5, <2>2, <2>3 DEF action_sigchild
<1>6. CASE action_sigusr
  <2>1. frames[1].sig # "SIGCHLD"
    BY <1>1, <1>6 DEF action_sigusr, At, FrameOK
  <2> QED
    BY <1>1, <1>6, <2>1, AnnouncedReturn DEF action_sigusr, worldVars
<1> QED
  BY <1>2, <1>3, <1>4, <1>5, <1>6 DEF Handler

LEMMA AnnouncedNext == SigInv /\ ChildrenAnnounced /\ [Next]_vars => ChildrenAnnounced'
<1> SUFFICES ASSUME SigInv, ChildrenAnnounced, [Next]_vars PROVE ChildrenAnnounced'
  OBVIOUS
<1> USE DEF signalVars, confVars, clientVars, poolVars, worldVars
<1>0. stage \in [Proc -> {"none", "young", "search", "verify", "sleep", "session", "zombie", "gone"}]
  BY DEF SigInv, TypeOK
<1>1. CASE UNCHANGED vars
  BY <1>1, StillAnnounced DEF vars, Zombies, Collecting
<1>2. ASSUME NEW c \in Client, concurrent_server(c) \/ iterative_server(c) PROVE ChildrenAnnounced'
  <2>1. stage' = stage \/ \E p \in Proc : stage' = [stage EXCEPT ![p] = "young"]
    BY <1>2 DEF concurrent_server, iterative_server, Proc
  <2>3. Zombies' \subseteq Zombies
    BY <1>0, <2>1 DEF Zombies, Proc
  <2>2. UNCHANGED <<status, frames, pending>>
    BY <1>2 DEF concurrent_server, iterative_server
  <2> QED
    BY <2>2, <2>3, StillAnnounced DEF Collecting
<1>3. CASE AcceptFails
  BY <1>3, StillAnnounced DEF AcceptFails, Zombies, Collecting
<1>4. CASE RunAgain
  <2>1. UNCHANGED <<status, stage, pending>> /\ ~Collecting
    BY <1>4 DEF RunAgain, Collecting
  <2> QED
    BY <2>1, StillAnnounced DEF Zombies
<1>5. CASE Handler
  BY <1>5, AnnouncedHandler
<1>6. ASSUME NEW sig \in Signal, Deliver(sig) PROVE ChildrenAnnounced'
  <2> DEFINE f == [sig |-> sig, at |-> Entry(sig), handler |-> TRUE]
  <2>1. f \in Frame /\ f.sig = sig
    BY EntryOK DEF SigInv, TypeOK, Caused, Entry, Frame, Signal, Sent, Urgent
  <2>2. frames' = <<f>> \o frames /\ frames \in Seq(Frame)
    BY <1>6 DEF Deliver, SigInv, TypeOK
  <2> HIDE DEF f
  <2>3. /\ Len(frames') = Len(frames) + 1 /\ Len(frames) \in Nat /\ frames'[1].sig = sig
        /\ \A i \in 2..Len(frames) + 1 : frames'[i] = frames[i - 1]
    BY <2>1, <2>2, Pushed
  <2>4. Collecting => Collecting'
    <3> SUFFICES ASSUME NEW i \in 1..Len(frames), frames[i].sig = "SIGCHLD" PROVE Collecting'
      BY DEF Collecting
    <3>1. i + 1 \in 2..Len(frames) + 1 /\ (i + 1) - 1 = i
      BY <2>3
    <3>2. frames'[i + 1] = frames[i] /\ i + 1 \in 1..Len(frames')
      BY <2>3, <3>1
    <3> QED
      BY <3>2 DEF Collecting
  <2>5. sig = "SIGCHLD" => Collecting'
    BY <2>3 DEF Collecting
  <2>6. pending' = pending \ {sig} /\ UNCHANGED <<status, stage>>
    BY <1>6 DEF Deliver
  <2> QED
    BY <2>4, <2>5, <2>6, StillAnnounced DEF Zombies
<1>7. ASSUME NEW p \in Proc, Serve(p) \/ SessionEnds(p) PROVE ChildrenAnnounced'
  <2>1. CASE status' # "up"
    BY <2>1 DEF ChildrenAnnounced
  <2>2. CASE status' = "up"
    <3>1. status = "up" /\ frames' = frames
      <4>1. CASE Turn(p)
        BY <2>2, <4>1, Turns DEF SigInv, Elsewhere
      <4>2. CASE handle_network_connection(p)
        BY <2>2, <4>2 DEF handle_network_connection, Down, ChildEnds
      <4>3. CASE OpenFails(p) \/ NoPort(p) \/ SessionEnds(p)
        BY <2>2, <4>3 DEF OpenFails, NoPort, SessionEnds, Finished, Down
      <4> QED
        BY <1>7, <4>1, <4>2, <4>3, ServeParts
    <3>2. ~Down("exited", {}) /\ ~Down("crashed", {})
      BY <2>2 DEF Down
    <3> DEFINE Told == pending \subseteq pending' /\ (Zombies' \subseteq Zombies \/ "SIGCHLD" \in pending')
    <3>3. ASSUME Finished(p) PROVE Told
      <4>1. CASE p = Daemon
        <5>1. UNCHANGED pending /\ stage' = [stage EXCEPT ![p] = "none"]
          BY <3>3, <4>1 DEF Finished
        <5> QED
          BY <1>0, <5>1 DEF Zombies, Proc
      <4>2. CASE p # Daemon
        BY <3>1, <3>3, <4>2 DEF Finished, ChildEnds
      <4> QED
        BY <4>1, <4>2
    <3>4. ASSUME handle_network_connection(p) PROVE Told
      <4>1. CASE stage' = [stage EXCEPT ![p] = "search"] /\ UNCHANGED pending
        BY <1>0, <4>1 DEF Zombies, Proc
      <4>2. CASE ChildEnds(p)
        BY <3>1, <4>2 DEF ChildEnds
      <4> QED
        BY <3>2, <3>4, <4>1, <4>2 DEF handle_network_connection
    <3>5. ASSUME Turn(p) PROVE Told
      <4>1. UNCHANGED pending /\ \E new \in {"session"} \union Searching : stage' = [stage EXCEPT ![p] = new]
        BY <3>5, Turns DEF SigInv, Elsewhere, Locks, Searches
      <4> QED
        BY <1>0, <4>1 DEF Zombies, Proc, Searching
    <3>6. Told
      BY <1>7, <3>2, <3>3, <3>4, <3>5, ServeParts DEF SessionEnds, OpenFails, NoPort
    <3> QED
      BY <3>1, <3>6, StillAnnounced DEF Collecting
  <2> QED
    BY <2>1, <2>2
<1>8. ASSUME NEW c \in Client, ChildKilled(c) \/ YoungChildTermed(c) PROVE ChildrenAnnounced'
  BY <1>8, StillAnnounced DEF ChildKilled, YoungChildTermed, ChildEnds, Collecting, ChildrenAnnounced
<1>9. ASSUME NEW c \in Client, Connect(c) PROVE ChildrenAnnounced'
  BY <1>9, StillAnnounced DEF Connect, Zombies, Collecting
<1>10. ASSUME NEW sig \in Sent, Send(sig) PROVE ChildrenAnnounced'
  BY <1>10, StillAnnounced DEF Send, Zombies, Collecting
<1> QED
  BY <1>1, <1>2, <1>3, <1>4, <1>5, <1>6, <1>7, <1>8, <1>9, <1>10 DEF Next, Accept

-----------------------------------------------------------------------------
(* Ports and sessions *)

\* Who can be what: a server that forks serves in its children, one that does not
\* serves in the daemon, and a connection that was cut was that of a child that
\* ended.
Roles ==
  status = "up" =>
    /\ \A c \in Client :
         /\ stage[c] # "none" => Forks
         /\ conn[c] \in {"out", "queued"} => stage[c] = "none"
         /\ conn[c] = "cut" => stage[c] \in {"zombie", "gone"}
    /\ stage[Daemon] # "none" => pc = "serving" /\ ~Forks

HasSession ==
  \A q \in Port : lock[q] # NoOne =>
    \/ stage[lock[q]] = "session"
    \/ lock[q] \in Client /\ conn[lock[q]] = "cut"
    \/ lock[q] = Daemon /\ urgent > 0

\* That a session has its port is a matter of the lock files: see SessionLocks.
PoolInv == Roles /\ (status = "up" => HasSession)

LEMMA PoolDown == ASSUME status' # "up" PROVE PoolInv'
  BY DEF PoolInv, Roles

\* The steps of the accept loops and the signal actions leave the pool alone.
LEMMA PoolKept ==
  ASSUME SigInv, PoolInv, status = "up", urgent' \in Nat, urgent' >= urgent,
         pc = "serving" => pc' = "serving",
         UNCHANGED <<server_type, lock, stage, conn>>
  PROVE  PoolInv'
<1>1. Roles'
  BY DEF PoolInv, Roles, Forks
<1>2. HasSession'
  <2>1. urgent > 0 => urgent' > 0
    BY DEF SigInv, TypeOK
  <2> QED
    BY <2>1 DEF PoolInv, HasSession
<1> QED
  BY <1>1, <1>2 DEF PoolInv

\* A child may pass from one stage to another that is not the session.
LEMMA PoolStage ==
  ASSUME SigInv, PoolInv, status = "up", NEW p \in Proc, NEW new,
         stage' = [stage EXCEPT ![p] = new], stage[p] # "session", new # "session",
         new = "none" => p = Daemon,
         p \in Client => Forks /\ (conn'[p] = "cut" => new = "zombie" \/ new = "gone")
                         /\ conn'[p] \notin {"out", "queued"},
         p \in Client /\ conn[p] = "cut" => conn'[p] = "cut",
         p = Daemon /\ new # "none" => pc' = "serving" /\ ~Forks,
         p # Daemon => pc' = pc \/ stage[Daemon] = "none",
         \A c \in Client : c # p =>
           \/ conn'[c] = conn[c]
           \/ conn'[c] \notin {"out", "queued", "cut"} /\ conn[c] # "cut",
         \A q \in Port : lock'[q] = lock[q] \/ lock'[q] = NoOne,
         UNCHANGED <<server_type, urgent>>
  PROVE  PoolInv'
<1>1. stage \in [Proc -> {"none", "young", "search", "verify", "sleep", "session", "zombie", "gone"}]
      /\ lock \in [Port -> Proc \union {NoOne}] /\ Daemon \in Proc /\ Client \subseteq Proc
  BY DEF SigInv, TypeOK, Proc
<1>2. Roles'
  <2>1. ASSUME NEW c \in Client
        PROVE  /\ stage'[c] # "none" => Forks'
               /\ conn'[c] \in {"out", "queued"} => stage'[c] = "none"
               /\ conn'[c] = "cut" => stage'[c] \in {"zombie", "gone"}
    <3>1. CASE c = p
      BY <1>1, <3>1 DEF Forks
    <3>2. CASE c # p
      <4>1. stage'[c] = stage[c]
        BY <1>1, <3>2
      <4>2. /\ stage[c] # "none" => Forks
            /\ conn[c] \in {"out", "queued"} => stage[c] = "none"
            /\ conn[c] = "cut" => stage[c] \in {"zombie", "gone"}
        BY DEF PoolInv, Roles
      <4> QED
        BY <3>2, <4>1, <4>2 DEF Forks
    <3> QED
      BY <3>1, <3>2
  <2>2. stage'[Daemon] # "none" => pc' = "serving" /\ ~Forks'
    <3>1. stage[Daemon] # "none" => pc = "serving" /\ ~Forks
      BY DEF PoolInv, Roles
    <3> QED
      BY <1>1, <3>1 DEF Forks
  <2> QED
    BY <2>1, <2>2 DEF Roles
<1>3. HasSession'
  <2> SUFFICES ASSUME NEW q \in Port, lock'[q] # NoOne
               PROVE  \/ stage'[lock'[q]] = "session"
                      \/ lock'[q] \in Client /\ conn'[lock'[q]] = "cut"
                      \/ lock'[q] = Daemon /\ urgent' > 0
    BY DEF HasSession
  <2>1. lock'[q] = lock[q] /\ lock[q] \in Proc
    BY <1>1
  <2>2. \/ stage[lock[q]] = "session"
        \/ lock[q] \in Client /\ conn[lock[q]] = "cut"
        \/ lock[q] = Daemon /\ urgent > 0
    BY <2>1 DEF PoolInv, HasSession
  <2>3. CASE stage[lock[q]] = "session"
    BY <1>1, <2>1, <2>3
  <2>4. CASE lock[q] \in Client /\ conn[lock[q]] = "cut"
    BY <2>1, <2>4
  <2> QED
    BY <2>1, <2>2, <2>3, <2>4
<1> QED
  BY <1>2, <1>3 DEF PoolInv

\* A process that serves is up, and if it is the daemon, then no connection was cut.
LEMMA Serving ==
  ASSUME SigInv, PoolInv, NEW p \in Proc, Runs(p), stage[p] \notin {"none", "gone", "zombie"},
         p # Daemon => status = "up"
  PROVE  /\ status = "up"
         /\ p # Daemon => p \in Client /\ ClientOf(p) = p /\ Forks
                          /\ conn[p] \notin {"out", "queued", "cut"}
         /\ p = Daemon => ~Forks /\ (\A c \in Client : stage[c] = "none" /\ conn[c] # "cut")
         /\ \A c \in Client : conn[ClientOf(p)] # "cut" \/ c # ClientOf(p)
<1>1. status = "up"
  BY DEF Runs
<1>2. CASE p = Daemon
  <2>1. ~Forks
    BY <1>1, <1>2 DEF PoolInv, Roles
  <2>2. \A c \in Client : stage[c] = "none" /\ conn[c] # "cut"
    BY <1>1, <2>1 DEF PoolInv, Roles
  <2> QED
    BY <1>1, <1>2, <2>1, <2>2 DEF Proc
<1>3. CASE p # Daemon
  <2>1. p \in Client /\ ClientOf(p) = p
    BY <1>3 DEF Proc, ClientOf
  <2> QED
    BY <1>1, <1>3, <2>1 DEF PoolInv, Roles
<1> QED
  BY <1>2, <1>3

\* An end of the service of p while it searches.
LEMMA PoolFinished ==
  ASSUME SigInv, PoolInv, NEW p \in Proc, Runs(p), stage[p] \in Searching, status = "up",
         Finished(p), lock' = lock
  PROVE  PoolInv'
<1>1. /\ p # Daemon => p \in Client /\ ClientOf(p) = p /\ Forks
                       /\ conn[p] \notin {"out", "queued", "cut"}
      /\ p = Daemon => ~Forks /\ (\A c \in Client : stage[c] = "none" /\ conn[c] # "cut")
  BY Serving DEF Searching
<1>2. conn \in [Client -> {"out", "queued", "accepted", "served", "closed", "cut"}]
  BY DEF SigInv, TypeOK
<1>3. conn' = [conn EXCEPT ![ClientOf(p)] = "closed"] /\ UNCHANGED <<server_type, urgent>>
  BY DEF Finished, Closed, confVars, worldVars
<1>4. \A c \in Client : conn'[c] = conn[c] \/ conn'[c] = "closed"
  BY <1>2, <1>3
<1>5. CASE p = Daemon
  <2>1. stage' = [stage EXCEPT ![p] = "none"]
    BY <1>5 DEF Finished
  <2> QED
    BY <1>1, <1>3, <1>4, <1>5, <2>1, Distinct, PoolStage DEF Searching
<1>6. CASE p # Daemon
  <2>1. stage' = [stage EXCEPT ![p] = "zombie"] /\ pc' = pc
    BY <1>6 DEF Finished, ChildEnds
  <2>2. conn'[p] = "closed" /\ \A c \in Client : c # p => conn'[c] = conn[c]
    BY <1>1, <1>2, <1>3, <1>6
  <2> QED
    BY <1>1, <1>3, <1>6, <2>1, <2>2, PoolStage DEF Searching
<1> QED
  BY <1>5, <1>6

LEMMA PoolTurn ==
  ASSUME SigInv, PoolInv, NEW p \in Proc, Turn(p), status = "up"
  PROVE  PoolInv'
<1>1. /\ Runs(p) /\ stage[p] \in Searching /\ (Locks(p) \/ Searches(p))
      /\ UNCHANGED <<server_type, status, pc, urgent>>
  BY Turns DEF SigInv, Elsewhere, worldVars
<1>2. /\ p # Daemon => p \in Client /\ ClientOf(p) = p /\ Forks
                       /\ conn[p] \notin {"out", "queued", "cut"}
      /\ p = Daemon => ~Forks /\ (\A c \in Client : stage[c] = "none" /\ conn[c] # "cut")
  BY <1>1, Serving DEF Searching
<1>3. /\ conn \in [Client -> {"out", "queued", "accepted", "served", "closed", "cut"}]
      /\ stage \in [Proc -> {"none", "young", "search", "verify", "sleep", "session", "zombie", "gone"}]
      /\ lock \in [Port -> Proc \union {NoOne}] /\ Daemon \in Proc /\ Client \subseteq Proc
  BY DEF SigInv, TypeOK, Proc
<1>4. CASE Searches(p)
  <2>1. PICK new \in Searching : stage' = [stage EXCEPT ![p] = new]
    BY <1>4 DEF Searches
  <2>2. conn' = conn /\ \A q \in Port : lock'[q] = lock[q] \/ lock'[q] = NoOne
    BY <1>3, <1>4 DEF Searches
  <2>3. p = Daemon => pc = "serving"
    BY <1>1 DEF Runs
  <2>4. stage[p] # "session" /\ new # "session" /\ new # "none"
    BY <1>1, <2>1 DEF Searching
  <2> QED
    BY <1>1, <1>2, <2>1, <2>2, <2>3, <2>4, Distinct, PoolStage
<1>5. CASE Locks(p)
  <2>1. /\ lock' = [lock EXCEPT ![Index] = p]
        /\ stage' = [stage EXCEPT ![p] = "session"]
        /\ conn' = [conn EXCEPT ![ClientOf(p)] = "served"]
    BY <1>5 DEF Locks
  <2>2. Index \in Port
    BY Bounds DEF Index, Port
  <2>3. Roles'
    <3>1. ASSUME NEW c \in Client
          PROVE  /\ stage'[c] # "none" => Forks'
                 /\ conn'[c] \in {"out", "queued"} => stage'[c] = "none"
                 /\ conn'[c] = "cut" => stage'[c] \in {"zombie", "gone"}
      <4>1. /\ stage[c] # "none" => Forks
            /\ conn[c] \in {"out", "queued"} => stage[c] = "none"
            /\ conn[c] = "cut" => stage[c] \in {"zombie", "gone"}
        BY DEF PoolInv, Roles
      <4>2. conn'[c] = conn[c] \/ conn'[c] = "served"
        BY <1>3, <2>1
      <4>3. CASE c = p
        BY <1>1, <1>2, <1>3, <2>1, <4>3, Distinct DEF Forks
      <4>4. CASE c # p
        BY <1>1, <1>3, <2>1, <4>1, <4>2, <4>4 DEF Forks
      <4> QED
        BY <4>3, <4>4
    <3>2. stage'[Daemon] # "none" => pc' = "serving" /\ ~Forks'
      BY <1>1, <1>2, <1>3, <2>1 DEF Runs, PoolInv, Roles, Forks
    <3> QED
      BY <3>1, <3>2 DEF Roles
  <2>4. HasSession'
    <3> SUFFICES ASSUME NEW q \in Port, lock'[q] # NoOne
                 PROVE  \/ stage'[lock'[q]] = "session"
                        \/ lock'[q] \in Client /\ conn'[lock'[q]] = "cut"
                        \/ lock'[q] = Daemon /\ urgent' > 0
      BY DEF HasSession
    <3>1. CASE q = Index
      BY <1>3, <2>1, <3>1
    <3>2. CASE q # Index
      <4>1. lock'[q] = lock[q] /\ lock[q] \in Proc
        BY <1>3, <2>1, <3>2
      <4>2. \/ stage[lock[q]] = "session"
            \/ lock[q] \in Client /\ conn[lock[q]] = "cut"
            \/ lock[q] = Daemon /\ urgent > 0
        BY <1>1, <4>1 DEF PoolInv, HasSession
      <4>3. CASE stage[lock[q]] = "session"
        BY <1>3, <2>1, <4>1, <4>3
      <4>4. CASE lock[q] \in Client /\ conn[lock[q]] = "cut"
        <5>1. lock[q] # ClientOf(p)
          BY <1>2, <4>4
        <5> QED
          BY <1>3, <2>1, <4>1, <4>4, <5>1
      <4> QED
        BY <1>1, <4>1, <4>2, <4>3, <4>4
    <3> QED
      BY <3>1, <3>2
  <2> QED
    BY <2>3, <2>4 DEF PoolInv
<1> QED
  BY <1>1, <1>4, <1>5

LEMMA PoolSessionEnds ==
  ASSUME SigInv, PoolInv, NEW p \in Proc, status = "up", Runs(p), stage[p] = "session", Finished(p),
         lock' = Unlocked(p) \/ (lock' = lock /\ p = Daemon /\ stale)
  PROVE  PoolInv'
<1>1. /\ p # Daemon => p \in Client /\ ClientOf(p) = p /\ Forks
                       /\ conn[p] \notin {"out", "queued", "cut"}
      /\ p = Daemon => ~Forks /\ (\A c \in Client : stage[c] = "none" /\ conn[c] # "cut")
  BY Serving
<1>2. /\ conn \in [Client -> {"out", "queued", "accepted", "served", "closed", "cut"}]
      /\ stage \in [Proc -> {"none", "young", "search", "verify", "sleep", "session", "zombie", "gone"}]
      /\ lock \in [Port -> Proc \union {NoOne}] /\ Daemon \in Proc /\ Client \subseteq Proc
  BY DEF SigInv, TypeOK, Proc
<1>3. /\ conn' = [conn EXCEPT ![ClientOf(p)] = "closed"]
      /\ UNCHANGED <<server_type, stale, urgent>>
      /\ p = Daemon => stage' = [stage EXCEPT ![p] = "none"]
      /\ p # Daemon => stage' = [stage EXCEPT ![p] = "zombie"] /\ pc' = pc
  BY DEF Finished, Closed, ChildEnds, confVars, worldVars
<1>4. /\ \A c \in Client : conn'[c] = conn[c] \/ (conn'[c] = "closed" /\ conn[c] # "cut")
      /\ \A r \in Proc : r # p => stage'[r] = stage[r]
      /\ p = Daemon => stage'[p] = "none"
      /\ p # Daemon => stage'[p] = "zombie" /\ conn'[p] = "closed"
  BY <1>1, <1>2, <1>3, Distinct
<1>5. Roles'
  <2>1. ASSUME NEW c \in Client
        PROVE  /\ stage'[c] # "none" => Forks'
               /\ conn'[c] \in {"out", "queued"} => stage'[c] = "none"
               /\ conn'[c] = "cut" => stage'[c] \in {"zombie", "gone"}
    <3>1. /\ stage[c] # "none" => Forks
          /\ conn[c] \in {"out", "queued"} => stage[c] = "none"
          /\ conn[c] = "cut" => stage[c] \in {"zombie", "gone"}
      BY DEF PoolInv, Roles
    <3>2. CASE c = p
      BY <1>1, <1>3, <1>4, <3>2, Distinct DEF Forks
    <3>3. CASE c # p
      BY <1>2, <1>3, <1>4, <3>1, <3>3 DEF Forks
    <3> QED
      BY <3>2, <3>3
  <2>2. stage'[Daemon] # "none" => pc' = "serving" /\ ~Forks'
    BY <1>2, <1>3, <1>4 DEF PoolInv, Roles, Forks
  <2> QED
    BY <2>1, <2>2 DEF Roles
<1>6. HasSession'
  <2> SUFFICES ASSUME NEW q \in Port, lock'[q] # NoOne
               PROVE  \/ stage'[lock'[q]] = "session"
                      \/ lock'[q] \in Client /\ conn'[lock'[q]] = "cut"
                      \/ lock'[q] = Daemon /\ urgent' > 0
    BY DEF HasSession
  <2>1. lock'[q] = lock[q] /\ lock[q] \in Proc /\ (lock[q] = p => p = Daemon /\ stale)
    BY <1>2 DEF Unlocked
  <2>2. CASE lock[q] = p
    <3>1. urgent > 0
      BY <2>1, <2>2 DEF SigInv, TypeOK, Caused
    <3> QED
      BY <1>3, <2>1, <2>2, <3>1
  <2>3. CASE lock[q] # p
    <3>1. \/ stage[lock[q]] = "session"
          \/ lock[q] \in Client /\ conn[lock[q]] = "cut"
          \/ lock[q] = Daemon /\ urgent > 0
      BY <2>1 DEF PoolInv, HasSession
    <3> QED
      BY <1>3, <1>4, <2>1, <2>3, <3>1
  <2> QED
    BY <2>2, <2>3
<1> QED
  BY <1>5, <1>6 DEF PoolInv

LEMMA PoolServe ==
  ASSUME SigInv, PoolInv, NEW p \in Proc, Serve(p) \/ SessionEnds(p), status = "up"
  PROVE  PoolInv'
<1>1. CASE handle_network_connection(p)
  <2>1. Runs(p) /\ stage[p] = "young" /\ UNCHANGED <<server_type, pc, stale, lock, urgent>>
    BY <1>1 DEF handle_network_connection, confVars, worldVars
  <2>2. /\ p # Daemon => p \in Client /\ ClientOf(p) = p /\ Forks
                         /\ conn[p] \notin {"out", "queued", "cut"}
        /\ p = Daemon => ~Forks /\ pc = "serving"
    BY <2>1, Serving DEF Runs
  <2>3. CASE stage' = [stage EXCEPT ![p] = "search"] /\ conn' = conn
    BY <2>1, <2>2, <2>3, Distinct, PoolStage
  <2>4. CASE p = Daemon /\ Down("exited", {})
    BY <2>4, PoolDown DEF Down
  <2>5. CASE p # Daemon /\ Closed(p) /\ ChildEnds(p)
    <3>1. stage' = [stage EXCEPT ![p] = "zombie"] /\ conn' = [conn EXCEPT ![p] = "closed"]
      BY <2>2, <2>5 DEF ChildEnds, Closed
    <3>2. conn'[p] = "closed" /\ \A c \in Client : c # p => conn'[c] = conn[c]
      BY <2>2, <2>5, <3>1 DEF SigInv, TypeOK
    <3> QED
      BY <2>1, <2>2, <2>5, <3>1, <3>2, PoolStage
  <2> QED
    BY <1>1, <2>3, <2>4, <2>5 DEF handle_network_connection
<1>2. CASE Turn(p)
  BY <1>2, PoolTurn
<1>3. CASE OpenFails(p) \/ NoPort(p)
  BY <1>3, PoolFinished DEF OpenFails, NoPort, Searching
<1>4. CASE SessionEnds(p)
  <2>1. CASE status' # "up"
    BY <2>1, PoolDown
  <2>2. CASE status' = "up"
    BY <1>4, <2>2, PoolSessionEnds DEF SessionEnds, Down
  <2> QED
    BY <2>1, <2>2
<1> QED
  BY <1>1, <1>2, <1>3, <1>4, ServeParts

LEMMA PoolAccept ==
  ASSUME SigInv, PoolInv, NEW c \in Client, concurrent_server(c) \/ iterative_server(c)
  PROVE  PoolInv'
<1>1. /\ status = "up" /\ pc = "accept" /\ conn[c] = "queued" /\ c \in Proc /\ c # Daemon
      /\ stage[c] = "none" /\ stage[Daemon] = "none" /\ ClientOf(c) = c
      /\ UNCHANGED <<server_type, stale, lock, urgent>>
  BY Distinct DEF concurrent_server, iterative_server, Listening, PoolInv, Roles, ClientOf,
     confVars, poolVars, worldVars, Proc
<1>2. conn \in [Client -> {"out", "queued", "accepted", "served", "closed", "cut"}]
  BY DEF SigInv, TypeOK
<1>3. CASE concurrent_server(c)
  <2>1. Forks /\ pc' = pc
    BY <1>3 DEF concurrent_server
  <2>2. CASE stage' = [stage EXCEPT ![c] = "young"] /\ conn' = [conn EXCEPT ![c] = "accepted"]
    <3>1. conn'[c] = "accepted" /\ \A d \in Client : d # c => conn'[d] = conn[d]
      BY <1>2, <2>2
    <3> QED
      BY <1>1, <2>1, <2>2, <3>1, PoolStage
  <2>3. CASE Closed(c) /\ UNCHANGED stage
    <3>1. conn'[c] = "closed" /\ \A d \in Client : d # c => conn'[d] = conn[d]
      BY <1>1, <1>2, <2>3 DEF Closed
    <3>2. Roles'
      BY <1>1, <2>1, <2>3, <3>1 DEF PoolInv, Roles, Forks
    <3>3. HasSession'
      BY <1>1, <2>3, <3>1 DEF PoolInv, HasSession
    <3> QED
      BY <3>2, <3>3 DEF PoolInv
  <2> QED
    BY <1>3, <2>2, <2>3 DEF concurrent_server
<1>4. CASE iterative_server(c)
  <2>1. /\ ~Forks /\ pc' = "serving" /\ Daemon \in Proc
        /\ stage' = [stage EXCEPT ![Daemon] = "young"]
        /\ conn' = [conn EXCEPT ![c] = "accepted"]
    BY <1>4 DEF iterative_server, Proc
  <2>2. \A d \in Client : conn'[d] = conn[d] \/ (conn'[d] = "accepted" /\ conn[d] # "cut")
    BY <1>1, <1>2, <2>1
  <2> QED
    BY <1>1, <2>1, <2>2, Distinct, PoolStage
<1> QED
  BY <1>3, <1>4

LEMMA PoolHandler ==
  ASSUME SigInv, PoolInv, Handler
  PROVE  PoolInv'
<1> USE DEF confVars, signalVars, poolVars, clientVars, worldVars
<1>1. status = "up" /\ frames # <<>> /\ UNCHANGED <<server_type, lock, conn, urgent>>
  BY DEF Handler, program_clean_up, action_sigterm, serial_ip_init, action_sigchild,
     action_sigusr, At
<1>2. urgent' \in Nat /\ urgent' >= urgent
  BY <1>1 DEF SigInv, TypeOK
<1>3. CASE status' # "up"
  BY <1>3, PoolDown
<1>4. ASSUME status' = "up", UNCHANGED stage, pc' = pc \/ Return PROVE PoolInv'
  <2>1. pc = "serving" => pc' = "serving"
    BY <1>1, <1>4, ReturnOK
  <2> QED
    BY <1>1, <1>2, <1>4, <2>1, PoolKept
<1>5. ASSUME NEW c \in Zombies, stage' = [stage EXCEPT ![c] = "gone"], UNCHANGED pc
      PROVE  PoolInv'
  <2>1. c \in Client /\ stage[c] = "zombie" /\ c \in Proc /\ c # Daemon
    BY <1>5, Distinct DEF Zombies, Proc
  <2>2. Forks /\ conn[c] \notin {"out", "queued"}
    BY <1>1, <2>1 DEF PoolInv, Roles
  <2> QED
    BY <1>1, <1>5, <2>1, <2>2, PoolStage
<1>6. CASE program_clean_up
  BY <1>3, <1>4, <1>6 DEF program_clean_up, Down
<1>7. CASE action_sigterm
  BY <1>3, <1>7 DEF action_sigterm, KillGroup, Down
<1>8. CASE serial_ip_init
  BY <1>3, <1>4, <1>8 DEF serial_ip_init, Down
<1>9. CASE action_sigchild
  <2>1. status' = "up"
    BY <1>1, <1>9 DEF action_sigchild
  <2> QED
    BY <1>4, <1>5, <1>9, <2>1 DEF action_sigchild
<1>10. CASE action_sigusr
  BY <1>1, <1>4, <1>10 DEF action_sigusr
<1> QED
  BY <1>6, <1>7, <1>8, <1>9, <1>10 DEF Handler

LEMMA PoolKilled ==
  ASSUME SigInv, PoolInv, NEW c \in Client, ChildKilled(c), status = "up"
  PROVE  PoolInv'
<1>1. /\ stage[c] \in {"session"} \union Searching /\ c \in Proc /\ c # Daemon
      /\ stage' = [stage EXCEPT ![c] = "zombie"] /\ conn' = [conn EXCEPT ![c] = "cut"]
      /\ UNCHANGED <<server_type, pc, lock, urgent>>
  BY Distinct DEF ChildKilled, Grown, ChildEnds, confVars, poolVars, worldVars, Proc
<1>2. /\ stage'[c] = "zombie" /\ \A r \in Proc : r # c => stage'[r] = stage[r]
      /\ conn'[c] = "cut" /\ \A d \in Client : d # c => conn'[d] = conn[d]
      /\ Client \subseteq Proc /\ Daemon \in Proc
      /\ lock \in [Port -> Proc \union {NoOne}]
  BY <1>1 DEF SigInv, TypeOK, Proc
<1>3. Roles'
  BY <1>1, <1>2 DEF PoolInv, Roles, Forks, Searching
<1>4. HasSession'
  <2> SUFFICES ASSUME NEW q \in Port, lock[q] # NoOne
               PROVE  \/ stage'[lock[q]] = "session"
                      \/ lock[q] \in Client /\ conn'[lock[q]] = "cut"
                      \/ lock[q] = Daemon /\ urgent > 0
    BY <1>1 DEF HasSession
  <2>1. \/ stage[lock[q]] = "session"
        \/ lock[q] \in Client /\ conn[lock[q]] = "cut"
        \/ lock[q] = Daemon /\ urgent > 0
    BY DEF PoolInv, HasSession
  <2> QED
    BY <1>2, <2>1
<1> QED
  BY <1>3, <1>4 DEF PoolInv

LEMMA PoolYoung ==
  ASSUME SigInv, PoolInv, NEW c \in Client, YoungChildTermed(c), status = "up"
  PROVE  PoolInv'
<1>1. /\ \A p \in Proc : stage'[p] = IF stage[p] = "young" THEN "zombie" ELSE stage[p]
      /\ \A d \in Client : conn'[d] = IF stage[d] = "young" THEN "cut" ELSE conn[d]
      /\ UNCHANGED <<server_type, status, pc, lock>> /\ urgent' = urgent + 1
  BY DEF YoungChildTermed, poolVars
<1>2. /\ Client \subseteq Proc /\ Daemon \in Proc /\ urgent \in Nat
      /\ lock \in [Port -> Proc \union {NoOne}]
  BY DEF SigInv, TypeOK, Proc
<1>3. Roles'
  BY <1>1, <1>2 DEF PoolInv, Roles, Forks
<1>4. HasSession'
  <2> SUFFICES ASSUME NEW q \in Port, lock[q] # NoOne
               PROVE  \/ stage'[lock[q]] = "session"
                      \/ lock[q] \in Client /\ conn'[lock[q]] = "cut"
                      \/ lock[q] = Daemon /\ urgent' > 0
    BY <1>1 DEF HasSession
  <2>1. \/ stage[lock[q]] = "session"
        \/ lock[q] \in Client /\ conn[lock[q]] = "cut"
        \/ lock[q] = Daemon /\ urgent > 0
    BY DEF PoolInv, HasSession
  <2> QED
    BY <1>1, <1>2, <2>1
<1> QED
  BY <1>3, <1>4 DEF PoolInv

LEMMA PoolNext == SigInv /\ PoolInv /\ [Next]_vars => PoolInv'
<1> SUFFICES ASSUME SigInv, PoolInv, [Next]_vars PROVE PoolInv'
  OBVIOUS
<1> USE DEF confVars, signalVars, poolVars, clientVars, worldVars
<1>1. CASE UNCHANGED vars
  BY <1>1 DEF vars, PoolInv, Roles, HasSession, Forks
<1>2. ASSUME status # "up", Next PROVE PoolInv'
  <2>1. status' # "up"
    BY <1>2 DEF Next, Accept, concurrent_server, iterative_server, Listening, AcceptFails, RunAgain,
       Handler, program_clean_up, action_sigterm, serial_ip_init, action_sigchild, action_sigusr, At,
       Deliver, Serve, SessionEnds, handle_network_connection, select_serial_port, OwnerFound, RemoveStale,
       SecondLink, LinkRefused, OpenFails, NoPort, Finished, Elsewhere, Down, ChildKilled,
       YoungChildTermed, KillGroup, Connect, Send
  <2> QED
    BY <2>1, PoolDown
<1>3. ASSUME status = "up", Next PROVE PoolInv'
  <2>1. urgent \in Nat
    BY DEF SigInv, TypeOK
  <2>2. ASSUME AcceptFails \/ RunAgain \/ \E sig \in Signal : Deliver(sig) PROVE PoolInv'
    <3>1. UNCHANGED <<server_type, lock, stage, conn, urgent>>
      BY <2>2 DEF AcceptFails, RunAgain, Deliver
    <3>2. pc = "serving" => pc' = "serving"
      BY <2>2 DEF AcceptFails, Listening, RunAgain, Deliver
    <3> QED
      BY <1>3, <2>1, <3>1, <3>2, PoolKept
  <2>3. ASSUME NEW sig \in Sent, Send(sig) PROVE PoolInv'
    <3>1. UNCHANGED <<server_type, lock, stage, conn, pc>>
          /\ urgent' \in Nat /\ urgent' >= urgent
      BY <2>1, <2>3 DEF Send
    <3> QED
      BY <1>3, <3>1, PoolKept
  <2>4. ASSUME NEW c \in Client, Connect(c) PROVE PoolInv'
    <3>1. conn[c] = "out" /\ UNCHANGED <<status, server_type, lock, stage, pc, urgent>>
      BY <2>4 DEF Connect
    <3>2. conn'[c] = "queued" /\ \A d \in Client : d # c => conn'[d] = conn[d]
      BY <2>4 DEF Connect, SigInv, TypeOK
    <3>3. Roles'
      BY <1>3, <3>1, <3>2 DEF PoolInv, Roles, Forks
    <3>4. HasSession'
      BY <1>3, <3>1, <3>2 DEF PoolInv, HasSession
    <3> QED
      BY <3>3, <3>4 DEF PoolInv
  <2>5. ASSUME NEW c \in Client, YoungChildTermed(c) PROVE PoolInv'
    BY <1>3, <2>5, PoolYoung
  <2>6. ASSUME NEW c \in Client, ChildKilled(c) PROVE PoolInv'
    BY <1>3, <2>6, PoolKilled
  <2> QED
    BY <1>3, <2>2, <2>3, <2>4, <2>5, <2>6, PoolAccept, PoolHandler, PoolServe DEF Next, Accept
<1> QED
  BY <1>1, <1>2, <1>3

-----------------------------------------------------------------------------
(* One SIGTERM or SIGHUP *)

\* As long as one was sent, at most one of its actions is being run or to be run,
\* and the configuration is freed only in the middle of it.
OneAction ==
  /\ \A i, j \in 1..Len(frames) : frames[i].sig \in Urgent /\ frames[j].sig \in Urgent => i = j
  /\ \A s, t \in pending : s \in Urgent /\ t \in Urgent => s = t
  /\ \A s \in pending : s \in Urgent =>
       /\ signo \notin Urgent /\ conf = "loaded"
       /\ \A i \in 1..Len(frames) : frames[i].sig \notin Urgent
  /\ conf = "freed" => \E i \in 1..Len(frames) : frames[i].sig \in Urgent /\ frames[i].at # "clean"

ReloadInv ==
  /\ SafeReload
  /\ status = "up" /\ urgent <= 1 => OneAction

LEMMA ReloadDown ==
  ASSUME SigInv, ReloadInv, status' # "up", server_type' = server_type, urgent' = urgent,
         status' = "crashed" => status = "crashed" \/ urgent >= 2 \/ (~Forks /\ urgent >= 1)
  PROVE  ReloadInv'
  BY DEF ReloadInv, SafeReload, Forks

LEMMA ReloadKept ==
  ASSUME ReloadInv, status' = status,
         UNCHANGED <<server_type, frames, signo, conf, urgent>>,
         \A s \in pending' : s \in Urgent => s \in pending
  PROVE  ReloadInv'
  BY DEF ReloadInv, SafeReload, OneAction, Forks

\* The action of another signal returns.
LEMMA ReloadReturn ==
  ASSUME SigInv, status = "up", urgent <= 1 => OneAction, frames # <<>>, Return,
         frames[1].sig \notin Urgent, UNCHANGED <<server_type, status, pending, conf, urgent>>
  PROVE  ReloadInv'
<1>1. SafeReload'
  BY DEF SafeReload
<1>2. ASSUME urgent <= 1 PROVE OneAction'
  <2>1. /\ frames \in Seq(Frame) /\ Len(frames) \in Nat /\ Len(frames') = Len(frames) - 1
        /\ \A i \in 1..Len(frames') : frames'[i] = frames[i + 1]
        /\ signo' = frames[1].sig
    BY ReturnOK, Popped DEF SigInv, TypeOK, Return
  <2>2. \A i \in 1..Len(frames') : i + 1 \in 1..Len(frames) /\ frames'[i] = frames[i + 1]
    BY <2>1
  <2>3. \A i, j \in 1..Len(frames') : frames'[i].sig \in Urgent /\ frames'[j].sig \in Urgent => i = j
    BY <1>2, <2>1, <2>2 DEF OneAction
  <2>4. \A s \in pending' : s \in Urgent =>
          /\ signo' \notin Urgent /\ conf' = "loaded"
          /\ \A i \in 1..Len(frames') : frames'[i].sig \notin Urgent
    BY <1>2, <2>1, <2>2 DEF OneAction
  <2>5. ASSUME conf' = "freed"
        PROVE  \E i \in 1..Len(frames') : frames'[i].sig \in Urgent /\ frames'[i].at # "clean"
    <3>1. PICK i \in 1..Len(frames) : frames[i].sig \in Urgent /\ frames[i].at # "clean"
      BY <1>2, <2>5 DEF OneAction
    <3>2. i - 1 \in 1..Len(frames') /\ (i - 1) + 1 = i
      BY <2>1, <3>1
    <3>3. frames'[i - 1] = frames[i]
      BY <2>1, <3>2
    <3> QED
      BY <3>1, <3>2, <3>3
  <2> QED
    BY <1>2, <2>3, <2>4, <2>5 DEF OneAction
<1> QED
  BY <1>1, <1>2 DEF ReloadInv

LEMMA ReloadHandler ==
  ASSUME SigInv, ReloadInv, Handler
  PROVE  ReloadInv'
<1> USE DEF confVars, signalVars, poolVars, clientVars, worldVars
<1>1. /\ status = "up" /\ frames # <<>> /\ frames \in Seq(Frame) /\ Top = frames[1]
      /\ Len(frames) \in Nat /\ 1 \in 1..Len(frames) /\ frames[1] \in Frame
      /\ FrameOK(frames[1], pc, urgent)
  <2>1. status = "up" /\ frames # <<>>
    BY DEF Handler, program_clean_up, action_sigterm, serial_ip_init, action_sigchild,
           action_sigusr, At
  <2>2. frames \in Seq(Frame)
    BY DEF SigInv, TypeOK
  <2>3. Top = frames[1] /\ Len(frames) \in Nat /\ 1 \in 1..Len(frames) /\ frames[1] \in Frame
    BY <2>1, <2>2, Popped DEF Top
  <2> QED
    BY <2>1, <2>2, <2>3 DEF SigInv, StackOK
<1>2. urgent \in Nat /\ (urgent <= 1 => OneAction) /\ (frames[1].sig \in Urgent => urgent >= 1)
  BY <1>1 DEF SigInv, TypeOK, ReloadInv, FrameOK
<1>3. CASE program_clean_up
  <2>1. frames[1].sig \in Urgent /\ frames[1].at = "clean" /\ UNCHANGED <<server_type, urgent, signo>>
    BY <1>1, <1>3 DEF program_clean_up, At, FrameOK
  <2>2. CASE conf = "freed" /\ Down("crashed", Client)
    <3>1. urgent >= 2
      <4> SUFFICES ASSUME urgent <= 1 PROVE FALSE
        BY <1>2
      <4>1. PICK i \in 1..Len(frames) : frames[i].sig \in Urgent /\ frames[i].at # "clean"
        BY <1>2, <2>2 DEF OneAction
      <4>2. i = 1
        BY <1>1, <1>2, <2>1, <4>1 DEF OneAction
      <4> QED
        BY <2>1, <4>1, <4>2
    <3> QED
      BY <2>1, <2>2, <3>1, ReloadDown DEF Down
  <2>3. ASSUME conf' = "freed", UNCHANGED <<status, pending, stage>>,
               frames' = [frames EXCEPT ![1].at = IF Top.sig = "SIGHUP" THEN "init" ELSE "kill"]
        PROVE  ReloadInv'
    <3> DEFINE a == IF Top.sig = "SIGHUP" THEN "init" ELSE "kill"
    <3>1. a \in Place /\ a # "clean" /\ frames' = [frames EXCEPT ![1].at = a]
      BY <2>3 DEF Place
    <3> HIDE DEF a
    <3>2. /\ Len(frames') = Len(frames) /\ frames'[1].sig = frames[1].sig /\ frames'[1].at = a
          /\ \A i \in 2..Len(frames) : frames'[i] = frames[i]
      BY <1>1, <3>1, Moved
    <3>3. \A i \in 1..Len(frames) : frames'[i].sig = frames[i].sig
      BY <1>1, <3>2
    <3>4. ASSUME urgent <= 1 PROVE OneAction'
      BY <1>1, <1>2, <2>1, <2>3, <3>1, <3>2, <3>3, <3>4 DEF OneAction
    <3> QED
      BY <1>1, <2>1, <2>3, <3>4 DEF ReloadInv, SafeReload
  <2> QED
    BY <1>3, <2>2, <2>3 DEF program_clean_up
<1>4. CASE action_sigterm
  BY <1>1, <1>4, ReloadDown DEF action_sigterm, KillGroup, Down
<1>5. CASE serial_ip_init
  <2>1. CASE Down("exited", Client)
    BY <1>5, <2>1, ReloadDown DEF Down, serial_ip_init
  <2>2. CASE conf' = "loaded" /\ Return /\ UNCHANGED <<status, pending, stage>>
    <3>1. frames[1].sig \in Urgent /\ urgent' = urgent
      BY <1>1, <1>5 DEF serial_ip_init, At, FrameOK
    <3>2. ASSUME urgent <= 1 PROVE OneAction'
      <4>1. /\ Len(frames') = Len(frames) - 1
            /\ \A i \in 1..Len(frames') : frames'[i] = frames[i + 1]
        BY <1>1, <2>2, <3>1, ReturnOK
      <4>2. \A i \in 1..Len(frames') : frames'[i].sig \notin Urgent
        <5> SUFFICES ASSUME NEW i \in 1..Len(frames') PROVE frames'[i].sig \notin Urgent
          OBVIOUS
        <5>1. i + 1 \in 1..Len(frames) /\ i + 1 # 1 /\ frames'[i] = frames[i + 1]
          BY <1>1, <4>1
        <5> QED
          BY <1>1, <1>2, <3>1, <3>2, <5>1 DEF OneAction
      <4>3. \A s \in pending' : s \notin Urgent
        BY <1>1, <1>2, <2>2, <3>1, <3>2 DEF OneAction
      <4> QED
        BY <2>2, <4>2, <4>3 DEF OneAction
    <3> QED
      BY <1>1, <2>2, <3>1, <3>2 DEF ReloadInv, SafeReload
  <2> QED
    BY <1>5, <2>1, <2>2 DEF serial_ip_init
<1>6. CASE action_sigchild
  <2>1. frames[1].sig \notin Urgent /\ UNCHANGED <<server_type, status, pending, conf, urgent>>
    BY <1>1, <1>6 DEF action_sigchild, At, FrameOK, Urgent
  <2>2. CASE Return
    BY <1>1, <1>2, <2>1, <2>2, ReloadReturn
  <2>3. ASSUME NEW a \in {"wait", "again"}, frames' = [frames EXCEPT ![1].at = a], UNCHANGED signo
        PROVE  ReloadInv'
    <3>1. a \in Place
      BY DEF Place
    <3>2. /\ Len(frames') = Len(frames) /\ frames'[1].sig = frames[1].sig
          /\ \A i \in 2..Len(frames) : frames'[i] = frames[i]
      BY <1>1, <2>3, <3>1, Moved
    <3>3. /\ \A i \in 1..Len(frames) : frames'[i].sig = frames[i].sig
          /\ \A i \in 1..Len(frames) : frames[i].sig \in Urgent => frames'[i] = frames[i]
      BY <1>1, <2>1, <3>2
    <3>4. ASSUME urgent <= 1 PROVE OneAction'
      BY <1>2, <2>1, <2>3, <3>2, <3>3, <3>4 DEF OneAction
    <3> QED
      BY <1>1, <2>1, <3>4 DEF ReloadInv, SafeReload
  <2> QED
    BY <1>6, <2>2, <2>3 DEF action_sigchild
<1>7. CASE action_sigusr
  <2>1. frames[1].sig \notin Urgent /\ Return
        /\ UNCHANGED <<server_type, status, pending, conf, urgent>>
    BY <1>1, <1>7 DEF action_sigusr, At, FrameOK
  <2> QED
    BY <1>1, <1>2, <2>1, ReloadReturn
<1> QED
  BY <1>3, <1>4, <1>5, <1>6, <1>7 DEF Handler

LEMMA ReloadServe ==
  ASSUME SigInv, PoolInv, ReloadInv, NEW p \in Proc, Serve(p) \/ SessionEnds(p)
  PROVE  ReloadInv'
<1> USE DEF confVars, signalVars, poolVars, clientVars, worldVars
<1>1. urgent' = urgent /\ server_type' = server_type
  <2>1. CASE Turn(p)
    BY <2>1, Turns DEF SigInv, Elsewhere
  <2>2. CASE handle_network_connection(p) \/ OpenFails(p) \/ NoPort(p) \/ SessionEnds(p)
    BY <2>2 DEF handle_network_connection, OpenFails, NoPort, SessionEnds, Finished
  <2> QED
    BY <2>1, <2>2, ServeParts
<1>2. CASE Down("exited", {})
  BY <1>1, <1>2, ReloadDown DEF Down
<1>3. CASE Down("crashed", {}) /\ SessionEnds(p) /\ p = Daemon /\ stale
  <2>1. ~Forks
    BY <1>3 DEF SessionEnds, Runs, PoolInv, Roles
  <2>2. urgent >= 1
    BY <1>3 DEF SigInv, TypeOK, Caused
  <2> QED
    BY <1>1, <1>3, <2>1, <2>2, ReloadDown DEF Down
<1>4. CASE UNCHANGED <<status, frames, signo, conf>> /\ (UNCHANGED pending \/ ChildEnds(p))
  <2>1. \A s \in pending' : s \in Urgent => s \in pending
    BY <1>4 DEF ChildEnds, Urgent
  <2> QED
    BY <1>1, <1>4, <2>1, ReloadKept
<1>5. CASE Finished(p)
  BY <1>4, <1>5 DEF Finished
<1>6. CASE handle_network_connection(p)
  BY <1>2, <1>4, <1>6 DEF handle_network_connection
<1>7. CASE Turn(p)
  BY <1>4, <1>7, Turns DEF SigInv, Elsewhere
<1> QED
  BY <1>3, <1>5, <1>6, <1>7, ServeParts DEF OpenFails, NoPort, SessionEnds

LEMMA ReloadNext == SigInv /\ PoolInv /\ ReloadInv /\ [Next]_vars => ReloadInv'
<1> SUFFICES ASSUME SigInv, PoolInv, ReloadInv, [Next]_vars PROVE ReloadInv'
  OBVIOUS
<1> USE DEF confVars, signalVars, poolVars, clientVars, worldVars
<1>0. urgent \in Nat /\ signals \in Nat /\ frames \in Seq(Frame)
  BY DEF SigInv, TypeOK
<1>1. CASE UNCHANGED vars
  BY <1>1, ReloadKept DEF vars
<1>2. ASSUME NEW c \in Client, concurrent_server(c) \/ iterative_server(c) PROVE ReloadInv'
  BY <1>2, ReloadKept DEF concurrent_server, iterative_server
<1>3. CASE AcceptFails
  BY <1>3, ReloadKept DEF AcceptFails
<1>4. CASE RunAgain
  <2>1. status = "up" /\ frames = <<>> /\ Len(frames) = 0
        /\ UNCHANGED <<server_type, status, pending, signo, conf, urgent>>
    BY <1>4 DEF RunAgain
  <2>2. CASE signo = NoOne
    BY <1>4, <2>1, <2>2, ReloadKept DEF RunAgain
  <2>3. CASE signo # NoOne
    <3> DEFINE f == [sig |-> signo, at |-> Entry(signo), handler |-> FALSE]
    <3>1. frames' = <<f>> /\ f.sig = signo
      BY <1>4, <2>3 DEF RunAgain
    <3> HIDE DEF f
    <3>2. Len(frames') = 1 /\ frames'[1].sig = signo
      BY <3>1
    <3>3. ASSUME urgent <= 1 PROVE OneAction'
      BY <2>1, <3>2, <3>3 DEF ReloadInv, OneAction
    <3> QED
      BY <2>1, <3>3 DEF ReloadInv, SafeReload
  <2> QED
    BY <2>2, <2>3
<1>5. CASE Handler
  BY <1>5, ReloadHandler
<1>6. ASSUME NEW sig \in Signal, Deliver(sig) PROVE ReloadInv'
  <2> DEFINE f == [sig |-> sig, at |-> Entry(sig), handler |-> TRUE]
  <2>1. f \in Frame /\ f.sig = sig
    BY EntryOK DEF Entry, Frame, Signal, Sent, Urgent
  <2>2. /\ status = "up" /\ sig \in pending /\ pending' = pending \ {sig} /\ frames' = <<f>> \o frames
        /\ UNCHANGED <<server_type, status, signo, conf, urgent>>
    BY <1>6 DEF Deliver
  <2> HIDE DEF f
  <2>3. /\ Len(frames') = Len(frames) + 1 /\ Len(frames) \in Nat /\ frames'[1].sig = sig
        /\ \A i \in 2..Len(frames) + 1 : frames'[i] = frames[i - 1]
    BY <1>0, <2>1, <2>2, Pushed
  <2>4. \A i \in 1..Len(frames') : i = 1 \/ (i - 1 \in 1..Len(frames) /\ frames'[i] = frames[i - 1])
    BY <2>3
  <2>5. ASSUME urgent <= 1 PROVE OneAction'
    <3>1. OneAction
      BY <2>2, <2>5 DEF ReloadInv
    <3>2. \A i, j \in 1..Len(frames') : frames'[i].sig \in Urgent /\ frames'[j].sig \in Urgent => i = j
      <4> SUFFICES ASSUME NEW i \in 1..Len(frames'), NEW j \in 1..Len(frames'),
                          frames'[i].sig \in Urgent, frames'[j].sig \in Urgent, i # j
                   PROVE  FALSE
        OBVIOUS
      <4>1. CASE i = 1 \/ j = 1
        <5>1. sig \in Urgent /\ \E k \in 1..Len(frames) : frames[k].sig \in Urgent
          BY <2>3, <2>4, <4>1
        <5> QED
          BY <2>2, <3>1, <5>1 DEF OneAction
      <4>2. CASE i # 1 /\ j # 1
        <5>1. i - 1 \in 1..Len(frames) /\ j - 1 \in 1..Len(frames) /\ i - 1 # j - 1
          BY <2>3, <2>4, <4>2
        <5>2. frames[i - 1].sig \in Urgent /\ frames[j - 1].sig \in Urgent
          BY <2>4, <4>2
        <5> QED
          BY <3>1, <5>1, <5>2 DEF OneAction
      <4> QED
        BY <4>1, <4>2
    <3>3. ASSUME NEW s \in pending', s \in Urgent
          PROVE  /\ signo' \notin Urgent /\ conf' = "loaded"
                 /\ \A i \in 1..Len(frames') : frames'[i].sig \notin Urgent
      <4>1. s \in pending /\ s # sig /\ sig \notin Urgent
        BY <2>2, <3>1, <3>3 DEF OneAction
      <4>2. signo' \notin Urgent /\ conf' = "loaded"
        BY <2>2, <3>1, <3>3, <4>1 DEF OneAction
      <4>3. \A i \in 1..Len(frames) : frames[i].sig \notin Urgent
        BY <3>1, <3>3, <4>1 DEF OneAction
      <4>4. \A i \in 1..Len(frames') : frames'[i].sig \notin Urgent
        BY <2>3, <2>4, <4>1, <4>3
      <4> QED
        BY <4>2, <4>4
    <3>4. ASSUME conf' = "freed"
          PROVE  \E i \in 1..Len(frames') : frames'[i].sig \in Urgent /\ frames'[i].at # "clean"
      <4>1. PICK i \in 1..Len(frames) : frames[i].sig \in Urgent /\ frames[i].at # "clean"
        BY <2>2, <3>1, <3>4 DEF OneAction
      <4>2. i + 1 \in 1..Len(frames') /\ i + 1 \in 2..Len(frames) + 1 /\ (i + 1) - 1 = i
        BY <2>3
      <4>3. frames'[i + 1] = frames[i]
        BY <2>3, <4>2
      <4> QED
        BY <4>1, <4>2, <4>3
    <3>5. \A s, t \in pending' : s \in Urgent /\ t \in Urgent => s = t
      BY <2>2, <3>1 DEF OneAction
    <3> QED
      BY <3>2, <3>3, <3>4, <3>5 DEF OneAction
  <2> QED
    BY <2>2, <2>5 DEF ReloadInv, SafeReload
<1>7. ASSUME NEW p \in Proc, Serve(p) \/ SessionEnds(p) PROVE ReloadInv'
  BY <1>7, ReloadServe
<1>8. ASSUME NEW c \in Client, ChildKilled(c) PROVE ReloadInv'
  <2>1. \A s \in pending' : s \in Urgent => s \in pending
    BY <1>8 DEF ChildKilled, ChildEnds, Urgent
  <2> QED
    BY <1>8, <2>1, ReloadKept DEF ChildKilled
<1>9. ASSUME NEW c \in Client, YoungChildTermed(c) PROVE ReloadInv'
  <2>1. CASE status = "up"
    <3>1. /\ pending' = pending \union {"SIGTERM", "SIGCHLD"} /\ urgent' = urgent + 1
          /\ UNCHANGED <<server_type, status, frames, signo, conf>>
      BY <1>9, <2>1 DEF YoungChildTermed
    <3>2. ASSUME urgent' <= 1 PROVE OneAction'
      <4>1. urgent = 0
        BY <1>0, <3>1, <3>2
      <4>2. signo \notin Urgent /\ (\A s \in pending : s \notin Urgent)
        BY <4>1 DEF SigInv, Caused
      <4>3. \A i \in 1..Len(frames) : frames[i].sig \notin Urgent
        BY <4>1 DEF SigInv, StackOK, FrameOK
      <4>4. conf \in {"loaded", "freed"} /\ OneAction /\ "SIGCHLD" \notin Urgent
        BY <2>1, <4>1 DEF SigInv, TypeOK, ReloadInv, Urgent
      <4> QED
        BY <3>1, <4>2, <4>3, <4>4 DEF OneAction
    <3> QED
      BY <2>1, <3>1, <3>2 DEF ReloadInv, SafeReload
  <2>2. CASE status # "up"
    BY <1>9, <2>2, ReloadKept DEF YoungChildTermed
  <2> QED
    BY <2>1, <2>2
<1>10. ASSUME NEW c \in Client, Connect(c) PROVE ReloadInv'
  BY <1>10, ReloadKept DEF Connect
<1>11. ASSUME NEW sig \in Sent, Send(sig) PROVE ReloadInv'
  <2>1. /\ status = "up" /\ pending' = pending \union {sig}
        /\ urgent' = IF sig \in Urgent THEN urgent + 1 ELSE urgent
        /\ UNCHANGED <<server_type, status, frames, signo, conf>>
    BY <1>11 DEF Send
  <2>2. CASE sig \notin Urgent
    BY <2>1, <2>2, ReloadKept
  <2>3. CASE sig \in Urgent
    <3>1. ASSUME urgent' <= 1 PROVE OneAction'
      <4>1. urgent = 0
        BY <1>0, <2>1, <2>3, <3>1
      <4>2. signo \notin Urgent /\ (\A s \in pending : s \notin Urgent)
        BY <4>1 DEF SigInv, Caused
      <4>3. \A i \in 1..Len(frames) : frames[i].sig \notin Urgent
        BY <4>1 DEF SigInv, StackOK, FrameOK
      <4>4. conf \in {"loaded", "freed"} /\ OneAction
        BY <2>1, <4>1 DEF SigInv, TypeOK, ReloadInv
      <4> QED
        BY <2>1, <4>2, <4>3, <4>4 DEF OneAction
    <3> QED
      BY <2>1, <3>1 DEF ReloadInv, SafeReload
  <2> QED
    BY <2>2, <2>3
<1> QED
  BY <1>1, <1>2, <1>3, <1>4, <1>5, <1>6, <1>7, <1>8, <1>9, <1>10, <1>11 DEF Next, Accept

-----------------------------------------------------------------------------
(* The serial port, one connection at a time *)

\* The processes that attend to a client.
Active(p) == stage[p] \in {"young", "session"} \union Searching

\* Each session has the lock of the port, each process that attends to a client is
\* the only one to do so, and a daemon that is down attends to nobody.
SessionLocks == \A p \in Proc : stage[p] = "session" => lock[Index] = p
Attends ==
  \A p \in Proc : Active(p) =>
    /\ ClientOf(p) \in Client
    /\ conn[ClientOf(p)] = IF stage[p] = "session" THEN "served" ELSE "accepted"
    /\ \A o \in Proc : Active(o) /\ ClientOf(o) = ClientOf(p) => o = p
DaemonGone == status # "up" => stage[Daemon] = "gone"
MutexInv == SessionLocks /\ Attends /\ DaemonGone

\* A step that takes no connection up and no port.
NoneTaken ==
  /\ \A p \in Proc : Active(p)' =>
       /\ Active(p) /\ ClientOf(p)' = ClientOf(p)
       /\ stage'[p] = "session" <=> stage[p] = "session"
       /\ conn'[ClientOf(p)] = conn[ClientOf(p)]
  /\ \A c \in Client :
       \/ conn'[c] = conn[c] \/ conn'[c] \in {"closed", "cut"}
       \/ conn[c] = "out" /\ conn'[c] = "queued"
  /\ \A p \in Proc : stage'[p] = "session" => lock'[Index] = lock[Index]
  /\ DaemonGone'

\* Where no process comes to a session, the attempts go on or are over.
LEMMA AttemptsLeft ==
  ASSUME Attends',
         \A p \in Proc : stage'[p] = "session" => stage[p] = "session" /\ ClientOf(p)' = ClientOf(p),
         \A c \in Client :
           \/ conn'[c] = conn[c] \/ conn'[c] \in {"closed", "cut"}
           \/ conn[c] \in {"out", "queued", "accepted"} /\ conn'[c] \in {"out", "queued", "accepted"}
  PROVE  [Mutex!Next]_Attempt
<1>1. ASSUME NEW c \in Client PROVE AttemptOf(c)' = AttemptOf(c) \/ AttemptOf(c)' = "gone"
  <2>1. CASE conn'[c] \in {"closed", "cut"}
    <3>1. ~ \E p \in Proc : stage'[p] = "session" /\ ClientOf(p)' = c
      BY <2>1 DEF Attends, Active
    <3>2. conn'[c] \notin {"out", "queued", "accepted"}
      BY <2>1
    <3> QED
      BY <3>1, <3>2 DEF AttemptOf
  <2>2. CASE conn'[c] \in {"out", "queued", "accepted"}
    BY <2>2 DEF AttemptOf
  <2>3. CASE conn'[c] = conn[c] /\ conn[c] \notin {"out", "queued", "accepted"}
    BY <2>3 DEF AttemptOf
  <2> QED
    BY <2>1, <2>2, <2>3
<1> DEFINE S == {c \in Client : AttemptOf(c)' # AttemptOf(c)}
<1>2. \A c \in S : AttemptOf(c) # "gone" /\ AttemptOf(c)' = "gone"
  BY <1>1
<1>3. Attempt' = [c \in Client |-> IF c \in S THEN "gone" ELSE Attempt[c]]
  BY <1>2 DEF Attempt
<1>4. S \in SUBSET Client /\ \A c \in S : Attempt[c] # "gone"
  BY <1>2 DEF Attempt
<1>5. Mutex!Leave(S)
  BY <1>3, <1>4 DEF Mutex!Leave
<1> QED
  BY <1>4, <1>5 DEF Mutex!Next

LEMMA NoneTakenOK ==
  ASSUME MutexInv, NoneTaken
  PROVE  MutexInv' /\ [Mutex!Next]_Attempt
<1>1. SessionLocks'
  BY DEF SessionLocks, NoneTaken, MutexInv, Active
<1>2. Attends'
  BY DEF Attends, NoneTaken, MutexInv
<1>3. \A p \in Proc : stage'[p] = "session" => stage[p] = "session" /\ ClientOf(p)' = ClientOf(p)
  BY DEF NoneTaken, Active
<1>4. \A c \in Client :
        \/ conn'[c] = conn[c] \/ conn'[c] \in {"closed", "cut"}
        \/ conn[c] \in {"out", "queued", "accepted"} /\ conn'[c] \in {"out", "queued", "accepted"}
  BY DEF NoneTaken
<1>5. [Mutex!Next]_Attempt
  BY <1>2, <1>3, <1>4, AttemptsLeft
<1> QED
  BY <1>1, <1>2, <1>5 DEF NoneTaken, MutexInv
\* The lock, the clients and whoever attends to them are left alone; children that
\* attend to nobody may go on to another stage.
LEMMA NoneTakenKept ==
  ASSUME MutexInv, UNCHANGED <<status, lock, conn, current>>,
         \A p \in Proc : stage'[p] = stage[p] \/ (p # Daemon /\ ~Active(p)')
  PROVE  MutexInv' /\ [Mutex!Next]_Attempt
<1>1. \A p \in Proc : ClientOf(p)' = ClientOf(p)
  BY DEF ClientOf
<1>2. Daemon \in Proc
  BY DEF Proc
<1>3. NoneTaken
  BY <1>1, <1>2 DEF NoneTaken, MutexInv, DaemonGone, Active
<1> QED
  BY <1>3, NoneTakenOK

\* The end of the daemon, with at most the children left.
LEMMA NoneTakenDown ==
  ASSUME SigInv, MutexInv, NEW how, NEW S \in SUBSET Client, Down(how, S), UNCHANGED <<lock, current>>,
         conn' = conn \/ (S = {} /\ \E c \in Client : conn' = [conn EXCEPT ![c] = "closed"])
  PROVE  MutexInv' /\ [Mutex!Next]_Attempt
<1>1. \A p \in Proc : stage'[p] = "gone" \/ (p \in S /\ stage'[p] = stage[p])
  BY DEF Down
<1>2. stage'[Daemon] = "gone" /\ \A p \in Proc : ClientOf(p)' = ClientOf(p)
  BY <1>1, Distinct DEF Proc, ClientOf
<1>3. conn \in [Client -> {"out", "queued", "accepted", "served", "closed", "cut"}]
  BY DEF SigInv, TypeOK
<1>4. NoneTaken
  BY <1>1, <1>2, <1>3 DEF NoneTaken, DaemonGone, Active, Searching
<1> QED
  BY <1>4, NoneTakenOK

\* The end of a service.
LEMMA NoneTakenFinished ==
  ASSUME SigInv, MutexInv, NEW p \in Proc, Active(p), p = Daemon => status = "up",
         conn' = [conn EXCEPT ![ClientOf(p)] = "closed"] \/ conn' = [conn EXCEPT ![ClientOf(p)] = "cut"],
         \A o \in Proc : o # p => stage'[o] = stage[o], ~Active(p)',
         status' = status, p # Daemon => current' = current,
         \A o \in Proc : stage'[o] = "session" => lock'[Index] = lock[Index]
  PROVE  MutexInv' /\ [Mutex!Next]_Attempt
<1>1. conn \in [Client -> {"out", "queued", "accepted", "served", "closed", "cut"}]
  BY DEF SigInv, TypeOK
<1>2. ClientOf(p) \in Client /\ Daemon \in Proc
  BY DEF MutexInv, Attends, Proc
<1>3. \A c \in Client : conn'[c] = conn[c] \/ (c = ClientOf(p) /\ conn'[c] \in {"closed", "cut"})
  BY <1>1, <1>2
<1>4. ASSUME NEW o \in Proc, Active(o)'
      PROVE  /\ Active(o) /\ ClientOf(o)' = ClientOf(o)
             /\ stage'[o] = "session" <=> stage[o] = "session"
             /\ conn'[ClientOf(o)] = conn[ClientOf(o)]
  <2>1. o # p /\ stage'[o] = stage[o] /\ Active(o)
    BY <1>4 DEF Active
  <2>2. ClientOf(o) \in Client /\ ClientOf(o) # ClientOf(p)
    BY <2>1 DEF MutexInv, Attends
  <2>3. ClientOf(o)' = ClientOf(o)
    BY <2>1 DEF ClientOf
  <2> QED
    BY <1>3, <2>1, <2>2, <2>3
<1>5. DaemonGone'
  BY <1>2 DEF MutexInv, DaemonGone
<1>6. NoneTaken
  BY <1>3, <1>4, <1>5 DEF NoneTaken
<1> QED
  BY <1>6, NoneTakenOK

LEMMA MutexAccept ==
  ASSUME SigInv, PoolInv, MutexInv, NEW c \in Client, concurrent_server(c) \/ iterative_server(c)
  PROVE  MutexInv' /\ [Mutex!Next]_Attempt
<1> USE DEF confVars, signalVars, poolVars, clientVars, worldVars
<1>1. /\ conn \in [Client -> {"out", "queued", "accepted", "served", "closed", "cut"}]
      /\ stage \in [Proc -> {"none", "young", "search", "verify", "sleep", "session", "zombie", "gone"}]
      /\ c \in Proc /\ Daemon \in Proc /\ c # Daemon /\ ClientOf(c) = c
  BY Distinct DEF SigInv, TypeOK, Proc, ClientOf
<1>2. /\ status = "up" /\ status' = "up" /\ lock' = lock /\ conn[c] = "queued"
      /\ stage[c] = "none" /\ (stage[Daemon] = "none" \/ ~Forks)
  BY DEF concurrent_server, iterative_server, Listening, PoolInv, Roles
<1>3. \A o \in Proc : Active(o) => ClientOf(o) # c
  BY <1>2 DEF MutexInv, Attends
<1>4. CASE concurrent_server(c) /\ Closed(c) /\ stage' = stage
  <2>1. \A o \in Proc : ClientOf(o)' = ClientOf(o)
    BY <1>4 DEF concurrent_server, ClientOf
  <2>2. \A d \in Client : d # c => conn'[d] = conn[d]
    BY <1>1, <1>4 DEF Closed
  <2>3. \A o \in Proc : Active(o) => conn'[ClientOf(o)] = conn[ClientOf(o)]
    BY <1>3, <2>2 DEF MutexInv, Attends
  <2>4. conn'[c] = "closed"
    BY <1>1, <1>4 DEF Closed
  <2>5. NoneTaken
    BY <1>2, <1>4, <2>1, <2>2, <2>3, <2>4 DEF NoneTaken, Active, DaemonGone
  <2> QED
    BY <2>5, NoneTakenOK
<1>5. ASSUME NEW p \in Proc, conn' = [conn EXCEPT ![c] = "accepted"],
             stage' = [stage EXCEPT ![p] = "young"], ClientOf(p)' = c,
             stage[p] = "none", \A o \in Proc : Active(o) => ClientOf(o)' = ClientOf(o)
      PROVE  MutexInv' /\ [Mutex!Next]_Attempt
  <2>1. conn'[c] = "accepted" /\ \A d \in Client : d # c => conn'[d] = conn[d]
    BY <1>1, <1>5
  <2>2. stage'[p] = "young" /\ \A o \in Proc : o # p => stage'[o] = stage[o]
    BY <1>1, <1>5
  <2>3. ASSUME NEW o \in Proc, Active(o)', o # p
        PROVE  /\ Active(o) /\ ClientOf(o)' = ClientOf(o) /\ ClientOf(o) \in Client /\ ClientOf(o) # c
               /\ stage'[o] = stage[o] /\ conn'[ClientOf(o)] = conn[ClientOf(o)]
    <3>1. Active(o) /\ stage'[o] = stage[o]
      BY <2>2, <2>3 DEF Active
    <3>2. ClientOf(o)' = ClientOf(o) /\ ClientOf(o) \in Client /\ ClientOf(o) # c
      BY <1>3, <1>5, <3>1 DEF MutexInv, Attends
    <3> QED
      BY <2>1, <3>1, <3>2
  <2>4. Attends'
    BY <1>5, <2>1, <2>2, <2>3 DEF MutexInv, Attends
  <2>5. SessionLocks'
    BY <1>2, <2>2 DEF MutexInv, SessionLocks
  <2>6. \A o \in Proc : stage'[o] = "session" => stage[o] = "session" /\ ClientOf(o)' = ClientOf(o)
    BY <2>2, <2>3 DEF Active
  <2>7. [Mutex!Next]_Attempt
    BY <1>2, <2>1, <2>4, <2>6, AttemptsLeft
  <2> QED
    BY <1>2, <2>4, <2>5, <2>7 DEF MutexInv, DaemonGone
<1>6. CASE concurrent_server(c) /\ stage' = [stage EXCEPT ![c] = "young"]
                                /\ conn' = [conn EXCEPT ![c] = "accepted"]
  <2>1. \A o \in Proc : ClientOf(o)' = ClientOf(o)
    BY <1>6 DEF concurrent_server, ClientOf
  <2> QED
    BY <1>1, <1>2, <1>5, <1>6, <2>1 DEF PoolInv, Roles
<1>7. CASE iterative_server(c)
  <2>1. stage[Daemon] = "none" /\ ClientOf(Daemon)' = c
    BY <1>2, <1>7 DEF iterative_server, Listening, PoolInv, Roles, ClientOf
  <2>2. \A o \in Proc : Active(o) => ClientOf(o)' = ClientOf(o)
    BY <2>1 DEF Active, Searching, ClientOf
  <2> QED
    BY <1>1, <1>5, <1>7, <2>1, <2>2 DEF iterative_server
<1> QED
  BY <1>4, <1>6, <1>7 DEF concurrent_server

LEMMA MutexTurn ==
  ASSUME SigInv, MutexInv, UnlinksOnlyStale, NEW p \in Proc, Turn(p)
  PROVE  MutexInv' /\ [Mutex!Next]_Attempt
<1>1. /\ conn \in [Client -> {"out", "queued", "accepted", "served", "closed", "cut"}]
      /\ stage \in [Proc -> {"none", "young", "search", "verify", "sleep", "session", "zombie", "gone"}]
      /\ lock \in [Port -> Proc \union {NoOne}] /\ Index \in Port
  BY Bounds DEF SigInv, TypeOK, Index, Port
<1>2. /\ stage[p] \in Searching /\ UNCHANGED <<status, current>> /\ Runs(p)
      /\ Locks(p) \/ Searches(p)
      /\ \A o \in Proc : ClientOf(o)' = ClientOf(o)
  BY Turns DEF SigInv, Elsewhere, ClientOf
<1>3. ClientOf(p) \in Client /\ conn[ClientOf(p)] = "accepted"
  BY <1>2 DEF MutexInv, Attends, Active, Searching
<1>4. ASSUME ~Alive(lock[Index]) PROVE \A o \in Proc : stage[o] # "session"
  <2> SUFFICES ASSUME NEW o \in Proc, stage[o] = "session" PROVE Alive(lock[Index])
    BY <1>4
  <2>1. lock[Index] = o /\ (o = Daemon => status = "up")
    BY DEF MutexInv, SessionLocks, DaemonGone
  <2> QED
    BY <2>1, Distinct DEF Alive, Proc
<1>5. CASE Searches(p)
  <2>1. PICK new \in Searching : stage' = [stage EXCEPT ![p] = new]
    BY <1>5 DEF Searches
  <2>2. stage'[p] \in Searching /\ \A o \in Proc : o # p => stage'[o] = stage[o]
    BY <1>1, <2>1
  <2>3. conn' = conn /\ (lock' = lock \/ \A o \in Proc : stage[o] # "session")
    BY <1>4, <1>5 DEF Searches, UnlinksOnlyStale
  <2>4. DaemonGone'
    <3>1. Daemon \in Proc /\ (p = Daemon => status = "up")
      BY <1>2 DEF Proc, Runs
    <3> QED
      BY <1>2, <2>2, <3>1 DEF MutexInv, DaemonGone
  <2>5. \A o \in Proc : stage'[o] = "session" <=> stage[o] = "session"
    BY <1>2, <2>2 DEF Searching
  <2>6. \A o \in Proc : Active(o)' => Active(o)
    BY <1>2, <2>2 DEF Active
  <2>7. NoneTaken
    BY <1>2, <2>3, <2>4, <2>5, <2>6 DEF NoneTaken
  <2> QED
    BY <2>7, NoneTakenOK
<1>6. CASE Locks(p)
  <2>1. \A o \in Proc : stage[o] # "session"
    BY <1>4, <1>6, Distinct DEF Locks, Alive
  <2>2. /\ lock'[Index] = p
        /\ stage'[p] = "session" /\ \A o \in Proc : o # p => stage'[o] = stage[o]
        /\ conn'[ClientOf(p)] = "served" /\ \A d \in Client : d # ClientOf(p) => conn'[d] = conn[d]
    BY <1>1, <1>3, <1>6 DEF Locks
  <2>3. SessionLocks'
    BY <2>1, <2>2 DEF SessionLocks
  <2>4. Attends'
    BY <1>2, <2>1, <2>2 DEF MutexInv, Attends, Active, Searching
  <2>5. DaemonGone'
    <3>1. Daemon \in Proc /\ (p = Daemon => status = "up")
      BY <1>2 DEF Proc, Runs
    <3> QED
      BY <1>2, <2>2, <3>1 DEF MutexInv, DaemonGone
  <2>6. PICK c \in Client : c = ClientOf(p)
    BY <1>3
  <2>7. Attempt[c] = "asking" /\ \A d \in Client : Attempt[d] # "using"
    BY <1>3, <2>1, <2>6 DEF Attempt, AttemptOf
  <2>8. AttemptOf(c)' = "using"
    BY <1>2, <2>2, <2>6 DEF AttemptOf
  <2>9. ASSUME NEW d \in Client, d # c PROVE AttemptOf(d)' = AttemptOf(d)
    <3>1. \A o \in Proc : ~(stage'[o] = "session" /\ ClientOf(o)' = d)
      BY <1>2, <2>1, <2>2, <2>6, <2>9
    <3>2. \A o \in Proc : ~(stage[o] = "session" /\ ClientOf(o) = d)
      BY <2>1
    <3> QED
      BY <2>2, <2>6, <2>9, <3>1, <3>2 DEF AttemptOf
  <2>10. Attempt' = [Attempt EXCEPT ![c] = "using"]
    BY <2>8, <2>9 DEF Attempt
  <2>11. Mutex!Acquire(c)
    BY <2>7, <2>10 DEF Mutex!Acquire
  <2> QED
    BY <2>3, <2>4, <2>5, <2>11 DEF Mutex!Next, MutexInv
<1> QED
  BY <1>2, <1>5, <1>6

LEMMA MutexServe ==
  ASSUME SigInv, MutexInv, UnlinksOnlyStale, NEW p \in Proc, Serve(p) \/ SessionEnds(p)
  PROVE  MutexInv' /\ [Mutex!Next]_Attempt
<1> USE DEF confVars, signalVars, poolVars, clientVars, worldVars
<1>1. /\ stage \in [Proc -> {"none", "young", "search", "verify", "sleep", "session", "zombie", "gone"}]
      /\ Daemon \in Proc
  BY DEF SigInv, TypeOK, Proc
<1>2. ClientOf(p) \in Client /\ Active(p) /\ (p = Daemon => status = "up")
  <2>1. Runs(p) /\ stage[p] \in {"young", "session"} \union Searching
    BY ServeRuns DEF SigInv
  <2> QED
    BY <2>1 DEF MutexInv, Attends, Active, Runs
<1>3. ASSUME Finished(p), \A o \in Proc : o # p /\ stage[o] = "session" => lock'[Index] = lock[Index]
      PROVE  MutexInv' /\ [Mutex!Next]_Attempt
  <2>1. /\ conn' = [conn EXCEPT ![ClientOf(p)] = "closed"] /\ status' = status
        /\ p # Daemon => current' = current
    BY <1>3 DEF Finished, Closed
  <2>2. stage'[p] \in {"none", "zombie", "gone"} /\ \A o \in Proc : o # p => stage'[o] = stage[o]
    BY <1>1, <1>3 DEF Finished, ChildEnds
  <2>3. \A o \in Proc : stage'[o] = "session" => lock'[Index] = lock[Index]
    BY <1>3, <2>2
  <2>4. ~Active(p)'
    BY <2>2 DEF Active, Searching
  <2> QED
    BY <1>2, <2>1, <2>2, <2>3, <2>4, NoneTakenFinished
<1>4. CASE handle_network_connection(p)
  <2>1. stage[p] = "young" /\ UNCHANGED <<lock, current>>
    BY <1>4 DEF handle_network_connection
  <2>2. CASE stage' = [stage EXCEPT ![p] = "search"] /\ UNCHANGED <<status, conn>>
    <3>1. stage'[p] = "search" /\ \A o \in Proc : o # p => stage'[o] = stage[o]
      BY <1>1, <2>2
    <3>2. \A o \in Proc : ClientOf(o)' = ClientOf(o)
      BY <2>1 DEF ClientOf
    <3>3. DaemonGone'
      BY <1>1, <1>2, <2>2, <3>1 DEF MutexInv, DaemonGone
    <3>4. NoneTaken
      BY <2>1, <2>2, <3>1, <3>2, <3>3 DEF NoneTaken, Active, Searching
    <3> QED
      BY <3>4, NoneTakenOK
  <2>3. CASE p = Daemon /\ Closed(p) /\ Down("exited", {})
    BY <1>2, <2>1, <2>3, NoneTakenDown DEF Closed
  <2>4. CASE p # Daemon /\ Closed(p) /\ ChildEnds(p) /\ status' = status
    <3>1. stage'[p] \in {"zombie", "gone"} /\ \A o \in Proc : o # p => stage'[o] = stage[o]
      BY <1>1, <2>4 DEF ChildEnds
    <3>2. ~Active(p)'
      BY <3>1 DEF Active, Searching
    <3> QED
      BY <1>2, <2>1, <2>4, <3>1, <3>2, NoneTakenFinished DEF Closed
  <2> QED
    BY <1>4, <2>2, <2>3, <2>4 DEF handle_network_connection
<1>5. CASE OpenFails(p) \/ NoPort(p)
  BY <1>3, <1>5 DEF OpenFails, NoPort
<1>6. CASE SessionEnds(p)
  <2>1. stage[p] = "session" /\ lock[Index] = p
    BY <1>6 DEF SessionEnds, MutexInv, SessionLocks
  <2>2. \A o \in Proc : stage[o] = "session" => o = p
    BY <2>1 DEF MutexInv, SessionLocks
  <2>3. CASE Finished(p)
    BY <1>3, <2>2, <2>3
  <2>4. CASE Down("crashed", {}) /\ Closed(p) /\ UNCHANGED <<lock, current>>
    BY <1>2, <2>4, NoneTakenDown DEF Closed
  <2> QED
    BY <1>6, <2>3, <2>4 DEF SessionEnds
<1> QED
  BY <1>4, <1>5, <1>6, MutexTurn, ServeParts

LEMMA MutexHandler ==
  ASSUME SigInv, MutexInv, Handler
  PROVE  MutexInv' /\ [Mutex!Next]_Attempt
<1> USE DEF confVars, signalVars, poolVars, clientVars, worldVars
<1>1. stage \in [Proc -> {"none", "young", "search", "verify", "sleep", "session", "zombie", "gone"}]
  BY DEF SigInv, TypeOK
<1>2. ASSUME UNCHANGED <<lock, conn, current>>, NEW how, NEW S \in SUBSET Client, Down(how, S)
      PROVE  MutexInv' /\ [Mutex!Next]_Attempt
  BY <1>2, NoneTakenDown
<1>3. ASSUME UNCHANGED <<status, lock, conn, current>>,
             stage' = stage \/ \E c \in Zombies : stage' = [stage EXCEPT ![c] = "gone"]
      PROVE  MutexInv' /\ [Mutex!Next]_Attempt
  <2>1. \A p \in Proc : stage'[p] = stage[p] \/ (p # Daemon /\ ~Active(p)')
    BY <1>1, <1>3, Distinct DEF Zombies, Active, Searching, Proc
  <2> QED
    BY <1>3, <2>1, NoneTakenKept
<1>4. CASE program_clean_up
  BY <1>2, <1>3, <1>4 DEF program_clean_up
<1>5. CASE action_sigterm
  BY <1>2, <1>5 DEF action_sigterm, KillGroup, Grown
<1>6. CASE serial_ip_init
  BY <1>2, <1>3, <1>6 DEF serial_ip_init
<1>7. CASE action_sigchild
  BY <1>3, <1>7 DEF action_sigchild
<1>8. CASE action_sigusr
  BY <1>3, <1>8 DEF action_sigusr
<1> QED
  BY <1>4, <1>5, <1>6, <1>7, <1>8 DEF Handler

LEMMA MutexNext ==
  ASSUME SigInv, PoolInv, MutexInv, [Next]_vars, [UnlinksOnlyStale]_vars
  PROVE  MutexInv' /\ [Mutex!Next]_Attempt
<1> USE DEF confVars, signalVars, poolVars, clientVars, worldVars
<1>1. CASE UNCHANGED vars
  BY <1>1, NoneTakenKept DEF vars
<1>2. CASE AcceptFails \/ RunAgain \/ (\E sig \in Signal : Deliver(sig)) \/ (\E sig \in Sent : Send(sig))
  <2>1. UNCHANGED <<status, lock, conn, current, stage>>
    BY <1>2 DEF AcceptFails, RunAgain, Deliver, Send
  <2> QED
    BY <2>1, NoneTakenKept
<1>3. ASSUME NEW c \in Client, Connect(c) PROVE MutexInv' /\ [Mutex!Next]_Attempt
  <2>1. /\ conn[c] = "out" /\ conn'[c] = "queued" /\ \A d \in Client : d # c => conn'[d] = conn[d]
        /\ UNCHANGED <<status, lock, current, stage>>
    BY <1>3 DEF Connect, SigInv, TypeOK
  <2>2. \A p \in Proc : Active(p) => ClientOf(p) \in Client /\ ClientOf(p) # c
    BY <2>1 DEF MutexInv, Attends
  <2>3. \A p \in Proc : ClientOf(p)' = ClientOf(p)
    BY <2>1 DEF ClientOf
  <2>4. NoneTaken
    BY <2>1, <2>2, <2>3 DEF NoneTaken, Active, MutexInv, DaemonGone
  <2> QED
    BY <2>4, NoneTakenOK
<1>4. ASSUME NEW c \in Client, ChildKilled(c) PROVE MutexInv' /\ [Mutex!Next]_Attempt
  <2>1. /\ stage[c] \in {"session"} \union Searching /\ c \in Proc /\ c # Daemon /\ ClientOf(c) = c
        /\ conn' = [conn EXCEPT ![ClientOf(c)] = "cut"] /\ UNCHANGED <<status, lock, current>>
    BY <1>4, Distinct DEF ChildKilled, Grown, Proc, ClientOf
  <2>2. stage'[c] \in {"zombie", "gone"} /\ \A o \in Proc : o # c => stage'[o] = stage[o]
    BY <1>4, <2>1 DEF ChildKilled, ChildEnds, SigInv, TypeOK
  <2>3. Active(c) /\ ~Active(c)'
    BY <2>1, <2>2 DEF Active, Searching
  <2> QED
    BY <2>1, <2>2, <2>3, NoneTakenFinished
<1>5. ASSUME NEW c \in Client, YoungChildTermed(c) PROVE MutexInv' /\ [Mutex!Next]_Attempt
  <2>1. /\ UNCHANGED <<status, lock, current>> /\ Client \subseteq Proc /\ Daemon \in Proc
        /\ \A p \in Proc : stage'[p] = IF stage[p] # "young" THEN stage[p]
                                      ELSE IF status = "up" THEN "zombie" ELSE "gone"
        /\ \A d \in Client : conn'[d] = IF stage[d] = "young" THEN "cut" ELSE conn[d]
    BY <1>5 DEF YoungChildTermed, Proc
  <2>2. \A p \in Proc : ClientOf(p)' = ClientOf(p)
    BY <2>1 DEF ClientOf
  <2>3. \A p \in Proc : (stage'[p] = stage[p] /\ stage[p] # "young") \/ stage'[p] \in {"zombie", "gone"}
    BY <2>1
  <2>4. \A p \in Proc : Active(p)' => Active(p) /\ stage'[p] = stage[p] /\ stage[p] # "young"
    BY <2>3 DEF Active, Searching
  <2>5. ASSUME NEW p \in Proc, Active(p)' PROVE conn'[ClientOf(p)] = conn[ClientOf(p)]
    <3>1. ClientOf(p) \in Client /\ Active(p) /\ stage[p] # "young"
      BY <2>4, <2>5 DEF MutexInv, Attends
    <3>2. PICK d \in Client : d = ClientOf(p)
      BY <3>1
    <3>3. stage[d] # "young"
      <4> SUFFICES ASSUME stage[d] = "young" PROVE FALSE
        OBVIOUS
      <4>1. d \in Proc /\ Active(d) /\ ClientOf(d) = d
        BY <2>1, Distinct DEF Active, ClientOf
      <4>2. d = p
        BY <3>1, <3>2, <4>1 DEF MutexInv, Attends
      <4> QED
        BY <3>1, <4>2
    <3> QED
      BY <2>1, <3>2, <3>3
  <2>6. DaemonGone'
    BY <2>1 DEF MutexInv, DaemonGone
  <2>7. \A p \in Proc : stage'[p] = "session" <=> stage[p] = "session"
    BY <2>1
  <2>8. NoneTaken
    BY <2>1, <2>2, <2>4, <2>5, <2>6, <2>7 DEF NoneTaken
  <2> QED
    BY <2>8, NoneTakenOK
<1> QED
  BY <1>1, <1>2, <1>3, <1>4, <1>5, MutexAccept, MutexServe, MutexHandler DEF Next, Accept

LEMMA MutexInit == Init => MutexInv /\ Mutex!Init
  BY Distinct DEF Init, MutexInv, SessionLocks, Attends, DaemonGone, Active, Searching, Proc,
     Mutex!Init, Attempt, AttemptOf

-----------------------------------------------------------------------------
(* When the lock file that is removed is still the stale one *)

\* At most two connections contend for the port, or the daemon serves them itself.
FewContenders ==
  \/ \A a, b, c \in Client : a = b \/ b = c \/ a = c
  \/ "concurrent" \notin ServerTypes

Past(p) == stage[p] \in {"session", "zombie", "gone"}

\* A child that a lock file names has had its search.
HoldersPast == \A q \in Port : lock[q] \in Client => Past(lock[q])

\* Between its look and the unlink, a child knows of all there is to know: the lock
\* is that of the other child still, or nobody's.
StillTheOther ==
  Forks =>
    /\ stage[Daemon] \in {"none", "gone"}
    /\ \A q \in Port : lock[q] # Daemon
    /\ \A p \in Proc : stage[p] = "verify" =>
         seen[p] \in Client /\ Past(seen[p]) /\ lock[Index] \in {seen[p], NoOne}

\* A daemon that serves finds nobody but itself.
OnlyItself ==
  ~Forks =>
    /\ \A c \in Client : stage[c] \in {"none", "gone"}
    /\ \A q \in Port : lock[q] \in {Daemon, NoOne}
    /\ stage[Daemon] = "verify" => seen[Daemon] = Daemon

FewInv == HoldersPast /\ StillTheOther /\ OnlyItself

LEMMA FewKept ==
  ASSUME SigInv, FewInv, UNCHANGED server_type,
         \A c \in Client : Past(c) => Past(c)',
         \A p \in Proc : stage'[p] = "verify" => stage[p] = "verify" /\ seen'[p] = seen[p],
         \A q \in Port : lock'[q] = lock[q] \/ lock'[q] = NoOne,
         Forks => stage'[Daemon] \in {"none", "gone"},
         ~Forks => \A c \in Client : stage'[c] \in {"none", "gone"}
  PROVE  FewInv'
<1>1. Daemon \in Proc /\ NoOne \notin Client /\ NoOne # Daemon /\ Index \in Port
  BY Distinct, Bounds DEF Proc, Index, Port
<1>2. HoldersPast'
  BY <1>1 DEF FewInv, HoldersPast
<1>3. StillTheOther'
  BY <1>1 DEF FewInv, StillTheOther, Forks
<1>4. OnlyItself'
  BY <1>1 DEF FewInv, OnlyItself, Forks
<1> QED
  BY <1>2, <1>3, <1>4 DEF FewInv

\* A process at work passes on to another stage.
LEMMA FewStage ==
  ASSUME SigInv, FewInv, UNCHANGED server_type, NEW p \in Proc, NEW new,
         stage' = [stage EXCEPT ![p] = new], new # "verify", stage[p] \notin {"none", "gone"},
         p # Daemon /\ Past(p) => new \in {"zombie", "gone"},
         \A o \in Proc : o # p => seen'[o] = seen[o],
         \A q \in Port : lock'[q] = lock[q] \/ lock'[q] = NoOne
  PROVE  FewInv'
<1>1. /\ stage'[p] = new /\ \A o \in Proc : o # p => stage'[o] = stage[o]
      /\ Daemon \in Proc /\ Client \subseteq Proc /\ Daemon \notin Client
      /\ p # Daemon => p \in Client
  BY Distinct DEF SigInv, TypeOK, Proc
<1>2. \A c \in Client : Past(c) => Past(c)'
  BY <1>1 DEF Past
<1>3. \A o \in Proc : stage'[o] = "verify" => stage[o] = "verify" /\ seen'[o] = seen[o]
  BY <1>1
<1>4. (Forks => p # Daemon) /\ (~Forks => p = Daemon)
  BY <1>1 DEF FewInv, StillTheOther, OnlyItself
<1>5. Forks => stage'[Daemon] \in {"none", "gone"}
  BY <1>1, <1>4 DEF FewInv, StillTheOther
<1>6. ~Forks => \A c \in Client : stage'[c] \in {"none", "gone"}
  BY <1>1, <1>4 DEF FewInv, OnlyItself
<1> QED
  BY <1>2, <1>3, <1>5, <1>6, FewKept

LEMMA FewDown ==
  ASSUME SigInv, FewInv, NEW how, NEW S \in SUBSET Client, Down(how, S),
         UNCHANGED <<server_type, lock, seen>>
  PROVE  FewInv'
<1>1. /\ \A p \in Proc : stage'[p] = "gone" \/ (p \in S /\ stage'[p] = stage[p])
      /\ stage'[Daemon] = "gone" /\ Client \subseteq Proc
  BY Distinct DEF Down, Proc
<1>2. \A c \in Client : Past(c) => Past(c)'
  BY <1>1 DEF Past
<1>3. ~Forks => \A c \in Client : stage'[c] \in {"none", "gone"}
  BY <1>1 DEF FewInv, OnlyItself
<1> QED
  BY <1>1, <1>2, <1>3, FewKept

LEMMA FewTurn ==
  ASSUME FewContenders, SigInv, FewInv, NEW p \in Proc, Turn(p)
  PROVE  FewInv'
<1>1. /\ stage \in [Proc -> {"none", "young", "search", "verify", "sleep", "session", "zombie", "gone"}]
      /\ lock \in [Port -> Proc \union {NoOne}] /\ seen \in [Proc -> Proc \union {NoOne}]
      /\ Daemon \in Proc /\ Client \subseteq Proc /\ Daemon \notin Client /\ NoOne \notin Proc
      /\ p # Daemon => p \in Client
      /\ Index \in Port
  BY Distinct, Bounds DEF SigInv, TypeOK, Proc, Index, Port
<1>2. Runs(p) /\ stage[p] \in Searching /\ UNCHANGED server_type /\ (Locks(p) \/ Searches(p))
  BY Turns DEF SigInv, Elsewhere
<1>3. (Forks => p # Daemon) /\ (~Forks => p = Daemon)
  BY <1>1, <1>2 DEF FewInv, StillTheOther, OnlyItself, Searching
<1>4. Forks => \A a, b, c \in Client : a = b \/ b = c \/ a = c
  BY DEF FewContenders, SigInv, TypeOK, Forks
<1>5. CASE Locks(p)
  <2>1. /\ lock[Index] = NoOne /\ lock'[Index] = p /\ \A q \in Port : q # Index => lock'[q] = lock[q]
        /\ stage'[p] = "session" /\ \A o \in Proc : o # p => stage'[o] = stage[o]
        /\ seen' = seen
    BY <1>1, <1>5 DEF Locks
  <2>2. \A c \in Client : Past(c) => Past(c)'
    BY <1>1, <2>1 DEF Past
  <2>3. HoldersPast'
    BY <1>1, <2>1, <2>2 DEF FewInv, HoldersPast, Past
  <2>4. ASSUME Forks, NEW o \in Proc PROVE stage'[o] # "verify"
    <3> SUFFICES ASSUME stage'[o] = "verify" PROVE FALSE
      OBVIOUS
    <3>1. o # p /\ stage[o] = "verify" /\ o # Daemon
      BY <2>1, <2>4 DEF FewInv, StillTheOther
    <3>2. seen[o] \in Client /\ Past(seen[o])
      BY <2>4, <3>1 DEF FewInv, StillTheOther
    <3>3. o \in Client /\ p \in Client /\ seen[o] # o /\ seen[o] # p
      BY <1>1, <1>2, <1>3, <2>4, <3>1, <3>2 DEF Past, Searching, Proc
    <3> QED
      BY <1>4, <2>4, <3>1, <3>2, <3>3
  <2>5. StillTheOther'
    BY <1>1, <1>2, <1>3, <2>1, <2>4 DEF FewInv, StillTheOther, Forks
  <2>6. OnlyItself'
    BY <1>1, <1>2, <1>3, <2>1 DEF FewInv, OnlyItself, Forks
  <2> QED
    BY <2>3, <2>5, <2>6 DEF FewInv
<1>6. CASE Searches(p) /\ ~select_serial_port(p)
  <2>1. \E new \in {"search", "sleep"} : stage' = [stage EXCEPT ![p] = new]
    <3>1. ~Locks(p)
      BY <1>1, <1>6 DEF Locks, Searches, Searching
    <3>2. PortBusy(p) \/ RemoveStale(p)
      BY <1>6, <3>1 DEF Turn, OwnerFound, SecondLink, LinkRefused
    <3> QED
      BY <3>2 DEF PortBusy, RemoveStale
  <2>2. \A q \in Port : lock'[q] = lock[q] \/ lock'[q] = NoOne
    BY <1>1, <1>6 DEF Searches
  <2>3. \A o \in Proc : o # p => seen'[o] = seen[o]
    BY <1>1, <1>6 DEF Searches
  <2>4. stage[p] \notin {"none", "gone"} /\ ~Past(p)
    BY <1>2 DEF Past, Searching
  <2> QED
    BY <1>2, <2>1, <2>2, <2>3, <2>4, FewStage
<1>7. CASE select_serial_port(p) /\ ~Locks(p)
  <2>1. /\ lock[Index] # NoOne /\ lock' = lock
        /\ stage'[p] = "verify" /\ \A o \in Proc : o # p => stage'[o] = stage[o]
        /\ seen'[p] = lock[Index] /\ \A o \in Proc : o # p => seen'[o] = seen[o]
    BY <1>1, <1>7 DEF select_serial_port
  <2>2. \A c \in Client : Past(c) => Past(c)'
    BY <1>1, <1>2, <2>1 DEF Past, Searching
  <2>3. HoldersPast'
    BY <2>1, <2>2 DEF FewInv, HoldersPast
  <2>4. StillTheOther'
    <3> DEFINE Gone(o) == stage'[o] \in {"session", "zombie", "gone"}
    <3> SUFFICES ASSUME Forks
                 PROVE  /\ stage'[Daemon] \in {"none", "gone"} /\ \A q \in Port : lock'[q] # Daemon
                        /\ \A o \in Proc : stage'[o] = "verify" =>
                             /\ seen'[o] \in Client /\ Gone(seen'[o]) /\ lock'[Index] \in {seen'[o], NoOne}
      BY <1>2 DEF StillTheOther, Forks, Past
    <3>1. stage'[Daemon] \in {"none", "gone"} /\ \A q \in Port : lock'[q] # Daemon
      BY <1>1, <1>3, <2>1 DEF FewInv, StillTheOther
    <3>2. lock[Index] \in Client /\ Gone(lock[Index])
      BY <1>1, <2>1, <2>3, <3>1 DEF HoldersPast, Proc, Past
    <3>3. ASSUME NEW o \in Proc, stage'[o] = "verify"
          PROVE  seen'[o] \in Client /\ Gone(seen'[o]) /\ lock'[Index] \in {seen'[o], NoOne}
      <4>1. CASE o = p
        BY <2>1, <3>2, <4>1 DEF Past
      <4>2. CASE o # p
        <5>1. seen[o] \in Client /\ Past(seen[o]) /\ lock[Index] \in {seen[o], NoOne}
          BY <2>1, <3>3, <4>2 DEF FewInv, StillTheOther
        <5> QED
          BY <2>1, <2>2, <4>2, <5>1 DEF Past
      <4> QED
        BY <4>1, <4>2
    <3> QED
      BY <3>1, <3>3
  <2>5. OnlyItself'
    <3> SUFFICES ASSUME ~Forks
                 PROVE  /\ \A c \in Client : stage'[c] \in {"none", "gone"}
                        /\ \A q \in Port : lock'[q] \in {Daemon, NoOne}
                        /\ seen'[Daemon] = Daemon
      BY <1>2 DEF OnlyItself, Forks
    <3> QED
      BY <1>1, <1>3, <2>1 DEF FewInv, OnlyItself
  <2> QED
    BY <2>3, <2>4, <2>5 DEF FewInv
<1> QED
  BY <1>2, <1>5, <1>6, <1>7

LEMMA FewServe ==
  ASSUME FewContenders, SigInv, FewInv, NEW p \in Proc, Serve(p) \/ SessionEnds(p)
  PROVE  FewInv'
<1> USE DEF confVars, signalVars, poolVars, clientVars, worldVars
<1>1. lock \in [Port -> Proc \union {NoOne}] /\ stage[p] \notin {"none", "gone"}
  BY ServeRuns DEF SigInv, TypeOK, Searching
<1>2. ASSUME Finished(p), \A q \in Port : lock'[q] = lock[q] \/ lock'[q] = NoOne PROVE FewInv'
  <2>1. \E new \in {"none", "zombie", "gone"} :
          stage' = [stage EXCEPT ![p] = new] /\ (p # Daemon => new # "none")
    BY <1>2 DEF Finished, ChildEnds
  <2>2. UNCHANGED <<server_type, seen>>
    BY <1>2 DEF Finished, Closed, ChildEnds, Elsewhere
  <2> QED
    BY <1>1, <1>2, <2>1, <2>2, FewStage
<1>3. CASE handle_network_connection(p)
  <2>1. stage[p] = "young" /\ UNCHANGED <<server_type, lock, seen>>
    BY <1>3 DEF handle_network_connection
  <2>2. CASE \E new \in {"search", "zombie", "gone"} : stage' = [stage EXCEPT ![p] = new]
    BY <2>1, <2>2, FewStage DEF Past
  <2>3. CASE Down("exited", {})
    BY <2>1, <2>3, FewDown
  <2> QED
    BY <1>3, <2>2, <2>3 DEF handle_network_connection, ChildEnds
<1>4. CASE Turn(p)
  BY <1>4, FewTurn
<1>5. CASE OpenFails(p) \/ NoPort(p)
  BY <1>2, <1>5 DEF OpenFails, NoPort
<1>6. CASE SessionEnds(p)
  <2>1. \A q \in Port : Unlocked(p)[q] = lock[q] \/ Unlocked(p)[q] = NoOne
    BY DEF Unlocked
  <2>2. CASE Finished(p)
    <3>1. lock' = lock \/ lock' = Unlocked(p)
      BY <1>6, <2>2 DEF SessionEnds
    <3>2. \A q \in Port : lock'[q] = lock[q] \/ lock'[q] = NoOne
      BY <2>1, <3>1
    <3> QED
      BY <1>2, <2>2, <3>2
  <2>3. CASE Down("crashed", {}) /\ UNCHANGED <<server_type, lock, seen>>
    BY <2>3, FewDown
  <2> QED
    BY <1>6, <2>2, <2>3 DEF SessionEnds
<1> QED
  BY <1>3, <1>4, <1>5, <1>6, ServeParts

LEMMA FewHandler ==
  ASSUME SigInv, FewInv, Handler
  PROVE  FewInv'
<1> USE DEF confVars, signalVars, poolVars, clientVars, worldVars
<1>1. UNCHANGED <<server_type, lock, seen>>
  BY DEF Handler, program_clean_up, action_sigterm, serial_ip_init, action_sigchild, action_sigusr
<1>2. CASE UNCHANGED stage
  BY <1>1, <1>2, FewKept DEF FewInv, StillTheOther, OnlyItself, Past
<1>3. ASSUME NEW c \in Zombies, stage' = [stage EXCEPT ![c] = "gone"] PROVE FewInv'
  <2>1. c \in Proc /\ stage[c] = "zombie"
    BY <1>3 DEF Zombies, Proc
  <2> QED
    BY <1>1, <1>3, <2>1, FewStage
<1>4. ASSUME NEW how, NEW S \in SUBSET Client, Down(how, S) PROVE FewInv'
  BY <1>1, <1>4, FewDown
<1>5. CASE program_clean_up \/ serial_ip_init \/ action_sigusr
  BY <1>2, <1>4, <1>5 DEF program_clean_up, serial_ip_init, action_sigusr
<1>6. CASE action_sigterm
  BY <1>4, <1>6 DEF action_sigterm, KillGroup, Grown
<1>7. CASE action_sigchild
  BY <1>2, <1>3, <1>7 DEF action_sigchild
<1> QED
  BY <1>5, <1>6, <1>7 DEF Handler

LEMMA FewNext ==
  ASSUME FewContenders, SigInv, PoolInv, FewInv, [Next]_vars
  PROVE  FewInv'
<1> USE DEF confVars, signalVars, poolVars, clientVars, worldVars
<1>1. ASSUME UNCHANGED <<server_type, lock, seen, stage>> PROVE FewInv'
  BY <1>1, FewKept DEF FewInv, StillTheOther, OnlyItself, Past
<1>2. CASE UNCHANGED vars
  BY <1>1, <1>2 DEF vars
<1>3. CASE AcceptFails \/ RunAgain \/ (\E sig \in Signal : Deliver(sig)) \/ (\E sig \in Sent : Send(sig))
           \/ (\E c \in Client : Connect(c))
  BY <1>1, <1>3 DEF AcceptFails, RunAgain, Deliver, Send, Connect
<1>4. ASSUME NEW c \in Client, concurrent_server(c) \/ iterative_server(c) PROVE FewInv'
  <2>1. /\ UNCHANGED <<server_type, lock, seen>> /\ stage[c] = "none"
        /\ Daemon \in Proc /\ Client \subseteq Proc /\ Daemon \notin Client
        /\ stage \in [Proc -> {"none", "young", "search", "verify", "sleep", "session", "zombie", "gone"}]
    BY <1>4, Distinct DEF concurrent_server, iterative_server, Listening, PoolInv, Roles, SigInv, TypeOK, Proc
  <2>2. CASE UNCHANGED stage
    BY <1>1, <2>1, <2>2
  <2>3. CASE Forks /\ stage' = [stage EXCEPT ![c] = "young"]
    <3>1. stage'[c] = "young" /\ \A o \in Proc : o # c => stage'[o] = stage[o]
      BY <2>1, <2>3
    <3>2. \A d \in Client : Past(d) => Past(d)'
      BY <2>1, <3>1 DEF Past
    <3>3. stage'[Daemon] \in {"none", "gone"}
      BY <2>1, <2>3, <3>1 DEF FewInv, StillTheOther
    <3> QED
      BY <2>1, <2>3, <3>1, <3>2, <3>3, FewKept
  <2>4. CASE ~Forks /\ stage' = [stage EXCEPT ![Daemon] = "young"]
    <3>1. stage'[Daemon] = "young" /\ \A o \in Proc : o # Daemon => stage'[o] = stage[o]
      BY <2>1, <2>4
    <3>2. \A d \in Client : Past(d) => Past(d)'
      BY <2>1, <3>1 DEF Past
    <3>3. \A d \in Client : stage'[d] \in {"none", "gone"}
      BY <2>1, <2>4, <3>1 DEF FewInv, OnlyItself
    <3> QED
      BY <2>1, <2>4, <3>1, <3>2, <3>3, FewKept
  <2> QED
    BY <1>4, <2>2, <2>3, <2>4 DEF concurrent_server, iterative_server
<1>5. ASSUME NEW c \in Client, ChildKilled(c) PROVE FewInv'
  <2>1. /\ stage[c] \in {"session"} \union Searching /\ c \in Proc /\ UNCHANGED <<server_type, lock, seen>>
        /\ \E new \in {"zombie", "gone"} : stage' = [stage EXCEPT ![c] = new]
    BY <1>5 DEF ChildKilled, Grown, ChildEnds, Proc
  <2> QED
    BY <2>1, FewStage DEF Searching
<1>6. ASSUME NEW c \in Client, YoungChildTermed(c) PROVE FewInv'
  <2>1. /\ stage[c] = "young" /\ UNCHANGED <<server_type, lock, seen>>
        /\ \A p \in Proc : stage'[p] = stage[p] \/ (stage[p] = "young" /\ stage'[p] \in {"zombie", "gone"})
        /\ Daemon \in Proc /\ Client \subseteq Proc
    BY <1>6 DEF YoungChildTermed, Proc
  <2>2. Forks
    BY <2>1 DEF FewInv, OnlyItself
  <2>3. \A d \in Client : Past(d) => Past(d)'
    BY <2>1 DEF Past
  <2>4. stage'[Daemon] \in {"none", "gone"}
    BY <2>1, <2>2 DEF FewInv, StillTheOther
  <2> QED
    BY <2>1, <2>2, <2>3, <2>4, FewKept
<1> QED
  BY <1>2, <1>3, <1>4, <1>5, <1>6, FewServe, FewHandler DEF Next, Accept

LEMMA FewUnlinks == ASSUME FewInv PROVE UnlinksOnlyStale
<1> SUFFICES ASSUME NEW p \in Proc, RemoveStale(p) PROVE ~Alive(lock[Index])
  BY DEF UnlinksOnlyStale
<1>1. Runs(p) /\ stage[p] = "verify" /\ ~Alive(seen[p])
  BY DEF RemoveStale, OwnerGone
<1>2. CASE Forks
  <2>1. lock[Index] \in {seen[p], NoOne}
    BY <1>1, <1>2 DEF FewInv, StillTheOther
  <2> QED
    BY <1>1, <2>1, Distinct DEF Alive
<1>3. CASE ~Forks
  <2>1. p = Daemon /\ seen[Daemon] = Daemon
    BY <1>1, <1>3 DEF FewInv, OnlyItself, Proc
  <2> QED
    BY <1>1, <2>1 DEF Runs, Alive
<1> QED
  BY <1>2, <1>3

-----------------------------------------------------------------------------
(* Theorems *)

\* The variables of the server keep their types, and every signal action on the
\* stack is where its signal puts it: parent_signal_received() and the accept loops
\* run no action for a signal that nobody sent.
THEOREM ServerTypeCorrect == Spec => []TypeOK
<1>1. Spec => []SigInv
  BY SigInvInit, SigInvNext, PTL DEF Spec
<1> QED
  BY <1>1, PTL DEF SigInv

\* A child that ended, whatever the daemon was doing and whatever other signals
\* came with it, is collected by an action_sigchild() that is still to come.
THEOREM ChildrenAlwaysAnnounced == Spec => []ChildrenAnnounced
<1>1. Init => ChildrenAnnounced
  BY DEF Init, ChildrenAnnounced, Zombies, Proc
<1>2. SigInv /\ ChildrenAnnounced /\ [Next]_vars => (SigInv /\ ChildrenAnnounced)'
  BY SigInvNext, AnnouncedNext
<1> QED
  BY SigInvInit, <1>1, <1>2, PTL DEF Spec

\* The daemon uses what program_clean_up() freed only after a second SIGTERM or
\* SIGHUP, or after one in a server that serves in the daemon itself, however the
\* actions nest and however often a failing accept() runs them again.
THEOREM ReloadsAreSafe == Spec => []SafeReload
<1>1. Init => ReloadInv
  BY DEF Init, ReloadInv, SafeReload, OneAction
<1>2. Init => PoolInv
  BY Distinct DEF Init, PoolInv, Roles, HasSession, Proc
<1>3. SigInv /\ PoolInv /\ ReloadInv /\ [Next]_vars => (SigInv /\ PoolInv /\ ReloadInv)'
  BY SigInvNext, PoolNext, ReloadNext
<1>4. ReloadInv => SafeReload
  BY DEF ReloadInv
<1> QED
  BY SigInvInit, <1>1, <1>2, <1>3, <1>4, PTL DEF Spec

\* The server, with its children that are killed and not collected, its daemon that
\* dies under its children and its sessions that end with the port record freed, is a
\* mutual exclusion of the connections for the serial port, as long as every search
\* that removes a lock file removes the stale one: for any number of clients, all
\* that can break it is a lock made between the read of the pid in verify_device_lock_state()
\* and its unlink().
THEOREM ServerImplementsMutex == Spec /\ OnlyStaleRemoved => ServesOneAtATime
<1>1. Init => PoolInv
  BY Distinct DEF Init, PoolInv, Roles, HasSession, Proc
<1>2. SigInv /\ PoolInv /\ MutexInv /\ [Next]_vars /\ [UnlinksOnlyStale]_vars =>
        (SigInv /\ PoolInv /\ MutexInv)' /\ [Mutex!Next]_Attempt
  <2> SUFFICES ASSUME SigInv, PoolInv, MutexInv, [Next]_vars, [UnlinksOnlyStale]_vars
               PROVE  (SigInv /\ PoolInv /\ MutexInv)' /\ [Mutex!Next]_Attempt
    OBVIOUS
  <2>1. SigInv' /\ PoolInv'
    BY SigInvNext, PoolNext
  <2>2. MutexInv' /\ [Mutex!Next]_Attempt
    BY MutexNext
  <2> QED
    BY <2>1, <2>2
<1>3. Spec /\ OnlyStaleRemoved => Mutex!Spec
  BY SigInvInit, MutexInit, <1>1, <1>2, PTL DEF Spec, OnlyStaleRemoved, Mutex!Spec
<1> QED
  BY <1>3 DEF ServesOneAtATime

\* With two clients at most, or with a daemon that serves them itself, no search ever
\* removes a lock file that names a process that lives.
THEOREM FewUnlinkOnlyStale ==
  ASSUME FewContenders
  PROVE  Spec => OnlyStaleRemoved
<1>1. Init => PoolInv
  BY Distinct DEF Init, PoolInv, Roles, HasSession, Proc
<1>2. Init => FewInv
  BY Distinct DEF Init, FewInv, HoldersPast, StillTheOther, OnlyItself, Proc
<1>3. SigInv /\ PoolInv /\ FewInv /\ [Next]_vars => (SigInv /\ PoolInv /\ FewInv)'
  BY SigInvNext, PoolNext, FewNext
<1>4. FewInv => UnlinksOnlyStale
  BY FewUnlinks
<1> QED
  BY SigInvInit, <1>1, <1>2, <1>3, <1>4, PTL DEF Spec, OnlyStaleRemoved

\* With two clients at most, or with a daemon that serves them itself, the server is
\* a mutual exclusion without any condition.  With three connections it is none, for
\* what the run lock_three shows.
THEOREM FewImplementMutex ==
  ASSUME FewContenders
  PROVE  Spec => ServesOneAtATime
  BY ServerImplementsMutex, FewUnlinkOnlyStale, PTL

\* Through every end of a session, every kill, every reload and every failure to
\* open a device, ports and sessions match as PortsMatchSessions says, under the
\* same condition.
THEOREM PortsAlwaysMatch == Spec /\ OnlyStaleRemoved => []PortsMatchSessions
<1>1. Init => PoolInv
  BY Distinct DEF Init, PoolInv, Roles, HasSession, Proc
<1>2. SigInv /\ PoolInv /\ MutexInv /\ [Next]_vars /\ [UnlinksOnlyStale]_vars =>
        (SigInv /\ PoolInv /\ MutexInv)'
  <2> SUFFICES ASSUME SigInv, PoolInv, MutexInv, [Next]_vars, [UnlinksOnlyStale]_vars
               PROVE  (SigInv /\ PoolInv /\ MutexInv)'
    OBVIOUS
  <2>1. SigInv' /\ PoolInv'
    BY SigInvNext, PoolNext
  <2>2. MutexInv'
    BY MutexNext
  <2> QED
    BY <2>1, <2>2
<1>3. PoolInv /\ MutexInv => PortsMatchSessions
  <2>1. Index \in Port
    BY Bounds DEF Index, Port
  <2> QED
    BY <2>1 DEF PoolInv, HasSession, MutexInv, SessionLocks, PortsMatchSessions
<1>4. Init => MutexInv
  BY MutexInit
<1> QED
  BY SigInvInit, <1>1, <1>2, <1>3, <1>4, PTL DEF Spec, OnlyStaleRemoved

\* Two clients at most, or a daemon that serves them itself: ports and sessions match.
THEOREM FewMatch ==
  ASSUME FewContenders
  PROVE  Spec => []PortsMatchSessions
  BY PortsAlwaysMatch, FewUnlinkOnlyStale, PTL
=============================================================================
