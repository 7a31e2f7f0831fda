------------------------------- MODULE Server -------------------------------
(***************************************************************************)
(* The daemon and the processes it forks: the three accept loops, what     *)
(* parent_signal_received() does at each signal, the allocation of a port  *)
(* of the pool to a connection, and its return.                            *)
(*                                                                         *)
(* The signal actions run in the handler itself, and once more from the    *)
(* accept loop whenever accept() fails.  A handler blocks its own signal   *)
(* and no other, so the actions nest: "frames" is the stack of them.  What *)
(* a session does is the business of Session.  A lock file is taken with   *)
(* the links, the look at its owner and the unlink that lie between two    *)
(* steps of others; the calls that go wrong, and how long they and the     *)
(* sleep take, are UucpLock's.                                             *)
(***************************************************************************)
EXTENDS Integers, Sequences

CONSTANTS
  Client,       \* the connections
  Daemon,       \* the process that listens; a child is named after its client
  NoOne,        \* what a lock names that does not exist
  NumPorts,     \* conf.number_ports
  ServerTypes,  \* the values of conf.server_type to start with
  MaxLevel,     \* DBG_LV9, the highest debug level
  MaxSignals,   \* bound of the model: signals sent to the daemon or a child
  MaxFailures   \* bound of the model: failures of accept() that no signal caused

Proc == Client \union {Daemon}
Port == 0 .. NumPorts - 1
Urgent == {"SIGTERM", "SIGHUP"}
Sent == Urgent \union {"SIGUSR1", "SIGUSR2"}
Signal == Sent \union {"SIGCHLD"}

ASSUME ServerAssumption ==
  /\ Daemon \notin Client /\ NoOne \notin Proc \union Signal
  /\ NumPorts \in Nat \ {0}
  /\ ServerTypes \subseteq {"concurrent", "iterative", "raw TCP gateway"}
  /\ MaxLevel \in Nat /\ MaxSignals \in Nat /\ MaxFailures \in Nat

VARIABLES
  server_type, \* conf.server_type, which selects the accept loop
  status,      \* the daemon: "up", or how it ended
  pc,          \* where its accept loop is
  frames,      \* the signal actions being run on top of it, the innermost first
  pending,     \* the signals it still has to receive
  signo,       \* the last signal acted on; nothing ever clears it
  conf,        \* is the configuration loaded, or freed?
  level,       \* the debug level
  stale,       \* was the port record of the daemon's own session freed?
  stage,       \* of each process, how far it is with its client
  busy,        \* of each process, the ports select_serial_port found busy
  seen,        \* of each process, the owner it read from a lock file
  lock,        \* of each port, the process that its lock file names
  conn,        \* of each client, what became of its connection
  current,     \* the client that a daemon that does not fork serves
  urgent,      \* history: how many SIGTERM and SIGHUP were sent
  signals,     \* how many signals were sent
  failures     \* how often accept() failed by itself

signalVars == <<pending, signo, level>>
confVars == <<conf, stale>>
clientVars == <<conn, current>>
poolVars == <<busy, seen, lock>>
worldVars == <<urgent, signals, failures>>
vars == <<server_type, status, pc, frames, signalVars, confVars, stage, poolVars, clientVars, worldVars>>

Forks == server_type = "concurrent"

Init ==
  /\ server_type \in ServerTypes
  /\ status = "up" /\ pc = "accept" /\ frames = <<>>
  /\ pending = {} /\ signo = NoOne /\ level = 0
  /\ conf = "loaded" /\ stale = FALSE
  /\ stage = [p \in Proc |-> "none"] /\ busy = [p \in Proc |-> {}]
  /\ seen = [p \in Proc |-> NoOne] /\ lock = [q \in Port |-> NoOne]
  /\ conn = [c \in Client |-> "out"] /\ current = NoOne
  /\ urgent = 0 /\ signals = 0 /\ failures = 0

-----------------------------------------------------------------------------
(* Ends of processes *)

\* The daemon is gone: what is left of its children is init's to collect, or
\* was told to go as well.
Down(how, survivors) ==
  /\ status' = how
  /\ frames' = <<>> /\ pending' = {}
  /\ stage' = [p \in Proc |-> IF p \in survivors /\ stage[p] # "zombie" THEN stage[p] ELSE "gone"]

Searching == {"search", "verify", "sleep"}

\* Past reset_signals() a child notes a signal, and dies of it when it next looks.
Grown == {c \in Client : stage[c] \in Searching \union {"session"}}

\* kill(0,SIGTERM): the whole process group, by a handler that sets SIG_DFL.
KillGroup == Down("terminated", Grown)

\* A child ends; the daemon, while there is one, has to collect it.
ChildEnds(c) ==
  /\ stage' = [stage EXCEPT ![c] = IF status = "up" THEN "zombie" ELSE "gone"]
  /\ pending' = IF status = "up" THEN pending \union {"SIGCHLD"} ELSE pending

ClientOf(p) == IF p = Daemon THEN current ELSE p
Closed(p) == conn' = [conn EXCEPT ![ClientOf(p)] = "closed"]

\* handle_network_connection is over: a child exits, the daemon listens again.
Finished(p) ==
  /\ Closed(p)
  /\ IF p = Daemon
     THEN /\ stage' = [stage EXCEPT ![p] = "none"]
          /\ pc' = "accept" /\ current' = NoOne
          /\ UNCHANGED pending
     ELSE ChildEnds(p) /\ UNCHANGED <<pc, current>>
  /\ UNCHANGED <<server_type, status, frames, signo, level, confVars, busy, seen, worldVars>>

-----------------------------------------------------------------------------
(* The accept loops *)

Listening == status = "up" /\ pc = "accept" /\ frames = <<>>

\* A child for each connection; without one the connection is just closed.
concurrent_server(c) ==
  /\ Listening /\ Forks /\ conn[c] = "queued"
  /\ \/ /\ stage' = [stage EXCEPT ![c] = "young"]
        /\ conn' = [conn EXCEPT ![c] = "accepted"]
     \/ Closed(c) /\ UNCHANGED stage
  /\ UNCHANGED <<server_type, status, pc, frames, signalVars, confVars, poolVars, current, worldVars>>

\* One connection after the other, in the daemon itself; raw_TCP_gateway's loop
\* is the same.
iterative_server(c) ==
  /\ Listening /\ ~Forks /\ conn[c] = "queued"
  /\ pc' = "serving" /\ current' = c
  /\ stage' = [stage EXCEPT ![Daemon] = "young"]
  /\ conn' = [conn EXCEPT ![c] = "accepted"]
  /\ UNCHANGED <<server_type, status, frames, signalVars, confVars, poolVars, worldVars>>

AcceptFails ==
  /\ Listening /\ failures < MaxFailures
  /\ failures' = failures + 1
  /\ pc' = "failed"
  /\ UNCHANGED <<server_type, status, frames, signalVars, confVars, stage, poolVars, clientVars, urgent, signals>>

Entry(sig) ==
  CASE sig \in Urgent -> "clean" [] sig = "SIGCHLD" -> "wait" [] OTHER -> "level"

\* After every failure the action of the last signal is run again.
RunAgain ==
  /\ status = "up" /\ pc = "failed" /\ frames = <<>>
  /\ IF signo = NoOne
     THEN pc' = "accept" /\ UNCHANGED frames
     ELSE /\ pc' = "calling"
          /\ frames' = <<[sig |-> signo, at |-> Entry(signo), handler |-> FALSE]>>
  /\ UNCHANGED <<server_type, status, signalVars, confVars, stage, poolVars, clientVars, worldVars>>

-----------------------------------------------------------------------------
(* parent_signal_received *)

\* A signal is delivered between any two steps, unless its handler is running.
Deliver(sig) ==
  /\ status = "up" /\ sig \in pending
  /\ \A i \in 1..Len(frames) : frames[i].handler => frames[i].sig # sig
  /\ pending' = pending \ {sig}
  /\ frames' = <<[sig |-> sig, at |-> Entry(sig), handler |-> TRUE]>> \o frames
  /\ UNCHANGED <<server_type, status, pc, signo, level, confVars, stage, poolVars, clientVars, worldVars>>

Top == Head(frames)
At(place) == status = "up" /\ frames # <<>> /\ Top.at = place

\* The signal is noted, and what was interrupted goes on: accept() has failed,
\* unless the signal came just before the call.
Return ==
  /\ signo' = Top.sig
  /\ frames' = Tail(frames)
  /\ \/ Len(frames) = 1 /\ ~Top.handler /\ pc' = "accept"
     \/ Len(frames) = 1 /\ Top.handler /\ pc = "accept" /\ pc' = "failed"
     \/ (Len(frames) > 1 \/ Top.handler) /\ pc' = pc

\* Frees the configuration and the port records; the pointers to them stay, and
\* to free what is freed is undefined: the daemon aborts, or it goes on.
program_clean_up ==
  /\ At("clean")
  /\ \/ /\ conf = "freed"
        /\ Down("crashed", Client) /\ UNCHANGED confVars
     \/ /\ conf' = "freed"
        /\ stale' = (stale \/ stage[Daemon] = "session")
        /\ frames' = [frames EXCEPT ![1].at = IF Top.sig = "SIGHUP" THEN "init" ELSE "kill"]
        /\ UNCHANGED <<status, pending, stage>>
  /\ UNCHANGED <<server_type, pc, signo, level, poolVars, clientVars, worldVars>>

action_sigterm ==
  /\ At("kill")
  /\ KillGroup
  /\ UNCHANGED <<server_type, pc, signo, level, confVars, poolVars, clientVars, worldVars>>

\* A reload that does not read the file again.
ForgetInit ==
  /\ At("init")
  /\ \/ Return /\ UNCHANGED <<status, pending, stage>>
     \/ Down("exited", Client) /\ UNCHANGED <<pc, signo>>
  /\ UNCHANGED <<server_type, level, confVars, poolVars, clientVars, worldVars>>

\* action_sighup reads the file again; one that is not sane ends the daemon.
serial_ip_init ==
  /\ At("init")
  /\ \/ conf' = "loaded" /\ Return /\ UNCHANGED <<status, pending, stage>>
     \/ Down("exited", Client) /\ UNCHANGED <<conf, pc, signo>>
  /\ UNCHANGED <<server_type, level, stale, poolVars, clientVars, worldVars>>

Zombies == {c \in Client : stage[c] = "zombie"}
Children == {c \in Client : stage[c] \notin {"none", "gone"}}

\* Only the first child is collected.
CollectOne ==
  /\ At("wait") \/ At("again")
  /\ \/ \E c \in Zombies : stage' = [stage EXCEPT ![c] = "gone"] /\ Return
     \/ Zombies = {} /\ Return /\ UNCHANGED stage
  /\ UNCHANGED <<server_type, status, pending, level, confVars, poolVars, clientVars, worldVars>>

\* waitpid() until it has no child to report, twice and a second apart if there
\* are children still.
action_sigchild ==
  /\ At("wait") \/ At("again")
  /\ \/ /\ \E c \in Zombies : stage' = [stage EXCEPT ![c] = "gone"]
        /\ frames' = [frames EXCEPT ![1].at = "wait"]
        /\ UNCHANGED <<pc, signo>>
     \/ /\ Zombies = {} /\ Children # {} /\ At("wait")
        /\ frames' = [frames EXCEPT ![1].at = "again"]
        /\ UNCHANGED <<pc, signo, stage>>
     \/ /\ Zombies = {} /\ (Children = {} \/ At("again"))
        /\ Return /\ UNCHANGED stage
  /\ UNCHANGED <<server_type, status, pending, level, confVars, poolVars, clientVars, worldVars>>

\* action_sigusr1 and action_sigusr2.
action_sigusr ==
  /\ At("level")
  /\ level' = CASE Top.sig = "SIGUSR1" /\ level < MaxLevel -> level + 1
                [] Top.sig = "SIGUSR2" /\ level > 0 -> level - 1
                [] OTHER -> level
  /\ Return
  /\ UNCHANGED <<server_type, status, pending, confVars, stage, poolVars, clientVars, worldVars>>

Handler ==
  program_clean_up \/ action_sigterm \/ serial_ip_init \/ action_sigchild \/ action_sigusr

-----------------------------------------------------------------------------
(* A connection, in the child or in the daemon *)

\* No process runs on while a signal action runs on top of it.
Runs(p) == p = Daemon => status = "up" /\ pc = "serving" /\ frames = <<>>

\* The process becomes the user of the configuration, or exits.
handle_network_connection(p) ==
  /\ Runs(p) /\ stage[p] = "young"
  /\ \/ /\ stage' = [stage EXCEPT ![p] = "search"]
        /\ busy' = [busy EXCEPT ![p] = {}]
        /\ UNCHANGED <<status, pending, frames, conn>>
     \/ /\ Closed(p)
        /\ IF p = Daemon THEN Down("exited", {}) ELSE ChildEnds(p) /\ UNCHANGED <<status, frames>>
        /\ UNCHANGED busy
  /\ UNCHANGED <<server_type, pc, signo, level, confVars, seen, lock, current, worldVars>>

\* kill(pid, 0) finds a child that nobody collected yet.
Alive(p) == IF p = Daemon THEN status = "up" ELSE p # NoOne /\ stage[p] \notin {"none", "gone"}

\* A look that takes any child for a process that is gone.
GoneIfChild(p) == seen[p] \notin Client => ~Alive(seen[p])

OwnerGone(p) == ~Alive(seen[p])

\* The index that the search tries; it is not random any more.
Index == 0

\* A search that marks nothing.
PortForgotten(p) ==
  /\ stage' = [stage EXCEPT ![p] = "search"]
  /\ seen' = [seen EXCEPT ![p] = NoOne]
  /\ UNCHANGED <<busy, lock, conn, stale>>

\* create_uucp_lockfile returns NULL: the port is marked busy.
PortBusy(p) ==
  /\ busy' = [busy EXCEPT ![p] = @ \union {Index}]
  /\ stage' = [stage EXCEPT ![p] = "search"]
  /\ seen' = [seen EXCEPT ![p] = NoOne]
  /\ UNCHANGED <<lock, conn, stale>>

\* link() makes the lock file, and the look that follows finds it unchanged.
Locks(p) ==
  /\ lock[Index] = NoOne
  /\ lock' = [lock EXCEPT ![Index] = p]
  /\ stage' = [stage EXCEPT ![p] = "session"]
  /\ conn' = [conn EXCEPT ![ClientOf(p)] = "served"]
  /\ stale' = IF p = Daemon THEN FALSE ELSE stale
  /\ UNCHANGED <<busy, seen>>

Elsewhere == UNCHANGED <<server_type, status, pc, frames, signalVars, conf, current, worldVars>>

\* One turn of the search: the port is locked, or the pid in its lock file is read.
\* A busy port is skipped without a step, so that with a second port the search
\* never ends.
select_serial_port(p) ==
  /\ Runs(p) /\ stage[p] = "search" /\ Index \notin busy[p]
  /\ \/ Locks(p)
     \/ /\ lock[Index] # NoOne
        /\ stage' = [stage EXCEPT ![p] = "verify"]
        /\ seen' = [seen EXCEPT ![p] = lock[Index]]
        /\ UNCHANGED <<busy, lock, conn, stale>>
  /\ Elsewhere

\* The owner that was read lives.
OwnerFound(p) ==
  /\ Runs(p) /\ stage[p] = "verify" /\ ~OwnerGone(p)
  /\ PortBusy(p)
  /\ Elsewhere

\* It does not, and the lock file is removed, whosever it is by now.
RemoveStale(p) ==
  /\ Runs(p) /\ stage[p] = "verify" /\ OwnerGone(p)
  /\ lock' = [lock EXCEPT ![Index] = NoOne]
  /\ stage' = [stage EXCEPT ![p] = "sleep"]
  /\ seen' = [seen EXCEPT ![p] = NoOne]
  /\ UNCHANGED <<busy, conn, stale>>
  /\ Elsewhere

\* link() once more, after a sleep of any length.
SecondLink(p) ==
  /\ Runs(p) /\ stage[p] = "sleep"
  /\ Locks(p) \/ (lock[Index] # NoOne /\ PortBusy(p))
  /\ Elsewhere

\* The temporary file is not written, link() is refused, or the lock file that was
\* in its way is gone when it is to be read.
LinkRefused(p) ==
  /\ Runs(p) /\ stage[p] \in {"search", "sleep"} /\ Index \notin busy[p]
  /\ PortBusy(p)
  /\ Elsewhere

\* The port is locked, but its device does not open: the lock is given back.
OpenFails(p) ==
  /\ Runs(p) /\ stage[p] \in {"search", "sleep"} /\ Index \notin busy[p] /\ lock[Index] = NoOne
  /\ Finished(p)
  /\ UNCHANGED lock

\* Every port is busy: the client is not served.
NoPort(p) ==
  /\ Runs(p) /\ stage[p] = "search" /\ busy[p] = Port
  /\ Finished(p)
  /\ UNCHANGED lock

Unlocked(p) == [q \in Port |-> IF lock[q] = p THEN NoOne ELSE lock[q]]

\* The port is not given back.
KeepsLock(p) ==
  /\ Runs(p) /\ stage[p] = "session"
  /\ Finished(p) /\ UNCHANGED lock

\* The session is over and its port released, unless a reload freed the record
\* of the port: then any of three things happens.
SessionEnds(p) ==
  /\ Runs(p) /\ stage[p] = "session"
  /\ \/ lock' = Unlocked(p) /\ Finished(p)
     \/ p = Daemon /\ stale /\ UNCHANGED lock /\ Finished(p)
     \/ /\ p = Daemon /\ stale
        /\ Down("crashed", {}) /\ Closed(p)
        /\ UNCHANGED <<server_type, pc, signo, level, confVars, poolVars, current, worldVars>>

\* A child that is killed releases nothing.
ChildKilled(c) ==
  /\ c \in Grown
  /\ ChildEnds(c)
  /\ conn' = [conn EXCEPT ![c] = "cut"]
  /\ UNCHANGED <<server_type, status, pc, frames, signo, level, confVars, poolVars, current, worldVars>>

\* Until reset_signals() a child has the handlers of the daemon: a SIGTERM to it
\* alone is passed on to the whole process group, and ends whoever is as young.
YoungChildTermed(c) ==
  /\ stage[c] = "young" /\ signals < MaxSignals
  /\ signals' = signals + 1
  /\ stage' = [p \in Proc |-> IF stage[p] # "young" THEN stage[p]
                            ELSE IF status = "up" THEN "zombie" ELSE "gone"]
  /\ conn' = [d \in Client |-> IF stage[d] = "young" THEN "cut" ELSE conn[d]]
  /\ IF status = "up"
     THEN pending' = pending \union {"SIGTERM", "SIGCHLD"} /\ urgent' = urgent + 1
     ELSE UNCHANGED <<pending, urgent>>
  /\ UNCHANGED <<server_type, status, frames, pc, signo, level, confVars, poolVars, current, failures>>

-----------------------------------------------------------------------------
(* The world *)

Connect(c) ==
  /\ conn[c] = "out"
  /\ conn' = [conn EXCEPT ![c] = "queued"]
  /\ UNCHANGED <<server_type, status, pc, frames, signalVars, confVars, stage, poolVars, current, worldVars>>

Send(sig) ==
  /\ status = "up" /\ signals < MaxSignals
  /\ signals' = signals + 1
  /\ urgent' = IF sig \in Urgent THEN urgent + 1 ELSE urgent
  /\ pending' = pending \union {sig}
  /\ UNCHANGED <<server_type, status, pc, frames, signo, level, confVars, stage, poolVars, clientVars, failures>>

Accept == \E c \in Client : concurrent_server(c) \/ iterative_server(c)
Serve(p) ==
  \/ handle_network_connection(p) \/ select_serial_port(p) \/ OwnerFound(p) \/ RemoveStale(p)
  \/ SecondLink(p) \/ LinkRefused(p) \/ OpenFails(p) \/ NoPort(p)

Next ==
  \/ Accept \/ AcceptFails \/ RunAgain \/ Handler
  \/ \E sig \in Signal : Deliver(sig)
  \/ \E p \in Proc : Serve(p) \/ SessionEnds(p)
  \/ \E c \in Client : ChildKilled(c) \/ YoungChildTermed(c) \/ Connect(c)
  \/ \E sig \in Sent : Send(sig)

\* Processes that can run do, signals are delivered, and the listening daemon
\* takes connections.  Nobody makes a session end.
Fairness ==
  /\ WF_vars(Accept) /\ WF_vars(RunAgain) /\ WF_vars(Handler)
  /\ \A sig \in Signal : WF_vars(Deliver(sig))
  /\ \A p \in Proc : WF_vars(Serve(p))

Spec == Init /\ [][Next]_vars /\ Fairness

-----------------------------------------------------------------------------
(* Properties *)

Frame == [sig : Signal, at : {"clean", "init", "kill", "wait", "again", "level"}, handler : BOOLEAN]

\* The values that the variables take.
TypeOK ==
  /\ server_type \in ServerTypes
  /\ status \in {"up", "terminated", "exited", "crashed"}
  /\ pc \in {"accept", "failed", "calling", "serving"}
  /\ frames \in Seq(Frame)
  /\ pending \subseteq Signal /\ signo \in Signal \union {NoOne} /\ level \in 0 .. MaxLevel
  /\ conf \in {"loaded", "freed"} /\ stale \in BOOLEAN
  /\ stage \in [Proc -> {"none", "young", "search", "verify", "sleep", "session", "zombie", "gone"}]
  /\ seen \in [Proc -> Proc \union {NoOne}]
  /\ busy \in [Proc -> SUBSET Port] /\ lock \in [Port -> Proc \union {NoOne}]
  /\ conn \in [Client -> {"out", "queued", "accepted", "served", "closed", "cut"}]
  /\ current \in Client \union {NoOne}
  /\ urgent \in Nat /\ signals \in Nat /\ failures \in Nat

\* Children that end close to each other, while the daemon collects another or
\* runs the action of another signal, are announced by one SIGCHLD: as long as
\* one is not collected, a SIGCHLD is pending or its action is being run.
ChildrenAnnounced ==
  status = "up" /\ Zombies # {} =>
    \/ "SIGCHLD" \in pending
    \/ \E i \in 1..Len(frames) : frames[i].sig = "SIGCHLD"

\* Whatever ends a connection, and however a process stopped looking for a port:
\* whoever is in a session holds a port, and a port is held by a process in a
\* session, by a child that was killed, or by the daemon that lost the record of
\* it in a reload.
PortsMatchSessions ==
  status = "up" =>
    /\ \A p \in Proc : stage[p] = "session" /\ ~(p = Daemon /\ stale) => \E q \in Port : lock[q] = p
    /\ \A q \in Port : lock[q] # NoOne =>
         \/ stage[lock[q]] = "session"
         \/ lock[q] \in Client /\ conn[lock[q]] = "cut"
         \/ lock[q] = Daemon /\ urgent > 0

\* The lock file that a search removes still names a process that is gone, and not
\* one that has locked the port since the search read the pid.
UnlinksOnlyStale == \A p \in Proc : RemoveStale(p) => ~Alive(lock[Index])

\* "remove stale lock": what a search removes is a stale lock.
OnlyStaleRemoved == [][UnlinksOnlyStale]_vars

\* The actions of SIGTERM and SIGHUP free everything and leave the pointers, run
\* on top of each other and are run again after any failure of accept(): still,
\* only a second such signal, or one during a session of the daemon's own, makes
\* the daemon use what it has freed.
SafeReload ==
  status = "crashed" => urgent >= 2 \/ (~Forks /\ urgent >= 1)

\* What became of the connection's attempt to have the serial port: no process has
\* decided it yet, a process serves it there, or it is over.
AttemptOf(c) ==
  IF conn[c] \in {"out", "queued", "accepted"} THEN "asking"
  ELSE IF \E p \in Proc : stage[p] = "session" /\ ClientOf(p) = c THEN "using" ELSE "gone"

Attempt == [c \in Client |-> AttemptOf(c)]

Mutex == INSTANCE PortMutex WITH Proc <- Client, status <- Attempt

\* Whatever ends a process, kills a child or takes the daemon or its whole group
\* down, also with sessions left behind that nobody collects: the connections have
\* the serial port one at a time, and what one has lost it never has again.
ServesOneAtATime == Mutex!Spec

\* A connection that the daemon has taken, or that waits for a daemon that forks,
\* is served or closed, whatever signals come, as long as the daemon runs.  (With
\* one port: see select_serial_port.)
EveryClientAnswered ==
  \A c \in Client :
    conn[c] = "accepted" \/ (Forks /\ conn[c] = "queued")
      ~> conn[c] \in {"served", "closed", "cut"} \/ status # "up"
=============================================================================
