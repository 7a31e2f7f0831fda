# serial-ip in TLA+

serial-ip is a daemon for a small board (Sabre Lite) that makes an RS232 port
available over TCP. A client connects with telnet and the Com Port Control
option (RFC 2217), or with a bare TCP connection; the daemon relays bytes
between the socket and the serial device. This directory models the program in
TLA+, checks the models with TLC and proves theorems about them with TLAPS.
Line numbers below refer to the files in `src/`.

## 1. Inventory

| Component | Files | State | Operations | Interacts with |
|---|---|---|---|---|
| Buffers | `buffer_handle.c`, `struct buffer_t` in `serial_ip.h` | `buffp`, `readp`, `writep`, `nbuffered`, `eof` | allocate, rewind, append, insert, remove, search, read into, write from | both data paths, negotiation |
| Serial to network | `network_controller.c`, `escape_iac_chars` in `telnet.c` | `serial_to_socket_buf` | read the device, double every IAC, write the socket | buffers, session |
| Network to serial | `network_controller.c`, `process_telnet_options` in `telnet.c` | `socket_to_serial_buf`, the scan's `iac` and `size` | read the socket, act on and remove telnet commands, write the device | buffers, negotiation, session |
| Option negotiation | `telnet.c` | `tnoptions[]`, `tnmode[]`, `client_logged_in`, `sabre_to_socket_buf` | initial offers, answers, "send once" | network to serial (calls it), session (logout) |
| Com Port Control | `telnet.c` 39-457 | none of its own: termios of the device | get and set baud rate, data size, parity, stop size; purge; signature | serial line settings |
| Session | `serial_ip_communication_process` in `network_handle.c`, `serial_cleanup` | loop flags, idle count, `signo_child` | `select()` loop, idle timer, end of file, pending signals, clean up | everything above, device lock |
| Device lock | `pidfile_handle.c` | the UUCP lock file, shared by all processes | create, verify, take over a stale lock, release | port pool, session |
| Port pool | `select_serial_port`, `add_serial_port_info` ... in `serial_handle.c` | `conf.serial_port[]`, `busy` flags | choose and lock a port, release it | device lock, configuration |
| Servers | `network_handle.c` 243-413, `main` | listening socket, children | accept, fork, serve (concurrent, iterative, raw) | session, parent signals |
| Parent signals | `signal_handle.c` | `signo` | collect children, reload on SIGHUP, terminate, change the debug level | servers, configuration |
| Child signals | `signal_handle.c` 20-103 | `signo_child` | note a signal, act on it later | session |
| Serial line settings | `configuration.c` 19-118, `serial_handle.c` 87-326, `utilities.c` 308-501 | termios of the device | translate speed, size, parity, stop bits | Com Port Control |
| Raw gateway | `raw.c` | a message buffer | relay without telnet | session loop |
| Configuration | `configuration.c`, `utilities.c` | `conf`, keyword table | parse, check, default | all |
| Start and logs | `mydaemon.c`, `serial_ip.c`, `debug_handle.c`, `systemlog_handle.c`, `escape_sequence_handle.c` | file descriptors, log level | daemonise, options, logging, C escapes | none |

What is hard in each, and what makes it correct:

* **Buffers.** Two pointers and a count that must agree after any series of
  partial reads, partial writes, insertions and removals; the code has branches
  for a circular buffer that would be wrong if they were ever taken.
* **Serial to network.** A write that a signal interrupts leaves bytes behind
  that have been escaped already. Correct: the client decodes exactly what the
  device sent.
* **Network to serial.** TCP cuts the stream anywhere; the scan removes bytes
  from the buffer it walks. Correct: the device gets the data bytes and nothing
  else, every command is acted on once, the scan stays inside the buffer and ends.
* **Negotiation.** Offers, requests and answers cross on the wire, answers are
  sent once per session. Correct: no loop, no unanswered request, both ends
  agree when nothing is in flight, and the transfer mode follows the option.
* **Session.** `select()`, a device read that blocks, an idle timer, signals at
  any point. Correct: it ends when a side closes, logs out or is idle, not
  earlier; relays what it still owes; gives the port back.
* **Device lock.** Processes that race over a file that a dead process left,
  with nothing but `link()`, `unlink()` and a sleep. Correct: one user per port,
  who owns the file; no orphan; somebody gets the port.
* **Servers and parent signals.** Handlers run at any time, on top of each other
  and, once more, from the accept loop; a reload frees records that a session may
  use. Correct: every child is collected, every connection that was taken is
  served or closed, and one reload does no harm.
* **Port pool.** A lock outlives whoever took it if any exit forgets it; a child
  that nobody waited for still counts as alive. Correct: ports are held by
  sessions; the search ends when every port is busy.
* **Line settings.** Each change reads the flags and writes them back, and the line
  is left in any state. Correct: a session starts with what the file says, and a
  client that sets one thing changes one thing and reads back what it set.
* **Raw gateway.** One frame for each read, wherever TCP cuts, one byte longer than
  what was read, also at the end of file. Correct: every byte once and in order,
  and the session ends with its client.
* **Configuration.** Lines are applied to whatever port is current. Correct: a
  port gets what is written under it, or above the first one, and what is accepted
  is something that a session can run with.

## 2. Plan

The order follows the weight of the behaviour: the bytes first, then the
conversation about them, then who may use the port, then the process around it.

| Step | Module | Built on | Status |
|---|---|---|---|
| 1 | `TelnetCodes`, `Buffer` | | done |
| 2 | `SerialToSocket` | `Buffer` | done, proofs |
| 3 | `SocketToSerial` | `Buffer` | done, proofs |
| 4 | `Negotiation`, `NegotiationClient` | `Buffer`; the client extends the server's module | done, proofs |
| 5 | `PortMutex`, `UucpLock` | `UucpLock` refines `PortMutex` | done, proofs |
| 6 | `PortSession`, `Session` | `Session` refines `PortSession` | done, proofs |
| 7 | `Server`: accept loops, children, signal actions, port pool | refines `PortMutex` for its clients; its children's ends are those of `PortSession` | done, proofs |
| 8 | `Configuration`: the file, line by line, and `sane_config` | | done, proofs (with 9) |
| 9 | `SerialLine`: termios flags and the Com Port values | extends `Configuration` | done, proofs |
| 10 | `RawGateway`: `raw.c` and the raw mode of the loop | the loop of `Session` | done, proofs (in `SessionProofs`) |

Abstract specifications: the port as a mutual exclusion (`PortMutex`), implemented by
`UucpLock` for the processes that contend for a lock file and by `Server` for the
connections; a session as open, closing, ended or killed (`PortSession`), implemented
by `Session`. Left for later: two ports in `Server` (see section 7).

## 3. Modules and code

`Buffer` has no state of its own: each C function is an operator from a
buffer record to a buffer record. Pointers are offsets from `buffp`; `mem` is
what has been stored since the last `bfinit()`, so that a byte past it reads as
NUL, as in the zeroed memory of the program.

`SerialToSocket` is one pass of `read_serial()` and `write_socket()` as two
steps. `ReadSerial` is a whole `read_serial()` that got bytes, with the escape;
`ReadNothing` an interrupted one, or one with a full buffer; `ReadFails` an end
of file or an error; `WriteSocket` one `write()`, which moves all it was offered
unless a signal interrupts it. `received` and `wire` record what went in and out,
`cut` whether a write was cut short.

`SocketToSerial` takes `process_telnet_options()` one iteration a step:
`DoubleIAC`, `Negotiate`, `SubOption`, `OtherCommand` are the cases of its
switch, `Continue` the search for the next IAC that ends each. The client sends
whole tokens, bytes or commands of the protocol (`WellFormed`); `read()` returns any
piece of the stream. `torn` records whether a
read ended inside a token or a write was cut.

`Negotiation` is `telnet_init()` offer by offer, then one step for each command
received. `SendOption` is `send_telnet_option()`: check the sent flag, append to
`sabre_to_socket_buf`, one `write()`, mark as sent if at least three bytes left.
`respond_telnet_binary_option()` and `respond_known_telnet_option()` are one
operator with `SetMode` for their difference. `IdleLogout` is the `DO LOGOUT` of an
idle session, sent at any time here, after which the loop goes round once more; the
text that precedes it in the stream is left out. In `Negotiation` the client is
arbitrary; `NegotiationClient` replaces it by one that follows RFC 854, which is
not part of the repository and marked external in the map.

`UucpLock` has one step per system call on the lock file, per process:
`FirstLink`, `ReadLock`, `Probe` (`kill(pid, 0)`), `RemoveStale` (with the
sleep), `SecondLink`, `Confirm`, `Release`. `Tick` lets time pass for those who
sleep and for those between reading the file and unlinking it. `PortMutex` says
what the lock is for: a process asks, has the port alone, and is gone, by itself or
together with others. In `UucpLock` a process asks until it holds the lock.

`Session` is the loop of `serial_ip_communication_process()` with a program
counter: `check` (the condition and the idle timer), `select`, `selecting`
(inside the call), `socket`, `serial`, `reading` (inside the call), `signals` and
`clear` (the two halves of `child_pending_signal_handle()`), then `last`,
`lastclear` and `cleanup` after the loop. A signal changes `signo_child` at any
time, and interrupts a call only in `selecting` and `reading`. Bytes are
abstracted to which side has something to read. `PortSession` is what the daemon
counts on in such a process: `Phase` maps the loop to "open", what follows it to
"closing", and `Causes` collects the sides that have closed, the logout, the idleness
and the signals; only a cause that is not a signal closes the session down, only a
signal, or a client that has closed, kills it with the lock held.

`Server` is the daemon and its children. `pc` is where the accept loop is;
`frames` is the stack of signal actions that run on top of it. `Deliver` pushes a
handler at any point, except on top of itself (`sa_mask` is empty, and a handler
blocks its own signal); `RunAgain` is the call of `parent_signal_received()` from the
loop after an `accept()` that failed, which is no handler and blocks nothing. An
action is a step for each of its calls: `program_clean_up`, then `serial_ip_init`
or `action_sigterm` (`kill(0, SIGTERM)`); each `waitpid()` of `action_sigchild`;
`action_sigusr`. `Return` is the assignment to `signo` and the return to what was
interrupted. For each process `stage` says how far it is with its client:
`young` (before `reset_signals()`), `search`, `session`, and `zombie` until it is
collected. The search has the calls of `create_uucp_lockfile()` that other processes
can come between: `select_serial_port` links, or reads the pid in the lock file that
is there (`seen`); `OwnerFound` and `RemoveStale` are what `kill(pid, 0)` decides,
the latter removing whatever lock file there is by then; `SecondLink` follows a sleep
of any length. `LinkRefused` is every way in which a call gives the port up;
`OpenFails`, `NoPort` and `SessionEnds` are the ways out of the search and the
session. Only a child past `reset_signals()` notes a signal and dies of it later
(`Grown`, `ChildKilled`); the younger ones have the daemon's handlers
(`YoungChildTermed`). `Down` is the end of the daemon; a second `free()` of the same pointers
is undefined, and the step that does it either goes on or aborts. `Attempt` maps
each connection to `PortMutex`: it asks until its process has decided, uses the port
while a process serves it, and is gone when it was closed or cut, or when its process
went with the daemon.

`Configuration` reads a line a step: `SkipLine`, `add_serial_port_info` with the
copy of the defaults, `SetPort`, `SetServer`, and `sane_config` at the end of the
file. `parse_entry` is a lookup in `KeywordTable`; a text is the word it is and
the number `atoi()` makes of it.

`SerialLine` extends it by the flags of one line. `serial_init_termios` and the
`set_` and `get_` functions are operators on a `Termios` record under the names of
the code; a `speed_t` is an index of `Rates`. `OpenPort` sets the line up from the
first port, `process_telnet_cpc_suboption` sets or reports one value, `Close`
leaves the line in any state, because `old_setting` is passed by value and never
filled.

`RawGateway` is the loop with `raw_flag` set, three places: `select`, `socket`,
`serial`. `raw_TCP_socket_to_serial` is one `recv()` and one `write()` of the bytes
and a null byte. `MessageFrames` is what that is for a given read: the frame itself, or,
where the copy runs over `command` (`Overruns`), anything that the stack may hold then
(`Spoilt`), its length included; the process may also crash as it returns. `raw_data_to_TCP_socket` is one `read()` and one `send()` of the bytes
and a newline, and `ReadInterrupted` a `read()` that a signal interrupts, which ends
the session here. `SocketEOF` writes the one byte of the stack that the code writes
when it has read nothing. `chunks` records what each read returned, `cut` the sides
whose frame was not written whole.

The modules share assumptions at their seams rather than state: `Negotiation`
stands for what `Negotiate` of `SocketToSerial` does with a command;
`Session` reads a socket in one step that the two data path modules take apart.
For `Server` a session is one stage, and `PortSession` says why that is enough:
`SessionEnds` is its `Finish`, which gives the port back, and `ChildKilled` its `Kill`,
which leaves the lock (`Dies` in `UucpLock`). The lock file is in both `Server` and
`UucpLock`. `Server` has who contends for it and when: processes that come, die,
are collected and leave locks behind, with no assumption on the time that a call or the
sleep takes. `UucpLock` has that time, the failures of each call, and contenders that
all meet the same old file.

## 4. Runs

Passing runs:

| Run | Properties | Shows |
|---|---|---|
| `s2s` | `TransparentUntilCut` `OtherBytesPreserved` `BufferLinear` `Headroom` | what the client decodes is what the device sent, until a write is cut; other bytes always arrive once and in order; the buffer is linear and bounded by twice the read |
| `n2s` | `DataDeliveredUntorn` `CommandsActedOn` `NothingInvented` `StaysInside` `ScanEnds` | data and commands are told apart as long as nothing is cut; wherever the stream is cut, no byte is invented, repeated or overtaken, and the scan is safe and ends |
| `neg_any` | `SentOnce` `ModeFollowsBinary` | option table, offers and transfer modes agree, against an arbitrary client, one write of an answer being cut |
| `neg_client` | `Agreement` `RequestsAnswered` `Settles` | with a client that follows the protocol both ends agree and the exchange ends |
| `lock_two` | `MutualExclusion` `NoOrphan` `SomeoneWins` `ImplementsMutex` `AttemptsEnd` | two processes over a stale lock, with deaths and failing calls |
| `session` | `LastPassRelays` `PortGivenBack` `ServesAsCountedOn` `IdleWasQuiet` `EndsInTime` `FatalSignalEnds` | a session ends in time, for a cause and not early, with input, closes and signals anywhere; it implements `PortSession` |
| `server` | `ChildrenAnnounced` `PortsMatchSessions` `SafeReload` `ServesOneAtATime` `EveryClientAnswered` `OnlyStaleRemoved` | whatever signals come and however their actions nest: a child that ended is collected or announced, ports follow the sessions, connections, which take the lock file call by call, have the port one at a time and only stale locks are removed, also when the daemon is down and its children go on, only a second signal that frees (or one during a session of the daemon's own) makes it use what it freed, and a connection that was taken is served or closed |
| `line` | `PortsAsWritten` `SaneForSession` `StartsAsConfigured` `SetsExactlyThat` | a port has what the file says under it; what is accepted can be run with; a session starts with that, whatever the line was left with; a suboption sets what it names and nothing else |
| `raw` | `DeviceGetsFrames` `AnswersFramed` `EndsWithClient` | both directions deliver every byte once and in order, in frames, until a read runs over the copy, which spoils nothing before it; when the client has closed the session ends, unless it is blocked on a silent device |

The runs `s2s` and `n2s` also check the type invariant of their module; the
types of `Negotiation`, `UucpLock`, `Session`, `Server` and `SerialLine` are proved, for every value
of the constants, and not run.

Runs that end in a counterexample, each against a comment of the code:

* `n2s_leak_split`: `telnet.c:765` says options are removed "so they won't be
  passed on to the serial port"; an option split over two reads is passed on in part.
* `lock_three`: `pidfile_handle.c:252`, "avoid race condition"; with three
  contenders one unlinks a lock that another made meanwhile.
* `session_eof`: `network_handle.c:33`, "exit select() loop on socket EOF"; the
  loop reads the blocking device after every `select()` that reports anything, and
  a silent device keeps it from ever seeing the client's end of file.

Other settings of the same parameters that do not hold, kept as parameters and
not as runs: `Interrupted = TRUE` in `UucpLock` (a signal cuts the sleep short),
`InitialLock = Foreign` (a lock file that is not a binary pid leaves `pid`
uninitialized), `MaxRead = Size` in `SerialToSocket` (the escape of a full buffer
goes past its end), and a client token of `SocketToSerial` with the byte 240 as a
suboption parameter. A third client breaks `OnlyStaleRemoved`, also in a run without
signals and failures, where no process dies: a search reads the pid of a session that
ends and is collected before the `kill(pid, 0)`, another connection locks the port, and
the search, to which the pid is gone, unlinks the new lock (`pidfile_handle.c:244`,
"remove stale lock"). `Persistent = TRUE` in `NegotiationClient` breaks
`RequestsAnswered`: an option that was granted, dropped and asked for again is
granted silently, because each answer is sent once (`telnet.c:893`), though
`telnet.c:712` promises "a response to a telnet option request". And
`TransparentUntilCut` needs its condition: after an interrupted write the IACs that
stayed in the buffer are escaped again, where `telnet.c:467` says every IAC is
escaped by one.

Four more things the code does that its messages say otherwise, as the models have
them: a request for mark or space parity (`serial_handle.c:192`, "will use None
instead") and one for 1.5 stop bits (`serial_handle.c:124`, "will use 1 instead")
change nothing; one for two stop bits (`serial_handle.c:121`) clears every control
flag but `CSTOPB`, the receiver's included; and the restore of
`serial_handle.c:73` writes settings that were never read. `SetsExactlyThat`
excepts two stop bits by name.

## 5. Bounds, scheduling and fairness

* `s2s`: three bytes, one of them IAC, tell loss, duplication and reordering
  apart; reads of up to two bytes and four bytes in all give a partial write
  before and after an escape. `Size` is 70 so that the repeated escapes of
  leftovers, which double at every pass, stay inside; `Headroom` is stated
  relative to the read.
* `n2s`: three tokens of six kinds, among them a six byte suboption, and a buffer
  of eight bytes, so that it fills up, is emptied in part, and cuts commands.
* `neg_any`: an option with a mode, an offered one, the logout and an unknown one;
  three messages reach enable, disable, enable again; one write may be cut. The session
  may go idle between any two of them.
* `neg_client`: an option both sides may start and an unknown one; two initiatives
  of the client cross with the six offers of the server.
* `lock_two`, `lock_three`: the sleep is 3 and the longest delay 2, so that the
  sleep outlasts every decision to unlink, which is what the code counts on; two
  failures allow a death and a failing call in one behaviour.
* `session`: idle timer off, and one of two poll intervals; two messages of each
  side, two signals; clocks stop counting at 3, past every timer.

* `server`: two clients contend for one port and two children end together; two
  signals nest, repeat and pair a reload with a termination; one failure of
  `accept()` runs an action again. The daemon forks or serves one client after the
  other; the raw gateway's accept loop is that of the latter.
* `line`: five lines reach two ports with a default, an override and a rejected
  value; eleven lines cover every kind of keyword, an alias, an unknown speed and a
  missing value. A line starts with all flags off or all on; three suboptions of a
  session combine any three settings. Parity, stop bits and size all meet.
* `raw`: four bytes from the client and three from the device, against reads of up to
  four and two, give every split, a full read and the overrun (`CommandSize` is three,
  below `RecvSize` as in the code); an answer without data shows the spinning device,
  after which they go on unrecorded.

Fairness. `SocketToSerial` has weak fairness of the scan alone, which never
blocks. `NegotiationClient` has weak fairness of the server, whose loop runs
whenever there is input, and of the client reading its socket. `UucpLock` has weak
fairness of every process's calls and of time; nobody has to release. `Session`
has weak fairness of the process, whose actions are disabled while a call
blocks, and of time. It has none of the client and the device: a device
may stay silent for ever. `EndsInTime` and `FatalSignalEnds` therefore assume
`Unblocked`, that the process is not held in the device read for ever;
`session_eof` shows what happens without it.

`Server` has weak fairness of the accept loop, of the actions that run, of the
delivery of each signal and of each process looking for a port: all of them are
code that runs whenever it can, or the kernel's promise. It has none of the end of
a session, so that `EveryClientAnswered` says nothing of clients that queue behind
an iterative server. `RawGateway` has weak fairness of the loop, disabled while a
read blocks; `EndsWithClient` excepts just that.

Deadlock is checked in the runs of the data paths, which have an explicit `Ended`
step. It is not checked where the system really stops: a negotiation with bounded
messages, contenders that are all done, a session that is over, a daemon that has ended, a
file or a session of bounded length.

## 6. Proofs

All theorems hold for every value of the constants that the named assumptions of
the modules allow; TLC evaluates the assumptions in the runs. What a theorem needs
besides stands in its `ASSUME`: `Telnet` (below), `~Persistent`, the `Conditions` of
two contenders, `FewContenders`, or what nothing in the code guarantees and no step may
break (`OnlyStaleRemoved`). Every invariant of a passing run is a theorem here,
and so are the three action properties that are about safety and the three refinements: of
`PortMutex` by the lock and by the server, of `PortSession` by the session.

* `BufferProofs`: lemmas on the buffer operators: types, what each keeps of
  `Linear`, what it does to the length, and, for a buffer that is `Whole` (linear, with
  all that is buffered in its memory), what it does to `Active`, the bytes buffered.
  Also here, because all streams need it: induction over numbers and sequences. The
  library's induction theorems take an operator, so `Induction` is stated for a set
  and derived from the well-foundedness of `<`; with it, what `FlattenSeq` makes of an
  appended element and of a concatenation.
* `SerialToSocketProofs`: `SerialBufferLinear` (`[]BufferLinear`) is inductive with
  the buffer's type. `CapacitySuffices` (`[]Headroom`) needs more: until a write is
  cut the buffer is empty at `read`, so that what a read adds is at most
  `MaxRead` and what the escape adds is at most as much again. The streams:
  `SerialTypeCorrect` and `NothingButIACChanged` from `StreamInv`, since the escape
  keeps the bytes other than IAC, however often it is repeated on leftovers;
  `TransparentStream` from `UncutInv`, which says in what state the client's decoder
  is after all that was sent and is buffered. The decoder is a recursive function: that
  it exists is proved first, then what one byte more does to it, then that an escaped
  sequence leaves it between two characters.
* `SocketToSerialProofs`: `SocketStaysInside`, `ScanAlwaysProgresses`,
  `SocketTypeCorrect`. The invariant joins linearity, the size
  and the window `iac + size = readp`, `size >= 2`; each case of the switch removes from
  the buffer what it takes from `size`. `DeviceGetsTheData` and `CommandsAreActedOn`
  come from one invariant, `DeliveredInv`: until a read ends inside a token or a write
  is cut, the tokens sent are those done with, those buffered and those to be read;
  what was written and what is parsed are the data of the first, `acted` their
  commands; and the scan is at the IAC of the first token that is buffered and
  unparsed. One lemma for each kind of command says that the scan turns that token
  into its data and goes to the next IAC, which starts a token. They assume
  `Telnet`: every token of the client is one of the protocol (`WellFormed`: bytes that
  are not IAC, a doubled IAC, a request for an option, a short command, a suboption
  without 240 among its parameters). `TokensAssumption` has TLC check that the tokens of
  the runs are such. `DeviceGetsNothingElse` assumes nothing of the client, of the reads or
  of the writes: `InventsNothing` says that the bytes written, buffered and unread have
  places, in their order, among those sent. Reads and writes move a byte from one of the
  three to the next, a removal (`RmstrLeavesOut`, whatever its place and its count) only
  drops some, and what is sent has its place last. The property counts with a recursive
  function, `Matched`, which TLC can evaluate; `MatchesEmbedded` proves that it finds all
  that has places.
* `NegotiationProofs`: `NegotiationTypeCorrect` and `ModeAlwaysFollowsBinary`, for any
  client, any failing write; `SendOnceAndOffered`: the invariant says that while no
  write was cut the buffer is empty between steps, that an optcode was buffered exactly
  when it is marked, and that what is enabled was marked. `QuietEndsAgree` and
  `QuietMeansAnswered` are about both ends, for any options and any number of
  initiatives of the client, delivered at any pace. Each option has two sides, the
  client's and the server's; of the messages on the two wires, those about one side
  are a subsequence (`Among`) and with the flags of both ends they make one of six
  phases (`Phase`): at rest, asked, granted, ... Every step of either end takes one
  side from phase to phase and leaves the others; with nothing on the wires only the
  phases at rest remain. The client must not ask again for what it gave up
  (`~Persistent`): `telnet.c:893` sends each answer once. No write may be cut, since a
  cut answer is sent in part.
* `UucpLockProofs`: `LockTypeCorrect`, `NothingOrphaned` and `SomeoneAlwaysWins` for any
  number of contenders and any timing, the last one unless the lock is foreign.
  `TwoContendersExclude` and
  `TwoContendersImplementMutex`, for at most two contenders, a sleep longer than
  `MaxDelay`, no interruption, and no foreign lock (the module's `Conditions`). Mutual
  exclusion is not inductive: the invariant bounds, for a process about to unlink and
  another that has linked, the time the second still has to sleep, and says whose pid
  the lock file holds. For any number of contenders exclusion does not hold
  (`lock_three`), and two theorems say what it takes to lose it.
  `LinksApartExclude`: with any timing, interrupted sleeps included, nothing but a
  `link()` that creates the file between another's look at it and its `unlink()`; as
  long as there is none, who decides has in mind the file that is there (`ApartInv`).
  `ManyContendersExclude`: where the sleep is not cut short and longer than a
  decision (`SleepSound`: the age of a decision about the old file and the sleep left to
  whoever has linked since make up at least the whole sleep), only three kinds of such a link are
  left: that of a newcomer, that of a sleeper while another decides about the file of a
  contender, and one after an `unlink()` that was refused. Under the same conditions
  the lock file implements `PortMutex`. Two contenders over a stale file need no such
  condition.
* `SessionProofs`: `SessionTypeCorrect`; `IdleTimerIsRight` (the idle count and the time
  in the present `select()` never exceed the quiet time unless input waits to be read),
  `LastPassRelaysAll` (what is owed stays ready until the last pass reaches it, the
  client's part first), `PortIsGivenBack`. `SessionServesAsCountedOn` is the refinement
  of `PortSession`: a step that leaves the phase alone only adds causes, the loop is
  left for one of them (`ErrorInv`: nothing fails unless a side has closed), and
  `PortInv` has the cause of a kill. `EndComesNearer` is the variant under `EndsInTime`:
  `Distance` counts the steps left of a pass and the passes left until a side's end of
  file is read; once there is a cause every step of the process lowers it, from at most
  30, and no message, close or signal raises it. It needs `Failed`: after an error the
  loop is not entered again. And, of `RawGateway`, `FramesReachDevice` and
  `FramesReachClient`: the two properties are inductive together with the types; one
  lemma for each read says what a piece and the rest of a stream are, one for each write
  what a frame adds. An overrun that does not end the process may write any bytes in the
  place of its frame: `FramesReachDevice` claims the frames of the reads up to the first
  that does not fit, and that they stay.
* `ServerProofs`, for any numbers of clients, ports and signals:
  `ServerTypeCorrect` from `SigInv`: the types, `StackOK` (the place of each frame of
  the handler stack is one its signal can be at, a frame that is not a handler's is
  there only while `accept()`'s error path calls the action, and there is no urgent
  frame if no urgent signal was sent) and `Caused` (no urgent signal sent, nothing
  stale and none pending or remembered). `ChildrenAlwaysAnnounced` is inductive on top
  of it: the step that ends the action of a SIGCHLD has just found no zombie, and a
  child that ends sets the signal again. `ReloadsAreSafe`
  from `ReloadInv`: with one urgent signal sent there is at most one urgent frame or
  pending signal, one that is pending is not yet remembered in `signo`, and the
  configuration is freed only while an urgent frame is past its `clean`.
  The lock is another matter: what a search unlinks may no longer be what it looked at.
  `OnlyStaleRemoved` says of every step that what it unlinks is the lock of a process that
  is gone. Under that condition, for any number of contenders, `PortsAlwaysMatch` follows from
  `PoolInv`, which adds who may be in which stage in a forking and in an iterative server,
  and `ServerImplementsMutex` is the refinement of `PortMutex`, with the daemon up or down:
  `MutexInv` says that who is in a session has the lock of the port, that each client
  has at most one process to attend to it, with its connection in the matching state,
  and that a daemon that is down serves nobody. A step that takes no connection up
  (`NoneTaken`) can only end attempts, several at once when the process group is
  killed; the port is taken from a process that is not alive, and who is in a session is.
  `FewUnlinkOnlyStale` discharges the condition with at most two clients, or where the
  daemon serves itself (`FewContenders`): a search that decides about a pid has at most one
  other process beside it, so that a pid that was alive and is gone has left nobody to
  lock the port meanwhile. `FewImplementMutex` and `FewMatch` are then without it. With
  more contenders the code does break it (section 4), and all that is claimed is
  that nothing else can.
* `SerialLineProofs`, for any file, any accounts and any requests:
  `AcceptedFilesAreSane` from `ConfInv` (every port's and the defaults' values are
  acceptable as long as no error was met; numbers are numbers; what is ready was
  repaired and is sane). `PortsReadAsWritten` from `WrittenInv`: there are positions
  `at[1]` to `at[k]` of the device lines, and the defaults are what the lines up to
  `at[1]` tell, each port what those up to the next position tell on top of the
  defaults. It rests on two facts: a line is about one token at most (`OneRow`), and
  the `Cardinality` and the `CHOOSE` of the property find those positions.
  `LineTypeCorrect`, `SessionsStartAsConfigured` (`LineInv`: a
  session with no suboption yet has what `serial_init_termios` wrote, from any flags)
  and `SuboptionsSetExactlyThat`, by cases on the setting that is named and the one
  that is read.

Only model-checked: liveness (`ScanEnds`, `Settles`, `AttemptsEnd`, `EndsInTime`,
`FatalSignalEnds`, `EveryClientAnswered`, `EndsWithClient`), which needs fairness and
`ENABLED`; of `EndsInTime` that is all that `EndComesNearer` leaves open. The three runs with a counterexample have no theorem, of course; mutual
exclusion for three contenders or with an interrupted sleep holds only under the
conditions of the two theorems above.

## 7. Not modelled

* A second port in the run of `Server`: the search tries index 0 only, so that with
  two ports and the first one locked it goes round for ever, and
  `EveryClientAnswered` does not hold (`serial_handle.c:391`). The module has the
  parameter `NumPorts`; the theorems hold for any.
* In a reload: a change of the server type; that the iterative server has given up
  its privileges when it opens the file again (`network_handle.c:404`); and a string
  keyword that is set twice, the second being copied into the allocation of the first
  (`utilities.c:724`).
* `tcgetattr()` and `tcsetattr()` that fail, and `ISTRIP`, which a suboption for parity
  does not change and no property is about.
* What the overrun of `raw.c:140` does beyond the frame that is written: it may spoil that
  frame or end the process in the model, and nothing else of the state.
* The byte before `command` that an empty Com Port suboption clears (`telnet.c:356`, with
  a length of -1). In the build of the Makefile it is the last byte of the static `fmt` of
  `telnet_cpc_log_subopt()`, which no format reaches.
* The spelling of configuration lines (white space, case, quotes, a `#`), and the
  keywords of logs, pid file, lock template and description.
* In the iterative server, the handlers of the daemon run during a session: `Server`
  has them; `Session` is a child of the concurrent server.
* Writes that block: a client that stops reading, or a device that stops the flow,
  holds the loop in `write()`; the models let every write return.
* `session_state` SUSPEND, which no compiled code sets, and the line and modem
  state notifications, which are inside `#if 0`.
* `mydaemon.c`, `debug_handle.c`, `systemlog_handle.c`, `escape_sequence_handle.c`,
  the pid file, the listening socket and the command line: sequential start, output, or formatting, on
  which nothing above depends.
* Reuse of process ids, and wall clock jumps in the idle timer.
