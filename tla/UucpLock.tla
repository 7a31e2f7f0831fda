------------------------------ MODULE UucpLock ------------------------------
(***************************************************************************)
(* The UUCP lock file of a serial device, as the processes that serve      *)
(* connections contend for it: create_uucp_lockfile(),                     *)
(* verify_device_lock_state() and unlock_uucp_lockfile() of                *)
(* pidfile_handle.c, one action per system call on the lock file.          *)
(*                                                                         *)
(* The temporary file is private to its process, so writing and removing   *)
(* it belong to the link() that uses it.  Pids are not reused.             *)
(***************************************************************************)
EXTENDS Integers, FiniteSets

CONSTANTS
  Proc,         \* the processes, named by their pid
  Ghost,        \* the pid of a process that no longer exists
  Foreign,      \* a live process of another program, whose lock file is text
  NoFile,       \* there is no lock file
  InitialLock,  \* what is found: NoFile, or the lock of Ghost or of Foreign
  Sleep,        \* the sleep(3) before the second link()
  MaxDelay,     \* timing assumption: the longest time from the open() in
                \*   verify_device_lock_state to the unlink() that follows it
  Interrupted,  \* may a signal cut the sleep short?
  MaxFailures   \* bound of the model: deaths, and link() and unlink() refused

ASSUME LockAssumption ==
  /\ InitialLock \in {NoFile, Ghost, Foreign}
  /\ NoFile \notin Proc \union {Ghost, Foreign}
  /\ Ghost \notin Proc \union {Foreign} /\ Foreign \notin Proc
  /\ Sleep \in Nat /\ MaxDelay \in Nat
  /\ Interrupted \in BOOLEAN /\ MaxFailures \in Nat

VARIABLES
  pc,        \* of each process: the system call it makes next, or how it ended
  lockfile,  \* the pid in the lock file, or NoFile
  lockpid,   \* of each process: the pid it read from the lock file
  age,       \* the time since it read it, until it unlinks
  left,      \* the time it has still to sleep
  failures   \* how many failures there have been

vars == <<pc, lockfile, lockpid, age, left, failures>>

Ended == {"failed", "released", "dead"}
Deciding == {"kill", "unlink"}

Init ==
  /\ pc = [p \in Proc |-> "link"]
  /\ lockfile = InitialLock
  /\ lockpid = [p \in Proc |-> NoFile]
  /\ age = [p \in Proc |-> 0]
  /\ left = [p \in Proc |-> 0]
  /\ failures = 0

Fails == failures < MaxFailures /\ failures' = failures + 1

Goto(p, label) == pc' = [pc EXCEPT ![p] = label]

\* A link() that is tried until it works.
LinkRetried(p, otherwise) ==
  IF lockfile = NoFile
  THEN lockfile' = p /\ Goto(p, "confirm")
  ELSE Goto(p, "link") /\ UNCHANGED lockfile

\* link(tmpname, device_lockfile) creates the file unless it exists.
Link(p, otherwise) ==
  IF lockfile = NoFile
  THEN lockfile' = p /\ Goto(p, "confirm")
  ELSE Goto(p, otherwise) /\ UNCHANGED lockfile

UnlinkNothing == UNCHANGED <<lockfile, failures>>

\* unlink(device_lockfile) removes whatever lock file there is, if any.
Unlink ==
  \/ lockfile' = NoFile /\ UNCHANGED failures
  \/ Fails /\ UNCHANGED lockfile

-----------------------------------------------------------------------------
(* create_uucp_lockfile *)

FirstLink(p) ==
  /\ pc[p] = "link"
  /\ Link(p, "open")
  /\ UNCHANGED <<lockpid, age, left, failures>>

\* verify_device_lock_state: the file is opened and read ...
ReadLock(p) ==
  /\ pc[p] = "open"
  /\ IF lockfile = NoFile
     THEN Goto(p, "failed") /\ UNCHANGED <<lockpid, age>>
     ELSE /\ Goto(p, "kill")
          /\ lockpid' = [lockpid EXCEPT ![p] = lockfile]
          /\ age' = [age EXCEPT ![p] = 0]
  /\ UNCHANGED <<lockfile, left, failures>>

\* ... and kill(pid, 0) tells whether its process exists.  A child that has
\* ended exists until the parent waits for it.  The pid is read only if the
\* file has its binary size: otherwise "pid" is an uninitialized local.
MayExist(q) == q # Ghost
MayBeGone(q) == q \in {Ghost, Foreign} \/ (q \in Proc /\ pc[q] \in Ended)

Probe(p) ==
  /\ pc[p] = "kill"
  /\ \/ MayExist(lockpid[p]) /\ Goto(p, "failed")
     \/ MayBeGone(lockpid[p]) /\ Goto(p, "unlink")
  /\ UNCHANGED <<lockfile, lockpid, age, left, failures>>

NoSleep(p) == UNCHANGED left

sleep(p) == left' = [left EXCEPT ![p] = Sleep]

\* The stale lock file is removed; whether or not that worked, sleep.
RemoveStale(p) ==
  /\ pc[p] = "unlink"
  /\ Unlink
  /\ Goto(p, "sleep")
  /\ sleep(p)
  /\ UNCHANGED <<lockpid, age>>

SecondLink(p) ==
  /\ pc[p] = "sleep"
  /\ left[p] = 0 \/ Interrupted
  /\ Link(p, "failed")
  /\ UNCHANGED <<lockpid, age, left, failures>>

\* "verify that we really got the lock"
Confirm(p) ==
  /\ pc[p] = "confirm"
  /\ Goto(p, IF lockfile = p THEN "held" ELSE "failed")
  /\ UNCHANGED <<lockfile, lockpid, age, left, failures>>

-----------------------------------------------------------------------------

\* The session ends and nobody removes its lock file.
ReleaseKept(p) ==
  /\ pc[p] = "held"
  /\ Goto(p, "released")
  /\ UNCHANGED <<lockfile, failures, lockpid, age, left>>

\* unlock_uucp_lockfile, when the session is over.
Release(p) ==
  /\ pc[p] = "held"
  /\ Unlink
  /\ Goto(p, "released")
  /\ UNCHANGED <<lockpid, age, left>>

\* link() is refused, or the temporary file cannot be written.
LinkRefused(p) ==
  /\ Fails /\ pc[p] \in {"link", "sleep"}
  /\ pc[p] = "sleep" => left[p] = 0 \/ Interrupted
  /\ Goto(p, "failed")
  /\ UNCHANGED <<lockfile, lockpid, age, left>>

Dies(p) ==
  /\ Fails /\ pc[p] \notin Ended
  /\ Goto(p, "dead")
  /\ UNCHANGED <<lockfile, lockpid, age, left>>

\* Time passes, for those who sleep and those who are about to unlink.
Tick ==
  /\ \E p \in Proc : pc[p] \in Deciding \/ (pc[p] = "sleep" /\ left[p] > 0)
  /\ \A p \in Proc : pc[p] \in Deciding => age[p] < MaxDelay
  /\ age' = [p \in Proc |-> IF pc[p] \in Deciding THEN age[p] + 1 ELSE age[p]]
  /\ left' = [p \in Proc |-> IF left[p] > 0 THEN left[p] - 1 ELSE 0]
  /\ UNCHANGED <<pc, lockfile, lockpid, failures>>

Call(p) == FirstLink(p) \/ ReadLock(p) \/ Probe(p) \/ RemoveStale(p) \/ SecondLink(p) \/ Confirm(p)

Step(p) == Call(p) \/ Release(p) \/ LinkRefused(p) \/ Dies(p)

Next == (\E p \in Proc : Step(p)) \/ Tick

Spec == Init /\ [][Next]_vars

\* Every process is scheduled and time passes; a holder may never give up.
FairSpec == Spec /\ WF_vars(Tick) /\ \A p \in Proc : WF_vars(Call(p))

-----------------------------------------------------------------------------
(* Properties *)

TypeOK ==
  /\ pc \in [Proc -> {"link", "open", "sleep", "confirm", "held"} \union Deciding \union Ended]
  /\ lockfile \in Proc \union {Ghost, Foreign, NoFile}
  /\ lockpid \in [Proc -> Proc \union {Ghost, Foreign, NoFile}]
  /\ age \in [Proc -> 0..MaxDelay]
  /\ left \in [Proc -> 0..Sleep] /\ failures \in 0..MaxFailures

Using == {p \in Proc : pc[p] = "held"}

\* The device has one user at a time.  The other program whose lock was found
\* keeps using it.
MutualExclusion ==
  /\ \A p, q \in Using : p = q
  /\ InitialLock = Foreign => Using = {}

\* While a process uses the device the lock file carries its pid, so that
\* whoever comes later finds a live owner.
UserOwnsFile == \A p \in Using : lockfile = p

\* No attempt that failed leaves a lock file in its name, and no release does
\* unless something failed.
NoOrphan ==
  lockfile \in Proc => \/ pc[lockfile] \in {"confirm", "held"}
                       \/ failures > 0 /\ pc[lockfile] \in {"dead", "released"}

\* The contenders never turn each other all away: unless something failed, some
\* attempt of those made over a stale lock gets the device.
SomeoneWins == failures = 0 => \E p \in Proc : pc[p] # "failed"

\* Every attempt ends in the possession of the device, or without it.
AttemptsEnd == \A p \in Proc : <>(pc[p] \in Ended \union {"held"})

\* The lock file implements a mutual exclusion in which a process asks, uses the
\* device, and is gone: every call is a step of PortMutex or none at all.
StatusOf(label) ==
  IF label = "held" THEN "using" ELSE IF label \in Ended THEN "gone" ELSE "asking"

Status == [p \in Proc |-> StatusOf(pc[p])]

Mutex == INSTANCE PortMutex WITH status <- Status

ImplementsMutex == Mutex!Spec
=============================================================================
