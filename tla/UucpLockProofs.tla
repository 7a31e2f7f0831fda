--------------------------- MODULE UucpLockProofs ---------------------------
(***************************************************************************)
(* Two contenders: the lock file excludes, provided that the sleep is      *)
(* longer than a contender can take from reading the file to removing it.  *)
(* Any number of them: somebody wins, and who fails leaves nothing behind; *)
(* and the lock file excludes unless one of three races happens.           *)
(***************************************************************************)
EXTENDS UucpLock, TLAPS

\* Two contenders, a pid file or none, an uninterrupted sleep that is long enough.
Conditions ==
  /\ \A p, q, r \in Proc : p = q \/ q = r \/ p = r
  /\ InitialLock # Foreign
  /\ ~Interrupted
  /\ MaxDelay < Sleep

Types ==
  /\ pc \in [Proc -> {"link", "open", "sleep", "confirm", "held"} \union Deciding \union Ended]
  /\ lockfile \in Proc \union {Ghost, NoFile}
  /\ lockpid \in [Proc -> Proc \union {Ghost, NoFile}]
  /\ age \in [Proc -> Nat] /\ \A p \in Proc : age[p] <= MaxDelay
  /\ left \in [Proc -> Nat]

\* A process that created the file is the only one whose pid is in it.
OwnerInFile ==
  \A p \in Proc : /\ pc[p] \in {"confirm", "held"} => lockfile = p
                  /\ lockfile = p => pc[p] \in {"confirm", "held", "dead", "released"}

\* What p decides about is the file of the Ghost, or that of the other one.
\* If the Ghost's file is already gone, the other one has removed it since, and
\* will sleep for longer than p can take.
DecisionSound ==
  \A p, q \in Proc :
    (p # q /\ pc[p] \in Deciding) =>
      /\ lockpid[p] \in {Ghost, q}
      /\ lockpid[p] = q => pc[q] \in {"confirm", "held"} \union Ended
      /\ (lockpid[p] = q /\ pc[p] = "unlink") => pc[q] \in Ended
      /\ lockpid[p] = Ghost => lockfile \in {Ghost, NoFile}
      /\ (lockpid[p] = Ghost /\ lockfile = NoFile) =>
            \/ pc[q] \in Ended
            \/ pc[q] = "sleep" /\ age[p] + left[q] >= Sleep

LockInv == Types /\ OwnerInFile /\ DecisionSound

USE DEF Ended, Deciding

LEMMA InitInv ==
  ASSUME Conditions, Init
  PROVE  LockInv
BY LockAssumption
DEF Conditions, Init, LockInv, Types, OwnerInFile, DecisionSound

LEMMA StepTypes ==
  ASSUME Types, NEW p \in Proc, Step(p)
  PROVE  Types'
BY LockAssumption
DEF Types, Step, Call, FirstLink, ReadLock, Probe, RemoveStale, Unlink, sleep, SecondLink,
    Confirm, Release, LinkRefused, Dies, Link, Goto

LEMMA FirstLinkInv ==
  ASSUME Conditions, LockInv, NEW p \in Proc, FirstLink(p), Types'
  PROVE  OwnerInFile' /\ DecisionSound'
<1>1. OwnerInFile'
  BY LockAssumption DEF Conditions, LockInv, Types, OwnerInFile, DecisionSound, FirstLink, Link, Goto
<1>2. DecisionSound'
  BY LockAssumption DEF Conditions, LockInv, Types, OwnerInFile, DecisionSound, FirstLink, Link, Goto
<1> QED
  BY <1>1, <1>2

LEMMA ReadLockInv ==
  ASSUME Conditions, LockInv, NEW p \in Proc, ReadLock(p), Types'
  PROVE  OwnerInFile' /\ DecisionSound'
<1>1. OwnerInFile'
  BY LockAssumption DEF Conditions, LockInv, Types, OwnerInFile, DecisionSound, ReadLock, Goto
<1>2. DecisionSound'
  BY LockAssumption DEF Conditions, LockInv, Types, OwnerInFile, DecisionSound, ReadLock, Goto
<1> QED
  BY <1>1, <1>2

LEMMA ProbeInv ==
  ASSUME Conditions, LockInv, NEW p \in Proc, Probe(p), Types'
  PROVE  OwnerInFile' /\ DecisionSound'
<1>1. OwnerInFile'
  BY LockAssumption DEF Conditions, LockInv, Types, OwnerInFile, DecisionSound, Probe, MayExist, MayBeGone, Goto
<1>2. DecisionSound'
  BY LockAssumption DEF Conditions, LockInv, Types, OwnerInFile, DecisionSound, Probe, MayExist, MayBeGone, Goto
<1> QED
  BY <1>1, <1>2

LEMMA RemoveStaleInv ==
  ASSUME Conditions, LockInv, NEW p \in Proc, RemoveStale(p), Types'
  PROVE  OwnerInFile' /\ DecisionSound'
<1>1. OwnerInFile'
  BY LockAssumption DEF Conditions, LockInv, Types, OwnerInFile, DecisionSound, RemoveStale, Unlink, sleep, Goto
<1>2. DecisionSound'
  BY LockAssumption DEF Conditions, LockInv, Types, OwnerInFile, DecisionSound, RemoveStale, Unlink, sleep, Goto
<1> QED
  BY <1>1, <1>2

LEMMA SecondLinkInv ==
  ASSUME Conditions, LockInv, NEW p \in Proc, SecondLink(p), Types'
  PROVE  OwnerInFile' /\ DecisionSound'
<1>1. OwnerInFile'
  BY LockAssumption DEF Conditions, LockInv, Types, OwnerInFile, DecisionSound, SecondLink, Link, Goto
<1>2. DecisionSound'
  BY LockAssumption DEF Conditions, LockInv, Types, OwnerInFile, DecisionSound, SecondLink, Link, Goto
<1> QED
  BY <1>1, <1>2

LEMMA ConfirmInv ==
  ASSUME Conditions, LockInv, NEW p \in Proc, Confirm(p), Types'
  PROVE  OwnerInFile' /\ DecisionSound'
<1>1. OwnerInFile'
  BY LockAssumption DEF Conditions, LockInv, Types, OwnerInFile, DecisionSound, Confirm, Goto
<1>2. DecisionSound'
  BY LockAssumption DEF Conditions, LockInv, Types, OwnerInFile, DecisionSound, Confirm, Goto
<1> QED
  BY <1>1, <1>2

LEMMA ReleaseInv ==
  ASSUME Conditions, LockInv, NEW p \in Proc, Release(p), Types'
  PROVE  OwnerInFile' /\ DecisionSound'
<1>1. OwnerInFile'
  BY LockAssumption DEF Conditions, LockInv, Types, OwnerInFile, DecisionSound, Release, Unlink, Goto
<1>2. DecisionSound'
  BY LockAssumption DEF Conditions, LockInv, Types, OwnerInFile, DecisionSound, Release, Unlink, Goto
<1> QED
  BY <1>1, <1>2

LEMMA EndInv ==
  ASSUME Conditions, LockInv, NEW p \in Proc, LinkRefused(p) \/ Dies(p), Types'
  PROVE  OwnerInFile' /\ DecisionSound'
<1>1. OwnerInFile'
  BY LockAssumption DEF LockInv, Types, OwnerInFile, LinkRefused, Dies, Goto
<1>2. DecisionSound'
  BY LockAssumption DEF LockInv, Types, DecisionSound, LinkRefused, Dies, Goto
<1> QED
  BY <1>1, <1>2

LEMMA TickInv ==
  ASSUME LockInv, Tick
  PROVE  LockInv'
<1>1. Types'
  BY LockAssumption DEF LockInv, Types, Tick
<1>2. OwnerInFile'
  BY DEF LockInv, OwnerInFile, Tick
<1>3. DecisionSound'
  BY LockAssumption DEF LockInv, Types, DecisionSound, Tick
<1> QED
  BY <1>1, <1>2, <1>3 DEF LockInv

LEMMA NextInv ==
  ASSUME Conditions, LockInv, [Next]_vars
  PROVE  LockInv'
<1>1. ASSUME NEW p \in Proc, Step(p)
      PROVE  LockInv'
  <2>1. Types'
    BY <1>1, StepTypes DEF LockInv
  <2>2. OwnerInFile' /\ DecisionSound'
    BY <1>1, <2>1, FirstLinkInv, ReadLockInv, ProbeInv, RemoveStaleInv, SecondLinkInv,
       ConfirmInv, ReleaseInv, EndInv DEF Step, Call
  <2> QED
    BY <2>1, <2>2 DEF LockInv
<1>2. CASE UNCHANGED vars
  BY <1>2 DEF vars, LockInv, Types, OwnerInFile, DecisionSound
<1> QED
  BY <1>1, <1>2, TickInv DEF Next

LEMMA InvExcludes ==
  ASSUME Conditions, LockInv
  PROVE  MutualExclusion /\ UserOwnsFile
BY DEF Conditions, LockInv, OwnerInFile, MutualExclusion, UserOwnsFile, Using

-----------------------------------------------------------------------------

\* Two processes that contend for a device, over a stale lock file or over
\* none, never both get it, and the one that has it is named in the lock file,
\* whenever either dies and whichever call is refused.
THEOREM TwoContendersExclude ==
  ASSUME Conditions
  PROVE  Spec => [](MutualExclusion /\ UserOwnsFile)
<1>1. Init => LockInv
  BY InitInv
<1>2. LockInv /\ [Next]_vars => LockInv'
  BY NextInv
<1>3. LockInv => MutualExclusion /\ UserOwnsFile
  BY InvExcludes
<1> QED
  BY <1>1, <1>2, <1>3, PTL DEF Spec

-----------------------------------------------------------------------------

\* A step of one process changes the status of no other.
LEMMA StatusStep ==
  ASSUME Types, NEW p \in Proc, NEW label, Goto(p, label)
  PROVE  Status' = [Status EXCEPT ![p] = StatusOf(label)]
<1>1. \A q \in Proc : pc'[q] = IF q = p THEN label ELSE pc[q]
  BY DEF Types, Goto
<1> HIDE DEF Ended
<1> QED
  BY <1>1 DEF Status

\* Where whoever confirms or holds is the one in the lock file, each step is one of
\* PortMutex or none.
LEMMA MutexStep ==
  ASSUME Types, Types', OwnerInFile', [Next]_vars
  PROVE  [Mutex!Next]_Status
<1>1. ASSUME NEW p \in Proc, Step(p)
      PROVE  [Mutex!Next]_Status
  <2>1. PICK label : Goto(p, label)
    BY <1>1 DEF Step, Call, FirstLink, ReadLock, Probe, RemoveStale, Unlink, sleep, SecondLink, Confirm,
                Release, LinkRefused, Dies, Link
  <2>2. Status' = [Status EXCEPT ![p] = StatusOf(label)]
    BY <2>1, StatusStep
  <2>3. pc'[p] = label /\ \A q \in Proc : q # p => pc'[q] = pc[q]
    BY <2>1 DEF Types, Goto
  <2>4. CASE label = "held"
    <3>1. pc[p] = "confirm"
      BY <1>1, <2>3, <2>4
      DEF Types, Step, Call, FirstLink, ReadLock, Probe, RemoveStale, Unlink, sleep, SecondLink,
          Confirm, Release, LinkRefused, Dies, Link, Goto
    <3>2. \A q \in Proc : Status[q] # "using"
      BY <2>3, <2>4, <3>1 DEF OwnerInFile, Status, StatusOf
    <3>3. Status[p] = "asking"
      BY <3>1 DEF Status, StatusOf
    <3> QED
      BY <2>2, <2>4, <3>2, <3>3 DEF StatusOf, Mutex!Next, Mutex!Acquire
  <2>5. CASE label \in Ended
    <3>1. pc[p] \notin Ended
      BY <1>1 DEF Step, Call, FirstLink, ReadLock, Probe, RemoveStale, Unlink, sleep, SecondLink,
           Confirm, Release, LinkRefused, Dies
    <3>2. Status[p] # "gone" /\ StatusOf(label) = "gone"
      BY <2>5, <3>1 DEF Status, StatusOf
    <3>3. Status' = [q \in Proc |-> IF q \in {p} THEN "gone" ELSE Status[q]]
      BY <2>2, <3>2 DEF Status
    <3> QED
      BY <3>2, <3>3 DEF Mutex!Next, Mutex!Leave
  <2>6. CASE label \notin Ended \union {"held"}
    <3>1. pc[p] \notin Ended \union {"held"}
      BY <1>1, <2>3, <2>6
      DEF Types, Step, Call, FirstLink, ReadLock, Probe, RemoveStale, Unlink, sleep, SecondLink,
          Confirm, Release, LinkRefused, Dies, Link, Goto
    <3>2. Status[p] = "asking" /\ StatusOf(label) = "asking"
      BY <2>6, <3>1 DEF Status, StatusOf
    <3> QED
      BY <2>2, <3>2 DEF Status
  <2> QED
    BY <2>4, <2>5, <2>6
<1>2. CASE Tick \/ UNCHANGED vars
  BY <1>2 DEF Tick, vars, Status
<1> QED
  BY <1>1, <1>2 DEF Next

LEMMA MutexInit == Init => Mutex!Init
  BY DEF Init, Mutex!Init, Status, StatusOf

\* Two contenders implement the mutual exclusion of PortMutex.
THEOREM TwoContendersImplementMutex ==
  ASSUME Conditions
  PROVE  Spec => ImplementsMutex
<1>1. Init => LockInv
  BY InitInv
<1>2. LockInv /\ [Next]_vars => LockInv'
  BY NextInv
<1>3. LockInv /\ LockInv' /\ [Next]_vars => [Mutex!Next]_Status
  BY MutexStep DEF LockInv
<1>4. Spec => Mutex!Spec
  BY <1>1, <1>2, <1>3, MutexInit, PTL DEF Spec, Mutex!Spec
<1> QED
  BY <1>4 DEF ImplementsMutex

-----------------------------------------------------------------------------
(* Any number of contenders, whatever the timing *)

\* The types, failures counted within their bound.
THEOREM LockTypeCorrect == Spec => []TypeOK
<1> USE LockAssumption
<1>1. Init => TypeOK
  BY DEF Init, TypeOK
<1>2. TypeOK /\ [Next]_vars => TypeOK'
  <2> SUFFICES ASSUME TypeOK, [Next]_vars PROVE TypeOK'
    OBVIOUS
  <2> USE DEF TypeOK
  <2>1. ASSUME NEW p \in Proc, FirstLink(p) \/ SecondLink(p) PROVE TypeOK'
    BY <2>1 DEF FirstLink, SecondLink, Link, Goto
  <2>2. ASSUME NEW p \in Proc, ReadLock(p) \/ Probe(p) \/ Confirm(p) PROVE TypeOK'
    BY <2>2 DEF ReadLock, Probe, Confirm, Goto
  <2>3. ASSUME NEW p \in Proc, RemoveStale(p) \/ Release(p) PROVE TypeOK'
    BY <2>3 DEF RemoveStale, Release, Unlink, Fails, sleep, Goto
  <2>4. ASSUME NEW p \in Proc, LinkRefused(p) \/ Dies(p) PROVE TypeOK'
    BY <2>4 DEF LinkRefused, Dies, Fails, Goto
  <2>5. CASE Tick
    BY <2>5 DEF Tick
  <2>6. CASE UNCHANGED vars
    BY <2>6 DEF vars
  <2> QED
    BY <2>1, <2>2, <2>3, <2>4, <2>5, <2>6 DEF Next, Step, Call
<1> QED
  BY <1>1, <1>2, PTL DEF Spec

\* An attempt that failed leaves no lock file in its name, and a lock file whose
\* owner is gone is the mark of a death or of an unlink() that was refused: for
\* any number of contenders, a sleep of any length, cut short or not.
THEOREM NothingOrphaned == Spec => []NoOrphan
<1> USE LockAssumption
<1> DEFINE Inv == TypeOK /\ NoOrphan
<1>1. Init => Inv
  BY DEF Init, TypeOK, NoOrphan
<1>2. TypeOK /\ TypeOK' /\ NoOrphan /\ [Next]_vars => NoOrphan'
  <2> SUFFICES ASSUME TypeOK, TypeOK', NoOrphan, [Next]_vars PROVE NoOrphan'
    OBVIOUS
  <2> USE DEF TypeOK, NoOrphan
  <2>1. ASSUME NEW p \in Proc, FirstLink(p) \/ SecondLink(p) PROVE NoOrphan'
    BY <2>1 DEF FirstLink, SecondLink, Link, Goto
  <2>2. ASSUME NEW p \in Proc, ReadLock(p) \/ Probe(p) \/ Confirm(p) PROVE NoOrphan'
    BY <2>2 DEF ReadLock, Probe, Confirm, Goto
  <2>3. ASSUME NEW p \in Proc, RemoveStale(p) \/ Release(p) PROVE NoOrphan'
    BY <2>3 DEF RemoveStale, Release, Unlink, Fails, sleep, Goto
  <2>4. ASSUME NEW p \in Proc, LinkRefused(p) \/ Dies(p) PROVE NoOrphan'
    BY <2>4 DEF LinkRefused, Dies, Fails, Goto
  <2>5. CASE Tick
    BY <2>5 DEF Tick
  <2>6. CASE UNCHANGED vars
    BY <2>6 DEF vars
  <2> QED
    BY <2>1, <2>2, <2>3, <2>4, <2>5, <2>6 DEF Next, Step, Call
<1> QED
  BY <1>1, <1>2, LockTypeCorrect, PTL DEF Spec

\* Who is sure to get the device, as long as nothing failed: the one that did; the
\* one whose pid is in the file; whoever can still create the file, if there is
\* none; and all, if the stale one is still there and everyone takes it for stale.
WinInv ==
  failures = 0 =>
    \/ \E p \in Proc : pc[p] \in {"held", "released"}
    \/ lockfile \in Proc /\ pc[lockfile] = "confirm"
    \/ lockfile = NoFile /\ \E p \in Proc : pc[p] \in {"link", "sleep"}
    \/ /\ lockfile = Ghost
       /\ \A p \in Proc : /\ pc[p] \in {"link", "open"} \union Deciding
                          /\ pc[p] \in Deciding => lockpid[p] = Ghost

\* Over a stale lock file, or over none, the contenders never turn each other all
\* away unless something failed, however many they are and whatever the timing.
THEOREM SomeoneAlwaysWins ==
  ASSUME Proc # {}, InitialLock # Foreign
  PROVE  Spec => []SomeoneWins
<1> USE LockAssumption
<1>1. Init => WinInv
  BY DEF Init, WinInv
<1>2. TypeOK /\ TypeOK' /\ WinInv /\ [Next]_vars => WinInv'
  <2> SUFFICES ASSUME TypeOK, TypeOK', WinInv, [Next]_vars, failures' = 0 PROVE WinInv'
    BY DEF WinInv
  <2> USE DEF TypeOK, WinInv
  <2>1. ASSUME NEW p \in Proc, FirstLink(p) \/ SecondLink(p) PROVE WinInv'
    BY <2>1 DEF FirstLink, SecondLink, Link, Goto
  <2>2. ASSUME NEW p \in Proc, ReadLock(p) PROVE WinInv'
    BY <2>2 DEF ReadLock, Goto
  <2>3. ASSUME NEW p \in Proc, Probe(p) PROVE WinInv'
    BY <2>3 DEF Probe, MayExist, MayBeGone, Goto
  <2>4. ASSUME NEW p \in Proc, Confirm(p) PROVE WinInv'
    BY <2>4 DEF Confirm, Goto
  <2>5. ASSUME NEW p \in Proc, RemoveStale(p) PROVE WinInv'
    BY <2>5 DEF RemoveStale, Unlink, Fails, sleep, Goto
  <2>6. ASSUME NEW p \in Proc, Release(p) PROVE WinInv'
    BY <2>6 DEF Release, Unlink, Fails, Goto
  <2>7. ASSUME NEW p \in Proc, LinkRefused(p) \/ Dies(p) PROVE WinInv'
    BY <2>7 DEF LinkRefused, Dies, Fails
  <2>8. CASE Tick
    BY <2>8 DEF Tick
  <2>9. CASE UNCHANGED vars
    BY <2>9 DEF vars
  <2> QED
    BY <2>1, <2>2, <2>3, <2>4, <2>5, <2>6, <2>7, <2>8, <2>9 DEF Next, Step, Call
<1>3. TypeOK /\ WinInv => SomeoneWins
  BY DEF TypeOK, WinInv, SomeoneWins
<1> QED
  BY <1>1, <1>2, <1>3, LockTypeCorrect, PTL DEF Spec

-----------------------------------------------------------------------------
(* Any number of contenders that are apart *)

\* p's link() creates the lock file, while another process has read the one that
\* was there and has not removed it yet, if it will.
LinkWorks(p) == lockfile = NoFile /\ lockfile' = p
DuringDecision(p) == LinkWorks(p) /\ \E q \in Proc : pc[q] \in Deciding

\* While a process decides, the lock file is the one it read, or there is none;
\* and it takes for stale only that of the Ghost or of a contender that has ended.
DecisionCurrent ==
  \A q \in Proc : pc[q] \in Deciding =>
    /\ lockpid[q] \in Proc \union {Ghost}
    /\ lockfile \in {lockpid[q], NoFile}
    /\ lockpid[q] \in Proc =>
         /\ pc[lockpid[q]] \in {"confirm", "held"} \union Ended
         /\ pc[q] = "unlink" => pc[lockpid[q]] \in Ended

ApartInv == Types /\ OwnerInFile /\ DecisionCurrent

LEMMA ApartInit ==
  ASSUME InitialLock # Foreign, Init
  PROVE  ApartInv
BY LockAssumption DEF Init, ApartInv, Types, OwnerInFile, DecisionCurrent

LEMMA ApartStep ==
  ASSUME ApartInv, NEW p \in Proc, Step(p), ~DuringDecision(p)
  PROVE  ApartInv'
<1> USE LockAssumption DEF ApartInv
<1>1. Types'
  BY StepTypes
<1>2. CASE FirstLink(p) \/ SecondLink(p)
  BY <1>1, <1>2
  DEF FirstLink, SecondLink, Link, Goto, Types, OwnerInFile, DecisionCurrent, DuringDecision, LinkWorks
<1>3. CASE ReadLock(p)
  BY <1>1, <1>3 DEF ReadLock, Goto, Types, OwnerInFile, DecisionCurrent
<1>4. CASE Probe(p)
  BY <1>1, <1>4 DEF Probe, MayExist, MayBeGone, Goto, Types, OwnerInFile, DecisionCurrent
<1>5. CASE RemoveStale(p)
  BY <1>1, <1>5 DEF RemoveStale, Unlink, Goto, Types, OwnerInFile, DecisionCurrent
<1>6. CASE Confirm(p)
  BY <1>1, <1>6 DEF Confirm, Goto, Types, OwnerInFile, DecisionCurrent
<1>7. CASE Release(p)
  BY <1>1, <1>7 DEF Release, Unlink, Goto, Types, OwnerInFile, DecisionCurrent
<1>8. CASE LinkRefused(p) \/ Dies(p)
  BY <1>1, <1>8 DEF LinkRefused, Dies, Goto, Types, OwnerInFile, DecisionCurrent
<1> QED
  BY <1>2, <1>3, <1>4, <1>5, <1>6, <1>7, <1>8 DEF Step, Call

LEMMA ApartNext ==
  ASSUME ApartInv, [Next]_vars, \A p \in Proc : ~DuringDecision(p)
  PROVE  ApartInv'
<1>1. CASE Tick
  BY <1>1, LockAssumption DEF Tick, ApartInv, Types, OwnerInFile, DecisionCurrent
<1>2. CASE UNCHANGED vars
  BY <1>2 DEF vars, ApartInv, Types, OwnerInFile, DecisionCurrent
<1> QED
  BY <1>1, <1>2, ApartStep DEF Next

LEMMA ApartExcludes ==
  ASSUME InitialLock # Foreign, ApartInv
  PROVE  MutualExclusion /\ UserOwnsFile
BY DEF ApartInv, OwnerInFile, MutualExclusion, UserOwnsFile, Using

\* Whatever the number of contenders, the timing, the deaths and the calls that
\* fail, a signal that cuts the sleep short included: the lock file excludes as
\* long as no link() creates it between another's look at it and its unlink().
\* There is no other way to lose the exclusion.
THEOREM LinksApartExclude ==
  ASSUME InitialLock # Foreign
  PROVE  Spec /\ [][\A p \in Proc : ~DuringDecision(p)]_vars
           => [](MutualExclusion /\ UserOwnsFile) /\ ImplementsMutex
<1> DEFINE Apart == \A p \in Proc : ~DuringDecision(p)
<1>1. Init => ApartInv
  BY ApartInit
<1>2. ApartInv /\ [Next]_vars /\ [Apart]_vars => ApartInv'
  <2> SUFFICES ASSUME ApartInv, [Next]_vars, [Apart]_vars PROVE ApartInv'
    OBVIOUS
  <2>1. CASE UNCHANGED vars
    BY <2>1 DEF vars, ApartInv, Types, OwnerInFile, DecisionCurrent
  <2> QED
    BY <2>1, ApartNext
<1>3. ApartInv => MutualExclusion /\ UserOwnsFile
  BY ApartExcludes
<1>4. ApartInv /\ ApartInv' /\ [Next]_vars => [Mutex!Next]_Status
  BY MutexStep DEF ApartInv
<1>5. Spec /\ [][Apart]_vars => Mutex!Spec
  BY <1>1, <1>2, <1>4, MutexInit, PTL DEF Spec, Mutex!Spec
<1>6. Spec /\ [][Apart]_vars => [](MutualExclusion /\ UserOwnsFile)
  BY <1>1, <1>2, <1>3, PTL DEF Spec
<1> QED
  BY <1>5, <1>6 DEF ImplementsMutex

\* What the sleep is for: it is over only when whoever had read the Ghost's file
\* has decided.  Three ways are left to link during a decision.
NewcomerBetween(p) == pc[p] = "link" /\ DuringDecision(p)
SleeperBetween(p) ==
  /\ pc[p] = "sleep" /\ LinkWorks(p)
  /\ \E q \in Proc : pc[q] \in Deciding /\ lockpid[q] \in Proc
RemovalFails(p) == pc[p] = "unlink" /\ pc'[p] = "sleep" /\ lockfile' = Ghost

NoRace == \A p \in Proc : ~NewcomerBetween(p) /\ ~SleeperBetween(p) /\ ~RemovalFails(p)

SleepSound ==
  \A p, q \in Proc :
    pc[p] = "sleep" =>
      /\ lockfile # Ghost
      /\ pc[q] \in Deciding /\ lockpid[q] = Ghost => age[q] + left[p] >= Sleep

\* Without the three races no link() works during a decision.
LEMMA SleepKeepsApart ==
  ASSUME ~Interrupted, MaxDelay < Sleep, ApartInv, SleepSound, [Next]_vars, NoRace
  PROVE  \A p \in Proc : ~DuringDecision(p)
<1> SUFFICES ASSUME NEW p \in Proc, DuringDecision(p) PROVE FALSE
  OBVIOUS
<1> USE LockAssumption
<1>1. pc[p] \notin {"link", "sleep"} => lockfile' # p
  BY DEF Next, Step, Call, FirstLink, ReadLock, Probe, RemoveStale, Unlink, SecondLink, Confirm, Release,
         LinkRefused, Dies, Tick, vars, Link, Goto, DuringDecision, LinkWorks, ApartInv, Types
<1>2. pc[p] = "sleep"
  BY <1>1 DEF NoRace, NewcomerBetween, DuringDecision, LinkWorks
<1>3. PICK q \in Proc : pc[q] \in Deciding
  BY DEF DuringDecision
<1>4. lockpid[q] = Ghost
  BY <1>2, <1>3 DEF NoRace, SleeperBetween, DuringDecision, ApartInv, DecisionCurrent
<1>5. age[q] + left[p] >= Sleep /\ age[q] <= MaxDelay /\ age[q] \in Nat /\ left[p] \in Nat
  BY <1>2, <1>3, <1>4 DEF SleepSound, ApartInv, Types
<1>6. left[p] # 0
  BY <1>5
<1>7. lockfile' # p
  BY <1>2, <1>6
  DEF Next, Step, Call, FirstLink, ReadLock, Probe, RemoveStale, Unlink, SecondLink, Confirm, Release,
      LinkRefused, Dies, Tick, vars, Link, Goto, DuringDecision, LinkWorks, ApartInv, Types
<1> QED
  BY <1>7 DEF DuringDecision, LinkWorks

LEMMA SleepStep ==
  ASSUME ApartInv, Types', SleepSound, NEW p \in Proc, Step(p), NoRace
  PROVE  SleepSound'
<1> USE LockAssumption DEF ApartInv, Types, SleepSound
<1>1. CASE FirstLink(p) \/ SecondLink(p)
  BY <1>1 DEF FirstLink, SecondLink, Link, Goto
<1>2. CASE ReadLock(p)
  BY <1>2 DEF ReadLock, Goto
<1>3. CASE Probe(p)
  BY <1>3 DEF Probe, Goto
<1>4. CASE RemoveStale(p)
  BY <1>4 DEF RemoveStale, Unlink, sleep, Goto, NoRace, RemovalFails
<1>5. CASE Confirm(p) \/ Release(p)
  BY <1>5 DEF Confirm, Release, Unlink, Goto
<1>6. CASE LinkRefused(p) \/ Dies(p)
  BY <1>6 DEF LinkRefused, Dies, Goto
<1> QED
  BY <1>1, <1>2, <1>3, <1>4, <1>5, <1>6 DEF Step, Call

LEMMA SleepNext ==
  ASSUME ApartInv, Types', SleepSound, [Next]_vars, NoRace
  PROVE  SleepSound'
<1>1. CASE Tick
  BY <1>1, LockAssumption DEF Tick, ApartInv, Types, SleepSound
<1>2. CASE UNCHANGED vars
  BY <1>2 DEF vars, SleepSound
<1> QED
  BY <1>1, <1>2, SleepStep DEF Next

\* For any number of contenders a sleep that is longer than a decision takes, and
\* that no signal cuts short, leaves three ways to lose the exclusion: a newcomer
\* that links at once while another decides; a sleeper that links while another
\* decides about the file of a contender; and an unlink() of the stale file that
\* was refused, so that the sleep began before the file was gone.
THEOREM ManyContendersExclude ==
  ASSUME InitialLock # Foreign, ~Interrupted, MaxDelay < Sleep
  PROVE  Spec /\ [][NoRace]_vars => [](MutualExclusion /\ UserOwnsFile) /\ ImplementsMutex
<1> DEFINE Inv == ApartInv /\ SleepSound
<1>1. Init => Inv
  BY ApartInit DEF Init, SleepSound
<1>2. Inv /\ [Next]_vars /\ [NoRace]_vars => Inv'
  <2> SUFFICES ASSUME Inv, [Next]_vars, [NoRace]_vars PROVE Inv'
    OBVIOUS
  <2>1. CASE UNCHANGED vars
    BY <2>1 DEF vars, ApartInv, Types, OwnerInFile, DecisionCurrent, SleepSound
  <2>2. CASE NoRace
    <3>1. ApartInv'
      BY <2>2, SleepKeepsApart, ApartNext
    <3> QED
      BY <2>2, <3>1, SleepNext DEF ApartInv
  <2> QED
    BY <2>1, <2>2
<1>3. Inv => MutualExclusion /\ UserOwnsFile
  BY ApartExcludes
<1>4. Inv /\ Inv' /\ [Next]_vars => [Mutex!Next]_Status
  BY MutexStep DEF ApartInv
<1>5. Spec /\ [][NoRace]_vars => Mutex!Spec
  BY <1>1, <1>2, <1>4, MutexInit, PTL DEF Spec, Mutex!Spec
<1>6. Spec /\ [][NoRace]_vars => [](MutualExclusion /\ UserOwnsFile)
  BY <1>1, <1>2, <1>3, PTL DEF Spec
<1> QED
  BY <1>5, <1>6 DEF ImplementsMutex
=============================================================================
