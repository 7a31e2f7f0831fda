---------------------------- MODULE PortSession ----------------------------
(***************************************************************************)
(* What the daemon counts on in a process that serves a client at a port:  *)
(* the session goes on until one of its sides closes, the client logs out  *)
(* or the connection is idle; then it closes down and gives the port back, *)
(* and nothing but a signal keeps it from that.  A signal comes from       *)
(* somebody, or from writing to a client that has closed.                  *)
(***************************************************************************)

VARIABLES
  phase,   \* "open", "closing", "ended" or "killed"
  held,    \* does the lock of the port exist?
  causes   \* what has happened that may end it: the sides that closed, and others

Cause == {"client", "device", "logout", "idle", "signal"}

Init == phase = "open" /\ held = TRUE /\ causes = {}

\* Some causes arise, before the session is over.
Arise(new) ==
  /\ phase \in {"open", "closing"}
  /\ causes' = causes \union new
  /\ UNCHANGED <<phase, held>>

\* The session closes down; no signal alone makes it do so.
Close ==
  /\ phase = "open" /\ causes \ {"signal"} # {}
  /\ phase' = "closing"
  /\ UNCHANGED <<held, causes>>

\* It gives the port back and is over.
Finish ==
  /\ phase = "closing"
  /\ phase' = "ended" /\ held' = FALSE
  /\ UNCHANGED causes

\* It is killed, and the lock of the port is left behind.
Kill ==
  /\ phase \in {"open", "closing"}
  /\ causes \intersect {"signal", "client"} # {}
  /\ phase' = "killed"
  /\ UNCHANGED <<held, causes>>

Next == Close \/ Finish \/ Kill \/ \E new \in SUBSET Cause : Arise(new)

Spec == Init /\ [][Next]_<<phase, held, causes>>
=============================================================================
