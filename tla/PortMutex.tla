----------------------------- MODULE PortMutex -----------------------------
(***************************************************************************)
(* What a device lock promises: of the processes that want a serial port,  *)
(* one at a time has it.  A process asks once; it gets the port, or is     *)
(* turned away; it gives the port back, or dies, alone or together with    *)
(* others.                                                                 *)
(***************************************************************************)
CONSTANT Proc

VARIABLE status     \* of each process: "asking", "using", "gone"

Init == status = [p \in Proc |-> "asking"]

Acquire(p) ==
  /\ status[p] = "asking"
  /\ \A q \in Proc : status[q] # "using"
  /\ status' = [status EXCEPT ![p] = "using"]

Leave(S) ==
  /\ \A p \in S : status[p] # "gone"
  /\ status' = [p \in Proc |-> IF p \in S THEN "gone" ELSE status[p]]

Next ==
  \/ \E p \in Proc : Acquire(p)
  \/ \E S \in SUBSET Proc : Leave(S)

Spec == Init /\ [][Next]_status
=============================================================================
