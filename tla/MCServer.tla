------------------------------ MODULE MCServer ------------------------------
(* Server with two clients, one port and two signals. *)
EXTENDS Server, TLC

MCServerTypes == {"concurrent", "iterative"}
=============================================================================
