---------------------------- MODULE MCUucpLock ----------------------------
(* UucpLock with a few contending processes. *)
EXTENDS UucpLock

CONSTANTS p1, p2, p3

TwoProcs == {p1, p2}
ThreeProcs == {p1, p2, p3}
=============================================================================
