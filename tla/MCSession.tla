----------------------------- MODULE MCSession -----------------------------
(* Small instances of Session: the idle timer off, and one that needs two   *)
(* rounds of select() to run out.                                           *)
EXTENDS Session

OffAndTwo == {0, 2}
=============================================================================
