---------------------------- MODULE MCRawGateway ----------------------------
(* RawGateway with buffers of a few bytes. *)
EXTENDS RawGateway

Sent == [client |-> 4, device |-> 3]
=============================================================================
