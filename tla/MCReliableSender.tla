-------------------------- MODULE MCReliableSender --------------------------
(***************************************************************************)
(* Three messages, a channel of two and two streams that fail: a message   *)
(* can be sent on three streams while two failed ones still hold frames.   *)
(***************************************************************************)
EXTENDS ReliableSender

=============================================================================
