------------------------------ MODULE MCStore ------------------------------
(***************************************************************************)
(* Two keys, two values, two calls, three writes and a channel of three    *)
(* commands: a call can meet writes of its key before it, after it and     *)
(* while it waits.                                                         *)
(***************************************************************************)
EXTENDS Store

=============================================================================
