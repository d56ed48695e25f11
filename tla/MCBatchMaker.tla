---------------------------- MODULE MCBatchMaker ----------------------------
(***************************************************************************)
(* Four transactions, batches of three, a delay of two ticks and channels  *)
(* of one: a batch may be full or partial when a silence begins or ends.   *)
(***************************************************************************)
EXTENDS BatchMaker

=============================================================================
