-------------------------- MODULE MCDissemination --------------------------
(***************************************************************************)
(* Four workers, one of them faulty, and channels of one.  A batch may     *)
(* find its quorum without either of the other correct workers.  A second  *)
(* batch, sealed while the first waits for its quorum and acknowledged     *)
(* while the Processor is behind, is followed as long as the late worker   *)
(* is left out, or else as long as the faulty one, which comes first,      *)
(* reads nothing: then the second batch never reaches QuorumWaiter.        *)
(***************************************************************************)
EXTENDS Dissemination

CONSTANTS name, a, late, c

OneEach == [w \in Authorities |-> 1]

Addresses == <<c, a, late>>

LeftOut == sealed = 2 => delivered[late] = {} \/ taken[c] = 0

=============================================================================
