----------------------------- MODULE Committee -----------------------------
(***************************************************************************)
(* The committee of authorities (config/src/lib.rs): who they are, how     *)
(* much stake each one holds, and the two thresholds every other component *)
(* counts against.  The stake of a set is written as a cardinality, the    *)
(* number of its units of stake, so that the facts about finite sets of    *)
(* the library apply to it.                                                *)
(***************************************************************************)
EXTENDS Integers, FiniteSets

CONSTANTS Authorities, \* the public keys of the committee file
          Stake        \* their voting power (Authority.stake, a u32)

ASSUME CommitteeAssumption ==
    /\ IsFiniteSet(Authorities)
    /\ Stake \in [Authorities -> Nat]

StakeUnits(S) == UNION {{a} \X (1 .. Stake[a]) : a \in S}

\* The voting power of a set of authorities.
Weight(S) == Cardinality(StakeUnits(S))

total_votes == Weight(Authorities)

\* With N = 3f+1+k (0 <= k < 3) units of stake this is N - f = 2f+1+k.
quorum_threshold == (2 * total_votes) \div 3 + 1

\* With N = 3f+1+k this is f+1: more than the faulty authorities can hold.
validity_threshold == (total_votes + 2) \div 3

IsQuorum(S) == Weight(S) >= quorum_threshold

IsValidity(S) == Weight(S) >= validity_threshold

\* What the protocol tolerates: the faulty authorities hold at most f units.
FaultBound(F) == Weight(F) < validity_threshold

=============================================================================
