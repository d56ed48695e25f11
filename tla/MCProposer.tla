----------------------------- MODULE MCProposer -----------------------------
(***************************************************************************)
(* The schedules of seven authorities with two faults over two windows:    *)
(* one authority has the lowest rank in each round, at most two leader     *)
(* rounds of a window have the lowest score to be silent, and at most one  *)
(* to commit.  The Proposer of one of the primaries is followed through    *)
(* its first rounds in some of them: silent in the round 4 it leads, in    *)
(* round 2, in both or in neither.                                         *)
(***************************************************************************)
EXTENDS Proposer

LOCAL INSTANCE FiniteSetsExt

CONSTANTS b1, b2

MCKeys == <<1, 2, 3, 4, 5, 6, 7>>

MCBatches == {b1, b2}

MCSlots == {2 * k : k \in 1 .. 7}

UpTo(k) == UNION {kSubset(i, MCSlots) : i \in 0 .. k}

\* A score function is given by the product that has the lowest rank, and by the
\* leader rounds with the lowest scores in the two other domains.
MCScore(low, direct, mute) ==
    [x \in (0 .. 2) \X (1 .. 7) \X (0 .. Horizon) |->
        CASE x[1] = 0 -> IF (x[2] * x[3]) % 7 = low THEN 0 ELSE 1
          [] x[1] = 1 -> IF ((x[3] - 2) % 14) + 2 \in direct THEN 0 ELSE 1
          [] x[1] = 2 -> IF ((x[3] - 2) % 14) + 2 \in mute THEN 0 ELSE 1]

MCScores ==
    {MCScore(low, direct, mute) : low \in {0, 3, 6}, direct \in UpTo(1), mute \in UpTo(2)}

\* The schedules followed: four of them, one for each set of silent rounds.
Followed ==
    /\ score[0, 6, 1] = 1
    /\ \A r \in MCSlots : score[1, 1, r] = 1
    /\ {r \in MCSlots : score[2, 1, r] = 0} \in {{4}, {6}}

=============================================================================
