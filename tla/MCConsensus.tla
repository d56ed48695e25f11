----------------------------- MODULE MCConsensus -----------------------------
(***************************************************************************)
(* Four authorities and DAGs of three kinds.  Chained ones of nine rounds: *)
(* every certificate has the previous one of its author among its parents  *)
(* and leaves out one other; in half of them one authority stops after     *)
(* round 3.  Free ones of seven rounds: a certificate may leave out any    *)
(* one authority, its own author included, as the Proposer takes the first *)
(* quorum of parents it gets.  Small ones of seven rounds, with one        *)
(* authority that certifies nothing but the leader of round 2.             *)
(***************************************************************************)
EXTENDS Consensus

CONSTANTS a, b, c, d,
          MaxChained, MaxFree \* the bounds on the DAGs of the two kinds

MCAuthorities == {a, b, c, d}

MCKeys == <<a, b, c, d>>

MCStake == [x \in MCAuthorities |-> 1]

Position(x) == CHOOSE i \in 0 .. 3 : MCKeys[i + 1] = x

\* An order of the digests that differs from round to round.
MCDigestOrder ==
    [i \in 1 .. 4 * (MaxRound + 1) |->
        LET r == (i - 1) \div 4 IN <<r, MCKeys[((i * 3 + r) % 4) + 1]>>]

-----------------------------------------------------------------------------
(* Chained DAGs.                                                           *)

\* The parent left out by a certificate.  In some DAGs the leader of round 4 is
\* left out by everybody else for two rounds, and so is never committed.
LeftOut(seed, r, x) ==
    IF seed % 6 = 0 /\ r \in {5, 6} /\ x # a THEN a
    ELSE MCKeys[((Position(x) + 1 +
            ((seed + (seed \div 3) * r + (seed \div 9) * Position(x) + r * r * Position(x)) % 3)) % 4) + 1]

\* In every other DAG one authority, a leader or not, stops after round 3.
Live(seed, r) ==
    IF seed % 2 = 1 /\ r > 3 THEN MCAuthorities \ {MCKeys[((seed \div 2) % 4) + 1]}
                            ELSE MCAuthorities

ChainedDag(seed) ==
    [x \in {y \in (0 .. MaxRound) \X MCAuthorities : y[2] \in Live(seed, y[1])} |->
        IF x[1] = 0 THEN {}
        ELSE LET live == Live(seed, x[1] - 1)
             IN  {x[1] - 1} \X (IF live = MCAuthorities THEN live \ {LeftOut(seed, x[1], x[2])} ELSE live)]

-----------------------------------------------------------------------------
(* Free DAGs.                                                              *)

LeftOutFreely(seed, r, x) ==
    MCKeys[((seed + (seed \div 4) * r + (seed \div 16) * Position(x) + r * Position(x)) % 4) + 1]

\* The leader of round 2 can be committed before the certificate of round 1 of
\* its author arrives.
LeftOutLate(r, x) ==
    CASE r = 2 -> IF x = b THEN d ELSE c
      [] r = 3 -> IF x = d THEN d ELSE b
      [] r = 4 -> IF x = a THEN c ELSE d
      [] r = 5 -> IF x = d THEN a ELSE d
      [] OTHER -> d

\* The leader of round 2 is left out by everybody else.
LeftOutLeader(r, x) == IF r \in {3, 4} /\ x # c THEN c ELSE d

FreeDag(Left(_, _)) ==
    [x \in (0 .. 7) \X MCAuthorities |->
        IF x[1] = 0 THEN {} ELSE {x[1] - 1} \X (MCAuthorities \ {Left(x[1], x[2])})]

FreeDags ==
    {FreeDag(LeftOutLate), FreeDag(LeftOutLeader)} \cup
    {FreeDag(LAMBDA r, x : LeftOutFreely(seed, r, x)) : seed \in 0 .. MaxFree}

-----------------------------------------------------------------------------
(* Small DAGs.  In one, nobody has the leader of round 2 among its parents, *)
(* so that it may come late; in the other, everybody has every certificate. *)

SmallDag(Parents(_)) ==
    [x \in {y \in (0 .. 7) \X MCAuthorities :
              y[1] = 0 \/ y[2] \in {a, b, d} \/ y = <<2, c>>} |->
        IF x[1] = 0 THEN {} ELSE {x[1] - 1} \X Parents(x[1])]

SmallDags ==
    {SmallDag(LAMBDA r : IF r - 1 \in {0, 2} THEN MCAuthorities ELSE {a, b, d}),
     SmallDag(LAMBDA r : {a, b, d})}

-----------------------------------------------------------------------------

MCDags == {ChainedDag(seed) : seed \in 0 .. MaxChained} \cup FreeDags \cup SmallDags

\* Certificates come again in the free and the small DAGs, and the replica is
\* restarted in the small ones.
Scope ==
    /\ resent > 0 => <<8, a>> \notin DOMAIN edges /\ <<8, b>> \notin DOMAIN edges
    /\ restarts > 0 => resent = 0 /\ <<1, c>> \notin DOMAIN edges
=============================================================================
