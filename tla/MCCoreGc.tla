------------------------------ MODULE MCCoreGc ------------------------------
(***************************************************************************)
(* One primary while the consensus advances and garbage collection runs.   *)
(* The two other authorities (stakes 2 and 1, a quorum together) are the   *)
(* environment: they certify seven rounds, enough for the leader of round  *)
(* 4 to be committed, and one of them also signs a second header for round *)
(* 1 whose payload comes late.  Our own header of round 1 may collect its  *)
(* votes at any time.                                                      *)
(***************************************************************************)
EXTENDS CoreRestart

MCAuthorities == {"n", "p", "q"}
MCStake == [x \in MCAuthorities |-> IF x = "p" THEN 2 ELSE 1]
MCFaulty == {"p", "q"}

MCGenesis == {<<x, 0, 0>> : x \in MCAuthorities}
Chain == ({"p"} \X (1 .. 7) \X {0}) \cup ({"q"} \X (1 .. 6) \X {0})
n1  == <<"n", 1, 0>>
q1  == <<"q", 1, 0>>
q1x == <<"q", 1, 1>>

MCHeaders == MCGenesis \cup Chain \cup {n1, q1x}
MCAuthor == [h \in MCHeaders |-> h[1]]
MCRound == [h \in MCHeaders |-> h[2]]
MCParents == [h \in MCHeaders |->
    CASE h[2] = 0 -> {} [] h[2] = 1 -> MCGenesis
      [] OTHER -> {<<"p", h[2] - 1, 0>>, <<"q", h[2] - 1, 0>>}]
MCPayload == [h \in MCHeaders |-> IF h = q1x THEN {"batch"} ELSE {}]
MCFaultyHeaders == {q1x}

\* The environment certifies a header after its parents, and at most
\* MaxInFlight of its certificates have not been delivered yet.
MaxInFlight == 1
Paced ==
    /\ \A c \in certs : parents[c] \subseteq certs \cup Genesis
    /\ Cardinality((certs \cap Chain) \ certificates["n"]) <= MaxInFlight

=============================================================================
