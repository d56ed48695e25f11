------------------------------- MODULE MCCore -------------------------------
(***************************************************************************)
(* An equivocating author, over two rounds.  The committee has stakes 2, 1 *)
(* and 1 (a quorum is 3, validity is 2) and its third authority is faulty: *)
(* it signs two headers for round 1, one of them with a payload the others *)
(* lack, and sends a malformed header for round 2.  The correct header of  *)
(* round 2 stands on its certificate of round 1, so that headers and       *)
(* certificates are suspended and loop back.                               *)
(***************************************************************************)
EXTENDS Core

MCAuthorities == {"a", "b", "f"}
MCStake == [x \in MCAuthorities |-> IF x = "a" THEN 2 ELSE 1]
MCFaulty == {"f"}

\* A header is <<author, round, variant>>.
a1  == <<"a", 1, 0>>
f1  == <<"f", 1, 0>>
f1x == <<"f", 1, 1>>
a2  == <<"a", 2, 0>>
f2  == <<"f", 2, 0>>

MCGenesis == {<<x, 0, 0>> : x \in MCAuthorities}
MCHeaders == MCGenesis \cup {a1, f1, f1x, a2, f2}
MCAuthor == [h \in MCHeaders |-> h[1]]
MCRound == [h \in MCHeaders |-> h[2]]
MCParents == [h \in MCHeaders |->
    CASE h[2] = 0 -> {} [] h[2] = 1 -> MCGenesis
      [] h = f2 -> {f1} [] OTHER -> {a1, f1}]
MCPayload == [h \in MCHeaders |-> IF h = f1x THEN {"batch"} ELSE {}]
MCFaultyHeaders == {f1, f1x, f2}
MCFaultyCertificates == {f1, f1x, f2}

=============================================================================
