--------------------------- MODULE MCPayloadSync ---------------------------
(***************************************************************************)
(* Two headers of the author b, of rounds 1 and 2, share a batch, and the  *)
(* parents of the first are missing.  Ours is the worker a.  That of b     *)
(* has lost the batch in a restart, and c holds it; the primaries of a and *)
(* b collect garbage at their own pace.  Only the Synchronizer of b is     *)
(* followed: ours gets nothing but clean-ups.                              *)
(***************************************************************************)
EXTENDS PayloadSync, TLC

CONSTANTS a, b, c, g, h, d1

OneHolds == (a :> {}) @@ (b :> {}) @@ (c :> Digests)
Rounds == (a :> 2) @@ (b :> 1) @@ (c :> 0)
TwoRounds == (g :> 1) @@ (h :> 2)
SameAuthor == (g :> b) @@ (h :> b)
SameBatch == (g :> {d1}) @@ (h :> {d1})

=============================================================================
