---------------------------- MODULE MCParentSync ----------------------------
(***************************************************************************)
(* The primary lacks three certificates, s1 and t1 of round 1 and s2 above *)
(* them, and is sent s2, whose author has crashed since: only the retries  *)
(* reach the peer that holds the rest.  A faulty author has sent a header  *)
(* m that names s1 too but says it is of round 1: with it the request of   *)
(* s1 goes when round 1 is collected, that of t1 stays.                    *)
(***************************************************************************)
EXTENDS ParentSync, TLC

CONSTANTS s1, t1, s2, m, p, q

SlowRound == (s1 :> 1) @@ (t1 :> 1) @@ (s2 :> 2) @@ (m :> 1)
SlowAuthor == (s1 :> q) @@ (t1 :> q) @@ (s2 :> p) @@ (m :> p)
SlowParents == (s1 :> {}) @@ (t1 :> {}) @@ (s2 :> {s1, t1}) @@ (m :> {s1})
SlowHolds == (p :> {}) @@ (q :> Certificates)

=============================================================================
