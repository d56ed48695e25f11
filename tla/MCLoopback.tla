----------------------------- MODULE MCLoopback -----------------------------
(***************************************************************************)
(* Channels of one item.  Four messages with two headers can fill the      *)
(* cycle of HeaderWaiter: two go back to the Core while their copies,      *)
(* suspended before, are on their way to HeaderWaiter.  A certificate goes *)
(* round beside them.  The first header can be collected.                  *)
(***************************************************************************)
EXTENDS Loopback, TLC

CONSTANTS h1, h2, h3, h4, c1, g, h, c

MCId == (h1 :> g) @@ (h2 :> g) @@ (h3 :> h) @@ (h4 :> h) @@ (c1 :> c)
MCLacks == (g :> {"parents", "payload"}) @@ (h :> {"payload"}) @@ (c :> {"parents"})
MCRound == (g :> 1) @@ (h :> 3) @@ (c :> 3)

\* Copies differ in nothing: one of each is received first.
InOrder == (h1 \in rx_primaries => h2 \in rx_primaries) /\ (h3 \in rx_primaries => h4 \in rx_primaries)

\* A commit moves the garbage collection by two rounds.
ByTwo == gc_round # 1

=============================================================================
