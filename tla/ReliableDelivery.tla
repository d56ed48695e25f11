-------------------------- MODULE ReliableDelivery --------------------------
(***************************************************************************)
(* What a caller of ReliableSender::send may rely on, for one peer.  The   *)
(* messages are numbered in the order they are sent.  A message is handled *)
(* by the peer at least once, unless its caller drops the CancelHandler,   *)
(* and for the first time after every earlier message; the handler is      *)
(* notified only of a message the peer has taken.                          *)
(***************************************************************************)
EXTENDS Naturals

VARIABLES sent,      \* how many messages were sent
          closed,    \* those whose CancelHandler was dropped
          delivered, \* those the peer's MessageHandler was given
          acked      \* those whose CancelHandler was notified

vars == <<sent, closed, delivered, acked>>

Init == sent = 0 /\ closed = {} /\ delivered = {} /\ acked = {}

Send ==
    /\ sent' = sent + 1
    /\ UNCHANGED <<closed, delivered, acked>>

Cancel ==
    /\ \E m \in 1 .. sent : closed' = closed \cup {m}
    /\ UNCHANGED <<sent, delivered, acked>>

\* What the network may do, for the modules that use it.
MayDeliver(m) == m \in 1 .. sent /\ \A k \in 1 .. m - 1 : k \in delivered \cup closed

MayAcknowledge(m) == m \in delivered

Deliver ==
    /\ \E m \in 1 .. sent : MayDeliver(m) /\ delivered' = delivered \cup {m}
    /\ UNCHANGED <<sent, closed, acked>>

Acknowledge ==
    /\ \E m \in 1 .. sent : MayAcknowledge(m) /\ acked' = acked \cup {m}
    /\ UNCHANGED <<sent, closed, delivered>>

Next == Send \/ Cancel \/ Deliver \/ Acknowledge

Spec == Init /\ [][Next]_vars

=============================================================================
