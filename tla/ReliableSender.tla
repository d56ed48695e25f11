--------------------------- MODULE ReliableSender ---------------------------
(***************************************************************************)
(* The reliable sender (network/src/reliable_sender.rs) and the Receiver   *)
(* of one peer (network/src/receiver.rs).  The caller sends messages and   *)
(* drops CancelHandlers; a Connection task connects, transmits, matches    *)
(* acknowledgements by their order and, when the TCP stream fails, keeps   *)
(* what is not acknowledged for the next one.  The peer has a task per     *)
(* stream: the frames of a stream that failed may be handled while or      *)
(* after those of the next.                                                *)
(*                                                                         *)
(* A message is its number in the order of the calls to send.  The delay   *)
(* before a retry is abstracted to its expiring some time.                 *)
(***************************************************************************)
EXTENDS Naturals, SequencesExt

CONSTANTS MaxMessages, \* the bound on the messages sent
          ChannelSize, \* the capacity of the channel to the Connection
          MaxCuts      \* the bound on the streams that fail

ASSUME SenderAssumption ==
    MaxMessages \in Nat /\ ChannelSize \in Nat \ {0} /\ MaxCuts \in Nat

Messages == 1 .. MaxMessages

VARIABLES
    \* the caller: messages sent, CancelHandlers dropped and notified
    sent, closed, acked,
    \* Connection: its channel, its buffer, the local pending_replies of
    \* keep_alive and where run is
    channel, buffer, pending_replies, phase,
    \* the current stream: frames to the peer, acknowledgements back, failed
    frames, acks, cut,
    \* the frames left in failed streams, the streams that failed, and what
    \* the peer's handler was given
    stale, cuts, delivered

caller == <<sent, closed, acked>>
connection == <<channel, buffer, pending_replies, phase>>
stream == <<frames, acks, cut>>
peer == <<stale, cuts, delivered>>
vars == <<caller, connection, stream, peer>>

Init ==
    /\ sent = 0 /\ closed = {} /\ acked = {}
    /\ channel = <<>> /\ buffer = <<>> /\ pending_replies = <<>>
    /\ phase = "connecting"
    /\ frames = <<>> /\ acks = 0 /\ cut = FALSE
    /\ stale = {} /\ cuts = 0 /\ delivered = {}

-----------------------------------------------------------------------------
(* The caller.                                                             *)

\* The call waits while the channel is full.
send ==
    /\ sent < MaxMessages
    /\ Len(channel) < ChannelSize
    /\ sent' = sent + 1
    /\ channel' = Append(channel, sent + 1)
    /\ UNCHANGED <<closed, acked, buffer, pending_replies, phase, stream, peer>>

\* The caller drops a CancelHandler it was not notified on.
Cancel ==
    /\ \E m \in (1 .. sent) \ (closed \cup acked) : closed' = closed \cup {m}
    /\ UNCHANGED <<sent, acked, connection, stream, peer>>

-----------------------------------------------------------------------------
(* Connection::run.                                                        *)

Connect ==
    /\ phase = "connecting"
    /\ phase' = "connected"
    /\ UNCHANGED <<caller, channel, buffer, pending_replies, stream, peer>>

FailToConnect ==
    /\ phase = "connecting"
    /\ phase' = "waiting"
    /\ UNCHANGED <<caller, channel, buffer, pending_replies, stream, peer>>

\* What buffer.retain leaves of a sequence of messages, in their order.
Retained(s) ==
    LET kept[i \in 0 .. Len(s)] ==
          IF i = 0 THEN <<>>
          ELSE IF s[i] \in closed THEN kept[i - 1] ELSE Append(kept[i - 1], s[i])
    IN  kept[Len(s)]

\* While it waits to retry it empties its channel and forgets what the caller
\* has cancelled.
Drain ==
    /\ phase = "waiting" /\ channel # <<>>
    /\ buffer' = Retained(Append(buffer, Head(channel)))
    /\ channel' = Tail(channel)
    /\ UNCHANGED <<caller, pending_replies, phase, stream, peer>>

\* Mutant of Retry: the connection is never tried again.
RetryNever == FALSE /\ UNCHANGED vars

Retry ==
    /\ phase = "waiting"
    /\ phase' = "connecting"
    /\ UNCHANGED <<caller, channel, buffer, pending_replies, stream, peer>>

-----------------------------------------------------------------------------
(* Connection::keep_alive.                                                 *)

\* Mutant of Unacknowledged: the messages are put back in the wrong order.
UnacknowledgedReversed(rest) == Reverse(pending_replies) \o rest

\* The messages without an acknowledgement go back in front of the buffer.
Unacknowledged(rest) == pending_replies \o rest

\* Mutant of Disconnect: the acknowledgements of the failed stream still count.
DisconnectKeepingAcks(rest) ==
    /\ phase' = "connecting"
    /\ buffer' = Unacknowledged(rest)
    /\ pending_replies' = <<>>
    /\ stale' = stale \cup ({frames} \ {<<>>})
    /\ frames' = <<>> /\ acks' = acks /\ cut' = FALSE

\* The stream is dropped.  The peer may still handle the frames that arrived.
Disconnect(rest) ==
    /\ phase' = "connecting"
    /\ buffer' = Unacknowledged(rest)
    /\ pending_replies' = <<>>
    /\ stale' = stale \cup ({frames} \ {<<>>})
    /\ frames' = <<>> /\ acks' = 0 /\ cut' = FALSE

Skip ==
    /\ phase = "connected" /\ buffer # <<>> /\ Head(buffer) \in closed
    /\ buffer' = Tail(buffer)
    /\ UNCHANGED <<caller, channel, pending_replies, phase, stream, peer>>

\* The write succeeds on a stream that has failed without our noticing.
Transmit ==
    /\ phase = "connected" /\ buffer # <<>> /\ Head(buffer) \notin closed
    /\ buffer' = Tail(buffer)
    /\ pending_replies' = Append(pending_replies, Head(buffer))
    /\ frames' = IF cut THEN frames ELSE Append(frames, Head(buffer))
    /\ UNCHANGED <<caller, channel, phase, acks, cut, peer>>

\* The message that could not be written goes back first.
FailToSend ==
    /\ phase = "connected" /\ buffer # <<>> /\ Head(buffer) \notin closed
    /\ cut
    /\ Disconnect(buffer)
    /\ UNCHANGED <<caller, channel, cuts, delivered>>

ReceiveMessage ==
    /\ phase = "connected" /\ buffer = <<>> /\ channel # <<>>
    /\ buffer' = Append(buffer, Head(channel))
    /\ channel' = Tail(channel)
    /\ UNCHANGED <<caller, pending_replies, phase, stream, peer>>

\* An acknowledgement is for the oldest message without one.
ReceiveAck ==
    /\ phase = "connected" /\ buffer = <<>>
    /\ acks > 0 /\ pending_replies # <<>>
    /\ acked' = acked \cup ({Head(pending_replies)} \ closed)
    /\ pending_replies' = Tail(pending_replies)
    /\ acks' = acks - 1
    /\ UNCHANGED <<sent, closed, channel, buffer, phase, frames, cut, peer>>

\* The stream works and brings no acknowledgement without a pending reply,
\* which would be an UnexpectedAck.
ExpectedReply == ~ cut /\ (acks > 0 => pending_replies # <<>>)

FailToReceiveAck ==
    /\ phase = "connected" /\ buffer = <<>>
    /\ ~ ExpectedReply
    /\ Disconnect(<<>>)
    /\ UNCHANGED <<caller, channel, cuts, delivered>>

-----------------------------------------------------------------------------
(* The network and the peer.                                               *)

\* The stream fails, or the peer's task ends.  Some of the frames in flight
\* may have arrived; nothing more passes in either direction.
Cut ==
    /\ phase = "connected" /\ ~ cut /\ cuts < MaxCuts
    /\ cut' = TRUE /\ cuts' = cuts + 1
    /\ \E k \in 0 .. Len(frames) : frames' = SubSeq(frames, 1, k)
    /\ UNCHANGED <<caller, connection, acks, stale, delivered>>

\* The runner of the stream reads a frame; its handler acknowledges it first,
\* which fails silently on a failed stream, and then forwards it.
dispatch ==
    /\ frames # <<>>
    /\ delivered' = delivered \cup {Head(frames)}
    /\ frames' = Tail(frames)
    /\ acks' = IF cut THEN acks ELSE acks + 1
    /\ UNCHANGED <<caller, connection, cut, stale, cuts>>

\* The same for the runner of a stream the sender has given up.
DispatchStale ==
    /\ \E s \in stale :
         /\ delivered' = delivered \cup {Head(s)}
         /\ stale' = (stale \ {s}) \cup ({Tail(s)} \ {<<>>})
    /\ UNCHANGED <<caller, connection, stream, cuts>>

Next ==
    \/ send \/ Cancel
    \/ Connect \/ FailToConnect \/ Drain \/ Retry
    \/ Skip \/ Transmit \/ FailToSend \/ ReceiveMessage \/ ReceiveAck \/ FailToReceiveAck
    \/ Cut \/ dispatch \/ DispatchStale

Spec == Init /\ [][Next]_vars

\* The runtime runs every task that can proceed, and the timer of a retry
\* expires.  The peer can be reached again and again: connecting succeeds if
\* it is tried often enough.
Fairness ==
    /\ WF_vars(Drain) /\ WF_vars(Retry) /\ SF_vars(Connect)
    /\ WF_vars(Skip) /\ WF_vars(Transmit \/ FailToSend)
    /\ WF_vars(ReceiveMessage) /\ WF_vars(ReceiveAck) /\ WF_vars(FailToReceiveAck)
    /\ WF_vars(dispatch)

FairSpec == Spec /\ Fairness

-----------------------------------------------------------------------------
(* Properties.                                                             *)

\* The type invariant of the connection, the stream and the peer.
TypeOK ==
    /\ sent \in 0 .. MaxMessages
    /\ closed \subseteq Messages /\ acked \subseteq Messages /\ delivered \subseteq Messages
    /\ channel \in Seq(Messages) /\ buffer \in Seq(Messages)
    /\ pending_replies \in Seq(Messages) /\ frames \in Seq(Messages)
    /\ phase \in {"connecting", "waiting", "connected"}
    /\ acks \in Nat /\ cut \in BOOLEAN /\ cuts \in 0 .. MaxCuts
    /\ \A s \in stale : s \in Seq(Messages) /\ s # <<>>

\* keep_alive never meets an acknowledgement it has no pending reply for while
\* the stream works, whatever failed and was sent again before.
AcksExpected == acks <= Len(pending_replies)

\* A CancelHandler is notified only if the peer was given that very message,
\* although an acknowledgement carries no identifier: QuorumWaiter counts
\* stake on it.
AckedIsDelivered == acked \subseteq delivered

\* The sender implements the promise of ReliableDelivery: first deliveries in
\* the order of sending, and notifications of delivered messages only.
Delivery == INSTANCE ReliableDelivery
                WITH sent <- sent, closed <- closed, delivered <- delivered, acked <- acked

ImplementsReliableDelivery == Delivery!Spec

\* Every message is acknowledged in the end unless its caller gives up.
EventuallyAcknowledged ==
    \A m \in Messages : (m <= sent) ~> (m \in acked \cup closed)

=============================================================================
