------------------------ MODULE ReliableSenderProofs ------------------------
(***************************************************************************)
(* An acknowledgement carries no identifier: the sender matches it with    *)
(* the oldest pending reply.  The first theorems are that this is right    *)
(* for any number of messages, failures and cancellations; they need       *)
(* nothing of the buffer, so there the messages are values of any set.     *)
(* The last one is that the sender implements ReliableDelivery, for which  *)
(* the queues and the streams are shown to be in the order of sending.     *)
(***************************************************************************)
EXTENDS ReliableSender, CommonProofs

\* The replies that are pending and the frames in flight are sequences.
Sequenced == \E S : pending_replies \in Seq(S) /\ frames \in Seq(S)

\* On a stream that works, the pending replies are the messages acknowledged
\* by the peer and then the frames in flight.
Counted ==
    /\ acks \in Nat
    /\ acks <= Len(pending_replies)
    /\ ~ cut => Len(pending_replies) = acks + Len(frames)

AckedFirst == \A i \in 1 .. acks : pending_replies[i] \in delivered

InFlight == ~ cut => \A i \in 1 .. Len(frames) : frames[i] = pending_replies[acks + i]

\* Nothing of a stream outlives it in the Connection.
FreshStream ==
    phase # "connected" =>
        pending_replies = <<>> /\ frames = <<>> /\ acks = 0 /\ cut = FALSE

AckInv == Sequenced /\ Counted /\ AckedFirst /\ InFlight /\ FreshStream /\ AckedIsDelivered

-----------------------------------------------------------------------------
(* The steps.                                                              *)

\* Init makes an empty stream.
LEMMA AckInit == Init => AckInv
  <1> SUFFICES ASSUME Init PROVE AckInv
    OBVIOUS
  <1>1. <<>> \in Seq({}) /\ Len(<<>>) = 0
    BY EmptySeq
  <1> QED
    BY <1>1 DEF Init, AckInv, Sequenced, Counted, AckedFirst, InFlight, FreshStream, AckedIsDelivered

\* keep_alive ends: the stream and its pending replies are gone.
LEMMA DisconnectAckInv ==
  ASSUME AckInv, NEW rest, Disconnect(rest), UNCHANGED <<caller, channel, cuts, delivered>>
  PROVE  AckInv'
  <1>1. <<>> \in Seq({}) /\ Len(<<>>) = 0
    BY EmptySeq
  <1> QED
    BY <1>1 DEF AckInv, Sequenced, Counted, AckedFirst, InFlight, FreshStream, AckedIsDelivered, Disconnect, caller

\* A written message is the last pending reply and the last frame.
LEMMA TransmitAckInv ==
  ASSUME AckInv, Transmit
  PROVE  AckInv'
  <1> DEFINE m == Head(buffer)
  <1>1. PICK S : pending_replies \in Seq(S) /\ frames \in Seq(S)
    BY DEF AckInv, Sequenced
  <1> DEFINE T == S \cup {m}
  <1>2. pending_replies \in Seq(T) /\ frames \in Seq(T) /\ m \in T
    <2>1. S \subseteq T
      OBVIOUS
    <2> QED
      BY <1>1, <2>1, SeqMonotonic
  <1> HIDE DEF T, m
  <1>3. /\ pending_replies' = Append(pending_replies, m)
        /\ frames' = IF cut THEN frames ELSE Append(frames, m)
        /\ acks' = acks /\ cut' = cut /\ delivered' = delivered /\ acked' = acked
        /\ phase = "connected" /\ phase' = phase
    BY DEF Transmit, m, caller, peer
  <1>4. pending_replies' \in Seq(T) /\ frames' \in Seq(T)
    BY <1>2, <1>3
  <1>5. /\ Len(pending_replies') = Len(pending_replies) + 1
        /\ \A i \in 1 .. Len(pending_replies) : pending_replies'[i] = pending_replies[i]
        /\ pending_replies'[Len(pending_replies) + 1] = m
        /\ Len(pending_replies) \in Nat /\ Len(frames) \in Nat
    BY <1>2, <1>3
  <1>6. ~ cut => /\ Len(frames') = Len(frames) + 1
                 /\ \A i \in 1 .. Len(frames) : frames'[i] = frames[i]
                 /\ frames'[Len(frames) + 1] = m
    BY <1>2, <1>3
  <1>7. Counted
    BY DEF AckInv
  <1>8. Counted'
    <2>1. acks' \in Nat /\ acks' <= Len(pending_replies')
      BY <1>3, <1>5, <1>7 DEF Counted
    <2>2. ~ cut => Len(pending_replies) = acks + Len(frames) /\ acks \in Nat
      BY <1>7 DEF Counted
    <2>3. ~ cut => Len(pending_replies') = acks' + Len(frames')
      BY <1>3, <1>5, <1>6, <2>2
    <2> QED
      BY <1>3, <2>1, <2>3 DEF Counted
  <1>9. AckedFirst'
    <2>1. \A i \in 1 .. acks : i \in 1 .. Len(pending_replies)
      BY <1>5, <1>7 DEF Counted
    <2> QED
      BY <1>3, <1>5, <2>1 DEF AckInv, AckedFirst
  <1>10. InFlight'
    <2>1. SUFFICES ASSUME ~ cut', NEW i \in 1 .. Len(frames')
                   PROVE  frames'[i] = pending_replies'[acks' + i]
      BY DEF InFlight
    <2>2. ~ cut /\ Len(pending_replies) = acks + Len(frames) /\ acks \in Nat
      BY <1>3, <1>7, <2>1 DEF Counted
    <2>3. CASE i = Len(frames) + 1
      BY <1>3, <1>5, <1>6, <2>2, <2>3
    <2>4. CASE i \in 1 .. Len(frames)
      <3>1. frames'[i] = frames[i] /\ acks + i \in 1 .. Len(pending_replies)
        BY <1>5, <1>6, <2>2, <2>4
      <3>2. frames[i] = pending_replies[acks + i]
        BY <2>2, <2>4 DEF AckInv, InFlight
      <3> QED
        BY <1>3, <1>5, <3>1, <3>2
    <2> QED
      BY <1>5, <1>6, <2>1, <2>2, <2>3, <2>4
  <1> QED
    BY <1>3, <1>4, <1>8, <1>9, <1>10 DEF AckInv, Sequenced, FreshStream, AckedIsDelivered

\* The oldest pending reply is one the peer was given.
LEMMA ReceiveAckAckInv ==
  ASSUME AckInv, ReceiveAck
  PROVE  AckInv'
  <1>1. PICK S : pending_replies \in Seq(S) /\ frames \in Seq(S)
    BY DEF AckInv, Sequenced
  <1>2. /\ pending_replies' = Tail(pending_replies)
        /\ frames' = frames /\ cut' = cut /\ delivered' = delivered
        /\ acks' = acks - 1 /\ acks > 0
        /\ phase = "connected" /\ phase' = phase
        /\ acked' = acked \cup ({Head(pending_replies)} \ closed)
    BY DEF ReceiveAck, peer
  <1>3. /\ acks \in Nat /\ acks <= Len(pending_replies)
        /\ Len(pending_replies) \in Nat /\ Len(frames) \in Nat
    BY <1>1 DEF AckInv, Counted
  <1>4. pending_replies # <<>>
    BY <1>1, <1>2, <1>3
  <1>5. /\ Tail(pending_replies) \in Seq(S)
        /\ Len(Tail(pending_replies)) = Len(pending_replies) - 1
        /\ \A i \in 1 .. Len(pending_replies) - 1 :
               Tail(pending_replies)[i] = pending_replies[i + 1]
        /\ Head(pending_replies) = pending_replies[1]
    BY <1>1, <1>4
  <1>6. Head(pending_replies) \in delivered
    <2>1. 1 \in 1 .. acks
      BY <1>2, <1>3
    <2> QED
      BY <1>5, <2>1 DEF AckInv, AckedFirst
  <1>7. ~ cut => Len(pending_replies) = acks + Len(frames)
    BY DEF AckInv, Counted
  <1>8. Counted'
    <2>1. acks' \in Nat /\ acks' <= Len(pending_replies')
      BY <1>2, <1>3, <1>5
    <2>2. Len(pending_replies') = Len(pending_replies) - 1 /\ Len(frames') = Len(frames)
      BY <1>2, <1>5
    <2>3. ~ cut => Len(pending_replies') = acks' + Len(frames')
      <3>1. acks' = acks - 1
        BY <1>2
      <3> QED
        BY <1>3, <1>7, <2>2, <3>1
    <2> QED
      BY <1>2, <2>1, <2>3 DEF Counted
  <1>9. AckedFirst'
    <2>1. SUFFICES ASSUME NEW i \in 1 .. acks'
                   PROVE  pending_replies'[i] \in delivered'
      BY DEF AckedFirst
    <2>2. i + 1 \in 1 .. acks /\ i \in 1 .. Len(pending_replies) - 1
      BY <1>2, <1>3
    <2>3. pending_replies'[i] = pending_replies[i + 1]
      BY <1>2, <1>5, <2>2
    <2> QED
      BY <1>2, <2>2, <2>3 DEF AckInv, AckedFirst
  <1>10. InFlight'
    <2>1. SUFFICES ASSUME ~ cut', NEW i \in 1 .. Len(frames')
                   PROVE  frames'[i] = pending_replies'[acks' + i]
      BY DEF InFlight
    <2>2. ~ cut /\ i \in 1 .. Len(frames) /\ Len(pending_replies) = acks + Len(frames)
      BY <1>2, <1>7, <2>1
    <2>3. acks' + i \in 1 .. Len(pending_replies) - 1 /\ acks' + i + 1 = acks + i
      BY <1>2, <1>3, <2>2
    <2>4. pending_replies'[acks' + i] = pending_replies[acks + i]
      BY <1>2, <1>5, <2>3
    <2> QED
      BY <1>2, <2>2, <2>4 DEF AckInv, InFlight
  <1>11. AckedIsDelivered'
    BY <1>2, <1>6 DEF AckInv, AckedIsDelivered
  <1> QED
    BY <1>1, <1>2, <1>5, <1>8, <1>9, <1>10, <1>11 DEF AckInv, Sequenced, FreshStream

\* A failed stream loses frames; the pending replies stay.
LEMMA CutAckInv ==
  ASSUME AckInv, Cut
  PROVE  AckInv'
  <1>1. PICK S : pending_replies \in Seq(S) /\ frames \in Seq(S)
    BY DEF AckInv, Sequenced
  <1>2. PICK k \in 0 .. Len(frames) : frames' = SubSeq(frames, 1, k)
    BY DEF Cut
  <1>3. /\ frames' \in Seq(S)
        /\ pending_replies' = pending_replies /\ acks' = acks /\ cut' = TRUE
        /\ delivered' = delivered /\ acked' = acked
        /\ phase = "connected" /\ phase' = phase
    BY <1>1, <1>2 DEF Cut, connection, caller
  <1> QED
    BY <1>1, <1>3 DEF AckInv, Sequenced, Counted, AckedFirst, InFlight, FreshStream, AckedIsDelivered

\* The frame the peer acknowledges is the next pending reply.
LEMMA DispatchAckInv ==
  ASSUME AckInv, dispatch
  PROVE  AckInv'
  <1>1. PICK S : pending_replies \in Seq(S) /\ frames \in Seq(S)
    BY DEF AckInv, Sequenced
  <1>2. /\ pending_replies' = pending_replies /\ phase' = phase
        /\ frames # <<>> /\ frames' = Tail(frames) /\ cut' = cut
        /\ acks' = (IF cut THEN acks ELSE acks + 1)
        /\ delivered' = delivered \cup {Head(frames)} /\ acked' = acked
    BY DEF dispatch, connection, caller
  <1>3. /\ Tail(frames) \in Seq(S) /\ Len(Tail(frames)) = Len(frames) - 1 /\ Len(frames) >= 1
        /\ \A i \in 1 .. Len(frames) - 1 : Tail(frames)[i] = frames[i + 1]
        /\ Head(frames) = frames[1]
    BY <1>1, <1>2
  <1>4. /\ acks \in Nat /\ acks <= Len(pending_replies)
        /\ Len(pending_replies) \in Nat /\ Len(frames) \in Nat
    BY <1>1 DEF AckInv, Counted
  <1>5. ~ cut => Len(pending_replies) = acks + Len(frames)
    BY DEF AckInv, Counted
  <1>6. Counted'
    <2>1. acks' \in Nat /\ acks' <= Len(pending_replies')
      BY <1>2, <1>3, <1>4, <1>5
    <2>2. ~ cut => Len(pending_replies') = acks' + Len(frames')
      BY <1>2, <1>3, <1>4, <1>5
    <2> QED
      BY <1>2, <2>1, <2>2 DEF Counted
  <1>7. AckedFirst'
    <2>1. \A i \in 1 .. acks : pending_replies[i] \in delivered'
      BY <1>2 DEF AckInv, AckedFirst
    <2>2. CASE cut
      BY <1>2, <2>1, <2>2 DEF AckedFirst
    <2>3. CASE ~ cut
      <3>1. pending_replies[acks + 1] = Head(frames)
        <4>1. 1 \in 1 .. Len(frames)
          BY <1>3, <1>4
        <4> QED
          BY <1>3, <2>3, <4>1 DEF AckInv, InFlight
      <3>2. acks' = acks + 1
        BY <1>2, <2>3
      <3> QED
        BY <1>2, <1>4, <2>1, <3>1, <3>2 DEF AckedFirst
    <2> QED
      BY <2>2, <2>3
  <1>8. InFlight'
    <2>1. SUFFICES ASSUME ~ cut', NEW i \in 1 .. Len(frames')
                   PROVE  frames'[i] = pending_replies'[acks' + i]
      BY DEF InFlight
    <2>2. ~ cut /\ acks' = acks + 1
      BY <1>2, <2>1
    <2>3. i \in 1 .. Len(frames) - 1 /\ i + 1 \in 1 .. Len(frames) /\ acks' + i = acks + (i + 1)
      BY <1>2, <1>3, <1>4, <2>2
    <2>4. frames'[i] = frames[i + 1]
      BY <1>2, <1>3, <2>3
    <2>5. frames[i + 1] = pending_replies[acks + (i + 1)]
      BY <2>2, <2>3 DEF AckInv, InFlight
    <2> QED
      BY <1>2, <2>3, <2>4, <2>5
  <1> QED
    BY <1>1, <1>2, <1>3, <1>6, <1>7, <1>8 DEF AckInv, Sequenced, FreshStream, AckedIsDelivered

\* Every step of the caller, the Connection, the network and the peer
\* preserves the invariant.
LEMMA AckStep == AckInv /\ [Next]_vars => AckInv'
  <1> SUFFICES ASSUME AckInv, [Next]_vars PROVE AckInv'
    OBVIOUS
  <1> USE DEF AckInv, Sequenced, Counted, AckedFirst, InFlight, FreshStream, AckedIsDelivered,
              caller, connection, stream, peer
  <1>1. CASE send \/ Cancel
    BY <1>1 DEF send, Cancel
  <1>2. CASE Connect \/ FailToConnect \/ Drain \/ Retry
    BY <1>2 DEF Connect, FailToConnect, Drain, Retry
  <1>3. CASE Skip \/ ReceiveMessage
    BY <1>3 DEF Skip, ReceiveMessage
  <1>4. CASE Transmit
    BY <1>4, TransmitAckInv
  <1>5. CASE FailToSend \/ FailToReceiveAck
    BY <1>5, DisconnectAckInv DEF FailToSend, FailToReceiveAck
  <1>6. CASE ReceiveAck
    BY <1>6, ReceiveAckAckInv
  <1>7. CASE Cut
    BY <1>7, CutAckInv
  <1>8. CASE dispatch
    BY <1>8, DispatchAckInv
  <1>9. CASE DispatchStale
    BY <1>9 DEF DispatchStale
  <1>10. CASE UNCHANGED vars
    BY <1>10 DEF vars
  <1> QED
    BY <1>1, <1>2, <1>3, <1>4, <1>5, <1>6, <1>7, <1>8, <1>9, <1>10 DEF Next

-----------------------------------------------------------------------------
(* The order of the messages.                                              *)

\* Whatever was sent before a message of the sequence is in the set or ahead of
\* the message in the sequence.
Ordered(s, T) ==
    \A i \in 1 .. Len(s) : \A k \in 1 .. s[i] - 1 :
        k \in T \/ \E j \in 1 .. i - 1 : s[j] = k

\* A larger set orders more sequences.
LEMMA OrderedIn ==
  ASSUME NEW s, NEW T, NEW U, Ordered(s, T), T \subseteq U
  PROVE  Ordered(s, U)
  BY DEF Ordered

LEMMA OrderedAppend ==
  ASSUME NEW s \in Seq(Nat), NEW m \in Nat, NEW T, Ordered(s, T),
         \A k \in 1 .. m - 1 : k \in T \cup ToSet(s)
  PROVE  Ordered(Append(s, m), T)
  <1>1. /\ Len(Append(s, m)) = Len(s) + 1 /\ Len(s) \in Nat
        /\ \A i \in 1 .. Len(s) : Append(s, m)[i] = s[i]
        /\ Append(s, m)[Len(s) + 1] = m
    OBVIOUS
  <1> SUFFICES ASSUME NEW i \in 1 .. Len(s) + 1, NEW k \in 1 .. Append(s, m)[i] - 1, k \notin T
               PROVE  \E j \in 1 .. i - 1 : Append(s, m)[j] = k
    BY <1>1 DEF Ordered
  <1>2. CASE i = Len(s) + 1
    <2>1. PICK j \in 1 .. Len(s) : s[j] = k
      BY <1>1, <1>2 DEF ToSet
    <2> QED
      BY <1>1, <1>2, <2>1
  <1>3. CASE i \in 1 .. Len(s)
    <2>1. PICK j \in 1 .. i - 1 : s[j] = k
      BY <1>1, <1>3 DEF Ordered
    <2> QED
      BY <1>1, <1>3, <2>1
  <1> QED
    BY <1>1, <1>2, <1>3

LEMMA OrderedTail ==
  ASSUME NEW s \in Seq(Nat), s # <<>>, NEW T, Ordered(s, T)
  PROVE  Ordered(Tail(s), T \cup {Head(s)}) /\ \A k \in 1 .. Head(s) - 1 : k \in T
  <1>1. /\ Len(Tail(s)) = Len(s) - 1 /\ Len(s) \in Nat /\ Len(s) >= 1
        /\ \A i \in 1 .. Len(s) - 1 : Tail(s)[i] = s[i + 1]
        /\ Head(s) = s[1]
    OBVIOUS
  <1>2. \A k \in 1 .. Head(s) - 1 : k \in T
    BY <1>1 DEF Ordered
  <1>3. ASSUME NEW i \in 1 .. Len(s) - 1, NEW k \in 1 .. Tail(s)[i] - 1, k \notin T \cup {Head(s)}
        PROVE  \E j \in 1 .. i - 1 : Tail(s)[j] = k
    <2>1. i + 1 \in 1 .. Len(s) /\ Tail(s)[i] = s[i + 1]
      BY <1>1
    <2>2. PICK j \in 1 .. i : s[j] = k
      <3>1. k \in 1 .. s[i + 1] - 1 /\ k \notin T /\ (i + 1) - 1 = i
        BY <1>3, <2>1
      <3> QED
        BY <2>1, <3>1 DEF Ordered
    <2>3. j # 1 /\ j - 1 \in 1 .. i - 1 /\ j - 1 \in 1 .. Len(s) - 1 /\ (j - 1) + 1 = j
      BY <1>1, <1>3, <2>2
    <2>4. Tail(s)[j - 1] = s[j]
      BY <1>1, <2>3
    <2> QED
      BY <2>2, <2>3, <2>4
  <1> QED
    BY <1>1, <1>2, <1>3 DEF Ordered

LEMMA OrderedPrefix ==
  ASSUME NEW s \in Seq(Nat), NEW k \in 0 .. Len(s), NEW T, Ordered(s, T)
  PROVE  Ordered(SubSeq(s, 1, k), T)
  <1>1. /\ Len(s) \in Nat /\ Len(SubSeq(s, 1, k)) = k
        /\ \A i \in 1 .. k : SubSeq(s, 1, k)[i] = s[i]
    OBVIOUS
  <1> DEFINE p == SubSeq(s, 1, k)
  <1> HIDE DEF p
  <1>2. ASSUME NEW i \in 1 .. Len(p), NEW l \in 1 .. p[i] - 1, l \notin T
        PROVE  \E j \in 1 .. i - 1 : p[j] = l
    <2>1. i \in 1 .. Len(s) /\ i \in 1 .. k /\ p[i] = s[i]
      BY <1>1 DEF p
    <2>2. PICK j \in 1 .. i - 1 : s[j] = l
      BY <1>2, <2>1 DEF Ordered
    <2>3. j \in 1 .. k
      BY <2>1
    <2>4. p[j] = s[j]
      BY <1>1, <2>3 DEF p
    <2> QED
      BY <2>2, <2>4
  <1>3. Ordered(p, T)
    BY <1>2 DEF Ordered
  <1> QED
    BY <1>3 DEF p

LEMMA OrderedConcat ==
  ASSUME NEW s \in Seq(Nat), NEW r \in Seq(Nat), NEW T,
         Ordered(s, T), Ordered(r, T \cup ToSet(s))
  PROVE  Ordered(s \o r, T)
  <1>1. /\ Len(s \o r) = Len(s) + Len(r) /\ Len(s) \in Nat /\ Len(r) \in Nat
        /\ \A i \in 1 .. Len(s) + Len(r) :
             (s \o r)[i] = IF i <= Len(s) THEN s[i] ELSE r[i - Len(s)]
    BY ConcatProperties
  <1> DEFINE c == s \o r
  <1> HIDE DEF c
  <1>2. /\ \A i \in 1 .. Len(s) : i \in 1 .. Len(c) /\ c[i] = s[i]
        /\ \A i \in 1 .. Len(r) : Len(s) + i \in 1 .. Len(c) /\ c[Len(s) + i] = r[i]
    BY <1>1 DEF c
  <1> SUFFICES ASSUME NEW i \in 1 .. Len(s) + Len(r), NEW k \in 1 .. c[i] - 1, k \notin T
               PROVE  \E j \in 1 .. i - 1 : c[j] = k
    BY <1>1 DEF Ordered, c
  <1>3. CASE i <= Len(s)
    <2>0. i \in 1 .. Len(s) /\ c[i] = s[i]
      BY <1>1, <1>2, <1>3
    <2>1. PICK j \in 1 .. i - 1 : s[j] = k
      BY <2>0 DEF Ordered
    <2>2. j \in 1 .. Len(s)
      BY <1>1, <1>3
    <2> QED
      BY <1>2, <2>1, <2>2
  <1>4. CASE i > Len(s)
    <2>1. i - Len(s) \in 1 .. Len(r) /\ c[i] = r[i - Len(s)]
      BY <1>1, <1>4 DEF c
    <2>2. CASE k \in ToSet(s)
      <3>1. PICK j \in 1 .. Len(s) : s[j] = k
        <4>1. ToSet(s) = {s[j] : j \in 1 .. Len(s)}
          BY ToSetLen
        <4>2. k \in {s[j] : j \in 1 .. Len(s)}
          BY <2>2, <4>1
        <4> QED
          BY <4>2, Zenon
      <3>2. j \in 1 .. i - 1
        BY <1>1, <1>4
      <3> QED
        BY <1>2, <3>1, <3>2
    <2>3. CASE k \notin ToSet(s)
      <3>1. PICK j \in 1 .. (i - Len(s)) - 1 : r[j] = k
        BY <2>1, <2>3 DEF Ordered
      <3>2. j \in 1 .. Len(r) /\ Len(s) + j \in 1 .. i - 1
        BY <1>1, <2>1, <3>1
      <3> QED
        BY <1>2, <3>1, <3>2
    <2> QED
      BY <2>2, <2>3
  <1> QED
    BY <1>1, <1>3, <1>4

\* Retained passes over the sequence: there is a function of the form that its
\* definition asks for.
LEMMA RetainedDef ==
  ASSUME NEW s \in Seq(Nat)
  PROVE  \E f : /\ f = [i \in 0 .. Len(s) |->
                          IF i = 0 THEN <<>>
                          ELSE IF s[i] \in closed THEN f[i - 1] ELSE Append(f[i - 1], s[i])]
                /\ Retained(s) = f[Len(s)]
  <1> DEFINE Step(f, i) == IF s[i] \in closed THEN f[i - 1] ELSE Append(f[i - 1], s[i])
             Passes(f, n) == f = [i \in 0 .. n |-> IF i = 0 THEN <<>> ELSE Step(f, i)]
             Good == {n \in Nat : \E f : Passes(f, n)}
  <1>1. 0 \in Good
    <2> DEFINE f == [i \in 0 .. 0 |-> <<>>]
    <2>1. Passes(f, 0)
      OBVIOUS
    <2> QED
      BY <2>1
  <1>2. ASSUME NEW n \in Nat, n \in Good PROVE n + 1 \in Good
    <2>1. PICK f : Passes(f, n)
      BY <1>2
    <2> DEFINE g == [i \in 0 .. n + 1 |-> IF i <= n THEN f[i] ELSE Step(f, i)]
    <2>2. \A i \in 0 .. n : g[i] = f[i]
      OBVIOUS
    <2>3. \A i \in 0 .. n + 1 : g[i] = IF i = 0 THEN <<>> ELSE Step(g, i)
      <3> SUFFICES ASSUME NEW i \in 0 .. n + 1 PROVE g[i] = IF i = 0 THEN <<>> ELSE Step(g, i)
        OBVIOUS
      <3>1. CASE i <= n
        <4>1. i \in 0 .. n /\ (i # 0 => i - 1 \in 0 .. n)
          BY <3>1
        <4>2. f[i] = IF i = 0 THEN <<>> ELSE Step(f, i)
          BY <2>1, <4>1
        <4> HIDE DEF g
        <4> QED
          BY <2>2, <4>1, <4>2
      <3>2. CASE i = n + 1
        <4>1. g[i] = Step(f, i) /\ i # 0 /\ i - 1 \in 0 .. n
          BY <3>2
        <4> HIDE DEF g
        <4> QED
          BY <2>2, <4>1
      <3> QED
        BY <3>1, <3>2
    <2>4. DOMAIN g = 0 .. n + 1 /\ g = [i \in 0 .. n + 1 |-> g[i]]
      OBVIOUS
    <2> HIDE DEF g
    <2>5. Passes(g, n + 1)
      BY <2>3, <2>4
    <2> HIDE DEF Passes
    <2> QED
      BY <2>5
  <1> HIDE DEF Good
  <1>3. \A n \in Nat : n \in Good
    BY <1>1, <1>2, SetInduction
  <1>4. \E f : Passes(f, Len(s))
    <2> HIDE DEF Passes
    <2>1. Len(s) \in Nat
      OBVIOUS
    <2>2. Len(s) \in Good
      BY <1>3, <2>1
    <2> QED
      BY <2>2 DEF Good
  <1> DEFINE kept == CHOOSE f : Passes(f, Len(s))
  <1>5. Passes(kept, Len(s))
    <2> HIDE DEF Passes
    <2> QED
      BY <1>4
  <1>6. Retained(s) = kept[Len(s)]
    BY DEF Retained
  <1> HIDE DEF kept
  <1> QED
    BY <1>5, <1>6

\* buffer.retain keeps the order, and drops only what is cancelled.
LEMMA OrderedRetained ==
  ASSUME NEW S \in SUBSET Nat, NEW s \in Seq(S), NEW T, Ordered(s, T), closed \subseteq T
  PROVE  /\ Retained(s) \in Seq(S)
         /\ Ordered(Retained(s), T)
         /\ ToSet(s) \subseteq closed \cup ToSet(Retained(s))
  <1> S \subseteq Nat
    OBVIOUS
  <1>0. s \in Seq(Nat) /\ Len(s) \in Nat /\ \A i \in 1 .. Len(s) : s[i] \in S
    <2>1. Seq(S) \subseteq Seq(Nat)
      BY SeqMonotonic
    <2> QED
      BY <2>1
  <1>1. PICK f : /\ f = [i \in 0 .. Len(s) |->
                           IF i = 0 THEN <<>>
                           ELSE IF s[i] \in closed THEN f[i - 1] ELSE Append(f[i - 1], s[i])]
                 /\ Retained(s) = f[Len(s)]
    BY <1>0, RetainedDef
  <1> DEFINE Keeps(n) == /\ f[n] \in Seq(S)
                         /\ Ordered(f[n], T)
                         /\ \A j \in 1 .. n : s[j] \in closed \cup ToSet(f[n])
             Good == {n \in Nat : n <= Len(s) => Keeps(n)}
  <1>2. 0 \in Good
    <2>1. f[0] = <<>>
      BY <1>0, <1>1
    <2>2. <<>> \in Seq(S) /\ Ordered(<<>>, T)
      BY EmptySeq DEF Ordered
    <2>3. Keeps(0)
      BY <2>1, <2>2
    <2> QED
      BY <2>3
  <1>3. ASSUME NEW n \in Nat, n \in Good PROVE n + 1 \in Good
    <2> SUFFICES ASSUME n + 1 <= Len(s) PROVE Keeps(n + 1)
      OBVIOUS
    <2>1. Keeps(n)
      BY <1>0, <1>3
    <2> DEFINE m == s[n + 1]
    <2>2. /\ m \in S /\ m \in Nat /\ n + 1 \in 0 .. Len(s) /\ (n + 1) - 1 = n /\ n + 1 # 0
          /\ \A j \in 1 .. n + 1 : j \in 1 .. n \/ j = n + 1
      BY <1>0
    <2>3. f[n + 1] = IF m \in closed THEN f[n] ELSE Append(f[n], m)
      BY <1>1, <2>2
    <2> HIDE DEF Good
    <2>4. CASE m \in closed
      BY <2>1, <2>2, <2>3, <2>4
    <2>5. CASE m \notin closed
      <3>1. f[n + 1] = Append(f[n], m)
        BY <2>3, <2>5
      <3>2. Append(f[n], m) \in Seq(S) /\ f[n] \in Seq(Nat)
        <4>1. Seq(S) \subseteq Seq(Nat)
          BY SeqMonotonic
        <4> QED
          BY <2>1, <2>2, <4>1
      <3>3. \A k \in 1 .. m - 1 : k \in T \cup ToSet(f[n])
        <4> SUFFICES ASSUME NEW k \in 1 .. m - 1, k \notin T PROVE k \in ToSet(f[n])
          OBVIOUS
        <4>1. PICK j \in 1 .. (n + 1) - 1 : s[j] = k
          BY <1>0, <2>2 DEF Ordered
        <4> QED
          BY <2>1, <2>2, <4>1
      <3>4. Ordered(Append(f[n], m), T)
        BY <2>1, <2>2, <3>2, <3>3, OrderedAppend
      <3>5. ToSet(Append(f[n], m)) = ToSet(f[n]) \cup {m}
        BY <2>1, <2>2, ToSetAppend
      <3> QED
        BY <2>1, <2>2, <3>1, <3>2, <3>4, <3>5
    <2> QED
      BY <2>4, <2>5
  <1> HIDE DEF Good
  <1>4. \A n \in Nat : n \in Good
    BY <1>2, <1>3, SetInduction
  <1>5. Keeps(Len(s))
    BY <1>0, <1>4 DEF Good
  <1>6. ToSet(s) \subseteq closed \cup ToSet(f[Len(s)])
    BY <1>0, <1>5, ToSetLen
  <1> QED
    BY <1>1, <1>5, <1>6

\* The messages that need not reach the peer any more.
Handled == delivered \cup closed

\* The queues of the Connection and the streams hold messages that were sent.
Queued ==
    /\ sent \in Nat
    /\ channel \in Seq(1 .. sent) /\ buffer \in Seq(1 .. sent)
    /\ pending_replies \in Seq(1 .. sent) /\ frames \in Seq(1 .. sent)
    /\ \A s \in stale : s \in Seq(1 .. sent) /\ s # <<>>

\* pending_replies, buffer and channel, one after the other, have every message
\* that is not handled, in the order of sending.
InOrder ==
    /\ Ordered(pending_replies, Handled)
    /\ Ordered(buffer, Handled \cup ToSet(pending_replies))
    /\ Ordered(channel, Handled \cup ToSet(pending_replies) \cup ToSet(buffer))
    /\ 1 .. sent \subseteq Handled \cup ToSet(pending_replies) \cup ToSet(buffer)
                                   \cup ToSet(channel)

\* A stream, failed or not, brings no message before those sent earlier.
StreamsInOrder ==
    /\ Ordered(frames, Handled)
    /\ \A s \in stale : Ordered(s, Handled)

OrderInv == AckInv /\ Queued /\ InOrder /\ StreamsInOrder

LEMMA OrderInit == Init => OrderInv
  <1> SUFFICES ASSUME Init PROVE OrderInv
    OBVIOUS
  <1>1. <<>> \in Seq(1 .. 0) /\ ToSet(<<>>) = {} /\ \A T : Ordered(<<>>, T)
    BY EmptySeq DEF ToSet, Ordered
  <1> QED
    BY <1>1, AckInit DEF Init, OrderInv, Queued, InOrder, StreamsInOrder

\* The messages are numbers.
LEMMA QueuedNumbers ==
  ASSUME Queued
  PROVE  Seq(1 .. sent) \subseteq Seq(Nat)
  <1>1. 1 .. sent \subseteq Nat
    BY DEF Queued
  <1> QED
    BY <1>1, SeqMonotonic

\* More is handled, nothing moves.
LEMMA HandledOrder ==
  ASSUME Queued, InOrder, StreamsInOrder, Handled \subseteq Handled',
         UNCHANGED <<sent, channel, buffer, pending_replies, frames, stale>>
  PROVE  Queued' /\ InOrder' /\ StreamsInOrder'
  <1>1. Queued'
    BY DEF Queued
  <1>2. InOrder'
    <2> DEFINE P == ToSet(pending_replies)
               B == ToSet(buffer)
               C == ToSet(channel)
    <2> HIDE DEF P, B, C
    <2>1. P' = P /\ B' = B /\ C' = C
      BY DEF P, B, C
    <2>2. /\ Ordered(pending_replies, Handled)
          /\ Ordered(buffer, Handled \cup P)
          /\ Ordered(channel, Handled \cup P \cup B)
          /\ 1 .. sent \subseteq Handled \cup P \cup B \cup C
      BY DEF InOrder, P, B, C
    <2>3. /\ Ordered(pending_replies, Handled')
          /\ Ordered(buffer, Handled' \cup P)
          /\ Ordered(channel, Handled' \cup P \cup B)
          /\ 1 .. sent \subseteq Handled' \cup P \cup B \cup C
      <3>1. /\ Handled \cup P \subseteq Handled' \cup P
            /\ Handled \cup P \cup B \subseteq Handled' \cup P \cup B
        OBVIOUS
      <3> QED
        BY <2>2, <3>1, OrderedIn
    <2> QED
      BY <2>1, <2>3 DEF InOrder, P, B, C
  <1>3. StreamsInOrder'
    BY OrderedIn DEF StreamsInOrder
  <1> QED
    BY <1>1, <1>2, <1>3

\* A message that is sent goes behind all others.
LEMMA SendOrder ==
  ASSUME Queued, InOrder, StreamsInOrder, send
  PROVE  Queued' /\ InOrder' /\ StreamsInOrder'
  <1> DEFINE m == sent + 1
  <1>1. /\ sent' = m /\ channel' = Append(channel, m)
        /\ UNCHANGED <<delivered, closed, buffer, pending_replies, frames, stale>>
    BY DEF send, stream, peer
  <1>2. sent \in Nat /\ m \in Nat /\ 1 .. sent \subseteq 1 .. m /\ m \in 1 .. m /\ 1 .. m = (1 .. sent) \cup {m}
    BY DEF Queued
  <1>3. Seq(1 .. sent) \subseteq Seq(1 .. m) /\ Seq(1 .. sent) \subseteq Seq(Nat)
    BY <1>2, SeqMonotonic, QueuedNumbers
  <1>4. channel \in Seq(1 .. m) /\ channel \in Seq(Nat)
    BY <1>3 DEF Queued
  <1>5. Queued'
    <2>1. Append(channel, m) \in Seq(1 .. m)
      BY <1>2, <1>4
    <2> QED
      BY <1>1, <1>2, <1>3, <2>1 DEF Queued
  <1> DEFINE T == Handled \cup ToSet(pending_replies) \cup ToSet(buffer)
  <1>6. Ordered(channel, T) /\ 1 .. sent \subseteq T \cup ToSet(channel)
    BY DEF InOrder
  <1>7. T' = T
    BY <1>1 DEF Handled
  <1> HIDE DEF T
  <1>8. Ordered(Append(channel, m), T)
    <2>1. \A k \in 1 .. m - 1 : k \in T \cup ToSet(channel)
      BY <1>2, <1>6
    <2> QED
      BY <1>2, <1>4, <1>6, <2>1, OrderedAppend
  <1>9. ToSet(Append(channel, m)) = ToSet(channel) \cup {m}
    BY <1>2, <1>4, ToSetAppend
  <1>10. 1 .. m \subseteq T \cup ToSet(Append(channel, m))
    BY <1>2, <1>6, <1>9
  <1>11. InOrder'
    <2>1. Ordered(channel', T') /\ 1 .. sent' \subseteq T' \cup ToSet(channel')
      BY <1>1, <1>7, <1>8, <1>10
    <2> QED
      BY <1>1, <2>1 DEF InOrder, Handled, T
  <1>12. StreamsInOrder'
    BY <1>1 DEF StreamsInOrder, Handled
  <1> QED
    BY <1>5, <1>11, <1>12

\* The oldest message of the channel becomes the youngest of the buffer, which
\* may be relieved of what is cancelled.
LEMMA ReceiveOrder ==
  ASSUME Queued, InOrder, StreamsInOrder, channel # <<>>, channel' = Tail(channel),
         UNCHANGED <<sent, delivered, closed, pending_replies, frames, stale>>,
         \/ buffer' = Append(buffer, Head(channel))
         \/ buffer' = Retained(Append(buffer, Head(channel)))
  PROVE  Queued' /\ InOrder' /\ StreamsInOrder'
  <1> DEFINE m == Head(channel)
             S == 1 .. sent
             T == Handled \cup ToSet(pending_replies)
  <1>1. S \subseteq Nat /\ Seq(S) \subseteq Seq(Nat) /\ sent \in Nat
    BY QueuedNumbers DEF Queued
  <1>2. channel \in Seq(S) /\ buffer \in Seq(S) /\ m \in S /\ Tail(channel) \in Seq(S)
    BY DEF Queued
  <1>3. T' = T
    BY DEF Handled
  <1>4. Ordered(buffer, T) /\ Ordered(channel, T \cup ToSet(buffer))
        /\ S \subseteq T \cup ToSet(buffer) \cup ToSet(channel) /\ closed \subseteq T
    BY DEF InOrder, Handled
  <1>5. UNCHANGED <<sent, S>>
    OBVIOUS
  <1> HIDE DEF T, S, m
  <1>6. /\ Ordered(Tail(channel), T \cup ToSet(buffer) \cup {m})
        /\ \A k \in 1 .. m - 1 : k \in T \cup ToSet(buffer)
    BY <1>1, <1>2, <1>4, OrderedTail DEF m
  <1>7. ToSet(channel) = {m} \cup ToSet(Tail(channel))
    BY <1>2, ToSetTail DEF m
  <1>8. Append(buffer, m) \in Seq(S) /\ Ordered(Append(buffer, m), T)
        /\ ToSet(Append(buffer, m)) = ToSet(buffer) \cup {m}
    BY <1>1, <1>2, <1>4, <1>6, OrderedAppend, ToSetAppend
  <1>9. /\ buffer' \in Seq(S) /\ Ordered(buffer', T)
        /\ ToSet(Append(buffer, m)) \subseteq T \cup ToSet(buffer')
    <2>1. CASE buffer' = Append(buffer, m)
      BY <1>8, <2>1
    <2>2. CASE buffer' = Retained(Append(buffer, m))
      BY <1>1, <1>4, <1>8, <2>2, OrderedRetained
    <2> QED
      BY <2>1, <2>2 DEF m
  <1>10. Ordered(channel', T \cup ToSet(buffer'))
    <2>1. T \cup ToSet(buffer) \cup {m} \subseteq T \cup ToSet(buffer')
      BY <1>8, <1>9
    <2> QED
      BY <1>6, <2>1, OrderedIn
  <1>11. S \subseteq T \cup ToSet(buffer') \cup ToSet(channel')
    BY <1>4, <1>7, <1>8, <1>9
  <1>12. Queued'
    <2>1. channel' \in Seq(S) /\ buffer' \in Seq(S)
      BY <1>2, <1>9
    <2> QED
      BY <2>1 DEF Queued, S
  <1>13. InOrder'
    <2>1. /\ Ordered(buffer', T') /\ Ordered(channel', T' \cup ToSet(buffer'))
          /\ S' \subseteq T' \cup ToSet(buffer') \cup ToSet(channel')
      BY <1>3, <1>5, <1>9, <1>10, <1>11
    <2>2. Ordered(pending_replies', Handled')
      BY DEF InOrder, Handled
    <2> QED
      BY <2>1, <2>2 DEF InOrder, T, S
  <1>14. StreamsInOrder'
    BY DEF StreamsInOrder, Handled
  <1> QED
    BY <1>12, <1>13, <1>14

\* The oldest message of the buffer leaves it, as cancelled or to wait for its
\* acknowledgement.
LEMMA BufferOrder ==
  ASSUME Queued, InOrder, buffer # <<>>, buffer' = Tail(buffer),
         UNCHANGED <<sent, channel, delivered, closed>>,
         \/ Head(buffer) \in closed /\ pending_replies' = pending_replies
         \/ pending_replies' = Append(pending_replies, Head(buffer))
  PROVE  /\ InOrder' /\ buffer' \in Seq(1 .. sent) /\ pending_replies' \in Seq(1 .. sent)
         /\ \A k \in 1 .. Head(buffer) - 1 : k \in Handled \cup ToSet(pending_replies)
  <1> DEFINE m == Head(buffer)
             S == 1 .. sent
             P == ToSet(pending_replies)
  <1>1. S \subseteq Nat /\ Seq(S) \subseteq Seq(Nat)
    BY QueuedNumbers DEF Queued
  <1>2. /\ buffer \in Seq(S) /\ pending_replies \in Seq(S) /\ m \in S /\ m \in Nat
        /\ Tail(buffer) \in Seq(S) /\ buffer \in Seq(Nat) /\ pending_replies \in Seq(Nat)
    BY <1>1 DEF Queued
  <1>3. /\ Ordered(pending_replies, Handled) /\ Ordered(buffer, Handled \cup P)
        /\ Ordered(channel, Handled \cup P \cup ToSet(buffer))
        /\ S \subseteq Handled \cup P \cup ToSet(buffer) \cup ToSet(channel)
    BY DEF InOrder
  <1>4. Handled' = Handled /\ closed \subseteq Handled /\ UNCHANGED S
    BY DEF Handled
  <1> HIDE DEF m, S, P
  <1>5. Ordered(Tail(buffer), Handled \cup P \cup {m}) /\ \A k \in 1 .. m - 1 : k \in Handled \cup P
    BY <1>2, <1>3, OrderedTail DEF m
  <1>6. ToSet(buffer) = {m} \cup ToSet(Tail(buffer))
    BY <1>2, ToSetTail DEF m
  <1>7. /\ pending_replies' \in Seq(S) /\ Ordered(pending_replies', Handled)
        /\ Handled \cup P \cup {m} = Handled \cup ToSet(pending_replies')
    <2>1. CASE m \in closed /\ pending_replies' = pending_replies
      BY <1>2, <1>3, <1>4, <2>1 DEF P
    <2>2. CASE pending_replies' = Append(pending_replies, m)
      <3>1. ToSet(Append(pending_replies, m)) = P \cup {m}
        BY <1>2, ToSetAppend DEF P
      <3>2. Ordered(Append(pending_replies, m), Handled)
        BY <1>2, <1>3, <1>5, OrderedAppend DEF P
      <3> QED
        BY <1>2, <2>2, <3>1, <3>2
    <2> QED
      BY <2>1, <2>2 DEF m
  <1>8. Handled \cup P \cup ToSet(buffer) = Handled \cup ToSet(pending_replies') \cup ToSet(buffer')
    BY <1>6, <1>7
  <1>9. InOrder'
    BY <1>3, <1>4, <1>5, <1>7, <1>8 DEF InOrder, S
  <1> QED
    BY <1>2, <1>5, <1>7, <1>9 DEF m, S, P

LEMMA SkipOrder ==
  ASSUME Queued, InOrder, StreamsInOrder, Skip
  PROVE  Queued' /\ InOrder' /\ StreamsInOrder'
  <1>1. /\ UNCHANGED <<sent, channel, delivered, closed, pending_replies, frames, stale>>
        /\ buffer # <<>> /\ buffer' = Tail(buffer) /\ Head(buffer) \in closed
    BY DEF Skip, caller, stream, peer
  <1>2. InOrder' /\ buffer' \in Seq(1 .. sent)
    BY <1>1, BufferOrder
  <1>3. Queued'
    BY <1>1, <1>2 DEF Queued
  <1>4. StreamsInOrder'
    BY <1>1 DEF StreamsInOrder, Handled
  <1> QED
    BY <1>2, <1>3, <1>4

\* On a stream that works, the pending replies that are not delivered are the
\* frames in flight: what is written next finds its predecessors among them.
LEMMA TransmitOrder ==
  ASSUME AckInv, Queued, InOrder, StreamsInOrder, Transmit
  PROVE  Queued' /\ InOrder' /\ StreamsInOrder'
  <1> DEFINE m == Head(buffer)
  <1>1. /\ UNCHANGED <<sent, channel, delivered, closed, stale>>
        /\ buffer # <<>> /\ buffer' = Tail(buffer)
        /\ pending_replies' = Append(pending_replies, m)
        /\ frames' = IF cut THEN frames ELSE Append(frames, m)
    BY DEF Transmit, caller, peer
  <1>2. /\ InOrder' /\ buffer' \in Seq(1 .. sent) /\ pending_replies' \in Seq(1 .. sent)
        /\ \A k \in 1 .. m - 1 : k \in Handled \cup ToSet(pending_replies)
    BY <1>1, BufferOrder
  <1>3. /\ frames \in Seq(1 .. sent) /\ frames \in Seq(Nat) /\ m \in 1 .. sent /\ m \in Nat
        /\ Len(frames) \in Nat /\ Len(pending_replies) \in Nat /\ sent \in Nat
    BY <1>1, QueuedNumbers DEF Queued
  <1>4. Handled' = Handled
    BY <1>1 DEF Handled
  <1> HIDE DEF m
  <1>5. ~ cut => ToSet(pending_replies) \subseteq Handled \cup ToSet(frames)
    <2> SUFFICES ASSUME ~ cut, NEW i \in 1 .. Len(pending_replies),
                        pending_replies[i] \notin delivered
                 PROVE  pending_replies[i] \in ToSet(frames)
      <3>1. ToSet(pending_replies) = {pending_replies[i] : i \in 1 .. Len(pending_replies)}
        BY <1>3 DEF ToSet
      <3> QED
        BY <3>1 DEF Handled
    <2>1. acks \in Nat /\ Len(pending_replies) = acks + Len(frames)
      BY DEF AckInv, Counted
    <2>2. i \notin 1 .. acks
      BY DEF AckInv, AckedFirst
    <2>3. i - acks \in 1 .. Len(frames) /\ acks + (i - acks) = i
      BY <1>3, <2>1, <2>2
    <2>4. frames[i - acks] = pending_replies[i]
      BY <2>3 DEF AckInv, InFlight
    <2> QED
      BY <2>3, <2>4 DEF ToSet
  <1>6. Ordered(frames', Handled) /\ frames' \in Seq(1 .. sent)
    <2>1. CASE cut
      BY <1>1, <1>3, <2>1 DEF StreamsInOrder
    <2>2. CASE ~ cut
      <3>1. \A k \in 1 .. m - 1 : k \in Handled \cup ToSet(frames)
        BY <1>2, <1>5, <2>2
      <3>2. Ordered(Append(frames, m), Handled)
        BY <1>3, <3>1, OrderedAppend DEF StreamsInOrder
      <3> QED
        BY <1>1, <1>3, <2>2, <3>2
    <2> QED
      BY <2>1, <2>2
  <1>7. Queued'
    BY <1>1, <1>2, <1>6 DEF Queued
  <1>8. StreamsInOrder'
    BY <1>1, <1>4, <1>6 DEF StreamsInOrder
  <1> QED
    BY <1>2, <1>7, <1>8

\* The pending replies go back in front of the buffer.
LEMMA DisconnectOrder ==
  ASSUME Queued, InOrder, StreamsInOrder, Disconnect(buffer),
         UNCHANGED <<caller, channel, cuts, delivered>>
  PROVE  Queued' /\ InOrder' /\ StreamsInOrder'
  <1>1. /\ UNCHANGED <<sent, channel, delivered, closed>>
        /\ buffer' = pending_replies \o buffer /\ pending_replies' = <<>> /\ frames' = <<>>
        /\ stale' = stale \cup ({frames} \ {<<>>})
    BY DEF Disconnect, Unacknowledged, caller
  <1>2. /\ <<>> \in Seq(1 .. sent) /\ ToSet(<<>>) = {}
        /\ \A T : Ordered(<<>>, T)
    BY EmptySeq DEF ToSet, Ordered
  <1>3. /\ pending_replies \in Seq(1 .. sent) /\ buffer \in Seq(1 .. sent)
        /\ pending_replies \in Seq(Nat) /\ buffer \in Seq(Nat)
    BY QueuedNumbers DEF Queued
  <1>4. Handled' = Handled
    BY <1>1 DEF Handled
  <1>5. Queued'
    <2>1. pending_replies \o buffer \in Seq(1 .. sent)
      BY <1>3, ConcatProperties
    <2> QED
      BY <1>1, <1>2, <2>1 DEF Queued
  <1>6. InOrder'
    <2> DEFINE b == pending_replies \o buffer
    <2>1. ToSet(b) = ToSet(pending_replies) \cup ToSet(buffer)
      BY <1>3, ToSetConcat
    <2>2. Ordered(b, Handled)
      BY <1>3, OrderedConcat DEF InOrder
    <2> HIDE DEF b
    <2>3. buffer' = b
      BY <1>1 DEF b
    <2>4. /\ Handled \cup {} = Handled
          /\ Handled \cup {} \cup ToSet(b)
               = Handled \cup ToSet(pending_replies) \cup ToSet(buffer)
      BY <2>1
    <2> QED
      BY <1>1, <1>2, <1>4, <2>2, <2>3, <2>4 DEF InOrder
  <1>7. StreamsInOrder'
    BY <1>1, <1>2, <1>4 DEF StreamsInOrder
  <1> QED
    BY <1>5, <1>6, <1>7

\* The oldest pending reply leaves when it is delivered.
LEMMA ReceiveAckOrder ==
  ASSUME AckInv, Queued, InOrder, StreamsInOrder, ReceiveAck
  PROVE  Queued' /\ InOrder' /\ StreamsInOrder'
  <1> DEFINE m == Head(pending_replies)
  <1>1. /\ UNCHANGED <<sent, channel, buffer, delivered, closed, frames, stale>>
        /\ pending_replies # <<>> /\ pending_replies' = Tail(pending_replies) /\ acks > 0
    BY DEF ReceiveAck, peer
  <1>2. /\ pending_replies \in Seq(1 .. sent) /\ pending_replies \in Seq(Nat)
        /\ m = pending_replies[1] /\ Tail(pending_replies) \in Seq(1 .. sent)
    BY <1>1, QueuedNumbers DEF Queued
  <1>3. m \in Handled
    <2>1. 1 \in 1 .. acks
      BY <1>1 DEF AckInv, Counted
    <2> QED
      BY <1>2, <2>1 DEF AckInv, AckedFirst, Handled
  <1> HIDE DEF m
  <1>4. /\ ToSet(pending_replies) = {m} \cup ToSet(Tail(pending_replies))
        /\ Ordered(Tail(pending_replies), Handled \cup {m})
    BY <1>1, <1>2, ToSetTail, OrderedTail DEF InOrder, m
  <1>5. /\ Handled' = Handled /\ Handled \cup {m} = Handled
        /\ Handled \cup ToSet(pending_replies) = Handled \cup ToSet(pending_replies')
    BY <1>1, <1>3, <1>4 DEF Handled
  <1>6. InOrder'
    BY <1>1, <1>4, <1>5 DEF InOrder
  <1> QED
    BY <1>1, <1>2, <1>5, <1>6 DEF Queued, StreamsInOrder

\* A frame that the peer's handler is given comes after every earlier message.
LEMMA FrameOrder ==
  ASSUME NEW f \in Seq(1 .. sent), f # <<>>, Ordered(f, Handled), Queued,
         delivered' = delivered \cup {Head(f)}, closed' = closed
  PROVE  /\ Head(f) \in 1 .. sent /\ \A k \in 1 .. Head(f) - 1 : k \in delivered \cup closed
         /\ Handled \subseteq Handled'
         /\ Tail(f) \in Seq(1 .. sent) /\ Ordered(Tail(f), Handled')
  <1>1. Handled' = Handled \cup {Head(f)}
    BY DEF Handled
  <1>2. f \in Seq(Nat)
    BY QueuedNumbers
  <1>3. Ordered(Tail(f), Handled \cup {Head(f)}) /\ \A k \in 1 .. Head(f) - 1 : k \in Handled
    BY <1>2, OrderedTail
  <1>4. Head(f) \in 1 .. sent /\ Tail(f) \in Seq(1 .. sent)
    BY HeadTailProperties
  <1>5. Ordered(Tail(f), Handled')
    BY <1>1, <1>3
  <1>6. \A k \in 1 .. Head(f) - 1 : k \in delivered \cup closed
    BY <1>3 DEF Handled
  <1> QED
    BY <1>1, <1>4, <1>5, <1>6

\* The network and the peer.
LEMMA PeerOrder ==
  ASSUME Queued, InOrder, StreamsInOrder, Cut \/ dispatch \/ DispatchStale
  PROVE  Queued' /\ InOrder' /\ StreamsInOrder'
  <1>1. UNCHANGED <<sent, closed, channel, buffer, pending_replies>>
    BY DEF Cut, dispatch, DispatchStale, caller, connection
  <1>2. ASSUME Handled \subseteq Handled',
               frames' \in Seq(1 .. sent), Ordered(frames', Handled'),
               \A s \in stale' : s \in Seq(1 .. sent) /\ s # <<>> /\ Ordered(s, Handled')
        PROVE  Queued' /\ InOrder' /\ StreamsInOrder'
    <2>1. Queued'
      BY <1>1, <1>2 DEF Queued
    <2>2. InOrder'
      <3>1. /\ Handled \cup ToSet(pending_replies) \subseteq Handled' \cup ToSet(pending_replies)
            /\ Handled \cup ToSet(pending_replies) \cup ToSet(buffer)
                 \subseteq Handled' \cup ToSet(pending_replies) \cup ToSet(buffer)
        BY <1>2
      <3>2. /\ Ordered(pending_replies, Handled')
            /\ Ordered(buffer, Handled' \cup ToSet(pending_replies))
            /\ Ordered(channel, Handled' \cup ToSet(pending_replies) \cup ToSet(buffer))
        BY <1>2, <3>1, OrderedIn DEF InOrder
      <3>3. 1 .. sent \subseteq Handled' \cup ToSet(pending_replies) \cup ToSet(buffer)
                                         \cup ToSet(channel)
        BY <1>2 DEF InOrder
      <3> QED
        BY <1>1, <3>2, <3>3 DEF InOrder
    <2>3. StreamsInOrder'
      BY <1>2 DEF StreamsInOrder
    <2> QED
      BY <2>1, <2>2, <2>3
  <1>3. CASE Cut
    <2>1. PICK k \in 0 .. Len(frames) : frames' = SubSeq(frames, 1, k)
      BY <1>3 DEF Cut
    <2>2. stale' = stale /\ Handled' = Handled
      BY <1>3 DEF Cut, caller, Handled
    <2>3. frames \in Seq(1 .. sent) /\ frames \in Seq(Nat) /\ SubSeq(frames, 1, k) \in Seq(1 .. sent)
      BY QueuedNumbers DEF Queued
    <2>4. Ordered(SubSeq(frames, 1, k), Handled)
      BY <2>3, OrderedPrefix DEF StreamsInOrder
    <2> QED
      BY <1>2, <2>1, <2>2, <2>3, <2>4 DEF Queued, StreamsInOrder
  <1>4. CASE dispatch
    <2>1. /\ frames # <<>> /\ frames' = Tail(frames) /\ stale' = stale
          /\ delivered' = delivered \cup {Head(frames)} /\ closed' = closed
          /\ frames \in Seq(1 .. sent) /\ Ordered(frames, Handled)
      BY <1>4 DEF dispatch, caller, Queued, StreamsInOrder
    <2>2. /\ Handled \subseteq Handled'
          /\ Tail(frames) \in Seq(1 .. sent) /\ Ordered(Tail(frames), Handled')
      BY <2>1, FrameOrder
    <2>3. \A s \in stale : Ordered(s, Handled')
      BY <2>2, OrderedIn DEF StreamsInOrder
    <2> QED
      BY <1>2, <2>1, <2>2, <2>3 DEF Queued
  <1>5. CASE DispatchStale
    <2>1. PICK f \in stale : /\ delivered' = delivered \cup {Head(f)}
                             /\ stale' = (stale \ {f}) \cup ({Tail(f)} \ {<<>>})
      BY <1>5 DEF DispatchStale
    <2>2. frames' = frames /\ f \in Seq(1 .. sent) /\ f # <<>> /\ Ordered(f, Handled)
      BY <1>5 DEF DispatchStale, stream, Queued, StreamsInOrder
    <2>3. /\ Handled \subseteq Handled'
          /\ Tail(f) \in Seq(1 .. sent) /\ Ordered(Tail(f), Handled')
      BY <1>1, <2>1, <2>2, FrameOrder
    <2>4. Ordered(frames, Handled') /\ \A s \in stale : Ordered(s, Handled')
      BY <2>3, OrderedIn DEF StreamsInOrder
    <2> QED
      BY <1>2, <2>1, <2>2, <2>3, <2>4 DEF Queued
  <1> QED
    BY <1>3, <1>4, <1>5

\* Every step keeps the order.
LEMMA OrderStep == OrderInv /\ [Next]_vars => OrderInv'
  <1> SUFFICES ASSUME OrderInv, [Next]_vars PROVE OrderInv'
    OBVIOUS
  <1>1. AckInv /\ Queued /\ InOrder /\ StreamsInOrder
    BY DEF OrderInv
  <1>2. AckInv'
    BY <1>1, AckStep
  <1> SUFFICES Queued' /\ InOrder' /\ StreamsInOrder'
    BY <1>2 DEF OrderInv
  <1> USE <1>1
  <1>3. CASE send
    BY <1>3, SendOrder
  <1>4. CASE Cancel \/ Connect \/ FailToConnect \/ Retry \/ UNCHANGED vars
    <2>1. UNCHANGED <<sent, channel, buffer, pending_replies, frames, stale>>
      BY <1>4 DEF Cancel, Connect, FailToConnect, Retry, vars, caller, connection, stream, peer
    <2>2. Handled \subseteq Handled'
      BY <1>4 DEF Cancel, Connect, FailToConnect, Retry, vars, caller, peer, Handled
    <2> QED
      BY <2>1, <2>2, HandledOrder
  <1>5. CASE Drain
    BY <1>5, ReceiveOrder DEF Drain, caller, stream, peer
  <1>6. CASE ReceiveMessage
    BY <1>6, ReceiveOrder DEF ReceiveMessage, caller, stream, peer
  <1>7. CASE Skip
    BY <1>7, SkipOrder
  <1>8. CASE Transmit
    BY <1>8, TransmitOrder
  <1>9. CASE FailToSend \/ FailToReceiveAck
    <2>1. Disconnect(buffer) /\ UNCHANGED <<caller, channel, cuts, delivered>>
      BY <1>9 DEF FailToSend, FailToReceiveAck
    <2> QED
      BY <2>1, DisconnectOrder
  <1>10. CASE ReceiveAck
    BY <1>10, ReceiveAckOrder
  <1>11. CASE Cut \/ dispatch \/ DispatchStale
    BY <1>11, PeerOrder
  <1> QED
    BY <1>3, <1>4, <1>5, <1>6, <1>7, <1>8, <1>9, <1>10, <1>11 DEF Next

\* A step of the sender is one that ReliableDelivery allows, or none.
LEMMA DeliveryStep == OrderInv /\ [Next]_vars => [Delivery!Next]_(Delivery!vars)
  <1> SUFFICES ASSUME OrderInv, [Next]_vars PROVE [Delivery!Next]_(Delivery!vars)
    OBVIOUS
  <1>1. AckInv /\ Queued /\ InOrder /\ StreamsInOrder
    BY DEF OrderInv
  <1>2. CASE send
    <2>1. Delivery!Send
      BY <1>2 DEF send, peer, Delivery!Send
    <2> QED
      BY <2>1 DEF Delivery!Next
  <1>3. CASE Cancel
    <2>1. Delivery!Cancel
      BY <1>3 DEF Cancel, peer, Delivery!Cancel
    <2> QED
      BY <2>1 DEF Delivery!Next
  <1>4. CASE \/ Connect \/ FailToConnect \/ Drain \/ Retry \/ Skip \/ Transmit \/ FailToSend
             \/ ReceiveMessage \/ FailToReceiveAck \/ Cut \/ UNCHANGED vars
    BY <1>4 DEF Connect, FailToConnect, Drain, Retry, Skip, Transmit, FailToSend, ReceiveMessage,
                FailToReceiveAck, Cut, vars, caller, peer, Delivery!vars
  <1>5. CASE ReceiveAck
    <2> DEFINE m == Head(pending_replies)
    <2>1. m \in delivered /\ m \in 1 .. sent
      <3>1. 1 \in 1 .. acks /\ m = pending_replies[1] /\ m \in 1 .. sent
        BY <1>1, <1>5 DEF AckInv, Counted, ReceiveAck, Queued
      <3> QED
        BY <1>1, <3>1 DEF AckInv, AckedFirst
    <2> HIDE DEF m
    <2>2. UNCHANGED <<sent, closed, delivered>> /\ acked' = acked \cup ({m} \ closed)
      BY <1>5 DEF ReceiveAck, peer, m
    <2>3. CASE m \in closed
      BY <2>2, <2>3 DEF Delivery!vars
    <2>4. CASE m \notin closed
      <3>1. Delivery!Acknowledge
        BY <2>1, <2>2, <2>4 DEF Delivery!Acknowledge, Delivery!MayAcknowledge
      <3> QED
        BY <3>1 DEF Delivery!Next
    <2> QED
      BY <2>3, <2>4
  <1>6. CASE dispatch \/ DispatchStale
    <2>1. UNCHANGED <<sent, closed, acked>>
      BY <1>6 DEF dispatch, DispatchStale, caller
    <2>2. PICK f : /\ delivered' = delivered \cup {Head(f)}
                   /\ f \in Seq(1 .. sent) /\ f # <<>> /\ Ordered(f, Handled)
      BY <1>1, <1>6 DEF dispatch, DispatchStale, Queued, StreamsInOrder
    <2>3. Head(f) \in 1 .. sent /\ \A k \in 1 .. Head(f) - 1 : k \in delivered \cup closed
      BY <1>1, <2>1, <2>2, FrameOrder
    <2>4. Delivery!Deliver
      BY <2>1, <2>2, <2>3 DEF Delivery!Deliver, Delivery!MayDeliver
    <2> QED
      BY <2>4 DEF Delivery!Next
  <1> QED
    BY <1>2, <1>3, <1>4, <1>5, <1>6 DEF Next

-----------------------------------------------------------------------------
(* The theorems.                                                           *)

\* handler.send in keep_alive notifies a CancelHandler only of a message that
\* was given to the peer's handler.
THEOREM AcknowledgedIsDelivered == Spec => []AckedIsDelivered
  <1>1. AckInv => AckedIsDelivered
    BY DEF AckInv
  <1> QED
    BY <1>1, AckInit, AckStep, PTL DEF Spec

\* keep_alive always has a pending reply for an acknowledgement it receives.
THEOREM NoUnexpectedAck == Spec => []AcksExpected
  <1>1. AckInv => AcksExpected
    BY DEF AckInv, Counted, AcksExpected
  <1> QED
    BY <1>1, AckInit, AckStep, PTL DEF Spec

\* ReliableSender and the Receiver of the peer implement ReliableDelivery for
\* any number of messages, failed streams, retries and cancellations: the
\* peer's handler gets a message for the first time after every earlier one
\* that is not cancelled, even when the frames of a failed stream are handled
\* along with those of the next.
THEOREM SenderIsReliableDelivery == Spec => ImplementsReliableDelivery
  <1>1. Init => Delivery!Init
    BY DEF Init, Delivery!Init
  <1> QED
    BY <1>1, OrderInit, OrderStep, DeliveryStep, PTL
    DEF Spec, ImplementsReliableDelivery, Delivery!Spec

-----------------------------------------------------------------------------

\* What Queued leaves of the type invariant.
Ranges ==
    /\ sent \in 0 .. MaxMessages
    /\ closed \subseteq 1 .. sent /\ acked \subseteq 1 .. sent /\ delivered \subseteq 1 .. sent
    /\ phase \in {"connecting", "waiting", "connected"}
    /\ cut \in BOOLEAN /\ cuts \in 0 .. MaxCuts

LEMMA RangesStep == OrderInv /\ Ranges /\ [Next]_vars => Ranges'
  <1> SUFFICES ASSUME OrderInv, Ranges, [Next]_vars PROVE Ranges'
    OBVIOUS
  <1>1. sent \in Nat /\ MaxMessages \in Nat /\ MaxCuts \in Nat
    BY SenderAssumption DEF Ranges
  <1>2. CASE send
    <2>1. sent' = sent + 1 /\ sent' \in 0 .. MaxMessages /\ 1 .. sent \subseteq 1 .. sent'
      BY <1>1, <1>2 DEF send
    <2> QED
      BY <1>2, <2>1 DEF send, stream, peer, Ranges
  <1>3. CASE Cancel
    BY <1>3 DEF Cancel, connection, stream, peer, Ranges
  <1>4. CASE ReceiveAck
    <2>1. Head(pending_replies) \in 1 .. sent
      BY <1>4 DEF ReceiveAck, OrderInv, Queued
    <2> QED
      BY <1>4, <2>1 DEF ReceiveAck, peer, Ranges
  <1>5. CASE Cut
    BY <1>1, <1>5 DEF Cut, caller, connection, Ranges
  <1>6. CASE dispatch
    <2>1. Head(frames) \in 1 .. sent
      BY <1>6 DEF dispatch, OrderInv, Queued
    <2> QED
      BY <1>6, <2>1 DEF dispatch, caller, connection, Ranges
  <1>7. CASE DispatchStale
    <2>1. \A s \in stale : Head(s) \in 1 .. sent
      BY DEF OrderInv, Queued
    <2> QED
      BY <1>7, <2>1 DEF DispatchStale, caller, connection, stream, Ranges
  <1>8. CASE FailToSend \/ FailToReceiveAck
    BY <1>8 DEF FailToSend, FailToReceiveAck, Disconnect, caller, Ranges
  <1>9. CASE Connect \/ FailToConnect \/ Drain \/ Retry \/ Skip \/ Transmit \/ ReceiveMessage
             \/ UNCHANGED vars
    BY <1>9 DEF Connect, FailToConnect, Drain, Retry, Skip, Transmit, ReceiveMessage, vars, caller,
                connection, stream, peer, Ranges
  <1> QED
    BY <1>2, <1>3, <1>4, <1>5, <1>6, <1>7, <1>8, <1>9 DEF Next

\* The types of the connection, the stream and the peer.
THEOREM SenderTypes == Spec => []TypeOK
  <1>1. Init => Ranges
    <2>1. 0 \in 0 .. MaxMessages /\ 0 \in 0 .. MaxCuts
      BY SenderAssumption
    <2> QED
      BY <2>1, Zenon DEF Init, Ranges
  <1>2. OrderInv /\ Ranges => TypeOK
    <2> SUFFICES ASSUME OrderInv, Ranges PROVE TypeOK
      OBVIOUS
    <2>1. 1 .. sent \subseteq Messages
      BY SenderAssumption DEF Ranges, Messages
    <2>2. \A q : q \in Seq(1 .. sent) => q \in Seq(Messages)
      BY <2>1, SeqMonotonic
    <2>3. Queued /\ acks \in Nat
      BY DEF OrderInv, AckInv, Counted
    <2> QED
      BY <2>1, <2>2, <2>3 DEF Queued, Ranges, TypeOK
  <1> QED
    BY <1>1, <1>2, OrderInit, OrderStep, RangesStep, PTL DEF Spec

=============================================================================
