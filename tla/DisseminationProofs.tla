------------------------ MODULE DisseminationProofs ------------------------
(***************************************************************************)
(* The batches that primaries propose and vote for are held by enough      *)
(* correct workers, for every committee, every distribution of stake and   *)
(* every set of faulty workers within the bound.                           *)
(*                                                                         *)
(* A worker acknowledges a batch before it stores it.  What carries the    *)
(* argument over that gap is that a correct worker never lets go of a      *)
(* batch it was given (Kept), and that our worker stores a batch only      *)
(* after a quorum has acknowledged it (OursAcknowledged).                  *)
(***************************************************************************)
EXTENDS Dissemination, CommonProofs

\* A batch that goes through the QuorumWaiter has been sealed.
Sealed == rx_message \in Seq(1 .. sealed) /\ batch \in 0 .. sealed

\* What a correct worker was given is in its handler, its channel or its store.
Kept ==
    \A w \in Correct \ {Name} :
        delivered[w] \subseteq store[w] \cup ToSet(tx_processor[w]) \cup {handling[w]}

\* Correct workers acknowledge only what they were given.
Honest == \A b \in Batches : \A w \in Correct : <<b, w>> \in acked => b \in delivered[w]

\* QuorumWaiter counts acknowledgements of the batch it waits for.
CountedAcks == batch # 0 => \A w \in counted : <<batch, w>> \in acked

Acknowledgers(b) == {w \in others_workers : <<b, w>> \in acked}

\* Our Processor gets the batches that a quorum has acknowledged, and nothing
\* by way of the WorkerReceiverHandler.
OursAcknowledged ==
    /\ handling[Name] = 0
    /\ \A b \in store[Name] \cup ToSet(tx_processor[Name]) : IsQuorum(Acknowledgers(b) \cup {Name})

\* A digest is reported when its batch is stored.
ReportedIsStored == \A w \in Authorities : tx_digest[w] \cup known[w] \subseteq store[w]

HoldInv ==
    TypeOK /\ Sealed /\ Kept /\ Honest /\ CountedAcks /\ OursAcknowledged /\ ReportedIsStored

-----------------------------------------------------------------------------
(* The type invariant.                                                     *)

\* A channel from which something is taken.
LEMMA ShorterTail ==
  ASSUME NEW S, NEW c \in Nat, NEW s \in Seq(S), s # <<>>, Len(s) <= c
  PROVE  Head(s) \in S /\ Tail(s) \in Seq(S) /\ Len(Tail(s)) <= c
  <1>1. Head(s) \in S /\ Tail(s) \in Seq(S) /\ Len(Tail(s)) = Len(s) - 1
    BY HeadTailProperties
  <1>2. Len(s) \in Nat
    BY LenProperties
  <1> QED
    BY <1>1, <1>2

LEMMA TypesInit == Init => TypeOK
  <1> SUFFICES ASSUME Init PROVE TypeOK
    OBVIOUS
  <1>1. <<>> \in Seq(Batches) /\ Len(<<>>) = 0
    BY EmptySeq
  <1> QED
    BY <1>1, DisseminationAssumption DEF Init, TypeOK, Batches, others_workers

LEMMA TypesStep == TypeOK /\ [Next]_vars => TypeOK'
  <1> SUFFICES ASSUME TypeOK, [Next]_vars PROVE TypeOK'
    OBVIOUS
  <1> USE DisseminationAssumption DEF Batches, TypeOK, maker
  <1>1. CASE Seal
    <2>1. addresses \in Seq(others_workers) /\ taken' = taken
      BY <1>1 DEF Seal
    <2>2. sealed' \in 0 .. MaxBatches /\ queued' \in {sealed' - 1, sealed'} \cap Nat /\ queued' < sealed'
      BY <1>1 DEF Seal
    <2> QED
      BY <1>1, <2>1, <2>2 DEF Seal, waiter, handlers, primaries
  <1>13. CASE Send
    <2>1. Tail(unsent) \in Seq(others_workers)
      BY <1>13 DEF Send
    <2> QED
      BY <1>13, <2>1 DEF Send, waiter, handlers, primaries
  <1>14. ASSUME NEW w \in others_workers, Take(w) PROVE TypeOK'
    <2>1. Sent(w) <= MaxBatches /\ Sent(w) \in Int /\ taken[w] \in 0 .. MaxBatches
      BY DEF Sent
    <2>2. taken' \in [others_workers -> 0 .. MaxBatches]
      <3>1. taken[w] < Sent(w) /\ taken' = [taken EXCEPT ![w] = @ + 1]
        BY <1>14 DEF Take
      <3>2. MaxBatches \in Nat
        BY DisseminationAssumption
      <3>3. taken[w] + 1 \in 0 .. MaxBatches
        BY <2>1, <3>1, <3>2, SMTT(20)
      <3> QED
        BY <3>1, <3>3
    <2> QED
      BY <1>14, <2>2 DEF Take, waiter, handlers, primaries
  <1>2. CASE Enqueue
    <2>1. sealed \in Batches /\ sealed \in {sealed - 1, sealed} \cap Nat
      BY <1>2 DEF Enqueue
    <2>2. Append(rx_message, sealed) \in Seq(Batches) /\ Len(Append(rx_message, sealed)) <= ChannelSize
      BY <1>2, <2>1 DEF Enqueue
    <2> QED
      BY <1>2, <2>1, <2>2 DEF Enqueue, waiter, handlers, primaries
  <1>3. CASE TakeBatch
    <2>1. /\ Head(rx_message) \in Batches /\ Tail(rx_message) \in Seq(Batches)
          /\ Len(Tail(rx_message)) <= ChannelSize
      BY <1>3, ShorterTail, DisseminationAssumption DEF TakeBatch
    <2>2. /\ rx_message' \in Seq(Batches) /\ Len(rx_message') <= ChannelSize
          /\ batch' \in 0 .. MaxBatches /\ counted' \subseteq others_workers
      BY <1>3, <2>1 DEF TakeBatch
    <2>3. UNCHANGED <<sealed, queued, unsent, taken, delivered, handling, tx_processor, store, tx_digest,
                      acked, closed, known, lost>>
      BY <1>3 DEF TakeBatch, handlers, primaries
    <2> QED
      BY <2>2, <2>3
  <1>4. CASE DeliverBatch
    <2>1. batch \in Batches /\ Name \in Authorities /\ tx_processor[Name] \in Seq(Batches)
      BY <1>4 DEF DeliverBatch
    <2>2. /\ Append(tx_processor[Name], batch) \in Seq(Batches)
          /\ Len(Append(tx_processor[Name], batch)) <= ChannelSize
      BY <1>4, <2>1 DEF DeliverBatch
    <2>3. /\ tx_processor' \in [Authorities -> Seq(Batches)]
          /\ \A w \in Authorities : Len(tx_processor'[w]) <= ChannelSize
      BY <1>4, <2>1, <2>2 DEF DeliverBatch
    <2>4. closed' \subseteq Batches \X others_workers
      BY <1>4, <2>1 DEF DeliverBatch
    <2>5. batch' \in 0 .. MaxBatches /\ counted' \subseteq others_workers
      BY <1>4 DEF DeliverBatch
    <2>6. UNCHANGED <<sealed, queued, unsent, taken, rx_message, acked, delivered, handling, store, tx_digest,
                      known, lost>>
      BY <1>4 DEF DeliverBatch, primaries
    <2> QED
      BY <2>3, <2>4, <2>5, <2>6
  <1>5. ASSUME NEW w \in others_workers, CountAck(w) PROVE TypeOK'
    <2>1. counted' \subseteq others_workers
      BY <1>5 DEF CountAck
    <2>2. UNCHANGED <<sealed, queued, unsent, taken, rx_message, batch, acked, closed, delivered, handling,
                      tx_processor, store, tx_digest, known, lost>>
      BY <1>5 DEF CountAck, handlers, primaries
    <2> QED
      BY <2>1, <2>2
  <1>6. ASSUME NEW b \in Batches, NEW w \in others_workers, Acknowledge(b, w) PROVE TypeOK'
    <2>1. acked' \subseteq Batches \X others_workers
      <3>1. acked' = acked \cup {<<b, w>>}
        BY <1>6 DEF Acknowledge
      <3> QED
        BY <3>1
    <2>2. UNCHANGED <<sealed, queued, unsent, taken, rx_message, batch, counted, closed, delivered, handling,
                      tx_processor, store, tx_digest, known, lost>>
      BY <1>6 DEF Acknowledge, waiter, primaries
    <2> QED
      BY <2>1, <2>2
  <1>7. ASSUME NEW b \in Batches, NEW w \in Correct \ {Name}, Deliver(b, w) PROVE TypeOK'
    <2>1. w \in Authorities
      BY DEF Correct
    <2>4. /\ delivered' = [delivered EXCEPT ![w] = @ \cup {b}]
          /\ handling' = [handling EXCEPT ![w] = b] /\ b \in 0 .. MaxBatches
      BY <1>7 DEF Deliver, Batches
    <2>2. delivered' \in [Authorities -> SUBSET Batches] /\ handling' \in [Authorities -> 0 .. MaxBatches]
      BY <2>1, <2>4
    <2>3. UNCHANGED <<sealed, queued, unsent, taken, rx_message, batch, counted, acked, closed, tx_processor,
                      store, tx_digest, known, lost>>
      BY <1>7 DEF Deliver, waiter, handlers, primaries
    <2> QED
      BY <2>2, <2>3
  <1>8. ASSUME NEW w \in Correct, Forward(w) PROVE TypeOK'
    <2>1. w \in Authorities /\ handling[w] \in Batches /\ tx_processor[w] \in Seq(Batches)
      BY <1>8 DEF Forward, Correct
    <2>2. /\ Append(tx_processor[w], handling[w]) \in Seq(Batches)
          /\ Len(Append(tx_processor[w], handling[w])) <= ChannelSize
      BY <1>8, <2>1 DEF Forward
    <2>3. /\ tx_processor' \in [Authorities -> Seq(Batches)]
          /\ \A v \in Authorities : Len(tx_processor'[v]) <= ChannelSize
      BY <1>8, <2>1, <2>2 DEF Forward
    <2>4. handling' \in [Authorities -> 0 .. MaxBatches]
      BY <1>8, <2>1 DEF Forward
    <2> QED
      BY <1>8, <2>3, <2>4 DEF Forward, waiter, handlers, primaries
  <1>9. ASSUME NEW w \in Correct, Process(w) PROVE TypeOK'
    <2>1. w \in Authorities /\ tx_processor[w] \in Seq(Batches) /\ tx_processor[w] # <<>>
      BY <1>9 DEF Process, Correct
    <2>5. Len(tx_processor[w]) <= ChannelSize /\ ChannelSize \in Nat
      BY <2>1, DisseminationAssumption
    <2>2. /\ Head(tx_processor[w]) \in Batches /\ Tail(tx_processor[w]) \in Seq(Batches)
          /\ Len(Tail(tx_processor[w])) <= ChannelSize
      BY <2>1, <2>5, ShorterTail
    <2>3. /\ tx_processor' \in [Authorities -> Seq(Batches)]
          /\ \A v \in Authorities : Len(tx_processor'[v]) <= ChannelSize
      BY <1>9, <2>1, <2>2 DEF Process
    <2>4. store' \in [Authorities -> SUBSET Batches] /\ tx_digest' \in [Authorities -> SUBSET Batches]
      BY <1>9, <2>1, <2>2 DEF Process
    <2> QED
      BY <1>9, <2>3, <2>4 DEF Process, waiter, handlers, primaries
  <1>10. ASSUME NEW b \in Batches, NEW w \in Correct, Report(b, w) PROVE TypeOK'
    BY <1>10 DEF Report, waiter, handlers, Correct
  <1>11. ASSUME NEW b \in Batches, LoseDigest(b) PROVE TypeOK'
    BY <1>11 DEF LoseDigest, waiter, handlers
  <1>12. CASE UNCHANGED vars
    BY <1>12 DEF vars, waiter, handlers, primaries
  <1> QED
    BY <1>1, <1>2, <1>3, <1>4, <1>5, <1>6, <1>7, <1>8, <1>9, <1>10, <1>11, <1>12, <1>13, <1>14 DEF Next

-----------------------------------------------------------------------------
(* The steps.                                                              *)

LEMMA HoldInit == Init => HoldInv
  <1> SUFFICES ASSUME Init PROVE HoldInv
    OBVIOUS
  <1>1. <<>> \in Seq(1 .. 0) /\ ToSet(<<>>) = {}
    BY EmptySeq DEF ToSet
  <1>2. Name \in Authorities
    BY DisseminationAssumption
  <1> QED
    BY <1>1, <1>2, TypesInit
    DEF Init, HoldInv, Sealed, Kept, Honest, CountedAcks, OursAcknowledged, ReportedIsStored, Correct

\* The batches that QuorumWaiter is given are those sealed.
LEMMA SealedStep ==
  ASSUME HoldInv, [Next]_vars
  PROVE  Sealed'
  <1>1. sealed \in Nat /\ rx_message \in Seq(1 .. sealed) /\ batch \in 0 .. sealed
    BY DisseminationAssumption DEF HoldInv, TypeOK, Sealed
  <1>2. CASE Seal
    <2>1. 1 .. sealed \subseteq 1 .. sealed + 1
      BY <1>1
    <2>2. Seq(1 .. sealed) \subseteq Seq(1 .. sealed + 1)
      BY <2>1, SeqMonotonic
    <2> QED
      BY <1>1, <1>2, <2>2 DEF Seal, waiter, Sealed
  <1>3. CASE Enqueue
    <2>1. sealed \in 1 .. sealed
      BY <1>1, <1>3 DEF Enqueue, HoldInv, TypeOK
    <2>2. Append(rx_message, sealed) \in Seq(1 .. sealed)
      BY <1>1, <2>1
    <2> QED
      BY <1>1, <1>3, <2>2 DEF Enqueue, Sealed
  <1>4. CASE TakeBatch
    <2>1. Head(rx_message) \in 1 .. sealed /\ Tail(rx_message) \in Seq(1 .. sealed)
      BY <1>1, <1>4, HeadTailProperties DEF TakeBatch
    <2> QED
      BY <1>1, <1>4, <2>1 DEF TakeBatch, Sealed, maker
  <1>5. CASE DeliverBatch
    BY <1>1, <1>5 DEF DeliverBatch, Sealed, maker
  <1>6. CASE ~ (Seal \/ Enqueue \/ TakeBatch \/ DeliverBatch)
    <2>1. UNCHANGED <<sealed, rx_message, batch>>
      BY <1>6 DEF Next, Send, Take, CountAck, Acknowledge, Deliver, Forward, Process, Report, LoseDigest, vars, waiter, maker
    <2> QED
      BY <1>1, <2>1 DEF Sealed
  <1> QED
    BY <1>2, <1>3, <1>4, <1>5, <1>6

\* A batch moves from the handler to the channel and from there to the store of
\* a correct worker, and is nowhere dropped.
LEMMA KeptStep ==
  ASSUME HoldInv, [Next]_vars
  PROVE  Kept'
  <1> SUFFICES ASSUME NEW v \in Correct \ {Name}
               PROVE  delivered'[v] \subseteq store'[v] \cup ToSet(tx_processor'[v]) \cup {handling'[v]}
    BY DEF Kept
  <1>1. /\ v \in Authorities /\ v # Name /\ Name \in Authorities
        /\ delivered[v] \subseteq store[v] \cup ToSet(tx_processor[v]) \cup {handling[v]}
    BY DisseminationAssumption DEF HoldInv, Kept, Correct
  <1>2. /\ delivered \in [Authorities -> SUBSET Batches] /\ handling \in [Authorities -> 0 .. MaxBatches]
        /\ store \in [Authorities -> SUBSET Batches] /\ tx_processor \in [Authorities -> Seq(Batches)]
    BY DEF HoldInv, TypeOK
  <1>3. ASSUME NEW b \in Batches, NEW w \in Correct \ {Name}, Deliver(b, w)
        PROVE  delivered'[v] \subseteq store'[v] \cup ToSet(tx_processor'[v]) \cup {handling'[v]}
    <2>1. handling[v] = 0 \/ handling'[v] = handling[v]
      BY <1>1, <1>2, <1>3 DEF Deliver
    <2>2. 0 \notin Batches
      BY DEF Batches
    <2>3. delivered[v] \in SUBSET Batches
      BY <1>1, <1>2
    <2>4. CASE w = v
      BY <1>1, <1>2, <1>3, <2>1, <2>2, <2>3, <2>4 DEF Deliver
    <2>5. CASE w # v
      BY <1>1, <1>2, <1>3, <2>5 DEF Deliver
    <2> QED
      BY <2>4, <2>5
  <1>4. ASSUME NEW w \in Correct, Forward(w)
        PROVE  delivered'[v] \subseteq store'[v] \cup ToSet(tx_processor'[v]) \cup {handling'[v]}
    <2>1. UNCHANGED <<delivered, store>>
      BY <1>4 DEF Forward
    <2>2. CASE w = v
      <3>1. handling[v] \in Batches /\ tx_processor[v] \in Seq(Batches)
        BY <1>1, <1>2, <1>4, <2>2, DisseminationAssumption DEF Forward, Batches
      <3>2. ToSet(Append(tx_processor[v], handling[v])) = ToSet(tx_processor[v]) \cup {handling[v]}
        BY <3>1, ToSetAppend
      <3>3. tx_processor'[v] = Append(tx_processor[v], handling[v])
        BY <1>1, <1>2, <1>4, <2>2 DEF Forward
      <3> QED
        BY <1>1, <2>1, <3>2, <3>3
    <2>3. CASE w # v
      <3>1. tx_processor'[v] = tx_processor[v] /\ handling'[v] = handling[v]
        BY <1>1, <1>2, <1>4, <2>3 DEF Forward
      <3> QED
        BY <1>1, <2>1, <3>1
    <2> QED
      BY <2>2, <2>3
  <1>5. ASSUME NEW w \in Correct, Process(w)
        PROVE  delivered'[v] \subseteq store'[v] \cup ToSet(tx_processor'[v]) \cup {handling'[v]}
    <2>1. UNCHANGED <<delivered, handling>>
      BY <1>5 DEF Process
    <2>2. CASE w = v
      <3>1. tx_processor[v] \in Seq(Batches) /\ tx_processor[v] # <<>>
        BY <1>1, <1>2, <1>5, <2>2 DEF Process
      <3>2. ToSet(tx_processor[v]) = {Head(tx_processor[v])} \cup ToSet(Tail(tx_processor[v]))
        BY <3>1, ToSetTail
      <3>3. /\ tx_processor'[v] = Tail(tx_processor[v])
            /\ store'[v] = store[v] \cup {Head(tx_processor[v])}
        BY <1>1, <1>2, <1>5, <2>2 DEF Process
      <3> QED
        BY <1>1, <2>1, <3>2, <3>3
    <2>3. CASE w # v
      <3>1. tx_processor'[v] = tx_processor[v] /\ store'[v] = store[v]
        BY <1>1, <1>2, <1>5, <2>3 DEF Process
      <3> QED
        BY <1>1, <2>1, <3>1
    <2> QED
      BY <2>2, <2>3
  <1>6. ASSUME DeliverBatch
        PROVE  delivered'[v] \subseteq store'[v] \cup ToSet(tx_processor'[v]) \cup {handling'[v]}
    <2>1. UNCHANGED <<delivered, store, handling>> /\ tx_processor'[v] = tx_processor[v]
      BY <1>1, <1>2, <1>6 DEF DeliverBatch
    <2> QED
      BY <1>1, <2>1
  <1>7. ASSUME UNCHANGED <<delivered, handling, tx_processor, store>>
        PROVE  delivered'[v] \subseteq store'[v] \cup ToSet(tx_processor'[v]) \cup {handling'[v]}
    BY <1>1, <1>7
  <1>8. CASE Seal \/ Send \/ Enqueue \/ TakeBatch \/ UNCHANGED vars
    BY <1>7, <1>8 DEF Seal, Send, Enqueue, TakeBatch, vars
  <1>9. ASSUME NEW b \in Batches, NEW w \in Authorities,
               CountAck(w) \/ Acknowledge(b, w) \/ Report(b, w) \/ LoseDigest(b)
        PROVE  UNCHANGED <<delivered, handling, tx_processor, store>>
    BY <1>9 DEF CountAck, Acknowledge, Report, LoseDigest
  <1>10. ASSUME NEW w \in Authorities, CountAck(w)
         PROVE  UNCHANGED <<delivered, handling, tx_processor, store>>
    BY <1>10 DEF CountAck
  <1>11. others_workers \subseteq Authorities /\ Correct \subseteq Authorities
    BY DEF others_workers, Correct
  <1>12. ASSUME NEW w \in others_workers, Take(w)
         PROVE  UNCHANGED <<delivered, handling, tx_processor, store>>
    BY <1>12 DEF Take
  <1> QED
    BY <1>1, <1>3, <1>4, <1>5, <1>6, <1>7, <1>8, <1>9, <1>10, <1>11, <1>12 DEF Next

\* Acknowledgements are given once and stay.
LEMMA HonestStep ==
  ASSUME HoldInv, [Next]_vars
  PROVE  Honest' /\ CountedAcks' /\ acked \subseteq acked'
  <1>1. Honest /\ CountedAcks /\ delivered \in [Authorities -> SUBSET Batches]
    BY DEF HoldInv, TypeOK
  <1>2. Correct \subseteq Authorities /\ Correct \cap Faulty = {} /\ others_workers \subseteq Authorities
    BY DEF Correct, others_workers
  <1>3. ASSUME NEW b \in Batches, NEW w \in others_workers, Acknowledge(b, w)
        PROVE  Honest' /\ CountedAcks' /\ acked \subseteq acked'
    <2>1. /\ UNCHANGED <<delivered, batch, counted>> /\ acked' = acked \cup {<<b, w>>}
          /\ w \in Faulty \/ b \in delivered[w]
      BY <1>3 DEF Acknowledge, Link!MayAcknowledge, waiter
    <2> QED
      BY <1>1, <1>2, <2>1 DEF Honest, CountedAcks
  <1>4. ASSUME NEW b \in Batches, NEW w \in Correct \ {Name}, Deliver(b, w)
        PROVE  Honest' /\ CountedAcks' /\ acked \subseteq acked'
    <2>1. UNCHANGED <<acked, batch, counted>> /\ delivered' = [delivered EXCEPT ![w] = @ \cup {b}]
      BY <1>4 DEF Deliver, waiter, handlers
    <2>2. \A v \in Authorities : delivered[v] \subseteq delivered'[v]
      BY <1>1, <2>1
    <2> QED
      BY <1>1, <1>2, <2>1, <2>2 DEF Honest, CountedAcks
  <1>5. ASSUME NEW w \in others_workers, CountAck(w)
        PROVE  Honest' /\ CountedAcks' /\ acked \subseteq acked'
    <2>1. /\ UNCHANGED <<acked, delivered, batch>> /\ counted' = counted \cup {w}
          /\ <<batch, w>> \in acked
      BY <1>5 DEF CountAck, handlers
    <2> QED
      BY <1>1, <2>1 DEF Honest, CountedAcks
  <1>6. CASE TakeBatch \/ DeliverBatch
    <2>1. UNCHANGED <<acked, delivered>> /\ counted' = {}
      BY <1>6 DEF TakeBatch, DeliverBatch, handlers
    <2> QED
      BY <1>1, <2>1 DEF Honest, CountedAcks
  <1>7. ASSUME UNCHANGED <<acked, delivered, batch, counted>>
        PROVE  Honest' /\ CountedAcks' /\ acked \subseteq acked'
    BY <1>1, <1>7 DEF Honest, CountedAcks
  <1>8. CASE Seal \/ Send \/ Enqueue \/ UNCHANGED vars
    BY <1>7, <1>8 DEF Seal, Send, Enqueue, vars, waiter, handlers
  <1>9. ASSUME NEW w \in Correct, Forward(w) \/ Process(w)
        PROVE  UNCHANGED <<acked, delivered, batch, counted>>
    BY <1>9 DEF Forward, Process, waiter, handlers
  <1>10. ASSUME NEW b \in Batches, NEW w \in Correct, Report(b, w)
         PROVE  UNCHANGED <<acked, delivered, batch, counted>>
    BY <1>10 DEF Report, waiter, handlers
  <1>11. ASSUME NEW b \in Batches, LoseDigest(b)
         PROVE  UNCHANGED <<acked, delivered, batch, counted>>
    BY <1>11 DEF LoseDigest, waiter, handlers
  <1>12. ASSUME NEW w \in others_workers, Take(w)
         PROVE  UNCHANGED <<acked, delivered, batch, counted>>
    BY <1>12 DEF Take, waiter, handlers
  <1> QED
    BY <1>3, <1>4, <1>5, <1>6, <1>7, <1>8, <1>9, <1>10, <1>11, <1>12 DEF Next

\* QuorumWaiter gives a batch to our Processor when a quorum, with us in it, has
\* acknowledged that batch.
LEMMA OursAcknowledgedStep ==
  ASSUME HoldInv, [Next]_vars
  PROVE  OursAcknowledged'
  <1> DEFINE Ours == store[Name] \cup ToSet(tx_processor[Name])
  <1>1. Name \in Authorities /\ \A b : Acknowledgers(b) \cup {Name} \in SUBSET Authorities
    BY DisseminationAssumption DEF Acknowledgers, others_workers
  <1>2. /\ handling \in [Authorities -> 0 .. MaxBatches]
        /\ store \in [Authorities -> SUBSET Batches] /\ tx_processor \in [Authorities -> Seq(Batches)]
        /\ counted \subseteq others_workers /\ batch \in 0 .. MaxBatches
    BY DEF HoldInv, TypeOK
  <1>3. handling[Name] = 0 /\ \A b \in Ours : IsQuorum(Acknowledgers(b) \cup {Name})
    BY DEF HoldInv, OursAcknowledged
  <1>4. \A b : Acknowledgers(b) \subseteq Acknowledgers(b)'
    BY HonestStep DEF Acknowledgers
  <1>5. \A b : IsQuorum(Acknowledgers(b) \cup {Name}) => IsQuorum(Acknowledgers(b)' \cup {Name})
    <2> SUFFICES ASSUME NEW b, IsQuorum(Acknowledgers(b) \cup {Name})
                 PROVE  IsQuorum(Acknowledgers(b)' \cup {Name})
      OBVIOUS
    <2>1. /\ Acknowledgers(b)' \cup {Name} \in SUBSET Authorities
          /\ Acknowledgers(b) \cup {Name} \in SUBSET (Acknowledgers(b)' \cup {Name})
      BY <1>1, <1>4 DEF Acknowledgers, others_workers
    <2>2. /\ Weight(Acknowledgers(b) \cup {Name}) <= Weight(Acknowledgers(b)' \cup {Name})
          /\ Weight(Acknowledgers(b) \cup {Name}) \in Nat /\ Weight(Acknowledgers(b)' \cup {Name}) \in Nat
      BY <1>1, <2>1, WeightMonotone, UnitsFinite
    <2> QED
      BY <2>2, ThresholdFacts DEF IsQuorum
  <1>6. ASSUME handling'[Name] = 0, Ours' \subseteq Ours PROVE OursAcknowledged'
    BY <1>3, <1>5, <1>6 DEF OursAcknowledged
  <1>7. CASE DeliverBatch
    <2>1. tx_processor[Name] \in Seq(Batches) /\ batch \in Batches
      BY <1>1, <1>2, <1>7 DEF DeliverBatch, Batches
    <2>2. /\ UNCHANGED <<handling, store>>
          /\ tx_processor'[Name] = Append(tx_processor[Name], batch)
      BY <1>1, <1>2, <1>7 DEF DeliverBatch
    <2>3. Ours' = Ours \cup {batch}
      BY <2>1, <2>2, ToSetAppend
    <2>4. IsQuorum(Acknowledgers(batch) \cup {Name})
      <3>1. counted \subseteq Acknowledgers(batch)
        BY <1>2, <1>7 DEF DeliverBatch, HoldInv, CountedAcks, Acknowledgers
      <3>2. /\ counted \cup {Name} \in SUBSET (Acknowledgers(batch) \cup {Name})
            /\ counted \cup {Name} \in SUBSET Authorities
        BY <1>1, <3>1
      <3>3. /\ Weight(counted \cup {Name}) <= Weight(Acknowledgers(batch) \cup {Name})
            /\ Weight(counted \cup {Name}) \in Nat /\ Weight(Acknowledgers(batch) \cup {Name}) \in Nat
        BY <1>1, <3>2, WeightMonotone, UnitsFinite
      <3>4. IsQuorum(counted \cup {Name})
        BY <1>7 DEF DeliverBatch, Enough
      <3> QED
        BY <3>3, <3>4, ThresholdFacts DEF IsQuorum
    <2> QED
      BY <1>3, <1>5, <2>2, <2>3, <2>4 DEF OursAcknowledged
  <1>8. ASSUME NEW b \in Batches, NEW w \in Correct \ {Name}, Deliver(b, w)
        PROVE  OursAcknowledged'
    <2>1. UNCHANGED <<tx_processor, store>> /\ handling'[Name] = handling[Name]
      BY <1>1, <1>2, <1>8 DEF Deliver
    <2> QED
      BY <1>3, <1>6, <2>1
  <1>9. ASSUME NEW w \in Correct, Forward(w) PROVE OursAcknowledged'
    <2>1. w # Name
      BY <1>3, <1>9 DEF Forward
    <2>2. store' = store /\ tx_processor'[Name] = tx_processor[Name] /\ handling'[Name] = handling[Name]
      BY <1>1, <1>2, <1>9, <2>1 DEF Forward
    <2> QED
      BY <1>3, <1>6, <2>2
  <1>10. ASSUME NEW w \in Correct, Process(w) PROVE OursAcknowledged'
    <2>1. handling' = handling
      BY <1>10 DEF Process
    <2>2. CASE w = Name
      <3>1. tx_processor[Name] \in Seq(Batches) /\ tx_processor[Name] # <<>>
        BY <1>1, <1>2, <1>10, <2>2 DEF Process
      <3>2. ToSet(tx_processor[Name]) = {Head(tx_processor[Name])} \cup ToSet(Tail(tx_processor[Name]))
        BY <3>1, ToSetTail
      <3>3. /\ tx_processor'[Name] = Tail(tx_processor[Name])
            /\ store'[Name] = store[Name] \cup {Head(tx_processor[Name])}
        BY <1>1, <1>2, <1>10, <2>2 DEF Process
      <3> QED
        BY <1>3, <1>6, <2>1, <3>2, <3>3
    <2>3. CASE w # Name
      <3>1. tx_processor'[Name] = tx_processor[Name] /\ store'[Name] = store[Name]
        BY <1>1, <1>2, <1>10, <2>3 DEF Process
      <3> QED
        BY <1>3, <1>6, <2>1, <3>1
    <2> QED
      BY <2>2, <2>3
  <1>11. ASSUME UNCHANGED <<handling, tx_processor, store>> PROVE OursAcknowledged'
    BY <1>3, <1>6, <1>11
  <1>12. CASE Seal \/ Send \/ Enqueue \/ TakeBatch \/ UNCHANGED vars
    BY <1>11, <1>12 DEF Seal, Send, Enqueue, TakeBatch, vars
  <1>13. ASSUME NEW w \in others_workers, CountAck(w) \/ Take(w)
         PROVE  UNCHANGED <<handling, tx_processor, store>>
    BY <1>13 DEF CountAck, Take
  <1>14. ASSUME NEW b \in Batches, NEW w, Acknowledge(b, w) \/ Report(b, w) \/ LoseDigest(b)
         PROVE  UNCHANGED <<handling, tx_processor, store>>
    BY <1>14 DEF Acknowledge, Report, LoseDigest
  <1> QED
    BY <1>7, <1>8, <1>9, <1>10, <1>11, <1>12, <1>13, <1>14 DEF Next

\* The Processor stores a batch before it reports the digest.
LEMMA ReportedIsStoredStep ==
  ASSUME HoldInv, [Next]_vars
  PROVE  ReportedIsStored'
  <1>1. /\ store \in [Authorities -> SUBSET Batches] /\ tx_digest \in [Authorities -> SUBSET Batches]
        /\ known \in [Authorities -> SUBSET Batches]
        /\ \A w \in Authorities : tx_digest[w] \cup known[w] \subseteq store[w]
    BY DEF HoldInv, TypeOK, ReportedIsStored
  <1>2. ASSUME NEW w \in Correct, Process(w) PROVE ReportedIsStored'
    <2> DEFINE b == Head(tx_processor[w])
    <2>1. /\ store' = [store EXCEPT ![w] = @ \cup {b}] /\ tx_digest' = [tx_digest EXCEPT ![w] = @ \cup {b}]
          /\ known' = known
      BY <1>2 DEF Process, primaries
    <2> HIDE DEF b
    <2> QED
      BY <1>1, <2>1 DEF ReportedIsStored
  <1>3. ASSUME NEW b \in Batches, NEW w \in Correct, Report(b, w) PROVE ReportedIsStored'
    BY <1>1, <1>3 DEF Report, ReportedIsStored
  <1>4. ASSUME NEW b \in Batches, LoseDigest(b) PROVE ReportedIsStored'
    BY <1>1, <1>4 DEF LoseDigest, ReportedIsStored
  <1>5. ASSUME UNCHANGED <<store, tx_digest, known>> PROVE ReportedIsStored'
    BY <1>1, <1>5 DEF ReportedIsStored
  <1>6. CASE Seal \/ Send \/ Enqueue \/ TakeBatch \/ DeliverBatch \/ UNCHANGED vars
    BY <1>5, <1>6 DEF Seal, Send, Enqueue, TakeBatch, DeliverBatch, vars, primaries
  <1>7. ASSUME NEW w, CountAck(w) \/ Forward(w) \/ Take(w) PROVE UNCHANGED <<store, tx_digest, known>>
    BY <1>7 DEF CountAck, Forward, Take, primaries
  <1>8. ASSUME NEW b, NEW w, Acknowledge(b, w) \/ Deliver(b, w) PROVE UNCHANGED <<store, tx_digest, known>>
    BY <1>8 DEF Acknowledge, Deliver, primaries
  <1> QED
    BY <1>2, <1>3, <1>4, <1>5, <1>6, <1>7, <1>8 DEF Next

\* Every step preserves the invariant.
LEMMA HoldStep == HoldInv /\ [Next]_vars => HoldInv'
  <1> SUFFICES ASSUME HoldInv, [Next]_vars PROVE HoldInv'
    OBVIOUS
  <1>1. TypeOK'
    BY TypesStep DEF HoldInv
  <1> QED
    BY <1>1, SealedStep, KeptStep, HonestStep, OursAcknowledgedStep, ReportedIsStoredStep
    DEF HoldInv

\* Enough correct workers have a batch that our primary knows: they are the
\* correct part of the quorum that acknowledged it.
LEMMA HeldByQuorum == HoldInv => ProposableIsHeld
  <1> SUFFICES ASSUME HoldInv, NEW b \in known[Name] PROVE IsValidity(Holders(b))
    BY DEF ProposableIsHeld
  <1> DEFINE Q == Acknowledgers(b) \cup {Name}
  <1>1. /\ Name \in Authorities /\ Faulty \in SUBSET Authorities /\ Name \notin Faulty
        /\ FaultBound(Faulty) /\ Q \in SUBSET Authorities
    BY DisseminationAssumption DEF Acknowledgers, others_workers
  <1>2. b \in store[Name] /\ b \in Batches
    BY <1>1 DEF HoldInv, ReportedIsStored, TypeOK
  <1>3. IsQuorum(Q)
    BY <1>2 DEF HoldInv, OursAcknowledged
  <1>4. Holders(b) \in SUBSET Authorities
    BY DEF Holders, Correct
  <1>5. Q \ Faulty \in SUBSET Holders(b)
    <2> SUFFICES ASSUME NEW w \in Q, w \notin Faulty PROVE w \in Holders(b)
      OBVIOUS
    <2>1. w \in Correct
      BY <1>1 DEF Correct
    <2>2. CASE w = Name
      BY <1>2, <2>1, <2>2 DEF Holders
    <2>3. CASE w # Name
      <3>1. b \in delivered[w]
        BY <1>2, <2>1, <2>3 DEF Acknowledgers, HoldInv, Honest
      <3> QED
        BY <2>1, <2>3, <3>1 DEF HoldInv, Kept, Holders
    <2> QED
      BY <2>2, <2>3
  <1> HIDE DEF Q
  <1>6. IsValidity(Q \ Faulty)
    BY <1>1, <1>3, CorrectPartOfQuorum
  <1>7. /\ Weight(Q \ Faulty) <= Weight(Holders(b))
        /\ Weight(Q \ Faulty) \in Nat /\ Weight(Holders(b)) \in Nat
    BY <1>1, <1>4, <1>5, WeightMonotone, UnitsFinite
  <1> QED
    BY <1>6, <1>7, ThresholdFacts DEF IsValidity

\* A primary votes for what its worker has stored.
LEMMA StoredByVoters == HoldInv => VotableIsStored
  <1> SUFFICES ASSUME HoldInv, NEW b \in Batches,
                      IsQuorum(Faulty \cup {w \in Correct : b \in known[w]})
               PROVE  IsValidity({w \in Correct : b \in store[w]})
    BY DEF VotableIsStored
  <1> DEFINE Q == Faulty \cup {w \in Correct : b \in known[w]}
             S == {w \in Correct : b \in store[w]}
  <1>1. /\ Faulty \in SUBSET Authorities /\ FaultBound(Faulty)
        /\ Q \in SUBSET Authorities /\ S \in SUBSET Authorities
    BY DisseminationAssumption DEF Correct, others_workers
  <1>2. Q \ Faulty \in SUBSET S
    BY DEF HoldInv, ReportedIsStored, Correct
  <1>3. IsQuorum(Q)
    OBVIOUS
  <1> HIDE DEF Q, S
  <1>4. IsValidity(Q \ Faulty)
    BY <1>1, <1>3, CorrectPartOfQuorum
  <1>5. Weight(Q \ Faulty) <= Weight(S) /\ Weight(Q \ Faulty) \in Nat /\ Weight(S) \in Nat
    BY <1>1, <1>2, WeightMonotone, UnitsFinite
  <1>6. IsValidity(S)
    BY <1>4, <1>5, ThresholdFacts DEF IsValidity
  <1> QED
    BY <1>6 DEF S

-----------------------------------------------------------------------------
(* The theorems.                                                           *)

\* The tasks of the workers and their channels stay in their types and bounds.
THEOREM TypeCorrect == Spec => []TypeOK
  BY TypesInit, TypesStep, PTL DEF Spec

\* QuorumWaiter and Processor: a digest that our primary may put into a header
\* is that of a batch which correct workers with f+1 of the stake hold.
THEOREM ProposableHeld == Spec => []ProposableIsHeld
  BY HoldInit, HoldStep, HeldByQuorum, PTL DEF Spec

\* Processor and PrimaryConnector: a batch that a quorum of primaries may vote
\* for is stored by correct workers with f+1 of the stake.
THEOREM VotableStored == Spec => []VotableIsStored
  BY HoldInit, HoldStep, StoredByVoters, PTL DEF Spec

=============================================================================
