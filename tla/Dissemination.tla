--------------------------- MODULE Dissemination ---------------------------
(***************************************************************************)
(* How the batches of one worker reach the others, and their digests the   *)
(* primaries (worker/src: BatchMaker::seal, QuorumWaiter, Processor,       *)
(* PrimaryConnector, WorkerReceiverHandler; primary/src/primary.rs:        *)
(* WorkerReceiverHandler).  The network between workers does anything that *)
(* ReliableSender allows (ReliableDelivery); the one to the primary is a   *)
(* SimpleSender, which may lose what it is given.                          *)
(*                                                                         *)
(* A batch is its number in the order of sealing, and stands for its       *)
(* digest.  A faulty worker acknowledges what it likes and keeps nothing,  *)
(* and may stop reading; a worker that crashes counts as faulty.           *)
(***************************************************************************)
EXTENDS Committee, SequencesExt

CONSTANTS Name,        \* the authority whose batches are followed
          Faulty,      \* the authorities whose worker is faulty
          addresses,   \* the other workers in the order of workers_addresses
          ChannelSize, \* the capacity of a channel (CHANNEL_CAPACITY)
          ConnectionSize, \* that of the channel to a Connection of ReliableSender
          MaxBatches   \* the bound on the batches sealed

\* The workers of the other authorities with the same id.
others_workers == Authorities \ {Name}

ASSUME DisseminationAssumption ==
    /\ Name \in Authorities /\ Authorities # {Name}
    /\ Faulty \subseteq others_workers /\ FaultBound(Faulty)
    /\ addresses \in Seq(others_workers) /\ ToSet(addresses) = others_workers
    /\ ChannelSize \in Nat \ {0} /\ ConnectionSize \in Nat \ {0} /\ MaxBatches \in Nat

Batches == 1 .. MaxBatches

Correct == Authorities \ Faulty

VARIABLES
    \* BatchMaker: the batches sealed, those handed to QuorumWaiter, and the
    \* workers the last one is still to be sent to
    sealed, queued, unsent,
    \* ReliableSender: the batches each Connection has taken from its channel
    taken,
    \* QuorumWaiter: its channel, the batch it waits for (0: none) and the
    \* workers whose acknowledgement it has counted
    rx_message, batch, counted,
    \* the CancelHandlers notified and dropped, as pairs of batch and worker
    acked, closed,
    \* every worker: the batches its WorkerReceiverHandler was given, the one
    \* it holds while the channel of its Processor is full (0: none), that
    \* channel, its store, the digests under way to its primary
    delivered, handling, tx_processor, store, tx_digest,
    \* what every primary was told, and the digests ours lost
    known, lost

waiter == <<rx_message, batch, counted>>
handlers == <<acked, closed>>
primaries == <<known, lost>>
maker == <<sealed, queued, unsent, taken>>
vars == <<maker, waiter, handlers, delivered, handling, tx_processor, store,
          tx_digest, primaries>>

Init ==
    /\ sealed = 0 /\ queued = 0 /\ unsent = <<>>
    /\ taken = [w \in others_workers |-> 0]
    /\ rx_message = <<>> /\ batch = 0 /\ counted = {}
    /\ acked = {} /\ closed = {}
    /\ delivered = [w \in Authorities |-> {}]
    /\ handling = [w \in Authorities |-> 0]
    /\ tx_processor = [w \in Authorities |-> <<>>]
    /\ store = [w \in Authorities |-> {}]
    /\ tx_digest = [w \in Authorities |-> {}]
    /\ known = [w \in Authorities |-> {}]
    /\ lost = {}

-----------------------------------------------------------------------------
(* BatchMaker::seal sends a batch to one worker after the other and then   *)
(* hands it to QuorumWaiter; it awaits room in each channel.               *)

Sent(w) == IF w \in ToSet(unsent) THEN sealed - 1 ELSE sealed

Seal ==
    /\ sealed < MaxBatches /\ queued = sealed
    /\ sealed' = sealed + 1 /\ unsent' = addresses
    /\ UNCHANGED <<queued, taken, waiter, handlers, delivered, handling, tx_processor,
                   store, tx_digest, primaries>>

HasRoom(w) == Sent(w) - taken[w] < ConnectionSize

\* ReliableSender::broadcast.
Send ==
    /\ unsent # <<>> /\ HasRoom(Head(unsent))
    /\ unsent' = Tail(unsent)
    /\ UNCHANGED <<sealed, queued, taken, waiter, handlers, delivered, handling, tx_processor,
                   store, tx_digest, primaries>>

Enqueue ==
    /\ queued < sealed /\ unsent = <<>> /\ Len(rx_message) < ChannelSize
    /\ queued' = sealed
    /\ rx_message' = Append(rx_message, sealed)
    /\ UNCHANGED <<sealed, unsent, taken, batch, counted, handlers, delivered, handling,
                   tx_processor, store, tx_digest, primaries>>

\* The Connection takes a batch into its buffer.
Take(w) ==
    /\ taken[w] < Sent(w)
    /\ taken' = [taken EXCEPT ![w] = @ + 1]
    /\ UNCHANGED <<sealed, queued, unsent, waiter, handlers, delivered, handling, tx_processor,
                   store, tx_digest, primaries>>

-----------------------------------------------------------------------------
(* The network between workers, and the dispatch of WorkerReceiverHandler. *)

Link(w) ==
    INSTANCE ReliableDelivery
        WITH sent <- taken[w],
             closed <- {b \in Batches : <<b, w>> \in closed},
             delivered <- delivered[w],
             acked <- {b \in Batches : <<b, w>> \in acked}

\* The handler of a correct worker gets a batch, maybe again, and sends "Ack"
\* before it does anything else.
Deliver(b, w) ==
    /\ Link(w)!MayDeliver(b) /\ handling[w] = 0
    /\ delivered' = [delivered EXCEPT ![w] = @ \cup {b}]
    /\ handling' = [handling EXCEPT ![w] = b]
    /\ UNCHANGED <<maker, waiter, handlers, tx_processor, store, tx_digest, primaries>>

\* The acknowledgement arrives, unless the CancelHandler is gone.
Acknowledge(b, w) ==
    /\ IF w \in Faulty THEN b <= taken[w] ELSE Link(w)!MayAcknowledge(b)
    /\ <<b, w>> \notin acked \cup closed
    /\ acked' = acked \cup {<<b, w>>}
    /\ UNCHANGED <<maker, waiter, closed, delivered, handling, tx_processor, store, tx_digest,
                   primaries>>

\* The handler waits for room in the channel of the Processor.
Forward(w) ==
    /\ handling[w] # 0 /\ Len(tx_processor[w]) < ChannelSize
    /\ tx_processor' = [tx_processor EXCEPT ![w] = Append(@, handling[w])]
    /\ handling' = [handling EXCEPT ![w] = 0]
    /\ UNCHANGED <<maker, waiter, handlers, delivered, store, tx_digest, primaries>>

-----------------------------------------------------------------------------
(* QuorumWaiter::run.                                                      *)

TakeBatch ==
    /\ batch = 0 /\ rx_message # <<>>
    /\ batch' = Head(rx_message) /\ rx_message' = Tail(rx_message)
    /\ counted' = {}
    /\ UNCHANGED <<maker, handlers, delivered, handling, tx_processor,
                   store, tx_digest, primaries>>

\* Mutants of Enough: f+1 acknowledgements do; all of them are needed.
EnoughForValidity == counted # {} /\ IsValidity(counted \cup {Name})

EnoughWithAll == counted = others_workers

\* Our stake counts from the start, but the total is only looked at when an
\* acknowledgement arrives.
Enough == counted # {} /\ IsQuorum(counted \cup {Name})

CountAck(w) ==
    /\ batch # 0 /\ ~ Enough
    /\ <<batch, w>> \in acked /\ w \notin counted
    /\ counted' = counted \cup {w}
    /\ UNCHANGED <<maker, rx_message, batch, handlers, delivered, handling,
                   tx_processor, store, tx_digest, primaries>>

\* The batch goes to our Processor.  Then the other CancelHandlers are
\* dropped: the batch is not sent again to the workers that are late.
DeliverBatch ==
    /\ batch # 0 /\ Enough /\ Len(tx_processor[Name]) < ChannelSize
    /\ tx_processor' = [tx_processor EXCEPT ![Name] = Append(@, batch)]
    /\ closed' = closed \cup (({batch} \X others_workers) \ acked)
    /\ batch' = 0 /\ counted' = {}
    /\ UNCHANGED <<maker, rx_message, acked, delivered, handling,
                   store, tx_digest, primaries>>

-----------------------------------------------------------------------------
(* Processor, PrimaryConnector and the primary.                            *)

\* Mutant of Process: the digest is sent before the batch is stored.
ProcessReportingFirst(w) ==
    /\ tx_processor[w] # <<>>
    /\ LET b == Head(tx_processor[w])
       IN  /\ b \in tx_digest[w] \cup known[w]
           /\ store' = [store EXCEPT ![w] = @ \cup {b}]
           /\ tx_processor' = [tx_processor EXCEPT ![w] = Tail(@)]
           /\ UNCHANGED tx_digest
        \/ /\ b \notin tx_digest[w] \cup known[w]
           /\ tx_digest' = [tx_digest EXCEPT ![w] = @ \cup {b}]
           /\ UNCHANGED <<store, tx_processor>>
    /\ UNCHANGED <<maker, waiter, handlers, delivered, handling, primaries>>

\* The batch is stored, then its digest goes to the PrimaryConnector.
Process(w) ==
    /\ tx_processor[w] # <<>>
    /\ store' = [store EXCEPT ![w] = @ \cup {Head(tx_processor[w])}]
    /\ tx_digest' = [tx_digest EXCEPT ![w] = @ \cup {Head(tx_processor[w])}]
    /\ tx_processor' = [tx_processor EXCEPT ![w] = Tail(@)]
    /\ UNCHANGED <<maker, waiter, handlers, delivered, handling, primaries>>

\* The primary hears of the batch: OurBatch of its own worker makes it a
\* digest to propose, OthersBatch of the others a payload it can vote for.
Report(b, w) ==
    /\ b \in tx_digest[w]
    /\ tx_digest' = [tx_digest EXCEPT ![w] = @ \ {b}]
    /\ known' = [known EXCEPT ![w] = @ \cup {b}]
    /\ UNCHANGED <<maker, waiter, handlers, delivered, handling, tx_processor,
                   store, lost>>

\* The connection to our primary fails and the SimpleSender drops the digest.
\* With the other workers, a digest that is lost is one that never arrives.
LoseDigest(b) ==
    /\ b \in tx_digest[Name]
    /\ tx_digest' = [tx_digest EXCEPT ![Name] = @ \ {b}]
    /\ lost' = lost \cup {b}
    /\ UNCHANGED <<maker, waiter, handlers, delivered, handling, tx_processor,
                   store, known>>

Next ==
    \/ Seal \/ Send \/ Enqueue \/ TakeBatch \/ DeliverBatch
    \/ \E w \in others_workers : Take(w)
    \/ \E w \in others_workers : CountAck(w)
    \/ \E b \in Batches, w \in others_workers : Acknowledge(b, w)
    \/ \E b \in Batches, w \in Correct \ {Name} : Deliver(b, w)
    \/ \E w \in Correct : Forward(w) \/ Process(w)
    \/ \E b \in Batches, w \in Correct : Report(b, w)
    \/ \E b \in Batches : LoseDigest(b)

Spec == Init /\ [][Next]_vars

\* The runtime runs the tasks that can proceed.  The network brings a batch
\* and its acknowledgement to and from a correct worker while the broadcast
\* is not cancelled (ReliableSender!EventuallyAcknowledged); nothing is
\* assumed of faulty workers, not even that what is written to them is read.
Fairness ==
    /\ WF_vars(Send) /\ WF_vars(Enqueue) /\ WF_vars(TakeBatch) /\ WF_vars(DeliverBatch)
    /\ \A w \in others_workers : WF_vars(CountAck(w))
    /\ \A w \in Correct \ {Name} : WF_vars(Take(w))
    /\ \A b \in Batches : \A w \in Correct \ {Name} :
         /\ SF_vars(Deliver(b, w) /\ <<b, w>> \notin closed /\ b \notin delivered[w])
         /\ WF_vars(Acknowledge(b, w))
    /\ \A w \in Correct : WF_vars(Forward(w)) /\ WF_vars(Process(w))
    /\ \A b \in Batches : WF_vars(Report(b, Name) \/ LoseDigest(b))

FairSpec == Spec /\ Fairness

-----------------------------------------------------------------------------
(* Properties.                                                             *)

\* The type invariant of the pipeline.
TypeOK ==
    /\ sealed \in 0 .. MaxBatches /\ queued \in {sealed - 1, sealed} \cap Nat
    /\ unsent \in Seq(others_workers) /\ (unsent # <<>> => queued < sealed)
    /\ taken \in [others_workers -> 0 .. MaxBatches]
    /\ rx_message \in Seq(Batches) /\ Len(rx_message) <= ChannelSize
    /\ batch \in 0 .. MaxBatches /\ counted \subseteq others_workers
    /\ acked \subseteq Batches \X others_workers /\ closed \subseteq Batches \X others_workers
    /\ delivered \in [Authorities -> SUBSET Batches]
    /\ handling \in [Authorities -> 0 .. MaxBatches]
    /\ tx_processor \in [Authorities -> Seq(Batches)]
    /\ \A w \in Authorities : Len(tx_processor[w]) <= ChannelSize
    /\ store \in [Authorities -> SUBSET Batches]
    /\ tx_digest \in [Authorities -> SUBSET Batches]
    /\ known \in [Authorities -> SUBSET Batches] /\ lost \subseteq Batches

\* The workers that have a batch in a store or in memory.
Holders(b) ==
    {w \in Correct : b \in store[w] \cup ToSet(tx_processor[w]) \cup {handling[w]}}

\* When our primary may propose a batch, f+1 of the stake is with correct
\* workers that have it, although an acknowledgement comes before the batch is
\* stored and f of the acknowledgements may lie.
ProposableIsHeld == \A b \in known[Name] : IsValidity(Holders(b))

\* A batch that a quorum of primaries may vote for, the faulty ones in any
\* case, is in the stores of correct workers with f+1 of the stake: a primary
\* that misses it can get it from one of them.
VotableIsStored ==
    \A b \in Batches :
        IsQuorum(Faulty \cup {w \in Correct : b \in known[w]})
            => IsValidity({w \in Correct : b \in store[w]})

\* seal awaits the channel to a faulty worker that no longer reads.
Blocked == unsent # <<>> /\ Head(unsent) \in Faulty /\ ~ HasRoom(Head(unsent))

\* A sealed batch comes to our primary, unless the SimpleSender loses its digest
\* or a faulty worker, which stopped reading as many batches ago as the channel to
\* its Connection holds, keeps the BatchMaker from ever handing it on.
SealedIsReported ==
    \A b \in Batches :
        (b <= sealed) ~> (b \in known[Name] \cup lost \/ [](b = sealed /\ Blocked))

=============================================================================
