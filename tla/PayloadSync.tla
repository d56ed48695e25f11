---------------------------- MODULE PayloadSync ----------------------------
(***************************************************************************)
(* How the primary of one authority, Name, gets the payload of the headers *)
(* of others: the batches reach its worker by the broadcast of their       *)
(* author, which the author's QuorumWaiter may cancel; the worker reports  *)
(* them; the header, suspended by the Core, waits in HeaderWaiter, first   *)
(* for its parents (how they come is in ParentSync) and then for the       *)
(* payload, which HeaderWaiter has synchronized through a worker           *)
(* (primary/src/header_waiter.rs); the garbage collector cleans up.  The   *)
(* workers are those of WorkerSync.                                        *)
(***************************************************************************)
EXTENDS WorkerSync

CONSTANTS Name,
          Headers, Round, Author, Payload, \* the headers of others
          Orphans \* those whose parents the primary lacks at the start

ASSUME PayloadSyncAssumption ==
    /\ Name \in Workers
    /\ Round \in [Headers -> Nat] /\ Author \in [Headers -> Commanded \ {Name}]
    /\ Payload \in [Headers -> SUBSET Digests \ {{}}] /\ Orphans \subseteq Headers

VARIABLES
    \* the primary: the headers whose parents are in the store; those pending in
    \* HeaderWaiter, for their parents or for their payload, and those looped back
    \* with their parents (with its payload too, a header is through here); the
    \* digests requested (with the round of the header) and those in the store;
    \* the round of the last certificate committed (of every primary)
    parents, pending_parents, pending_headers, rx_header_waiter,
    batch_requests, payload, consensus_round,
    \* the batches the author is broadcasting to our worker, and the digests
    \* that are lost to us: cancelled by the author or dropped on the way
    broadcast, lost

primaryVars == <<parents, pending_parents, pending_headers, rx_header_waiter, batch_requests, payload,
                 consensus_round>>
vars == <<workerVars, primaryVars, broadcast, lost>>

Init ==
    /\ WorkerInit
    /\ parents = Headers \ Orphans /\ pending_parents = {} /\ pending_headers = {} /\ rx_header_waiter = {}
    /\ batch_requests = {} /\ payload = {}
    /\ consensus_round = [w \in Workers |-> 0]
    /\ broadcast = Digests /\ lost = {}

-----------------------------------------------------------------------------
(* The broadcast of the author, and the way of a digest to the primary.    *)

\* Mutant of ReceiveBroadcast: the digest of a batch of others is not reported.
ReceiveBroadcastSilently(d) ==
    /\ d \in broadcast
    /\ broadcast' = broadcast \ {d}
    /\ store' = [store EXCEPT ![Name] = @ \cup {d}]
    /\ UNCHANGED <<tx_primary, pending, round, network, primaryVars, lost>>

\* WorkerReceiverHandler and Processor of our worker: stored, then reported.
ReceiveBroadcast(d) ==
    /\ d \in broadcast
    /\ broadcast' = broadcast \ {d}
    /\ store' = [store EXCEPT ![Name] = @ \cup {d}]
    /\ tx_primary' = [tx_primary EXCEPT ![Name] = @ \cup {d}]
    /\ UNCHANGED <<pending, round, network, primaryVars, lost>>

\* The author's QuorumWaiter has its quorum without us.
CancelBroadcast(d) ==
    /\ d \in broadcast
    /\ broadcast' = broadcast \ {d}
    /\ lost' = lost \cup {d}
    /\ UNCHANGED <<workerVars, primaryVars>>

\* WorkerReceiverHandler and PayloadReceiver of the primary.
ReceiveDigest(d) ==
    /\ d \in tx_primary[Name]
    /\ tx_primary' = [tx_primary EXCEPT ![Name] = @ \ {d}]
    /\ payload' = payload \cup {d}
    /\ UNCHANGED <<store, pending, round, network, parents, pending_parents, pending_headers,
                   rx_header_waiter, batch_requests, consensus_round, broadcast, lost>>

LoseDigest(d) ==
    /\ losses < MaxLosses /\ losses' = losses + 1
    /\ d \in tx_primary[Name]
    /\ tx_primary' = [tx_primary EXCEPT ![Name] = @ \ {d}]
    /\ lost' = lost \cup {d}
    /\ UNCHANGED <<store, pending, round, commands, requests, batches, primaryVars, broadcast>>

-----------------------------------------------------------------------------
(* The Core and HeaderWaiter.                                              *)

\* The headers in the map of HeaderWaiter.
Pending == pending_parents \cup pending_headers

\* Mutant of HeaderWaiterCleanup: the requests of collected headers are kept.
HeaderWaiterCleanupPartly(P, H, R) ==
    LET gc_round == consensus_round[Name] - GcDepth
        Kept(S) == {h \in S : consensus_round[Name] > GcDepth => Round[h] > gc_round}
    IN  /\ pending_parents' = Kept(P) /\ pending_headers' = Kept(H)
        /\ batch_requests' = R

HeaderWaiterCleanup(P, H, R) ==
    LET gc_round == consensus_round[Name] - GcDepth
        Kept(S) == {h \in S : consensus_round[Name] > GcDepth => Round[h] > gc_round}
    IN  /\ pending_parents' = Kept(P) /\ pending_headers' = Kept(H)
        /\ batch_requests' = {r \in R : consensus_round[Name] > GcDepth => r.round > gc_round}

\* A header comes to the Core, again perhaps: received as long as its round is
\* not below the GC round, or looped back.
Arrive(h) ==
    \/ Round[h] >= consensus_round[Name] - GcDepth /\ UNCHANGED rx_header_waiter
    \/ h \in rx_header_waiter /\ rx_header_waiter' = rx_header_waiter \ {h}

\* The Core lacks nothing of it, or HeaderWaiter has it already.
ProcessHeader(h) ==
    /\ h \in rx_header_waiter
    /\ h \in Pending \/ (h \in parents /\ Payload[h] \subseteq payload)
    /\ rx_header_waiter' = rx_header_waiter \ {h}
    /\ UNCHANGED <<workerVars, parents, pending_parents, pending_headers, batch_requests, payload,
                   consensus_round, broadcast, lost>>

\* get_parents of the Core suspends it.
SyncParents(h) ==
    /\ Arrive(h) /\ h \notin Pending \cup parents
    /\ HeaderWaiterCleanup(pending_parents \cup {h}, pending_headers, batch_requests)
    /\ UNCHANGED <<workerVars, parents, payload, consensus_round, broadcast, lost>>

\* The worker that is told to synchronize: that of the author.
SyncWorker(h) == Author[h]

\* missing_payload of the Core suspends it, and HeaderWaiter commands the
\* synchronization of what no header before has.
SyncBatches(h) ==
    /\ Arrive(h) /\ h \in parents \ Pending /\ ~ Payload[h] \subseteq payload
    /\ LET missing == Payload[h] \ payload
           new == missing \ {r.digest : r \in batch_requests}
       IN  /\ HeaderWaiterCleanup(pending_parents, pending_headers \cup {h},
                  batch_requests \cup {[digest |-> d, round |-> Round[h]] : d \in new})
           /\ commands' = commands \cup
                  (IF new = {} THEN {} ELSE {SynchronizeCommand(SyncWorker(h), new, Author[h])})
    /\ UNCHANGED <<store, pending, round, tx_primary, requests, batches, losses,
                   parents, payload, consensus_round, broadcast, lost>>

\* The parents of a header come into the store.
StoreParents(h) ==
    /\ h \notin parents /\ parents' = parents \cup {h}
    /\ UNCHANGED <<workerVars, pending_parents, pending_headers, rx_header_waiter, batch_requests,
                   payload, consensus_round, broadcast, lost>>

\* The notify_read of all that the header missed returned.  The requests of its
\* payload go, also if it waited for its parents only and others wait for these.
HeaderComplete(h) ==
    /\ \/ /\ h \in pending_parents /\ h \in parents
          /\ rx_header_waiter' = rx_header_waiter \cup {h}
       \/ /\ h \in pending_headers /\ Payload[h] \subseteq payload
          /\ UNCHANGED rx_header_waiter
    /\ HeaderWaiterCleanup(pending_parents \ {h}, pending_headers \ {h},
                           {r \in batch_requests : r.digest \notin Payload[h]})
    /\ UNCHANGED <<workerVars, parents, payload, consensus_round, broadcast, lost>>

\* GarbageCollector of a primary: a certificate of a later round was committed,
\* and its worker is told, if that is followed.
GarbageCollect(w) ==
    /\ consensus_round[w] < MaxRound[w]
    /\ consensus_round' = [consensus_round EXCEPT ![w] = @ + 1]
    /\ commands' = commands \cup
                     (IF w \in Commanded THEN {CleanupCommand(w, consensus_round[w] + 1)} ELSE {})
    /\ UNCHANGED <<store, pending, round, tx_primary, requests, batches, losses,
                   parents, pending_parents, pending_headers, rx_header_waiter, batch_requests,
                   payload, broadcast, lost>>

Next ==
    \/ WorkerNext /\ UNCHANGED <<primaryVars, broadcast, lost>>
    \/ \E d \in Digests :
         ReceiveBroadcast(d) \/ CancelBroadcast(d) \/ ReceiveDigest(d) \/ LoseDigest(d)
    \/ \E h \in Headers :
         \/ ProcessHeader(h) \/ SyncParents(h) \/ SyncBatches(h)
         \/ StoreParents(h) \/ HeaderComplete(h)
    \/ \E w \in Workers : GarbageCollect(w)

Spec == Init /\ [][Next]_vars

\* The tasks run; a batch or a digest on its way arrives or is lost.
Fairness ==
    /\ WorkerFairness
    /\ \A d \in Digests :
         /\ WF_vars(ReceiveBroadcast(d) \/ CancelBroadcast(d))
         /\ WF_vars(ReceiveDigest(d) \/ LoseDigest(d))
    /\ \A h \in Headers : WF_vars(HeaderComplete(h))

FairSpec == Spec /\ Fairness

-----------------------------------------------------------------------------
(* Properties.                                                             *)

\* Every entry of batch_requests has a header that waits for the batch, whichever
\* headers share it, loop back or are collected: an entry left behind would keep
\* every later header of the batch from having it synchronized.  The converse does
\* not hold: a header that shares the batch and gets its parents takes the entry.
NoRequestLeftBehind ==
    \A r \in batch_requests :
        \E h \in pending_headers : Round[h] = r.round /\ r.digest \in Payload[h]

\* A header suspended for its payload loops back or is collected, unless a batch
\* of it was cancelled by its author or its digest lost on the way from our worker.
LoopsBackUnlessLost ==
    \A h \in Headers :
        (h \in pending_headers) ~> (h \notin pending_headers \/ Payload[h] \cap lost # {})

=============================================================================
