----------------------------- MODULE WorkerSync -----------------------------
(***************************************************************************)
(* How the workers of one id get batches from each other: the Synchronizer *)
(* (worker/src/synchronizer.rs) takes the commands of a primary, asks one  *)
(* worker and then, by a timer, others; the Helper (helper.rs) answers;    *)
(* the Processor stores what arrives and reports its digest.  Commands,    *)
(* requests and answers travel by SimpleSender and may be lost, late and   *)
(* out of order.                                                           *)
(*                                                                         *)
(* The primaries that send the commands, and the specification, are in     *)
(* PayloadSync.  A batch stands for its digest.                            *)
(***************************************************************************)
EXTENDS Integers, FiniteSets

CONSTANTS Workers,        \* the workers of this id, by authority
          Commanded,      \* those whose Synchronizer, and the commands to it, are followed
          Digests,
          Holds,          \* the batches in the store of each at the start
          SyncRetryNodes, \* how many workers a retry asks (sync_retry_nodes)
          GcDepth,        \* gc_depth
          MaxRound,       \* the bound on the rounds of each authority
          MaxLosses       \* the bound on the messages lost

ASSUME WorkerSyncAssumption ==
    /\ Commanded \subseteq Workers /\ Holds \in [Workers -> SUBSET Digests]
    /\ SyncRetryNodes \in Nat \ {0} /\ GcDepth \in Nat \ {0}
    /\ MaxRound \in [Workers -> Nat] /\ MaxLosses \in Nat

VARIABLES
    \* every worker: its store, the requests of its Synchronizer (with the
    \* round they were made in and whether sync_retry_delay has passed), the
    \* round it knows of, and the digests under way to its primary
    store, pending, round, tx_primary,
    \* the network: commands, batch requests and batches on their way, and how
    \* many messages were lost
    commands, requests, batches, losses

network == <<commands, requests, batches, losses>>
workerVars == <<store, pending, round, tx_primary, network>>

WorkerInit ==
    /\ store = Holds
    /\ pending = [w \in Workers |-> {}]
    /\ round = [w \in Workers |-> 0]
    /\ tx_primary = [w \in Workers |-> {}]
    /\ commands = {} /\ requests = {} /\ batches = {} /\ losses = 0

SynchronizeCommand(w, D, target) ==
    [kind |-> "Synchronize", worker |-> w, digests |-> D, target |-> target]

CleanupCommand(w, r) == [kind |-> "Cleanup", worker |-> w, round |-> r]

others_workers(w) == Workers \ {w}

-----------------------------------------------------------------------------
(* Synchronizer::run.                                                      *)

\* A digest that is pending is skipped.  One in the store is not asked for,
\* but waited for all the same.
Synchronize(m) ==
    /\ m \in commands /\ m.kind = "Synchronize"
    /\ LET new == m.digests \ {r.digest : r \in pending[m.worker]}
           missing == new \ store[m.worker]
       IN  /\ pending' = [pending EXCEPT ![m.worker] =
                            @ \cup {[digest |-> d, round |-> round[m.worker], old |-> FALSE] :
                                      d \in new}]
           /\ requests' = requests \cup ({m.target} \X missing \X {m.worker})
    /\ commands' = commands \ {m}
    /\ UNCHANGED <<store, round, tx_primary, batches, losses>>

\* Mutant of Cleanup: it acts from the round after the depth on.
CleanupLate(m) ==
    /\ m \in commands /\ m.kind = "Cleanup"
    /\ round' = [round EXCEPT ![m.worker] = m.round]
    /\ pending' = [pending EXCEPT ![m.worker] =
                     {r \in @ : m.round > GcDepth => r.round > m.round - GcDepth}]
    /\ commands' = commands \ {m}
    /\ UNCHANGED <<store, tx_primary, requests, batches, losses>>

\* The requests of gc_depth rounds ago and before are cancelled.
Cleanup(m) ==
    /\ m \in commands /\ m.kind = "Cleanup"
    /\ round' = [round EXCEPT ![m.worker] = m.round]
    /\ pending' = [pending EXCEPT ![m.worker] =
                     {r \in @ : m.round >= GcDepth => r.round > m.round - GcDepth}]
    /\ commands' = commands \ {m}
    /\ UNCHANGED <<store, tx_primary, requests, batches, losses>>

\* The notify_read of a batch returned.
BatchStored(w, d) ==
    /\ d \in store[w]
    /\ \E r \in pending[w] :
         r.digest = d /\ pending' = [pending EXCEPT ![w] = @ \ {r}]
    /\ UNCHANGED <<store, round, tx_primary, network>>

\* sync_retry_delay passes for a request.
Grow(w, d) ==
    /\ \E r \in pending[w] :
         /\ r.digest = d /\ ~ r.old
         /\ pending' = [pending EXCEPT ![w] = (@ \ {r}) \cup {[r EXCEPT !.old = TRUE]}]
    /\ UNCHANGED <<store, round, tx_primary, network>>

\* Mutant of Retry: the timer never asks.
RetryNobody(w, P) == FALSE /\ UNCHANGED <<w, P, workerVars>>

\* The timer: lucky_broadcast asks some others for all that is overdue.
Retry(w, P) ==
    /\ \E r \in pending[w] : r.old
    /\ requests' = requests \cup
                     (P \X {r.digest : r \in {x \in pending[w] : x.old}} \X {w})
    /\ UNCHANGED <<store, pending, round, tx_primary, commands, batches, losses>>

-----------------------------------------------------------------------------
(* The Helper of a worker, the way of an answer, and the network.          *)

Help(q) ==
    /\ q \in requests
    /\ requests' = requests \ {q}
    /\ batches' = batches \cup (IF q[2] \in store[q[1]] THEN {<<q[3], q[2]>>} ELSE {})
    /\ UNCHANGED <<store, pending, round, tx_primary, commands, losses>>

\* WorkerReceiverHandler and Processor: the batch is stored and its digest
\* reported, as if it had been broadcast.
ReceiveBatch(b) ==
    /\ b \in batches
    /\ batches' = batches \ {b}
    /\ store' = [store EXCEPT ![b[1]] = @ \cup {b[2]}]
    /\ tx_primary' = [tx_primary EXCEPT ![b[1]] = @ \cup {b[2]}]
    /\ UNCHANGED <<pending, round, commands, requests, losses>>

\* A lost request counts as an answer lost.
LoseBatch ==
    /\ losses < MaxLosses /\ losses' = losses + 1
    /\ \E b \in batches : batches' = batches \ {b}
    /\ UNCHANGED <<store, pending, round, tx_primary, commands, requests>>

Asked(w) == {P \in SUBSET others_workers(w) : Cardinality(P) = SyncRetryNodes}

WorkerNext ==
    \/ \E m \in commands : Synchronize(m) \/ Cleanup(m)
    \/ \E w \in Commanded :
         \/ \E d \in Digests : BatchStored(w, d) \/ Grow(w, d)
         \/ \E P \in Asked(w) : Retry(w, P)
    \/ \E q \in requests : Help(q)
    \/ \E b \in batches : ReceiveBatch(b)
    \/ LoseBatch

\* The tasks run, the network brings what it does not lose, and the random
\* choice of a retry falls on everybody in the end.
WorkerFairness ==
    /\ WF_workerVars(\E m \in commands : Synchronize(m) \/ Cleanup(m))
    /\ \A w \in Commanded :
         /\ \A d \in Digests : WF_workerVars(BatchStored(w, d)) /\ WF_workerVars(Grow(w, d))
         /\ \A P \in Asked(w) : WF_workerVars(Retry(w, P))
    /\ \A q \in Workers \X Digests \X Commanded : WF_workerVars(Help(q))
    /\ \A b \in Commanded \X Digests : WF_workerVars(ReceiveBatch(b))

-----------------------------------------------------------------------------
(* Properties.                                                             *)

\* The type invariant of the Synchronizers and the network.
TypeOK ==
    /\ store \in [Workers -> SUBSET Digests] /\ tx_primary \in [Workers -> SUBSET Digests]
    /\ round \in [Workers -> Nat] /\ \A w \in Workers : round[w] <= MaxRound[w]
    /\ \A w \in Workers :
         pending[w] \subseteq [digest : Digests, round : Nat, old : BOOLEAN]
    /\ requests \subseteq Workers \X Digests \X Workers
    /\ batches \subseteq Workers \X Digests /\ losses \in 0 .. MaxLosses

\* Whatever the order of the commands, nothing stays pending for gc_depth
\* rounds: the requests of a worker that fell behind do not pile up.
PendingIsRecent ==
    \A w \in Workers : \A r \in pending[w] :
        round[w] >= GcDepth => r.round > round[w] - GcDepth

\* Requests end: the batch is fetched from whoever holds it, although the
\* worker asked first may not and messages are lost, or is given up.
EventuallySynchronized ==
    \A w \in Commanded : \A d \in Digests :
        (d \in {r.digest : r \in pending[w]}) ~>
            (d \in store[w] \/ d \notin {r.digest : r \in pending[w]})

=============================================================================
