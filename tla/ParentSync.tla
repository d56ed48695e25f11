----------------------------- MODULE ParentSync -----------------------------
(***************************************************************************)
(* How a primary that is behind gets the ancestors of the certificates it  *)
(* receives: the Core suspends a header or a certificate whose parents it  *)
(* lacks, HeaderWaiter (primary/src/header_waiter.rs) asks the author and  *)
(* then, by a timer, other primaries, their Helper (helper.rs) answers,    *)
(* CertificateWaiter (certificate_waiter.rs) and HeaderWaiter loop back    *)
(* what is complete, and the garbage collector moves the round below which *)
(* the Core refuses certificates.  The network is SimpleSender's: requests *)
(* and answers may be lost, duplicated by retries and late.                *)
(*                                                                         *)
(* A certificate stands for its digest, its header and the header's id.    *)
(* What is certified has parents of the round just below: a quorum checked *)
(* it.  A header that is not certified may name parents of any round, as   *)
(* the Core suspends it before it checks that.  Only the certificates the  *)
(* primary lacks are followed; the parents they have besides are in the    *)
(* store.  Payload is there (PayloadSync), votes and the other checks of a *)
(* header are in Core.                                                     *)
(***************************************************************************)
EXTENDS Integers, FiniteSets

CONSTANTS Certificates,   \* those the primary lacks at the start
          Headers, Tips,  \* the headers and the certificates broadcast to the primary
          Round,          \* the rounds of certificates and headers
          Author,         \* their authors
          Parents,        \* their parents among Certificates
          Peers,          \* the other primaries
          Holds,          \* the certificates in the store of each peer
          SyncRetryNodes, \* how many peers a retry asks (sync_retry_nodes)
          GcDepth,        \* gc_depth
          MaxLosses,      \* the bound on the answers lost
          CommitBound     \* the highest round consensus can commit meanwhile

\* Whatever has a header: a certificate, or a header that need not be certified.
Ids == Certificates \cup Headers

ASSUME ParentSyncAssumption ==
    /\ Round \in [Ids -> Nat] /\ Author \in [Ids -> Peers]
    /\ Parents \in [Ids -> SUBSET Certificates] /\ Tips \subseteq Certificates
    /\ \A c \in Certificates : \A p \in Parents[c] : Round[p] + 1 = Round[c]
    /\ Holds \in [Peers -> SUBSET Certificates]
    /\ SyncRetryNodes \in Nat \ {0} /\ GcDepth \in Nat
    /\ MaxLosses \in Nat /\ CommitBound \in Nat

VARIABLES
    \* the Core: its store, the headers it is processing, its gc_round
    store, processing, gc_round,
    \* the channels and the waiters: headers sent to HeaderWaiter, pending in
    \* it and looped back; certificates in CertificateWaiter and looped back
    rx_synchronizer, pending, rx_header_waiter, suspended, rx_certificate_waiter,
    \* HeaderWaiter: the digests requested, each with the round of the header
    \* that asked first and whether sync_retry_delay has passed
    parent_requests,
    \* the network: headers and certificates to us, requests to the peers, and
    \* how many answers were lost
    headers, certificates, requests, losses,
    \* the round of the last certificate committed, shared by the tasks
    consensus_round

core == <<store, processing, gc_round>>
header_waiter == <<rx_synchronizer, pending, rx_header_waiter, parent_requests>>
certificate_waiter == <<suspended, rx_certificate_waiter>>
network == <<headers, certificates, requests, losses>>
vars == <<core, header_waiter, certificate_waiter, network, consensus_round>>

Init ==
    /\ store = {} /\ processing = {} /\ gc_round = 0
    /\ rx_synchronizer = {} /\ pending = {} /\ rx_header_waiter = {}
    /\ suspended = {} /\ rx_certificate_waiter = {}
    /\ parent_requests = {}
    /\ headers = Headers /\ certificates = Tips /\ requests = {} /\ losses = 0
    /\ consensus_round = 0

Complete(c) == Parents[c] \subseteq store

-----------------------------------------------------------------------------
(* The Core.  Every turn of its loop ends with the cleanup.                *)

GcRound == IF consensus_round > GcDepth THEN consensus_round - GcDepth ELSE gc_round

CoreCleanup(P) ==
    /\ gc_round' = GcRound
    /\ processing' = {h \in P : consensus_round > GcDepth => Round[h] >= GcRound}

\* If a parent is missing the header goes to HeaderWaiter.
get_parents(h) ==
    rx_synchronizer' =
        rx_synchronizer \cup
            (IF Complete(h) THEN {} ELSE {[header |-> h, missing |-> Parents[h] \ store]})

process_header(h) == get_parents(h) /\ CoreCleanup(processing \cup {h})

\* The certificate is stored once its parents are; until then it waits.
deliver_certificate(c) ==
    /\ store' = IF Complete(c) THEN store \cup {c} ELSE store
    /\ suspended' = IF Complete(c) THEN suspended ELSE suspended \cup {c}

process_certificate(c) ==
    /\ \/ c \notin processing /\ process_header(c)
       \/ c \in processing /\ CoreCleanup(processing) /\ UNCHANGED rx_synchronizer
    /\ deliver_certificate(c)

\* What the Core refuses as TooOld.
TooOld(c) == Round[c] < gc_round

ReceiveHeader(h) ==
    /\ h \in headers
    /\ headers' = headers \ {h}
    /\ \/ ~ TooOld(h) /\ process_header(h)
       \/ TooOld(h) /\ CoreCleanup(processing) /\ UNCHANGED rx_synchronizer
    /\ UNCHANGED <<store, pending, rx_header_waiter, parent_requests, certificate_waiter,
                   certificates, requests, losses, consensus_round>>

ReceiveCertificate(c) ==
    /\ c \in certificates
    /\ certificates' = certificates \ {c}
    /\ \/ ~ TooOld(c) /\ process_certificate(c)
       \/ TooOld(c) /\ CoreCleanup(processing) /\ UNCHANGED <<rx_synchronizer, store, suspended>>
    /\ UNCHANGED <<pending, rx_header_waiter, parent_requests, rx_certificate_waiter,
                   headers, requests, losses, consensus_round>>

LoopbackHeader(h) ==
    /\ h \in rx_header_waiter
    /\ rx_header_waiter' = rx_header_waiter \ {h}
    /\ process_header(h)
    /\ UNCHANGED <<store, pending, parent_requests, certificate_waiter, network, consensus_round>>

LoopbackCertificate(c) ==
    /\ c \in rx_certificate_waiter
    /\ rx_certificate_waiter' = rx_certificate_waiter \ {c}
    /\ process_certificate(c)
    /\ UNCHANGED <<pending, rx_header_waiter, parent_requests, network, consensus_round>>

-----------------------------------------------------------------------------
(* HeaderWaiter.  Every turn but that of a header it has already ends with *)
(* the cleanup.                                                            *)

\* Mutant of HeaderWaiterCleanup: the requests go a round before the headers.
HeaderWaiterCleanupUneven(H, R) ==
    LET gc == consensus_round - GcDepth
    IN  \/ /\ consensus_round > GcDepth
           /\ pending' = {h \in H : Round[h] > gc}
           /\ parent_requests' = {r \in R : r.round > gc + 1}
        \/ /\ consensus_round <= GcDepth
           /\ pending' = H /\ parent_requests' = R

HeaderWaiterCleanup(H, R) ==
    LET gc == consensus_round - GcDepth
    IN  \/ /\ consensus_round > GcDepth
           /\ pending' = {h \in H : Round[h] > gc}
           /\ parent_requests' = {r \in R : r.round > gc}
        \/ /\ consensus_round <= GcDepth
           /\ pending' = H /\ parent_requests' = R

\* Only digests that were not requested are, from the author of the header.
SyncParents(m) ==
    /\ m \in rx_synchronizer
    /\ rx_synchronizer' = rx_synchronizer \ {m}
    /\ \/ m.header \in pending /\ UNCHANGED <<pending, parent_requests, requests>>
       \/ /\ m.header \notin pending
          /\ LET new == m.missing \ {r.digest : r \in parent_requests}
             IN  /\ HeaderWaiterCleanup(pending \cup {m.header},
                       parent_requests \cup
                          {[digest |-> d, round |-> Round[m.header], old |-> FALSE] : d \in new})
                 /\ requests' = requests \cup ({Author[m.header]} \X new)
    /\ UNCHANGED <<core, rx_header_waiter, certificate_waiter, headers, certificates,
                   losses, consensus_round>>

\* The notify_read of every missing parent returned.
HeaderComplete(h) ==
    /\ h \in pending /\ Complete(h)
    /\ HeaderWaiterCleanup(pending \ {h}, {r \in parent_requests : r.digest \notin Parents[h]})
    /\ rx_header_waiter' = rx_header_waiter \cup {h}
    /\ UNCHANGED <<core, rx_synchronizer, certificate_waiter, network, consensus_round>>

\* sync_retry_delay passes for a request.
Grow(r) ==
    /\ r \in parent_requests /\ ~ r.old
    /\ parent_requests' = (parent_requests \ {r}) \cup {[r EXCEPT !.old = TRUE]}
    /\ UNCHANGED <<core, rx_synchronizer, pending, rx_header_waiter, certificate_waiter,
                   network, consensus_round>>

\* Mutant of Retry: it asks nobody.
RetryNobody(P) ==
    /\ \E r \in parent_requests : r.old
    /\ HeaderWaiterCleanup(pending, parent_requests)
    /\ UNCHANGED <<core, rx_synchronizer, rx_header_waiter, certificate_waiter, network,
                   consensus_round>>

\* The timer: lucky_broadcast asks some peers for everything that is overdue,
\* now and at every later turn of the timer.
Retry(P) ==
    /\ \E r \in parent_requests : r.old
    /\ requests' = requests \cup (P \X {r.digest : r \in {x \in parent_requests : x.old}})
    /\ HeaderWaiterCleanup(pending, parent_requests)
    /\ UNCHANGED <<core, rx_synchronizer, rx_header_waiter, certificate_waiter, headers,
                   certificates, losses, consensus_round>>

-----------------------------------------------------------------------------
(* CertificateWaiter, the Helper of a peer, the network and the garbage    *)
(* collector.                                                              *)

CertificateComplete(c) ==
    /\ c \in suspended /\ Complete(c)
    /\ suspended' = suspended \ {c}
    /\ rx_certificate_waiter' = rx_certificate_waiter \cup {c}
    /\ UNCHANGED <<core, header_waiter, network, consensus_round>>

\* A peer answers with the certificate if it has it.
Help(p, d) ==
    /\ <<p, d>> \in requests
    /\ requests' = requests \ {<<p, d>>}
    /\ certificates' = certificates \cup ({d} \cap Holds[p])
    /\ UNCHANGED <<core, header_waiter, certificate_waiter, headers, losses, consensus_round>>

\* A lost request counts as an answer lost.
Lose ==
    /\ losses < MaxLosses /\ losses' = losses + 1
    /\ \E c \in certificates : certificates' = certificates \ {c}
    /\ UNCHANGED <<core, header_waiter, certificate_waiter, headers, requests, consensus_round>>

\* A certificate of a later round was committed.
GarbageCollect ==
    /\ consensus_round' \in (consensus_round + 1) .. CommitBound
    /\ UNCHANGED <<core, header_waiter, certificate_waiter, network>>

Asked == {P \in SUBSET Peers : Cardinality(P) = SyncRetryNodes}

Next ==
    \/ \E h \in Ids : ReceiveHeader(h) \/ LoopbackHeader(h) \/ HeaderComplete(h)
    \/ \E c \in Certificates :
         ReceiveCertificate(c) \/ LoopbackCertificate(c) \/ CertificateComplete(c)
    \/ \E m \in rx_synchronizer : SyncParents(m)
    \/ \E r \in parent_requests : Grow(r)
    \/ \E P \in Asked : Retry(P)
    \/ \E p \in Peers, d \in Certificates : Help(p, d)
    \/ Lose \/ GarbageCollect

Spec == Init /\ [][Next]_vars

\* The tasks run, and the network brings what it does not lose.  The random
\* choice of a retry falls on everybody in the end.
Fairness ==
    /\ \A c \in Certificates : WF_vars(ReceiveCertificate(c))
    /\ WF_vars(\/ \E h \in Ids : LoopbackHeader(h)
               \/ \E c \in Certificates : LoopbackCertificate(c))
    /\ WF_vars(\E m \in rx_synchronizer : SyncParents(m))
    /\ WF_vars(\E h \in Ids : HeaderComplete(h))
    /\ WF_vars(\E c \in Certificates : CertificateComplete(c))
    /\ WF_vars(\E r \in parent_requests : Grow(r))
    /\ \A P \in Asked : WF_vars(Retry(P))
    /\ \A p \in Peers : \A d \in Certificates : WF_vars(Help(p, d))

FairSpec == Spec /\ Fairness

-----------------------------------------------------------------------------
(* Properties.                                                             *)

Requests == [digest : Certificates, round : Nat, old : BOOLEAN]

\* The type invariant of the Core, the waiters and the network.
TypeOK ==
    /\ \A S \in {store, suspended, rx_certificate_waiter, certificates} : S \subseteq Certificates
    /\ \A S \in {processing, pending, rx_header_waiter, headers} : S \subseteq Ids
    /\ rx_synchronizer \subseteq [header : Ids, missing : SUBSET Certificates]
    /\ parent_requests \subseteq Requests
    /\ requests \subseteq Peers \X Certificates /\ losses \in 0 .. MaxLosses
    /\ consensus_round \in 0 .. CommitBound /\ gc_round \in 0 .. CommitBound

\* What a pending header misses stays requested, whatever headers loop back or
\* are collected: only the retries bring it when the author does not answer.
\* Headers share the entry, which has the round of the one that made it: it goes
\* early only if that one is of an earlier round and was collected.
MissingIsRequested ==
    \A h \in pending : \A d \in Parents[h] \ store :
        \/ d \in {r.digest : r \in parent_requests}
        \/ \E g \in Ids : /\ d \in Parents[g] /\ Round[g] < Round[h]
                          /\ Round[g] <= consensus_round - GcDepth

\* The ancestors of a certificate among Certificates.
Ancestors[c \in Certificates] == Parents[c] \cup UNION {Ancestors[p] : p \in Parents[c]}

\* The certificate misses an ancestor that a header under the garbage collection
\* has named: the Core refuses the ancestor by now, or that header, of a round
\* its author made up, may have taken the request of it along.
Collected(c) ==
    \E a \in Ancestors[c] \ store : \E g \in Ids : a \in Parents[g] /\ Round[g] <= GcRound

\* However many answers are lost, a suspended certificate is stored in the
\* end, unless a header that named its missing history is collected first.
CatchesUpUnlessCollected ==
    \A c \in Certificates : (c \in suspended) ~> (c \in store \/ Collected(c))

=============================================================================
