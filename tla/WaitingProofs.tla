---------------------------- MODULE WaitingProofs ----------------------------
(***************************************************************************)
(* The proofs about the tasks that wait: the waiters of a primary that     *)
(* fetch ancestors (ParentSync) and payload (PayloadSync), the channels    *)
(* between them and the Core (Loopback), and the store (Store).            *)
(*                                                                         *)
(* PayloadSync is extended and the others are instantiated, each under a   *)
(* name of its own.  What they call alike is declared once: a theorem is   *)
(* about one of them and every value of its constants, which its           *)
(* assumption describes.                                                   *)
(***************************************************************************)
EXTENDS PayloadSync, CommonProofs

CONSTANTS Certificates, Parents, Tips, Peers, CommitBound,
          Id, Lacks, ChannelCapacity, GcBound, NoItem,
          Keys, Values, Calls, None, Error, ChannelSize, MaxWrites

VARIABLES processing, gc_round, rx_synchronizer, suspended, rx_certificate_waiter,
          parent_requests, headers, certificates,
          rx_primaries, stored, processed, dropped, core, tx_sync, waiting, sending,
          rx_loopback,
          channel, db, obligations, call, writes, failing

-----------------------------------------------------------------------------
(* ParentSync: the ancestors of certificates.                              *)

Ancestry == INSTANCE ParentSync

\* A request has the round of a header that names the digest.
RequestRounds ==
    \A r \in parent_requests :
        \E g \in Ancestry!Ids : r.digest \in Parents[g] /\ Round[g] = r.round

\* A header of an earlier round that names the digest was collected.
CollectedBefore(h, d) ==
    \E g \in Ancestry!Ids : /\ d \in Parents[g] /\ Round[g] < Round[h]
                            /\ Round[g] <= consensus_round - GcDepth

\* What HeaderWaiter is told a header misses was missing then; the rest is stored.
MissingIsExact ==
    \A m \in rx_synchronizer :
        m.missing \subseteq Parents[m.header] /\ Parents[m.header] \subseteq m.missing \cup store

AncestryInv ==
    Ancestry!TypeOK /\ RequestRounds /\ MissingIsExact /\ Ancestry!MissingIsRequested

\* What the cleanup of HeaderWaiter leaves, given what a turn had before it.
LEMMA AncestryCleanup ==
  ASSUME Ancestry!ParentSyncAssumption, consensus_round \in Nat, consensus_round' = consensus_round,
         NEW H \in SUBSET Ancestry!Ids, NEW R \in SUBSET Ancestry!Requests, NEW S,
         \A r \in R : \E g \in Ancestry!Ids : r.digest \in Parents[g] /\ Round[g] = r.round,
         \A h \in H : \A d \in Parents[h] \ S :
             d \in {r.digest : r \in R} \/ CollectedBefore(h, d),
         Ancestry!HeaderWaiterCleanup(H, R)
  PROVE  /\ pending' \subseteq Ancestry!Ids /\ parent_requests' \subseteq Ancestry!Requests
         /\ RequestRounds'
         /\ \A h \in pending' : \A d \in Parents[h] \ S :
                d \in {r.digest : r \in parent_requests'} \/ CollectedBefore(h, d)'
  <1> USE DEF Ancestry!ParentSyncAssumption
  <1>1. pending' \subseteq H /\ parent_requests' \subseteq R
    BY DEF Ancestry!HeaderWaiterCleanup
  <1>2. \A h \in pending' : \A r \in R :
          r \in parent_requests' \/ (r.round <= consensus_round - GcDepth /\ r.round < Round[h])
    BY <1>1 DEF Ancestry!HeaderWaiterCleanup, Ancestry!Requests
  <1>3. ASSUME NEW h \in pending', NEW d \in Parents[h] \ S
        PROVE  d \in {r.digest : r \in parent_requests'} \/ CollectedBefore(h, d)'
    <2>1. CASE CollectedBefore(h, d)
      BY <2>1 DEF CollectedBefore
    <2>2. CASE d \in {r.digest : r \in R}
      <3>1. PICK r \in R : r.digest = d
        BY <2>2
      <3>2. CASE r \in parent_requests'
        BY <3>1, <3>2
      <3>3. CASE r.round <= consensus_round - GcDepth /\ r.round < Round[h]
        <4>1. PICK g \in Ancestry!Ids : d \in Parents[g] /\ Round[g] = r.round
          BY <3>1
        <4> QED
          BY <3>3, <4>1 DEF CollectedBefore
      <3> QED
        BY <1>2, <3>2, <3>3
    <2> QED
      BY <1>1, <2>1, <2>2
  <1> QED
    BY <1>1, <1>3 DEF RequestRounds

LEMMA AncestryInit ==
  ASSUME Ancestry!ParentSyncAssumption, Ancestry!Init
  PROVE  AncestryInv
  <1>1. Ancestry!TypeOK
    BY DEF Ancestry!ParentSyncAssumption, Ancestry!Init, Ancestry!TypeOK, Ancestry!Ids
  <1>2. RequestRounds /\ MissingIsExact /\ Ancestry!MissingIsRequested
    BY DEF Ancestry!Init, RequestRounds, MissingIsExact, Ancestry!MissingIsRequested
  <1> QED
    BY <1>1, <1>2 DEF AncestryInv

\* A turn of the Core that leaves HeaderWaiter alone: it only adds to the store,
\* and tells HeaderWaiter what is missing from it.
LEMMA CoreTurn ==
  ASSUME AncestryInv, UNCHANGED <<pending, parent_requests>>, store \subseteq store',
         NEW h \in Ancestry!Ids, consensus_round' = consensus_round,
         rx_synchronizer' \subseteq rx_synchronizer \cup {[header |-> h, missing |-> Parents[h] \ store]}
  PROVE  RequestRounds' /\ MissingIsExact' /\ Ancestry!MissingIsRequested'
  <1> USE DEF AncestryInv
  <1>1. RequestRounds'
    BY DEF RequestRounds
  <1>2. MissingIsExact'
    BY DEF MissingIsExact
  <1>3. Ancestry!MissingIsRequested'
    BY DEF Ancestry!MissingIsRequested
  <1> QED
    BY <1>1, <1>2, <1>3

LEMMA CoreEffect ==
  ASSUME Ancestry!ParentSyncAssumption, AncestryInv, NEW c \in Ancestry!Ids,
         \/ Ancestry!ReceiveHeader(c) \/ Ancestry!LoopbackHeader(c)
         \/ c \in Certificates /\ (Ancestry!ReceiveCertificate(c) \/ Ancestry!LoopbackCertificate(c))
  PROVE  AncestryInv'
  <1> USE DEF Ancestry!ParentSyncAssumption
  <1> USE DEF Ancestry!ReceiveHeader, Ancestry!ReceiveCertificate, Ancestry!LoopbackHeader,
              Ancestry!LoopbackCertificate, Ancestry!process_header, Ancestry!process_certificate,
              Ancestry!get_parents, Ancestry!deliver_certificate, Ancestry!CoreCleanup
  <1>1. /\ UNCHANGED <<pending, parent_requests, consensus_round>> /\ store \subseteq store'
        /\ rx_synchronizer' \subseteq rx_synchronizer \cup {[header |-> c, missing |-> Parents[c] \ store]}
    BY DEF Ancestry!certificate_waiter, Ancestry!network
  <1>2. Ancestry!TypeOK'
    BY DEF AncestryInv, Ancestry!TypeOK, Ancestry!GcRound, Ancestry!certificate_waiter, Ancestry!network
  <1> QED
    BY <1>1, <1>2, CoreTurn DEF AncestryInv

LEMMA WaiterEffect ==
  ASSUME Ancestry!ParentSyncAssumption, AncestryInv,
         \/ \E m \in rx_synchronizer : Ancestry!SyncParents(m)
         \/ \E h \in Ancestry!Ids : Ancestry!HeaderComplete(h)
         \/ \E r \in parent_requests : Ancestry!Grow(r)
         \/ \E P \in Ancestry!Asked : Ancestry!Retry(P)
  PROVE  AncestryInv'
  <1> USE DEF Ancestry!ParentSyncAssumption, Ancestry!core, Ancestry!certificate_waiter, Ancestry!network
  <1>0. /\ consensus_round \in Nat /\ pending \subseteq Ancestry!Ids
        /\ parent_requests \subseteq Ancestry!Requests
        /\ rx_synchronizer \subseteq [header : Ancestry!Ids, missing : SUBSET Certificates]
    BY DEF AncestryInv, Ancestry!TypeOK
  <1>1. ASSUME NEW m \in rx_synchronizer, Ancestry!SyncParents(m) PROVE AncestryInv'
    <2> DEFINE new == m.missing \ {r.digest : r \in parent_requests}
               H == pending \cup {m.header}
               R == parent_requests \cup
                      {[digest |-> d, round |-> Round[m.header], old |-> FALSE] : d \in new}
    <2>1. CASE m.header \in pending
      BY <1>1, <2>1 DEF Ancestry!SyncParents, AncestryInv, Ancestry!TypeOK, RequestRounds,
         MissingIsExact, Ancestry!MissingIsRequested
    <2>2. CASE m.header \notin pending
      <3>1. /\ m.header \in Ancestry!Ids /\ m.missing \subseteq Parents[m.header]
            /\ Parents[m.header] \subseteq m.missing \cup store
        BY <1>0 DEF AncestryInv, MissingIsExact
      <3>2. Ancestry!HeaderWaiterCleanup(H, R) /\ UNCHANGED <<store, consensus_round>>
        BY <1>1, <2>2 DEF Ancestry!SyncParents
      <3>3. H \in SUBSET Ancestry!Ids /\ R \in SUBSET Ancestry!Requests
        <4>1. new \subseteq Certificates /\ Round[m.header] \in Nat
          BY <3>1
        <4> HIDE DEF new
        <4>2. ASSUME NEW d \in new
              PROVE  [digest |-> d, round |-> Round[m.header], old |-> FALSE] \in Ancestry!Requests
          BY <4>1 DEF Ancestry!Requests
        <4> QED
          BY <1>0, <3>1, <4>2
      <3>4. \A r \in R : \E g \in Ancestry!Ids : r.digest \in Parents[g] /\ Round[g] = r.round
        BY <3>1 DEF AncestryInv, RequestRounds
      <3>5. \A h \in H : \A d \in Parents[h] \ store :
              d \in {r.digest : r \in R} \/ CollectedBefore(h, d)
        <4>1. parent_requests \subseteq R /\ \A d \in new : \E r \in R : r.digest = d
          <5> HIDE DEF new
          <5>1. \A d \in new : [digest |-> d, round |-> Round[m.header], old |-> FALSE] \in R
            OBVIOUS
          <5> QED
            BY <5>1
        <4> HIDE DEF R
        <4>2. m.missing \subseteq {r.digest : r \in R}
          BY <4>1
        <4>3. {r.digest : r \in parent_requests} \subseteq {r.digest : r \in R}
          BY <4>1
        <4> QED
          BY <3>1, <4>2, <4>3 DEF AncestryInv, Ancestry!MissingIsRequested, CollectedBefore
      <3> HIDE DEF H, R
      <3>6. /\ pending' \subseteq Ancestry!Ids /\ parent_requests' \subseteq Ancestry!Requests
            /\ RequestRounds'
            /\ \A h \in pending' : \A d \in Parents[h] \ store :
                   d \in {r.digest : r \in parent_requests'} \/ CollectedBefore(h, d)'
        BY <1>0, <3>2, <3>3, <3>4, <3>5, AncestryCleanup
      <3>7. Ancestry!MissingIsRequested'
        BY <3>2, <3>6 DEF Ancestry!MissingIsRequested, CollectedBefore
      <3>8. MissingIsExact'
        BY <1>1 DEF Ancestry!SyncParents, AncestryInv, MissingIsExact
      <3>9. Ancestry!TypeOK'
        BY <1>1, <3>1, <3>6 DEF Ancestry!SyncParents, AncestryInv, Ancestry!TypeOK
      <3> QED
        BY <3>6, <3>7, <3>8, <3>9 DEF AncestryInv
    <2> QED
      BY <2>1, <2>2
  <1>2. ASSUME NEW H \in SUBSET pending, NEW R \in SUBSET parent_requests,
               Ancestry!HeaderWaiterCleanup(H, R),
               \A h \in H : \A r \in parent_requests \ R : r.digest \in Parents[h] => r.digest \in store,
               UNCHANGED <<store, processing, gc_round, rx_synchronizer, suspended,
                           rx_certificate_waiter, headers, certificates, losses, consensus_round>>,
               rx_header_waiter' \subseteq Ancestry!Ids, requests' \subseteq Peers \X Certificates
        PROVE  AncestryInv'
    <2>1. \A r \in R : \E g \in Ancestry!Ids : r.digest \in Parents[g] /\ Round[g] = r.round
      BY DEF AncestryInv, RequestRounds
    <2>2. \A h \in H : \A d \in Parents[h] \ store :
            d \in {r.digest : r \in R} \/ CollectedBefore(h, d)
      BY <1>2 DEF AncestryInv, Ancestry!MissingIsRequested, CollectedBefore
    <2>3. /\ pending' \subseteq Ancestry!Ids /\ parent_requests' \subseteq Ancestry!Requests
          /\ RequestRounds'
          /\ \A h \in pending' : \A d \in Parents[h] \ store :
                 d \in {r.digest : r \in parent_requests'} \/ CollectedBefore(h, d)'
      BY <1>0, <1>2, <2>1, <2>2, AncestryCleanup
    <2>4. Ancestry!MissingIsRequested' /\ MissingIsExact'
      BY <1>2, <2>3 DEF AncestryInv, Ancestry!MissingIsRequested, MissingIsExact, CollectedBefore
    <2>5. Ancestry!TypeOK'
      BY <1>2, <2>3 DEF AncestryInv, Ancestry!TypeOK
    <2> QED
      BY <2>3, <2>4, <2>5 DEF AncestryInv
  <1>3. ASSUME NEW h \in Ancestry!Ids, Ancestry!HeaderComplete(h) PROVE AncestryInv'
    <2> DEFINE H == pending \ {h}
               R == {r \in parent_requests : r.digest \notin Parents[h]}
    <2>1. /\ Ancestry!HeaderWaiterCleanup(H, R) /\ Parents[h] \subseteq store
          /\ rx_header_waiter' = rx_header_waiter \cup {h}
          /\ UNCHANGED <<store, processing, gc_round, rx_synchronizer, suspended,
                         rx_certificate_waiter, headers, certificates, requests, losses, consensus_round>>
      BY <1>3 DEF Ancestry!HeaderComplete, Ancestry!Complete
    <2>2. rx_header_waiter' \subseteq Ancestry!Ids /\ requests' \subseteq Peers \X Certificates
      BY <2>1 DEF AncestryInv, Ancestry!TypeOK
    <2>3. H \in SUBSET pending /\ R \in SUBSET parent_requests
      OBVIOUS
    <2>4. \A g \in H : \A r \in parent_requests \ R : r.digest \in Parents[g] => r.digest \in store
      BY <2>1
    <2> HIDE DEF H, R
    <2> QED
      BY <1>2, <2>1, <2>2, <2>3, <2>4
  <1>4. ASSUME NEW r \in parent_requests, Ancestry!Grow(r) PROVE AncestryInv'
    <2> DEFINE q == [r EXCEPT !.old = TRUE]
    <2>1. /\ parent_requests' = (parent_requests \ {r}) \cup {q}
          /\ UNCHANGED <<store, processing, gc_round, rx_synchronizer, pending, rx_header_waiter,
                         suspended, rx_certificate_waiter, headers, certificates, requests, losses,
                         consensus_round>>
      BY <1>4 DEF Ancestry!Grow
    <2>2. q \in Ancestry!Requests /\ q.digest = r.digest /\ q.round = r.round
      BY <1>0 DEF Ancestry!Requests
    <2> HIDE DEF q
    <2>3. RequestRounds'
      BY <2>1, <2>2 DEF AncestryInv, RequestRounds
    <2>4. {x.digest : x \in parent_requests} \subseteq {x.digest : x \in parent_requests'}
      BY <2>1, <2>2
    <2>5. Ancestry!MissingIsRequested' /\ MissingIsExact'
      BY <2>1, <2>4 DEF AncestryInv, Ancestry!MissingIsRequested, MissingIsExact
    <2>6. Ancestry!TypeOK'
      BY <2>1, <2>2 DEF AncestryInv, Ancestry!TypeOK
    <2> QED
      BY <2>3, <2>5, <2>6 DEF AncestryInv
  <1>5. ASSUME NEW P \in Ancestry!Asked, Ancestry!Retry(P) PROVE AncestryInv'
    <2>1. Ancestry!HeaderWaiterCleanup(pending, parent_requests)
      BY <1>5 DEF Ancestry!Retry
    <2>2. UNCHANGED <<store, processing, gc_round, rx_synchronizer, suspended,
                      rx_certificate_waiter, headers, certificates, losses, consensus_round>>
      BY <1>5 DEF Ancestry!Retry
    <2>3. rx_header_waiter' \subseteq Ancestry!Ids
      BY <1>5 DEF Ancestry!Retry, AncestryInv, Ancestry!TypeOK
    <2>4. requests' \subseteq Peers \X Certificates
      <3>1. P \subseteq Peers /\ requests \subseteq Peers \X Certificates
        BY DEF Ancestry!Asked, AncestryInv, Ancestry!TypeOK
      <3>2. {r.digest : r \in {x \in parent_requests : x.old}} \subseteq Certificates
        BY <1>0 DEF Ancestry!Requests
      <3> QED
        BY <1>5, <3>1, <3>2 DEF Ancestry!Retry
    <2> QED
      BY <1>2, <2>1, <2>2, <2>3, <2>4
  <1> QED
    BY <1>1, <1>3, <1>4, <1>5

\* HeaderWaiter has every pending header's missing parents among its requests,
\* whichever headers share them, loop back or are collected
\* (primary/src/header_waiter.rs), except one that a collected header of an
\* earlier round named: for every DAG, headers with parents of any round and
\* every order of messages.
THEOREM MissingStaysRequested ==
  ASSUME Ancestry!ParentSyncAssumption
  PROVE  Ancestry!Spec => [](Ancestry!TypeOK /\ Ancestry!MissingIsRequested)
  <1>1. Ancestry!Init => AncestryInv
    BY AncestryInit
  <1>2. AncestryInv /\ [Ancestry!Next]_(Ancestry!vars) => AncestryInv'
    <2> SUFFICES ASSUME AncestryInv, [Ancestry!Next]_(Ancestry!vars) PROVE AncestryInv'
      OBVIOUS
    <2> USE DEF Ancestry!core, Ancestry!header_waiter, Ancestry!certificate_waiter, Ancestry!network
    <2>1. ASSUME NEW c \in Certificates, Ancestry!CertificateComplete(c) PROVE AncestryInv'
      BY <2>1 DEF Ancestry!CertificateComplete, AncestryInv, Ancestry!TypeOK, RequestRounds,
         MissingIsExact, Ancestry!MissingIsRequested
    <2>2. ASSUME NEW p \in Peers, NEW d \in Certificates, Ancestry!Help(p, d) PROVE AncestryInv'
      BY <2>2 DEF Ancestry!Help, AncestryInv, Ancestry!TypeOK, RequestRounds,
         MissingIsExact, Ancestry!MissingIsRequested
    <2>3. CASE Ancestry!Lose
      BY <2>3 DEF Ancestry!ParentSyncAssumption, Ancestry!Lose, AncestryInv, Ancestry!TypeOK,
         RequestRounds, MissingIsExact, Ancestry!MissingIsRequested
    <2>4. CASE Ancestry!GarbageCollect
      BY <2>4 DEF Ancestry!ParentSyncAssumption, Ancestry!GarbageCollect, AncestryInv,
         Ancestry!TypeOK, RequestRounds, MissingIsExact, Ancestry!MissingIsRequested
    <2>5. CASE UNCHANGED Ancestry!vars
      BY <2>5 DEF Ancestry!vars, AncestryInv, Ancestry!TypeOK, RequestRounds,
         MissingIsExact, Ancestry!MissingIsRequested
    <2> QED
      <3>1. ASSUME NEW h \in Ancestry!Ids,
                   Ancestry!ReceiveHeader(h) \/ Ancestry!LoopbackHeader(h)
            PROVE  AncestryInv'
        BY <3>1, CoreEffect
      <3>2. ASSUME NEW c \in Certificates,
                   Ancestry!ReceiveCertificate(c) \/ Ancestry!LoopbackCertificate(c)
            PROVE  AncestryInv'
        BY <3>2, CoreEffect DEF Ancestry!Ids
      <3> QED
        BY <2>1, <2>2, <2>3, <2>4, <2>5, <3>1, <3>2, WaiterEffect DEF Ancestry!Next
  <1>3. AncestryInv => Ancestry!TypeOK /\ Ancestry!MissingIsRequested
    BY DEF AncestryInv
  <1> QED
    BY <1>1, <1>2, <1>3, PTL DEF Ancestry!Spec

-----------------------------------------------------------------------------
(* PayloadSync: the payload of headers.                                    *)

PendingRequests == [digest : Digests, round : Nat, old : BOOLEAN]

SyncCommands ==
    [kind : {"Synchronize"}, worker : Workers, digests : SUBSET Digests, target : Workers]

CleanupCommands == {m \in [kind : {"Cleanup"}, worker : Workers, round : Nat] :
                       m.round <= MaxRound[m.worker]}

\* The commands under way are well formed, so that a worker takes the round of
\* its primary, in whatever order they come.
WorkersInv ==
    /\ TypeOK /\ PendingIsRecent
    /\ pending \in [Workers -> SUBSET PendingRequests]
    /\ commands \subseteq SyncCommands \cup CleanupCommands

PrimaryInv ==
    /\ pending_headers \subseteq Headers
    /\ batch_requests \subseteq [digest : Digests, round : Nat]
    /\ consensus_round \in [Workers -> Nat]
    /\ NoRequestLeftBehind

LEMMA WorkersInit ==
  ASSUME Init
  PROVE  WorkersInv /\ PrimaryInv
  <1> USE WorkerSyncAssumption, PayloadSyncAssumption
      DEF WorkerSyncAssumption, PayloadSyncAssumption
  <1>1. WorkersInv
    BY DEF Init, WorkerInit, WorkersInv, TypeOK, PendingIsRecent
  <1>2. PrimaryInv
    BY DEF Init, PrimaryInv, NoRequestLeftBehind
  <1> QED
    BY <1>1, <1>2

LEMMA SynchronizeStep ==
  ASSUME WorkersInv, NEW m \in commands, Synchronize(m)
  PROVE  WorkersInv'
  <1> USE WorkerSyncAssumption DEF WorkerSyncAssumption
  <1>1. m \in SyncCommands
    BY DEF Synchronize, WorkersInv, CleanupCommands
  <1> DEFINE w == m.worker
             new == m.digests \ {r.digest : r \in pending[w]}
             added == {[digest |-> d, round |-> round[w], old |-> FALSE] : d \in new}
  <1>2. w \in Workers /\ new \subseteq Digests /\ m.target \in Workers /\ round[w] \in Nat
    BY <1>1 DEF SyncCommands, WorkersInv, TypeOK
  <1>3. /\ pending' = [pending EXCEPT ![w] = @ \cup added]
        /\ requests' = requests \cup ({m.target} \X (new \ store[w]) \X {w})
        /\ commands' = commands \ {m}
        /\ UNCHANGED <<store, round, tx_primary, batches, losses>>
    BY DEF Synchronize
  <1> HIDE DEF w, new
  <1>4. added \subseteq PendingRequests /\ \A r \in added : r.round = round[w]
    <2>1. ASSUME NEW d \in new
          PROVE  /\ [digest |-> d, round |-> round[w], old |-> FALSE] \in PendingRequests
                 /\ [digest |-> d, round |-> round[w], old |-> FALSE].round = round[w]
      BY <1>2 DEF PendingRequests
    <2> QED
      BY <2>1
  <1> HIDE DEF added
  <1>5. pending' \in [Workers -> SUBSET PendingRequests]
    BY <1>2, <1>3, <1>4 DEF WorkersInv
  <1>6. PendingIsRecent'
    <2> SUFFICES ASSUME NEW v \in Workers, NEW r \in pending'[v], round[v] >= GcDepth
                 PROVE  r.round > round[v] - GcDepth
      BY <1>3 DEF PendingIsRecent
    <2>1. round[v] \in Nat
      BY DEF WorkersInv, TypeOK
    <2>2. r \in pending[v] \/ (v = w /\ r \in added)
      BY <1>2, <1>3 DEF WorkersInv
    <2> QED
      BY <1>4, <2>1, <2>2 DEF WorkersInv, PendingIsRecent
  <1>7. TypeOK'
    <2>1. requests' \subseteq Workers \X Digests \X Workers
      BY <1>2, <1>3 DEF WorkersInv, TypeOK
    <2> QED
      BY <1>3, <1>5, <2>1 DEF WorkersInv, TypeOK, PendingRequests
  <1> QED
    BY <1>3, <1>5, <1>6, <1>7 DEF WorkersInv

LEMMA CleanupStep ==
  ASSUME WorkersInv, NEW m \in commands, Cleanup(m)
  PROVE  WorkersInv'
  <1> USE WorkerSyncAssumption DEF WorkerSyncAssumption
  <1>1. m \in CleanupCommands
    BY DEF Cleanup, WorkersInv, SyncCommands
  <1> DEFINE w == m.worker
             n == m.round
  <1>2. w \in Workers /\ n \in Nat /\ n <= MaxRound[w]
    BY <1>1 DEF CleanupCommands
  <1>3. /\ round' = [round EXCEPT ![w] = n]
        /\ pending' = [pending EXCEPT ![w] = {r \in @ : n >= GcDepth => r.round > n - GcDepth}]
        /\ commands' = commands \ {m}
        /\ UNCHANGED <<store, tx_primary, requests, batches, losses>>
    BY DEF Cleanup
  <1> HIDE DEF w, n
  <1>4. round \in [Workers -> Nat] /\ pending \in [Workers -> SUBSET PendingRequests]
    BY DEF WorkersInv, TypeOK
  <1>5. pending' \in [Workers -> SUBSET PendingRequests] /\ round' \in [Workers -> Nat]
    BY <1>2, <1>3, <1>4
  <1>6. PendingIsRecent'
    <2> SUFFICES ASSUME NEW v \in Workers, NEW r \in pending'[v], round'[v] >= GcDepth
                 PROVE  r.round > round'[v] - GcDepth
      BY DEF PendingIsRecent
    <2>1. CASE v = w
      BY <1>2, <1>3, <1>4, <2>1
    <2>2. CASE v # w
      BY <1>2, <1>3, <1>4, <2>2 DEF WorkersInv, PendingIsRecent
    <2> QED
      BY <2>1, <2>2
  <1>7. TypeOK'
    <2>1. \A v \in Workers : round'[v] <= MaxRound[v]
      BY <1>2, <1>3, <1>4 DEF WorkersInv, TypeOK
    <2> QED
      BY <1>3, <1>5, <2>1 DEF WorkersInv, TypeOK, PendingRequests
  <1> QED
    BY <1>3, <1>5, <1>6, <1>7 DEF WorkersInv

\* The other steps of a Synchronizer: requests end or grow old, and some workers
\* are asked again.
LEMMA SynchronizerSteps ==
  ASSUME WorkersInv, NEW w \in Commanded,
         \/ \E d \in Digests : BatchStored(w, d) \/ Grow(w, d)
         \/ \E P \in Asked(w) : Retry(w, P)
  PROVE  WorkersInv'
  <1> USE WorkerSyncAssumption DEF WorkerSyncAssumption
  <1>0. /\ w \in Workers /\ round \in [Workers -> Nat]
        /\ pending \in [Workers -> SUBSET PendingRequests]
    BY DEF WorkersInv, TypeOK
  <1>1. ASSUME NEW r \in pending[w], NEW A \in SUBSET PendingRequests,
               \A a \in A : a.round = r.round,
               pending' = [pending EXCEPT ![w] = (@ \ {r}) \cup A],
               UNCHANGED <<store, round, tx_primary, commands, requests, batches, losses>>
        PROVE  WorkersInv'
    <2>1. pending' \in [Workers -> SUBSET PendingRequests]
      BY <1>0, <1>1
    <2>2. PendingIsRecent'
      <3> SUFFICES ASSUME NEW v \in Workers, NEW q \in pending'[v], round[v] >= GcDepth
                   PROVE  q.round > round[v] - GcDepth
        BY <1>1 DEF PendingIsRecent
      <3>1. q \in pending[v] \/ (v = w /\ q.round = r.round)
        BY <1>0, <1>1
      <3> QED
        BY <1>0, <3>1 DEF WorkersInv, PendingIsRecent
    <2>3. TypeOK'
      BY <1>1, <2>1 DEF WorkersInv, TypeOK, PendingRequests
    <2> QED
      BY <1>1, <2>1, <2>2, <2>3 DEF WorkersInv
  <1>2. ASSUME NEW d \in Digests, BatchStored(w, d) PROVE WorkersInv'
    <2>1. PICK r \in pending[w] : pending' = [pending EXCEPT ![w] = (@ \ {r}) \cup {}]
      BY <1>2 DEF BatchStored
    <2>2. UNCHANGED <<store, round, tx_primary, commands, requests, batches, losses>>
      BY <1>2 DEF BatchStored, network
    <2> DEFINE A == {}
    <2>3. A \in SUBSET PendingRequests /\ \A a \in A : a.round = r.round
      OBVIOUS
    <2>4. pending' = [pending EXCEPT ![w] = (@ \ {r}) \cup A]
      BY <2>1
    <2> HIDE DEF A
    <2> QED
      BY <1>1, <2>2, <2>3, <2>4
  <1>3. ASSUME NEW d \in Digests, Grow(w, d) PROVE WorkersInv'
    <2>1. PICK r \in pending[w] :
            pending' = [pending EXCEPT ![w] = (@ \ {r}) \cup {[r EXCEPT !.old = TRUE]}]
      BY <1>3 DEF Grow
    <2> DEFINE A == {[r EXCEPT !.old = TRUE]}
    <2>2. r \in PendingRequests
      BY <1>0
    <2>3. A \in SUBSET PendingRequests /\ \A a \in A : a.round = r.round
      BY <2>2 DEF PendingRequests
    <2>4. UNCHANGED <<store, round, tx_primary, commands, requests, batches, losses>>
      BY <1>3 DEF Grow, network
    <2>5. pending' = [pending EXCEPT ![w] = (@ \ {r}) \cup A]
      BY <2>1
    <2> HIDE DEF A
    <2> QED
      BY <1>1, <2>3, <2>4, <2>5
  <1>4. ASSUME NEW P \in Asked(w), Retry(w, P) PROVE WorkersInv'
    <2>1. P \subseteq Workers
      BY DEF Asked, others_workers
    <2>2. {r.digest : r \in {x \in pending[w] : x.old}} \subseteq Digests
      BY <1>0 DEF PendingRequests
    <2>3. requests' \subseteq Workers \X Digests \X Workers
      BY <1>0, <1>4, <2>1, <2>2 DEF Retry, WorkersInv, TypeOK
    <2> QED
      BY <1>4, <2>3 DEF Retry, WorkersInv, TypeOK, PendingIsRecent
  <1> QED
    BY <1>2, <1>3, <1>4

\* The Helpers, what arrives, and what is lost.
LEMMA NetworkSteps ==
  ASSUME WorkersInv,
         \/ \E q \in requests : Help(q)
         \/ \E b \in batches : ReceiveBatch(b)
         \/ LoseBatch
  PROVE  WorkersInv'
  <1> USE WorkerSyncAssumption DEF WorkerSyncAssumption
  <1>1. ASSUME NEW q \in requests, Help(q) PROVE WorkersInv'
    <2>1. <<q[3], q[2]>> \in Workers \X Digests
      BY DEF WorkersInv, TypeOK
    <2> QED
      BY <1>1, <2>1 DEF Help, WorkersInv, TypeOK, PendingIsRecent
  <1>2. ASSUME NEW b \in batches, ReceiveBatch(b) PROVE WorkersInv'
    <2>1. b[1] \in Workers /\ b[2] \in Digests
      BY DEF WorkersInv, TypeOK
    <2> QED
      BY <1>2, <2>1 DEF ReceiveBatch, WorkersInv, TypeOK, PendingIsRecent
  <1>3. CASE LoseBatch
    BY <1>3 DEF LoseBatch, WorkersInv, TypeOK, PendingIsRecent
  <1> QED
    BY <1>1, <1>2, <1>3

\* The steps of the primaries on what the workers see.
LEMMA PrimaryOnWorkers ==
  ASSUME WorkersInv, PrimaryInv,
         \/ \E d \in Digests :
              \/ ReceiveBroadcast(d) \/ CancelBroadcast(d)
              \/ ReceiveDigest(d) \/ LoseDigest(d)
         \/ \E h \in Headers :
              \/ ProcessHeader(h) \/ SyncParents(h) \/ SyncBatches(h)
              \/ StoreParents(h) \/ HeaderComplete(h)
         \/ \E w \in Workers : GarbageCollect(w)
  PROVE  WorkersInv'
  <1> USE WorkerSyncAssumption, PayloadSyncAssumption
      DEF WorkerSyncAssumption, PayloadSyncAssumption, network,
          workerVars
  <1>0. Name \in Workers
    OBVIOUS
  <1>1. ASSUME NEW d \in Digests,
               \/ ReceiveBroadcast(d) \/ CancelBroadcast(d)
               \/ ReceiveDigest(d) \/ LoseDigest(d)
        PROVE  WorkersInv'
    <2>1. UNCHANGED <<pending, round, commands, requests, batches>>
      BY <1>1 DEF ReceiveBroadcast, CancelBroadcast, ReceiveDigest,
         LoseDigest
    <2>2. /\ store' \in [Workers -> SUBSET Digests] /\ tx_primary' \in [Workers -> SUBSET Digests]
          /\ losses' \in 0 .. MaxLosses
      BY <1>0, <1>1 DEF ReceiveBroadcast, CancelBroadcast, ReceiveDigest,
         LoseDigest, WorkersInv, TypeOK
    <2> QED
      BY <2>1, <2>2 DEF WorkersInv, TypeOK, PendingIsRecent
  <1>2. ASSUME NEW h \in Headers, SyncBatches(h) PROVE WorkersInv'
    <2> DEFINE new == (Payload[h] \ payload) \ {r.digest : r \in batch_requests}
    <2>1. /\ commands' \subseteq commands \cup {SynchronizeCommand(Author[h], new, Author[h])}
          /\ UNCHANGED <<store, pending, round, tx_primary, requests, batches, losses>>
      BY <1>2 DEF SyncBatches, SyncWorker
    <2>2. new \subseteq Digests /\ Author[h] \in Workers
      OBVIOUS
    <2>3. SynchronizeCommand(Author[h], new, Author[h]) \in SyncCommands
      BY <2>2 DEF SynchronizeCommand, SyncCommands
    <2> QED
      BY <2>1, <2>3 DEF WorkersInv, TypeOK, PendingIsRecent
  <1>3. ASSUME NEW h \in Headers,
               ProcessHeader(h) \/ SyncParents(h) \/ StoreParents(h) \/ HeaderComplete(h)
        PROVE  WorkersInv'
    BY <1>3 DEF ProcessHeader, SyncParents, StoreParents, HeaderComplete, WorkersInv, TypeOK,
       PendingIsRecent
  <1>4. ASSUME NEW w \in Workers, GarbageCollect(w) PROVE WorkersInv'
    <2>1. /\ commands' \subseteq commands \cup {CleanupCommand(w, consensus_round[w] + 1)}
          /\ UNCHANGED <<store, pending, round, tx_primary, requests, batches, losses>>
      BY <1>4 DEF GarbageCollect
    <2>2. consensus_round[w] + 1 \in Nat /\ consensus_round[w] + 1 <= MaxRound[w]
      BY <1>4 DEF GarbageCollect, PrimaryInv
    <2>3. CleanupCommand(w, consensus_round[w] + 1) \in CleanupCommands
      BY <2>2 DEF CleanupCommand, CleanupCommands
    <2> QED
      BY <2>1, <2>3 DEF WorkersInv, TypeOK, PendingIsRecent
  <1> QED
    BY <1>1, <1>2, <1>3, <1>4

\* What the cleanup of HeaderWaiter leaves, given what a turn had before it.
LEMMA PayloadCleanup ==
  ASSUME PrimaryInv, NEW P,
         NEW H \in SUBSET Headers, NEW R \in SUBSET [digest : Digests, round : Nat],
         \A r \in R : \E h \in H : Round[h] = r.round /\ r.digest \in Payload[h],
         HeaderWaiterCleanup(P, H, R), UNCHANGED consensus_round
  PROVE  PrimaryInv'
  <1>1. /\ pending_headers' \subseteq H /\ batch_requests' \subseteq R
        /\ \A r \in batch_requests' : \A h \in H : Round[h] = r.round => h \in pending_headers'
    BY DEF HeaderWaiterCleanup
  <1>2. NoRequestLeftBehind'
    BY <1>1 DEF NoRequestLeftBehind
  <1> QED
    BY <1>1, <1>2 DEF PrimaryInv

LEMMA SyncBatchesStep ==
  ASSUME PrimaryInv,
         NEW h \in Headers, SyncBatches(h)
  PROVE  PrimaryInv'
  <1> USE PayloadSyncAssumption DEF PayloadSyncAssumption
  <1> DEFINE new == (Payload[h] \ payload) \ {r.digest : r \in batch_requests}
             A == {[digest |-> d, round |-> Round[h]] : d \in new}
             H == pending_headers \cup {h}
             R == batch_requests \cup A
  <1>1. HeaderWaiterCleanup(pending_parents, H, R) /\ UNCHANGED consensus_round
    BY DEF SyncBatches
  <1>2. new \subseteq Digests /\ new \subseteq Payload[h] /\ Round[h] \in Nat
    OBVIOUS
  <1> HIDE DEF new
  <1>3. ASSUME NEW a \in A
        PROVE  /\ a \in [digest : Digests, round : Nat]
               /\ a.round = Round[h] /\ a.digest \in Payload[h]
    <2>1. PICK d \in new : a = [digest |-> d, round |-> Round[h]]
      OBVIOUS
    <2> QED
      BY <1>2, <2>1
  <1> HIDE DEF A
  <1>4. H \in SUBSET Headers /\ R \in SUBSET [digest : Digests, round : Nat]
    BY <1>3 DEF PrimaryInv
  <1>5. \A r \in R : \E g \in H : Round[g] = r.round /\ r.digest \in Payload[g]
    BY <1>3 DEF PrimaryInv, NoRequestLeftBehind
  <1> HIDE DEF H, R
  <1> QED
    BY <1>1, <1>4, <1>5, PayloadCleanup

\* A header that loops back takes the requests of its payload with it.
LEMMA PayloadCompleteStep ==
  ASSUME PrimaryInv,
         NEW h \in Headers, HeaderComplete(h)
  PROVE  PrimaryInv'
  <1> DEFINE P == pending_parents \ {h}
             H == pending_headers \ {h}
             R == {r \in batch_requests : r.digest \notin Payload[h]}
  <1>1. HeaderWaiterCleanup(P, H, R) /\ UNCHANGED consensus_round
    BY DEF HeaderComplete
  <1>2. H \in SUBSET Headers /\ R \in SUBSET [digest : Digests, round : Nat]
    BY DEF PrimaryInv
  <1>3. \A r \in R : \E g \in H : Round[g] = r.round /\ r.digest \in Payload[g]
    BY DEF PrimaryInv, NoRequestLeftBehind
  <1> HIDE DEF P, H, R
  <1> QED
    BY <1>1, <1>2, <1>3, PayloadCleanup

\* A header that waits for its parents only makes no request.
LEMMA SyncParentsStep ==
  ASSUME PrimaryInv,
         NEW h \in Headers, SyncParents(h)
  PROVE  PrimaryInv'
  <1> DEFINE P == pending_parents \cup {h}
  <1>1. HeaderWaiterCleanup(P, pending_headers, batch_requests) /\ UNCHANGED consensus_round
    BY DEF SyncParents
  <1>2. \A r \in batch_requests :
          \E g \in pending_headers : Round[g] = r.round /\ r.digest \in Payload[g]
    BY DEF PrimaryInv, NoRequestLeftBehind
  <1> HIDE DEF P
  <1> QED
    BY <1>1, <1>2, PayloadCleanup DEF PrimaryInv

\* The other steps leave the map and the requests of HeaderWaiter alone.
LEMMA PayloadElsewhere ==
  ASSUME PrimaryInv,
         UNCHANGED <<pending_headers, batch_requests>>,
         \/ UNCHANGED consensus_round
         \/ \E w \in Workers : consensus_round' = [consensus_round EXCEPT ![w] = @ + 1]
  PROVE  PrimaryInv'
  BY DEF PrimaryInv, NoRequestLeftBehind

LEMMA PayloadInvariant ==
  Spec => [](WorkersInv /\ PrimaryInv)
  <1>1. Init => WorkersInv /\ PrimaryInv
    BY WorkersInit
  <1>2. WorkersInv /\ PrimaryInv /\ [Next]_vars => (WorkersInv /\ PrimaryInv)'
    <2> SUFFICES ASSUME WorkersInv, PrimaryInv, [Next]_vars
                 PROVE  WorkersInv' /\ PrimaryInv'
      OBVIOUS
    <2> USE DEF primaryVars
    <2>1. CASE WorkerNext /\ UNCHANGED <<primaryVars, broadcast, lost>>
      <3>1. WorkersInv'
        BY <2>1, SynchronizeStep, CleanupStep, SynchronizerSteps, NetworkSteps
           DEF WorkerNext
      <3>2. PrimaryInv'
        BY <2>1, PayloadElsewhere
      <3> QED
        BY <3>1, <3>2
    <2>2. ASSUME NEW d \in Digests,
                 \/ ReceiveBroadcast(d) \/ CancelBroadcast(d)
                 \/ ReceiveDigest(d) \/ LoseDigest(d)
          PROVE  WorkersInv' /\ PrimaryInv'
      <3>1. WorkersInv'
        BY <2>2, PrimaryOnWorkers
      <3>2. UNCHANGED <<pending_headers, batch_requests, consensus_round>>
        BY <2>2 DEF ReceiveBroadcast, CancelBroadcast, ReceiveDigest,
           LoseDigest
      <3> QED
        BY <3>1, <3>2, PayloadElsewhere
    <2>3. ASSUME NEW h \in Headers,
                 \/ ProcessHeader(h) \/ SyncParents(h) \/ SyncBatches(h)
                 \/ StoreParents(h) \/ HeaderComplete(h)
          PROVE  WorkersInv' /\ PrimaryInv'
      <3>1. WorkersInv'
        BY <2>3, PrimaryOnWorkers
      <3>2. ASSUME ProcessHeader(h) \/ StoreParents(h)
            PROVE  UNCHANGED <<pending_headers, batch_requests, consensus_round>>
        BY <3>2 DEF ProcessHeader, StoreParents
      <3> QED
        BY <2>3, <3>1, <3>2, SyncParentsStep, SyncBatchesStep, PayloadCompleteStep, PayloadElsewhere
    <2>4. ASSUME NEW w \in Workers, GarbageCollect(w) PROVE WorkersInv' /\ PrimaryInv'
      <3>1. WorkersInv'
        BY <2>4, PrimaryOnWorkers
      <3>2. /\ UNCHANGED <<pending_headers, batch_requests>>
            /\ consensus_round' = [consensus_round EXCEPT ![w] = @ + 1]
        BY <2>4 DEF GarbageCollect
      <3> QED
        BY <3>1, <3>2, PayloadElsewhere
    <2>5. CASE UNCHANGED vars
      <3>1. WorkersInv'
        BY <2>5 DEF vars, workerVars, network, WorkersInv,
           TypeOK, PendingIsRecent
      <3>2. PrimaryInv'
        BY <2>5, PayloadElsewhere DEF vars
      <3> QED
        BY <3>1, <3>2
    <2> QED
      BY <2>1, <2>2, <2>3, <2>4, <2>5 DEF Next
  <1> QED
    BY <1>1, <1>2, PTL DEF Spec

\* No request of a worker's Synchronizer outlives gc_depth rounds, whatever the
\* order in which Synchronize and Cleanup commands reach it
\* (worker/src/synchronizer.rs).
THEOREM OldRequestsGo ==
  Spec => [](TypeOK /\ PendingIsRecent)
  <1>1. WorkersInv => TypeOK /\ PendingIsRecent
    BY DEF WorkersInv
  <1> QED
    BY <1>1, PayloadInvariant, PTL

\* batch_requests of HeaderWaiter (primary/src/header_waiter.rs) holds nothing
\* without a header of its round that waits for the batch, whichever headers share
\* it and whether they wait for their parents or their payload.
THEOREM RequestsHaveHeaders ==
  Spec => []NoRequestLeftBehind
  <1>1. PrimaryInv => NoRequestLeftBehind
    BY DEF PrimaryInv
  <1> QED
    BY <1>1, PayloadInvariant, PTL

-----------------------------------------------------------------------------
(* Loopback: the channels between the Core and its waiters.                *)

Channels == INSTANCE Loopback

\* What a function gives for the elements of a sequence, and that it tells all of
\* them apart.
KeysOf(g, s) == {g[s[k]] : k \in 1 .. Len(s)}
AllDifferent(g, s) == \A j, k \in 1 .. Len(s) : g[s[j]] = g[s[k]] => j = k

LEMMA DifferentAppend ==
  ASSUME NEW S, NEW I, NEW g \in [S -> I], NEW s \in Seq(S), NEW m \in S
  PROVE  /\ KeysOf(g, Append(s, m)) = KeysOf(g, s) \cup {g[m]}
         /\ AllDifferent(g, s) /\ g[m] \notin KeysOf(g, s) => AllDifferent(g, Append(s, m))
  <1> DEFINE t == Append(s, m)
  <1>1. /\ Len(s) \in Nat /\ Len(t) = Len(s) + 1 /\ t[Len(s) + 1] = m
        /\ \A k \in 1 .. Len(s) : t[k] = s[k]
    OBVIOUS
  <1> HIDE DEF t
  <1>2. \A k \in 1 .. Len(t) : k \in 1 .. Len(s) \/ k = Len(s) + 1
    BY <1>1
  <1>3. \A k \in 1 .. Len(s) : k \in 1 .. Len(t)
    BY <1>1
  <1>4. Len(s) + 1 \in 1 .. Len(t)
    BY <1>1
  <1>5. KeysOf(g, t) = KeysOf(g, s) \cup {g[m]}
    BY <1>1, <1>2, <1>3, <1>4 DEF KeysOf
  <1>6. ASSUME AllDifferent(g, s), g[m] \notin KeysOf(g, s) PROVE AllDifferent(g, t)
    BY <1>1, <1>2, <1>6 DEF KeysOf, AllDifferent
  <1> QED
    BY <1>5, <1>6 DEF t

LEMMA DifferentTail ==
  ASSUME NEW S, NEW I, NEW g \in [S -> I], NEW s \in Seq(S), s # <<>>, AllDifferent(g, s)
  PROVE  /\ Head(s) \in S /\ g[Head(s)] \in KeysOf(g, s) /\ Tail(s) \in Seq(S)
         /\ Len(Tail(s)) <= Len(s)
         /\ KeysOf(g, Tail(s)) = KeysOf(g, s) \ {g[Head(s)]} /\ AllDifferent(g, Tail(s))
  <1> DEFINE t == Tail(s)
  <1>1. /\ Len(s) \in Nat /\ Len(s) >= 1 /\ Len(t) = Len(s) - 1 /\ Head(s) = s[1] /\ t \in Seq(S)
        /\ \A k \in 1 .. Len(t) : t[k] = s[k + 1] /\ k + 1 \in 1 .. Len(s) /\ k + 1 # 1
    OBVIOUS
  <1> HIDE DEF t
  <1>2. \A k \in 1 .. Len(s) : k = 1 \/ (k - 1 \in 1 .. Len(t) /\ t[k - 1] = s[k])
    BY <1>1
  <1>3. 1 \in 1 .. Len(s) /\ g[s[1]] \in KeysOf(g, s) /\ s[1] \in S
    BY <1>1 DEF KeysOf
  <1>4. \A k \in 1 .. Len(t) : g[t[k]] \in KeysOf(g, s) \ {g[s[1]]}
    BY <1>1, <1>3 DEF KeysOf, AllDifferent
  <1>5. \A x \in KeysOf(g, s) \ {g[s[1]]} : \E k \in 1 .. Len(t) : x = g[t[k]]
    BY <1>2 DEF KeysOf
  <1>6. KeysOf(g, t) = KeysOf(g, s) \ {g[s[1]]}
    <2> DEFINE K == KeysOf(g, s) \ {g[s[1]]}
    <2> HIDE DEF K
    <2>1. \A x \in KeysOf(g, t) : x \in K
      BY <1>4 DEF KeysOf, K
    <2>2. \A x \in K : x \in KeysOf(g, t)
      BY <1>5 DEF KeysOf, K
    <2>3. KeysOf(g, t) = K
      BY <2>1, <2>2
    <2> QED
      BY <2>3 DEF K
  <1>7. AllDifferent(g, t)
    <2> SUFFICES ASSUME NEW j \in 1 .. Len(t), NEW k \in 1 .. Len(t), g[t[j]] = g[t[k]] PROVE j = k
      BY DEF AllDifferent
    <2>1. j + 1 = k + 1
      BY <1>1 DEF AllDifferent
    <2> QED
      BY <2>1
  <1> QED
    BY <1>1, <1>3, <1>6, <1>7 DEF t

LEMMA DifferentCount ==
  ASSUME NEW S, NEW I, NEW g \in [S -> I], NEW s \in Seq(S), AllDifferent(g, s)
  PROVE  IsFiniteSet(KeysOf(g, s)) /\ Cardinality(KeysOf(g, s)) = Len(s)
  <1> DEFINE n == Len(s)
             f == [k \in 1 .. n |-> g[s[k]]]
             K == KeysOf(g, s)
  <1>1. n \in Nat
    OBVIOUS
  <1>2. f \in Bijection(1 .. n, K)
    BY DEF Bijection, Injection, Surjection, KeysOf, AllDifferent, IsInjective
  <1> HIDE DEF f, K
  <1>3. ExistsBijection(1 .. n, K)
    BY <1>2 DEF ExistsBijection
  <1> HIDE DEF n
  <1>4. IsFiniteSet(1 .. n) /\ Cardinality(1 .. n) = IF 1 > n THEN 0 ELSE n - 1 + 1
    BY <1>1, FS_Interval
  <1>5. IsFiniteSet(K) /\ Cardinality(K) = Cardinality(1 .. n)
    BY <1>3, <1>4, FS_Bijection
  <1> QED
    BY <1>1, <1>4, <1>5 DEF n, K

ItemOf == [s \in Channels!Suspended |-> s[1]]
Itself == [i \in Channels!Items |-> i]

\* The places a message can be in: outside the cycle, in the hand of the Core, and
\* for each waiter its channel, its pool, its hand and its channel back.
Outside == rx_primaries \cup processed \cup dropped
AtCore == IF core = NoItem THEN {} ELSE {core[1]}
InChannel(w) == KeysOf(ItemOf, tx_sync[w])
InPool(w) == {s[1] : s \in waiting[w]}
InHand(w) == {sending[w]} \ {NoItem}
InLoopback(w) == KeysOf(Itself, rx_loopback[w])

ChannelTypes ==
    /\ Channels!TypeOK
    /\ tx_sync \in [Channels!Waiters -> Seq(Channels!Suspended)]
    /\ rx_loopback \in [Channels!Waiters -> Seq(Channels!Items)]
    /\ waiting \in [Channels!Waiters -> SUBSET Channels!Suspended]
    /\ sending \in [Channels!Waiters -> Channels!Items \cup {NoItem}]

\* No message is twice in a place.
OncePerPlace(w) ==
    /\ AllDifferent(ItemOf, tx_sync[w]) /\ AllDifferent(Itself, rx_loopback[w])
    /\ \A s, t \in waiting[w] : s[1] = t[1] => s = t

\* No message is in two places.
Apart(w) ==
    /\ InChannel(w) \cap (InPool(w) \cup InHand(w) \cup InLoopback(w) \cup AtCore \cup Outside) = {}
    /\ InPool(w) \cap (InHand(w) \cup InLoopback(w) \cup AtCore \cup Outside) = {}
    /\ InHand(w) \cap (InLoopback(w) \cup AtCore \cup Outside) = {}
    /\ InLoopback(w) \cap (AtCore \cup Outside) = {}

\* The messages of a waiter are its own.
Owned(w) ==
    \A i \in InChannel(w) \cup InPool(w) \cup InHand(w) \cup InLoopback(w) :
        i \in Channels!Items /\ Channels!WaiterOf(i) = w

ChannelsInv ==
    /\ ChannelTypes
    /\ \A w \in Channels!Waiters : OncePerPlace(w) /\ Apart(w) /\ Owned(w)
    /\ AtCore \cap Outside = {} /\ rx_primaries \cap (processed \cup dropped) = {}
    /\ IsFiniteSet(Channels!Items \ Outside)

\* Both keys are messages.
LEMMA KeyTypes ==
  /\ ItemOf \in [Channels!Suspended -> Channels!Items]
  /\ Itself \in [Channels!Items -> Channels!Items]
  /\ \A s \in Channels!Suspended : ItemOf[s] = s[1] /\ s[1] \in Channels!Items
  /\ \A i \in Channels!Items : Itself[i] = i
  BY DEF ItemOf, Itself, Channels!Suspended

LEMMA ChannelsInit ==
  ASSUME Channels!LoopbackAssumption, Channels!Init
  PROVE  ChannelsInv
  <1> USE DEF Channels!LoopbackAssumption
  <1>1. ChannelTypes
    BY DEF Channels!Init, ChannelTypes, Channels!TypeOK, Channels!Parts
  <1>2. ASSUME NEW w \in Channels!Waiters PROVE OncePerPlace(w) /\ Apart(w) /\ Owned(w)
    <2>1. /\ tx_sync[w] = <<>> /\ rx_loopback[w] = <<>> /\ waiting[w] = {} /\ sending[w] = NoItem
          /\ core = NoItem
      BY DEF Channels!Init
    <2>2. \A g : KeysOf(g, <<>>) = {} /\ AllDifferent(g, <<>>)
      BY DEF KeysOf, AllDifferent
    <2>3. InChannel(w) = {} /\ InPool(w) = {} /\ InHand(w) = {} /\ InLoopback(w) = {}
      BY <2>1, <2>2 DEF InChannel, InPool, InHand, InLoopback
    <2> QED
      BY <2>1, <2>2, <2>3 DEF OncePerPlace, Apart, Owned
  <1>3. AtCore = {} /\ rx_primaries = Channels!Items /\ processed = {} /\ dropped = {}
    BY DEF Channels!Init, AtCore
  <1>4. Channels!Items \ Outside = {}
    BY <1>3 DEF Outside
  <1> QED
    BY <1>1, <1>2, <1>3, <1>4, FS_EmptySet DEF ChannelsInv

\* What Process does with an item that is nowhere else.
LEMMA ProcessEffect ==
  ASSUME Channels!LoopbackAssumption, NEW i \in Channels!Items, Channels!Process(i), core = NoItem
  PROVE  /\ \/ AtCore' = {} /\ processed' = processed \cup {i}
            \/ AtCore' \subseteq {i} /\ processed' = processed
         /\ core' \in Channels!Suspended \cup {NoItem}
  <1>1. CASE core' = core
    BY <1>1 DEF Channels!Process, AtCore
  <1>2. CASE /\ core' = <<i, IF "parents" \notin stored[Id[i]] THEN "parents" ELSE "payload">>
             /\ UNCHANGED processed /\ ~ Channels!Parts(i) \subseteq stored[Id[i]]
    <2>1. AtCore' \subseteq {i}
      BY <1>2 DEF AtCore
    <2>2. core' \in Channels!Suspended
      BY <1>2 DEF Channels!Suspended, Channels!Parts
    <2> QED
      BY <1>2, <2>1, <2>2
  <1> QED
    BY <1>1, <1>2 DEF Channels!Process

LEMMA StaysFinite ==
  ASSUME NEW i, IsFiniteSet(Channels!Items \ Outside), Outside \subseteq Outside' \cup {i}
  PROVE  IsFiniteSet(Channels!Items \ Outside')
  <1> DEFINE A == (Channels!Items \ Outside) \cup {i}
             B == Channels!Items \ Outside'
  <1>1. IsFiniteSet(A)
    BY FS_AddElement
  <1>2. B \in SUBSET A
    OBVIOUS
  <1> HIDE DEF A, B
  <1>3. IsFiniteSet(B)
    BY <1>1, <1>2, FS_Subset
  <1> QED
    BY <1>3 DEF B

\* The Core takes an item, which is with it or processed afterwards.
LEMMA CoreTakes ==
  ASSUME Channels!LoopbackAssumption, ChannelsInv, core = NoItem,
         NEW i \in Channels!Items, Channels!Process(i), ChannelTypes',
         rx_primaries' = rx_primaries \ {i}, dropped' = dropped, i \notin processed \cup dropped,
         \A w \in Channels!Waiters :
             /\ OncePerPlace(w)' /\ i \notin InChannel(w) \cup InPool(w) \cup InHand(w)
             /\ InChannel(w)' = InChannel(w) /\ InPool(w)' = InPool(w) /\ InHand(w)' = InHand(w)
             /\ InLoopback(w)' = InLoopback(w) \ {i}
  PROVE  ChannelsInv'
  <1>1. /\ \/ AtCore' = {} /\ processed' = processed \cup {i}
           \/ AtCore' \subseteq {i} /\ processed' = processed
    BY ProcessEffect
  <1>2. AtCore' \cup Outside' \subseteq Outside \cup {i} /\ Outside \subseteq Outside' \cup {i}
    BY <1>1 DEF Outside
  <1>3. AtCore' \cap Outside' = {} /\ rx_primaries' \cap (processed' \cup dropped') = {}
    BY <1>1 DEF ChannelsInv, Outside
  <1>4. ASSUME NEW w \in Channels!Waiters PROVE Apart(w)' /\ Owned(w)'
    <2>1. Apart(w) /\ Owned(w)
      BY DEF ChannelsInv
    <2> QED
      BY <1>2, <2>1 DEF Apart, Owned
  <1>5. IsFiniteSet(Channels!Items \ Outside')
    BY <1>2, StaysFinite DEF ChannelsInv
  <1> QED
    BY <1>3, <1>4, <1>5 DEF ChannelsInv

LEMMA ReceiveItemStep ==
  ASSUME Channels!LoopbackAssumption, ChannelsInv, NEW i \in Channels!Items, Channels!ReceiveItem(i)
  PROVE  ChannelsInv'
  <1>1. /\ core = NoItem /\ i \in rx_primaries /\ rx_primaries' = rx_primaries \ {i}
        /\ UNCHANGED <<stored, gc_round, tx_sync, waiting, pending, sending, rx_loopback>>
    BY DEF Channels!ReceiveItem, Channels!world, Channels!waiters
  <1>2. i \notin processed \cup dropped /\ i \in Outside
    BY <1>1 DEF ChannelsInv, Outside
  <1>3. ASSUME NEW w \in Channels!Waiters
        PROVE  /\ OncePerPlace(w)' /\ i \notin InChannel(w) \cup InPool(w) \cup InHand(w)
               /\ InChannel(w)' = InChannel(w) /\ InPool(w)' = InPool(w) /\ InHand(w)' = InHand(w)
               /\ InLoopback(w)' = InLoopback(w) \ {i} /\ InLoopback(w)' = InLoopback(w)
    <2>1. OncePerPlace(w) /\ Apart(w)
      BY DEF ChannelsInv
    <2>2. i \notin InChannel(w) \cup InPool(w) \cup InHand(w) \cup InLoopback(w)
      BY <1>2, <2>1 DEF Apart
    <2>3. /\ InChannel(w)' = InChannel(w) /\ InPool(w)' = InPool(w) /\ InHand(w)' = InHand(w)
          /\ InLoopback(w)' = InLoopback(w)
      BY <1>1 DEF InChannel, InPool, InHand, InLoopback
    <2>4. OncePerPlace(w)'
      BY <1>1, <2>1 DEF OncePerPlace
    <2> QED
      BY <2>2, <2>3, <2>4
  <1>4. CASE Channels!Process(i) /\ UNCHANGED dropped
    <2>1. /\ core' \in Channels!Suspended \cup {NoItem} /\ processed' \subseteq processed \cup {i}
      BY <1>1, <1>4, ProcessEffect
    <2>2. ChannelTypes'
      BY <1>1, <1>4, <2>1 DEF ChannelsInv, ChannelTypes, Channels!TypeOK
    <2> QED
      BY <1>1, <1>2, <1>3, <1>4, <2>2, CoreTakes
  <1>5. CASE dropped' = dropped \cup {i} /\ UNCHANGED <<processed, core>>
    <2>1. ChannelTypes'
      BY <1>1, <1>5 DEF ChannelsInv, ChannelTypes, Channels!TypeOK
    <2>2. Outside' = Outside /\ AtCore' = AtCore
      BY <1>1, <1>2, <1>5 DEF Outside, AtCore
    <2>3. ASSUME NEW w \in Channels!Waiters PROVE Apart(w)' /\ Owned(w)'
      <3>1. Apart(w) /\ Owned(w)
        BY DEF ChannelsInv
      <3> QED
        BY <1>3, <2>2, <3>1 DEF Apart, Owned
    <2>4. rx_primaries' \cap (processed' \cup dropped') = {}
      BY <1>1, <1>5 DEF ChannelsInv
    <2> QED
      BY <1>3, <2>1, <2>2, <2>3, <2>4 DEF ChannelsInv
  <1> QED
    BY <1>4, <1>5 DEF Channels!ReceiveItem

LEMMA ReceiveLoopbackStep ==
  ASSUME Channels!LoopbackAssumption, ChannelsInv, NEW w \in Channels!Waiters,
         Channels!ReceiveLoopback(w)
  PROVE  ChannelsInv'
  <1> DEFINE s == rx_loopback[w]
             i == Head(s)
  <1>1. /\ core = NoItem /\ s # <<>> /\ rx_loopback' = [rx_loopback EXCEPT ![w] = Tail(s)]
        /\ Channels!Process(i)
        /\ UNCHANGED <<rx_primaries, stored, gc_round, dropped, tx_sync, waiting, pending, sending>>
    BY DEF Channels!ReceiveLoopback, Channels!world, Channels!waiters
  <1>2. s \in Seq(Channels!Items) /\ Len(s) <= ChannelCapacity /\ AllDifferent(Itself, s)
    BY DEF ChannelsInv, ChannelTypes, Channels!TypeOK, OncePerPlace
  <1> HIDE DEF s
  <1>3. /\ i \in Channels!Items /\ Itself[i] \in KeysOf(Itself, s) /\ Tail(s) \in Seq(Channels!Items)
        /\ Len(Tail(s)) <= Len(s)
        /\ KeysOf(Itself, Tail(s)) = KeysOf(Itself, s) \ {Itself[i]} /\ AllDifferent(Itself, Tail(s))
    BY <1>1, <1>2, KeyTypes, DifferentTail
  <1>4. Itself[i] = i
    BY <1>3, KeyTypes
  <1> HIDE DEF i
  <1>5. rx_loopback \in [Channels!Waiters -> Seq(Channels!Items)]
    BY DEF ChannelsInv, ChannelTypes
  <1>6. /\ rx_loopback'[w] = Tail(s) /\ \A v \in Channels!Waiters : v # w => rx_loopback'[v] = rx_loopback[v]
        /\ rx_loopback' \in [Channels!Waiters -> Seq(Channels!Items)]
    BY <1>1, <1>3, <1>5
  <1>7. i \in InLoopback(w) /\ InLoopback(w)' = InLoopback(w) \ {i}
    BY <1>3, <1>4, <1>6 DEF InLoopback, s
  <1>8. ChannelTypes'
    <2>1. core' \in Channels!Suspended \cup {NoItem} /\ processed' \subseteq processed \cup {i}
      BY <1>1, <1>3, ProcessEffect
    <2>2. \A v \in Channels!Waiters : Len(rx_loopback'[v]) <= ChannelCapacity
      <3>1. Len(s) \in Nat /\ Len(Tail(s)) \in Nat /\ ChannelCapacity \in Nat
        BY <1>2, <1>3, LenProperties DEF Channels!LoopbackAssumption
      <3>2. Len(Tail(s)) <= ChannelCapacity
        BY <1>2, <1>3, <3>1
      <3> QED
        BY <1>6, <3>2 DEF ChannelsInv, ChannelTypes, Channels!TypeOK
    <2> QED
      BY <1>1, <1>3, <1>6, <2>1, <2>2 DEF ChannelsInv, ChannelTypes, Channels!TypeOK
  <1>9. Apart(w) /\ Owned(w)
    BY DEF ChannelsInv
  <1>10. i \notin Outside /\ Channels!WaiterOf(i) = w
    BY <1>7, <1>9 DEF Apart, Owned
  <1>11. ASSUME NEW v \in Channels!Waiters
         PROVE  /\ OncePerPlace(v)' /\ i \notin InChannel(v) \cup InPool(v) \cup InHand(v)
                /\ InChannel(v)' = InChannel(v) /\ InPool(v)' = InPool(v) /\ InHand(v)' = InHand(v)
                /\ InLoopback(v)' = InLoopback(v) \ {i}
    <2>1. OncePerPlace(v) /\ Apart(v) /\ Owned(v)
      BY DEF ChannelsInv
    <2>2. InChannel(v)' = InChannel(v) /\ InPool(v)' = InPool(v) /\ InHand(v)' = InHand(v)
      BY <1>1 DEF InChannel, InPool, InHand
    <2>3. CASE v = w
      <3>1. i \notin InChannel(v) \cup InPool(v) \cup InHand(v)
        BY <1>7, <2>1, <2>3 DEF Apart
      <3>2. OncePerPlace(v)'
        BY <1>1, <1>3, <1>6, <2>1, <2>3 DEF OncePerPlace
      <3> QED
        BY <1>7, <2>2, <2>3, <3>1, <3>2
    <2>4. CASE v # w
      <3>1. i \notin InChannel(v) \cup InPool(v) \cup InHand(v) \cup InLoopback(v)
        BY <1>10, <2>1, <2>4 DEF Owned
      <3>2. OncePerPlace(v)'
        BY <1>1, <1>6, <2>1, <2>4 DEF OncePerPlace
      <3>3. InLoopback(v)' = InLoopback(v)
        BY <1>6, <2>4 DEF InLoopback
      <3> QED
        BY <2>2, <3>1, <3>2, <3>3
    <2> QED
      BY <2>3, <2>4
  <1>12. rx_primaries' = rx_primaries \ {i} /\ dropped' = dropped /\ i \notin processed \cup dropped
    BY <1>1, <1>10 DEF Outside
  <1> QED
    BY <1>1, <1>3, <1>8, <1>11, <1>12, CoreTakes

\* A step between the places of one waiter, which may drop what it had.
LEMMA WaiterMoves ==
  ASSUME ChannelsInv, ChannelTypes', UNCHANGED <<rx_primaries, processed>>, AtCore' \subseteq AtCore,
         NEW w \in Channels!Waiters, OncePerPlace(w)', Apart(w)', Owned(w)',
         NEW D \in SUBSET (InChannel(w) \cup InPool(w)), dropped' = dropped \cup D,
         \A v \in Channels!Waiters : v # w =>
             /\ tx_sync'[v] = tx_sync[v] /\ waiting'[v] = waiting[v]
             /\ sending'[v] = sending[v] /\ rx_loopback'[v] = rx_loopback[v]
  PROVE  ChannelsInv'
  <1>1. Outside' = Outside \cup D
    BY DEF Outside
  <1>2. Apart(w) /\ Owned(w)
    BY DEF ChannelsInv
  <1>3. ASSUME NEW v \in Channels!Waiters, v # w PROVE OncePerPlace(v)' /\ Apart(v)' /\ Owned(v)'
    <2>1. OncePerPlace(v) /\ Apart(v) /\ Owned(v)
      BY DEF ChannelsInv
    <2>2. /\ tx_sync'[v] = tx_sync[v] /\ waiting'[v] = waiting[v]
          /\ sending'[v] = sending[v] /\ rx_loopback'[v] = rx_loopback[v]
      BY <1>3
    <2>3. OncePerPlace(v)'
      BY <2>1, <2>2 DEF OncePerPlace
    <2>4. /\ InChannel(v)' = InChannel(v) /\ InPool(v)' = InPool(v) /\ InHand(v)' = InHand(v)
          /\ InLoopback(v)' = InLoopback(v)
      BY <2>2 DEF InChannel, InPool, InHand, InLoopback
    <2>5. D \cap (InChannel(v) \cup InPool(v) \cup InHand(v) \cup InLoopback(v)) = {}
      BY <1>2, <1>3, <2>1 DEF Owned
    <2> QED
      BY <1>1, <2>1, <2>3, <2>4, <2>5 DEF Apart, Owned
  <1>4. AtCore' \cap Outside' = {} /\ rx_primaries' \cap (processed' \cup dropped') = {}
    <2>1. D \cap AtCore = {} /\ D \cap rx_primaries = {}
      BY <1>2 DEF Apart, Outside
    <2> QED
      BY <1>1, <2>1 DEF ChannelsInv
  <1>5. IsFiniteSet(Channels!Items \ Outside')
    BY <1>1, StaysFinite DEF ChannelsInv
  <1> QED
    BY <1>3, <1>4, <1>5 DEF ChannelsInv

LEMMA SuspendStep ==
  ASSUME Channels!LoopbackAssumption, ChannelsInv, Channels!Suspend
  PROVE  ChannelsInv'
  <1>0. PICK w \in Channels!Waiters : w = Channels!WaiterOf(core[1])
    BY DEF Channels!WaiterOf, Channels!Waiters
  <1> DEFINE s == tx_sync[w]
             c == core
             t == Append(s, c)
  <1>1. /\ core # NoItem /\ Len(s) < ChannelCapacity
        /\ tx_sync' = [tx_sync EXCEPT ![w] = t] /\ core' = NoItem
        /\ UNCHANGED <<rx_primaries, stored, gc_round, processed, dropped, waiting, pending, sending,
                       rx_loopback>>
    BY <1>0 DEF Channels!Suspend, Channels!world, Channels!waiters
  <1>2. core \in Channels!Suspended /\ tx_sync \in [Channels!Waiters -> Seq(Channels!Suspended)]
    BY <1>1 DEF ChannelsInv, ChannelTypes, Channels!TypeOK
  <1>3. core[1] \in Channels!Items /\ ItemOf[core] = core[1] /\ AtCore = {core[1]} /\ AtCore' = {}
    BY <1>1, <1>2, KeyTypes DEF AtCore
  <1>6. s \in Seq(Channels!Suspended) /\ OncePerPlace(w) /\ Apart(w) /\ Owned(w)
    BY <1>2 DEF ChannelsInv
  <1>7. core[1] \notin InChannel(w) \cup InPool(w) \cup InHand(w) \cup InLoopback(w) \cup Outside
    BY <1>3, <1>6 DEF Apart, ChannelsInv
  <1> HIDE DEF s
  <1>8. /\ KeysOf(ItemOf, t) = KeysOf(ItemOf, s) \cup {core[1]}
        /\ AllDifferent(ItemOf, s) /\ core[1] \notin KeysOf(ItemOf, s) => AllDifferent(ItemOf, t)
    <2> HIDE DEF c
    <2>1. /\ KeysOf(ItemOf, t) = KeysOf(ItemOf, s) \cup {ItemOf[c]}
          /\ AllDifferent(ItemOf, s) /\ ItemOf[c] \notin KeysOf(ItemOf, s) => AllDifferent(ItemOf, t)
      <3>1. c \in Channels!Suspended
        BY <1>2 DEF c
      <3> QED
        BY <1>6, <3>1, KeyTypes, DifferentAppend
    <2>2. ItemOf[c] = core[1]
      BY <1>3 DEF c
    <2> QED
      BY <2>1, <2>2
  <1>9. t \in Seq(Channels!Suspended) /\ Len(t) <= ChannelCapacity
    BY <1>1, <1>2, <1>6 DEF Channels!LoopbackAssumption
  <1> HIDE DEF t
  <1>10. /\ tx_sync'[w] = t /\ tx_sync' \in [Channels!Waiters -> Seq(Channels!Suspended)]
         /\ \A v \in Channels!Waiters : v # w => tx_sync'[v] = tx_sync[v]
    BY <1>1, <1>2, <1>9
  <1>11. ChannelTypes'
    <2>1. \A v \in Channels!Waiters : Len(tx_sync'[v]) <= ChannelCapacity
      BY <1>9, <1>10 DEF ChannelsInv, ChannelTypes, Channels!TypeOK
    <2> QED
      BY <1>1, <1>10, <2>1 DEF ChannelsInv, ChannelTypes, Channels!TypeOK
  <1>12. /\ InChannel(w)' = InChannel(w) \cup {core[1]} /\ InPool(w)' = InPool(w)
         /\ InHand(w)' = InHand(w) /\ InLoopback(w)' = InLoopback(w) /\ Outside' = Outside
    BY <1>1, <1>8, <1>10 DEF InChannel, InPool, InHand, InLoopback, Outside, s
  <1>13. OncePerPlace(w)'
    BY <1>1, <1>6, <1>7, <1>8, <1>10 DEF OncePerPlace, InChannel, s
  <1>14. Apart(w)'
    BY <1>3, <1>6, <1>7, <1>12 DEF Apart
  <1>15. Owned(w)'
    BY <1>0, <1>3, <1>6, <1>12 DEF Owned
  <1>16. {} \in SUBSET (InChannel(w) \cup InPool(w)) /\ dropped' = dropped \cup {}
    BY <1>1
  <1> QED
    BY <1>1, <1>3, <1>10, <1>11, <1>13, <1>14, <1>15, <1>16, WaiterMoves

\* What the clean-up leaves in the map of HeaderWaiter it waits for.
LEMMA CleanupLeaves ==
  ASSUME NEW P, Channels!Cleanup(P)
  PROVE  pending' \subseteq P
  BY DEF Channels!Cleanup

LEMMA WaiterReceiveStep ==
  ASSUME Channels!LoopbackAssumption, ChannelsInv, NEW w \in Channels!Waiters,
         Channels!WaiterReceive(w)
  PROVE  ChannelsInv'
  <1> DEFINE s == tx_sync[w]
             m == Head(s)
             t == Tail(s)
  <1>1. /\ s # <<>> /\ tx_sync' = [tx_sync EXCEPT ![w] = t]
        /\ \/ dropped' = dropped \cup {m[1]} /\ UNCHANGED <<waiting, pending>>
           \/ /\ waiting' = [waiting EXCEPT ![w] = @ \cup {m}] /\ UNCHANGED dropped
              /\ \/ w = "HeaderWaiter" /\ Channels!Cleanup(pending \cup {m})
                 \/ w # "HeaderWaiter" /\ UNCHANGED pending
        /\ UNCHANGED <<rx_primaries, stored, gc_round, processed, core, sending, rx_loopback>>
    BY DEF Channels!WaiterReceive, Channels!world
  <1>2. /\ tx_sync \in [Channels!Waiters -> Seq(Channels!Suspended)]
        /\ waiting \in [Channels!Waiters -> SUBSET Channels!Suspended]
        /\ pending \subseteq waiting["HeaderWaiter"]
        /\ s \in Seq(Channels!Suspended) /\ Len(s) <= ChannelCapacity
        /\ OncePerPlace(w) /\ Apart(w) /\ Owned(w)
    BY DEF ChannelsInv, ChannelTypes, Channels!TypeOK
  <1>3. AllDifferent(ItemOf, s)
    BY <1>2 DEF OncePerPlace
  <1> HIDE DEF s
  <1>4. /\ m \in Channels!Suspended /\ ItemOf[m] \in KeysOf(ItemOf, s) /\ t \in Seq(Channels!Suspended)
        /\ Len(t) <= Len(s)
        /\ KeysOf(ItemOf, t) = KeysOf(ItemOf, s) \ {ItemOf[m]} /\ AllDifferent(ItemOf, t)
    BY <1>1, <1>2, <1>3, KeyTypes, DifferentTail
  <1>5. ItemOf[m] = m[1] /\ m[1] \in Channels!Items
    BY <1>4, KeyTypes
  <1>6. Len(t) <= ChannelCapacity
    <2>1. Len(s) \in Nat /\ Len(t) \in Nat /\ ChannelCapacity \in Nat
      BY <1>2, <1>4, LenProperties DEF Channels!LoopbackAssumption
    <2> QED
      BY <1>2, <1>4, <2>1
  <1> HIDE DEF m, t
  <1>7. /\ tx_sync'[w] = t /\ tx_sync' \in [Channels!Waiters -> Seq(Channels!Suspended)]
        /\ \A v \in Channels!Waiters : v # w => tx_sync'[v] = tx_sync[v]
        /\ \A v \in Channels!Waiters : Len(tx_sync'[v]) <= ChannelCapacity
    <2>1. /\ tx_sync'[w] = t /\ tx_sync' \in [Channels!Waiters -> Seq(Channels!Suspended)]
          /\ \A v \in Channels!Waiters : v # w => tx_sync'[v] = tx_sync[v]
      BY <1>1, <1>2, <1>4
    <2> QED
      BY <1>6, <2>1 DEF ChannelsInv, ChannelTypes, Channels!TypeOK
  <1>8. m[1] \in InChannel(w)
    BY <1>4, <1>5 DEF InChannel, s
  <1>9. /\ InChannel(w)' = InChannel(w) \ {m[1]} /\ InHand(w)' = InHand(w)
        /\ InLoopback(w)' = InLoopback(w) /\ AtCore' = AtCore
    <2>1. InChannel(w)' = InChannel(w) \ {m[1]}
      BY <1>4, <1>5, <1>7 DEF InChannel, s
    <2> QED
      BY <1>1, <2>1 DEF InHand, InLoopback, AtCore
  <1>10. CASE dropped' = dropped \cup {m[1]} /\ UNCHANGED <<waiting, pending>>
    <2>1. ChannelTypes'
      BY <1>1, <1>5, <1>7, <1>10 DEF ChannelsInv, ChannelTypes, Channels!TypeOK
    <2>2. InPool(w)' = InPool(w) /\ Outside' = Outside \cup {m[1]}
      BY <1>1, <1>10 DEF InPool, Outside
    <2>3. OncePerPlace(w)'
      BY <1>1, <1>2, <1>4, <1>7, <1>10 DEF OncePerPlace
    <2>4. Apart(w)' /\ Owned(w)'
      BY <1>2, <1>8, <1>9, <2>2 DEF Apart, Owned
    <2>5. {m[1]} \in SUBSET (InChannel(w) \cup InPool(w)) /\ AtCore' \subseteq AtCore
      BY <1>8, <1>9
    <2> QED
      BY <1>1, <1>7, <1>10, <2>1, <2>3, <2>4, <2>5, WaiterMoves
  <1>11. CASE /\ waiting' = [waiting EXCEPT ![w] = @ \cup {m}] /\ UNCHANGED dropped
              /\ \/ w = "HeaderWaiter" /\ Channels!Cleanup(pending \cup {m})
                 \/ w # "HeaderWaiter" /\ UNCHANGED pending
    <2>1. /\ waiting'[w] = waiting[w] \cup {m}
          /\ waiting' \in [Channels!Waiters -> SUBSET Channels!Suspended]
          /\ \A v \in Channels!Waiters : v # w => waiting'[v] = waiting[v]
      BY <1>2, <1>4, <1>11
    <2>2. pending' \subseteq waiting'["HeaderWaiter"]
      <3>1. CASE w = "HeaderWaiter" /\ Channels!Cleanup(pending \cup {m})
        BY <1>2, <2>1, <3>1, CleanupLeaves
      <3>2. CASE w # "HeaderWaiter" /\ UNCHANGED pending
        BY <1>2, <2>1, <3>2 DEF Channels!Waiters
      <3> QED
        BY <1>11, <3>1, <3>2
    <2>3. ChannelTypes'
      BY <1>1, <1>7, <1>11, <2>1, <2>2 DEF ChannelsInv, ChannelTypes, Channels!TypeOK
    <2>4. InPool(w)' = InPool(w) \cup {m[1]} /\ Outside' = Outside
      <3>1. InPool(w)' = InPool(w) \cup {m[1]}
        BY <2>1 DEF InPool
      <3> QED
        BY <1>1, <1>11, <3>1 DEF Outside
    <2>5. OncePerPlace(w)'
      <3>1. m[1] \notin InPool(w)
        BY <1>2, <1>8 DEF Apart
      <3>2. \A x \in waiting[w] : x[1] # m[1]
        BY <3>1 DEF InPool
      <3>3. \A x, y \in waiting'[w] : x[1] = y[1] => x = y
        BY <1>2, <2>1, <3>2 DEF OncePerPlace
      <3> QED
        BY <1>1, <1>2, <1>4, <1>7, <3>3 DEF OncePerPlace
    <2>6. Apart(w)' /\ Owned(w)'
      BY <1>2, <1>8, <1>9, <2>4 DEF Apart, Owned
    <2>7. {} \in SUBSET (InChannel(w) \cup InPool(w)) /\ dropped' = dropped \cup {} /\ AtCore' \subseteq AtCore
      BY <1>9, <1>11
    <2> QED
      BY <1>1, <1>7, <2>1, <2>3, <2>5, <2>6, <2>7, WaiterMoves
  <1> QED
    BY <1>1, <1>10, <1>11

\* What is waited for leaves the pool of a waiter.
LEMMA PoolShrinks ==
  ASSUME ChannelsInv, NEW w \in Channels!Waiters, NEW s \in waiting[w],
         waiting' = [waiting EXCEPT ![w] = @ \ {s}]
  PROVE  /\ waiting'[w] = waiting[w] \ {s} /\ s[1] \in InPool(w) /\ s[1] \in Channels!Items
         /\ waiting' \in [Channels!Waiters -> SUBSET Channels!Suspended]
         /\ \A v \in Channels!Waiters : v # w => waiting'[v] = waiting[v]
         /\ InPool(w)' = InPool(w) \ {s[1]}
  <1>1. waiting \in [Channels!Waiters -> SUBSET Channels!Suspended] /\ OncePerPlace(w)
    BY DEF ChannelsInv, ChannelTypes
  <1>2. /\ waiting'[w] = waiting[w] \ {s}
        /\ waiting' \in [Channels!Waiters -> SUBSET Channels!Suspended]
        /\ \A v \in Channels!Waiters : v # w => waiting'[v] = waiting[v]
    BY <1>1
  <1>3. InPool(w)' = InPool(w) \ {s[1]} /\ s[1] \in InPool(w)
    BY <1>1, <1>2 DEF InPool, OncePerPlace
  <1>4. s[1] \in Channels!Items
    BY <1>1, KeyTypes
  <1> QED
    BY <1>2, <1>3, <1>4

LEMMA WaiterCompleteStep ==
  ASSUME Channels!LoopbackAssumption, ChannelsInv, NEW w \in Channels!Waiters,
         NEW s \in Channels!Suspended, Channels!WaiterComplete(w, s)
  PROVE  ChannelsInv'
  <1>1. /\ sending[w] = NoItem /\ s \in waiting[w]
        /\ waiting' = [waiting EXCEPT ![w] = @ \ {s}] /\ sending' = [sending EXCEPT ![w] = s[1]]
        /\ pending' = IF w = "HeaderWaiter" THEN {t \in pending : ~ Channels!Same(s, t)} ELSE pending
        /\ UNCHANGED <<rx_primaries, stored, gc_round, processed, dropped, core, tx_sync, rx_loopback>>
    BY DEF Channels!WaiterComplete, Channels!world
  <1>2. /\ sending \in [Channels!Waiters -> Channels!Items \cup {NoItem}]
        /\ pending \subseteq waiting["HeaderWaiter"]
        /\ OncePerPlace(w) /\ Apart(w) /\ Owned(w)
    BY DEF ChannelsInv, ChannelTypes, Channels!TypeOK
  <1>3. s[1] \in Channels!Items /\ s[1] # NoItem
    BY KeyTypes DEF Channels!LoopbackAssumption
  <1>4. /\ waiting'[w] = waiting[w] \ {s} /\ s[1] \in InPool(w)
        /\ waiting' \in [Channels!Waiters -> SUBSET Channels!Suspended]
        /\ \A v \in Channels!Waiters : v # w => waiting'[v] = waiting[v]
        /\ InPool(w)' = InPool(w) \ {s[1]}
    BY <1>1, PoolShrinks
  <1>5. /\ sending'[w] = s[1] /\ sending' \in [Channels!Waiters -> Channels!Items \cup {NoItem}]
        /\ \A v \in Channels!Waiters : v # w => sending'[v] = sending[v]
    BY <1>1, <1>2, <1>3
  <1>6. pending' \subseteq waiting'["HeaderWaiter"]
    <2>1. CASE w = "HeaderWaiter"
      BY <1>1, <1>2, <1>4, <2>1 DEF Channels!Same
    <2>2. CASE w # "HeaderWaiter"
      BY <1>1, <1>2, <1>4, <2>2 DEF Channels!Waiters
    <2> QED
      BY <2>1, <2>2
  <1>7. ChannelTypes'
    BY <1>1, <1>4, <1>5, <1>6 DEF ChannelsInv, ChannelTypes, Channels!TypeOK
  <1>8. /\ InChannel(w)' = InChannel(w) /\ InHand(w)' = {s[1]} /\ InLoopback(w)' = InLoopback(w)
        /\ Outside' = Outside /\ AtCore' = AtCore
    <2>1. InHand(w)' = {s[1]}
      BY <1>3, <1>5 DEF InHand
    <2> QED
      BY <1>1, <2>1 DEF InChannel, InLoopback, Outside, AtCore
  <1>9. OncePerPlace(w)'
    BY <1>1, <1>2, <1>4 DEF OncePerPlace
  <1>10. Apart(w)' /\ Owned(w)'
    BY <1>2, <1>4, <1>8 DEF Apart, Owned
  <1>11. {} \in SUBSET (InChannel(w) \cup InPool(w)) /\ dropped' = dropped \cup {} /\ AtCore' \subseteq AtCore
    BY <1>1, <1>8
  <1>12. \A v \in Channels!Waiters : v # w =>
             /\ tx_sync'[v] = tx_sync[v] /\ waiting'[v] = waiting[v]
             /\ sending'[v] = sending[v] /\ rx_loopback'[v] = rx_loopback[v]
    BY <1>1, <1>4, <1>5
  <1>13. UNCHANGED <<rx_primaries, processed>>
    BY <1>1
  <1> QED
    BY <1>7, <1>9, <1>10, <1>11, <1>12, <1>13, WaiterMoves

LEMMA WaiterCancelledStep ==
  ASSUME Channels!LoopbackAssumption, ChannelsInv, NEW s \in Channels!Suspended,
         Channels!WaiterCancelled(s)
  PROVE  ChannelsInv'
  <1>0. PICK w \in Channels!Waiters : w = "HeaderWaiter"
    BY DEF Channels!Waiters
  <1>1. /\ s \in waiting[w] /\ s \notin pending
        /\ waiting' = [waiting EXCEPT ![w] = @ \ {s}] /\ dropped' = dropped \cup {s[1]}
        /\ Channels!Cleanup(pending)
        /\ UNCHANGED <<rx_primaries, stored, gc_round, processed, core, tx_sync, sending, rx_loopback>>
    BY <1>0 DEF Channels!WaiterCancelled, Channels!world
  <1>2. pending \subseteq waiting[w] /\ OncePerPlace(w) /\ Apart(w) /\ Owned(w)
    BY <1>0 DEF ChannelsInv, ChannelTypes, Channels!TypeOK
  <1>3. /\ waiting'[w] = waiting[w] \ {s} /\ s[1] \in InPool(w) /\ s[1] \in Channels!Items
        /\ waiting' \in [Channels!Waiters -> SUBSET Channels!Suspended]
        /\ \A v \in Channels!Waiters : v # w => waiting'[v] = waiting[v]
        /\ InPool(w)' = InPool(w) \ {s[1]}
    BY <1>1, PoolShrinks
  <1>4. pending' \subseteq waiting'["HeaderWaiter"]
    BY <1>0, <1>1, <1>2, <1>3, CleanupLeaves
  <1>5. ChannelTypes'
    BY <1>1, <1>3, <1>4 DEF ChannelsInv, ChannelTypes, Channels!TypeOK
  <1>6. /\ InChannel(w)' = InChannel(w) /\ InHand(w)' = InHand(w) /\ InLoopback(w)' = InLoopback(w)
        /\ Outside' = Outside \cup {s[1]} /\ AtCore' = AtCore
    BY <1>1 DEF InChannel, InHand, InLoopback, Outside, AtCore
  <1>7. OncePerPlace(w)'
    BY <1>1, <1>2, <1>3 DEF OncePerPlace
  <1>8. Apart(w)' /\ Owned(w)'
    BY <1>2, <1>3, <1>6 DEF Apart, Owned
  <1>9. {s[1]} \in SUBSET (InChannel(w) \cup InPool(w)) /\ AtCore' \subseteq AtCore
    BY <1>3, <1>6
  <1> QED
    BY <1>1, <1>3, <1>5, <1>7, <1>8, <1>9, WaiterMoves

LEMMA WaiterSendStep ==
  ASSUME Channels!LoopbackAssumption, ChannelsInv, NEW w \in Channels!Waiters, Channels!WaiterSend(w)
  PROVE  ChannelsInv'
  <1> DEFINE s == rx_loopback[w]
             i == sending[w]
             t == Append(s, i)
  <1>1. /\ i # NoItem /\ Len(s) < ChannelCapacity
        /\ rx_loopback' = [rx_loopback EXCEPT ![w] = t] /\ sending' = [sending EXCEPT ![w] = NoItem]
        /\ Channels!Cleanup(pending) \/ UNCHANGED pending
        /\ UNCHANGED <<rx_primaries, stored, gc_round, processed, dropped, core, tx_sync, waiting>>
    BY DEF Channels!WaiterSend, Channels!world
  <1>2. /\ rx_loopback \in [Channels!Waiters -> Seq(Channels!Items)]
        /\ sending \in [Channels!Waiters -> Channels!Items \cup {NoItem}]
        /\ s \in Seq(Channels!Items) /\ OncePerPlace(w) /\ Apart(w) /\ Owned(w)
    BY DEF ChannelsInv, ChannelTypes
  <1>3. i \in Channels!Items /\ Itself[i] = i
    BY <1>1, <1>2, KeyTypes
  <1>4. i \in InHand(w) /\ InHand(w) = {i}
    BY <1>1 DEF InHand
  <1>5. i \notin InChannel(w) \cup InPool(w) \cup InLoopback(w) \cup AtCore \cup Outside
    BY <1>2, <1>4 DEF Apart
  <1> HIDE DEF s, i
  <1>6. /\ KeysOf(Itself, t) = KeysOf(Itself, s) \cup {i}
        /\ AllDifferent(Itself, s) /\ i \notin KeysOf(Itself, s) => AllDifferent(Itself, t)
    <2>1. /\ KeysOf(Itself, t) = KeysOf(Itself, s) \cup {Itself[i]}
          /\ AllDifferent(Itself, s) /\ Itself[i] \notin KeysOf(Itself, s) => AllDifferent(Itself, t)
      BY <1>2, <1>3, KeyTypes, DifferentAppend
    <2> QED
      BY <1>3, <2>1
  <1>7. t \in Seq(Channels!Items) /\ Len(t) <= ChannelCapacity
    BY <1>1, <1>2, <1>3 DEF Channels!LoopbackAssumption
  <1> HIDE DEF t
  <1>8. /\ rx_loopback'[w] = t /\ rx_loopback' \in [Channels!Waiters -> Seq(Channels!Items)]
        /\ sending'[w] = NoItem /\ sending' \in [Channels!Waiters -> Channels!Items \cup {NoItem}]
        /\ \A v \in Channels!Waiters :
             v # w => rx_loopback'[v] = rx_loopback[v] /\ sending'[v] = sending[v]
    BY <1>1, <1>2, <1>7
  <1>9. ChannelTypes'
    <2>1. \A v \in Channels!Waiters : Len(rx_loopback'[v]) <= ChannelCapacity
      BY <1>7, <1>8 DEF ChannelsInv, ChannelTypes, Channels!TypeOK
    <2>2. pending' \subseteq waiting'["HeaderWaiter"]
      BY <1>1, CleanupLeaves DEF ChannelsInv, ChannelTypes, Channels!TypeOK
    <2> QED
      BY <1>1, <1>8, <2>1, <2>2 DEF ChannelsInv, ChannelTypes, Channels!TypeOK
  <1>10. /\ InChannel(w)' = InChannel(w) /\ InPool(w)' = InPool(w)
         /\ InHand(w)' = {} /\ InLoopback(w)' = InLoopback(w) \cup {i} /\ Outside' = Outside
         /\ AtCore' = AtCore
    BY <1>1, <1>6, <1>8 DEF InChannel, InPool, InHand, InLoopback, Outside, AtCore, s
  <1>11. OncePerPlace(w)'
    BY <1>1, <1>2, <1>5, <1>6, <1>8 DEF OncePerPlace, InLoopback, s
  <1>12. Apart(w)'
    BY <1>2, <1>5, <1>10 DEF Apart
  <1>13. Owned(w)'
    BY <1>2, <1>4, <1>10 DEF Owned
  <1>14. {} \in SUBSET (InChannel(w) \cup InPool(w)) /\ dropped' = dropped \cup {}
    BY <1>1
  <1> QED
    BY <1>1, <1>8, <1>9, <1>10, <1>11, <1>12, <1>13, <1>14, WaiterMoves

\* The messages in the way of a wait cycle are counted: two full channels, and one
\* in each hand.
LEMMA CycleIsLarge ==
  ASSUME Channels!LoopbackAssumption, ChannelsInv, NEW w \in Channels!Waiters, Channels!WaitCycle(w)
  PROVE  Cardinality(Channels!UnderWay(w)) >= 2 * ChannelCapacity + 2
  <1> DEFINE n == ChannelCapacity
             A == InChannel(w)
             B == InLoopback(w)
             c == core[1]
             d == sending[w]
             U == Channels!UnderWay(w)
  <1>1. /\ core # NoItem /\ Channels!WaiterOf(c) = w /\ Len(tx_sync[w]) = n
        /\ d # NoItem /\ Len(rx_loopback[w]) = n /\ n \in Nat
    BY DEF Channels!WaitCycle, Channels!CoreAwaits, Channels!WaiterAwaits,
           Channels!LoopbackAssumption
  <1>2. OncePerPlace(w) /\ Apart(w) /\ Owned(w)
    BY DEF ChannelsInv
  <1>3. IsFiniteSet(A) /\ Cardinality(A) = n
    <2>1. tx_sync[w] \in Seq(Channels!Suspended) /\ AllDifferent(ItemOf, tx_sync[w])
      BY <1>2 DEF ChannelsInv, ChannelTypes, OncePerPlace
    <2> DEFINE s == tx_sync[w]
    <2>2. s \in Seq(Channels!Suspended) /\ AllDifferent(ItemOf, s)
      BY <2>1
    <2> HIDE DEF s
    <2>3. IsFiniteSet(KeysOf(ItemOf, s)) /\ Cardinality(KeysOf(ItemOf, s)) = Len(s)
      BY <2>2, KeyTypes, DifferentCount
    <2> QED
      BY <1>1, <2>3 DEF InChannel, s
  <1>4. IsFiniteSet(B) /\ Cardinality(B) = n
    <2>1. rx_loopback[w] \in Seq(Channels!Items) /\ AllDifferent(Itself, rx_loopback[w])
      BY <1>2 DEF ChannelsInv, ChannelTypes, OncePerPlace
    <2> DEFINE s == rx_loopback[w]
    <2>2. s \in Seq(Channels!Items) /\ AllDifferent(Itself, s)
      BY <2>1
    <2> HIDE DEF s
    <2>3. IsFiniteSet(KeysOf(Itself, s)) /\ Cardinality(KeysOf(Itself, s)) = Len(s)
      BY <2>2, KeyTypes, DifferentCount
    <2> QED
      BY <1>1, <2>3 DEF InLoopback, s
  <1>5. c \in Channels!Items /\ AtCore = {c} /\ InHand(w) = {d} /\ d \in Channels!Items
    <2>1. core \in Channels!Suspended
      BY <1>1 DEF ChannelsInv, ChannelTypes, Channels!TypeOK
    <2>2. d \in Channels!Items
      BY <1>1 DEF ChannelsInv, ChannelTypes
    <2> QED
      BY <1>1, <2>1, <2>2, KeyTypes DEF AtCore, InHand
  <1>6. /\ A \cap B = {} /\ c \notin A \cup B /\ d \notin (A \cup B) \cup {c}
        /\ ((A \cup B) \cup {c}) \cup {d} \subseteq U
    <2>1. /\ A \cap B = {} /\ c \notin A \cup B /\ d \notin (A \cup B) \cup {c}
      BY <1>2, <1>5 DEF Apart
    <2>2. \A i \in ((A \cup B) \cup {c}) \cup {d} : i \in Channels!Items /\ Channels!WaiterOf(i) = w
      BY <1>1, <1>2, <1>5 DEF Owned
    <2>3. \A i \in ((A \cup B) \cup {c}) \cup {d} : i \notin Outside
      BY <1>2, <1>5 DEF Apart, ChannelsInv
    <2> QED
      BY <2>1, <2>2, <2>3 DEF Channels!UnderWay, Outside
  <1>7. IsFiniteSet(U)
    <2>1. U \in SUBSET (Channels!Items \ Outside)
      BY DEF Channels!UnderWay, Outside
    <2> QED
      BY <2>1, FS_Subset DEF ChannelsInv
  <1> HIDE DEF n, A, B, c, d, U
  <1>8. IsFiniteSet(A \cup B) /\ Cardinality(A \cup B) = n + n
    <2>1. /\ IsFiniteSet(A \cup B)
          /\ Cardinality(A \cup B) = Cardinality(A) + Cardinality(B) - Cardinality(A \cap B)
      BY <1>3, <1>4, FS_Union
    <2>2. Cardinality(A \cap B) = 0
      BY <1>6, FS_EmptySet
    <2> QED
      BY <1>1, <1>3, <1>4, <2>1, <2>2
  <1> DEFINE V == A \cup B
             W == V \cup {c}
             X == W \cup {d}
  <1>9. IsFiniteSet(W) /\ Cardinality(W) = (n + n) + 1
    <2> HIDE DEF V
    <2>1. IsFiniteSet(V) /\ Cardinality(V) = n + n /\ c \notin V
      BY <1>6, <1>8 DEF V
    <2> QED
      BY <2>1, FS_AddElement
  <1> HIDE DEF W
  <1>10. d \notin W /\ X \subseteq U
    BY <1>6 DEF W
  <1>11. IsFiniteSet(X) /\ Cardinality(X) = ((n + n) + 1) + 1
    BY <1>9, <1>10, FS_AddElement
  <1> HIDE DEF X
  <1>12. Cardinality(X) <= Cardinality(U) /\ Cardinality(U) \in Nat
    BY <1>7, <1>10, FS_Subset, FS_CardinalityType
  <1>13. Cardinality(U) >= 2 * n + 2
    BY <1>1, <1>11, <1>12
  <1> QED
    BY <1>13 DEF U, n

\* The Core and a waiter wait for each other only when more messages for it are under
\* way than two channels hold, whatever the capacity (CHANNEL_CAPACITY of
\* primary/src/primary.rs) and however many copies a header or certificate has.
THEOREM WaitCyclesAreLarge ==
  ASSUME Channels!LoopbackAssumption
  PROVE  Channels!Spec => [](Channels!TypeOK /\ Channels!NoEarlyWaitCycle)
  <1>1. Channels!Init => ChannelsInv
    BY ChannelsInit
  <1>2. ChannelsInv /\ [Channels!Next]_(Channels!vars) => ChannelsInv'
    <2> SUFFICES ASSUME ChannelsInv, [Channels!Next]_(Channels!vars) PROVE ChannelsInv'
      OBVIOUS
    <2>1. CASE Channels!CoreStep
      BY <2>1, ReceiveItemStep, ReceiveLoopbackStep, SuspendStep DEF Channels!CoreStep
    <2>2. ASSUME UNCHANGED <<rx_primaries, processed, dropped, core, tx_sync, waiting, sending,
                             rx_loopback>>,
                 stored' \in [Channels!Ids -> SUBSET {"parents", "payload"}],
                 gc_round' \in 0 .. GcBound, pending' \subseteq pending
          PROVE  ChannelsInv'
      <3>1. ChannelTypes'
        BY <2>2 DEF ChannelsInv, ChannelTypes, Channels!TypeOK
      <3>2. ASSUME NEW w \in Channels!Waiters PROVE OncePerPlace(w)' /\ Apart(w)' /\ Owned(w)'
        <4>1. OncePerPlace(w) /\ Apart(w) /\ Owned(w)
          BY DEF ChannelsInv
        <4> QED
          BY <2>2, <4>1 DEF OncePerPlace, Apart, Owned, InChannel, InPool, InHand, InLoopback,
             AtCore, Outside
      <3> QED
        BY <2>2, <3>1, <3>2 DEF ChannelsInv, AtCore, Outside
    <2>3. /\ stored \in [Channels!Ids -> SUBSET {"parents", "payload"}]
          /\ gc_round \in 0 .. GcBound /\ GcBound \in Nat
      BY DEF ChannelsInv, ChannelTypes, Channels!TypeOK, Channels!LoopbackAssumption
    <2>4. ASSUME Channels!WaiterTimer PROVE ChannelsInv'
      BY <2>2, <2>3, <2>4, CleanupLeaves DEF Channels!WaiterTimer, Channels!world
    <2>5. ASSUME NEW w \in Channels!Waiters, Channels!WaiterStep(w) PROVE ChannelsInv'
      BY <2>4, <2>5, WaiterReceiveStep, WaiterSendStep, WaiterCompleteStep, WaiterCancelledStep
         DEF Channels!WaiterStep
    <2>6. ASSUME NEW i \in Channels!Items, NEW part \in Channels!Parts(i), Channels!Write(i, part)
          PROVE  ChannelsInv'
      <3>1. part \in {"parents", "payload"}
        BY DEF Channels!Parts
      <3> QED
        BY <2>2, <2>3, <2>6, <3>1 DEF Channels!Write, Channels!waiters
    <2>7. ASSUME Channels!Collect PROVE ChannelsInv'
      BY <2>2, <2>3, <2>7 DEF Channels!Collect, Channels!waiters
    <2>8. CASE UNCHANGED Channels!vars
      BY <2>2, <2>3, <2>8 DEF Channels!vars, Channels!world, Channels!waiters
    <2> QED
      BY <2>1, <2>5, <2>6, <2>7, <2>8 DEF Channels!Next, Channels!Writes
  <1>3. ChannelsInv => Channels!TypeOK /\ Channels!NoEarlyWaitCycle
    <2> SUFFICES ASSUME ChannelsInv PROVE Channels!TypeOK /\ Channels!NoEarlyWaitCycle
      OBVIOUS
    <2>1. Channels!TypeOK
      BY DEF ChannelsInv, ChannelTypes
    <2>2. ASSUME NEW S PROVE Channels!Cardinality(S) = Cardinality(S)
      BY DEF Channels!Cardinality, Cardinality
    <2>3. Channels!NoEarlyWaitCycle
      BY <2>2, CycleIsLarge DEF Channels!NoEarlyWaitCycle
    <2> QED
      BY <2>1, <2>3
  <1> QED
    BY <1>1, <1>2, <1>3, PTL DEF Channels!Spec

-----------------------------------------------------------------------------
(* Store: the database and its channel.                                    *)

Database == INSTANCE Store

\* The writes to a key in a channel, what its i-th command finds under the key when
\* the database holds d, and what becomes of a call that waits from then on.
WritesIn(q, k) == {i \in DOMAIN q : q[i].kind = "Write" /\ q[i].key = k}

Found(q, d, k, i) ==
    LET W == {j \in WritesIn(q, k) : j < i}
    IN  IF W = {} THEN d ELSE q[Max(W)].value

NextIn(q, k, i) ==
    LET W == {j \in WritesIn(q, k) : j > i}
    IN  IF W = {} THEN <<"waits", k>> ELSE <<"fixed", q[Min(W)].value>>

\* The same as relations, in which the last write before i and the first one after
\* it need not be named.
IsFound(q, d, k, i, v) ==
    \/ v = d /\ \A j \in WritesIn(q, k) : j >= i
    \/ \E j \in WritesIn(q, k) :
         j < i /\ v = q[j].value /\ \A l \in WritesIn(q, k) : l < i => l <= j

IsNext(q, k, i, a) ==
    \/ a = <<"waits", k>> /\ \A j \in WritesIn(q, k) : j <= i
    \/ \E j \in WritesIn(q, k) :
         j > i /\ a = <<"fixed", q[j].value>> /\ \A l \in WritesIn(q, k) : l > i => j <= l

LEMMA FoundIsFound ==
  ASSUME NEW S, NEW q \in Seq(S), NEW k, NEW d, NEW i \in Nat
  PROVE  \A v : IsFound(q, d, k, i, v) <=> v = Found(q, d, k, i)
  <1> DEFINE W == {j \in WritesIn(q, k) : j < i}
  <1>1. Len(q) \in Nat /\ \A j \in WritesIn(q, k) : j \in Nat /\ j <= Len(q)
    BY DEF WritesIn
  <1>2. CASE W = {}
    BY <1>1, <1>2 DEF Found, IsFound
  <1>3. CASE W # {}
    <2>1. W \in SUBSET (0 .. Len(q))
      BY <1>1
    <2>2. PICK x \in W : \A y \in W : y <= x
      BY <1>1, <1>3, <2>1, GreatestNumber
    <2>3. Max(W) \in W /\ \A y \in W : Max(W) >= y
      BY <2>1, <2>2 DEF Max
    <2>4. Found(q, d, k, i) = q[Max(W)].value
      BY <1>3 DEF Found
    <2> DEFINE m == Max(W)
    <2> HIDE DEF m
    <2>5. m \in WritesIn(q, k) /\ m < i /\ \A l \in WritesIn(q, k) : l < i => l <= m
      BY <1>1, <2>3 DEF m
    <2>6. ASSUME NEW j \in WritesIn(q, k), j < i, \A l \in WritesIn(q, k) : l < i => l <= j
          PROVE  j = m
      <3>1. j <= m /\ m <= j /\ j \in Nat /\ m \in Nat
        BY <1>1, <2>5, <2>6
      <3> QED
        BY <3>1
    <2>7. ~ \A j \in WritesIn(q, k) : j >= i
      BY <1>1, <2>5
    <2> QED
      BY <2>4, <2>5, <2>6, <2>7 DEF IsFound, m
  <1> QED
    BY <1>2, <1>3

LEMMA NextIsNext ==
  ASSUME NEW S, NEW q \in Seq(S), NEW k, NEW i \in Nat
  PROVE  \A a : IsNext(q, k, i, a) <=> a = NextIn(q, k, i)
  <1> DEFINE W == {j \in WritesIn(q, k) : j > i}
  <1>1. \A j \in WritesIn(q, k) : j \in Nat
    BY DEF WritesIn
  <1>2. CASE W = {}
    BY <1>1, <1>2 DEF NextIn, IsNext
  <1>3. CASE W # {}
    <2>1. W \in SUBSET Nat
      BY <1>1
    <2>2. PICK x \in W : \A y \in W : x <= y
      BY <1>3, <2>1, LeastNumber
    <2>3. Min(W) \in W /\ \A y \in W : Min(W) <= y
      BY <2>1, <2>2 DEF Min
    <2>4. NextIn(q, k, i) = <<"fixed", q[Min(W)].value>>
      BY <1>3 DEF NextIn
    <2> DEFINE m == Min(W)
    <2> HIDE DEF m
    <2>5. m \in WritesIn(q, k) /\ m > i /\ \A l \in WritesIn(q, k) : l > i => m <= l
      BY <1>1, <2>3 DEF m
    <2>6. ASSUME NEW j \in WritesIn(q, k), j > i, \A l \in WritesIn(q, k) : l > i => j <= l
          PROVE  j = m
      <3>1. j <= m /\ m <= j /\ j \in Nat /\ m \in Nat
        BY <1>1, <2>5, <2>6
      <3> QED
        BY <3>1
    <2>7. ~ \A j \in WritesIn(q, k) : j <= i
      BY <1>1, <2>5
    <2> QED
      BY <2>4, <2>5, <2>6, <2>7 DEF IsNext, m
  <1> QED
    BY <1>2, <1>3

\* What a command adds to the end of the channel.
LEMMA WritesAppend ==
  ASSUME NEW S, NEW q \in Seq(S), NEW m \in S, NEW k
  PROVE  /\ WritesIn(Append(q, m), k)
              = WritesIn(q, k) \cup (IF m.kind = "Write" /\ m.key = k THEN {Len(q) + 1} ELSE {})
         /\ \A j \in WritesIn(q, k) : j \in 1 .. Len(q) /\ Append(q, m)[j] = q[j]
         /\ Append(q, m)[Len(q) + 1] = m
  <1> DEFINE t == Append(q, m)
  <1>1. /\ Len(q) \in Nat /\ DOMAIN q = 1 .. Len(q) /\ DOMAIN t = 1 .. Len(q) + 1
        /\ t[Len(q) + 1] = m /\ \A j \in 1 .. Len(q) : t[j] = q[j]
    OBVIOUS
  <1> HIDE DEF t
  <1>2. \A j : j \in 1 .. Len(q) + 1 <=> j \in 1 .. Len(q) \/ j = Len(q) + 1
    BY <1>1
  <1>3. Len(q) + 1 \notin 1 .. Len(q)
    BY <1>1
  <1>4. WritesIn(t, k) = WritesIn(q, k) \cup (IF m.kind = "Write" /\ m.key = k THEN {Len(q) + 1} ELSE {})
    BY <1>1, <1>2, <1>3 DEF WritesIn
  <1>5. WritesIn(q, k) \subseteq 1 .. Len(q)
    BY <1>1 DEF WritesIn
  <1> QED
    BY <1>1, <1>4, <1>5 DEF t

LEMMA FoundAppend ==
  ASSUME NEW S, NEW q \in Seq(S), NEW m \in S, NEW k, NEW d, NEW i \in 1 .. Len(q) + 1
  PROVE  Found(Append(q, m), d, k, i) = Found(q, d, k, i)
  <1> DEFINE t == Append(q, m)
             own == IF m.kind = "Write" /\ m.key = k THEN {Len(q) + 1} ELSE {}
  <1>0. t \in Seq(S) /\ Len(q) \in Nat
    OBVIOUS
  <1>1. /\ WritesIn(t, k) = WritesIn(q, k) \cup own
        /\ \A j \in WritesIn(q, k) : j \in 1 .. Len(q) /\ t[j] = q[j]
    BY WritesAppend
  <1> HIDE DEF t
  <1>2. i \in Nat /\ IsFound(q, d, k, i, Found(q, d, k, i))
    BY <1>0, FoundIsFound
  <1>3. \A j \in own : j >= i /\ ~ (j < i)
    BY <1>0
  <1>4. IsFound(t, d, k, i, Found(q, d, k, i))
    BY <1>1, <1>2, <1>3 DEF IsFound
  <1>5. Found(t, d, k, i) = Found(q, d, k, i)
    BY <1>0, <1>2, <1>4, FoundIsFound
  <1> QED
    BY <1>5 DEF t

LEMMA FoundLast ==
  ASSUME NEW S, NEW q \in Seq(S), NEW m \in S, NEW k, NEW d
  PROVE  Found(Append(q, m), d, k, Len(q) + 2)
           = IF m.kind = "Write" /\ m.key = k THEN m.value ELSE Found(q, d, k, Len(q) + 1)
  <1> DEFINE t == Append(q, m)
             own == IF m.kind = "Write" /\ m.key = k THEN {Len(q) + 1} ELSE {}
  <1>0. t \in Seq(S) /\ Len(q) \in Nat /\ Len(q) + 1 \in Nat /\ Len(q) + 2 \in Nat
    OBVIOUS
  <1>1. /\ WritesIn(t, k) = WritesIn(q, k) \cup own
        /\ \A j \in WritesIn(q, k) : j \in 1 .. Len(q) /\ t[j] = q[j]
        /\ t[Len(q) + 1] = m
    BY WritesAppend
  <1> HIDE DEF t
  <1>2. CASE m.kind = "Write" /\ m.key = k
    <2>1. /\ Len(q) + 1 \in WritesIn(t, k) /\ Len(q) + 1 < Len(q) + 2
          /\ \A l \in WritesIn(t, k) : l < Len(q) + 2 => l <= Len(q) + 1
      BY <1>0, <1>1, <1>2
    <2>2. IsFound(t, d, k, Len(q) + 2, m.value)
      BY <1>1, <2>1 DEF IsFound
    <2>3. Found(t, d, k, Len(q) + 2) = m.value
      BY <1>0, <2>2, FoundIsFound
    <2> QED
      BY <1>2, <2>3 DEF t
  <1>3. CASE ~ (m.kind = "Write" /\ m.key = k)
    <2>1. WritesIn(t, k) = WritesIn(q, k)
      BY <1>1, <1>3
    <2>2. IsFound(q, d, k, Len(q) + 1, Found(q, d, k, Len(q) + 1))
      BY <1>0, FoundIsFound
    <2>3. \A j \in WritesIn(q, k) : j < Len(q) + 1 /\ j < Len(q) + 2 /\ ~ (j >= Len(q) + 1)
      BY <1>0, <1>1
    <2>4. IsFound(t, d, k, Len(q) + 2, Found(q, d, k, Len(q) + 1))
      BY <1>1, <2>1, <2>2, <2>3 DEF IsFound
    <2>5. Found(t, d, k, Len(q) + 2) = Found(q, d, k, Len(q) + 1)
      BY <1>0, <2>4, FoundIsFound
    <2> QED
      BY <1>3, <2>5 DEF t
  <1> QED
    BY <1>2, <1>3

LEMMA NextAppend ==
  ASSUME NEW S, NEW q \in Seq(S), NEW m \in S, NEW k, NEW i \in 0 .. Len(q)
  PROVE  NextIn(Append(q, m), k, i)
           = IF m.kind = "Write" /\ m.key = k /\ NextIn(q, k, i) = <<"waits", k>>
             THEN <<"fixed", m.value>> ELSE NextIn(q, k, i)
  <1> DEFINE t == Append(q, m)
             own == IF m.kind = "Write" /\ m.key = k THEN {Len(q) + 1} ELSE {}
  <1>0. t \in Seq(S) /\ Len(q) \in Nat
    OBVIOUS
  <1>1. /\ WritesIn(t, k) = WritesIn(q, k) \cup own
        /\ \A j \in WritesIn(q, k) : j \in 1 .. Len(q) /\ t[j] = q[j]
        /\ t[Len(q) + 1] = m
    BY WritesAppend
  <1> HIDE DEF t
  <1>2. i \in Nat /\ IsNext(q, k, i, NextIn(q, k, i))
    BY <1>0, NextIsNext
  <1>3. ASSUME NextIn(q, k, i) = <<"waits", k>>, \A j \in WritesIn(q, k) : j <= i,
               m.kind = "Write", m.key = k
        PROVE  NextIn(t, k, i) = <<"fixed", m.value>>
    <2>1. /\ Len(q) + 1 \in WritesIn(t, k) /\ Len(q) + 1 > i
          /\ \A l \in WritesIn(t, k) : l > i => Len(q) + 1 <= l
      BY <1>0, <1>1, <1>3
    <2>2. IsNext(t, k, i, <<"fixed", m.value>>)
      BY <1>1, <2>1 DEF IsNext
    <2> QED
      BY <1>0, <1>2, <2>2, NextIsNext
  <1>4. ASSUME NextIn(q, k, i) = <<"waits", k>>, \A j \in WritesIn(q, k) : j <= i,
               ~ (m.kind = "Write" /\ m.key = k)
        PROVE  NextIn(t, k, i) = <<"waits", k>>
    <2>1. IsNext(t, k, i, <<"waits", k>>)
      BY <1>1, <1>4 DEF IsNext
    <2> QED
      BY <1>0, <1>2, <2>1, NextIsNext
  <1>5. ASSUME NEW j \in WritesIn(q, k), j > i, NextIn(q, k, i) = <<"fixed", q[j].value>>,
               \A l \in WritesIn(q, k) : l > i => j <= l
        PROVE  NextIn(t, k, i) = NextIn(q, k, i) /\ NextIn(q, k, i) # <<"waits", k>>
    <2>1. \A l \in WritesIn(t, k) : l > i => j <= l
      BY <1>0, <1>1, <1>5
    <2>2. IsNext(t, k, i, <<"fixed", q[j].value>>)
      BY <1>1, <1>5, <2>1 DEF IsNext
    <2> QED
      BY <1>0, <1>2, <1>5, <2>2, NextIsNext
  <1>6. NextIn(t, k, i) = IF m.kind = "Write" /\ m.key = k /\ NextIn(q, k, i) = <<"waits", k>>
                          THEN <<"fixed", m.value>> ELSE NextIn(q, k, i)
    BY <1>2, <1>3, <1>4, <1>5 DEF IsNext
  <1> QED
    BY <1>6 DEF t

LEMMA NextLast ==
  ASSUME NEW S, NEW q \in Seq(S), NEW m \in S, NEW k
  PROVE  NextIn(Append(q, m), k, Len(q) + 1) = <<"waits", k>>
  <1> DEFINE t == Append(q, m)
  <1>1. t \in Seq(S) /\ Len(t) = Len(q) + 1 /\ Len(q) + 1 \in Nat
    OBVIOUS
  <1> HIDE DEF t
  <1>2. \A j \in WritesIn(t, k) : j <= Len(q) + 1
    BY <1>1 DEF WritesIn
  <1>3. IsNext(t, k, Len(q) + 1, <<"waits", k>>)
    BY <1>2 DEF IsNext
  <1>4. NextIn(t, k, Len(q) + 1) = <<"waits", k>>
    BY <1>1, <1>3, NextIsNext
  <1> QED
    BY <1>4 DEF t

\* Serving the first command of q leaves t, in which the writes are one place
\* further ahead.
Ahead(q, t, k) ==
    /\ Head(q) = q[1]
    /\ \A j \in WritesIn(t, k) : j \in Nat \ {0} /\ j + 1 \in WritesIn(q, k) /\ t[j] = q[j + 1]
    /\ \A j \in WritesIn(q, k) : j \in Nat \ {0} /\ (j # 1 => j - 1 \in WritesIn(t, k))
    /\ 1 \in WritesIn(q, k) <=> Head(q).kind = "Write" /\ Head(q).key = k

LEMMA WritesTail ==
  ASSUME NEW S, NEW q \in Seq(S), q # <<>>, NEW k
  PROVE  Tail(q) \in Seq(S) /\ Ahead(q, Tail(q), k)
  <1> DEFINE t == Tail(q)
  <1>1. /\ Len(q) \in Nat \ {0} /\ DOMAIN q = 1 .. Len(q) /\ DOMAIN t = 1 .. Len(q) - 1
        /\ t \in Seq(S) /\ Len(t) + 1 = Len(q) /\ Head(q) = q[1]
        /\ \A j \in 1 .. Len(q) - 1 : t[j] = q[j + 1]
    OBVIOUS
  <1> HIDE DEF t
  <1>2. \A j \in 1 .. Len(q) - 1 : j \in Nat \ {0} /\ j + 1 \in 1 .. Len(q)
    BY <1>1
  <1>3. \A j \in 1 .. Len(q) : j \in Nat \ {0} /\ (j # 1 => j - 1 \in 1 .. Len(q) - 1 /\ (j - 1) + 1 = j)
    BY <1>1
  <1>4. 1 \in 1 .. Len(q)
    BY <1>1
  <1>5. \A j \in WritesIn(t, k) : j \in Nat \ {0} /\ j + 1 \in WritesIn(q, k) /\ t[j] = q[j + 1]
    BY <1>1, <1>2 DEF WritesIn
  <1>6. ASSUME NEW j \in WritesIn(q, k) PROVE j \in Nat \ {0} /\ (j # 1 => j - 1 \in WritesIn(t, k))
    <2>1. j \in 1 .. Len(q) /\ q[j].kind = "Write" /\ q[j].key = k
      BY <1>1 DEF WritesIn
    <2>2. ASSUME j # 1 PROVE j - 1 \in WritesIn(t, k)
      <3>1. j - 1 \in 1 .. Len(q) - 1 /\ t[j - 1] = q[j]
        BY <1>1, <1>3, <2>1, <2>2
      <3> QED
        BY <1>1, <2>1, <3>1 DEF WritesIn
    <2> QED
      BY <1>3, <2>1, <2>2
  <1>7. 1 \in WritesIn(q, k) <=> Head(q).kind = "Write" /\ Head(q).key = k
    BY <1>1, <1>4 DEF WritesIn
  <1> QED
    BY <1>1, <1>5, <1>6, <1>7 DEF t, Ahead

LEMMA FoundTail ==
  ASSUME NEW S, NEW q \in Seq(S), q # <<>>, NEW k, NEW d, NEW i \in Nat \ {0}
  PROVE  Found(Tail(q), IF Head(q).kind = "Write" /\ Head(q).key = k THEN Head(q).value ELSE d, k, i)
           = Found(q, d, k, i + 1)
  <1> DEFINE t == Tail(q)
             e == IF Head(q).kind = "Write" /\ Head(q).key = k THEN Head(q).value ELSE d
             v == Found(t, e, k, i)
  <1>1. t \in Seq(S) /\ Ahead(q, t, k)
    BY WritesTail
  <1> HIDE DEF t
  <1>2. IsFound(t, e, k, i, v)
    <2> HIDE DEF e
    <2> QED
      BY <1>1, FoundIsFound
  <1> HIDE DEF v
  <1>3. ASSUME v = e, \A j \in WritesIn(t, k) : j >= i
        PROVE  IsFound(q, d, k, i + 1, v)
    <2>1. \A j \in WritesIn(q, k) : j = 1 \/ j >= i + 1
      BY <1>1, <1>3 DEF Ahead
    <2>2. CASE 1 \in WritesIn(q, k)
      <3>1. v = q[1].value
        BY <1>1, <1>3, <2>2 DEF Ahead
      <3>2. 1 < i + 1 /\ \A l \in WritesIn(q, k) : l < i + 1 => l <= 1
        BY <1>1, <2>1 DEF Ahead
      <3> QED
        BY <2>2, <3>1, <3>2 DEF IsFound
    <2>3. CASE 1 \notin WritesIn(q, k)
      BY <1>1, <1>3, <2>1, <2>3 DEF IsFound, Ahead
    <2> QED
      BY <2>2, <2>3
  <1>4. ASSUME NEW j \in WritesIn(t, k), j < i, v = t[j].value,
               \A l \in WritesIn(t, k) : l < i => l <= j
        PROVE  IsFound(q, d, k, i + 1, v)
    <2>1. j + 1 \in WritesIn(q, k) /\ j + 1 < i + 1 /\ v = q[j + 1].value
      BY <1>1, <1>4 DEF Ahead
    <2>2. ASSUME NEW l \in WritesIn(q, k), l < i + 1 PROVE l <= j + 1
      <3>1. l \in Nat \ {0} /\ j \in Nat \ {0} /\ (l # 1 => l - 1 \in WritesIn(t, k))
        BY <1>1 DEF Ahead
      <3>2. CASE l = 1
        BY <3>1, <3>2
      <3>3. CASE l # 1
        <4>1. l - 1 < i
          BY <2>2, <3>1
        <4>2. l - 1 <= j
          BY <1>4, <3>1, <3>3, <4>1
        <4> QED
          BY <3>1, <4>2
      <3> QED
        BY <3>2, <3>3
    <2> QED
      BY <2>1, <2>2 DEF IsFound
  <1>5. IsFound(q, d, k, i + 1, v)
    BY <1>2, <1>3, <1>4 DEF IsFound
  <1>6. v = Found(q, d, k, i + 1)
    BY <1>5, FoundIsFound
  <1> QED
    BY <1>6 DEF v, t

LEMMA NextTail ==
  ASSUME NEW S, NEW q \in Seq(S), q # <<>>, NEW k, NEW i \in Nat
  PROVE  NextIn(Tail(q), k, i) = NextIn(q, k, i + 1)
  <1> DEFINE t == Tail(q)
             a == NextIn(t, k, i)
  <1>1. t \in Seq(S) /\ Ahead(q, t, k)
    BY WritesTail
  <1> HIDE DEF t
  <1>2. IsNext(t, k, i, a)
    BY <1>1, NextIsNext
  <1> HIDE DEF a
  <1>3. ASSUME a = <<"waits", k>>, \A j \in WritesIn(t, k) : j <= i
        PROVE  IsNext(q, k, i + 1, a)
    <2>1. \A j \in WritesIn(q, k) : j <= i + 1
      BY <1>1, <1>3 DEF Ahead
    <2> QED
      BY <1>3, <2>1 DEF IsNext
  <1>4. ASSUME NEW j \in WritesIn(t, k), j > i, a = <<"fixed", t[j].value>>,
               \A l \in WritesIn(t, k) : l > i => j <= l
        PROVE  IsNext(q, k, i + 1, a)
    <2>1. j + 1 \in WritesIn(q, k) /\ j + 1 > i + 1 /\ a = <<"fixed", q[j + 1].value>>
      BY <1>1, <1>4 DEF Ahead
    <2>2. ASSUME NEW l \in WritesIn(q, k), l > i + 1 PROVE j + 1 <= l
      <3>1. l \in Nat \ {0} /\ l # 1 /\ j \in Nat \ {0} /\ l - 1 \in WritesIn(t, k) /\ l - 1 > i
        BY <1>1, <2>2 DEF Ahead
      <3>2. j <= l - 1
        BY <1>4, <3>1
      <3> QED
        BY <3>1, <3>2
    <2> QED
      BY <2>1, <2>2 DEF IsNext
  <1>5. IsNext(q, k, i + 1, a)
    BY <1>2, <1>3, <1>4 DEF IsNext
  <1> QED
    BY <1>5, NextIsNext DEF a, t

\* The places of the commands of a call.
AskedIn(q, c) == {i \in DOMAIN q : q[i].kind # "Write" /\ q[i].sender = c}

\* A call is at one place at most, in the channel or among the obligations.
OnePlace(q, o, c) ==
    /\ \A i, j \in AskedIn(q, c) : i = j
    /\ \A k, l \in Keys : c \in o[k] /\ c \in o[l] => k = l
    /\ AskedIn(q, c) # {} => \A k \in Keys : c \notin o[k]

Somewhere(q, o, c) == AskedIn(q, c) # {} \/ \E k \in Keys : c \in o[k]

\* A call that waits is served some day, and one that does not is at no place
\* unless it was dropped.
Placed(q, o, s, c) ==
    /\ OnePlace(q, o, c)
    /\ s = "waiting" => Somewhere(q, o, c)
    /\ Somewhere(q, o, c) => s \in {"waiting", "dropped"}

DatabaseInv ==
    Database!TypeOK /\ \A c \in Calls : Placed(channel, obligations, call[c], c)

LEMMA AskedAppend ==
  ASSUME NEW S, NEW q \in Seq(S), NEW m \in S, NEW c
  PROVE  /\ AskedIn(Append(q, m), c)
              = AskedIn(q, c) \cup (IF m.kind # "Write" /\ m.sender = c THEN {Len(q) + 1} ELSE {})
         /\ \A j \in AskedIn(q, c) : j \in 1 .. Len(q) /\ Append(q, m)[j] = q[j]
         /\ Append(q, m)[Len(q) + 1] = m
  <1> DEFINE t == Append(q, m)
  <1>1. /\ Len(q) \in Nat /\ DOMAIN q = 1 .. Len(q) /\ DOMAIN t = 1 .. Len(q) + 1
        /\ t[Len(q) + 1] = m /\ \A j \in 1 .. Len(q) : t[j] = q[j]
    OBVIOUS
  <1> HIDE DEF t
  <1>2. \A j : j \in 1 .. Len(q) + 1 <=> j \in 1 .. Len(q) \/ j = Len(q) + 1
    BY <1>1
  <1>3. Len(q) + 1 \notin 1 .. Len(q)
    BY <1>1
  <1>4. AskedIn(t, c) = AskedIn(q, c) \cup (IF m.kind # "Write" /\ m.sender = c THEN {Len(q) + 1} ELSE {})
    BY <1>1, <1>2, <1>3 DEF AskedIn
  <1>5. AskedIn(q, c) \subseteq 1 .. Len(q)
    BY <1>1 DEF AskedIn
  <1> QED
    BY <1>1, <1>4, <1>5 DEF t

LEMMA AskedTail ==
  ASSUME NEW S, NEW q \in Seq(S), q # <<>>, NEW c
  PROVE  /\ \A j \in AskedIn(Tail(q), c) : /\ j \in Nat \ {0} /\ j + 1 \in AskedIn(q, c)
                                         /\ Tail(q)[j] = q[j + 1]
         /\ \A j \in AskedIn(q, c) : j \in Nat \ {0} /\ (j # 1 => j - 1 \in AskedIn(Tail(q), c))
         /\ 1 \in AskedIn(q, c) <=> Head(q).kind # "Write" /\ Head(q).sender = c
  <1> DEFINE t == Tail(q)
  <1>1. /\ Len(q) \in Nat \ {0} /\ DOMAIN q = 1 .. Len(q) /\ DOMAIN t = 1 .. Len(q) - 1
        /\ Head(q) = q[1] /\ \A j \in 1 .. Len(q) - 1 : t[j] = q[j + 1]
    OBVIOUS
  <1> HIDE DEF t
  <1>2. \A j \in 1 .. Len(q) - 1 : j \in Nat \ {0} /\ j + 1 \in 1 .. Len(q)
    BY <1>1
  <1>3. \A j \in 1 .. Len(q) : j \in Nat \ {0} /\ (j # 1 => j - 1 \in 1 .. Len(q) - 1 /\ (j - 1) + 1 = j)
    BY <1>1
  <1>4. 1 \in 1 .. Len(q)
    BY <1>1
  <1>5. \A j \in AskedIn(t, c) : j \in Nat \ {0} /\ j + 1 \in AskedIn(q, c) /\ t[j] = q[j + 1]
    BY <1>1, <1>2 DEF AskedIn
  <1>6. ASSUME NEW j \in AskedIn(q, c) PROVE j \in Nat \ {0} /\ (j # 1 => j - 1 \in AskedIn(t, c))
    <2>1. j \in 1 .. Len(q) /\ q[j].kind # "Write" /\ q[j].sender = c
      BY <1>1 DEF AskedIn
    <2>2. ASSUME j # 1 PROVE j - 1 \in AskedIn(t, c)
      <3>1. j - 1 \in 1 .. Len(q) - 1 /\ t[j - 1] = q[j]
        BY <1>1, <1>3, <2>1, <2>2
      <3> QED
        BY <1>1, <2>1, <3>1 DEF AskedIn
    <2> QED
      BY <1>3, <2>1, <2>2
  <1>7. 1 \in AskedIn(q, c) <=> Head(q).kind # "Write" /\ Head(q).sender = c
    BY <1>1, <1>4 DEF AskedIn
  <1> QED
    BY <1>1, <1>5, <1>6, <1>7 DEF t

\* What the callers do to the places.
LEMMA PlacedAppend ==
  ASSUME NEW S, NEW q \in Seq(S), NEW m \in S, NEW o, NEW c, NEW s, Placed(q, o, s, c)
  PROVE  /\ ~ (m.kind # "Write" /\ m.sender = c) => Placed(Append(q, m), o, s, c)
         /\ m.kind # "Write" /\ m.sender = c /\ s = "idle" => Placed(Append(q, m), o, "waiting", c)
  <1> DEFINE t == Append(q, m)
             own == IF m.kind # "Write" /\ m.sender = c THEN {Len(q) + 1} ELSE {}
  <1>1. AskedIn(t, c) = AskedIn(q, c) \cup own
    BY AskedAppend
  <1> HIDE DEF t
  <1>2. ASSUME ~ (m.kind # "Write" /\ m.sender = c) PROVE Placed(t, o, s, c)
    BY <1>1, <1>2 DEF Placed, OnePlace, Somewhere
  <1>3. ASSUME m.kind # "Write", m.sender = c, s = "idle" PROVE Placed(t, o, "waiting", c)
    <2>1. AskedIn(q, c) = {} /\ \A k \in Keys : c \notin o[k]
      BY <1>3 DEF Placed, Somewhere
    <2>2. AskedIn(t, c) = {Len(q) + 1}
      BY <1>1, <1>3, <2>1
    <2> QED
      BY <2>1, <2>2 DEF Placed, OnePlace, Somewhere
  <1> QED
    BY <1>2, <1>3 DEF t

\* What the task does to the places: that of the call it serves, and of another.
LEMMA PlacedTail ==
  ASSUME NEW S, NEW q \in Seq(S), q # <<>>, NEW o, NEW c, NEW s, Placed(q, o, s, c)
  PROVE  /\ Head(q).kind # "Write" /\ Head(q).sender = c
              => /\ s \in {"waiting", "dropped"}
                 /\ AskedIn(q, c) = {1} /\ AskedIn(Tail(q), c) = {}
                 /\ \A k \in Keys : c \notin o[k]
         /\ ~ (Head(q).kind # "Write" /\ Head(q).sender = c) => Placed(Tail(q), o, s, c)
  <1> DEFINE t == Tail(q)
  <1>1. /\ \A j \in AskedIn(t, c) : j \in Nat \ {0} /\ j + 1 \in AskedIn(q, c)
        /\ \A j \in AskedIn(q, c) : j \in Nat \ {0} /\ (j # 1 => j - 1 \in AskedIn(t, c))
        /\ 1 \in AskedIn(q, c) <=> Head(q).kind # "Write" /\ Head(q).sender = c
    BY AskedTail
  <1> HIDE DEF t
  <1>2. ASSUME Head(q).kind # "Write", Head(q).sender = c
        PROVE  /\ s \in {"waiting", "dropped"} /\ AskedIn(q, c) = {1} /\ AskedIn(t, c) = {}
               /\ \A k \in Keys : c \notin o[k]
    <2>1. 1 \in AskedIn(q, c) /\ AskedIn(q, c) = {1}
      BY <1>1, <1>2 DEF Placed, OnePlace
    <2>2. ASSUME NEW j \in AskedIn(t, c) PROVE FALSE
      <3>1. j \in Nat \ {0} /\ j + 1 = 1
        BY <1>1, <2>1
      <3> QED
        BY <3>1
    <2>3. AskedIn(t, c) = {}
      BY <2>2
    <2> QED
      BY <2>1, <2>3 DEF Placed, OnePlace, Somewhere
  <1>3. ASSUME ~ (Head(q).kind # "Write" /\ Head(q).sender = c) PROVE Placed(t, o, s, c)
    <2>1. AskedIn(t, c) # {} <=> AskedIn(q, c) # {}
      BY <1>1, <1>3
    <2>2. ASSUME NEW i \in AskedIn(t, c), NEW j \in AskedIn(t, c) PROVE i = j
      <3>1. i \in Nat /\ j \in Nat /\ i + 1 = j + 1
        BY <1>1 DEF Placed, OnePlace
      <3> QED
        BY <3>1
    <2> QED
      BY <2>1, <2>2 DEF Placed, OnePlace, Somewhere
  <1> QED
    BY <1>2, <1>3 DEF t

LEMMA CommandFacts ==
  /\ \A k \in Keys, v \in Values :
       /\ Database!WriteCommand(k, v) \in Database!Commands
       /\ Database!WriteCommand(k, v).kind = "Write"
       /\ Database!WriteCommand(k, v).key = k /\ Database!WriteCommand(k, v).value = v
  /\ \A k \in Keys, c \in Calls :
       /\ Database!ReadCommand(k, c) \in Database!Commands
       /\ Database!ReadCommand(k, c).kind = "Read"
       /\ Database!ReadCommand(k, c).key = k /\ Database!ReadCommand(k, c).sender = c
       /\ Database!NotifyReadCommand(k, c) \in Database!Commands
       /\ Database!NotifyReadCommand(k, c).kind = "NotifyRead"
       /\ Database!NotifyReadCommand(k, c).key = k /\ Database!NotifyReadCommand(k, c).sender = c
  /\ \A m \in Database!Commands :
       /\ m.kind \in {"Write", "Read", "NotifyRead"} /\ m.key \in Keys
       /\ m.kind = "Write" => m.value \in Values
       /\ m.kind # "Write" => m.sender \in Calls
  BY DEF Database!Commands, Database!WriteCommand, Database!ReadCommand, Database!NotifyReadCommand

LEMMA DatabaseInit ==
  ASSUME Database!StoreAssumption, Database!Init
  PROVE  DatabaseInv
  <1>1. Database!TypeOK
    BY DEF Database!StoreAssumption, Database!Init, Database!TypeOK
  <1>2. ASSUME NEW c \in Calls PROVE Placed(channel, obligations, call[c], c)
    <2>1. AskedIn(channel, c) = {} /\ call[c] = "idle" /\ \A k \in Keys : c \notin obligations[k]
      BY DEF Database!Init, AskedIn
    <2> QED
      BY <2>1 DEF Placed, OnePlace, Somewhere
  <1> QED
    BY <1>1, <1>2 DEF DatabaseInv

\* A step of the callers sends a command.
LEMMA SendStep ==
  ASSUME Database!StoreAssumption, DatabaseInv, NEW m \in Database!Commands,
         Len(channel) < ChannelSize, channel' = Append(channel, m),
         UNCHANGED <<db, obligations, failing>>, writes' \in 0 .. MaxWrites,
         \/ m.kind = "Write" /\ UNCHANGED call
         \/ m.kind # "Write" /\ call[m.sender] = "idle" /\ call' = [call EXCEPT ![m.sender] = "waiting"]
  PROVE  DatabaseInv'
  <1> USE DEF Database!StoreAssumption
  <1>1. channel \in Seq(Database!Commands) /\ channel' \in Seq(Database!Commands)
    BY DEF DatabaseInv, Database!TypeOK
  <1>2. Len(channel') <= ChannelSize
    BY <1>1
  <1>3. Database!TypeOK'
    <2>1. call' \in [Calls -> {"idle", "waiting", "dropped"} \cup Values \cup {None, Error}]
      BY DEF DatabaseInv, Database!TypeOK
    <2> QED
      BY <1>1, <1>2, <2>1 DEF DatabaseInv, Database!TypeOK
  <1>4. ASSUME NEW c \in Calls PROVE Placed(channel', obligations', call'[c], c)
    <2>1. Placed(channel, obligations, call[c], c)
      BY DEF DatabaseInv
    <2>2. CASE m.kind # "Write" /\ m.sender = c
      <3>1. call[c] = "idle" /\ call'[c] = "waiting"
        BY <2>2 DEF DatabaseInv, Database!TypeOK
      <3> QED
        BY <1>1, <2>1, <2>2, <3>1, PlacedAppend
    <2>3. CASE ~ (m.kind # "Write" /\ m.sender = c)
      <3>1. call'[c] = call[c]
        BY <2>3 DEF DatabaseInv, Database!TypeOK
      <3> QED
        BY <1>1, <2>1, <2>3, <3>1, PlacedAppend
    <2> QED
      BY <2>2, <2>3
  <1> QED
    BY <1>3, <1>4 DEF DatabaseInv

LEMMA DropStep ==
  ASSUME DatabaseInv, NEW c \in Calls, Database!Drop(c)
  PROVE  DatabaseInv'
  <1>1. Database!TypeOK'
    BY DEF DatabaseInv, Database!TypeOK, Database!Drop
  <1>2. ASSUME NEW x \in Calls PROVE Placed(channel', obligations', call'[x], x)
    <2>1. call'[x] = call[x] \/ (call'[x] = "dropped" /\ call[x] = "waiting")
      BY DEF DatabaseInv, Database!TypeOK, Database!Drop
    <2> QED
      BY <2>1 DEF DatabaseInv, Placed, OnePlace, Somewhere, Database!Drop
  <1> QED
    BY <1>1, <1>2 DEF DatabaseInv

\* A step of the task: it takes the first command m, and tells answer to the calls
\* of C that wait, which are then at no place.
LEMMA TaskStep ==
  ASSUME Database!StoreAssumption, DatabaseInv, channel # <<>>,
         channel' = Tail(channel), UNCHANGED <<writes, failing>>,
         db' \in [Keys -> Values \cup {None}], obligations' \in [Keys -> SUBSET Calls],
         NEW C \in SUBSET Calls, NEW answer \in Values \cup {None, Error},
         call' = Database!Told(C, answer),
         \A c \in Calls : /\ c \in C => /\ AskedIn(channel', c) = {}
                                        /\ \A k \in Keys : c \notin obligations'[k]
                          /\ c \notin C => Placed(channel', obligations', call[c], c)
  PROVE  DatabaseInv'
  <1>1. /\ channel' \in Seq(Database!Commands) /\ Len(channel') <= ChannelSize
        /\ call \in [Calls -> {"idle", "waiting", "dropped"} \cup Values \cup {None, Error}]
    BY DEF DatabaseInv, Database!TypeOK, Database!StoreAssumption
  <1>2. Database!TypeOK'
    <2>1. call' \in [Calls -> {"idle", "waiting", "dropped"} \cup Values \cup {None, Error}]
      BY <1>1 DEF Database!Told
    <2> QED
      BY <1>1, <2>1 DEF DatabaseInv, Database!TypeOK
  <1>3. ASSUME NEW c \in Calls PROVE Placed(channel', obligations', call'[c], c)
    <2>1. call'[c] = IF c \in C /\ call[c] = "waiting" THEN answer ELSE call[c]
      BY DEF Database!Told
    <2>2. answer # "waiting"
      BY DEF Database!StoreAssumption
    <2> QED
      BY <2>1, <2>2 DEF Placed, OnePlace, Somewhere
  <1> QED
    BY <1>2, <1>3 DEF DatabaseInv

LEMMA HeadCommand ==
  ASSUME DatabaseInv, channel # <<>>
  PROVE  channel \in Seq(Database!Commands) /\ Head(channel) \in Database!Commands
  BY DEF DatabaseInv, Database!TypeOK

LEMMA WriteStep ==
  ASSUME Database!StoreAssumption, DatabaseInv, Database!Write
  PROVE  DatabaseInv'
  <1> DEFINE m == Head(channel)
             C == obligations[m.key]
  <1>1. channel # <<>> /\ m.kind = "Write" /\ m.key \in Keys /\ m.value \in Values
    BY HeadCommand, CommandFacts DEF Database!Write, Database!Serves
  <1>2. channel \in Seq(Database!Commands)
    BY <1>1, HeadCommand
  <1>3. /\ channel' = Tail(channel) /\ UNCHANGED <<writes, failing>>
        /\ db' = [db EXCEPT ![m.key] = m.value] \/ db' = db
        /\ call' = Database!Told(C, m.value)
        /\ obligations' = [obligations EXCEPT ![m.key] = {}]
    BY DEF Database!Write
  <1> HIDE DEF m
  <1>4. /\ C \in SUBSET Calls /\ db' \in [Keys -> Values \cup {None}]
        /\ obligations' \in [Keys -> SUBSET Calls] /\ obligations \in [Keys -> SUBSET Calls]
    BY <1>1, <1>3 DEF DatabaseInv, Database!TypeOK
  <1>5. ASSUME NEW c \in Calls PROVE Placed(channel', obligations, call[c], c)
    BY <1>1, <1>2, <1>3, PlacedTail DEF DatabaseInv, m
  <1>6. ASSUME NEW c \in Calls, c \in C
        PROVE  AskedIn(channel', c) = {} /\ \A k \in Keys : c \notin obligations'[k]
    BY <1>1, <1>3, <1>4, <1>5, <1>6 DEF Placed, OnePlace
  <1>7. ASSUME NEW c \in Calls, c \notin C PROVE Placed(channel', obligations', call[c], c)
    <2>1. \A k \in Keys : c \in obligations'[k] <=> c \in obligations[k]
      BY <1>1, <1>3, <1>4, <1>7
    <2> QED
      BY <1>5, <2>1 DEF Placed, OnePlace, Somewhere
  <1> HIDE DEF C
  <1>8. m.value \in Values \cup {None, Error}
    BY <1>1
  <1> QED
    BY <1>1, <1>3, <1>4, <1>6, <1>7, <1>8, TaskStep

LEMMA ReadStep ==
  ASSUME Database!StoreAssumption, DatabaseInv, Database!Read \/ Database!NotifyRead
  PROVE  DatabaseInv'
  <1> DEFINE m == Head(channel)
             c == m.sender
             k == m.key
  <1>1. channel # <<>> /\ m.kind # "Write" /\ k \in Keys /\ c \in Calls
    BY HeadCommand, CommandFacts DEF Database!Read, Database!NotifyRead, Database!Serves
  <1>2. channel \in Seq(Database!Commands)
    BY <1>1, HeadCommand
  <1>3. /\ db \in [Keys -> Values \cup {None}] /\ obligations \in [Keys -> SUBSET Calls]
        /\ Database!Get(k) \subseteq Values \cup {None, Error}
        /\ call \in [Calls -> {"idle", "waiting", "dropped"} \cup Values \cup {None, Error}]
    BY <1>1 DEF DatabaseInv, Database!TypeOK, Database!Get
  <1>4. /\ channel' = Tail(channel) /\ UNCHANGED <<db, writes, failing>>
        /\ \/ \E answer \in Database!Get(k) : call' = Database!Told({c}, answer) /\ UNCHANGED obligations
           \/ obligations' = [obligations EXCEPT ![k] = @ \cup {c}] /\ UNCHANGED call
    BY DEF Database!Read, Database!NotifyRead
  <1>5. \A x \in Calls : /\ Placed(channel, obligations, call[x], x)
                         /\ x # c => Placed(channel', obligations, call[x], x)
    BY <1>1, <1>2, <1>4, PlacedTail DEF DatabaseInv
  <1>6. /\ AskedIn(channel', c) = {} /\ \A l \in Keys : c \notin obligations[l]
        /\ call[c] \in {"waiting", "dropped"}
    BY <1>1, <1>2, <1>4, <1>5, PlacedTail
  <1> HIDE DEF m, c, k
  <1>7. ASSUME NEW answer \in Database!Get(k), call' = Database!Told({c}, answer), UNCHANGED obligations
        PROVE  DatabaseInv'
    <2>1. /\ {c} \in SUBSET Calls /\ answer \in Values \cup {None, Error}
          /\ db' \in [Keys -> Values \cup {None}] /\ obligations' \in [Keys -> SUBSET Calls]
      BY <1>1, <1>3, <1>4, <1>7
    <2> QED
      BY <1>1, <1>4, <1>5, <1>6, <1>7, <2>1, TaskStep
  <1>8. ASSUME obligations' = [obligations EXCEPT ![k] = @ \cup {c}], UNCHANGED call
        PROVE  DatabaseInv'
    <2>1. /\ call' = Database!Told({}, None) /\ {} \in SUBSET Calls /\ None \in Values \cup {None, Error}
          /\ db' \in [Keys -> Values \cup {None}] /\ obligations' \in [Keys -> SUBSET Calls]
      BY <1>1, <1>3, <1>4, <1>8 DEF Database!Told
    <2>2. ASSUME NEW x \in Calls PROVE Placed(channel', obligations', call[x], x)
      <3>1. CASE x = c
        <4>1. \A l \in Keys : c \in obligations'[l] <=> l = k
          BY <1>1, <1>3, <1>6, <1>8
        <4> QED
          BY <1>1, <1>6, <3>1, <4>1 DEF Placed, OnePlace, Somewhere
      <3>2. CASE x # c
        <4>1. \A l \in Keys : x \in obligations'[l] <=> x \in obligations[l]
          BY <1>1, <1>3, <1>8, <3>2
        <4> QED
          BY <1>5, <3>2, <4>1 DEF Placed, OnePlace, Somewhere
      <3> QED
        BY <3>1, <3>2
    <2> QED
      BY <1>1, <1>4, <2>1, <2>2, TaskStep
  <1> QED
    BY <1>4, <1>7, <1>8

LEMMA DatabaseInvariant ==
  ASSUME Database!StoreAssumption
  PROVE  Database!Spec => []DatabaseInv
  <1>1. Database!Init => DatabaseInv
    BY DatabaseInit
  <1>2. DatabaseInv /\ [Database!Next]_(Database!vars) => DatabaseInv'
    <2> SUFFICES ASSUME DatabaseInv, [Database!Next]_(Database!vars) PROVE DatabaseInv'
      OBVIOUS
    <2>1. ASSUME NEW k \in Keys, NEW v \in Values, Database!write(k, v) PROVE DatabaseInv'
      <3> DEFINE m == Database!WriteCommand(k, v)
      <3>1. m \in Database!Commands /\ m.kind = "Write"
        BY CommandFacts
      <3>2. writes' \in 0 .. MaxWrites
        BY <2>1 DEF Database!write, Database!StoreAssumption, DatabaseInv, Database!TypeOK
      <3>3. /\ Len(channel) < ChannelSize /\ channel' = Append(channel, m)
            /\ UNCHANGED <<db, obligations, failing, call>>
        BY <2>1 DEF Database!write
      <3> HIDE DEF m
      <3> QED
        BY <3>1, <3>2, <3>3, SendStep
    <2>2. ASSUME NEW c \in Calls, NEW k \in Keys, Database!read(c, k) \/ Database!notify_read(c, k)
          PROVE  DatabaseInv'
      <3>1. PICK m \in {Database!ReadCommand(k, c), Database!NotifyReadCommand(k, c)} :
              channel' = Append(channel, m)
        BY <2>2 DEF Database!read, Database!notify_read
      <3>2. m \in Database!Commands /\ m.kind # "Write" /\ m.sender = c
        BY CommandFacts
      <3>3. /\ Len(channel) < ChannelSize /\ UNCHANGED <<db, obligations, failing, writes>>
            /\ call[c] = "idle" /\ call' = [call EXCEPT ![c] = "waiting"]
        BY <2>2 DEF Database!read, Database!notify_read
      <3>4. writes' \in 0 .. MaxWrites
        BY <3>3 DEF DatabaseInv, Database!TypeOK
      <3> QED
        BY <3>1, <3>2, <3>3, <3>4, SendStep
    <2>3. CASE UNCHANGED Database!vars
      BY <2>3 DEF Database!vars, DatabaseInv, Database!TypeOK, Placed, OnePlace, Somewhere
    <2> QED
      BY <2>1, <2>2, <2>3, DropStep, WriteStep, ReadStep DEF Database!Next
  <1> QED
    BY <1>1, <1>2, PTL DEF Database!Spec

\* What becomes of a call whose caller sees s, with the channel q, the database D
\* and the obligations o: Fate as an operator of the state, so that it can be
\* spoken of before and after a step.
AskedFate(q, D, i) ==
    LET k == q[i].key
    IN  IF q[i].kind = "NotifyRead" /\ Found(q, D[k], k, i) = None
        THEN NextIn(q, k, i)
        ELSE <<"fixed", Found(q, D[k], k, i)>>

FateOf(q, D, o, s, c) ==
    CASE s = "idle"    -> <<"idle">>
      [] s = "dropped" -> <<"dropped">>
      [] s = "waiting" -> IF \E k \in Keys : c \in o[k]
                          THEN NextIn(q, CHOOSE k \in Keys : c \in o[k], 0)
                          ELSE AskedFate(q, D, CHOOSE i \in DOMAIN q :
                                                 q[i].kind # "Write" /\ q[i].sender = c)
      [] OTHER         -> <<"fixed", s>>

LEMMA ContentIsFound ==
  ASSUME NEW k, NEW i
  PROVE  /\ Database!ContentAt(k, i) = Found(channel, db[k], k, i)
         /\ Database!ContentAt(k, i)' = Found(channel', db'[k], k, i)
         /\ Database!NextWrite(k, i) = NextIn(channel, k, i)
         /\ Database!NextWrite(k, i)' = NextIn(channel', k, i)
  BY DEF Database!ContentAt, Database!NextWrite, Database!WritesTo, Found, NextIn, WritesIn,
         Database!Max, Max, Database!Min, Min

LEMMA FateIsFateOf ==
  ASSUME NEW c
  PROVE  /\ Database!Fate(c) = FateOf(channel, db, obligations, call[c], c)
         /\ Database!Fate(c)' = FateOf(channel', db', obligations', call'[c], c)
  BY DEF Database!Fate, FateOf, AskedFate, Database!ContentAt, Database!NextWrite, Database!WritesTo,
         Found, NextIn, WritesIn, Database!Max, Max, Database!Min, Min

LEMMA FateCases ==
  ASSUME NEW q, NEW D, NEW o, NEW c
  PROVE  /\ FateOf(q, D, o, "idle", c) = <<"idle">>
         /\ FateOf(q, D, o, "dropped", c) = <<"dropped">>
         /\ \A k \in Keys : OnePlace(q, o, c) /\ c \in o[k]
              => FateOf(q, D, o, "waiting", c) = NextIn(q, k, 0)
         /\ \A i \in AskedIn(q, c) : OnePlace(q, o, c)
              => FateOf(q, D, o, "waiting", c) = AskedFate(q, D, i)
  <1>1. /\ FateOf(q, D, o, "idle", c) = <<"idle">>
        /\ FateOf(q, D, o, "dropped", c) = <<"dropped">>
    BY DEF FateOf
  <1>2. ASSUME NEW k \in Keys, OnePlace(q, o, c), c \in o[k]
        PROVE  FateOf(q, D, o, "waiting", c) = NextIn(q, k, 0)
    <2>1. (CHOOSE l \in Keys : c \in o[l]) = k
      BY <1>2 DEF OnePlace
    <2> QED
      BY <1>2, <2>1 DEF FateOf
  <1>3. ASSUME NEW i \in AskedIn(q, c), OnePlace(q, o, c)
        PROVE  FateOf(q, D, o, "waiting", c) = AskedFate(q, D, i)
    <2>1. (CHOOSE j \in DOMAIN q : q[j].kind # "Write" /\ q[j].sender = c) = i
      BY <1>3 DEF OnePlace, AskedIn
    <2>2. ~ \E k \in Keys : c \in o[k]
      BY <1>3 DEF OnePlace
    <2> QED
      BY <2>1, <2>2 DEF FateOf
  <1> QED
    BY <1>1, <1>2, <1>3

LEMMA FateTold ==
  ASSUME NEW q, NEW D, NEW o, NEW c, NEW s, s \notin {"idle", "waiting", "dropped"}
  PROVE  FateOf(q, D, o, s, c) = <<"fixed", s>>
  BY DEF FateOf

\* What a command m of somebody else does to the fate of a call.
LEMMA FateAppend ==
  ASSUME NEW S, NEW q \in Seq(S), NEW m \in S, NEW D, NEW o, NEW s, NEW c, Placed(q, o, s, c),
         ~ (m.kind # "Write" /\ m.sender = c)
  PROVE  FateOf(Append(q, m), D, o, s, c)
           = IF m.kind = "Write" /\ FateOf(q, D, o, s, c) = <<"waits", m.key>>
             THEN <<"fixed", m.value>>
             ELSE FateOf(q, D, o, s, c)
  <1> DEFINE t == Append(q, m)
  <1>1. t \in Seq(S) /\ Len(q) \in Nat
    OBVIOUS
  <1>2. Placed(t, o, s, c)
    BY PlacedAppend
  <1>3. /\ \A j \in AskedIn(q, c) : j \in 1 .. Len(q) /\ t[j] = q[j] /\ j \in AskedIn(t, c)
    BY AskedAppend
  <1>4. ASSUME NEW k, NEW d, NEW i \in 1 .. Len(q) + 1 PROVE Found(t, d, k, i) = Found(q, d, k, i)
    BY FoundAppend
  <1>5. ASSUME NEW k, NEW i \in 0 .. Len(q)
        PROVE  NextIn(t, k, i) = IF m.kind = "Write" /\ m.key = k /\ NextIn(q, k, i) = <<"waits", k>>
                                 THEN <<"fixed", m.value>> ELSE NextIn(q, k, i)
    BY NextAppend
  <1>6. \A k : \A i \in 0 .. Len(q) : NextIn(q, k, i)[1] = "waits" => NextIn(q, k, i) = <<"waits", k>>
    BY DEF NextIn
  <1> HIDE DEF t
  <1>7. CASE s \in {"idle", "dropped"}
    BY <1>7, FateCases
  <1>8. CASE s \notin {"idle", "waiting", "dropped"}
    <2>1. FateOf(q, D, o, s, c) = <<"fixed", s>> /\ FateOf(t, D, o, s, c) = <<"fixed", s>>
      BY <1>8, FateTold
    <2> QED
      BY <2>1 DEF t
  <1>9. ASSUME NEW k \in Keys, c \in o[k], s = "waiting"
        PROVE  FateOf(t, D, o, s, c) = IF m.kind = "Write" /\ FateOf(q, D, o, s, c) = <<"waits", m.key>>
                                       THEN <<"fixed", m.value>> ELSE FateOf(q, D, o, s, c)
    <2>1. FateOf(q, D, o, s, c) = NextIn(q, k, 0) /\ FateOf(t, D, o, s, c) = NextIn(t, k, 0)
      BY <1>2, <1>9, FateCases DEF Placed
    <2>2. 0 \in 0 .. Len(q)
      BY <1>1
    <2>3. NextIn(q, k, 0) = <<"waits", m.key>> => m.key = k
      BY <1>6, <2>2
    <2> QED
      BY <1>5, <2>1, <2>2, <2>3
  <1>10. ASSUME NEW i \in AskedIn(q, c), s = "waiting"
         PROVE  FateOf(t, D, o, s, c) = IF m.kind = "Write" /\ FateOf(q, D, o, s, c) = <<"waits", m.key>>
                                        THEN <<"fixed", m.value>> ELSE FateOf(q, D, o, s, c)
    <2>1. FateOf(q, D, o, s, c) = AskedFate(q, D, i) /\ FateOf(t, D, o, s, c) = AskedFate(t, D, i)
      BY <1>2, <1>3, <1>10, FateCases DEF Placed
    <2>2. i \in 0 .. Len(q) /\ i \in 1 .. Len(q) + 1 /\ t[i] = q[i]
      BY <1>1, <1>3
    <2> DEFINE k == q[i].key
               f == Found(q, D[k], k, i)
    <2>3. f = Found(t, D[k], k, i)
      BY <1>4, <2>2
    <2> HIDE DEF k, f
    <2>4. CASE q[i].kind = "NotifyRead" /\ f = None
      <3>1. AskedFate(q, D, i) = NextIn(q, k, i) /\ AskedFate(t, D, i) = NextIn(t, k, i)
        BY <2>2, <2>3, <2>4 DEF AskedFate, k, f
      <3>2. NextIn(q, k, i) = <<"waits", m.key>> => m.key = k
        BY <1>6, <2>2
      <3> QED
        BY <1>5, <2>1, <2>2, <3>1, <3>2
    <2>5. CASE ~ (q[i].kind = "NotifyRead" /\ f = None)
      <3>1. AskedFate(q, D, i) = <<"fixed", f>> /\ AskedFate(t, D, i) = <<"fixed", f>>
        BY <2>2, <2>3, <2>5 DEF AskedFate, k, f
      <3> QED
        BY <2>1, <3>1
    <2> QED
      BY <2>4, <2>5
  <1>11. s = "waiting" => AskedIn(q, c) # {} \/ \E k \in Keys : c \in o[k]
    BY DEF Placed, Somewhere
  <1> QED
    BY <1>7, <1>8, <1>9, <1>10, <1>11 DEF t

LEMMA NextOfHead ==
  ASSUME NEW S, NEW q \in Seq(S), q # <<>>, NEW k
  PROVE  NextIn(q, k, 0) = IF Head(q).kind = "Write" /\ Head(q).key = k
                           THEN <<"fixed", Head(q).value>> ELSE NextIn(q, k, 1)
  <1>1. Ahead(q, Tail(q), k)
    BY WritesTail
  <1>2. /\ Head(q) = q[1] /\ \A j \in WritesIn(q, k) : j \in Nat \ {0}
        /\ 1 \in WritesIn(q, k) <=> Head(q).kind = "Write" /\ Head(q).key = k
    BY <1>1 DEF Ahead
  <1>3. CASE 1 \in WritesIn(q, k)
    <2>1. 1 > 0 /\ \A l \in WritesIn(q, k) : l > 0 => 1 <= l
      BY <1>2
    <2>2. IsNext(q, k, 0, <<"fixed", Head(q).value>>)
      BY <1>2, <1>3, <2>1 DEF IsNext
    <2> QED
      BY <1>2, <1>3, <2>2, NextIsNext
  <1>4. CASE 1 \notin WritesIn(q, k)
    <2>1. {j \in WritesIn(q, k) : j > 0} = {j \in WritesIn(q, k) : j > 1}
      BY <1>2, <1>4
    <2>2. NextIn(q, k, 0) = NextIn(q, k, 1)
      BY <2>1 DEF NextIn
    <2> QED
      BY <1>2, <1>4, <2>2
  <1> QED
    BY <1>3, <1>4

LEMMA FoundFirst ==
  ASSUME NEW S, NEW q \in Seq(S), NEW k, NEW d
  PROVE  Found(q, d, k, 1) = d
  <1>1. \A j \in WritesIn(q, k) : j \in Nat \ {0}
    BY DEF WritesIn
  <1>2. IsFound(q, d, k, 1, d)
    BY <1>1 DEF IsFound
  <1> QED
    BY <1>2, FoundIsFound

\* Serving a command does not touch the fate of a call it is not about: E and p are
\* the database and the obligations after it.
LEMMA FateTail ==
  ASSUME NEW S, NEW q \in Seq(S), q # <<>>, \A m \in S : m.key \in Keys,
         NEW D, NEW E, NEW o, NEW p, NEW s, NEW c, Placed(q, o, s, c),
         ~ (Head(q).kind # "Write" /\ Head(q).sender = c),
         \A k \in Keys : /\ E[k] = IF Head(q).kind = "Write" /\ Head(q).key = k THEN Head(q).value ELSE D[k]
                         /\ c \in p[k] <=> c \in o[k]
                         /\ c \in o[k] => ~ (Head(q).kind = "Write" /\ Head(q).key = k)
  PROVE  FateOf(Tail(q), E, p, s, c) = FateOf(q, D, o, s, c)
  <1> DEFINE t == Tail(q)
  <1>1. Placed(t, o, s, c)
    BY PlacedTail
  <1>2. OnePlace(t, p, c) /\ OnePlace(q, o, c)
    BY <1>1 DEF Placed, OnePlace
  <1>3. /\ \A j \in AskedIn(t, c) : j \in Nat \ {0} /\ j + 1 \in AskedIn(q, c) /\ t[j] = q[j + 1]
        /\ \A j \in AskedIn(q, c) : j \in Nat \ {0} /\ (j # 1 => j - 1 \in AskedIn(t, c))
        /\ 1 \in AskedIn(q, c) <=> Head(q).kind # "Write" /\ Head(q).sender = c
    BY AskedTail
  <1>4. ASSUME NEW k \in Keys, NEW i \in Nat \ {0} PROVE Found(t, E[k], k, i) = Found(q, D[k], k, i + 1)
    BY FoundTail
  <1>5. ASSUME NEW k, NEW i \in Nat PROVE NextIn(t, k, i) = NextIn(q, k, i + 1)
    BY NextTail
  <1> HIDE DEF t
  <1>6. CASE s \in {"idle", "dropped"}
    BY <1>6, FateCases DEF t
  <1>7. CASE s \notin {"idle", "waiting", "dropped"}
    <2>1. FateOf(q, D, o, s, c) = <<"fixed", s>> /\ FateOf(t, E, p, s, c) = <<"fixed", s>>
      BY <1>7, FateTold
    <2> QED
      BY <2>1 DEF t
  <1>8. ASSUME NEW k \in Keys, c \in o[k], s = "waiting"
        PROVE  FateOf(t, E, p, s, c) = FateOf(q, D, o, s, c)
    <2>1. FateOf(q, D, o, s, c) = NextIn(q, k, 0) /\ FateOf(t, E, p, s, c) = NextIn(t, k, 0)
      BY <1>2, <1>8, FateCases
    <2>2. NextIn(t, k, 0) = NextIn(q, k, 1)
      BY <1>5
    <2>3. NextIn(q, k, 0) = NextIn(q, k, 1)
      BY <1>8, NextOfHead
    <2> QED
      BY <2>1, <2>2, <2>3
  <1>9. ASSUME NEW i \in AskedIn(q, c), s = "waiting"
        PROVE  FateOf(t, E, p, s, c) = FateOf(q, D, o, s, c)
    <2>1. i \in Nat \ {0} /\ i # 1 /\ i - 1 \in AskedIn(t, c)
      BY <1>3
    <2> DEFINE j == i - 1
               k == q[i].key
    <2>2. j \in Nat \ {0} /\ j + 1 = i /\ j \in AskedIn(t, c)
      BY <2>1
    <2> HIDE DEF j
    <2>3. t[j] = q[i]
      BY <1>3, <2>2
    <2>4. FateOf(q, D, o, s, c) = AskedFate(q, D, i) /\ FateOf(t, E, p, s, c) = AskedFate(t, E, j)
      BY <1>2, <1>9, <2>2, FateCases
    <2>5. k \in Keys
      <3>1. i \in 1 .. Len(q)
        BY DEF AskedIn
      <3> QED
        BY <3>1
    <2>6. Found(t, E[k], k, j) = Found(q, D[k], k, i) /\ NextIn(t, k, j) = NextIn(q, k, i)
      <3> HIDE DEF k
      <3> QED
        BY <1>4, <1>5, <2>2, <2>5
    <2> QED
      BY <2>3, <2>4, <2>6 DEF AskedFate
  <1>10. s = "waiting" => AskedIn(q, c) # {} \/ \E k \in Keys : c \in o[k]
    BY DEF Placed, Somewhere
  <1> QED
    BY <1>6, <1>7, <1>8, <1>9, <1>10 DEF t

\* The refinement mapping.
Contents == [k \in Keys |-> IF failing THEN None ELSE Database!ContentAt(k, Len(channel) + 1)]
Fates == [c \in Calls |-> IF failing THEN <<"idle">> ELSE Database!Fate(c)]
Seen == [c \in Calls |-> IF failing THEN "idle" ELSE call[c]]

LEMMA MappedValues ==
  ASSUME ~ failing, ~ failing'
  PROVE  /\ Contents = [k \in Keys |-> Found(channel, db[k], k, Len(channel) + 1)]
         /\ Contents' = [k \in Keys |-> Found(channel', db'[k], k, Len(channel') + 1)]
         /\ Fates = [c \in Calls |-> FateOf(channel, db, obligations, call[c], c)]
         /\ Fates' = [c \in Calls |-> FateOf(channel', db', obligations', call'[c], c)]
         /\ Seen = [c \in Calls |-> call[c]] /\ Seen' = [c \in Calls |-> call'[c]]
  BY ContentIsFound, FateIsFateOf DEF Contents, Fates, Seen

\* What sending m does to what the callers rely on.
LEMMA SendMaps ==
  ASSUME DatabaseInv, ~ failing, NEW m \in Database!Commands,
         channel' = Append(channel, m), UNCHANGED <<db, obligations, failing>>
  PROVE  /\ Contents' = IF m.kind = "Write" THEN [Contents EXCEPT ![m.key] = m.value] ELSE Contents
         /\ \A c \in Calls :
              ~ (m.kind # "Write" /\ m.sender = c) /\ call'[c] = call[c]
                => Fates'[c] = IF m.kind = "Write" /\ Fates[c] = <<"waits", m.key>>
                               THEN <<"fixed", m.value>> ELSE Fates[c]
  <1>1. channel \in Seq(Database!Commands) /\ Len(channel') + 1 = Len(channel) + 2
    BY DEF DatabaseInv, Database!TypeOK
  <1>2. ASSUME NEW k \in Keys
        PROVE  Contents'[k] = IF m.kind = "Write" /\ m.key = k THEN m.value ELSE Contents[k]
    BY <1>1, FoundLast, MappedValues
  <1>3. Contents' = IF m.kind = "Write" THEN [Contents EXCEPT ![m.key] = m.value] ELSE Contents
    <2> DEFINE A == Contents
               B == Contents'
    <2>1. A = [k \in Keys |-> A[k]] /\ B = [k \in Keys |-> B[k]]
      BY DEF Contents
    <2>2. \A k \in Keys : B[k] = IF m.kind = "Write" /\ m.key = k THEN m.value ELSE A[k]
      BY <1>2
    <2> HIDE DEF A, B
    <2>3. B = IF m.kind = "Write" THEN [A EXCEPT ![m.key] = m.value] ELSE A
      BY <2>1, <2>2
    <2> QED
      BY <2>3 DEF A, B
  <1>4. ASSUME NEW c \in Calls, ~ (m.kind # "Write" /\ m.sender = c), call'[c] = call[c]
        PROVE  Fates'[c] = IF m.kind = "Write" /\ Fates[c] = <<"waits", m.key>>
                           THEN <<"fixed", m.value>> ELSE Fates[c]
    <2>1. /\ Fates[c] = FateOf(channel, db, obligations, call[c], c)
          /\ Fates'[c] = FateOf(Append(channel, m), db, obligations, call[c], c)
      BY <1>4, MappedValues
    <2>2. Placed(channel, obligations, call[c], c)
      BY DEF DatabaseInv
    <2> DEFINE f == FateOf(channel, db, obligations, call[c], c)
    <2>3. FateOf(Append(channel, m), db, obligations, call[c], c)
            = IF m.kind = "Write" /\ f = <<"waits", m.key>> THEN <<"fixed", m.value>> ELSE f
      BY <1>1, <1>4, <2>2, FateAppend
    <2> HIDE DEF f
    <2> QED
      BY <2>1, <2>3 DEF f
  <1> QED
    BY <1>3, <1>4

LEMMA WriteMaps ==
  ASSUME DatabaseInv, ~ failing, NEW k \in Keys, NEW v \in Values, Database!write(k, v)
  PROVE  Database!Abstract!Write(k, v)
  <1> DEFINE m == Database!WriteCommand(k, v)
  <1>1. m \in Database!Commands /\ m.kind = "Write" /\ m.key = k /\ m.value = v
    BY CommandFacts
  <1>2. channel' = Append(channel, m) /\ UNCHANGED <<db, obligations, call, failing>>
    BY DEF Database!write
  <1> HIDE DEF m
  <1>3. /\ Contents' = [Contents EXCEPT ![k] = v]
        /\ \A c \in Calls : Fates'[c] = IF Fates[c] = <<"waits", k>> THEN <<"fixed", v>> ELSE Fates[c]
    BY <1>1, <1>2, SendMaps
  <1>4. Fates' = [c \in Calls |-> IF Fates[c] = <<"waits", k>> THEN <<"fixed", v>> ELSE Fates[c]]
    BY <1>3 DEF Fates
  <1>5. Seen' = Seen
    BY <1>2 DEF Seen
  <1> QED
    BY <1>3, <1>4, <1>5 DEF Database!Abstract!Write, Database!Abstract!Waits, Database!Abstract!Fixed,
       Contents, Fates, Seen

\* What read and notify_read have in common: the fate of the others is the same.
LEMMA AskMaps ==
  ASSUME DatabaseInv, ~ failing, NEW m \in Database!Commands, m.kind # "Write",
         channel' = Append(channel, m), UNCHANGED <<db, obligations, failing>>,
         call[m.sender] = "idle", call' = [call EXCEPT ![m.sender] = "waiting"]
  PROVE  /\ Contents' = Contents
         /\ Fates' = [Fates EXCEPT ![m.sender] =
                        IF m.kind = "NotifyRead" /\ Contents[m.key] = None
                        THEN <<"waits", m.key>> ELSE <<"fixed", Contents[m.key]>>]
         /\ Seen[m.sender] = "idle" /\ Seen' = [Seen EXCEPT ![m.sender] = "waiting"]
  <1> DEFINE c == m.sender
             k == m.key
             n == Len(channel) + 1
             f == IF m.kind = "NotifyRead" /\ Contents[k] = None
                  THEN <<"waits", k>> ELSE <<"fixed", Contents[k]>>
  <1>1. /\ channel \in Seq(Database!Commands) /\ channel' \in Seq(Database!Commands)
        /\ call \in [Calls -> {"idle", "waiting", "dropped"} \cup Values \cup {None, Error}]
    BY DEF DatabaseInv, Database!TypeOK
  <1>2. c \in Calls /\ k \in Keys
    BY CommandFacts
  <1>3. /\ Contents' = Contents
        /\ \A x \in Calls : x # c => Fates'[x] = Fates[x]
    BY <1>1, SendMaps
  <1>4. Fates'[c] = f
    <2>1. Fates'[c] = FateOf(channel', db', obligations', call'[c], c) /\ call'[c] = "waiting"
      BY <1>1, <1>2, MappedValues
    <2>2. Placed(channel', obligations', "waiting", c)
      <3>1. Placed(channel, obligations, "idle", c)
        BY <1>2 DEF DatabaseInv
      <3> QED
        BY <1>1, <3>1, PlacedAppend
    <2>3. n \in AskedIn(channel', c) /\ channel'[n] = m
      BY <1>1, AskedAppend
    <2>4. Fates'[c] = AskedFate(channel', db', n)
      BY <2>1, <2>2, <2>3, FateCases DEF Placed
    <2>5. n \in 1 .. Len(channel) + 1
      BY <1>1
    <2>6. Found(channel', db'[k], k, n) = Found(channel, db[k], k, n)
      BY <1>1, <2>5, FoundAppend
    <2>7. Found(channel', db'[k], k, n) = Contents[k]
      BY <1>2, <2>6, MappedValues
    <2>8. NextIn(channel', k, n) = <<"waits", k>>
      BY <1>1, NextLast
    <2> HIDE DEF n
    <2> QED
      BY <2>3, <2>4, <2>7, <2>8 DEF AskedFate
  <1>5. Fates' = [Fates EXCEPT ![c] = f]
    <2> HIDE DEF f
    <2> DEFINE A == Fates
               B == Fates'
    <2>1. A = [x \in Calls |-> A[x]] /\ B = [x \in Calls |-> B[x]]
      BY DEF Fates
    <2>2. B[c] = f /\ \A x \in Calls : x # c => B[x] = A[x]
      BY <1>3, <1>4
    <2> HIDE DEF A, B
    <2>3. B = [A EXCEPT ![c] = f]
      BY <1>2, <2>1, <2>2
    <2> QED
      BY <2>3 DEF A, B
  <1>6. Seen[c] = "idle" /\ Seen' = [Seen EXCEPT ![c] = "waiting"]
    BY <1>1, <1>2 DEF Seen
  <1> QED
    BY <1>3, <1>5, <1>6

LEMMA ReadMaps ==
  ASSUME DatabaseInv, ~ failing, NEW c \in Calls, NEW k \in Keys
  PROVE  /\ Database!read(c, k) => Database!Abstract!Read(c, k)
         /\ Database!notify_read(c, k) => Database!Abstract!NotifyRead(c, k)
  <1>1. ASSUME Database!read(c, k) PROVE Database!Abstract!Read(c, k)
    <2> DEFINE m == Database!ReadCommand(k, c)
    <2>1. m \in Database!Commands /\ m.kind = "Read" /\ m.key = k /\ m.sender = c
      BY CommandFacts
    <2>2. /\ channel' = Append(channel, m) /\ UNCHANGED <<db, obligations, failing>>
          /\ call[c] = "idle" /\ call' = [call EXCEPT ![c] = "waiting"]
      BY <1>1 DEF Database!read
    <2> HIDE DEF m
    <2>3. /\ Contents' = Contents /\ Fates' = [Fates EXCEPT ![c] = <<"fixed", Contents[k]>>]
          /\ Seen[c] = "idle" /\ Seen' = [Seen EXCEPT ![c] = "waiting"]
      BY <2>1, <2>2, AskMaps
    <2> QED
      BY <2>3 DEF Database!Abstract!Read, Database!Abstract!Fixed, Contents, Fates, Seen
  <1>2. ASSUME Database!notify_read(c, k) PROVE Database!Abstract!NotifyRead(c, k)
    <2> DEFINE m == Database!NotifyReadCommand(k, c)
    <2>1. m \in Database!Commands /\ m.kind = "NotifyRead" /\ m.key = k /\ m.sender = c
      BY CommandFacts
    <2>2. /\ channel' = Append(channel, m) /\ UNCHANGED <<db, obligations, failing>>
          /\ call[c] = "idle" /\ call' = [call EXCEPT ![c] = "waiting"]
      BY <1>2 DEF Database!notify_read
    <2> HIDE DEF m
    <2>3. /\ Contents' = Contents
          /\ Fates' = [Fates EXCEPT ![c] = IF Contents[k] = None THEN <<"waits", k>>
                                           ELSE <<"fixed", Contents[k]>>]
          /\ Seen[c] = "idle" /\ Seen' = [Seen EXCEPT ![c] = "waiting"]
      BY <2>1, <2>2, AskMaps
    <2> QED
      BY <2>3 DEF Database!Abstract!NotifyRead, Database!Abstract!Waits, Database!Abstract!Fixed,
         Contents, Fates, Seen
  <1> QED
    BY <1>1, <1>2

\* What the task does: it serves the first command, and the calls of C that wait,
\* whose fate is the answer v, are told.
LEMMA TellMaps ==
  ASSUME Database!StoreAssumption, DatabaseInv, ~ failing, UNCHANGED failing,
         channel # <<>>, channel' = Tail(channel),
         \A k \in Keys : db'[k] = IF Head(channel).kind = "Write" /\ Head(channel).key = k
                                  THEN Head(channel).value ELSE db[k],
         NEW C \in SUBSET Calls, NEW v \in Values \cup {None}, call' = Database!Told(C, v),
         \A c \in C : /\ call[c] \in {"waiting", "dropped"}
                      /\ call[c] = "waiting" => Fates[c] = <<"fixed", v>>,
         \A c \in Calls \ C : Fates'[c] = Fates[c]
  PROVE  \E X \in SUBSET Calls : Database!Abstract!Answer(X)
  <1>0. PICK X \in SUBSET Calls : X = {c \in C : call[c] = "waiting"}
    OBVIOUS
  <1>1. channel \in Seq(Database!Commands) /\ Len(channel) \in Nat \ {0} /\ Len(channel') + 1 = Len(channel)
    BY DEF DatabaseInv, Database!TypeOK
  <1>2. Contents' = Contents
    <2>1. ASSUME NEW k \in Keys
          PROVE  Found(channel', db'[k], k, Len(channel)) = Found(channel, db[k], k, Len(channel) + 1)
      BY <1>1, FoundTail
    <2> QED
      BY <1>1, <2>1, MappedValues
  <1>3. \A c \in Calls : call'[c] = IF c \in X THEN v ELSE call[c]
    BY <1>0 DEF Database!Told
  <1>4. v \notin {"idle", "waiting", "dropped"}
    BY DEF Database!StoreAssumption
  <1>5. ASSUME NEW c \in C PROVE Fates'[c] = Fates[c]
    <2>1. /\ Fates[c] = FateOf(channel, db, obligations, call[c], c)
          /\ Fates'[c] = FateOf(channel', db', obligations', call'[c], c)
      BY MappedValues
    <2>2. CASE call[c] = "waiting"
      <3>1. Fates'[c] = <<"fixed", v>>
        BY <1>0, <1>3, <1>4, <2>1, <2>2, FateTold
      <3> QED
        BY <2>2, <3>1
    <2>3. CASE call[c] = "dropped"
      <3>1. call'[c] = "dropped"
        BY <1>0, <1>3, <2>3
      <3> QED
        BY <2>1, <2>3, <3>1, FateCases
    <2> QED
      BY <2>2, <2>3
  <1>6. Fates' = Fates
    <2>1. \A c \in Calls : Fates'[c] = Fates[c]
      BY <1>5
    <2> QED
      BY <2>1 DEF Fates
  <1>7. Seen' = [c \in Calls |-> IF c \in X THEN v ELSE Seen[c]]
    BY <1>3 DEF Seen
  <1>8. \A c \in X : Seen[c] = "waiting" /\ Fates[c] = <<"fixed", v>>
    BY <1>0 DEF Seen
  <1>9. Database!Abstract!Answer(X)
    BY <1>2, <1>6, <1>7, <1>8 DEF Database!Abstract!Answer, Database!Abstract!Fixed, Contents, Fates, Seen
  <1> QED
    BY <1>9

\* The calls a served command is not about keep their fate.
LEMMA KeepsFate ==
  ASSUME DatabaseInv, ~ failing, UNCHANGED failing, channel # <<>>, channel' = Tail(channel),
         \A k \in Keys : db'[k] = IF Head(channel).kind = "Write" /\ Head(channel).key = k
                                  THEN Head(channel).value ELSE db[k],
         NEW c \in Calls, call'[c] = call[c],
         ~ (Head(channel).kind # "Write" /\ Head(channel).sender = c),
         \A k \in Keys : /\ c \in obligations'[k] <=> c \in obligations[k]
                         /\ c \in obligations[k]
                              => ~ (Head(channel).kind = "Write" /\ Head(channel).key = k)
  PROVE  Fates'[c] = Fates[c]
  <1>1. channel \in Seq(Database!Commands) /\ \A m \in Database!Commands : m.key \in Keys
    BY CommandFacts DEF DatabaseInv, Database!TypeOK
  <1>2. /\ Fates[c] = FateOf(channel, db, obligations, call[c], c)
        /\ Fates'[c] = FateOf(Tail(channel), db', obligations', call[c], c)
    BY MappedValues
  <1>3. Placed(channel, obligations, call[c], c)
    BY DEF DatabaseInv
  <1>4. FateOf(Tail(channel), db', obligations', call[c], c) = FateOf(channel, db, obligations, call[c], c)
    <2> DEFINE E == db'
               p == obligations'
    <2> HIDE DEF E, p
    <2>1. \A k \in Keys :
             /\ E[k] = IF Head(channel).kind = "Write" /\ Head(channel).key = k
                       THEN Head(channel).value ELSE db[k]
             /\ c \in p[k] <=> c \in obligations[k]
             /\ c \in obligations[k] => ~ (Head(channel).kind = "Write" /\ Head(channel).key = k)
      BY DEF E, p
    <2>2. FateOf(Tail(channel), E, p, call[c], c) = FateOf(channel, db, obligations, call[c], c)
      BY <1>1, <1>3, <2>1, FateTail
    <2> QED
      BY <2>2 DEF E, p
  <1> QED
    BY <1>2, <1>4

LEMMA ServeWriteMaps ==
  ASSUME Database!StoreAssumption, DatabaseInv, ~ failing, Database!Write
  PROVE  \E X \in SUBSET Calls : Database!Abstract!Answer(X)
  <1> DEFINE m == Head(channel)
             C == obligations[m.key]
  <1>1. channel # <<>> /\ m.kind = "Write" /\ m.key \in Keys /\ m.value \in Values
    BY HeadCommand, CommandFacts DEF Database!Write, Database!Serves
  <1>2. /\ channel \in Seq(Database!Commands)
        /\ obligations \in [Keys -> SUBSET Calls] /\ db \in [Keys -> Values \cup {None}]
    BY DEF DatabaseInv, Database!TypeOK
  <1>3. /\ channel' = Tail(channel) /\ UNCHANGED failing
        /\ db' = [db EXCEPT ![m.key] = m.value]
        /\ call' = Database!Told(C, m.value)
        /\ obligations' = [obligations EXCEPT ![m.key] = {}]
    BY DEF Database!Write
  <1>4. \A k \in Keys : db'[k] = IF m.kind = "Write" /\ m.key = k THEN m.value ELSE db[k]
    BY <1>1, <1>2, <1>3
  <1>5. ASSUME NEW c \in C
        PROVE  call[c] \in {"waiting", "dropped"} /\ (call[c] = "waiting" => Fates[c] = <<"fixed", m.value>>)
    <2>1. c \in Calls /\ Placed(channel, obligations, call[c], c)
      BY <1>1, <1>2 DEF DatabaseInv
    <2>2. call[c] \in {"waiting", "dropped"}
      BY <1>1, <2>1 DEF Placed, Somewhere
    <2>3. ASSUME call[c] = "waiting" PROVE Fates[c] = <<"fixed", m.value>>
      <3>1. Fates[c] = FateOf(channel, db, obligations, "waiting", c)
        BY <1>3, <2>1, <2>3, MappedValues
      <3>2. FateOf(channel, db, obligations, "waiting", c) = NextIn(channel, m.key, 0)
        BY <1>1, <2>1, FateCases DEF Placed
      <3>3. NextIn(channel, m.key, 0) = <<"fixed", m.value>>
        BY <1>1, <1>2, NextOfHead
      <3> QED
        BY <3>1, <3>2, <3>3
    <2> QED
      BY <2>2, <2>3
  <1>6. ASSUME NEW c \in Calls \ C PROVE Fates'[c] = Fates[c]
    <2>1. call'[c] = call[c]
      BY <1>3 DEF Database!Told
    <2>2. \A k \in Keys : /\ c \in obligations'[k] <=> c \in obligations[k]
                          /\ c \in obligations[k] => ~ (m.kind = "Write" /\ m.key = k)
      BY <1>1, <1>2, <1>3
    <2> QED
      BY <1>1, <1>3, <1>4, <2>1, <2>2, KeepsFate
  <1>7. C \in SUBSET Calls /\ m.value \in Values \cup {None}
    BY <1>1, <1>2
  <1> HIDE DEF C
  <1> QED
    BY <1>1, <1>3, <1>4, <1>5, <1>6, <1>7, TellMaps

LEMMA ServeReadMaps ==
  ASSUME Database!StoreAssumption, DatabaseInv, ~ failing, Database!Read \/ Database!NotifyRead
  PROVE  \E X \in SUBSET Calls : Database!Abstract!Answer(X)
  <1> DEFINE m == Head(channel)
             c == m.sender
             k == m.key
  <1>1. channel # <<>> /\ m.kind # "Write" /\ k \in Keys /\ c \in Calls
    BY HeadCommand, CommandFacts DEF Database!Read, Database!NotifyRead, Database!Serves
  <1>2. /\ channel \in Seq(Database!Commands) /\ channel[1] = m
        /\ obligations \in [Keys -> SUBSET Calls] /\ db \in [Keys -> Values \cup {None}]
        /\ call \in [Calls -> {"idle", "waiting", "dropped"} \cup Values \cup {None, Error}]
    BY <1>1 DEF DatabaseInv, Database!TypeOK
  <1>3. /\ channel' = Tail(channel) /\ UNCHANGED <<db, failing>>
        /\ \/ /\ ~ (m.kind = "NotifyRead" /\ db[k] = None)
              /\ call' = Database!Told({c}, db[k]) /\ UNCHANGED obligations
           \/ /\ m.kind = "NotifyRead" /\ db[k] = None
              /\ obligations' = [obligations EXCEPT ![k] = @ \cup {c}] /\ UNCHANGED call
    BY DEF Database!Read, Database!NotifyRead, Database!Get, Database!Serves
  <1>4. \A l \in Keys : db'[l] = IF m.kind = "Write" /\ m.key = l THEN m.value ELSE db[l]
    BY <1>1, <1>3
  <1>5. ASSUME NEW x \in Calls, x # c PROVE Fates'[x] = Fates[x]
    <2>1. call'[x] = call[x]
      BY <1>2, <1>3, <1>5 DEF Database!Told
    <2>2. \A l \in Keys : x \in obligations'[l] <=> x \in obligations[l]
      BY <1>1, <1>2, <1>3, <1>5
    <2> QED
      BY <1>1, <1>3, <1>4, <1>5, <2>1, <2>2, KeepsFate
  <1>6. /\ Placed(channel, obligations, call[c], c) /\ call[c] \in {"waiting", "dropped"}
        /\ 1 \in AskedIn(channel, c) /\ AskedIn(channel', c) = {}
        /\ \A l \in Keys : c \notin obligations[l]
    BY <1>1, <1>2, <1>3, PlacedTail DEF DatabaseInv
  <1>7. ASSUME call[c] = "waiting"
        PROVE  Fates[c] = IF m.kind = "NotifyRead" /\ db[k] = None
                          THEN NextIn(channel, k, 1) ELSE <<"fixed", db[k]>>
    <2>1. Fates[c] = FateOf(channel, db, obligations, "waiting", c)
      BY <1>1, <1>3, <1>7, MappedValues
    <2>2. FateOf(channel, db, obligations, "waiting", c) = AskedFate(channel, db, 1)
      BY <1>6, FateCases DEF Placed
    <2>3. Found(channel, db[k], k, 1) = db[k]
      BY <1>2, FoundFirst
    <2> QED
      BY <1>2, <2>1, <2>2, <2>3 DEF AskedFate
  <1>8. CASE ~ (m.kind = "NotifyRead" /\ db[k] = None)
    <2>1. call' = Database!Told({c}, db[k])
      BY <1>3, <1>8
    <2>2. {c} \in SUBSET Calls /\ db[k] \in Values \cup {None}
      BY <1>1, <1>2
    <2>3. call[c] = "waiting" => Fates[c] = <<"fixed", db[k]>>
      BY <1>7, <1>8
    <2> HIDE DEF c, k
    <2> QED
      BY <1>1, <1>3, <1>4, <1>5, <1>6, <2>1, <2>2, <2>3, TellMaps
  <1>9. CASE m.kind = "NotifyRead" /\ db[k] = None
    <2>1. obligations' = [obligations EXCEPT ![k] = @ \cup {c}] /\ UNCHANGED call
      BY <1>3, <1>9
    <2>2. Fates'[c] = Fates[c]
      <3>1. /\ Fates'[c] = FateOf(channel', db', obligations', call[c], c)
            /\ Fates[c] = FateOf(channel, db, obligations, call[c], c)
        <4>1. ASSUME NEW x \in Calls
              PROVE  /\ Fates'[x] = FateOf(channel', db', obligations', call'[x], x)
                     /\ Fates[x] = FateOf(channel, db, obligations, call[x], x)
          BY <1>3, MappedValues
        <4> HIDE DEF c
        <4> QED
          BY <1>1, <2>1, <4>1
      <3>2. CASE call[c] = "dropped"
        BY <3>1, <3>2, FateCases
      <3>3. CASE call[c] = "waiting"
        <4>1. \A l \in Keys : c \in obligations'[l] <=> l = k
          BY <1>1, <1>2, <1>6, <2>1
        <4>2. OnePlace(channel', obligations', c)
          BY <1>6, <4>1 DEF OnePlace
        <4>3. FateOf(channel', db', obligations', "waiting", c) = NextIn(channel', k, 0)
          BY <1>1, <4>1, <4>2, FateCases
        <4>4. NextIn(channel', k, 0) = NextIn(channel, k, 1)
          <5>1. NextIn(Tail(channel), k, 0) = NextIn(channel, k, 0 + 1)
            BY <1>1, <1>2, NextTail
          <5> QED
            BY <1>3, <5>1
        <4> QED
          BY <1>7, <1>9, <3>1, <3>3, <4>3, <4>4
      <3> QED
        BY <1>6, <3>2, <3>3
    <2>3. call' = Database!Told({}, None)
      BY <1>2, <2>1 DEF Database!Told
    <2>4. {} \in SUBSET Calls /\ None \in Values \cup {None}
      OBVIOUS
    <2>5. \A x \in Calls \ {} : Fates'[x] = Fates[x]
      BY <1>5, <2>2
    <2> QED
      BY <1>1, <1>3, <1>4, <2>3, <2>4, <2>5, TellMaps
  <1> QED
    BY <1>8, <1>9

LEMMA DropMaps ==
  ASSUME DatabaseInv, ~ failing, NEW c \in Calls, Database!Drop(c)
  PROVE  Database!Abstract!Drop(c)
  <1>1. /\ call[c] = "waiting" /\ call' = [call EXCEPT ![c] = "dropped"]
        /\ UNCHANGED <<channel, db, obligations, failing>>
    BY DEF Database!Drop
  <1>2. \A x \in Calls : call'[x] = IF x = c THEN "dropped" ELSE call[x]
    BY <1>1 DEF DatabaseInv, Database!TypeOK
  <1>3. Contents' = Contents
    BY <1>1, MappedValues
  <1>4. \A x \in Calls : Fates'[x] = IF x = c THEN <<"dropped">> ELSE Fates[x]
    BY <1>1, <1>2, MappedValues, FateCases
  <1>5. Fates' = [Fates EXCEPT ![c] = <<"dropped">>]
    BY <1>4 DEF Fates
  <1>6. Seen[c] = "waiting" /\ Seen' = [Seen EXCEPT ![c] = "dropped"]
    BY <1>1, <1>2 DEF Seen
  <1> QED
    BY <1>3, <1>5, <1>6 DEF Database!Abstract!Drop, Database!Abstract!Dropped, Contents, Fates, Seen

LEMMA StoreInitMaps ==
  ASSUME Database!Init
  PROVE  Database!Abstract!Init
  <1>1. \A k, i : Database!WritesTo(k) = {} /\ Database!ContentAt(k, i) = db[k]
    BY DEF Database!Init, Database!WritesTo, Database!ContentAt
  <1>2. \A c \in Calls : Database!Fate(c) = <<"idle">>
    BY DEF Database!Init, Database!Fate
  <1> QED
    BY <1>1, <1>2 DEF Database!Init, Database!Abstract!Init, Database!Abstract!Idle

\* Unless the database fails, no caller can tell the store and its channel from one
\* whose calls take effect at once (write, read and notify_read of
\* store/src/lib.rs), whatever the capacity of the channel and however many calls
\* are dropped; and its state has its type.
THEOREM StoreIsNotifyStore ==
  ASSUME Database!StoreAssumption
  PROVE  Database!Spec => []Database!TypeOK /\ Database!ImplementsNotifyStore
  <1>1. Database!Init => Database!Abstract!Init
    BY StoreInitMaps
  <1>2. DatabaseInv /\ [Database!Next]_(Database!vars)
          => [Database!Abstract!Next]_(Database!Abstract!vars)
    <2> SUFFICES ASSUME DatabaseInv, [Database!Next]_(Database!vars)
                 PROVE  Database!Abstract!Next \/ UNCHANGED Database!Abstract!vars
      OBVIOUS
    <2>1. CASE UNCHANGED Database!vars
      <3>1. ASSUME NEW k, NEW i PROVE Database!ContentAt(k, i)' = Database!ContentAt(k, i)
        BY <2>1, ContentIsFound DEF Database!vars
      <3>2. ASSUME NEW c PROVE Database!Fate(c)' = Database!Fate(c)
        BY <2>1, FateIsFateOf DEF Database!vars
      <3> QED
        BY <2>1, <3>1, <3>2 DEF Database!vars, Database!Abstract!vars
    <2>2. CASE Database!Next /\ failing
      <3>1. failing'
        BY <2>2 DEF Database!Next, Database!write, Database!read, Database!notify_read, Database!Drop,
           Database!Write, Database!Read, Database!NotifyRead
      <3> QED
        BY <2>2, <3>1 DEF Database!Abstract!vars
    <2>3. CASE Database!Next /\ ~ failing
      BY <2>3, WriteMaps, ReadMaps, DropMaps, ServeWriteMaps, ServeReadMaps
         DEF Database!Next, Database!Abstract!Next
    <2> QED
      BY <2>1, <2>2, <2>3
  <1>3. DatabaseInv => Database!TypeOK
    BY DEF DatabaseInv
  <1> QED
    BY <1>1, <1>2, <1>3, DatabaseInvariant, PTL
       DEF Database!Spec, Database!ImplementsNotifyStore, Database!Abstract!Spec

=============================================================================
