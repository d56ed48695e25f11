----------------------------- MODULE CoreProofs -----------------------------
(***************************************************************************)
(* Proofs about the Core, for every committee, every set of headers and    *)
(* every GC depth.  The inductive invariant is Inductive, below.           *)
(***************************************************************************)
EXTENDS CoreRestart, CommonProofs

-----------------------------------------------------------------------------
(* Type correctness.                                                       *)

AggregatorType == [weight : Nat, used : SUBSET Authorities]
PendingType == SUBSET ({"parents", "payload"} \X Headers)

(* What the clean-up keeps is part of what it is given, and gc_round is a
   natural number. *)
LEMMA GcRoundType ==
    ASSUME TypeOK, NEW n \in Correct
    PROVE  GcRound(n) \in Nat
BY CoreAssumption DEF TypeOK, GcRound

LEMMA SlotType ==
    ASSUME NEW h \in Headers
    PROVE  Slot(h) \in Nat \X Authorities
BY CoreAssumption DEF Slot

LEMMA VotedAfterType ==
    ASSUME TypeOK, NEW n \in Correct, NEW h \in Headers
    PROVE  VotedAfter(n, h) \in SUBSET (Nat \X Authorities)
BY SlotType DEF VotedAfter, TypeOK

-----------------------------------------------------------------------------
(* What process_header and process_certificate do to each variable.        *)

HeaderStored(n, h) ==
    \/ headers' = headers
    \/ headers' = [headers EXCEPT ![n] = @ \cup {h}]

HeaderSuspended(n, h, pending) ==
    \/ header_pending' = [header_pending EXCEPT ![n] = pending]
    \/ header_pending' = [header_pending EXCEPT ![n] = pending \cup {<<"parents", h>>}]
    \/ header_pending' = [header_pending EXCEPT ![n] = pending \cup {<<"payload", h>>}]

CoreDies(n) == alive' = alive \/ alive' = [alive EXCEPT ![n] = FALSE]

VoteCast(n, h) ==
    \/ votes' = votes
    \/ /\ votes' = votes \cup {<<h, n>>}
       /\ headers' = [headers EXCEPT ![n] = @ \cup {h}]
       /\ Votes(n, h)

OwnVoteCounted(n, h, aggregator) ==
    \/ votes_aggregator' = [votes_aggregator EXCEPT ![n] = aggregator]
    \/ /\ votes' = votes \cup {<<h, n>>}
       /\ author[h] = n
       /\ Votes(n, h)
       /\ n \notin aggregator.used
       /\ votes_aggregator' = [votes_aggregator EXCEPT ![n] =
              [weight |-> aggregator.weight + Stake[n],
               used   |-> aggregator.used \cup {n}]]

(* process_header: the header is stored when it is accepted, a vote is cast
   for it only when its author has none from us in this round, and only our own
   vote reaches the aggregator. *)
LEMMA HeaderEffect ==
    ASSUME NEW n, NEW h, NEW aggregator, NEW pending,
           process_header(n, h, aggregator, pending)
    PROVE  /\ HeaderStored(n, h)
           /\ HeaderSuspended(n, h, pending)
           /\ CoreDies(n)
           /\ VoteCast(n, h)
           /\ OwnVoteCounted(n, h, aggregator)
<1>1. HeaderStored(n, h) /\ CoreDies(n)
  BY Zenon DEF process_header, CastVote, HeaderStored, CoreDies
<1>2. HeaderSuspended(n, h, pending)
  BY DEF process_header, Suspend, HeaderSuspended
<1>3. VoteCast(n, h)
  BY Zenon DEF process_header, CastVote, VoteCast
<1>4. OwnVoteCounted(n, h, aggregator)
  BY Zenon DEF process_header, CastVote, OwnVoteCounted
<1> QED  BY <1>1, <1>2, <1>3, <1>4

CertificateStored(n, c) ==
    \/ certificates' = certificates
    \/ /\ certificates' = [certificates EXCEPT ![n] = @ \cup {c}]
       /\ deliver_certificate(n, c)

CertificateSuspended(n, c, pending) ==
    \/ certificate_pending' = [certificate_pending EXCEPT ![n] = pending]
    \/ certificate_pending' = [certificate_pending EXCEPT ![n] = pending \cup {c}]

Kept(n, aggregated) == [used         |-> KeepSlots(n, aggregated.used),
                        certificates |-> KeepHeaders(n, aggregated.certificates)]

ParentsSent(n, c) ==
    \/ tx_proposer' = tx_proposer
    \/ tx_proposer' = [tx_proposer EXCEPT ![n] = @ \cup {}]
    \/ /\ tx_proposer' = [tx_proposer EXCEPT ![n] = @ \cup {<<Held(n, c), round[c]>>}]
       /\ ReachesQuorum(n, c)
       /\ certificates' = [certificates EXCEPT ![n] = @ \cup {c}]
       /\ certificates_aggregators' = [certificates_aggregators EXCEPT ![n] =
              Kept(n, append(n, c))]

CertificateAggregated(n, c) ==
    \/ certificates_aggregators' = [certificates_aggregators EXCEPT ![n] =
            Kept(n, certificates_aggregators[n])]
    \/ /\ certificates_aggregators' = [certificates_aggregators EXCEPT ![n] =
              Kept(n, append(n, c))]
       /\ certificates' = [certificates EXCEPT ![n] = @ \cup {c}]

GcMoved(n) == gc_round' = [gc_round EXCEPT ![n] = GcRound(n)]

VotesKept(n, h) ==
    \/ /\ votes' = votes
       /\ last_voted' = [last_voted EXCEPT ![n] = KeepSlots(n, last_voted[n])]
    \/ last_voted' = [last_voted EXCEPT ![n] = KeepSlots(n, VotedAfter(n, h))]

ProcessingKept(n, h) ==
    \/ processing' = [processing EXCEPT ![n] = KeepHeaders(n, processing[n])]
    \/ processing' = [processing EXCEPT ![n] = KeepHeaders(n, processing[n] \cup {h})]

(* A turn of the Core of n about the header h: everything it may do to the
   header side of the state... *)
HeaderTurn(n, h, aggregator, pending) ==
    /\ HeaderStored(n, h) /\ HeaderSuspended(n, h, pending) /\ CoreDies(n)
    /\ VoteCast(n, h) /\ OwnVoteCounted(n, h, aggregator)
    /\ GcMoved(n) /\ VotesKept(n, h) /\ ProcessingKept(n, h)

(* ... and to the certificate side. *)
CertificateTurn(n, c, pending) ==
    /\ CertificateStored(n, c) /\ CertificateSuspended(n, c, pending)
    /\ ParentsSent(n, c) /\ CertificateAggregated(n, c)

NoCertificate(n) ==
    /\ UNCHANGED <<certificates, certificate_pending, tx_proposer>>
    /\ certificates_aggregators' = [certificates_aggregators EXCEPT ![n] =
            Kept(n, certificates_aggregators[n])]

(* A handler that processes a header and ends its turn. *)
LEMMA HeaderOnlyTurn ==
    ASSUME NEW n, NEW h, NEW aggregator, NEW pending,
           process_header(n, h, aggregator, pending),
           Cleanup(n, VotedAfter(n, h), processing[n] \cup {h}, certificates_aggregators[n])
    PROVE  /\ HeaderTurn(n, h, aggregator, pending)
           /\ certificates_aggregators' = [certificates_aggregators EXCEPT ![n] =
                  Kept(n, certificates_aggregators[n])]
<1>1. GcMoved(n) /\ VotesKept(n, h) /\ ProcessingKept(n, h)
  BY Zenon DEF Cleanup, GcMoved, VotesKept, ProcessingKept
<1>2. certificates_aggregators' = [certificates_aggregators EXCEPT ![n] =
                  Kept(n, certificates_aggregators[n])]
  BY Zenon DEF Cleanup, Kept
<1> QED  BY <1>1, <1>2, HeaderEffect DEF HeaderTurn

(* process_certificate is a turn about the certificate and its header. *)
LEMMA CertificateEffect ==
    ASSUME TypeOK, NEW n \in Correct, NEW c, NEW aggregator, NEW pending,
           process_certificate(n, c, aggregator, pending)
    PROVE  /\ HeaderTurn(n, c, aggregator, header_pending[n])
           /\ CertificateTurn(n, c, pending)
<1>1. ASSUME NEW voted, NEW processed,
             StoreCertificate(n, c, pending, voted, processed)
      PROVE  /\ CertificateTurn(n, c, pending)
             /\ Cleanup(n, voted, processed, certificates_aggregators[n])
                \/ Cleanup(n, voted, processed, append(n, c))
  <2>1. CertificateStored(n, c) /\ CertificateSuspended(n, c, pending)
    BY <1>1, Zenon DEF StoreCertificate, CertificateStored, CertificateSuspended
  <2>2. ParentsSent(n, c)
    <3>1. CASE tx_proposer' = tx_proposer
      BY <3>1 DEF ParentsSent
    <3>2. CASE /\ certificates' = [certificates EXCEPT ![n] = @ \cup {c}]
               /\ tx_proposer' = [tx_proposer EXCEPT ![n] = @ \cup
                     (IF ReachesQuorum(n, c) THEN {<<Held(n, c), round[c]>>} ELSE {})]
               /\ Cleanup(n, voted, processed, append(n, c))
      <4>0. certificates_aggregators' = [certificates_aggregators EXCEPT ![n] =
                  Kept(n, append(n, c))]
        BY <3>2, Zenon DEF Cleanup, Kept
      <4>1. CASE ReachesQuorum(n, c)
        BY <3>2, <4>0, <4>1, Zenon DEF ParentsSent
      <4>2. CASE ~ ReachesQuorum(n, c)
        BY <3>2, <4>2, Zenon DEF ParentsSent
      <4> QED  BY <4>1, <4>2
    <3> QED  BY <1>1, <3>1, <3>2, Zenon DEF StoreCertificate
  <2>3. CertificateAggregated(n, c)
    BY <1>1, Zenon DEF StoreCertificate, Cleanup, CertificateAggregated, Kept
  <2>4. Cleanup(n, voted, processed, certificates_aggregators[n])
          \/ Cleanup(n, voted, processed, append(n, c))
    BY <1>1, Zenon DEF StoreCertificate
  <2> QED  BY <2>1, <2>2, <2>3, <2>4 DEF CertificateTurn
<1>2. CASE /\ votes_aggregator' = [votes_aggregator EXCEPT ![n] = aggregator]
           /\ UNCHANGED <<headers, header_pending, votes, alive>>
           /\ StoreCertificate(n, c, pending, last_voted[n], processing[n])
  <2>1. header_pending' = [header_pending EXCEPT ![n] = header_pending[n]]
    <3>1. header_pending \in [Correct -> PendingType]
      BY DEF TypeOK, PendingType
    <3> QED  BY <1>2, <3>1
  <2>2. /\ HeaderStored(n, c) /\ HeaderSuspended(n, c, header_pending[n])
        /\ CoreDies(n) /\ VoteCast(n, c) /\ OwnVoteCounted(n, c, aggregator)
    BY <1>2, <2>1, Zenon DEF HeaderStored, HeaderSuspended, CoreDies, VoteCast, OwnVoteCounted
  <2>3. GcMoved(n) /\ VotesKept(n, c) /\ ProcessingKept(n, c)
    BY <1>1, <1>2, Zenon DEF Cleanup, GcMoved, VotesKept, ProcessingKept
  <2> QED  BY <1>1, <1>2, <2>2, <2>3 DEF HeaderTurn
<1>3. CASE /\ process_header(n, c, aggregator, header_pending[n])
           /\ StoreCertificate(n, c, pending, VotedAfter(n, c), processing[n] \cup {c})
  <2>1. GcMoved(n) /\ VotesKept(n, c) /\ ProcessingKept(n, c)
    BY <1>1, <1>3, Zenon DEF Cleanup, GcMoved, VotesKept, ProcessingKept
  <2> QED  BY <1>1, <1>3, <2>1, HeaderEffect DEF HeaderTurn
<1>4. CASE /\ process_header(n, c, aggregator, header_pending[n])
           /\ certificate_pending' = [certificate_pending EXCEPT ![n] = pending]
           /\ Cleanup(n, VotedAfter(n, c), processing[n] \cup {c}, certificates_aggregators[n])
           /\ UNCHANGED <<certificates, tx_proposer>>
  <2>1. CertificateTurn(n, c, pending)
    BY <1>4, HeaderOnlyTurn, Zenon
       DEF CertificateTurn, CertificateStored, CertificateSuspended, ParentsSent,
           CertificateAggregated
  <2> QED  BY <1>4, <2>1, HeaderOnlyTurn
<1> QED  BY <1>2, <1>3, <1>4, Zenon DEF process_certificate

-----------------------------------------------------------------------------
(* Type correctness.                                                       *)

AggregatedType == [used : SUBSET (Nat \X Authorities), certificates : SUBSET Headers]

(* What the clean-up keeps is part of what it is given. *)
LEMMA KeptType ==
    ASSUME NEW n
    PROVE  /\ \A S \in SUBSET (Nat \X Authorities) : KeepSlots(n, S) \in SUBSET (Nat \X Authorities)
           /\ \A S \in SUBSET Headers : KeepHeaders(n, S) \in SUBSET Headers
           /\ \A A \in AggregatedType : Kept(n, A) \in AggregatedType
BY DEF KeepSlots, KeepHeaders, Kept, AggregatedType

(* The header side of a turn keeps the types. *)
LEMMA HeaderTurnType ==
    ASSUME TypeOK, NEW n \in Correct, NEW h \in Headers,
           NEW aggregator \in AggregatorType, NEW pending \in PendingType,
           HeaderTurn(n, h, aggregator, pending)
    PROVE  /\ headers' \in [Correct -> SUBSET Headers]
           /\ votes' \subseteq Headers \X Correct
           /\ alive' \in [Correct -> BOOLEAN]
           /\ header_pending' \in [Correct -> PendingType]
           /\ votes_aggregator' \in [Correct -> AggregatorType]
           /\ last_voted' \in [Correct -> SUBSET (Nat \X Authorities)]
           /\ processing' \in [Correct -> SUBSET Headers]
           /\ gc_round' \in [Correct -> Nat]
<1>1. headers' \in [Correct -> SUBSET Headers]
  <2>1. headers \in [Correct -> SUBSET Headers]
    BY DEF TypeOK
  <2> QED  BY <2>1 DEF HeaderTurn, HeaderStored
<1>2. header_pending' \in [Correct -> PendingType]
  <2>1. header_pending \in [Correct -> PendingType]
    BY DEF TypeOK, PendingType
  <2>2. pending \cup {<<"parents", h>>} \in PendingType /\ pending \cup {<<"payload", h>>} \in PendingType
    BY DEF PendingType
  <2> QED  BY <2>1, <2>2 DEF HeaderTurn, HeaderSuspended
<1>3. votes' \subseteq Headers \X Correct
  <2>1. votes \subseteq Headers \X Correct
    BY DEF TypeOK
  <2> QED  BY <2>1 DEF HeaderTurn, VoteCast
<1>4. alive' \in [Correct -> BOOLEAN]
  <2>1. alive \in [Correct -> BOOLEAN]
    BY DEF TypeOK
  <2> QED  BY <2>1 DEF HeaderTurn, CoreDies
<1>5. votes_aggregator' \in [Correct -> AggregatorType]
  <2>1. votes_aggregator \in [Correct -> AggregatorType]
    BY DEF TypeOK, AggregatorType
  <2>2. n \in Authorities /\ Stake[n] \in Nat
    BY CoreAssumption, CommitteeAssumption DEF Correct
  <2>3. [weight |-> aggregator.weight + Stake[n], used |-> aggregator.used \cup {n}]
            \in AggregatorType
    BY <2>2 DEF AggregatorType
  <2> QED  BY <2>1, <2>3 DEF HeaderTurn, OwnVoteCounted
<1>6. last_voted' \in [Correct -> SUBSET (Nat \X Authorities)]
  <2>1. last_voted \in [Correct -> SUBSET (Nat \X Authorities)]
    BY DEF TypeOK
  <2>2. /\ KeepSlots(n, last_voted[n]) \in SUBSET (Nat \X Authorities)
        /\ KeepSlots(n, VotedAfter(n, h)) \in SUBSET (Nat \X Authorities)
    BY <2>1, KeptType, VotedAfterType
  <2> QED  BY <2>1, <2>2 DEF HeaderTurn, VotesKept
<1>7. processing' \in [Correct -> SUBSET Headers]
  <2>1. processing \in [Correct -> SUBSET Headers]
    BY DEF TypeOK
  <2>2. /\ KeepHeaders(n, processing[n]) \in SUBSET Headers
        /\ KeepHeaders(n, processing[n] \cup {h}) \in SUBSET Headers
    BY <2>1, KeptType
  <2> QED  BY <2>1, <2>2 DEF HeaderTurn, ProcessingKept
<1>8. gc_round' \in [Correct -> Nat]
  <2>1. gc_round \in [Correct -> Nat]
    BY DEF TypeOK
  <2> QED  BY <2>1, GcRoundType DEF HeaderTurn, GcMoved
<1> QED  BY <1>1, <1>2, <1>3, <1>4, <1>5, <1>6, <1>7, <1>8

(* The certificates held with a new one, and the aggregator after it. *)
LEMMA AppendType ==
    ASSUME TypeOK, NEW n \in Correct, NEW c \in Headers
    PROVE  Held(n, c) \in SUBSET Headers /\ append(n, c) \in AggregatedType
<1>1. certificates_aggregators[n] \in AggregatedType
  BY DEF TypeOK, AggregatedType
<1>2. Held(n, c) \in SUBSET Headers
  BY <1>1 DEF Held, AggregatedType
<1>3. Slot(c) \in Nat \X Authorities
  BY SlotType
<1> QED  BY <1>1, <1>2, <1>3 DEF append, AggregatedType

(* The certificate side of a turn keeps the types. *)
LEMMA CertificateTurnType ==
    ASSUME TypeOK, NEW n \in Correct, NEW c \in Headers,
           NEW pending \in SUBSET Headers,
           CertificateTurn(n, c, pending)
    PROVE  /\ certificates' \in [Correct -> SUBSET Headers]
           /\ certificate_pending' \in [Correct -> SUBSET Headers]
           /\ tx_proposer' \in [Correct -> SUBSET ((SUBSET Headers) \X Nat)]
           /\ certificates_aggregators' \in [Correct -> AggregatedType]
<1>1. certificates' \in [Correct -> SUBSET Headers]
  <2>1. certificates \in [Correct -> SUBSET Headers]
    BY DEF TypeOK
  <2> QED  BY <2>1 DEF CertificateTurn, CertificateStored
<1>2. certificate_pending' \in [Correct -> SUBSET Headers]
  <2>1. certificate_pending \in [Correct -> SUBSET Headers]
    BY DEF TypeOK
  <2> QED  BY <2>1 DEF CertificateTurn, CertificateSuspended
<1>3. tx_proposer' \in [Correct -> SUBSET ((SUBSET Headers) \X Nat)]
  <2>1. tx_proposer \in [Correct -> SUBSET ((SUBSET Headers) \X Nat)]
    BY DEF TypeOK
  <2>2. <<Held(n, c), round[c]>> \in (SUBSET Headers) \X Nat
    BY AppendType, CoreAssumption
  <2> QED  BY <2>1, <2>2 DEF CertificateTurn, ParentsSent
<1>4. certificates_aggregators' \in [Correct -> AggregatedType]
  <2>1. certificates_aggregators \in [Correct -> AggregatedType]
    BY DEF TypeOK, AggregatedType
  <2>2. /\ Kept(n, certificates_aggregators[n]) \in AggregatedType
        /\ Kept(n, append(n, c)) \in AggregatedType
    BY <2>1, AppendType, KeptType
  <2> QED  BY <2>1, <2>2 DEF CertificateTurn, CertificateAggregated
<1> QED  BY <1>1, <1>2, <1>3, <1>4

-----------------------------------------------------------------------------
(* Every action of a Core is a turn about some header: the invariants about
   votes and stores need no more than this. *)

Turn(n, h, aggregator) ==
    /\ \E pending \in SUBSET header_pending[n] : HeaderTurn(n, h, aggregator, pending)
    /\ \E pending \in SUBSET certificate_pending[n] : CertificateTurn(n, h, pending)
    /\ UNCHANGED <<batches, consensus_round>>

(* A turn that leaves certificates alone. *)
LEMMA NoCertificateTurn ==
    ASSUME TypeOK, NEW n \in Correct, NEW c,
           UNCHANGED <<certificates, certificate_pending, tx_proposer>>,
           certificates_aggregators' = [certificates_aggregators EXCEPT ![n] =
                  Kept(n, certificates_aggregators[n])]
    PROVE  CertificateTurn(n, c, certificate_pending[n])
<1>1. certificate_pending' = [certificate_pending EXCEPT ![n] = certificate_pending[n]]
  <2>1. certificate_pending \in [Correct -> SUBSET Headers]
    BY DEF TypeOK
  <2> QED  BY <2>1
<1> QED  BY <1>1, Zenon DEF CertificateTurn, CertificateStored, CertificateSuspended,
                            ParentsSent, CertificateAggregated

(* A turn that leaves headers alone. *)
LEMMA NoHeaderTurn ==
    ASSUME TypeOK, NEW n \in Correct, NEW h, NEW aggregator,
           UNCHANGED <<headers, header_pending, votes, alive>>,
           votes_aggregator' = [votes_aggregator EXCEPT ![n] = aggregator],
           Cleanup(n, last_voted[n], processing[n], certificates_aggregators[n])
    PROVE  /\ HeaderTurn(n, h, aggregator, header_pending[n])
           /\ certificates_aggregators' = [certificates_aggregators EXCEPT ![n] =
                  Kept(n, certificates_aggregators[n])]
<1>1. header_pending' = [header_pending EXCEPT ![n] = header_pending[n]]
  <2>1. header_pending \in [Correct -> PendingType]
    BY DEF TypeOK, PendingType
  <2> QED  BY <2>1
<1>2. /\ HeaderStored(n, h) /\ HeaderSuspended(n, h, header_pending[n]) /\ CoreDies(n)
      /\ VoteCast(n, h) /\ OwnVoteCounted(n, h, aggregator)
  BY <1>1, Zenon DEF HeaderStored, HeaderSuspended, CoreDies, VoteCast, OwnVoteCounted
<1>3. GcMoved(n) /\ VotesKept(n, h) /\ ProcessingKept(n, h)
  BY Zenon DEF Cleanup, GcMoved, VotesKept, ProcessingKept
<1>4. certificates_aggregators' = [certificates_aggregators EXCEPT ![n] =
                  Kept(n, certificates_aggregators[n])]
  BY Zenon DEF Cleanup, Kept
<1> QED  BY <1>2, <1>3, <1>4 DEF HeaderTurn

(* process_own_header starts from a fresh aggregator. *)
LEMMA OwnHeaderTurn ==
    ASSUME TypeOK, NEW n \in Correct, NEW h \in Headers, process_own_header(n, h)
    PROVE  Turn(n, h, NewVotesAggregator)
<1>1. /\ HeaderTurn(n, h, NewVotesAggregator, header_pending[n])
      /\ certificates_aggregators' = [certificates_aggregators EXCEPT ![n] =
                  Kept(n, certificates_aggregators[n])]
  BY HeaderOnlyTurn, Zenon DEF process_own_header
<1>2. CertificateTurn(n, h, certificate_pending[n])
  BY <1>1, NoCertificateTurn, Zenon DEF process_own_header
<1>3. UNCHANGED <<batches, consensus_round>>
  BY Zenon DEF process_own_header
<1> QED  BY <1>1, <1>2, <1>3, Zenon DEF Turn

(* A header from another primary, or from the HeaderWaiter. *)
LEMMA OtherHeaderTurn ==
    ASSUME TypeOK, NEW n \in Correct, NEW h \in Headers,
           ReceiveHeader(n, h) \/ LoopbackHeader(n, h)
    PROVE  Turn(n, h, votes_aggregator[n])
<1> DEFINE rest == header_pending[n] \ {<<"parents", h>>, <<"payload", h>>}
<1>0. \/ process_header(n, h, votes_aggregator[n], header_pending[n])
      \/ process_header(n, h, votes_aggregator[n], rest)
  BY Zenon DEF ReceiveHeader, LoopbackHeader
<1>1. Cleanup(n, VotedAfter(n, h), processing[n] \cup {h}, certificates_aggregators[n])
  BY Zenon DEF ReceiveHeader, LoopbackHeader
<1>2. UNCHANGED <<certificates, certificate_pending, tx_proposer, batches, consensus_round>>
  BY Zenon DEF ReceiveHeader, LoopbackHeader
<1>3. \/ HeaderTurn(n, h, votes_aggregator[n], header_pending[n])
      \/ HeaderTurn(n, h, votes_aggregator[n], rest)
  BY <1>0, <1>1, HeaderOnlyTurn, Zenon
<1>4. CertificateTurn(n, h, certificate_pending[n])
  BY <1>0, <1>1, <1>2, HeaderOnlyTurn, NoCertificateTurn, Zenon
<1>5. rest \in SUBSET header_pending[n] /\ header_pending[n] \in SUBSET header_pending[n]
  OBVIOUS
<1>6. certificate_pending[n] \in SUBSET certificate_pending[n]
  OBVIOUS
<1> HIDE DEF rest
<1> QED  BY <1>2, <1>3, <1>4, <1>5, <1>6, Zenon DEF Turn

(* A certificate from another primary, or from the CertificateWaiter. *)
LEMMA OtherCertificateTurn ==
    ASSUME TypeOK, NEW n \in Correct, NEW c \in Headers,
           ReceiveCertificate(n, c) \/ LoopbackCertificate(n, c)
    PROVE  Turn(n, c, votes_aggregator[n])
<1> DEFINE rest == certificate_pending[n] \ {c}
<1>1. \/ process_certificate(n, c, votes_aggregator[n], certificate_pending[n])
      \/ process_certificate(n, c, votes_aggregator[n], rest)
  BY Zenon DEF ReceiveCertificate, LoopbackCertificate
<1>2. UNCHANGED <<batches, consensus_round>>
  BY Zenon DEF ReceiveCertificate, LoopbackCertificate
<1>3. rest \in SUBSET certificate_pending[n] /\ certificate_pending[n] \in SUBSET certificate_pending[n]
  OBVIOUS
<1>4. header_pending[n] \in SUBSET header_pending[n]
  OBVIOUS
<1> HIDE DEF rest
<1>5. /\ HeaderTurn(n, c, votes_aggregator[n], header_pending[n])
      /\ CertificateTurn(n, c, certificate_pending[n]) \/ CertificateTurn(n, c, rest)
  BY <1>1, CertificateEffect, Zenon
<1> QED  BY <1>2, <1>3, <1>4, <1>5, Zenon DEF Turn

Counted(n, v) == [weight |-> votes_aggregator[n].weight + Stake[v],
                  used   |-> votes_aggregator[n].used \cup {v}]

(* A vote: it is counted, or it completes a quorum and makes a certificate. *)
LEMMA VoteTurn ==
    ASSUME TypeOK, NEW n \in Correct, NEW v \in Authorities, ReceiveVote(n, v)
    PROVE  \/ /\ Turn(n, current_header[n], Counted(n, v))
              /\ UNCHANGED <<votes, certs>>
              /\ votes_aggregator' = [votes_aggregator EXCEPT ![n] = Counted(n, v)]
           \/ /\ Turn(n, current_header[n], [weight |-> 0, used |-> Counted(n, v).used])
              /\ Counted(n, v).weight >= quorum_threshold
              /\ certs' = certs \cup {current_header[n]}
<1>0. header_pending[n] \in SUBSET header_pending[n]
      /\ certificate_pending[n] \in SUBSET certificate_pending[n]
  OBVIOUS
<1>1. UNCHANGED <<batches, consensus_round>>
  BY Zenon DEF ReceiveVote
<1>2. /\ Counted(n, v).weight = votes_aggregator[n].weight + Stake[v]
      /\ Counted(n, v).used = votes_aggregator[n].used \cup {v}
  BY DEF Counted
<1>3. CASE /\ votes_aggregator' = [votes_aggregator EXCEPT ![n] = Counted(n, v)]
           /\ Cleanup(n, last_voted[n], processing[n], certificates_aggregators[n])
           /\ UNCHANGED <<alive, headers, certificates, waiters, tx_proposer, votes, certs>>
  <2>1. UNCHANGED <<alive, headers, certificates, header_pending, certificate_pending,
                    tx_proposer, votes, certs>>
    BY <1>3 DEF waiters
  <2>2. /\ HeaderTurn(n, current_header[n], Counted(n, v), header_pending[n])
        /\ CertificateTurn(n, current_header[n], certificate_pending[n])
    BY <1>3, <2>1, NoHeaderTurn, NoCertificateTurn, Zenon
  <2> QED  BY <1>0, <1>1, <1>3, <2>1, <2>2, Zenon DEF Turn
<1>4. CASE /\ Counted(n, v).weight >= quorum_threshold
           /\ certs' = certs \cup {current_header[n]}
           /\ process_certificate(n, current_header[n],
                 [weight |-> 0, used |-> Counted(n, v).used], certificate_pending[n])
  BY <1>0, <1>1, <1>4, CertificateEffect, Zenon DEF Turn
<1>5. \/ /\ votes_aggregator' = [votes_aggregator EXCEPT ![n] = Counted(n, v)]
         /\ Cleanup(n, last_voted[n], processing[n], certificates_aggregators[n])
         /\ UNCHANGED <<alive, headers, certificates, waiters, tx_proposer, votes, certs>>
      \/ /\ Counted(n, v).weight >= quorum_threshold
         /\ certs' = certs \cup {current_header[n]}
         /\ process_certificate(n, current_header[n],
                 [weight |-> 0, used |-> Counted(n, v).used], certificate_pending[n])
  <2>1. Counted(n, v) = [weight |-> votes_aggregator[n].weight + Stake[v],
                         used   |-> votes_aggregator[n].used \cup {v}]
    BY DEF Counted
  <2> QED  BY <1>2, <2>1, Zenon DEF ReceiveVote
<1> QED  BY <1>3, <1>4, <1>5

(* A refused message. *)
LEMMA RejectTurn ==
    ASSUME TypeOK, NEW n \in Correct, RejectMessage(n), NEW h
    PROVE  Turn(n, h, votes_aggregator[n])
<1>0. header_pending[n] \in SUBSET header_pending[n]
      /\ certificate_pending[n] \in SUBSET certificate_pending[n]
  OBVIOUS
<1>1. /\ Cleanup(n, last_voted[n], processing[n], certificates_aggregators[n])
      /\ UNCHANGED <<votes_aggregator, alive, store, waiters, tx_proposer,
                     consensus_round, network>>
  BY Zenon DEF RejectMessage
<1>2. UNCHANGED <<votes_aggregator, alive, headers, certificates, batches, header_pending,
                  certificate_pending, tx_proposer, consensus_round, votes>>
  BY <1>1 DEF store, waiters, network
<1>3. votes_aggregator' = [votes_aggregator EXCEPT ![n] = votes_aggregator[n]]
  <2>1. votes_aggregator \in [Correct -> AggregatorType]
    BY DEF TypeOK, AggregatorType
  <2> QED  BY <1>2, <2>1
<1>4. /\ HeaderTurn(n, h, votes_aggregator[n], header_pending[n])
      /\ CertificateTurn(n, h, certificate_pending[n])
  BY <1>1, <1>2, <1>3, NoHeaderTurn, NoCertificateTurn, Zenon
<1> QED  BY <1>0, <1>2, <1>4, Zenon DEF Turn

-----------------------------------------------------------------------------
(* A turn keeps the types of everything but the network. *)
LEMMA TurnType ==
    ASSUME TypeOK, NEW n \in Correct, NEW h \in Headers,
           NEW aggregator \in AggregatorType, Turn(n, h, aggregator),
           current_header' \in [Correct -> Headers \cup {NoHeader}],
           sent_headers' \subseteq Headers, certs' \subseteq Headers
    PROVE  TypeOK'
<1>1. PICK pending \in SUBSET header_pending[n] : HeaderTurn(n, h, aggregator, pending)
  BY Zenon DEF Turn
<1>2. PICK rest \in SUBSET certificate_pending[n] : CertificateTurn(n, h, rest)
  BY Zenon DEF Turn
<1>3. pending \in PendingType
  <2>1. header_pending[n] \in PendingType
    BY DEF TypeOK, PendingType
  <2> QED  BY <1>1, <2>1 DEF PendingType
<1>4. rest \in SUBSET Headers
  <2>1. certificate_pending[n] \in SUBSET Headers
    BY DEF TypeOK
  <2> QED  BY <1>2, <2>1
<1>5. /\ headers' \in [Correct -> SUBSET Headers]
      /\ votes' \subseteq Headers \X Correct
      /\ alive' \in [Correct -> BOOLEAN]
      /\ header_pending' \in [Correct -> PendingType]
      /\ votes_aggregator' \in [Correct -> AggregatorType]
      /\ last_voted' \in [Correct -> SUBSET (Nat \X Authorities)]
      /\ processing' \in [Correct -> SUBSET Headers]
      /\ gc_round' \in [Correct -> Nat]
  BY <1>1, <1>3, HeaderTurnType
<1>6. /\ certificates' \in [Correct -> SUBSET Headers]
      /\ certificate_pending' \in [Correct -> SUBSET Headers]
      /\ tx_proposer' \in [Correct -> SUBSET ((SUBSET Headers) \X Nat)]
      /\ certificates_aggregators' \in [Correct -> AggregatedType]
  BY <1>2, <1>4, CertificateTurnType
<1>7. batches' \in [Correct -> SUBSET Batches] /\ consensus_round' \in [Correct -> Nat]
  BY DEF TypeOK, Turn
<1> QED  BY <1>5, <1>6, <1>7 DEF TypeOK, AggregatorType, AggregatedType, PendingType

LEMMA InitType == Init => TypeOK
BY CoreAssumption DEF Init, TypeOK, NewVotesAggregator

(* The aggregators the handlers start from. *)
LEMMA AggregatorTypes ==
    ASSUME TypeOK, NEW n \in Correct
    PROVE  /\ NewVotesAggregator \in AggregatorType
           /\ votes_aggregator[n] \in AggregatorType
           /\ \A v \in Authorities : /\ Counted(n, v) \in AggregatorType
                                     /\ [weight |-> 0, used |-> Counted(n, v).used] \in AggregatorType
<1>1. votes_aggregator[n] \in AggregatorType
  BY DEF TypeOK, AggregatorType
<1>2. NewVotesAggregator \in AggregatorType
  BY DEF NewVotesAggregator, AggregatorType
<1>3. ASSUME NEW v \in Authorities
      PROVE  /\ Counted(n, v) \in AggregatorType
             /\ [weight |-> 0, used |-> Counted(n, v).used] \in AggregatorType
  <2>1. Stake[v] \in Nat
    BY CommitteeAssumption
  <2> QED  BY <1>1, <2>1 DEF Counted, AggregatorType
<1> QED  BY <1>1, <1>2, <1>3

LEMMA NextType ==
    ASSUME TypeOK, [Next]_vars
    PROVE  TypeOK'
<1>0. /\ current_header \in [Correct -> Headers \cup {NoHeader}]
      /\ sent_headers \subseteq Headers /\ certs \subseteq Headers
  BY DEF TypeOK
<1>1. ASSUME NEW n \in Correct, NEW h \in Headers, process_own_header(n, h)
      PROVE  TypeOK'
  <2>1. /\ current_header' = [current_header EXCEPT ![n] = h]
        /\ sent_headers' = sent_headers \cup {h}
        /\ certs' = certs
    BY <1>1, Zenon DEF process_own_header
  <2>2. /\ current_header' \in [Correct -> Headers \cup {NoHeader}]
        /\ sent_headers' \subseteq Headers /\ certs' \subseteq Headers
    BY <1>0, <2>1
  <2>3. Turn(n, h, NewVotesAggregator)
    BY <1>1, OwnHeaderTurn
  <2> QED  BY <2>2, <2>3, TurnType, AggregatorTypes
<1>2. ASSUME NEW n \in Correct, NEW h \in Headers, ReceiveHeader(n, h) \/ LoopbackHeader(n, h)
      PROVE  TypeOK'
  <2>1. UNCHANGED <<current_header, sent_headers, certs>>
    BY <1>2, Zenon DEF ReceiveHeader, LoopbackHeader
  <2>2. Turn(n, h, votes_aggregator[n])
    BY <1>2, OtherHeaderTurn
  <2> QED  BY <1>0, <2>1, <2>2, TurnType, AggregatorTypes
<1>3. ASSUME NEW n \in Correct, NEW c \in Headers,
             ReceiveCertificate(n, c) \/ LoopbackCertificate(n, c)
      PROVE  TypeOK'
  <2>1. UNCHANGED <<current_header, sent_headers, certs>>
    BY <1>3, Zenon DEF ReceiveCertificate, LoopbackCertificate
  <2>2. Turn(n, c, votes_aggregator[n])
    BY <1>3, OtherCertificateTurn
  <2> QED  BY <1>0, <2>1, <2>2, TurnType, AggregatorTypes
<1>4. ASSUME NEW n \in Correct, NEW v \in Authorities, ReceiveVote(n, v)
      PROVE  TypeOK'
  <2>1. current_header[n] # NoHeader /\ UNCHANGED <<current_header, sent_headers>>
    BY <1>4, Zenon DEF ReceiveVote
  <2>2. current_header[n] \in Headers
    BY <1>0, <2>1
  <2>3. CASE Turn(n, current_header[n], Counted(n, v)) /\ certs' = certs
    BY <1>0, <2>1, <2>2, <2>3, TurnType, AggregatorTypes
  <2>4. CASE /\ Turn(n, current_header[n], [weight |-> 0, used |-> Counted(n, v).used])
             /\ certs' = certs \cup {current_header[n]}
    <3>1. certs' \subseteq Headers
      BY <1>0, <2>2, <2>4
    <3> QED  BY <1>0, <2>1, <2>2, <2>4, <3>1, TurnType, AggregatorTypes
  <2> QED  BY <1>4, <2>3, <2>4, VoteTurn
<1>5. ASSUME NEW n \in Correct, RejectMessage(n)
      PROVE  TypeOK'
  <2>1. UNCHANGED <<current_header, sent_headers, certs>>
    BY <1>5 DEF RejectMessage, network
  <2>2. PICK g \in Headers : TRUE
    BY CoreAssumption DEF Correct, Genesis
  <2> QED  BY <1>0, <1>5, <2>1, <2>2, RejectTurn, TurnType, AggregatorTypes
<1>6. ASSUME NEW n \in Correct, NEW b \in Batches, ReceiveBatch(n, b)
      PROVE  TypeOK'
  BY <1>6 DEF TypeOK, ReceiveBatch, core, waiters, network
<1>7. ASSUME NEW n \in Correct, CancelPending(n)
      PROVE  TypeOK'
  BY <1>7 DEF TypeOK, CancelPending, core, store, network
<1>8. ASSUME NEW n \in Correct, NEW r \in {round[h] : h \in Headers}, AdvanceConsensusRound(n, r)
      PROVE  TypeOK'
  BY <1>8, CoreAssumption DEF TypeOK, AdvanceConsensusRound, core, store, waiters, network
<1>9. ASSUME NEW c \in FaultyCertificates, FaultyCertificate(c)
      PROVE  TypeOK'
  BY <1>9, CoreAssumption DEF TypeOK, FaultyCertificate, Genesis, core, store, waiters
<1>10. CASE UNCHANGED vars
  BY <1>10 DEF TypeOK, vars, core, store, waiters, network
<1> QED  BY <1>1, <1>2, <1>3, <1>4, <1>5, <1>6, <1>7, <1>8, <1>9, <1>10 DEF Next

(* Every variable of every correct primary stays in its type, whatever the
   faulty authorities send. *)
THEOREM TypeCorrect == Spec => []TypeOK
<1>1. Init => TypeOK
  BY InitType
<1>2. TypeOK /\ [Next]_vars => TypeOK'
  BY NextType
<1> QED  BY <1>1, <1>2, PTL DEF Spec

-----------------------------------------------------------------------------
(* One vote per author and round.                                          *)

(* gc_round only reflects rounds the consensus has left behind by GcDepth, and
   so it never moves back. *)
GcBehind ==
    \A n \in Correct : gc_round[n] = 0 \/ gc_round[n] + GcDepth <= consensus_round[n]

(* A vote is remembered until its round is garbage collected. *)
VotesRecorded ==
    \A n \in Correct : \A h \in Headers :
        <<h, n>> \in votes => (Slot(h) \in last_voted[n] \/ round[h] < gc_round[n])

VoteInv == GcBehind /\ VotesRecorded /\ VoteOnce

LEMMA GcRoundGrows ==
    ASSUME TypeOK, GcBehind, NEW n \in Correct
    PROVE  gc_round[n] <= GcRound(n)
<1>1. gc_round[n] \in Nat /\ consensus_round[n] \in Nat /\ GcDepth \in Nat
  BY CoreAssumption DEF TypeOK
<1>2. gc_round[n] = 0 \/ gc_round[n] + GcDepth <= consensus_round[n]
  BY DEF GcBehind
<1> QED  BY <1>1, <1>2 DEF GcRound

(* The vote side of a turn. *)
LEMMA TurnVotes ==
    ASSUME TypeOK, NEW n \in Correct, NEW h \in Headers, NEW aggregator,
           Turn(n, h, aggregator)
    PROVE  /\ votes \subseteq votes'
           /\ \A m \in Correct : gc_round'[m] = IF m = n THEN GcRound(n) ELSE gc_round[m]
           /\ \A m \in Correct \ {n} : last_voted'[m] = last_voted[m]
           /\ \A s \in last_voted[n] : s[1] >= GcRound(n) => s \in last_voted'[n]
           /\ \A g \in Headers, m \in Correct :
                (<<g, m>> \in votes' /\ <<g, m>> \notin votes) =>
                    /\ g = h /\ m = n
                    /\ Votes(n, h)
                    /\ h \in headers'[n]
                    /\ Slot(h)[1] >= GcRound(n) => Slot(h) \in last_voted'[n]
<1>1. GcMoved(n) /\ VotesKept(n, h) /\ VoteCast(n, h)
  BY Zenon DEF Turn, HeaderTurn
<1>2. /\ last_voted \in [Correct -> SUBSET (Nat \X Authorities)]
      /\ gc_round \in [Correct -> Nat]
      /\ headers \in [Correct -> SUBSET Headers]
  BY DEF TypeOK
<1>3. votes \subseteq votes'
  BY <1>1 DEF VoteCast
<1>4. \A m \in Correct : gc_round'[m] = IF m = n THEN GcRound(n) ELSE gc_round[m]
  BY <1>1, <1>2 DEF GcMoved
<1>5. \A m \in Correct \ {n} : last_voted'[m] = last_voted[m]
  BY <1>1, <1>2 DEF VotesKept
<1>6. \A s \in last_voted[n] : s[1] >= GcRound(n) => s \in last_voted'[n]
  <2>1. last_voted'[n] = KeepSlots(n, last_voted[n]) \/ last_voted'[n] = KeepSlots(n, VotedAfter(n, h))
    BY <1>1, <1>2 DEF VotesKept
  <2>2. last_voted[n] \subseteq VotedAfter(n, h)
    BY DEF VotedAfter
  <2> QED  BY <2>1, <2>2 DEF KeepSlots
<1>7. ASSUME NEW g \in Headers, NEW m \in Correct, <<g, m>> \in votes', <<g, m>> \notin votes
      PROVE  /\ g = h /\ m = n
             /\ Votes(n, h)
             /\ h \in headers'[n]
             /\ Slot(h)[1] >= GcRound(n) => Slot(h) \in last_voted'[n]
  <2>1. /\ votes' = votes \cup {<<h, n>>}
        /\ headers' = [headers EXCEPT ![n] = @ \cup {h}]
        /\ Votes(n, h)
    BY <1>1, <1>7, Zenon DEF VoteCast
  <2>2. g = h /\ m = n
    BY <1>7, <2>1
  <2>3. h \in headers'[n]
    BY <1>2, <2>1
  <2>4. last_voted'[n] = KeepSlots(n, VotedAfter(n, h))
    <3>1. last_voted' = [last_voted EXCEPT ![n] = KeepSlots(n, VotedAfter(n, h))]
      BY <1>1, <1>7, Zenon DEF VotesKept
    <3> QED  BY <1>2, <3>1
  <2>5. Slot(h) \in VotedAfter(n, h)
    BY <2>1 DEF VotedAfter
  <2>6. Slot(h)[1] >= GcRound(n) => Slot(h) \in last_voted'[n]
    BY <2>4, <2>5 DEF KeepSlots
  <2> QED  BY <2>1, <2>2, <2>3, <2>6
<1> QED  BY <1>3, <1>4, <1>5, <1>6, <1>7

LEMMA TurnVoteInv ==
    ASSUME TypeOK, VoteInv, NEW n \in Correct, NEW h \in Headers, NEW aggregator,
           Turn(n, h, aggregator)
    PROVE  VoteInv'
<1>0. /\ \A g \in Headers : round[g] \in Nat /\ Slot(g)[1] = round[g]
      /\ \A m \in Correct : gc_round[m] \in Nat
      /\ GcRound(n) \in Nat
  BY CoreAssumption, GcRoundType DEF TypeOK, Slot
<1>1. \A m \in Correct : gc_round'[m] \in Nat /\ gc_round[m] <= gc_round'[m]
  BY <1>0, TurnVotes, GcRoundGrows DEF VoteInv
<1>2. GcBehind'
  <2>1. consensus_round' = consensus_round /\ \A m \in Correct : consensus_round[m] \in Nat
    BY DEF Turn, TypeOK
  <2>2. GcRound(n) = 0 \/ GcRound(n) + GcDepth <= consensus_round[n]
    BY <2>1, CoreAssumption DEF GcRound, GcBehind, VoteInv
  <2> QED  BY <2>1, <2>2, TurnVotes DEF GcBehind, VoteInv
<1>3. VotesRecorded'
  <2> SUFFICES ASSUME NEW m \in Correct, NEW g \in Headers, <<g, m>> \in votes'
               PROVE  Slot(g) \in last_voted'[m] \/ round[g] < gc_round'[m]
    BY DEF VotesRecorded
  <2>1. CASE <<g, m>> \notin votes
    <3>1. g = h /\ m = n /\ (Slot(h)[1] >= GcRound(n) => Slot(h) \in last_voted'[n])
      BY <2>1, TurnVotes
    <3>2. gc_round'[n] = GcRound(n)
      BY TurnVotes
    <3> QED  BY <1>0, <3>1, <3>2
  <2>2. CASE <<g, m>> \in votes
    <3>1. Slot(g) \in last_voted[m] \/ round[g] < gc_round[m]
      BY <2>2 DEF VoteInv, VotesRecorded
    <3>2. CASE m = n
      <4>1. /\ gc_round'[n] = GcRound(n)
            /\ \A s \in last_voted[n] : s[1] >= GcRound(n) => s \in last_voted'[n]
        BY TurnVotes
      <4> QED  BY <1>0, <1>1, <3>1, <3>2, <4>1
    <3>3. CASE m # n
      <4>1. last_voted'[m] = last_voted[m] /\ gc_round'[m] = gc_round[m]
        BY <3>3, TurnVotes
      <4> QED  BY <3>1, <4>1
    <3> QED  BY <3>2, <3>3
  <2> QED  BY <2>1, <2>2
<1>4. VoteOnce'
  <2> SUFFICES ASSUME NEW m \in Correct, NEW f \in Headers, NEW g \in Headers,
                      <<f, m>> \in votes', <<g, m>> \in votes', Slot(f) = Slot(g), f # g
               PROVE  round[g] < gc_round'[m]
    BY DEF VoteOnce
  <2>0. round[f] = round[g]
    BY <1>0
  <2>1. CASE <<f, m>> \in votes /\ <<g, m>> \in votes
    <3>1. round[g] < gc_round[m]
      BY <2>1 DEF VoteInv, VoteOnce
    <3> QED  BY <1>0, <1>1, <3>1
  <2>2. ASSUME NEW x \in Headers, NEW y \in Headers, Slot(x) = Slot(y), x # y,
               <<x, m>> \in votes', <<y, m>> \in votes', <<x, m>> \notin votes
        PROVE  round[y] < gc_round'[m]
    <3>1. x = h /\ m = n /\ Votes(n, h)
      BY <2>2, TurnVotes
    <3>2. <<y, m>> \in votes
      BY <2>2, <3>1, TurnVotes
    <3>3. Slot(y) \notin last_voted[n]
      BY <2>2, <3>1 DEF Votes
    <3>4. round[y] < gc_round[m]
      BY <3>1, <3>2, <3>3 DEF VoteInv, VotesRecorded
    <3> QED  BY <1>0, <1>1, <3>4
  <2> QED  BY <2>0, <2>1, <2>2
<1> QED  BY <1>2, <1>3, <1>4 DEF VoteInv

(* Every action of a correct Core is a turn; the other actions touch neither
   the votes nor gc_round. *)
LEMMA NextVoteInv ==
    ASSUME TypeOK, VoteInv, [Next]_vars
    PROVE  VoteInv'
<1>1. ASSUME NEW n \in Correct, NEW h \in Headers, process_own_header(n, h)
      PROVE  VoteInv'
  BY <1>1, OwnHeaderTurn, TurnVoteInv
<1>2. ASSUME NEW n \in Correct, NEW h \in Headers, ReceiveHeader(n, h) \/ LoopbackHeader(n, h)
      PROVE  VoteInv'
  BY <1>2, OtherHeaderTurn, TurnVoteInv
<1>3. ASSUME NEW n \in Correct, NEW c \in Headers,
             ReceiveCertificate(n, c) \/ LoopbackCertificate(n, c)
      PROVE  VoteInv'
  BY <1>3, OtherCertificateTurn, TurnVoteInv
<1>4. ASSUME NEW n \in Correct, NEW v \in Authorities, ReceiveVote(n, v)
      PROVE  VoteInv'
  <2>1. current_header[n] \in Headers
    BY <1>4 DEF TypeOK, ReceiveVote
  <2> QED  BY <1>4, <2>1, VoteTurn, TurnVoteInv
<1>5. ASSUME NEW n \in Correct, RejectMessage(n)
      PROVE  VoteInv'
  <2>1. PICK g \in Headers : TRUE
    BY CoreAssumption DEF Correct, Genesis
  <2> QED  BY <1>5, <2>1, RejectTurn, TurnVoteInv
<1>6. ASSUME UNCHANGED <<votes, last_voted, gc_round, consensus_round>>
      PROVE  VoteInv'
  BY <1>6 DEF VoteInv, GcBehind, VotesRecorded, VoteOnce
<1>7. ASSUME NEW n \in Correct, NEW b \in Batches, ReceiveBatch(n, b)
      PROVE  VoteInv'
  BY <1>6, <1>7 DEF ReceiveBatch, core, network
<1>8. ASSUME NEW n \in Correct, CancelPending(n)
      PROVE  VoteInv'
  BY <1>6, <1>8 DEF CancelPending, core, network
<1>9. ASSUME NEW n \in Correct, NEW r \in {round[h] : h \in Headers}, AdvanceConsensusRound(n, r)
      PROVE  VoteInv'
  <2>1. /\ UNCHANGED <<votes, last_voted, gc_round>>
        /\ consensus_round' = [consensus_round EXCEPT ![n] = r]
        /\ r > consensus_round[n]
    BY <1>9 DEF AdvanceConsensusRound, core, network
  <2>2. r \in Nat /\ \A m \in Correct : consensus_round[m] \in Nat /\ gc_round[m] \in Nat
    BY <1>9, CoreAssumption DEF TypeOK
  <2>3. consensus_round \in [Correct -> Nat]
    BY DEF TypeOK
  <2>4. \A m \in Correct : consensus_round'[m] \in Nat /\ consensus_round[m] <= consensus_round'[m]
    BY <2>1, <2>2, <2>3
  <2>5. GcBehind'
    BY <2>1, <2>2, <2>4, CoreAssumption DEF VoteInv, GcBehind
  <2> QED  BY <2>1, <2>5 DEF VoteInv, VotesRecorded, VoteOnce
<1>10. ASSUME NEW c \in FaultyCertificates, FaultyCertificate(c)
      PROVE  VoteInv'
  BY <1>6, <1>10 DEF FaultyCertificate, core
<1>11. CASE UNCHANGED vars
  BY <1>6, <1>11 DEF vars, core, network
<1> QED  BY <1>1, <1>2, <1>3, <1>4, <1>5, <1>7, <1>8, <1>9, <1>10, <1>11 DEF Next

LEMMA InitVoteInv == Init => VoteInv
BY DEF Init, VoteInv, GcBehind, VotesRecorded, VoteOnce

(* A correct primary votes for at most one header of each author and round that
   it has not garbage collected. *)
THEOREM OneVote == Spec => []VoteOnce
<1>1. Init => TypeOK /\ VoteInv
  BY InitType, InitVoteInv
<1>2. TypeOK /\ VoteInv /\ [Next]_vars => (TypeOK /\ VoteInv)'
  BY NextType, NextVoteInv
<1>3. VoteInv => VoteOnce
  BY DEF VoteInv
<1> QED  BY <1>1, <1>2, <1>3, PTL DEF Spec

-----------------------------------------------------------------------------
(* What a voter holds, and what the stores hold.                           *)

(* A vote says that the voter stores the header, its parents and its payload,
   and found the header well formed. *)
VotedHeld ==
    \A n \in Correct : \A h \in Headers :
        <<h, n>> \in votes => Has(n, h) /\ WellFormed(h)

(* Stores and waiters hold certificates of the network only. *)
FromNetwork ==
    \A n \in Correct : certificates[n] \subseteq certs /\ certificate_pending[n] \subseteq certs

StoreInv == VotedHeld /\ CausalDelivery /\ FromNetwork

LEMMA TurnStores ==
    ASSUME TypeOK, NEW n \in Correct, NEW h \in Headers, NEW aggregator,
           Turn(n, h, aggregator)
    PROVE  /\ \A m \in Correct : headers[m] \subseteq headers'[m]
           /\ \A m \in Correct : certificates[m] \subseteq certificates'[m]
           /\ \A m \in Correct : \A c \in certificates'[m] :
                 c \in certificates[m] \/ (m = n /\ c = h /\ deliver_certificate(n, h))
           /\ \A m \in Correct : certificate_pending'[m] \subseteq certificate_pending[m] \cup {h}
<1>1. PICK rest \in SUBSET certificate_pending[n] : CertificateTurn(n, h, rest)
  BY Zenon DEF Turn
<1>2. HeaderStored(n, h)
  BY Zenon DEF Turn, HeaderTurn
<1>3. CertificateStored(n, h) /\ CertificateSuspended(n, h, rest)
  BY <1>1, Zenon DEF CertificateTurn
<1>4. /\ headers \in [Correct -> SUBSET Headers]
      /\ certificates \in [Correct -> SUBSET Headers]
      /\ certificate_pending \in [Correct -> SUBSET Headers]
  BY DEF TypeOK
<1>5. \A m \in Correct : headers[m] \subseteq headers'[m]
  BY <1>2, <1>4 DEF HeaderStored
<1>6. /\ \A m \in Correct : certificates[m] \subseteq certificates'[m]
      /\ \A m \in Correct : \A c \in certificates'[m] :
                 c \in certificates[m] \/ (m = n /\ c = h /\ deliver_certificate(n, h))
  BY <1>3, <1>4 DEF CertificateStored
<1>7. \A m \in Correct : certificate_pending'[m] \subseteq certificate_pending[m] \cup {h}
  BY <1>1, <1>3, <1>4 DEF CertificateSuspended
<1> QED  BY <1>5, <1>6, <1>7

LEMMA TurnStoreInv ==
    ASSUME TypeOK, StoreInv, NEW n \in Correct, NEW h \in Headers, NEW aggregator,
           Turn(n, h, aggregator), certs \subseteq certs',
           h \in certs' \/ UNCHANGED <<certificates, certificate_pending>>
    PROVE  StoreInv'
<1>0. batches' = batches
  BY DEF Turn
<1>1. VotedHeld'
  <2> SUFFICES ASSUME NEW m \in Correct, NEW g \in Headers, <<g, m>> \in votes'
               PROVE  Has(m, g)' /\ WellFormed(g)
    BY DEF VotedHeld, WellFormed, ParentStake
  <2>1. CASE <<g, m>> \in votes
    <3>1. Has(m, g) /\ WellFormed(g)
      BY <2>1 DEF StoreInv, VotedHeld
    <3>2. headers[m] \subseteq headers'[m] /\ certificates[m] \subseteq certificates'[m]
      BY TurnStores
    <3> QED  BY <1>0, <3>1, <3>2 DEF Has
  <2>2. CASE <<g, m>> \notin votes
    <3>1. g = h /\ m = n /\ Votes(n, h) /\ h \in headers'[n]
      BY <2>2, TurnVotes
    <3>2. certificates[n] \subseteq certificates'[n]
      BY TurnStores
    <3>3. Accepts(n, h)
      BY <3>1 DEF Votes
    <3>4. parents[h] \subseteq certificates[n] \cup Genesis
      BY <3>3 DEF Accepts, get_parents
    <3>5. author[h] # n => payload[h] \subseteq batches[n]
      BY <3>3 DEF Accepts, missing_payload
    <3> QED  BY <1>0, <3>1, <3>2, <3>3, <3>4, <3>5 DEF Has, Accepts
  <2> QED  BY <2>1, <2>2
<1>2. CausalDelivery'
  <2> SUFFICES ASSUME NEW m \in Correct, NEW c \in certificates'[m]
               PROVE  parents[c] \subseteq certificates'[m] \cup Genesis
    BY DEF CausalDelivery
  <2>1. certificates[m] \subseteq certificates'[m]
    BY TurnStores
  <2>2. c \in certificates[m] \/ (m = n /\ c = h /\ deliver_certificate(n, h))
    BY TurnStores
  <2> QED  BY <2>1, <2>2 DEF StoreInv, CausalDelivery, deliver_certificate
<1>3. FromNetwork'
  <2>1. CASE UNCHANGED <<certificates, certificate_pending>>
    BY <2>1 DEF StoreInv, FromNetwork
  <2>2. CASE h \in certs'
    BY <2>2, TurnStores DEF StoreInv, FromNetwork
  <2> QED  BY <2>1, <2>2
<1> QED  BY <1>1, <1>2, <1>3 DEF StoreInv

LEMMA NextStoreInv ==
    ASSUME TypeOK, StoreInv, [Next]_vars
    PROVE  StoreInv'
<1>1. ASSUME NEW n \in Correct, NEW h \in Headers, process_own_header(n, h)
      PROVE  StoreInv'
  <2>1. UNCHANGED <<certificates, certificate_pending>> /\ certs' = certs
    BY <1>1, Zenon DEF process_own_header
  <2> QED  BY <1>1, <2>1, OwnHeaderTurn, TurnStoreInv
<1>2. ASSUME NEW n \in Correct, NEW h \in Headers, ReceiveHeader(n, h) \/ LoopbackHeader(n, h)
      PROVE  StoreInv'
  <2>1. UNCHANGED <<certificates, certificate_pending>> /\ certs' = certs
    BY <1>2, Zenon DEF ReceiveHeader, LoopbackHeader
  <2> QED  BY <1>2, <2>1, OtherHeaderTurn, TurnStoreInv
<1>3. ASSUME NEW n \in Correct, NEW c \in Headers,
             ReceiveCertificate(n, c) \/ LoopbackCertificate(n, c)
      PROVE  StoreInv'
  <2>1. certs' = certs /\ (c \in certs \/ c \in certificate_pending[n])
    BY <1>3, Zenon DEF ReceiveCertificate, LoopbackCertificate
  <2>2. c \in certs'
    BY <2>1 DEF StoreInv, FromNetwork
  <2> QED  BY <1>3, <2>1, <2>2, OtherCertificateTurn, TurnStoreInv
<1>4. ASSUME NEW n \in Correct, NEW v \in Authorities, ReceiveVote(n, v)
      PROVE  StoreInv'
  <2>1. current_header[n] \in Headers
    BY <1>4 DEF TypeOK, ReceiveVote
  <2>2. CASE certs' = certs \cup {current_header[n]}
    <3>1. current_header[n] \in certs' /\ certs \subseteq certs'
      BY <2>2
    <3> QED  BY <1>4, <2>1, <3>1, VoteTurn, TurnStoreInv
  <2>3. CASE /\ Turn(n, current_header[n], Counted(n, v)) /\ certs' = certs
             /\ UNCHANGED <<certificates, certificate_pending>>
    BY <2>1, <2>3, TurnStoreInv
  <2>4. ASSUME ~ (certs' = certs \cup {current_header[n]})
        PROVE  UNCHANGED <<certificates, certificate_pending>>
    BY <1>4, <2>4 DEF ReceiveVote, waiters
  <2> QED  BY <1>4, <2>2, <2>3, <2>4, VoteTurn
<1>5. ASSUME NEW n \in Correct, RejectMessage(n)
      PROVE  StoreInv'
  <2>1. PICK g \in Headers : TRUE
    BY CoreAssumption DEF Correct, Genesis
  <2>2. UNCHANGED <<certificates, certificate_pending>> /\ certs' = certs
    BY <1>5 DEF RejectMessage, store, waiters, network
  <2> QED  BY <1>5, <2>1, <2>2, RejectTurn, TurnStoreInv
<1>6. ASSUME UNCHANGED <<votes, headers, certificates, certificate_pending>>,
             certs \subseteq certs',
             \A m \in Correct : batches[m] \subseteq batches'[m]
      PROVE  StoreInv'
  <2>1. VotedHeld'
    BY <1>6 DEF StoreInv, VotedHeld, Has, WellFormed, ParentStake
  <2>2. CausalDelivery' /\ FromNetwork'
    BY <1>6 DEF StoreInv, CausalDelivery, FromNetwork
  <2> QED  BY <2>1, <2>2 DEF StoreInv
<1>7. ASSUME NEW n \in Correct, NEW b \in Batches, ReceiveBatch(n, b)
      PROVE  StoreInv'
  <2>1. UNCHANGED <<votes, headers, certificates, certificate_pending, certs>>
    BY <1>7 DEF ReceiveBatch, waiters, network
  <2>2. \A m \in Correct : batches[m] \subseteq batches'[m]
    BY <1>7 DEF ReceiveBatch, TypeOK
  <2> QED  BY <1>6, <2>1, <2>2
<1>8. ASSUME NEW n \in Correct, CancelPending(n)
      PROVE  StoreInv'
  BY <1>6, <1>8 DEF CancelPending, store, network
<1>9. ASSUME NEW n \in Correct, NEW r \in {round[h] : h \in Headers}, AdvanceConsensusRound(n, r)
      PROVE  StoreInv'
  BY <1>6, <1>9 DEF AdvanceConsensusRound, store, waiters, network
<1>10. ASSUME NEW c \in FaultyCertificates, FaultyCertificate(c)
      PROVE  StoreInv'
  BY <1>6, <1>10 DEF FaultyCertificate, store, waiters
<1>11. CASE UNCHANGED vars
  BY <1>6, <1>11 DEF vars, store, waiters, network
<1> QED  BY <1>1, <1>2, <1>3, <1>4, <1>5, <1>7, <1>8, <1>9, <1>10, <1>11 DEF Next

LEMMA InitStoreInv == Init => StoreInv
BY DEF Init, StoreInv, VotedHeld, CausalDelivery, FromNetwork

(* The consensus never receives a certificate before its parents. *)
THEOREM CausalOrder == Spec => []CausalDelivery
<1>1. Init => TypeOK /\ StoreInv
  BY InitType, InitStoreInv
<1>2. TypeOK /\ StoreInv /\ [Next]_vars => (TypeOK /\ StoreInv)'
  BY NextType, NextStoreInv
<1>3. StoreInv => CausalDelivery
  BY DEF StoreInv
<1> QED  BY <1>1, <1>2, <1>3, PTL DEF Spec

-----------------------------------------------------------------------------
(* The parents sent to the Proposer make a well-formed header.             *)

(* The certificates being aggregated are in the store, and what was sent to the
   Proposer is a quorum of stored certificates of one round. *)
ParentsInv ==
    \A n \in Correct :
        /\ certificates_aggregators[n].certificates \subseteq certificates[n]
        /\ \A p \in tx_proposer[n] :
             /\ p[1] \subseteq certificates[n]
             /\ \A c \in p[1] : round[c] = p[2]
             /\ IsQuorum({author[c] : c \in p[1]})

LEMMA TurnParentsInv ==
    ASSUME TypeOK, ParentsInv, NEW n \in Correct, NEW h \in Headers, NEW aggregator,
           Turn(n, h, aggregator)
    PROVE  ParentsInv'
<1>1. CertificateAggregated(n, h) /\ ParentsSent(n, h)
  BY Zenon DEF Turn, CertificateTurn
<1>2. \A m \in Correct : certificates[m] \subseteq certificates'[m]
  BY TurnStores
<1>3. /\ certificates_aggregators \in [Correct -> AggregatedType]
      /\ certificates \in [Correct -> SUBSET Headers]
      /\ tx_proposer \in [Correct -> SUBSET ((SUBSET Headers) \X Nat)]
  BY DEF TypeOK, AggregatedType
<1>4. certificates_aggregators[n].certificates \subseteq certificates[n]
  BY DEF ParentsInv
<1>5. \A A : Kept(n, A).certificates \subseteq A.certificates
  BY DEF Kept, KeepHeaders
<1>6. append(n, h).certificates \subseteq certificates_aggregators[n].certificates \cup {h}
  BY DEF append
<1>7. certificates_aggregators'[n].certificates \subseteq certificates'[n]
  <2>1. CASE certificates_aggregators' = [certificates_aggregators EXCEPT ![n] =
                  Kept(n, certificates_aggregators[n])]
    <3>1. certificates_aggregators'[n] = Kept(n, certificates_aggregators[n])
      BY <1>3, <2>1
    <3> QED  BY <1>2, <1>4, <1>5, <3>1
  <2>2. CASE /\ certificates_aggregators' = [certificates_aggregators EXCEPT ![n] = Kept(n, append(n, h))]
             /\ certificates' = [certificates EXCEPT ![n] = @ \cup {h}]
    <3>1. /\ certificates_aggregators'[n] = Kept(n, append(n, h))
          /\ certificates'[n] = certificates[n] \cup {h}
      BY <1>3, <2>2
    <3> QED  BY <1>4, <1>5, <1>6, <3>1
  <2> QED  BY <1>1, <2>1, <2>2 DEF CertificateAggregated
<1>8. \A m \in Correct \ {n} : certificates_aggregators'[m] = certificates_aggregators[m]
  BY <1>1, <1>3 DEF CertificateAggregated
<1>9. ASSUME NEW m \in Correct, NEW p \in tx_proposer'[m]
      PROVE  /\ p[1] \subseteq certificates'[m]
             /\ \A c \in p[1] : round[c] = p[2]
             /\ IsQuorum({author[c] : c \in p[1]})
  <2>1. CASE p \in tx_proposer[m]
    BY <1>2, <2>1 DEF ParentsInv
  <2>2. CASE p \notin tx_proposer[m]
    <3>1. /\ tx_proposer' = [tx_proposer EXCEPT ![n] = @ \cup {<<Held(n, h), round[h]>>}]
          /\ ReachesQuorum(n, h)
          /\ certificates' = [certificates EXCEPT ![n] = @ \cup {h}]
      BY <1>1, <1>3, <1>9, <2>2 DEF ParentsSent
    <3>2. m = n /\ p = <<Held(n, h), round[h]>> /\ certificates'[n] = certificates[n] \cup {h}
      BY <1>3, <1>9, <2>2, <3>1
    <3>3. Held(n, h) \subseteq certificates[n] \cup {h} /\ \A c \in Held(n, h) : round[c] = round[h]
      BY <1>4 DEF Held
    <3> QED  BY <3>1, <3>2, <3>3 DEF ReachesQuorum
  <2> QED  BY <2>1, <2>2
<1>10. \A m \in Correct : certificates_aggregators'[m].certificates \subseteq certificates'[m]
  BY <1>2, <1>7, <1>8 DEF ParentsInv
<1> QED  BY <1>9, <1>10 DEF ParentsInv, IsQuorum, Weight, StakeUnits, quorum_threshold, total_votes

LEMMA NextParentsInv ==
    ASSUME TypeOK, ParentsInv, [Next]_vars
    PROVE  ParentsInv'
<1>1. ASSUME NEW n \in Correct, NEW h \in Headers, process_own_header(n, h)
      PROVE  ParentsInv'
  BY <1>1, OwnHeaderTurn, TurnParentsInv
<1>2. ASSUME NEW n \in Correct, NEW h \in Headers, ReceiveHeader(n, h) \/ LoopbackHeader(n, h)
      PROVE  ParentsInv'
  BY <1>2, OtherHeaderTurn, TurnParentsInv
<1>3. ASSUME NEW n \in Correct, NEW c \in Headers,
             ReceiveCertificate(n, c) \/ LoopbackCertificate(n, c)
      PROVE  ParentsInv'
  BY <1>3, OtherCertificateTurn, TurnParentsInv
<1>4. ASSUME NEW n \in Correct, NEW v \in Authorities, ReceiveVote(n, v)
      PROVE  ParentsInv'
  <2>1. current_header[n] \in Headers
    BY <1>4 DEF TypeOK, ReceiveVote
  <2> QED  BY <1>4, <2>1, VoteTurn, TurnParentsInv
<1>5. ASSUME NEW n \in Correct, RejectMessage(n)
      PROVE  ParentsInv'
  <2>1. PICK g \in Headers : TRUE
    BY CoreAssumption DEF Correct, Genesis
  <2> QED  BY <1>5, <2>1, RejectTurn, TurnParentsInv
<1>6. ASSUME UNCHANGED <<certificates, certificates_aggregators, tx_proposer>>
      PROVE  ParentsInv'
  BY <1>6 DEF ParentsInv, IsQuorum, Weight, StakeUnits, quorum_threshold, total_votes
<1>7. ASSUME NEW n \in Correct, NEW b \in Batches, ReceiveBatch(n, b)
      PROVE  ParentsInv'
  BY <1>6, <1>7 DEF ReceiveBatch, core
<1>8. ASSUME NEW n \in Correct, CancelPending(n)
      PROVE  ParentsInv'
  BY <1>6, <1>8 DEF CancelPending, core, store
<1>9. ASSUME NEW n \in Correct, NEW r \in {round[h] : h \in Headers}, AdvanceConsensusRound(n, r)
      PROVE  ParentsInv'
  BY <1>6, <1>9 DEF AdvanceConsensusRound, core, store
<1>10. ASSUME NEW c \in FaultyCertificates, FaultyCertificate(c)
      PROVE  ParentsInv'
  BY <1>6, <1>10 DEF FaultyCertificate, core, store
<1>11. CASE UNCHANGED vars
  BY <1>6, <1>11 DEF vars, core, store
<1> QED  BY <1>1, <1>2, <1>3, <1>4, <1>5, <1>7, <1>8, <1>9, <1>10, <1>11 DEF Next

(* The parents of a header have finitely many units of stake. *)
LEMMA ParentUnitsFinite ==
    ASSUME NEW h \in Headers
    PROVE  IsFiniteSet(UNION {{p} \X (1 .. Stake[author[p]]) : p \in parents[h]})
<1> DEFINE P == parents[h]
           U(p) == {p} \X (1 .. Stake[author[p]])
<1>0. /\ IsFiniteSet(P) /\ P \subseteq Headers
      /\ \A p \in P : author[p] \in Authorities /\ Stake[author[p]] \in Nat
  BY CoreAssumption, CommitteeAssumption
<1>1. \A p \in P : IsFiniteSet(U(p))
  <2> SUFFICES ASSUME NEW p \in P PROVE IsFiniteSet(U(p))
    OBVIOUS
  <2>1. IsFiniteSet(1 .. Stake[author[p]])
    BY <1>0, FS_Interval
  <2>2. IsFiniteSet({p})
    BY FS_Singleton
  <2> QED  BY <2>1, <2>2, FS_Product
<1>2. IsFiniteSet({U(p) : p \in P})
  <2> DEFINE g == [p \in P |-> U(p)]
  <2> HIDE DEF U
  <2>1. g \in Surjection(P, {U(p) : p \in P})
    BY DEF Surjection
  <2> QED  BY <1>0, <2>1, FS_Surjection
<1>3. IsFiniteSet(UNION {U(p) : p \in P})
  <2> HIDE DEF U
  <2>1. \A T \in {U(p) : p \in P} : IsFiniteSet(T)
    BY <1>1
  <2> QED  BY <1>2, <2>1, FS_UNION
<1> QED  BY <1>3

(* The stake of the parents is at least that of their authors. *)
LEMMA ParentStakeBound ==
    ASSUME NEW h \in Headers
    PROVE  Weight({author[p] : p \in parents[h]}) <= ParentStake(h)
<1> DEFINE P == parents[h]
           A == {author[p] : p \in P}
           S == UNION {{p} \X (1 .. Stake[author[p]]) : p \in P}
           f == [u \in S |-> <<author[u[1]], u[2]>>]
<1>1. IsFiniteSet(S)
  BY ParentUnitsFinite
<1>2. f \in Surjection(S, StakeUnits(A))
  <2>1. ASSUME NEW u \in S PROVE f[u] \in StakeUnits(A)
    BY <2>1 DEF StakeUnits
  <2>2. ASSUME NEW t \in StakeUnits(A) PROVE \E u \in S : f[u] = t
    <3>1. PICK p \in P : t \in {author[p]} \X (1 .. Stake[author[p]])
      BY <2>2 DEF StakeUnits
    <3>2. PICK i \in 1 .. Stake[author[p]] : t = <<author[p], i>>
      BY <3>1
    <3>3. <<p, i>> \in S /\ f[<<p, i>>] = t
      BY <3>2
    <3> QED  BY <3>3
  <2>3. f \in [S -> StakeUnits(A)]
    BY <2>1
  <2> QED  BY <2>2, <2>3 DEF Surjection
<1> HIDE DEF f
<1>3. Cardinality(StakeUnits(A)) <= Cardinality(S)
  BY <1>1, <1>2, FS_Surjection
<1> QED  BY <1>3 DEF Weight, ParentStake

(* A header of the Proposer is accepted by its own Core. *)
LEMMA OwnHeaderAccepted ==
    ASSUME TypeOK, ParentsInv, NEW n \in Correct, NEW h \in Headers, process_own_header(n, h)
    PROVE  Accepts(n, h)
<1>0. /\ author[h] = n
      /\ \/ round[h] = 1 /\ parents[h] = Genesis
         \/ round[h] > 1 /\ <<parents[h], round[h] - 1>> \in tx_proposer[n]
  BY Zenon DEF process_own_header
<1>1. round[h] \in Nat /\ parents[h] \subseteq Headers
  BY CoreAssumption
<1>2. /\ parents[h] \subseteq certificates[n] \cup Genesis
      /\ \A p \in parents[h] : round[p] + 1 = round[h]
      /\ IsQuorum({author[p] : p \in parents[h]})
  <2>1. CASE round[h] = 1 /\ parents[h] = Genesis
    <3>1. {author[p] : p \in Genesis} = Authorities
      BY CoreAssumption DEF Genesis
    <3>2. IsQuorum(Authorities)
      <4>1. total_votes \in Nat /\ total_votes > 0
        BY CoreAssumption, ThresholdFacts
      <4> QED  BY <4>1 DEF IsQuorum, quorum_threshold, total_votes
    <3> QED  BY <2>1, <3>1, <3>2 DEF Genesis
  <2>2. CASE round[h] > 1 /\ <<parents[h], round[h] - 1>> \in tx_proposer[n]
    <3> DEFINE p == <<parents[h], round[h] - 1>>
    <3>1. /\ p[1] \subseteq certificates[n]
          /\ \A c \in p[1] : round[c] = p[2]
          /\ IsQuorum({author[c] : c \in p[1]})
      BY <2>2 DEF ParentsInv
    <3> QED  BY <1>1, <2>2, <3>1
  <2> QED  BY <1>0, <2>1, <2>2
<1>3. parents[h] # {}
  <2>1. quorum_threshold > 0
    BY ThresholdFacts DEF quorum_threshold
  <2>2. {author[p] : p \in {}} = {}
    OBVIOUS
  <2>3. ~ IsQuorum({})
    BY <2>1, WeightOfNone, ThresholdFacts DEF IsQuorum
  <2> QED  BY <1>2, <2>2, <2>3
<1>4. ParentStake(h) >= quorum_threshold
  <2>1. {author[p] : p \in parents[h]} \in SUBSET Authorities
    BY <1>1, CoreAssumption
  <2>2. Weight({author[p] : p \in parents[h]}) \in Nat
    BY <2>1, UnitsFinite
  <2>3. ParentStake(h) \in Int
    <3>1. IsFiniteSet(UNION {{p} \X (1 .. Stake[author[p]]) : p \in parents[h]})
      BY ParentUnitsFinite
    <3> QED  BY <3>1, FS_CardinalityType DEF ParentStake
  <2> QED  BY <1>2, <2>2, <2>3, ParentStakeBound, ThresholdFacts DEF IsQuorum
<1> QED  BY <1>0, <1>2, <1>3, <1>4 DEF Accepts, get_parents, WellFormed, missing_payload

-----------------------------------------------------------------------------
(* The Core's own headers and votes.                                       *)

\* The header is one its correct author has proposed already, or genesis.
Past(h) ==
    (author[h] \in Correct /\ h \notin Genesis) =>
        /\ current_header[author[h]] # NoHeader
        /\ round[h] <= round[current_header[author[h]]]

Known(h) ==
    \/ h \in sent_headers
    \/ h \in certs
    \/ \E m \in Correct : \E k \in {"parents", "payload"} : <<k, h>> \in header_pending[m]

(* Nobody knows a header of a correct author that it has not proposed. *)
OwnKnown == \A h \in Headers : Known(h) => Past(h)

(* The Core has voted for its own headers up to the current one only. *)
OwnSlots ==
    \A n \in Correct : \A s \in last_voted[n] :
        s[2] = n => (current_header[n] # NoHeader /\ s[1] <= round[current_header[n]])

(* Its own vote is the first the aggregator counts for a header. *)
OwnVoteFirst ==
    \A n \in Correct : current_header[n] # NoHeader => n \in votes_aggregator[n].used

(* The aggregator counts votes cast for the current header, or by faulty
   authorities, and its weight is covered by them. *)
VotesCounted ==
    \A n \in Correct :
        /\ votes_aggregator[n].used \subseteq Voters(current_header[n]) \cup Faulty
        /\ votes_aggregator[n].weight <= Weight(votes_aggregator[n].used)

(* The current header has been broadcast. *)
OwnCurrent == \A n \in Correct : current_header[n] # NoHeader => current_header[n] \in sent_headers

(* Every certificate of the network verifies. *)
CertsVerify == \A c \in certs : Certified(c)

OwnInv == OwnCurrent /\ OwnKnown /\ OwnSlots /\ OwnVoteFirst /\ VotesCounted /\ CertsVerify

(* The pending and the voted part of a turn. *)
LEMMA TurnOwn ==
    ASSUME TypeOK, OwnKnown, OwnSlots, NEW n \in Correct, NEW h \in Headers, NEW aggregator,
           Turn(n, h, aggregator),
           sent_headers' \subseteq sent_headers \cup {h},
           certs' \subseteq certs \cup {h},
           Past(h)',
           \A m \in Correct : current_header[m] # NoHeader =>
               /\ current_header'[m] # NoHeader
               /\ round[current_header[m]] <= round[current_header'[m]],
           \A m \in Correct : current_header'[m] # NoHeader => current_header'[m] \in Headers
    PROVE  OwnKnown' /\ OwnSlots'
<1>0. /\ \A g \in Headers : round[g] \in Nat /\ author[g] \in Authorities
      /\ \A m \in Correct : current_header[m] # NoHeader => current_header[m] \in Headers
  BY CoreAssumption DEF TypeOK
<1>1. \A g \in Headers : Past(g) => Past(g)'
  BY <1>0 DEF Past
<1>2. \A m \in Correct : \A k \in {"parents", "payload"} : \A g \in Headers :
        <<k, g>> \in header_pending'[m] => (g = h \/ <<k, g>> \in header_pending[m])
  <2>1. PICK pending \in SUBSET header_pending[n] : HeaderTurn(n, h, aggregator, pending)
    BY Zenon DEF Turn
  <2>2. HeaderSuspended(n, h, pending)
    BY <2>1, Zenon DEF HeaderTurn
  <2>3. header_pending \in [Correct -> PendingType]
    BY DEF TypeOK, PendingType
  <2>4. \A m \in Correct : header_pending'[m] \subseteq
           header_pending[m] \cup {<<"parents", h>>, <<"payload", h>>}
    BY <2>1, <2>2, <2>3 DEF HeaderSuspended
  <2> QED  BY <2>4
<1>3. OwnKnown'
  <2> SUFFICES ASSUME NEW g \in Headers, Known(g)', g # h
               PROVE  Past(g)'
    BY DEF OwnKnown
  <2>1. Known(g)
    BY <1>2 DEF Known
  <2> QED  BY <1>1, <2>1 DEF OwnKnown
<1>4. OwnSlots'
  <2> SUFFICES ASSUME NEW m \in Correct, NEW s \in last_voted'[m], s[2] = m
               PROVE  current_header'[m] # NoHeader /\ s[1] <= round[current_header'[m]]
    BY DEF OwnSlots
  <2>0. last_voted \in [Correct -> SUBSET (Nat \X Authorities)]
    BY DEF TypeOK
  <2>1. VotesKept(n, h)
    BY Zenon DEF Turn, HeaderTurn
  <2>2. \/ s \in last_voted[m]
        \/ m = n /\ Votes(n, h) /\ s = Slot(h)
    <3>1. CASE m # n
      BY <2>0, <2>1, <3>1 DEF VotesKept
    <3>2. CASE m = n
      <4>1. last_voted'[n] \subseteq VotedAfter(n, h)
        BY <2>0, <2>1 DEF VotesKept, KeepSlots, VotedAfter
      <4> QED  BY <3>2, <4>1 DEF VotedAfter
    <3> QED  BY <3>1, <3>2
  <2>3. CASE s \in last_voted[m]
    <3>1. current_header[m] # NoHeader /\ s[1] <= round[current_header[m]]
      BY <2>3 DEF OwnSlots
    <3>2. s[1] \in Nat
      BY <2>0, <2>3
    <3>3. current_header[m] \in Headers /\ current_header'[m] \in Headers
      BY <1>0, <3>1
    <3> QED  BY <1>0, <3>1, <3>2, <3>3
  <2>4. CASE m = n /\ Votes(n, h) /\ s = Slot(h)
    <3>1. author[h] = n /\ s[1] = round[h]
      BY <2>4 DEF Slot
    <3>2. h \notin Genesis
      BY <2>4, CoreAssumption DEF Votes, Accepts, get_parents
    <3> QED  BY <2>4, <3>1, <3>2 DEF Past
  <2> QED  BY <2>2, <2>3, <2>4
<1> QED  BY <1>3, <1>4

(* A turn that starts from an aggregator with our own vote, or from the header
   of another author, leaves that aggregator behind. *)
LEMMA TurnAggregator ==
    ASSUME TypeOK, NEW n \in Correct, NEW h \in Headers, NEW aggregator,
           Turn(n, h, aggregator), Past(h),
           current_header[n] # NoHeader => n \in aggregator.used
    PROVE  votes_aggregator' = [votes_aggregator EXCEPT ![n] = aggregator]
<1>1. OwnVoteCounted(n, h, aggregator)
  BY Zenon DEF Turn, HeaderTurn
<1>2. ASSUME author[h] = n, Votes(n, h), n \notin aggregator.used
      PROVE  FALSE
  <2>1. h \notin Genesis
    BY <1>2, CoreAssumption DEF Votes, Accepts, get_parents
  <2> QED  BY <1>2, <2>1 DEF Past
<1> QED  BY <1>1, <1>2, Zenon DEF OwnVoteCounted

(* Votes only accumulate, so that what is counted stays covered. *)
LEMMA TurnCounted ==
    ASSUME TypeOK, VotesCounted, OwnVoteFirst, NEW n \in Correct, NEW aggregator \in AggregatorType,
           votes \subseteq votes',
           votes_aggregator' = [votes_aggregator EXCEPT ![n] = aggregator],
           \A m \in Correct \ {n} : current_header'[m] = current_header[m],
           aggregator.used \subseteq Voters(current_header[n])' \cup Faulty,
           current_header'[n] = current_header[n],
           aggregator.weight <= Weight(aggregator.used),
           current_header[n] # NoHeader => n \in aggregator.used
    PROVE  VotesCounted' /\ OwnVoteFirst'
<1>0. votes_aggregator \in [Correct -> AggregatorType]
  BY DEF TypeOK, AggregatorType
<1>1. /\ votes_aggregator'[n] = aggregator
      /\ \A m \in Correct \ {n} : votes_aggregator'[m] = votes_aggregator[m]
  BY <1>0
<1>2. ASSUME NEW m \in Correct
      PROVE  /\ votes_aggregator'[m].used \subseteq Voters(current_header[m])' \cup Faulty
             /\ votes_aggregator'[m].weight <= Weight(votes_aggregator'[m].used)
  <2>1. CASE m = n
    BY <1>1, <2>1
  <2>2. CASE m # n
    <3>1. current_header'[m] = current_header[m] /\ votes_aggregator'[m] = votes_aggregator[m]
      BY <1>1, <2>2
    <3>2. Voters(current_header[m]) \subseteq Voters(current_header[m])'
      BY <3>1 DEF Voters
    <3> QED  BY <3>1, <3>2 DEF VotesCounted
  <2> QED  BY <2>1, <2>2
<1>4. VotesCounted'
  BY <1>2 DEF VotesCounted, Weight, StakeUnits
<1>5. OwnVoteFirst'
  BY <1>1 DEF OwnVoteFirst
<1> QED  BY <1>4, <1>5

(* More votes keep a certificate verified. *)
LEMMA CertifiedStays ==
    ASSUME TypeOK, TypeOK', votes \subseteq votes', NEW c, Certified(c)
    PROVE  Certified(c)'
<1>1. Voters(c) \cup Faulty \subseteq Voters(c)' \cup Faulty
  BY DEF Voters
<1>2. Voters(c)' \cup Faulty \in SUBSET Authorities
  BY CoreAssumption DEF Voters, Correct
<1>3. Weight(Voters(c) \cup Faulty) <= Weight(Voters(c)' \cup Faulty)
  BY <1>1, <1>2, WeightMonotone
<1>4. /\ Weight(Voters(c) \cup Faulty) \in Nat
      /\ Weight(Voters(c)' \cup Faulty) \in Nat
      /\ quorum_threshold \in Nat
  BY <1>1, <1>2, UnitsFinite, ThresholdFacts
<1>5. c \in Genesis \/ IsQuorum(Voters(c) \cup Faulty)
  BY DEF Certified
<1>6. IsQuorum(Voters(c) \cup Faulty) => IsQuorum(Voters(c)' \cup Faulty)
  BY <1>3, <1>4 DEF IsQuorum
<1> QED  BY <1>5, <1>6 DEF Certified, IsQuorum, Weight, StakeUnits, quorum_threshold,
                           total_votes, Genesis

(* A turn other than the proposal of a header. *)
LEMMA TurnOwnInv ==
    ASSUME TypeOK, TypeOK', OwnInv, NEW n \in Correct, NEW h \in Headers,
           NEW aggregator \in AggregatorType, Turn(n, h, aggregator),
           Past(h), UNCHANGED <<current_header, sent_headers>>,
           certs \subseteq certs', certs' \subseteq certs \cup {h},
           h \in certs' => Certified(h),
           aggregator.used \subseteq Voters(current_header[n]) \cup Faulty,
           aggregator.weight <= Weight(aggregator.used),
           current_header[n] # NoHeader => n \in aggregator.used
    PROVE  OwnInv'
<1>0. \A m \in Correct : current_header[m] # NoHeader => current_header[m] \in Headers
  BY DEF TypeOK
<1>1. votes \subseteq votes'
  BY TurnVotes
<1>2. \A m \in Correct : current_header[m] # NoHeader =>
           /\ current_header'[m] # NoHeader
           /\ round[current_header[m]] <= round[current_header'[m]]
  <2>1. \A m \in Correct : current_header[m] # NoHeader => round[current_header[m]] \in Nat
    BY <1>0, CoreAssumption
  <2> QED  BY <2>1
<1>3. OwnKnown' /\ OwnSlots'
  <2>1. Past(h)'
    BY DEF Past
  <2>2. OwnKnown /\ OwnSlots
    BY DEF OwnInv
  <2>3. sent_headers' \subseteq sent_headers \cup {h}
    OBVIOUS
  <2>4. \A m \in Correct : current_header'[m] # NoHeader => current_header'[m] \in Headers
    BY <1>0
  <2> QED  BY <1>2, <2>1, <2>2, <2>3, <2>4, TurnOwn
<1>4. VotesCounted' /\ OwnVoteFirst'
  <2>1. votes_aggregator' = [votes_aggregator EXCEPT ![n] = aggregator]
    BY TurnAggregator
  <2>2. Voters(current_header[n]) \subseteq Voters(current_header[n])'
    BY <1>1 DEF Voters
  <2>3. aggregator.used \subseteq Voters(current_header[n])' \cup Faulty
    BY <2>2
  <2>4. VotesCounted /\ OwnVoteFirst
    BY DEF OwnInv
  <2> QED  BY <1>1, <2>1, <2>3, <2>4, TurnCounted
<1>5. CertsVerify'
  <2> SUFFICES ASSUME NEW c \in certs' PROVE Certified(c)'
    BY DEF CertsVerify
  <2>1. Certified(c)
    BY DEF OwnInv, CertsVerify
  <2> QED  BY <1>1, <2>1, CertifiedStays
<1>6. OwnCurrent'
  BY DEF OwnInv, OwnCurrent
<1> QED  BY <1>3, <1>4, <1>5, <1>6 DEF OwnInv

(* The proposal of a header: the aggregator restarts with our own vote. *)
LEMMA ProposeOwnInv ==
    ASSUME TypeOK, TypeOK', ParentsInv, OwnInv, NEW n \in Correct, NEW h \in Headers,
           process_own_header(n, h)
    PROVE  OwnInv'
<1>0. /\ author[h] = n
      /\ current_header[n] # NoHeader => round[h] > round[current_header[n]]
      /\ current_header' = [current_header EXCEPT ![n] = h]
      /\ sent_headers' = sent_headers \cup {h}
      /\ certs' = certs
      /\ process_header(n, h, NewVotesAggregator, header_pending[n])
  BY Zenon DEF process_own_header
<1>1. /\ \A g \in Headers : round[g] \in Nat
      /\ \A m \in Correct : current_header[m] # NoHeader => current_header[m] \in Headers
      /\ NoHeader \notin Headers
      /\ current_header \in [Correct -> Headers \cup {NoHeader}]
  BY CoreAssumption DEF TypeOK
<1>2. Turn(n, h, NewVotesAggregator)
  BY OwnHeaderTurn
<1>3. /\ current_header'[n] = h
      /\ \A m \in Correct \ {n} : current_header'[m] = current_header[m]
  BY <1>0, <1>1
<1>4. votes \subseteq votes'
  BY <1>2, TurnVotes
<1>5. OwnKnown' /\ OwnSlots'
  <2>1. Past(h)'
    BY <1>0, <1>1, <1>3 DEF Past
  <2>2. OwnKnown /\ OwnSlots
    BY DEF OwnInv
  <2>3. \A m \in Correct : current_header[m] # NoHeader =>
           /\ current_header'[m] # NoHeader
           /\ round[current_header[m]] <= round[current_header'[m]]
    BY <1>0, <1>1, <1>3
  <2>4. \A m \in Correct : current_header'[m] # NoHeader => current_header'[m] \in Headers
    BY <1>1, <1>3
  <2>5. sent_headers' \subseteq sent_headers \cup {h} /\ certs' \subseteq certs \cup {h}
    BY <1>0
  <2> QED  BY <1>2, <2>1, <2>2, <2>3, <2>4, <2>5, TurnOwn
<1>6. Votes(n, h)
  <2>1. Slot(h)[1] = round[h] /\ Slot(h)[2] = n
    BY <1>0 DEF Slot
  <2>2. Slot(h) \notin last_voted[n]
    BY <1>0, <1>1, <2>1 DEF OwnInv, OwnSlots
  <2> QED  BY <2>2, OwnHeaderAccepted DEF Votes
<1>7. /\ votes' = votes \cup {<<h, n>>}
      /\ votes_aggregator' = [votes_aggregator EXCEPT ![n] =
              [weight |-> NewVotesAggregator.weight + Stake[n],
               used   |-> NewVotesAggregator.used \cup {n}]]
  <2>1. n \notin NewVotesAggregator.used
    BY DEF NewVotesAggregator
  <2>2. Accepts(n, h)
    BY <1>6 DEF Votes
  <2>3. CastVote(n, h, NewVotesAggregator)
    BY <1>0, <2>2, Zenon DEF process_header, Accepts
  <2> QED  BY <1>0, <1>6, <2>1, <2>3, Zenon DEF CastVote
<1>8. votes_aggregator'[n] = [weight |-> Stake[n], used |-> {n}]
  <2>1. Stake[n] \in Nat
    BY CommitteeAssumption DEF Correct
  <2>2. votes_aggregator \in [Correct -> AggregatorType]
    BY DEF TypeOK, AggregatorType
  <2>3. NewVotesAggregator.weight = 0 /\ NewVotesAggregator.used = {}
    BY DEF NewVotesAggregator
  <2>4. votes_aggregator'[n] = [weight |-> NewVotesAggregator.weight + Stake[n],
                                used   |-> NewVotesAggregator.used \cup {n}]
    BY <1>7, <2>2
  <2>5. NewVotesAggregator.weight + Stake[n] = Stake[n] /\ NewVotesAggregator.used \cup {n} = {n}
    BY <2>1, <2>3
  <2> QED  BY <2>4, <2>5
<1>9. \A m \in Correct \ {n} : votes_aggregator'[m] = votes_aggregator[m]
  <2>1. votes_aggregator \in [Correct -> AggregatorType]
    BY DEF TypeOK, AggregatorType
  <2> QED  BY <1>7, <2>1
<1>10. VotesCounted'
  <2>1. ASSUME NEW m \in Correct
        PROVE  /\ votes_aggregator'[m].used \subseteq Voters(current_header[m])' \cup Faulty
               /\ votes_aggregator'[m].weight <= Weight(votes_aggregator'[m].used)
    <3>1. CASE m = n
      <4>1. n \in Voters(current_header[n])'
        BY <1>3, <1>7 DEF Voters
      <4>2. Weight({n}) = Stake[n] /\ Stake[n] \in Nat
        BY WeightOfOne, CommitteeAssumption DEF Correct
      <4> QED  BY <1>8, <3>1, <4>1, <4>2
    <3>2. CASE m # n
      <4>1. Voters(current_header[m]) \subseteq Voters(current_header[m])'
        BY <1>3, <1>4, <3>2 DEF Voters
      <4>2. /\ votes_aggregator[m].used \subseteq Voters(current_header[m]) \cup Faulty
            /\ votes_aggregator[m].weight <= Weight(votes_aggregator[m].used)
        BY DEF OwnInv, VotesCounted
      <4>3. votes_aggregator'[m] = votes_aggregator[m]
        BY <1>9, <3>2
      <4> QED  BY <4>1, <4>2, <4>3
    <3> QED  BY <3>1, <3>2
  <2> QED  BY <2>1 DEF VotesCounted, Weight, StakeUnits
<1>11. OwnVoteFirst'
  BY <1>3, <1>8, <1>9 DEF OwnInv, OwnVoteFirst
<1>12. CertsVerify'
  <2> SUFFICES ASSUME NEW c \in certs' PROVE Certified(c)'
    BY DEF CertsVerify
  <2>1. Certified(c)
    BY <1>0 DEF OwnInv, CertsVerify
  <2> QED  BY <1>4, <2>1, CertifiedStays
<1>13. OwnCurrent'
  BY <1>0, <1>3 DEF OwnInv, OwnCurrent
<1> QED  BY <1>5, <1>10, <1>11, <1>12, <1>13 DEF OwnInv

LEMMA NextOwnInv ==
    ASSUME TypeOK, TypeOK', StoreInv, ParentsInv, OwnInv, [Next]_vars
    PROVE  OwnInv'
<1>0. /\ OwnCurrent /\ OwnKnown /\ OwnSlots /\ OwnVoteFirst /\ VotesCounted /\ CertsVerify
      /\ \A h \in Headers : author[h] \in Authorities
  BY CoreAssumption DEF OwnInv
<1>1. ASSUME NEW n \in Correct, NEW h \in Headers, Turn(n, h, votes_aggregator[n]),
             Past(h), UNCHANGED <<current_header, sent_headers, certs>>
      PROVE  OwnInv'
  <2>1. /\ votes_aggregator[n] \in AggregatorType
        /\ votes_aggregator[n].used \subseteq Voters(current_header[n]) \cup Faulty
        /\ votes_aggregator[n].weight <= Weight(votes_aggregator[n].used)
        /\ current_header[n] # NoHeader => n \in votes_aggregator[n].used
    BY <1>0, AggregatorTypes DEF VotesCounted, OwnVoteFirst
  <2>2. h \in certs' => Certified(h)
    BY <1>0, <1>1 DEF CertsVerify
  <2>3. certs \subseteq certs' /\ certs' \subseteq certs \cup {h}
    BY <1>1
  <2> QED  BY <1>1, <2>1, <2>2, <2>3, TurnOwnInv
<1>2. ASSUME NEW n \in Correct, NEW h \in Headers, ReceiveHeader(n, h) \/ LoopbackHeader(n, h)
      PROVE  OwnInv'
  <2>1. /\ UNCHANGED <<current_header, sent_headers, certs>>
        /\ \/ h \in sent_headers \cup FaultyHeaders
           \/ <<"parents", h>> \in header_pending[n]
           \/ <<"payload", h>> \in header_pending[n]
    BY <1>2, Zenon DEF ReceiveHeader, LoopbackHeader
  <2>2. Past(h)
    <3>1. CASE h \in FaultyHeaders
      BY <3>1, CoreAssumption DEF Past, Correct
    <3>2. CASE Known(h)
      BY <1>0, <3>2 DEF OwnKnown
    <3> QED  BY <2>1, <3>1, <3>2 DEF Known
  <2> QED  BY <1>1, <1>2, <2>1, <2>2, OtherHeaderTurn
<1>3. ASSUME NEW n \in Correct, NEW c \in Headers,
             ReceiveCertificate(n, c) \/ LoopbackCertificate(n, c)
      PROVE  OwnInv'
  <2>1. /\ UNCHANGED <<current_header, sent_headers, certs>>
        /\ c \in certs \/ c \in certificate_pending[n]
    BY <1>3, Zenon DEF ReceiveCertificate, LoopbackCertificate
  <2>2. Past(c)
    BY <1>0, <2>1 DEF StoreInv, FromNetwork, OwnKnown, Known
  <2> QED  BY <1>1, <1>3, <2>1, <2>2, OtherCertificateTurn
<1>4. ASSUME NEW n \in Correct, NEW v \in Authorities, ReceiveVote(n, v)
      PROVE  OwnInv'
  <2> DEFINE h == current_header[n]
             fresh == [weight |-> 0, used |-> Counted(n, v).used]
  <2>1. /\ h # NoHeader
        /\ v \in Faulty \/ <<h, v>> \in votes
        /\ v \notin votes_aggregator[n].used
        /\ UNCHANGED <<current_header, sent_headers>>
    BY <1>4, Zenon DEF ReceiveVote
  <2>2. h \in Headers /\ Past(h)
    BY <1>0, <2>1 DEF TypeOK, OwnCurrent, OwnKnown, Known
  <2>3. /\ Counted(n, v).weight = votes_aggregator[n].weight + Stake[v]
        /\ Counted(n, v).used = votes_aggregator[n].used \cup {v}
    BY DEF Counted
  <2>4. Counted(n, v).used \subseteq Voters(h) \cup Faulty
    <3>1. votes_aggregator[n].used \subseteq Voters(h) \cup Faulty
      BY <1>0 DEF VotesCounted
    <3>2. v \in Voters(h) \cup Faulty
      BY <2>1 DEF Voters, Correct
    <3> QED  BY <2>3, <3>1, <3>2
  <2>5. /\ votes_aggregator[n].used \in SUBSET Authorities
        /\ votes_aggregator[n].weight \in Nat
        /\ Counted(n, v) \in AggregatorType /\ fresh \in AggregatorType
        /\ Stake[v] \in Nat
    BY AggregatorTypes, CommitteeAssumption DEF AggregatorType
  <2>6. Weight(Counted(n, v).used) = Weight(votes_aggregator[n].used) + Stake[v]
    BY <2>1, <2>3, <2>5, WeightAdd
  <2>7. Weight(votes_aggregator[n].used) \in Nat /\ Weight(Counted(n, v).used) \in Nat
    BY <2>5, <2>6, UnitsFinite
  <2>8. Counted(n, v).weight <= Weight(Counted(n, v).used)
    <3>1. votes_aggregator[n].weight <= Weight(votes_aggregator[n].used)
      BY <1>0 DEF VotesCounted
    <3> QED  BY <2>3, <2>5, <2>6, <2>7, <3>1
  <2>9. n \in Counted(n, v).used
    BY <1>0, <2>1, <2>3 DEF OwnVoteFirst
  <2>10. CASE Turn(n, h, Counted(n, v)) /\ certs' = certs
    <3>1. h \in certs' => Certified(h)
      BY <1>0, <2>10 DEF CertsVerify
    <3>2. certs \subseteq certs' /\ certs' \subseteq certs \cup {h}
      BY <2>10
    <3> HIDE DEF h
    <3> QED  BY <2>1, <2>2, <2>4, <2>5, <2>8, <2>9, <2>10, <3>1, <3>2, TurnOwnInv DEF h
  <2>11. CASE /\ Turn(n, h, fresh)
              /\ Counted(n, v).weight >= quorum_threshold
              /\ certs' = certs \cup {h}
    <3>1. Certified(h)
      <4>1. Voters(h) \cup Faulty \in SUBSET Authorities
        BY CoreAssumption DEF Voters, Correct
      <4>2. Weight(Counted(n, v).used) <= Weight(Voters(h) \cup Faulty)
        BY <2>4, <4>1, WeightMonotone
      <4>3. Weight(Voters(h) \cup Faulty) \in Nat /\ quorum_threshold \in Nat
              /\ Counted(n, v).weight \in Nat
        BY <2>3, <2>5, <4>1, UnitsFinite, ThresholdFacts
      <4>4. Weight(Voters(h) \cup Faulty) >= quorum_threshold
        BY <2>7, <2>8, <2>11, <4>2, <4>3
      <4> QED  BY <4>4 DEF Certified, IsQuorum
    <3>2. /\ fresh.used = Counted(n, v).used /\ fresh.weight = 0
      OBVIOUS
    <3>3. fresh.weight <= Weight(fresh.used)
      BY <2>7, <3>2
    <3>4. certs \subseteq certs' /\ certs' \subseteq certs \cup {h}
      BY <2>11
    <3> HIDE DEF fresh
    <3> QED  BY <2>1, <2>2, <2>4, <2>5, <2>9, <2>11, <3>1, <3>2, <3>3, <3>4, TurnOwnInv
  <2> QED  BY <1>4, <2>10, <2>11, VoteTurn
<1>5. ASSUME NEW n \in Correct, RejectMessage(n)
      PROVE  OwnInv'
  <2>1. UNCHANGED <<current_header, sent_headers, certs>>
    BY <1>5 DEF RejectMessage, network
  <2>2. PICK g \in Genesis : TRUE
    BY CoreAssumption DEF Correct
  <2>3. g \in Headers /\ Past(g)
    BY <2>2 DEF Genesis, Past
  <2> QED  BY <1>1, <1>5, <2>1, <2>3, RejectTurn
<1>6. ASSUME UNCHANGED <<core, sent_headers, votes>>,
             \A m \in Correct : header_pending'[m] \subseteq header_pending[m],
             certs \subseteq certs', \A c \in certs' \ certs : Past(c) /\ Certified(c)
      PROVE  OwnInv'
  <2>1. UNCHANGED <<last_voted, current_header, votes_aggregator>>
    BY <1>6 DEF core
  <2>2. \A h \in Headers : Past(h) => Past(h)'
    BY <2>1 DEF Past
  <2>3. OwnKnown'
    <3> SUFFICES ASSUME NEW h \in Headers, Known(h)' PROVE Past(h)
      BY <2>2 DEF OwnKnown
    <3>1. Known(h) \/ h \in certs' \ certs
      BY <1>6 DEF Known
    <3> QED  BY <1>0, <1>6, <3>1 DEF OwnKnown
  <2>4. CertsVerify'
    <3> SUFFICES ASSUME NEW c \in certs' PROVE Certified(c)'
      BY DEF CertsVerify
    <3>1. Certified(c)
      BY <1>0, <1>6 DEF CertsVerify
    <3>2. votes \subseteq votes'
      BY <1>6
    <3> QED  BY <3>1, <3>2, CertifiedStays
  <2>5. OwnCurrent' /\ OwnSlots' /\ OwnVoteFirst'
    BY <1>0, <1>6, <2>1 DEF OwnCurrent, OwnSlots, OwnVoteFirst
  <2>6. VotesCounted'
    BY <1>0, <1>6, <2>1 DEF VotesCounted, Voters, Weight, StakeUnits
  <2> QED  BY <2>3, <2>4, <2>5, <2>6 DEF OwnInv
<1>7. ASSUME NEW n \in Correct, NEW b \in Batches, ReceiveBatch(n, b)
      PROVE  OwnInv'
  <2>1. UNCHANGED <<core, header_pending, sent_headers, votes, certs>>
    BY <1>7 DEF ReceiveBatch, waiters, network
  <2> QED  BY <1>6, <2>1
<1>8. ASSUME NEW n \in Correct, CancelPending(n)
      PROVE  OwnInv'
  <2>1. UNCHANGED <<core, sent_headers, votes, certs>>
    BY <1>8 DEF CancelPending, network
  <2>2. header_pending \in [Correct -> PendingType]
    BY DEF TypeOK, PendingType
  <2>3. \A m \in Correct : header_pending'[m] \subseteq header_pending[m]
    BY <1>8, <2>2 DEF CancelPending
  <2> QED  BY <1>6, <2>1, <2>3
<1>9. ASSUME NEW n \in Correct, NEW r \in {round[h] : h \in Headers}, AdvanceConsensusRound(n, r)
      PROVE  OwnInv'
  <2>1. UNCHANGED <<core, header_pending, sent_headers, votes, certs>>
    BY <1>9 DEF AdvanceConsensusRound, waiters, network
  <2> QED  BY <1>6, <2>1
<1>10. ASSUME NEW c \in FaultyCertificates, FaultyCertificate(c)
      PROVE  OwnInv'
  <2>1. /\ UNCHANGED <<core, header_pending, sent_headers, votes>>
        /\ certs' = certs \cup {c} /\ Certified(c)
    BY <1>10 DEF FaultyCertificate, waiters
  <2>2. Past(c)
    BY <1>10, CoreAssumption DEF Past, Correct
  <2> QED  BY <1>6, <2>1, <2>2
<1>11. CASE UNCHANGED vars
  <2>1. UNCHANGED <<core, header_pending, sent_headers, votes, certs>>
    BY <1>11 DEF vars, waiters, network
  <2> QED  BY <1>6, <2>1
<1> QED  BY <1>2, <1>3, <1>4, <1>5, <1>7, <1>8, <1>9, <1>10, <1>11, ProposeOwnInv DEF Next

LEMMA InitOwnInv == Init => ParentsInv /\ OwnInv
<1> SUFFICES ASSUME Init PROVE ParentsInv /\ OwnInv
  OBVIOUS
<1>1. ParentsInv
  BY DEF Init, ParentsInv
<1>2. OwnCurrent /\ OwnKnown /\ OwnSlots /\ OwnVoteFirst /\ CertsVerify
  BY DEF Init, OwnCurrent, OwnKnown, Known, OwnSlots, OwnVoteFirst, CertsVerify
<1>3. VotesCounted
  <2>1. \A n \in Correct : votes_aggregator[n].used = {} /\ votes_aggregator[n].weight = 0
    BY DEF Init, NewVotesAggregator
  <2>2. \A n \in Correct : Weight(votes_aggregator[n].used) = 0
    BY <2>1, WeightOfNone, Zenon
  <2> QED  BY <2>1, <2>2 DEF VotesCounted
<1> QED  BY <1>1, <1>2, <1>3 DEF OwnInv

-----------------------------------------------------------------------------
(* The certified DAG.                                                      *)

Inductive == TypeOK /\ VoteInv /\ StoreInv /\ ParentsInv /\ OwnInv

(* Inductive is an invariant of the Core. *)
THEOREM InductiveInvariant == Spec => []Inductive
<1>1. Init => Inductive
  BY InitType, InitVoteInv, InitStoreInv, InitOwnInv DEF Inductive
<1>2. Inductive /\ [Next]_vars => Inductive'
  <2> SUFFICES ASSUME Inductive, [Next]_vars PROVE Inductive'
    OBVIOUS
  <2>1. TypeOK /\ VoteInv /\ StoreInv /\ ParentsInv /\ OwnInv
    BY DEF Inductive
  <2>2. TypeOK'
    BY <2>1, NextType
  <2>3. VoteInv' /\ StoreInv' /\ ParentsInv'
    BY <2>1, NextVoteInv, NextStoreInv, NextParentsInv
  <2>4. OwnInv'
    BY <2>1, <2>2, NextOwnInv
  <2> QED  BY <2>2, <2>3, <2>4 DEF Inductive
<1> QED  BY <1>1, <1>2, PTL DEF Spec

(* The signers of a certificate, faulty ones included. *)
LEMMA SignersOf ==
    ASSUME OwnInv, TypeOK, NEW c \in certs \ Genesis
    PROVE  /\ c \in Headers
           /\ Voters(c) \cup Faulty \in SUBSET Authorities
           /\ IsQuorum(Voters(c) \cup Faulty)
           /\ \A n \in Authorities \ Faulty : n \in Voters(c) \cup Faulty
                  => n \in Correct /\ <<c, n>> \in votes
<1>1. Voters(c) \cup Faulty \in SUBSET Authorities
  BY CoreAssumption DEF Voters, Correct
<1>2. IsQuorum(Voters(c) \cup Faulty)
  BY DEF OwnInv, CertsVerify, Certified
<1> QED  BY <1>1, <1>2 DEF TypeOK, Voters, Correct

(* Two quorums of signers share a correct one, and it votes once. *)
LEMMA UniquenessFollows ==
    ASSUME Inductive, FaultBound(Faulty)
    PROVE  CertificateUniqueness
<1>0. TypeOK /\ VoteOnce /\ OwnInv
  BY DEF Inductive, VoteInv
<1> SUFFICES ASSUME NEW c \in certs, NEW d \in certs, Slot(c) = Slot(d), c # d
             PROVE  \E n \in Correct : round[c] < gc_round[n]
  BY DEF CertificateUniqueness
<1>1. c \in Headers /\ d \in Headers /\ round[c] = round[d] /\ author[c] = author[d]
  BY <1>0 DEF TypeOK, Slot
<1>2. CASE c \in Genesis \/ d \in Genesis
  BY <1>1, <1>2, CoreAssumption DEF Genesis
<1>3. CASE c \notin Genesis /\ d \notin Genesis
  <2>1. /\ Voters(c) \cup Faulty \in SUBSET Authorities /\ IsQuorum(Voters(c) \cup Faulty)
        /\ Voters(d) \cup Faulty \in SUBSET Authorities /\ IsQuorum(Voters(d) \cup Faulty)
    BY <1>0, <1>3, SignersOf
  <2>2. PICK n \in Authorities \ Faulty : n \in Voters(c) \cup Faulty /\ n \in Voters(d) \cup Faulty
    BY <2>1, QuorumsShareCorrect, CoreAssumption
  <2>3. n \in Correct /\ <<c, n>> \in votes /\ <<d, n>> \in votes
    BY <2>2 DEF Voters, Correct
  <2> QED  BY <1>0, <1>1, <2>3 DEF VoteOnce
<1> QED  BY <1>2, <1>3

(* A correct signer of a certificate holds its history and found it well formed. *)
LEMMA HistoryFollows ==
    ASSUME Inductive, FaultBound(Faulty)
    PROVE  CertifiedHistory
<1>0. TypeOK /\ VotedHeld /\ FromNetwork /\ OwnInv
  BY DEF Inductive, StoreInv
<1> SUFFICES ASSUME NEW c \in certs \ Genesis
             PROVE  WellFormed(c) /\ parents[c] \subseteq certs \cup Genesis
  BY DEF CertifiedHistory
<1>1. /\ c \in Headers
      /\ Voters(c) \cup Faulty \in SUBSET Authorities /\ IsQuorum(Voters(c) \cup Faulty)
  BY <1>0, SignersOf
<1>2. PICK n \in Authorities \ Faulty : n \in Voters(c) \cup Faulty
  BY <1>1, QuorumsShareCorrect, CoreAssumption
<1>3. n \in Correct /\ <<c, n>> \in votes
  BY <1>2 DEF Voters, Correct
<1>4. Has(n, c) /\ WellFormed(c)
  BY <1>0, <1>1, <1>3 DEF VotedHeld
<1> QED  BY <1>0, <1>3, <1>4 DEF Has, FromNetwork

(* The correct signers of a certificate have f+1 units of stake. *)
LEMMA AvailabilityFollows ==
    ASSUME Inductive, FaultBound(Faulty)
    PROVE  CertifiedIsAvailable
<1>0. TypeOK /\ VotedHeld /\ OwnInv
  BY DEF Inductive, StoreInv
<1> SUFFICES ASSUME NEW c \in certs \ Genesis
             PROVE  IsValidity({n \in Correct : Has(n, c)})
  BY DEF CertifiedIsAvailable
<1> DEFINE Holders == {n \in Correct : Has(n, c)}
           Signers == (Voters(c) \cup Faulty) \ Faulty
<1>1. /\ c \in Headers
      /\ Voters(c) \cup Faulty \in SUBSET Authorities /\ IsQuorum(Voters(c) \cup Faulty)
  BY <1>0, SignersOf
<1>2. IsValidity(Signers)
  BY <1>1, CorrectPartOfQuorum, CoreAssumption
<1>3. Signers \subseteq Holders
  BY <1>0, <1>1 DEF VotedHeld, Voters, Correct
<1>4. Holders \in SUBSET Authorities
  BY DEF Correct
<1>5. Weight(Signers) <= Weight(Holders)
  BY <1>3, <1>4, WeightMonotone
<1>6. Weight(Signers) \in Nat /\ Weight(Holders) \in Nat /\ validity_threshold \in Nat
  BY <1>3, <1>4, UnitsFinite, ThresholdFacts
<1> QED  BY <1>2, <1>5, <1>6 DEF IsValidity

(* No two certificates of one author and round, while the faulty authorities
   hold at most f units of stake and the round is not garbage collected. *)
THEOREM UniqueCertificates ==
    ASSUME FaultBound(Faulty)
    PROVE  Spec => []CertificateUniqueness
<1>1. Inductive => CertificateUniqueness
  BY UniquenessFollows
<1> QED  BY <1>1, InductiveInvariant, PTL

(* The certified DAG is closed: parents of certificates are certificates. *)
THEOREM ClosedDag ==
    ASSUME FaultBound(Faulty)
    PROVE  Spec => []CertifiedHistory
<1>1. Inductive => CertifiedHistory
  BY HistoryFollows
<1> QED  BY <1>1, InductiveInvariant, PTL

(* What is certified stays available at f+1 units of correct stake. *)
THEOREM Availability ==
    ASSUME FaultBound(Faulty)
    PROVE  Spec => []CertifiedIsAvailable
<1>1. Inductive => CertifiedIsAvailable
  BY AvailabilityFollows
<1> QED  BY <1>1, InductiveInvariant, PTL

-----------------------------------------------------------------------------
(* Restarts.  A stopped primary forgets its votes and its headers, so that the
   invariants about them end there; what its stores hold, and what the Core
   sends to the Proposer between two starts, does not depend on them.  *)

(* A certificate that is aggregated, or was sent to the Proposer with others of
   a round that is not garbage collected, has its slot used, and none is both. *)
AggregatedOnce ==
    \A n \in Correct :
        /\ \A x \in certificates_aggregators[n].certificates :
             Slot(x) \in certificates_aggregators[n].used
        /\ \A p \in tx_proposer[n] : p[2] >= gc_round[n] =>
             \A c \in p[1] :
                /\ Slot(c) \in certificates_aggregators[n].used
                /\ \A x \in certificates_aggregators[n].certificates : Slot(x) # Slot(c)

(* Parents are sent once for a round that is not garbage collected. *)
ParentsOnce ==
    \A n \in Correct : \A p, q \in tx_proposer[n] :
        q[2] = p[2] => (q = p \/ p[2] < gc_round[n])

(* Two sets that share no authority are not both quorums. *)
LEMMA DisjointQuorums ==
    ASSUME NEW S \in SUBSET Authorities, NEW T \in SUBSET Authorities,
           IsQuorum(S), IsQuorum(T)
    PROVE  S \cap T # {}
<1>1. FaultBound({})
  BY WeightOfNone, CoreAssumption, ThresholdFacts, SMT DEF FaultBound, validity_threshold
<1> QED  BY <1>1, QuorumsShareCorrect

(* The clean-up keeps the slots and the certificates from the GC round on. *)
LEMMA KeptParts ==
    ASSUME NEW n, NEW A
    PROVE  /\ Kept(n, A).used = {s \in A.used : s[1] >= GcRound(n)}
           /\ Kept(n, A).certificates = {h \in A.certificates : round[h] >= GcRound(n)}
BY DEF Kept, KeepSlots, KeepHeaders

(* append adds the certificate to a new slot, and drains those of its round
   when they are a quorum. *)
LEMMA AppendParts ==
    ASSUME TypeOK, NEW n \in Correct, NEW c \in Headers
    PROVE  \/ append(n, c) = certificates_aggregators[n] /\ ~ ReachesQuorum(n, c)
           \/ /\ Slot(c) \notin certificates_aggregators[n].used
              /\ append(n, c).used = certificates_aggregators[n].used \cup {Slot(c)}
              /\ \/ ~ ReachesQuorum(n, c)
                 \/ append(n, c).certificates = {x \in certificates_aggregators[n].certificates :
                                                    round[x] # round[c]}
              /\ append(n, c).certificates \subseteq certificates_aggregators[n].certificates \cup {c}
BY DEF append, ReachesQuorum, Held

(* The aggregators of a turn. *)
LEMMA TurnAggregatedOnce ==
    ASSUME TypeOK, GcBehind, ParentsInv, AggregatedOnce, ParentsOnce,
           NEW n \in Correct, NEW h \in Headers, NEW aggregator, Turn(n, h, aggregator)
    PROVE  AggregatedOnce' /\ ParentsOnce'
<1> DEFINE A == certificates_aggregators[n]
           B == certificates_aggregators'[n]
           sent == <<Held(n, h), round[h]>>
<1>0. /\ \A g \in Headers : round[g] \in Nat /\ Slot(g) = <<round[g], author[g]>>
                              /\ author[g] \in Authorities
      /\ gc_round[n] \in Nat /\ GcRound(n) \in Nat /\ gc_round[n] <= GcRound(n)
      /\ gc_round \in [Correct -> Nat]
  BY CoreAssumption, GcRoundType, GcRoundGrows DEF TypeOK, Slot
<1>1. gc_round' = [gc_round EXCEPT ![n] = GcRound(n)]
  BY Zenon DEF Turn, HeaderTurn, GcMoved
<1>2. CertificateAggregated(n, h) /\ ParentsSent(n, h)
  BY Zenon DEF Turn, CertificateTurn
<1>3. /\ certificates_aggregators \in [Correct -> AggregatedType]
      /\ tx_proposer \in [Correct -> SUBSET ((SUBSET Headers) \X Nat)]
  BY DEF TypeOK, AggregatedType
<1>4. \A m \in Correct \ {n} : /\ certificates_aggregators'[m] = certificates_aggregators[m]
                               /\ tx_proposer'[m] = tx_proposer[m] /\ gc_round'[m] = gc_round[m]
  BY <1>0, <1>1, <1>2, <1>3 DEF CertificateAggregated, ParentsSent
<1>5. gc_round'[n] = GcRound(n)
  BY <1>0, <1>1
<1>6. A.used \subseteq Nat \X Authorities /\ A.certificates \subseteq Headers
  BY <1>3 DEF AggregatedType
<1>7. Held(n, h) = {x \in A.certificates \cup {h} : round[x] = round[h]}
  BY DEF Held
<1>8. \A p \in tx_proposer[n] : p[1] \subseteq Headers /\ p[2] \in Nat /\ \A c \in p[1] : round[c] = p[2]
  <2>1. \A p \in tx_proposer[n] : p \in (SUBSET Headers) \X Nat
    BY <1>3
  <2>2. \A p \in tx_proposer[n] : \A c \in p[1] : round[c] = p[2]
    BY Zenon DEF ParentsInv
  <2> QED  BY <2>1, <2>2
<1>9. /\ \A x \in A.certificates : Slot(x) \in A.used
      /\ \A p \in tx_proposer[n] : p[2] >= gc_round[n] =>
           \A c \in p[1] : Slot(c) \in A.used /\ \A x \in A.certificates : Slot(x) # Slot(c)
  BY DEF AggregatedOnce
<1>10. \A p \in tx_proposer'[n] : \/ p \in tx_proposer[n]
                                  \/ p = sent /\ ReachesQuorum(n, h) /\ B = Kept(n, append(n, h))
  BY <1>2, <1>3 DEF ParentsSent
<1>11. B = Kept(n, A) \/ B = Kept(n, append(n, h))
  BY <1>2, <1>3 DEF CertificateAggregated
<1> HIDE DEF A, B, sent
<1>12. /\ \A x \in B.certificates : Slot(x) \in B.used
       /\ \A p \in tx_proposer[n] : p[2] >= GcRound(n) =>
            \A c \in p[1] : Slot(c) \in B.used /\ \A x \in B.certificates : Slot(x) # Slot(c)
  <2>1. CASE B = Kept(n, A)
    BY <1>0, <1>6, <1>8, <1>9, <2>1, KeptParts
  <2>2. CASE B = Kept(n, append(n, h)) /\ append(n, h) # A
    <3>1. /\ Slot(h) \notin A.used
          /\ append(n, h).used = A.used \cup {Slot(h)}
          /\ append(n, h).certificates \subseteq A.certificates \cup {h}
      BY <2>2, AppendParts DEF A
    <3> QED  BY <1>0, <1>6, <1>8, <1>9, <2>2, <3>1, KeptParts
  <2> QED  BY <1>11, <2>1, <2>2
<1>13. ASSUME ReachesQuorum(n, h), B = Kept(n, append(n, h)), round[h] >= GcRound(n)
       PROVE  \A c \in Held(n, h) : Slot(c) \in B.used /\ \A x \in B.certificates : Slot(x) # Slot(c)
  <2>1. /\ append(n, h).used = A.used \cup {Slot(h)}
        /\ append(n, h).certificates = {x \in A.certificates : round[x] # round[h]}
    BY <1>13, AppendParts DEF A
  <2>2. \A c \in Held(n, h) : c \in Headers /\ round[c] = round[h] /\ Slot(c) \in A.used \cup {Slot(h)}
    BY <1>6, <1>7, <1>9
  <2> QED  BY <1>0, <1>6, <1>13, <2>1, <2>2, KeptParts
<1>14. AggregatedOnce'
  <2> SUFFICES ASSUME NEW m \in Correct
               PROVE  /\ \A x \in certificates_aggregators'[m].certificates :
                           Slot(x) \in certificates_aggregators'[m].used
                      /\ \A p \in tx_proposer'[m] : p[2] >= gc_round'[m] =>
                           \A c \in p[1] :
                              /\ Slot(c) \in certificates_aggregators'[m].used
                              /\ \A x \in certificates_aggregators'[m].certificates : Slot(x) # Slot(c)
    BY DEF AggregatedOnce, Slot
  <2>1. CASE m # n
    BY <1>4, <2>1 DEF AggregatedOnce
  <2>2. CASE m = n
    <3> SUFFICES ASSUME NEW p \in tx_proposer'[n], p[2] >= GcRound(n), NEW c \in p[1]
                 PROVE  Slot(c) \in B.used /\ \A x \in B.certificates : Slot(x) # Slot(c)
      BY <1>5, <1>12, <2>2 DEF B
    <3>1. CASE p \in tx_proposer[n]
      BY <1>12, <3>1
    <3>2. CASE p = sent /\ ReachesQuorum(n, h) /\ B = Kept(n, append(n, h))
      BY <1>13, <3>2 DEF sent
    <3> QED  BY <1>10, <3>1, <3>2
  <2> QED  BY <2>1, <2>2
<1>15. ASSUME ReachesQuorum(n, h), NEW q \in tx_proposer[n], q[2] = round[h]
       PROVE  q[2] < gc_round[n]
  <2> SUFFICES ASSUME q[2] >= gc_round[n] PROVE FALSE
    BY <1>0, <1>8
  <2>1. IsQuorum({author[c] : c \in q[1]}) /\ IsQuorum({author[x] : x \in Held(n, h)})
    BY <1>15 DEF ParentsInv, ReachesQuorum
  <2>2. {author[c] : c \in q[1]} \in SUBSET Authorities /\ {author[x] : x \in Held(n, h)} \in SUBSET Authorities
    BY <1>0, <1>6, <1>7, <1>8
  <2>3. PICK c \in q[1], x \in Held(n, h) : author[c] = author[x]
    BY <2>1, <2>2, DisjointQuorums
  <2>4. Slot(c) = Slot(x)
    BY <1>0, <1>6, <1>7, <1>8, <1>15, <2>3
  <2>5. Slot(c) \in A.used /\ \A y \in A.certificates : Slot(y) # Slot(c)
    BY <1>9
  <2>6. Slot(h) \notin A.used
    BY <1>15 DEF ReachesQuorum, A
  <2> QED  BY <1>7, <2>3, <2>4, <2>5, <2>6
<1>16. ParentsOnce'
  <2> SUFFICES ASSUME NEW m \in Correct, NEW p \in tx_proposer'[m], NEW q \in tx_proposer'[m],
                      q[2] = p[2], q # p
               PROVE  p[2] < gc_round'[m]
    BY DEF ParentsOnce
  <2>1. CASE m # n
    BY <1>4, <2>1 DEF ParentsOnce
  <2>2. CASE m = n /\ p \in tx_proposer[n] /\ q \in tx_proposer[n]
    BY <1>0, <1>5, <1>8, <2>2 DEF ParentsOnce
  <2>3. CASE m = n /\ ~ (p \in tx_proposer[n] /\ q \in tx_proposer[n])
    <3>1. ReachesQuorum(n, h) /\ p[2] = round[h] /\ (p \in tx_proposer[n] \/ q \in tx_proposer[n])
      BY <1>10, <2>3 DEF sent
    <3> QED  BY <1>0, <1>5, <1>15, <2>3, <3>1
  <2> QED  BY <2>1, <2>2, <2>3
<1> QED  BY <1>14, <1>16

(* gc_round follows the consensus. *)
LEMMA TurnGcBehind ==
    ASSUME TypeOK, GcBehind, NEW n \in Correct, NEW h \in Headers, NEW aggregator,
           Turn(n, h, aggregator)
    PROVE  GcBehind'
<1>1. gc_round' = [gc_round EXCEPT ![n] = GcRound(n)] /\ consensus_round' = consensus_round
  BY Zenon DEF Turn, HeaderTurn, GcMoved
<1>2. gc_round \in [Correct -> Nat] /\ \A m \in Correct : consensus_round[m] \in Nat
  BY DEF TypeOK
<1>3. GcRound(n) = 0 \/ GcRound(n) + GcDepth <= consensus_round[n]
  BY <1>2, CoreAssumption DEF GcRound, GcBehind
<1> QED  BY <1>1, <1>2, <1>3 DEF GcBehind

OnceInv == GcBehind /\ ParentsInv /\ AggregatedOnce /\ ParentsOnce

LEMMA TurnOnceInv ==
    ASSUME TypeOK, OnceInv, NEW n \in Correct, NEW h \in Headers, NEW aggregator,
           Turn(n, h, aggregator)
    PROVE  OnceInv'
BY TurnGcBehind, TurnParentsInv, TurnAggregatedOnce DEF OnceInv

LEMMA NextOnceInv ==
    ASSUME TypeOK, OnceInv, [Next]_vars
    PROVE  OnceInv'
<1>1. ASSUME NEW n \in Correct, NEW h \in Headers, process_own_header(n, h)
      PROVE  OnceInv'
  BY <1>1, OwnHeaderTurn, TurnOnceInv
<1>2. ASSUME NEW n \in Correct, NEW h \in Headers, ReceiveHeader(n, h) \/ LoopbackHeader(n, h)
      PROVE  OnceInv'
  BY <1>2, OtherHeaderTurn, TurnOnceInv
<1>3. ASSUME NEW n \in Correct, NEW c \in Headers,
             ReceiveCertificate(n, c) \/ LoopbackCertificate(n, c)
      PROVE  OnceInv'
  BY <1>3, OtherCertificateTurn, TurnOnceInv
<1>4. ASSUME NEW n \in Correct, NEW v \in Authorities, ReceiveVote(n, v)
      PROVE  OnceInv'
  <2>1. current_header[n] \in Headers
    BY <1>4 DEF TypeOK, ReceiveVote
  <2> QED  BY <1>4, <2>1, VoteTurn, TurnOnceInv
<1>5. ASSUME NEW n \in Correct, RejectMessage(n)
      PROVE  OnceInv'
  <2>1. PICK g \in Headers : TRUE
    BY CoreAssumption DEF Correct, Genesis
  <2> QED  BY <1>5, <2>1, RejectTurn, TurnOnceInv
<1>6. ASSUME UNCHANGED <<certificates_aggregators, tx_proposer, gc_round>>, GcBehind'
      PROVE  GcBehind' /\ AggregatedOnce' /\ ParentsOnce'
  BY <1>6 DEF AggregatedOnce, ParentsOnce, Slot, OnceInv
<1>7. ASSUME UNCHANGED <<certificates_aggregators, tx_proposer, gc_round, consensus_round>>
      PROVE  GcBehind' /\ AggregatedOnce' /\ ParentsOnce'
  <2>1. GcBehind'
    BY <1>7 DEF GcBehind, OnceInv
  <2> QED  BY <1>6, <1>7, <2>1
<1>8. ParentsInv'
  BY NextParentsInv DEF OnceInv
<1>9. ASSUME NEW n \in Correct, NEW b \in Batches, ReceiveBatch(n, b)
      PROVE  OnceInv'
  BY <1>7, <1>8, <1>9 DEF ReceiveBatch, core, OnceInv
<1>10. ASSUME NEW n \in Correct, CancelPending(n)
      PROVE  OnceInv'
  BY <1>7, <1>8, <1>10 DEF CancelPending, core, OnceInv
<1>11. ASSUME NEW n \in Correct, NEW r \in {round[h] : h \in Headers}, AdvanceConsensusRound(n, r)
      PROVE  OnceInv'
  <2>1. /\ UNCHANGED <<certificates_aggregators, tx_proposer, gc_round>>
        /\ consensus_round' = [consensus_round EXCEPT ![n] = r]
        /\ r > consensus_round[n]
    BY <1>11 DEF AdvanceConsensusRound, core
  <2>2. /\ r \in Nat /\ consensus_round \in [Correct -> Nat] /\ gc_round \in [Correct -> Nat]
    BY <1>11, CoreAssumption DEF TypeOK
  <2>3. GcBehind'
    BY <2>1, <2>2, CoreAssumption DEF OnceInv, GcBehind
  <2> QED  BY <1>6, <1>8, <2>1, <2>3 DEF OnceInv
<1>12. ASSUME NEW c \in FaultyCertificates, FaultyCertificate(c)
      PROVE  OnceInv'
  BY <1>7, <1>8, <1>12 DEF FaultyCertificate, core, OnceInv
<1>13. CASE UNCHANGED vars
  BY <1>7, <1>8, <1>13 DEF vars, core, OnceInv
<1> QED  BY <1>1, <1>2, <1>3, <1>4, <1>5, <1>9, <1>10, <1>11, <1>12, <1>13 DEF Next

(* What is invariant although correct primaries are stopped and started. *)
RestartInv == TypeOK /\ StoreInv /\ OnceInv

LEMMA RestartKeepsInv ==
    ASSUME RestartInv, NEW n \in Correct, Restart(n)
    PROVE  RestartInv'
<1>0. UNCHANGED <<headers, certificates, batches, sent_headers, votes, certs>>
  BY DEF Restart, store, network
<1>1. TypeOK'
  BY <1>0 DEF RestartInv, TypeOK, Restart, NewVotesAggregator
<1>2. StoreInv'
  <2>1. \A m \in Correct : certificate_pending'[m] \subseteq certificate_pending[m]
    BY DEF RestartInv, TypeOK, Restart
  <2>2. VotedHeld' /\ CausalDelivery'
    BY <1>0 DEF RestartInv, StoreInv, VotedHeld, CausalDelivery, Has, WellFormed, ParentStake
  <2>3. FromNetwork'
    BY <1>0, <2>1 DEF RestartInv, StoreInv, FromNetwork
  <2> QED  BY <2>2, <2>3 DEF StoreInv
<1>3. /\ certificates_aggregators' = [certificates_aggregators EXCEPT ![n] = [used |-> {}, certificates |-> {}]]
      /\ tx_proposer' = [tx_proposer EXCEPT ![n] = {}]
      /\ gc_round' = [gc_round EXCEPT ![n] = 0]
      /\ consensus_round' = [consensus_round EXCEPT ![n] = 0]
  BY DEF Restart
<1>4. /\ certificates_aggregators \in [Correct -> AggregatedType]
      /\ tx_proposer \in [Correct -> SUBSET ((SUBSET Headers) \X Nat)]
      /\ gc_round \in [Correct -> Nat] /\ consensus_round \in [Correct -> Nat]
  BY DEF RestartInv, TypeOK, AggregatedType
<1>5. /\ certificates_aggregators'[n].certificates = {} /\ tx_proposer'[n] = {} /\ gc_round'[n] = 0
      /\ \A m \in Correct \ {n} :
           UNCHANGED <<certificates_aggregators[m], tx_proposer[m], gc_round[m], consensus_round[m]>>
  BY <1>3, <1>4
<1>6. GcBehind' /\ ParentsOnce'
  BY <1>5 DEF RestartInv, OnceInv, GcBehind, ParentsOnce
<1>7. AggregatedOnce'
  BY <1>5 DEF RestartInv, OnceInv, AggregatedOnce, Slot
<1>8. ParentsInv'
  BY <1>0, <1>5 DEF RestartInv, OnceInv, ParentsInv, IsQuorum, Weight, StakeUnits, quorum_threshold, total_votes
<1> QED  BY <1>1, <1>2, <1>6, <1>7, <1>8 DEF RestartInv, OnceInv

LEMMA RestartInductive == RestartSpec => []RestartInv
<1>1. Init => RestartInv
  BY InitType, InitStoreInv DEF Init, RestartInv, OnceInv, GcBehind, ParentsInv, AggregatedOnce, ParentsOnce
<1>2. RestartInv /\ [RestartNext]_vars => RestartInv'
  <2>1. ASSUME RestartInv, [Next]_vars PROVE RestartInv'
    BY <2>1, NextType, NextStoreInv, NextOnceInv DEF RestartInv
  <2> QED  BY <2>1, RestartKeepsInv DEF RestartNext
<1> QED  BY <1>1, <1>2, PTL DEF RestartSpec

(* Whatever correct primaries are stopped and started again on their stores,
   each holds what it voted for: the acceptance of process_header is durable,
   although the vote itself is forgotten (core.rs, store). *)
THEOREM VotesSurviveRestart == RestartSpec => []VotedIsHeld
<1>1. RestartInv => VotedIsHeld
  BY DEF RestartInv, StoreInv, VotedHeld, VotedIsHeld
<1> QED  BY <1>1, RestartInductive, PTL

(* The Core sends the Proposer quorums of stored certificates of one round, and
   for a round that is not garbage collected only once between two starts
   (CertificatesAggregator::append, primary/src/aggregators.rs). *)
THEOREM ParentsForProposer == RestartSpec => []ProposerParents
<1>1. RestartInv => ProposerParents
  BY Zenon DEF RestartInv, OnceInv, ParentsInv, ParentsOnce, ProposerParents
<1> QED  BY <1>1, RestartInductive, PTL

=============================================================================
