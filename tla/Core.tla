------------------------------- MODULE Core -------------------------------
(***************************************************************************)
(* The Core of every correct primary (primary/src/core.rs) with the        *)
(* aggregators, the synchronizer and the two waiters it works with, over a *)
(* network that loses, duplicates and reorders messages and with faulty    *)
(* authorities that say whatever they can sign.  One action is one turn of *)
(* the select! loop of Core::run (or of HeaderWaiter::run), its trailing   *)
(* clean-up included.                                                      *)
(*                                                                         *)
(* A digest is modelled as what it identifies: a header is a member of     *)
(* Headers, and a certificate is its header (Certificate::digest ignores   *)
(* the votes).  The genesis certificates are the headers of round 0.       *)
(***************************************************************************)
EXTENDS Committee

CONSTANTS Faulty,             \* the authorities the adversary controls
          Headers,            \* the headers of the instance
          author, round,      \* their fields, as functions on Headers
          parents, payload,
          Batches,            \* (batch digest, worker id) pairs
          FaultyHeaders,      \* headers the adversary sends
          FaultyCertificates, \* certificates the adversary may send
          GcDepth,            \* Parameters.gc_depth
          NoHeader            \* Header::default()

Correct == Authorities \ Faulty

Genesis == {h \in Headers : round[h] = 0}

Slot(h) == <<round[h], author[h]>>

ASSUME CoreAssumption ==
    /\ Faulty \subseteq Authorities
    /\ author \in [Headers -> Authorities]
    /\ round \in [Headers -> Nat]
    /\ parents \in [Headers -> SUBSET Headers]
    /\ payload \in [Headers -> SUBSET Batches]
    /\ FaultyHeaders \subseteq {h \in Headers : author[h] \in Faulty}
    /\ FaultyCertificates \subseteq
         {h \in Headers : author[h] \in Faulty} \cup Genesis
    /\ \A h \in Headers : IsFiniteSet(parents[h])
    \* Certificate::genesis makes one certificate per authority
    /\ \A a \in Authorities : \E g \in Genesis : author[g] = a
    /\ \A g, h \in Genesis : author[g] = author[h] => g = h
    /\ \A g \in Genesis : parents[g] = {}
    /\ GcDepth \in Nat
    /\ NoHeader \notin Headers
    /\ total_votes > 0
    \* no authority is a quorum by itself
    /\ \A a \in Authorities : ~ IsQuorum({a})

VARIABLES
    \* Core
    last_voted, processing, current_header, votes_aggregator,
    certificates_aggregators, gc_round, alive,
    \* the store of the primary: headers, certificates, payload markers
    headers, certificates, batches,
    \* HeaderWaiter.pending, and the certificates CertificateWaiter holds
    header_pending, certificate_pending,
    \* the channel to the Proposer, and the round shared by the GarbageCollector
    tx_proposer, consensus_round,
    \* everything correct authorities have signed or broadcast
    sent_headers, votes, certs

core == <<last_voted, processing, current_header, votes_aggregator,
          certificates_aggregators, gc_round, alive>>
store == <<headers, certificates, batches>>
waiters == <<header_pending, certificate_pending>>
network == <<sent_headers, votes, certs>>
vars == <<core, store, waiters, tx_proposer, consensus_round, network>>

NewVotesAggregator == [weight |-> 0, used |-> {}]

Init ==
    /\ last_voted = [n \in Correct |-> {}]
    /\ processing = [n \in Correct |-> {}]
    /\ current_header = [n \in Correct |-> NoHeader]
    /\ votes_aggregator = [n \in Correct |-> NewVotesAggregator]
    /\ certificates_aggregators = [n \in Correct |-> [used |-> {}, certificates |-> {}]]
    /\ gc_round = [n \in Correct |-> 0]
    /\ alive = [n \in Correct |-> TRUE]
    /\ headers = [n \in Correct |-> {}]
    /\ certificates = [n \in Correct |-> {}]
    /\ batches = [n \in Correct |-> {}]
    /\ header_pending = [n \in Correct |-> {}]
    /\ certificate_pending = [n \in Correct |-> {}]
    /\ tx_proposer = [n \in Correct |-> {}]
    /\ consensus_round = [n \in Correct |-> 0]
    /\ sent_headers = {}
    /\ votes = {}
    /\ certs = {}

-----------------------------------------------------------------------------
(* The clean-up at the end of every turn of Core::run.                     *)

\* Mutant of GcRound: the subtraction is not guarded.
GcRoundUnguarded(n) == consensus_round[n] - GcDepth

GcRound(n) ==
    IF consensus_round[n] > GcDepth THEN consensus_round[n] - GcDepth
                                    ELSE gc_round[n]

\* Mutant of KeepSlots: the round of the garbage collector goes too.
KeepSlotsAbove(n, S) == {s \in S : s[1] > GcRound(n)}

KeepSlots(n, S) == {s \in S : s[1] >= GcRound(n)}

KeepHeaders(n, S) == {h \in S : round[h] >= GcRound(n)}

\* The turn ends with these values of last_voted, processing and the
\* certificates aggregators, of which the clean-up keeps the recent part.
Cleanup(n, voted, processed, aggregated) ==
    /\ gc_round' = [gc_round EXCEPT ![n] = GcRound(n)]
    /\ last_voted' = [last_voted EXCEPT ![n] = KeepSlots(n, voted)]
    /\ processing' = [processing EXCEPT ![n] = KeepHeaders(n, processed)]
    /\ certificates_aggregators' = [certificates_aggregators EXCEPT ![n] =
            [used |-> KeepSlots(n, aggregated.used),
             certificates |-> KeepHeaders(n, aggregated.certificates)]]

-----------------------------------------------------------------------------
(* The synchronizer: what of a header's dependencies this primary has.     *)

\* Every parent is a genesis certificate or in the store; a header without
\* parents is treated as if they were missing.
get_parents(n, h) == parents[h] # {} /\ parents[h] \subseteq certificates[n] \cup Genesis

missing_payload(n, h) == author[h] # n /\ ~ payload[h] \subseteq batches[n]

\* Mutant of deliver_certificate: the certificate never waits.
deliver_certificate_always(n, c) == TRUE

deliver_certificate(n, c) == parents[c] \subseteq certificates[n] \cup Genesis

\* The stake of the parents, counted parent by parent.
ParentStake(h) == Cardinality(UNION {{p} \X (1 .. Stake[author[p]]) : p \in parents[h]})

WellFormed(h) ==
    /\ \A p \in parents[h] : round[p] + 1 = round[h]
    /\ ParentStake(h) >= quorum_threshold

\* HeaderWaiter keeps one entry per header, whatever it waits for.
Suspend(pending, kind, h) ==
    IF \E k \in {"parents", "payload"} : <<k, h>> \in pending
    THEN pending ELSE pending \cup {<<kind, h>>}

-----------------------------------------------------------------------------
(* process_header, from the votes aggregator and the HeaderWaiter's pool   *)
(* the caller leaves behind.                                               *)

\* Mutants of Accepts: the stake of the parents is not checked; the payload is
\* not waited for.
AcceptsMalformed(n, h) == get_parents(n, h) /\ ~ missing_payload(n, h)

AcceptsUnpaid(n, h) == get_parents(n, h) /\ WellFormed(h)

Accepts(n, h) == get_parents(n, h) /\ WellFormed(h) /\ ~ missing_payload(n, h)

\* Mutant of Votes: last_voted is not looked up.
VotesAgain(n, h) == Accepts(n, h)

Votes(n, h) == Accepts(n, h) /\ Slot(h) \notin last_voted[n]

VotedAfter(n, h) == last_voted[n] \cup (IF Votes(n, h) THEN {Slot(h)} ELSE {})

\* The first header of its author and round gets our vote.  Our own vote goes
\* straight to the aggregator, and its failure kills the Core.  It is the first
\* one there, and makes no certificate: only after a restart can an old header of
\* ours, met in a certificate, add it to the votes for the current one, and what
\* follows if that completes a quorum is left out.
CastVote(n, h, aggregator) ==
    \/ /\ ~ Votes(n, h)
       /\ votes_aggregator' = [votes_aggregator EXCEPT ![n] = aggregator]
       /\ UNCHANGED <<votes, alive>>
    \/ /\ Votes(n, h)
       /\ author[h] # n
       /\ votes' = votes \cup {<<h, n>>}
       /\ votes_aggregator' = [votes_aggregator EXCEPT ![n] = aggregator]
       /\ UNCHANGED alive
    \/ /\ Votes(n, h)
       /\ author[h] = n
       /\ n \notin aggregator.used
       /\ votes' = votes \cup {<<h, n>>}
       /\ votes_aggregator' = [votes_aggregator EXCEPT ![n] =
              [weight |-> aggregator.weight + Stake[n],
               used   |-> aggregator.used \cup {n}]]
       /\ UNCHANGED alive
    \/ /\ Votes(n, h)
       /\ author[h] = n
       /\ n \in aggregator.used
       /\ alive' = [alive EXCEPT ![n] = FALSE]
       /\ votes_aggregator' = [votes_aggregator EXCEPT ![n] = aggregator]
       /\ UNCHANGED votes

process_header(n, h, aggregator, pending) ==
    \/ /\ ~ get_parents(n, h)
       /\ header_pending' = [header_pending EXCEPT ![n] =
              IF parents[h] = {} THEN pending ELSE Suspend(pending, "parents", h)]
       /\ votes_aggregator' = [votes_aggregator EXCEPT ![n] = aggregator]
       /\ UNCHANGED <<headers, votes, alive>>
    \/ /\ get_parents(n, h)
       /\ ~ WellFormed(h)
       /\ header_pending' = [header_pending EXCEPT ![n] = pending]
       /\ votes_aggregator' = [votes_aggregator EXCEPT ![n] = aggregator]
       /\ UNCHANGED <<headers, votes, alive>>
    \/ /\ get_parents(n, h)
       /\ WellFormed(h)
       /\ missing_payload(n, h)
       /\ header_pending' = [header_pending EXCEPT ![n] = Suspend(pending, "payload", h)]
       /\ votes_aggregator' = [votes_aggregator EXCEPT ![n] = aggregator]
       /\ UNCHANGED <<headers, votes, alive>>
    \/ /\ Accepts(n, h)
       /\ header_pending' = [header_pending EXCEPT ![n] = pending]
       /\ headers' = [headers EXCEPT ![n] = @ \cup {h}]
       /\ CastVote(n, h, aggregator)

-----------------------------------------------------------------------------
(* process_certificate.                                                    *)

\* CertificatesAggregator::append: one certificate per origin, and the whole
\* lot is drained to the Proposer once it is a quorum.  Its weight is that of
\* the certificates it holds, as both are reset together.
Held(n, c) == {x \in certificates_aggregators[n].certificates \cup {c} : round[x] = round[c]}

ReachesQuorum(n, c) ==
    /\ Slot(c) \notin certificates_aggregators[n].used
    /\ IsQuorum({author[x] : x \in Held(n, c)})

append(n, c) ==
    LET aggregator == certificates_aggregators[n]
    IN  IF Slot(c) \in aggregator.used THEN aggregator
        ELSE [used         |-> aggregator.used \cup {Slot(c)},
              certificates |-> IF ReachesQuorum(n, c)
                               THEN aggregator.certificates \ Held(n, c)
                               ELSE aggregator.certificates \cup {c}]

\* The certificate waits for its parents, or is stored, aggregated and sent to
\* the consensus (which gets every certificate of the store, in store order).
StoreCertificate(n, c, pending, voted, processed) ==
    \/ /\ ~ deliver_certificate(n, c)
       /\ certificate_pending' = [certificate_pending EXCEPT ![n] = pending \cup {c}]
       /\ Cleanup(n, voted, processed, certificates_aggregators[n])
       /\ UNCHANGED <<certificates, tx_proposer>>
    \/ /\ deliver_certificate(n, c)
       /\ certificate_pending' = [certificate_pending EXCEPT ![n] = pending]
       /\ certificates' = [certificates EXCEPT ![n] = @ \cup {c}]
       /\ tx_proposer' = [tx_proposer EXCEPT ![n] = @ \cup
              (IF ReachesQuorum(n, c) THEN {<<Held(n, c), round[c]>>} ELSE {})]
       /\ Cleanup(n, voted, processed, append(n, c))

\* An embedded header that is not being processed is processed first; if it is
\* malformed, or the Core dies on it, the certificate is dropped.
process_certificate(n, c, aggregator, pending) ==
    \/ /\ c \in processing[n]
       /\ votes_aggregator' = [votes_aggregator EXCEPT ![n] = aggregator]
       /\ UNCHANGED <<headers, header_pending, votes, alive>>
       /\ StoreCertificate(n, c, pending, last_voted[n], processing[n])
    \/ /\ c \notin processing[n]
       /\ process_header(n, c, aggregator, header_pending[n])
       /\ alive'[n]
       /\ get_parents(n, c) => WellFormed(c)
       /\ StoreCertificate(n, c, pending, VotedAfter(n, c), processing[n] \cup {c})
    \/ /\ c \notin processing[n]
       /\ process_header(n, c, aggregator, header_pending[n])
       /\ ~ alive'[n] \/ (get_parents(n, c) /\ ~ WellFormed(c))
       /\ certificate_pending' = [certificate_pending EXCEPT ![n] = pending]
       /\ Cleanup(n, VotedAfter(n, c), processing[n] \cup {c}, certificates_aggregators[n])
       /\ UNCHANGED <<certificates, tx_proposer>>

-----------------------------------------------------------------------------
(* The turns of Core::run.                                                 *)

\* process_own_header.  The Proposer makes one header per round, in
\* increasing rounds, on the parents the Core sent it (proposer.rs).
process_own_header(n, h) ==
    /\ alive[n]
    /\ author[h] = n
    /\ current_header[n] # NoHeader => round[h] > round[current_header[n]]
    /\ \/ round[h] = 1 /\ parents[h] = Genesis
       \/ round[h] > 1 /\ <<parents[h], round[h] - 1>> \in tx_proposer[n]
    /\ current_header' = [current_header EXCEPT ![n] = h]
    /\ sent_headers' = sent_headers \cup {h}
    /\ process_header(n, h, NewVotesAggregator, header_pending[n])
    /\ Cleanup(n, VotedAfter(n, h), processing[n] \cup {h}, certificates_aggregators[n])
    /\ UNCHANGED <<certificates, batches, certificate_pending, tx_proposer,
                   consensus_round, certs>>

\* A header from another primary, past sanitize_header.
ReceiveHeader(n, h) ==
    /\ alive[n]
    /\ h \in sent_headers \cup FaultyHeaders
    /\ gc_round[n] <= round[h]
    /\ process_header(n, h, votes_aggregator[n], header_pending[n])
    /\ Cleanup(n, VotedAfter(n, h), processing[n] \cup {h}, certificates_aggregators[n])
    /\ UNCHANGED <<current_header, certificates, batches, certificate_pending,
                   tx_proposer, consensus_round, sent_headers, certs>>

\* A header the HeaderWaiter returns; it is not sanitized again.
LoopbackHeader(n, h) ==
    /\ alive[n]
    /\ \/ <<"parents", h>> \in header_pending[n] /\ get_parents(n, h)
       \/ <<"payload", h>> \in header_pending[n] /\ ~ missing_payload(n, h)
    /\ process_header(n, h, votes_aggregator[n],
                      header_pending[n] \ {<<"parents", h>>, <<"payload", h>>})
    /\ Cleanup(n, VotedAfter(n, h), processing[n] \cup {h}, certificates_aggregators[n])
    /\ UNCHANGED <<current_header, certificates, batches, certificate_pending,
                   tx_proposer, consensus_round, sent_headers, certs>>

\* process_vote on a vote for our current header (sanitize_vote); a second
\* vote of the same authority is an error.  A quorum of votes makes the
\* certificate, which is broadcast and processed in the same turn.
ReceiveVote(n, v) ==
    /\ alive[n]
    /\ current_header[n] # NoHeader
    /\ v \in Faulty \/ <<current_header[n], v>> \in votes
    /\ v \notin votes_aggregator[n].used
    /\ LET h      == current_header[n]
           weight == votes_aggregator[n].weight + Stake[v]
           used   == votes_aggregator[n].used \cup {v}
       IN  \/ /\ weight < quorum_threshold
              /\ votes_aggregator' = [votes_aggregator EXCEPT ![n] =
                     [weight |-> weight, used |-> used]]
              /\ Cleanup(n, last_voted[n], processing[n], certificates_aggregators[n])
              /\ UNCHANGED <<alive, headers, certificates, waiters, tx_proposer, votes, certs>>
           \/ /\ weight >= quorum_threshold
              /\ certs' = certs \cup {h}
              /\ process_certificate(n, h, [weight |-> 0, used |-> used], certificate_pending[n])
    /\ UNCHANGED <<current_header, batches, consensus_round, sent_headers>>

\* A certificate from another primary, past sanitize_certificate.
ReceiveCertificate(n, c) ==
    /\ alive[n]
    /\ c \in certs
    /\ gc_round[n] <= round[c]
    /\ process_certificate(n, c, votes_aggregator[n], certificate_pending[n])
    /\ UNCHANGED <<current_header, batches, consensus_round, sent_headers, certs>>

\* A certificate the CertificateWaiter returns once the store holds all its
\* parents; it is not sanitized again.
LoopbackCertificate(n, c) ==
    /\ alive[n]
    /\ c \in certificate_pending[n]
    /\ parents[c] \subseteq certificates[n]
    /\ process_certificate(n, c, votes_aggregator[n], certificate_pending[n] \ {c})
    /\ UNCHANGED <<current_header, batches, consensus_round, sent_headers, certs>>

\* Any message that sanitize_* or an aggregator refuses: only the clean-up runs.
RejectMessage(n) ==
    /\ alive[n]
    /\ Cleanup(n, last_voted[n], processing[n], certificates_aggregators[n])
    /\ UNCHANGED <<current_header, votes_aggregator, alive, store, waiters,
                   tx_proposer, consensus_round, network>>

-----------------------------------------------------------------------------
(* The tasks around the Core, and the adversary.                           *)

\* PayloadReceiver: one of our workers stored a batch of another authority.
ReceiveBatch(n, b) ==
    /\ b \notin batches[n]
    /\ batches' = [batches EXCEPT ![n] = @ \cup {b}]
    /\ UNCHANGED <<core, headers, certificates, waiters, tx_proposer,
                   consensus_round, network>>

\* HeaderWaiter's clean-up: pending headers up to the GC round are cancelled.
CancelPending(n) ==
    /\ consensus_round[n] > GcDepth
    /\ header_pending' = [header_pending EXCEPT ![n] =
           {p \in @ : round[p[2]] > consensus_round[n] - GcDepth}]
    /\ header_pending' # header_pending
    /\ UNCHANGED <<core, store, certificate_pending, tx_proposer, consensus_round, network>>

\* GarbageCollector: the consensus committed a certificate of round r, on the
\* way to the leader of an even round, three rounds below a certificate it was
\* sent (consensus/src/lib.rs).
AdvanceConsensusRound(n, r) ==
    /\ r > consensus_round[n]
    /\ \E c \in certificates[n] : round[c] >= r + (r % 2) + 3
    /\ consensus_round' = [consensus_round EXCEPT ![n] = r]
    /\ UNCHANGED <<core, store, waiters, tx_proposer, network>>

Voters(h) == {n \in Correct : <<h, n>> \in votes}

\* Mutant of Certified: the wrong threshold in Certificate::verify.
CertifiedByValidity(h) == h \in Genesis \/ IsValidity(Voters(h) \cup Faulty)

\* A certificate verifies when it is a genesis one or carries a quorum of
\* signatures; the faulty authorities sign whatever they like.
Certified(h) == h \in Genesis \/ IsQuorum(Voters(h) \cup Faulty)

FaultyCertificate(c) ==
    /\ c \in FaultyCertificates
    /\ Certified(c)
    /\ certs' = certs \cup {c}
    /\ UNCHANGED <<core, store, waiters, tx_proposer, consensus_round, sent_headers, votes>>

Next ==
    \/ \E n \in Correct :
         \/ \E h \in Headers : \/ process_own_header(n, h)
                               \/ ReceiveHeader(n, h)
                               \/ LoopbackHeader(n, h)
                               \/ ReceiveCertificate(n, h)
                               \/ LoopbackCertificate(n, h)
         \/ \E v \in Authorities : ReceiveVote(n, v)
         \/ RejectMessage(n)
         \/ \E b \in Batches : ReceiveBatch(n, b)
         \/ CancelPending(n)
         \/ \E r \in {round[h] : h \in Headers} : AdvanceConsensusRound(n, r)
    \/ \E c \in FaultyCertificates : FaultyCertificate(c)

Spec == Init /\ [][Next]_vars

-----------------------------------------------------------------------------
(* Every variable stays in its type. *)
TypeOK ==
    /\ last_voted \in [Correct -> SUBSET (Nat \X Authorities)]
    /\ processing \in [Correct -> SUBSET Headers]
    /\ current_header \in [Correct -> Headers \cup {NoHeader}]
    /\ votes_aggregator \in [Correct -> [weight : Nat, used : SUBSET Authorities]]
    /\ certificates_aggregators \in
         [Correct -> [used : SUBSET (Nat \X Authorities), certificates : SUBSET Headers]]
    /\ gc_round \in [Correct -> Nat]
    /\ alive \in [Correct -> BOOLEAN]
    /\ headers \in [Correct -> SUBSET Headers]
    /\ certificates \in [Correct -> SUBSET Headers]
    /\ batches \in [Correct -> SUBSET Batches]
    /\ header_pending \in [Correct -> SUBSET ({"parents", "payload"} \X Headers)]
    /\ certificate_pending \in [Correct -> SUBSET Headers]
    /\ tx_proposer \in [Correct -> SUBSET ((SUBSET Headers) \X Nat)]
    /\ consensus_round \in [Correct -> Nat]
    /\ sent_headers \subseteq Headers
    /\ votes \subseteq Headers \X Correct
    /\ certs \subseteq Headers

(* A correct primary votes for at most one header of an author in a round
   (the last_voted test of process_header), as long as the round is not
   garbage collected: below gc_round, last_voted is forgotten while the waiters
   can still return a header, and the promise ends. *)
VoteOnce ==
    \A n \in Correct : \A g, h \in Headers :
        (<<g, n>> \in votes /\ <<h, n>> \in votes /\ Slot(g) = Slot(h))
            => (g = h \/ round[h] < gc_round[n])

(* Two certificates of one author and round are the same, unless a correct
   primary has garbage collected that round: what lets the DAG be indexed by
   round and origin in the consensus. *)
CertificateUniqueness ==
    \A c, d \in certs :
        Slot(c) = Slot(d) =>
            (c = d \/ \E n \in Correct : round[c] < gc_round[n])

(* A certified header of round 1 or more has well-formed parents, and they are
   certificates themselves: nobody certifies a header whose history is missing. *)
CertifiedHistory ==
    \A c \in certs \ Genesis : WellFormed(c) /\ parents[c] \subseteq certs \cup Genesis

(* A primary sends a certificate to the consensus only after its parents: the
   "whole history" the consensus expects. *)
CausalDelivery ==
    \A n \in Correct : \A c \in certificates[n] :
        parents[c] \subseteq certificates[n] \cup Genesis

Has(n, c) ==
    /\ c \in headers[n]
    /\ parents[c] \subseteq certificates[n] \cup Genesis
    /\ author[c] # n => payload[c] \subseteq batches[n]

(* Correct primaries of weight f+1 at least hold a certified header, the
   certificates of its parents and its payload: it can always be fetched. *)
CertifiedIsAvailable ==
    \A c \in certs \ Genesis : IsValidity({n \in Correct : Has(n, c)})

(* What the Core sends to the Proposer is a quorum of certificates of one round
   that the store holds, one per author, and it is sent once per round until
   the aggregator of the round is garbage collected. *)
ProposerParents ==
    \A n \in Correct : \A p \in tx_proposer[n] :
        /\ p[1] \subseteq certificates[n]
        /\ \A c \in p[1] : round[c] = p[2]
        /\ IsQuorum({author[c] : c \in p[1]})
        /\ \A q \in tx_proposer[n] : q[2] = p[2] => (q = p \/ p[2] < gc_round[n])

=============================================================================
