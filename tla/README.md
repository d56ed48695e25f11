# A TLA+ model of Narwhal and Tusk

This directory specifies and verifies the protocol of the repository: the
primaries that certify a DAG of headers (Narwhal) and fetch what they miss, the
consensus that orders it (Tusk), the proposer with its adversary schedule, the
workers that spread batches, the store and the reliable sender. The modules are
written from the Rust sources; `PROJECT.json` maps each definition to the lines
it models.

## The system

A node is one *primary* and several *workers*. Workers batch client
transactions, spread the batches and report digests to the primary. Primaries
build, round by round, a DAG of certified headers. Every replica runs the
consensus on its own copy of the DAG, without messages of its own.

| Component | State | Operations | Correct when |
| --- | --- | --- | --- |
| Committee (`config`) | authorities, stakes | `stake`, `quorum_threshold`, `validity_threshold` | quorums intersect in a correct authority |
| Core (`primary/core.rs`) | `last_voted`, `processing`, `current_header`, two aggregators, `gc_round` | own header, header, vote, certificate, two loopbacks, clean-up | one vote per author and round; one certificate per author and round; certified means available |
| Aggregators | `weight`, `used`, the votes or certificates | `append` | a quorum is reported once |
| Synchronizer, HeaderWaiter, CertificateWaiter | pending headers and certificates, sync requests | suspend, deliver, retry, cancel | causal delivery; nothing waits forever |
| PayloadReceiver, GarbageCollector | batch markers, committed round | store, advance | the round never moves back |
| Proposer | `round`, `last_parents`, `digests`, timer, `silent` | new parents, new digest, timer | one header per round on a quorum of parents |
| Adversary schedule | none | `selected`, `direct_commit_selected` | the ratios its comments promise |
| Helper (primary) | none | answer certificate requests | |
| Consensus | `dag`, `last_committed`, `last_committed_round` | insert, elect, link, flatten, update | replicas output one total order |
| Worker (BatchMaker, QuorumWaiter, Processor, Synchronizer, Helper, PrimaryConnector) | current batch, acknowledgements, pending requests | seal, acknowledge, store, request, retry | a digest that reaches the primary stands for a batch held by a quorum |
| Store | key-value pairs, obligations | write, read, notify_read | every waiter is told |
| ReliableSender | per-connection buffers | send, retry, acknowledge, cancel | delivered unless cancelled |

Components are tokio tasks that talk through bounded channels; the committed
round is an atomic shared by the Core, the HeaderWaiter and the
GarbageCollector. The hard parts are the interleavings of headers, votes,
certificates, late payload and loopbacks; faulty authorities that equivocate;
garbage collection that forgets what the waiters still hold; and the order in
which each replica receives the DAG. `PROJECT.json` lists these hazards line by
line, the ones no property covers yet included.

## The modules

* `Committee`: authorities, stakes, thresholds. The weight of a set is a
  cardinality (its units of stake), so that the library's facts apply.
* `Core`: all correct primaries, each with the state of its Core, its store and
  its two waiters, over a network that is a growing set of messages: a message
  may be lost (never received), repeated and reordered. A turn of `Core::run`
  is one action, its clean-up included:
  `process_own_header`, `ReceiveHeader`, `LoopbackHeader`, `ReceiveVote`,
  `ReceiveCertificate`, `LoopbackCertificate` and `RejectMessage` (whatever
  `sanitize_*` or an aggregator refuses). `ReceiveBatch` is PayloadReceiver,
  `CancelPending` the clean-up of HeaderWaiter, `AdvanceConsensusRound` the
  GarbageCollector. `alive` turns false when the Core panics on its own vote.
  Faulty authorities send the headers of `FaultyHeaders`, vote for anything,
  and send a certificate as soon as correct votes and their own signatures are
  a quorum (`Certified` is `Certificate::verify`). A certificate is identified
  with its header, as `Certificate::digest` ignores the votes. The channel
  between the Core and a waiter is merged with the waiter's pool: a header is
  suspended and returned in one step each, at any time.
* `Consensus`: one replica. The DAG is chosen at the start among `Dags`; the
  replica receives it in any causal order (`Receive`), and again up to
  `MaxResend` times (`ReceiveAgain`). `Process` is one turn of
  `Consensus::run`, with `order_leaders`, `linked`, `order_dag` (the
  depth-first search, parents in the order of their digests, stable sort by
  round) and `update`; `MissesHistory` is the panic of "We should have the whole
  history by now". `Restart` begins with a new state, while the Core finds the
  history of a new certificate in its store and sends it alone. As the leaders
  and the output are compared with sequences computed from the complete DAG, one
  replica stands for any two.
* `Adversary`: the schedule of silent authorities and direct-commit slots as
  operators. The hash is ideal: scores are chosen at the start, ties included,
  and broken by key or round as the code's tuples are.
* `Proposer`: one primary's Proposer. A turn of its loop is a check (`Propose`,
  `StaySilent`, `NothingToPropose`) and one branch of the `select!`
  (`ReceiveParents`, `ReceiveDigest`, `ReceiveTimer`). The Core is the
  environment: it may send the parents of any round, in any order and again,
  which it does after garbage collection. Parents are abstracted to the set of
  their rounds; `payload_size` counts digests and stops at `HeaderSize`.
* `ReliableDelivery`: what `ReliableSender::send` promises for one peer, in four
  actions. `ReliableSender`: the Connection task (`phase` is where `run` is),
  its channel, buffer and pending replies, TCP streams that fail at any point,
  and the peer's Receiver, whose tasks still handle frames of given-up streams
  (`stale`). It implements `ReliableDelivery` with the same variables.
* `CoreRestart`: the primaries of `Core`, of which correct ones are stopped and
  started again on their store; everything else of them begins anew.
* `Loopback`: the cycles of bounded channels between the Core and its two
  waiters. `core` and `sending` are what a task's `send` awaits; a task that
  awaits one takes nothing else. Its items are messages, several of which may
  carry the same header or certificate (`Id`): the Core suspends them all,
  HeaderWaiter ignores a header it has already, CertificateWaiter keeps copies.
  The header of a certificate is a message of its own. The Core refuses, and the
  clean-up of HeaderWaiter cancels, what commits have collected (`Collect`).
* `ParentSync`: how a primary that fell behind gets certificates: the
  Synchronizer suspends, HeaderWaiter asks one primary and, by its timer,
  others, the Helper answers, CertificateWaiter returns, and commits move the
  GC round, below which answers are refused. The parents of a certificate are of
  the round below, as a quorum has checked them; a header that is not certified
  names parents of any round, since the Core suspends it before it checks that
  (core.rs:153, 160-165).
* `WorkerSync`: the worker Synchronizer, the Helper and the Processor of the
  workers of one id. `PayloadSync` extends it with the primary that sends the
  commands: HeaderWaiter with the headers that wait for their payload or, before,
  for their parents, and its `batch_requests`, which a header that returns takes
  along in either case; the digests on their way from the worker; and the
  GarbageCollectors, whose clean-up commands reach each worker in any order. The
  author's broadcast may arrive or be cancelled.
* `Dissemination`: one worker and its peers. `Seal`, `Send` and `Enqueue` are the
  end of `BatchMaker::seal`, which awaits the bounded channel of one Connection
  after the other and then that of the QuorumWaiter; then acknowledgements, the
  QuorumWaiter, the Processors and the way of a digest to the primary. What the
  network does between workers is whatever `ReliableDelivery`, which
  `ReliableSender` implements, allows on each `Link`. A faulty worker
  acknowledges what it does not store, and may stop reading (`Take`).
* `BatchMaker`: the loop with its paused state and its biased select, the timer
  as a count of ticks, and the `BatchSilent` messages from `enter_round` of the
  Proposer to the handler, which compares and replaces the round in two steps.
* `NotifyStore`: what the store promises to its callers. `Store`: the command
  loop, its channel and the obligations, with cancelled `notify_read` calls and
  failing puts (`failing` says at the start whether the database may fail). It
  implements `NotifyStore`, as long as puts succeed.
* `CoreProofs` (with `CoreRestart`), `ConsensusProofs`, `ProposerProofs` (with
  `Adversary`), `ReliableSenderProofs`, `DisseminationProofs`,
  `BatchMakerProofs`: the theorems of these components. `WaitingProofs`: those of
  the parts that wait for something: `PayloadSync` with `WorkerSync`, and, as the
  instances `Ancestry`, `Channels` and `Database`, `ParentSync`, `Loopback` and
  `Store`. `CommonProofs`: the committee, and what the others need of numbers
  and sequences.
* `MC*`: the instances for TLC.

Operators whose comment starts with "Mutant of" are broken versions of the
definition that follows; with it replaced, TLC finds the property named in
`PROJECT.json` violated. They are used nowhere else.

## The runs

| Run | Shows | Bounds |
| --- | --- | --- |
| `core` | `TypeOK`, `VoteOnce`, `CertificateUniqueness`, `CertifiedHistory`, `CertifiedIsAvailable`, `CausalDelivery` | stakes 2, 1, 1; the third authority is faulty: two headers for round 1 (one with a late payload), one with too few parents for round 2; two rounds |
| `core_gc` | `ProposerParents`, `VotedIsHeld` | one primary, `gc_depth` 2, seven rounds certified by the rest of the committee, one certificate of them in flight at a time (`MaxInFlight`); any number of restarts while only round 1 is certified (`MaxRestartRound`) |
| `consensus` | `WholeHistory`, `LeaderAgreement`, `TotalOrder`, `CommittedOnce`, `DependenciesCommitted` | four authorities, `gc_depth` 3, the leaders of rounds 2, 4 and 6 can be committed; 54 DAGs of nine rounds that extend every author's previous certificate, 18 of seven rounds that may leave out any authority, delivered again once, and 2 small ones with a restart |
| `consensus_late` | violates `CommittedRoundsIncrease` | some of the same DAGs, delivered once, no restart |
| `proposer` | `OneHeaderPerRound`, `ParentsOfPreviousRound`, `NoDigestLost`, `ParentsAreUsed`, `ExactlyFaultsSilent`, `LeadersPerWindow` | seven authorities, two faults, two windows of seven leader rounds, 696 score functions; in four of them one primary is followed through four rounds, with two digests and headers of two digests, silent as a leader, otherwise, both or never |
| `reliable_sender` | `AckedIsDelivered`, `ImplementsReliableDelivery`, `EventuallyAcknowledged` | three messages, a channel of two, two failing streams: a message can be sent three times while two old streams hold frames |
| `store` | `NotifiedOfWrite`, `ImplementsNotifyStore` | two calls and three writes under way, two keys, two values, a channel of three, a database that fails or does not |
| `dissemination` | `ProposableIsHeld`, `VotableIsStored`, `SealedIsReported` | four workers, one of them faulty and first in the order of addresses, channels of one; a second batch is followed while one worker is left out of both or the faulty one reads nothing (`LeftOut`) |
| `batch_maker` | `TransactionsPreserved`, `PausesWhileSilent`, `BoundedDelay`, `EventuallySealed` | four transactions, batches of three, a delay of two ticks, the states of two rounds, two connections |
| `parent_sync` | `MissingIsRequested`, `CatchesUpUnlessCollected` | a certificate whose two parents are missing and whose author crashed, a malformed header of a lower round that names one of them, `gc_depth` 1, commits up to round 3, one answer lost |
| `payload_sync` | `PendingIsRecent`, `NoRequestLeftBehind`, `EventuallySynchronized`, `LoopsBackUnlessLost` | three workers, headers of rounds 1 and 2 that share a batch, the first without its parents, `gc_depth` 1, commits up to round 2, one message lost |
| `loopback` | `NoEarlyWaitCycle`, `ProcessedUnlessFull` | channels of one, four messages (2 * capacity + 2) with two headers, one of which lacks its parents too and can be collected, and a certificate |

Stakes 2, 1, 1 make four units, so f = 1: a quorum is 3 and the faulty unit
leaves quorums that overlap in one correct authority. Two rounds are enough for
headers and certificates to wait for parents; seven are the fewest for two
leaders. In `core_gc` the rest of the committee is the environment, so its
authorities are in `Faulty`; they certify honest rounds, and one signs a second
header whose payload comes late. The DAG families cover leaders that are supported, committed only
through a later one, skipped, or missing.

Two faults are the fewest for which the choice of direct slots leaves some out
(f+2 of 2f+1). The two properties of the schedule are evaluated in the
initial states, all 696 of them, and say that nothing changes the scores; the
constraint `Followed` says which of these the Proposer goes on from.

Each module states its type invariant, `TypeOK`. They are proved, as are
`SilentRoundsHaveNoHeader` and `AcksExpected`. But for
that of `Core`, the runs leave the type invariants, which hold in the same
instances, to the proofs, and ask what is harder to see.

In `dissemination` the constraint `LeftOut` only drops behaviours: with two
batches under way, those in which the left-out worker receives one although the
faulty one reads. One batch goes to all of them in every order. The channel to
the faulty worker is full with the first batch, so that the second is blocked.

`loopback` has the fewest messages that can fill a cycle, so both sides of the
limit are reached, by copies. Its constraints drop behaviours only: of two copies,
which differ in nothing, one is received first (`InOrder`), and the round
collected goes from 0 to 2 at once (`ByTwo`), past the first header and not past
the others. `CHECK_DEADLOCK FALSE` is set (except for `proposer`, which
never stops) because the instances are finite: a run ends when every header is
certified and delivered, every batch reported, every call answered.

## Known divergences

`consensus_late` violates its property: a certificate first delivered after a
later one of its author was committed is committed, while a replica that
received it earlier has dropped it. The two replicas output different
sequences; `TotalOrder` holds only for DAGs in which every certificate extends
its author's previous one.

The properties of the other runs are stated as strongly as the code allows, and
their conditions name what it does not do. TLC finds a counterexample to each of
them without its condition:

* `CommittedOnce` without `resent = 0`: a certificate that is delivered again
  after a later one of its author was committed can be committed twice. The skip
  test of `order_dag` is an equality of rounds (lib.rs:346).
* `DependenciesCommitted` without `Chained`: `State::update` drops uncommitted
  certificates (lib.rs:58), and later leaders are committed without these
  dependencies.
* `WholeHistory` and `TotalOrder` without `restarts = 0`: the consensus state is
  not persisted (lib.rs:18). After a restart the replica commits from a DAG with
  holes; its output leaves the common sequence, and its task may panic.
  (`Scope` restarts the replica in the small DAGs only, which are not `Chained`;
  the counterexample to `TotalOrder` needs a restart in a chained one.)
* `VoteOnce` is not stated of `CoreRestart`: `last_voted` and `current_header`
  are not in the store, so a restarted primary may vote and propose again in a
  round. The repository does not promise otherwise. `VoteOnce` and
  `CertificateUniqueness` end at `gc_round` for a similar reason: below it a
  header returned by HeaderWaiter can get a second vote.
* In `core_gc` a Core may stop (`alive`): if garbage collection passes the round
  of the current header before its votes arrive, assembling the certificate
  votes for it again and the Core panics on its own second vote (core.rs:194).
  This needs a primary that lags `gc_depth` rounds behind.
* `ProcessedUnlessFull`: with both channels between the Core and HeaderWaiter
  full and one message in the hand of each, both wait for ever.
  `NoEarlyWaitCycle` says that one message less is safe; with the capacity of the
  code the limit is 2001 suspended messages. Messages, not headers: a header that
  is sent again and again while it waits is suspended every time. What HeaderWaiter
  cancels as collected is not processed.
* `MissingIsRequested` and `CatchesUpUnlessCollected`: headers that miss the same
  certificate share its entry in `parent_requests`, which has the round of the
  header that made it (header_waiter.rs:208). A malformed header of a faulty
  author may name a low round, as it is suspended before that is checked; when
  this round is collected the entry goes (line 289), and nobody asks again for
  what the others miss. Both properties excuse a collected header that named it.
* `CatchesUpUnlessCollected`: a primary that commits past a missing certificate
  refuses it afterwards as too old (core.rs:340), while CertificateWaiter waits
  for it without end.
* `NoRequestLeftBehind` has no converse. A header that returns from HeaderWaiter
  takes the entries of its whole payload out of `batch_requests`
  (header_waiter.rs:229), also one that had waited only for its parents: another
  header may still wait for a batch that no entry names. The worker goes on
  asking for it, and a later header only has it commanded once more; also when the
  entry of several headers is collected with the round of the first.
* `LoopsBackUnlessLost`: the command to synchronize a payload goes to the
  author's worker instead of ours (header_waiter.rs:164). A batch whose broadcast
  was cancelled is never fetched. Nor is a digest reported again that was lost on
  its way from our worker, as the worker already stores the batch
  (worker/synchronizer.rs:130).
* `ProposableIsHeld` asks for f+1 holders only: at its quorum the QuorumWaiter
  cancels the rest of the broadcast (quorum_waiter.rs:82), so that the other
  workers may miss the batch for good; together with the former, a slow primary
  cannot vote for such headers.
* `PausesWhileSilent` and `EventuallySealed` speak of the state the worker has:
  two connections can replace the state of a later round by that of an earlier
  one (worker.rs:320).
* `BoundedDelay` counts one delay per state received: every state that is not
  silent starts the timer again (batch_maker.rs:101), so that `max_batch_delay`
  is not the maximum.
* `SealedIsReported`: `seal` awaits the channel of every peer's Connection
  (batch_maker.rs:174, reliable_sender.rs:54). A peer that keeps its stream open
  without reading fills it in the end, after a thousand batches, and then the
  batch never reaches the QuorumWaiter and the worker seals no more. TLC finds it
  without the excuse `Blocked`.
* `ImplementsNotifyStore` without failing puts only: a failed put is ignored
  while its waiters are told of the value (store/lib.rs:36).

## The proofs

Everything below is proved by TLAPS for every committee, set of headers, DAG, GC
depth, capacity and number of messages.

* `CommonProofs` holds induction and recursion in the form the provers can use:
  a property is the set of the numbers that have it (`SetInduction`, from the
  least element of a set of naturals), the step of a recursion is a function
  (`UpwardRecursion`, `DownwardRecursion`: such a recursion defines a function,
  so that the CHOOSE behind a recursive definition has a value). The rest is
  about sequences: their elements, concatenation, `FlattenSeq`. Predicates such
  as `Joins` and `Then` give a concatenation a name, as lemmas that mention `\o`
  itself are not instantiated. From the two threshold formulas it derives, by
  inclusion and exclusion on units of stake, that two quorums share a correct
  authority, that a quorum meets any f+1 units, and that the correct part of a
  quorum holds f+1 units.
* `CoreProofs` first states what a turn of the Core may do to each variable
  (`HeaderEffect`, `CertificateEffect`, and one lemma per handler ending in
  `Turn`), then proves the inductive invariant `Inductive` part by part:
  * `TypeOK`;
  * `VoteInv`: a vote is in `last_voted` or below `gc_round` (this is what makes
    `VoteOnce` inductive), and `gc_round` never moves back because it trails
    the committed round;
  * `StoreInv`: a voter holds the header, its parents and its payload and found
    it well formed; stores hold certificates of the network, closed under
    parents;
  * `ParentsInv`: what the Proposer got is a quorum of stored certificates of
    one round, so that our own header is always well formed;
  * `OwnInv`: nobody knows a header its correct author has not proposed, our
    own vote is the first the aggregator counts, the aggregator's weight is
    covered by votes for the current header, and every certificate verifies.

  `CertificateUniqueness`, `CertifiedHistory` and `CertifiedIsAvailable` follow
  with the committee's theorems, assuming `FaultBound(Faulty)`: the faulty
  authorities hold less than the validity threshold.

  `VoteInv` and `OwnInv` do not survive a restart, as `last_voted` and the
  current header are lost. `RestartInv` is the part that does: types, `StoreInv`
  and `OnceInv`, which says that a certificate that is aggregated or was sent to
  the Proposer has its author marked as used in its round, and none is both. As
  two quorums share an author, a second one of the same round cannot come
  together before the round is collected. `VotedIsHeld` and
  `ProposerParents` follow for `RestartSpec`, any number of restarts included.
* `ConsensusProofs` begins with what the operators compute, for every state: a
  search visits certificates of the DAG below its leader, each once, ends with
  nothing left to visit within the size of the DAG, and leaves out no recent
  parent (`VisitFacts`, `SearchFacts`, `OrderDagFacts`); `update` and `commit`
  only raise `last_committed` and remove from the DAG no certificate above the
  last committed round (`UpdateFacts`, `CommitFacts`, `CommitAllFacts`).
  `SupportedIsReached` is the theorem of the leader rule: the f+1 children of a
  leader meet the quorum of parents of any certificate two rounds above, and
  every certificate above reaches one of those. Hence the leaders `order_leaders`
  links together do not depend on where it starts, as long as that is a
  supported leader (`LaterChain`), nor on the part of the DAG the replica has
  (`SameReach`, `SameChain`). The inductive invariant is `ConsensusInv`:
  * `Received`: what was received comes with its history, and the DAG and the
    output are made of it;
  * `OutputOnce`: as long as nothing is delivered again, no certificate is twice
    in the output, and one that is in the DAG and the output is the last
    committed of its author, so that the skip test of `order_dag` sees it;
  * `LeadersOfDag`: without a restart the DAG above the last committed round is
    whole, and the leaders committed so far are those that the last of them,
    which has support, is linked to in the complete DAG;
  * `SameOrder`: in a chained DAG that is delivered once, the replica is the twin
    of one that has the complete DAG from the start and commits the same leaders
    (`IsTwin`): both have the same output and the same committed rounds, and
    neither has forgotten anything (`IsComplete`): what it got is in the output
    up to the last committed round of its author, in its DAG above that round, or
    too old, and what was output comes after its parents.

  `WholeHistory`, `CommittedOnce` and `LeaderAgreement` follow from the first
  three, `DependenciesCommitted` and `TotalOrder` from the last. That it is kept
  takes two arguments. Committing forgets nothing (`CommitComplete`): between the
  old and the new last committed round of an author, the chain of its
  certificates leads the search from one to the next, and a certificate that
  arrives later is above that round, as it comes after its predecessors
  (`ChainIsReceived`). And the two searches agree (`VisitTwin`, `OrderDagTwin`):
  the replica lacks certificates that the leader does not reach, and may hold some
  that are too old, because they came late; from those the search reaches older
  ones only, so that it visits the recent ones in the same order, and the stable
  sort keeps that order (`ByRoundOfRecent`). Commits in several steps are the
  commits of the whole sequence of leaders (`CommitAllTwin`, `CommitAllConcat`).
* `ProposerProofs`: with parents in hand the current round has no header yet
  (`RoundInv`), the parents are of the round before (`ParentsInv`), and `silent`
  is the schedule's answer for the current round (`SilentInv`). The
  properties of headers follow for every committee and schedule; `NoDigestLost` is
  inductive with the types. The schedule is counted by `FirstOnes`: in a total
  order the number of elements before an element takes every value once, so that
  k of them have fewer than k before them. Scores with the ties broken by key or
  by round are such an order (`FirstAuthorities`, `FirstSlots`), and all leader
  rounds of a window compute the same window (`WindowFacts`), so that
  `ExactlyFaultsSilent` and `LeadersPerWindow` hold for all scores; the second
  for f > 0, as without faults every leader may be committed.
* `ReliableSenderProofs`: on a working stream the pending replies are the
  messages the peer has acknowledged and then the frames in flight, in order
  (`Counted`, `AckedFirst`, `InFlight`), and nothing of this outlives the stream
  (`FreshStream`). Hence the oldest pending reply is always the right one
  (`AckedIsDelivered`). For the refinement `OrderInv` adds where a message can
  be (`Queued`) and its order (`InOrder`, `StreamsInOrder`): on every path,
  given-up streams included, what comes before a message that is not handled has
  been delivered or cancelled. The messages a retry keeps are an order-preserving
  part of the buffer, which is all the proof needs of `Retained`.
* `DisseminationProofs`: an acknowledgement that counts is of a correct worker
  that has the batch or of a faulty one (`Honest`, `Kept`), what our worker
  stores was acknowledged by a quorum (`CountedAcks`, `OursAcknowledged`), and
  only stored batches are reported (`ReportedIsStored`); together `HoldInv`.
  `CorrectPartOfQuorum` gives f+1 units of holders. Of the network it uses what
  `MayDeliver` and `MayAcknowledge` of `ReliableDelivery` say.
* `BatchMakerProofs`: a batch is handed over only in its own phase (`HandOver`);
  after a late seal the loop comes to a pause before it can seal again
  (`LateInv`); the age of a batch and what remains of its timer, a whole delay if
  a state is not yet seen, are covered by the delays granted (`DelayInv`). The
  order of transactions is inductive with `HandOver`, by associativity.
* `WaitingProofs` has four parts.
  * `ParentSync`: `MissingIsRequested`, with the invariant `AncestryInv`. A request
    for a digest has the round of a header that names it (`RequestRounds`), so
    that when it is collected, either the pending header that misses the digest
    goes too or that header was of an earlier round (`CollectedBefore`). What a
    waiter holds is exactly what was missing (`MissingIsExact`).
  * `WorkerSync` and `PayloadSync`: `PendingIsRecent` and `NoRequestLeftBehind`,
    by an invariant of the workers (`WorkersInv`) and one of the primary's waiter
    (`PrimaryInv`), for any loss or delay of what goes between them. What the
    clean-up keeps of headers and requests has the same rounds, and a header that
    returns leaves no request for its payload.
  * `Loopback`: `NoEarlyWaitCycle` for every capacity and any number of copies. A
    message is at one place only, on a channel, in the Core's hand, waiting or in
    the waiter's (`OncePerPlace`, `Apart`, `Owned`), whatever other messages carry
    the same header. When Core and waiter wait for each other, both channels are
    full and each task holds one more: 2 * capacity + 2 different messages.
  * `Store`: `ImplementsNotifyStore`. A waiting call is at one place, the channel
    or the obligations, and nothing else is (`Placed`). A call is mapped to its
    fate: what its key has at its place on the channel, that is the last write
    before it or what is in the database, and for a `notify_read` that finds
    nothing the next write behind it (`FateOf`, by `Found` and `NextIn`). A command
    put at the end of the channel changes no fate already decided (`FateAppend`),
    and serving the first one changes none at all (`FateTail`): the abstract call
    or write happens when the command is sent, the abstract answer when the task
    serves it.

Assumptions on the constants are `CommitteeAssumption`, `CoreAssumption` (one
genesis certificate per authority; no single authority is a quorum; the
adversary signs only for faulty authorities), `ConsensusAssumption` (the DAGs
are finite, closed, of quorums of parents, one certificate per author and round,
and digests order them), `AdversaryAssumption`, `ScheduleAssumption` (not everyone
is faulty, and whole windows are looked at), `ProposerAssumption`,
`SenderAssumption`, `DisseminationAssumption` (at most f faulty units),
`BatchMakerAssumption` and those of the other modules (the ranges of their
constants); TLC evaluates them in every run that uses them. Those of `ParentSync`,
`Loopback` and `Store`, which `WaitingProofs` instantiates, are hypotheses of
their theorems.

Every safety property of a passing run is stated by a theorem. Liveness is out
of the reach of the provers and only model-checked, under this fairness:

* `EventuallyAcknowledged`: weak fairness of every step of the Connection and
  the peer's runner (tokio runs a ready task; the retry timer expires), and
  strong fairness of `Connect`: a peer that is tried again and again is reached
  in the end. The streams fail a bounded number of times. Nothing is assumed
  of the caller, of cancellations or of old streams. That a failed stream is
  noticed supposes that a connection whose other end is gone is reset: the code
  has no time limit of its own.
* `ParentsAreUsed`: weak fairness of the check at the top of the loop, of the
  timer's branch and of time passing; none of the Core or the workers.

* `CatchesUpUnlessCollected`, `EventuallySynchronized`, `LoopsBackUnlessLost`:
  weak fairness of the tasks and of what is under way (it arrives or is lost),
  losses bounded, and every set of workers or primaries a retry may ask is asked
  in the end: `lucky_broadcast` draws at random. Commits and commands are not
  fair.
* `ProcessedUnlessFull`: weak fairness of each task, and what is missing is
  stored in the end. Commits are not fair.
* `SealedIsReported`: weak fairness of the tasks and of the network from and to
  correct workers, strong for the delivery of a batch, whose handler is busy now
  and then. Nothing is assumed of faulty workers, not even that they read.
* `EventuallySealed`: weak fairness of the loop, the handlers and time. The
  broadcast of a sealed batch is taken to return, which `SealedIsReported`
  qualifies. Nothing is assumed of clients, and a silence that lasts is excused.

## Plan

What is left is a module `Node`: Proposer, Core and Consensus composed, with round
advancement as liveness, and the channel cycle of Core and Proposer.

## Not modelled

Wiring, file import, command line, logs, serialization, addresses, benchmark
scripts and the load generator: pure I/O. Signatures and digests are ideal
(`crypto`). A node that is killed may lose writes its store has queued; the
restarts here assume they were carried out. After a restart a header of ours from
before may come back in a certificate, and our vote for it, which the Core gives
to the aggregator of its current header unchecked (core.rs:194), may complete a
quorum: the certificate then assembled, which peers refuse because of that vote,
is left out (`CastVote`). Stakes are natural numbers, rounds
too; the one wrap-around the code can meet (the round of a genesis certificate
minus one) is noted at `ElectsLeader`.
