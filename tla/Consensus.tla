----------------------------- MODULE Consensus -----------------------------
(***************************************************************************)
(* The Tusk ordering of one replica (consensus/src/lib.rs): the certified  *)
(* DAG the primary sends it, the leaders it commits and the sequence it    *)
(* outputs.  One action is one turn of the loop of Consensus::run.         *)
(*                                                                         *)
(* The DAG the primaries certify is chosen at the start, among those the   *)
(* Core allows: one certificate <<round, origin>> per author and round     *)
(* (CertificateUniqueness), with parents of the round before that have the *)
(* stake of a quorum (CertifiedHistory).  The replica receives it in any   *)
(* causal order (CausalDelivery), and again whenever the Core processes a  *)
(* certificate again.                                                      *)
(*                                                                         *)
(* The replica may be stopped and started again.  State is made anew at    *)
(* every start, while the certificates stay in the store of the primary:   *)
(* its Core goes on with the certificates whose parents are stored,        *)
(* whether or not the new consensus task has seen them.                    *)
(***************************************************************************)
EXTENDS Committee, SequencesExt

CONSTANTS Keys,        \* the authorities, sorted by public key
          MaxRound,    \* the bound on the rounds of the instance
          DigestOrder, \* the certificates, sorted by digest
          Dags,        \* the DAGs of the instance
          DirectSlots, \* the leader rounds direct_commit_selected selects
          GcDepth,     \* Parameters.gc_depth
          MaxResend,   \* the bound on repeated deliveries
          MaxRestart   \* the bound on the restarts

Certificates == (0 .. MaxRound) \X Authorities

Round(c) == c[1]

Origin(c) == c[2]

Genesis == {0} \X Authorities

\* A DAG is the function that maps each of its certificates to its parents.
IsDag(d) ==
    /\ Genesis \subseteq DOMAIN d /\ DOMAIN d \subseteq Certificates
    /\ \A g \in Genesis : d[g] = {}
    /\ \A c \in DOMAIN d \ Genesis :
         /\ d[c] \subseteq {p \in DOMAIN d : Round(p) + 1 = Round(c)}
         /\ IsQuorum({Origin(p) : p \in d[c]})

ASSUME ConsensusAssumption ==
    /\ Keys \in Seq(Authorities)
    /\ Len(Keys) = Cardinality(Authorities) /\ ToSet(Keys) = Authorities
    /\ DigestOrder \in Seq(Certificates)
    /\ ToSet(DigestOrder) = Certificates
    /\ \A i, j \in DOMAIN DigestOrder : DigestOrder[i] = DigestOrder[j] => i = j
    /\ \A d \in Dags : IsDag(d)
    /\ MaxRound \in Nat /\ GcDepth \in Nat
    /\ MaxResend \in Nat /\ MaxRestart \in Nat
    /\ DirectSlots \subseteq Nat

VARIABLES
    edges,    \* the certified DAG
    received, \* what the replica started from or the primary has sent
    resent,   \* how many times it sent something again
    state,    \* State: dag, last_committed, last_committed_round
    output,   \* the sequence sent to the primary and to the application
    leaders,  \* the leaders committed, in order
    alive,    \* the consensus task runs
    restarts, \* how many times it was started again
    since     \* the length of the output at its start

vars == <<edges, received, resent, state, output, leaders, alive, restarts, since>>

\* State::new: the genesis certificates.
NewState == [dag                  |-> Genesis,
             last_committed       |-> [a \in Authorities |-> 0],
             last_committed_round |-> 0]

Init ==
    /\ edges \in Dags
    /\ received = Genesis
    /\ resent = 0
    /\ state = NewState
    /\ output = <<>>
    /\ leaders = <<>>
    /\ alive = TRUE
    /\ restarts = 0
    /\ since = 0

-----------------------------------------------------------------------------
(* The leader of a round, and the leaders to commit.                       *)

leader(r) == <<r, Keys[(r % Len(Keys)) + 1]>>

Supporters(dag, c) == {Origin(x) : x \in {y \in dag : Round(y) = Round(c) + 1 /\ c \in edges[y]}}

\* A path in the DAG, followed one round at a time.
linked(dag, from, to) ==
    LET reach[r \in Nat] ==
          IF r >= Round(from) THEN {from}
          ELSE {x \in dag : Round(x) = r /\ \E y \in reach[r + 1] : x \in edges[y]}
    IN  to \in reach[Round(to)]

\* Mutant of order_leaders: the path between the leaders is not checked.
order_leaders_unlinked(s, c) ==
    LET chain[r \in Nat] ==
          IF r >= Round(c) THEN <<c>>
          ELSE (IF leader(r) \in s.dag THEN <<leader(r)>> ELSE <<>>) \o chain[r + 2]
    IN  chain[s.last_committed_round + 2]

\* The leaders linked to the given one that are not committed yet, oldest first.
order_leaders(s, c) ==
    LET chain[r \in Nat] ==
          IF r >= Round(c) THEN <<c>>
          ELSE LET later == chain[r + 2]
               IN  IF leader(r) \in s.dag /\ linked(s.dag, Head(later), leader(r))
                   THEN <<leader(r)>> \o later
                   ELSE later
    IN  chain[s.last_committed_round + 2]

-----------------------------------------------------------------------------
(* The sub-DAG of a leader.                                                *)

\* The elements of a sequence that are in a set, in their order.
Selected(seq, S) ==
    LET kept[i \in 0 .. Len(seq)] ==
          IF i = 0 THEN <<>>
          ELSE IF seq[i] \in S THEN Append(kept[i - 1], seq[i]) ELSE kept[i - 1]
    IN  kept[Len(seq)]

InDigestOrder(S) == Selected(DigestOrder, S)

\* Mutants of Unvisited: visited certificates are visited again; the last
\* committed round is used for every authority.
UnvisitedOrSeen(s, x, seen) ==
    {p \in edges[x] \cap s.dag : Round(p) # s.last_committed[Origin(p)]}

UnvisitedRecent(s, x, seen) ==
    {p \in (edges[x] \cap s.dag) \ seen : Round(p) > s.last_committed_round}

\* The parents still to visit: in the DAG, not visited, and not the last
\* committed certificate of their author.
Unvisited(s, x, seen) ==
    {p \in (edges[x] \cap s.dag) \ seen : Round(p) # s.last_committed[Origin(p)]}

\* One turn of the depth-first search: the last of the buffer is visited.
Visit(s, search) ==
    IF search.buffer = <<>> THEN search
    ELSE LET x == Last(search.buffer)
             unvisited == Unvisited(s, x, search.seen)
         IN  [ordered |-> Append(search.ordered, x),
              buffer  |-> Front(search.buffer) \o InDigestOrder(unvisited),
              seen    |-> search.seen \cup unvisited]

\* The certificates recent enough, stably sorted by round.
ByRound(s, ordered) ==
    LET recent == {x \in ToSet(ordered) : Round(x) + GcDepth >= s.last_committed_round}
        sorted[i \in 0 .. MaxRound + 1] ==
          IF i = 0 THEN <<>>
          ELSE sorted[i - 1] \o Selected(ordered, {x \in recent : Round(x) = i - 1})
    IN  sorted[MaxRound + 1]

order_dag(s, c) ==
    LET search[k \in 0 .. Cardinality(s.dag) + 1] ==
          IF k = 0 THEN [ordered |-> <<>>, buffer |-> <<c>>, seen |-> {}]
          ELSE Visit(s, search[k - 1])
    IN  ByRound(s, search[Cardinality(s.dag) + 1].ordered)

\* Mutant of update: the comparison with the last committed round is flipped.
update_flipped(s, committed) ==
    LET last  == [a \in Authorities |->
                    Max({s.last_committed[a]} \cup
                        {Round(c) : c \in {x \in ToSet(committed) : Origin(x) = a}})]
        round == Max({last[a] : a \in Authorities})
    IN  [dag |-> {c \in s.dag : Round(c) >= last[Origin(c)] /\ Round(c) <= round + GcDepth},
         last_committed       |-> last,
         last_committed_round |-> round]

\* State::update for each certificate of a sequence: as the rounds it compares
\* with only grow, cleaning up once at the end keeps the same certificates.
update(s, committed) ==
    LET last  == [a \in Authorities |->
                    Max({s.last_committed[a]} \cup
                        {Round(c) : c \in {x \in ToSet(committed) : Origin(x) = a}})]
        round == Max({last[a] : a \in Authorities})
    IN  [dag |-> {c \in s.dag : Round(c) >= last[Origin(c)] /\ Round(c) + GcDepth >= round},
         last_committed       |-> last,
         last_committed_round |-> round]

\* Flattening the sub-DAG of one leader, from the state, the output and the
\* leaders so far.
commit(run, c) ==
    LET committed == order_dag(run.state, c)
    IN  [state   |-> update(run.state, committed),
         output  |-> run.output \o committed,
         leaders |-> Append(run.leaders, c)]

\* The same for a sequence of leaders.
commit_all(run, sequence) ==
    LET done[i \in 0 .. Len(sequence)] ==
          IF i = 0 THEN run ELSE commit(done[i - 1], sequence[i])
    IN  done[Len(sequence)]

-----------------------------------------------------------------------------
(* Consensus::run.                                                         *)

\* A certificate of an odd round may commit the leader three rounds before it.
\* For a genesis certificate the round minus one wraps to an odd number, and
\* nothing happens either.
ElectsLeader(s, c) ==
    LET r == Round(c) - 3
    IN  /\ Round(c) % 2 = 1 /\ Round(c) >= 5
        /\ r > s.last_committed_round
        /\ r \in DirectSlots
        /\ leader(r) \in s.dag

\* Mutant of Triggers: the support of the leader is not counted.
TriggersUnsupported(s, c) == ElectsLeader(s, c)

\* The leader needs f+1 support from its children.
Triggers(s, c) ==
    /\ ElectsLeader(s, c)
    /\ IsValidity(Supporters(s.dag, leader(Round(c) - 3)))

Rounds(dag) == {Round(c) : c \in dag}

\* "We should have the whole history by now" (expect): there is no certificate
\* of the round after the leader, or of a round between the leader to commit
\* and an earlier one that may be linked to it.
MissesHistory(s, c) ==
    LET r == Round(c) - 3
    IN  /\ ElectsLeader(s, c)
        /\ \/ r + 1 \notin Rounds(s.dag)
           \/ /\ Triggers(s, c)
              /\ \E q \in s.last_committed_round + 2 .. r - 2 :
                   /\ q % 2 = 0 /\ leader(q) \in s.dag
                   /\ ~ q .. r \subseteq Rounds(s.dag)

insert(c) == [state EXCEPT !.dag = @ \cup {c}]

\* The certificate is added to the DAG and the leaders it allows are committed.
\* A task that misses history panics; from then on the Core finds its channel
\* closed, and goes on without it.
Process(c) ==
    \/ /\ alive => MissesHistory(insert(c), c)
       /\ alive' = FALSE
       /\ UNCHANGED <<state, output, leaders>>
    \/ /\ alive /\ ~ Triggers(insert(c), c) /\ ~ MissesHistory(insert(c), c)
       /\ state' = insert(c)
       /\ UNCHANGED <<output, leaders, alive>>
    \/ /\ alive /\ Triggers(insert(c), c) /\ ~ MissesHistory(insert(c), c)
       /\ LET s    == insert(c)
              done == commit_all([state |-> s, output |-> output, leaders |-> leaders],
                                 order_leaders(s, leader(Round(c) - 3)))
          IN  /\ state' = done.state
              /\ output' = done.output
              /\ leaders' = done.leaders
       /\ UNCHANGED alive

\* A certificate comes after its history (primary/src/core.rs).
Receive(c) ==
    /\ c \notin received
    /\ edges[c] \subseteq received
    /\ received' = received \cup {c}
    /\ Process(c)
    /\ UNCHANGED <<edges, resent, restarts, since>>

\* The Core sends a certificate again every time it processes it, and a genesis
\* certificate when it is sent one.
ReceiveAgain(c) ==
    /\ c \in received
    /\ resent < MaxResend
    /\ resent' = resent + 1
    /\ Process(c)
    /\ UNCHANGED <<edges, received, restarts, since>>

\* The node stops and starts again.
Restart ==
    /\ restarts < MaxRestart
    /\ restarts' = restarts + 1
    /\ alive' = TRUE
    /\ state' = NewState
    /\ since' = Len(output)
    /\ UNCHANGED <<edges, received, resent, output, leaders>>

Next ==
    \/ \E c \in DOMAIN edges : Receive(c) \/ ReceiveAgain(c)
    \/ Restart

Spec == Init /\ [][Next]_vars

-----------------------------------------------------------------------------
(* Every variable stays in its type. *)
TypeOK ==
    /\ DOMAIN edges \subseteq Certificates
    /\ received \subseteq DOMAIN edges
    /\ resent \in 0 .. MaxResend
    /\ state.dag \subseteq DOMAIN edges
    /\ state.last_committed \in [Authorities -> 0 .. MaxRound]
    /\ state.last_committed_round \in 0 .. MaxRound
    /\ output \in Seq(Certificates)
    /\ leaders \in Seq(Certificates)
    /\ alive \in BOOLEAN
    /\ restarts \in 0 .. MaxRestart
    /\ since \in 0 .. Len(output)

(* "We should have the whole history by now": in a replica that was never
   stopped, nothing received above the last committed round has been cleaned
   up, so the support of a leader and the path between two leaders are read
   from a complete DAG, and what the task expects of it is there. *)
WholeHistory ==
    restarts = 0 =>
        /\ alive
        /\ \A c \in received : Round(c) > state.last_committed_round => c \in state.dag

\* The leader committed last in the complete DAG, and those it is linked to.
DirectLeaders ==
    {c \in DOMAIN edges : /\ Round(c) \in DirectSlots /\ Round(c) > 0 /\ Round(c) % 2 = 0
                          /\ c = leader(Round(c))
                          /\ IsValidity(Supporters(DOMAIN edges, c))}

Start == [NewState EXCEPT !.dag = DOMAIN edges]

CanonicalLeaders ==
    IF DirectLeaders = {} THEN <<>>
    ELSE order_leaders(Start, CHOOSE c \in DirectLeaders : \A d \in DirectLeaders : Round(d) <= Round(c))

(* The leaders a replica commits are a prefix of a sequence that depends on the
   DAG only: two replicas never commit conflicting leaders, whatever the order
   in which they receive certificates and however often, unless one was stopped
   and started again. *)
LeaderAgreement == restarts = 0 => IsPrefix(leaders, CanonicalLeaders)

CanonicalOutput ==
    commit_all([state |-> Start, output |-> <<>>, leaders |-> <<>>], CanonicalLeaders).output

\* Every certificate has the previous one of its author among its parents.  The
\* Proposer does not see to it: it takes the first quorum of parents.
Chained ==
    \A c \in DOMAIN edges \ Genesis : <<Round(c) - 1, Origin(c)>> \in edges[c]

(* The output is a prefix of a sequence that depends on the DAG only: replicas
   that were not stopped agree on the total order, when certificates are
   delivered once and each stands on the previous one of its author. *)
TotalOrder ==
    (Chained /\ resent = 0 /\ restarts = 0) => IsPrefix(output, CanonicalOutput)

(* A certificate delivered once is committed at most once between two starts of
   the replica (last_committed is there to "ensure we don't commit twice the
   same certificate"), even if its DAG has holes. *)
CommittedOnce ==
    resent = 0 =>
        \A i, j \in since + 1 .. Len(output) : output[i] = output[j] => i = j

(* "Committing a leader block means committing all its dependencies"
   (lib.rs:177): under the same conditions as TotalOrder, the parents of a
   committed certificate are committed before it, or too old to be. *)
DependenciesCommitted ==
    (Chained /\ resent = 0 /\ restarts = 0) =>
        \A i \in DOMAIN output : \A p \in edges[output[i]] :
            \/ p \in Genesis \cup {output[j] : j \in 1 .. i - 1}
            \/ Round(p) + GcDepth < state.last_committed_round

(* "We skip the certificate if [...] we reached a round that we already
   committed for this authority" (lib.rs:340): the committed rounds of one
   authority only increase. *)
CommittedRoundsIncrease ==
    \A i, j \in DOMAIN output :
        (i < j /\ Origin(output[i]) = Origin(output[j])) =>
            Round(output[i]) < Round(output[j])

=============================================================================
