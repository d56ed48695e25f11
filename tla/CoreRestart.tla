---------------------------- MODULE CoreRestart ----------------------------
(***************************************************************************)
(* The primaries of Core when correct ones may be stopped at any point and *)
(* started again on their store (node/src/main.rs, Primary::spawn).  The   *)
(* Core, the waiters, the Proposer and the round of the GarbageCollector   *)
(* begin anew; headers, certificates and payload markers are in the store. *)
(* A stopped primary has forgotten whom it voted for and what it proposed. *)
(*                                                                         *)
(* The store is assumed to have carried out the writes it was given.       *)
(* Store::write does not wait for that: a primary killed in between may    *)
(* lose what it wrote last, as a faulty one.                               *)
(***************************************************************************)
EXTENDS Core

CONSTANT MaxRestartRound \* the bound on the rounds certified when one is stopped

ASSUME RestartAssumption == MaxRestartRound \in Nat

\* Mutant of Restart: the payload markers are not in the persistent store.
RestartWithoutMarkers(n) ==
    /\ \A c \in certs : round[c] <= MaxRestartRound
    /\ last_voted' = [last_voted EXCEPT ![n] = {}]
    /\ processing' = [processing EXCEPT ![n] = {}]
    /\ current_header' = [current_header EXCEPT ![n] = NoHeader]
    /\ votes_aggregator' = [votes_aggregator EXCEPT ![n] = NewVotesAggregator]
    /\ certificates_aggregators' =
         [certificates_aggregators EXCEPT ![n] = [used |-> {}, certificates |-> {}]]
    /\ gc_round' = [gc_round EXCEPT ![n] = 0]
    /\ alive' = [alive EXCEPT ![n] = TRUE]
    /\ header_pending' = [header_pending EXCEPT ![n] = {}]
    /\ certificate_pending' = [certificate_pending EXCEPT ![n] = {}]
    /\ tx_proposer' = [tx_proposer EXCEPT ![n] = {}]
    /\ consensus_round' = [consensus_round EXCEPT ![n] = 0]
    /\ batches' = [batches EXCEPT ![n] = {}]
    /\ UNCHANGED <<headers, certificates, network>>

Restart(n) ==
    /\ \A c \in certs : round[c] <= MaxRestartRound
    /\ last_voted' = [last_voted EXCEPT ![n] = {}]
    /\ processing' = [processing EXCEPT ![n] = {}]
    /\ current_header' = [current_header EXCEPT ![n] = NoHeader]
    /\ votes_aggregator' = [votes_aggregator EXCEPT ![n] = NewVotesAggregator]
    /\ certificates_aggregators' =
         [certificates_aggregators EXCEPT ![n] = [used |-> {}, certificates |-> {}]]
    /\ gc_round' = [gc_round EXCEPT ![n] = 0]
    /\ alive' = [alive EXCEPT ![n] = TRUE]
    /\ header_pending' = [header_pending EXCEPT ![n] = {}]
    /\ certificate_pending' = [certificate_pending EXCEPT ![n] = {}]
    /\ tx_proposer' = [tx_proposer EXCEPT ![n] = {}]
    /\ consensus_round' = [consensus_round EXCEPT ![n] = 0]
    /\ UNCHANGED <<store, network>>

RestartNext ==
    \/ Next
    \/ \E n \in Correct : Restart(n)

RestartSpec == Init /\ [][RestartNext]_vars

-----------------------------------------------------------------------------
(* Properties.                                                             *)

\* What a correct primary voted for it accepted, and its acceptance outlives
\* the restarts: it still holds the header, its parents and its payload.
VotedIsHeld ==
    \A n \in Correct : \A h \in Headers : <<h, n>> \in votes => Has(n, h)

=============================================================================
