------------------------------ MODULE Proposer ------------------------------
(***************************************************************************)
(* The Proposer of one primary (primary/src/proposer.rs): it turns the     *)
(* parents the Core sends it and the digests of its workers into headers,  *)
(* one turn of the loop of Proposer::run at a time: a check whether to     *)
(* propose, then one branch of the select!.                                *)
(*                                                                         *)
(* The parents of a message are certificates of one round (ProposerParents *)
(* of Core) and are abstracted to the set of their rounds; the Core sends  *)
(* them in any order, and again once it has forgotten the round.  Digests  *)
(* have one size, which is the unit of payload_size; beyond the size of a  *)
(* header it is not counted.                                               *)
(***************************************************************************)
EXTENDS Adversary

CONSTANTS name,       \* the primary
          Batches,    \* (batch digest, worker id) pairs
          HeaderSize, \* header_size, in digests
          PauseBatches \* pause_batches_during_silence

ASSUME ProposerAssumption ==
    /\ name \in Authorities
    /\ HeaderSize \in Nat \ {0}
    /\ PauseBatches \in BOOLEAN

VARIABLES
    round, silent, last_parents, digests, payload_size, \* fields of Proposer
    elapsed,      \* whether the timer has expired
    pc,           \* "start", "check" (top of the loop) or "select"
    batch_silent, \* the last message to the workers, none before the first
    headers,      \* the headers sent to the Core
    received      \* the digests received from the workers

fields == <<round, silent, last_parents, digests, payload_size>>
vars == <<score, fields, elapsed, pc, batch_silent, headers, received>>

Init ==
    /\ score \in Scores
    /\ round = 1 /\ silent = FALSE
    /\ last_parents = {0}
    /\ digests = {} /\ payload_size = 0
    /\ elapsed = FALSE
    /\ pc = "start"
    /\ batch_silent = <<>>
    /\ headers = <<>>
    /\ received = {}

-----------------------------------------------------------------------------

\* The workers are told only if there is an adversary; the message before is
\* cancelled.
enter_round(r) ==
    /\ round' = r
    /\ silent' = selected(name, r)
    /\ batch_silent' = IF Faults = 0 THEN batch_silent
                       ELSE <<r, silent' /\ PauseBatches>>

Start ==
    /\ pc = "start"
    /\ enter_round(round)
    /\ pc' = "check"
    /\ UNCHANGED <<score, last_parents, digests, payload_size, elapsed, headers, received>>

\* Mutant of Proposes: the timer is not asked.
ProposesFull == payload_size >= HeaderSize /\ last_parents # {}

Proposes == (elapsed \/ payload_size >= HeaderSize) /\ last_parents # {}

make_header ==
    /\ headers' = Append(headers, [round   |-> round,
                                   payload |-> digests,
                                   parents |-> last_parents])
    /\ digests' = {}
    /\ last_parents' = {}

Propose ==
    /\ pc = "check" /\ Proposes /\ ~ silent
    /\ make_header
    /\ payload_size' = 0
    /\ elapsed' = FALSE
    /\ pc' = "select"
    /\ UNCHANGED <<score, round, silent, batch_silent, received>>

\* Mutant of StaySilent: the digests are dropped with the parents.
StaySilentDropping ==
    /\ pc = "check" /\ Proposes /\ silent
    /\ last_parents' = {} /\ digests' = {}
    /\ elapsed' = FALSE
    /\ pc' = "select"
    /\ UNCHANGED <<score, round, silent, payload_size, batch_silent, headers, received>>

\* A silent primary gives up the round and keeps its digests.
StaySilent ==
    /\ pc = "check" /\ Proposes /\ silent
    /\ last_parents' = {}
    /\ elapsed' = FALSE
    /\ pc' = "select"
    /\ UNCHANGED <<score, round, silent, digests, payload_size, batch_silent, headers, received>>

NothingToPropose ==
    /\ pc = "check" /\ ~ Proposes
    /\ pc' = "select"
    /\ UNCHANGED <<score, fields, elapsed, batch_silent, headers, received>>

\* Mutant of NewParents: parents of the round before are taken again.
NewParentsAgain(r) == r + 1 >= round

\* Parents of earlier rounds are ignored.
NewParents(r) == r >= round

\* Mutant of ReceiveParents: parents that are ignored still replace ours.
ReceiveParentsAlways ==
    /\ pc = "select"
    /\ \E r \in 0 .. MaxRound - 1 :
         /\ last_parents' = {r}
         /\ \/ NewParents(r) /\ enter_round(r + 1)
            \/ ~ NewParents(r) /\ UNCHANGED <<round, silent, batch_silent>>
    /\ pc' = "check"
    /\ UNCHANGED <<score, digests, payload_size, elapsed, headers, received>>

\* Parents of a round no earlier than ours: on to the round after them.
ReceiveParents ==
    /\ pc = "select"
    /\ \E r \in 0 .. MaxRound - 1 :
         \/ /\ NewParents(r)
            /\ enter_round(r + 1)
            /\ last_parents' = {r}
         \/ /\ ~ NewParents(r)
            /\ UNCHANGED <<round, silent, last_parents, batch_silent>>
    /\ pc' = "check"
    /\ UNCHANGED <<score, digests, payload_size, elapsed, headers, received>>

ReceiveDigest ==
    /\ pc = "select"
    /\ \E b \in Batches : digests' = digests \cup {b} /\ received' = received \cup {b}
    /\ payload_size' = IF payload_size < HeaderSize THEN payload_size + 1 ELSE payload_size
    /\ pc' = "check"
    /\ UNCHANGED <<score, round, silent, last_parents, elapsed, batch_silent, headers>>

\* The timer of select! is ready again and again until it is rescheduled.
ReceiveTimer ==
    /\ pc = "select" /\ elapsed
    /\ pc' = "check"
    /\ UNCHANGED <<score, fields, elapsed, batch_silent, headers, received>>

\* max_header_delay has passed.
Elapse ==
    /\ ~ elapsed
    /\ elapsed' = TRUE
    /\ UNCHANGED <<score, fields, pc, batch_silent, headers, received>>

Next ==
    \/ Start
    \/ Propose \/ StaySilent \/ NothingToPropose
    \/ ReceiveParents \/ ReceiveDigest \/ ReceiveTimer
    \/ Elapse

Spec == Init /\ [][Next]_vars

\* The task runs as long as it is not waiting, and the timer expires.
FairSpec ==
    /\ Spec
    /\ WF_vars(Start) /\ WF_vars(Propose \/ StaySilent \/ NothingToPropose)
    /\ WF_vars(ReceiveTimer) /\ WF_vars(Elapse)

-----------------------------------------------------------------------------
(* Properties.                                                             *)

\* The type invariant of the Proposer.
TypeOK ==
    /\ round \in 1 .. MaxRound
    /\ silent \in BOOLEAN
    /\ last_parents \subseteq 0 .. MaxRound
    /\ digests \subseteq Batches /\ received \subseteq Batches
    /\ payload_size \in 0 .. HeaderSize
    /\ elapsed \in BOOLEAN
    /\ pc \in {"start", "check", "select"}
    /\ headers \in Seq([round : Nat, payload : SUBSET Batches, parents : SUBSET (0 .. MaxRound)])

\* A correct primary proposes at most one header per round, in the order of
\* the rounds, however often and in whatever order the Core sends parents:
\* a second one would be an equivocation its peers refuse to vote for.
OneHeaderPerRound ==
    \A i, j \in DOMAIN headers : i < j => headers[i].round < headers[j].round

\* Every header extends the round just before its own, or process_header would
\* refuse it (MalformedHeader).
ParentsOfPreviousRound ==
    \A i \in DOMAIN headers :
        headers[i].parents # {} /\ headers[i].parents = {headers[i].round - 1}

\* The rounds that are skipped or silent lose no digest: each one received
\* waits for the next header or is in one.
NoDigestLost ==
    received = digests \cup UNION {headers[i].payload : i \in DOMAIN headers}

SilentRounds == {r \in 1 .. MaxRound : selected(name, r)}

\* A primary proposes in no round the schedule makes it silent.
SilentRoundsHaveNoHeader ==
    \A i \in DOMAIN headers : headers[i].round \notin SilentRounds

\* Parents do not wait for digests for ever: the primary proposes on them,
\* gives its silent round up, or leaves the round.
ParentsAreUsed ==
    \A r \in 1 .. MaxRound :
        (round = r /\ last_parents # {}) ~> (round > r \/ last_parents = {})

=============================================================================
