----------------------------- MODULE Adversary -----------------------------
(***************************************************************************)
(* The schedule of the dynamic adversary (primary/src/adversary.rs): which *)
(* primaries are silent in a round, and which leaders may be committed     *)
(* directly.  Every node derives it alone from a hash; the hash is ideal,  *)
(* so the scores are chosen at the start, equal ones included.             *)
(***************************************************************************)
EXTENDS Naturals, Sequences, FiniteSets

CONSTANTS Keys,     \* the authorities, sorted by public key
          Faults,   \* TUSK_FAULTS
          MaxRound, \* the bound on the rounds a primary goes through
          Horizon,  \* the bound on the rounds of the schedules that are looked at
          Scores    \* the score functions of the instance, by domain, key and round

Authorities == {Keys[i] : i \in DOMAIN Keys}

ASSUME AdversaryAssumption ==
    /\ Keys \in Seq(Authorities) /\ Len(Keys) = Cardinality(Authorities) /\ Len(Keys) > 0
    /\ Faults \in Nat /\ MaxRound \in Nat \ {0} /\ Horizon \in Nat

\* Not everyone is faulty, and whole windows of scored rounds are looked at.
ASSUME ScheduleAssumption ==
    /\ Faults < Len(Keys)
    /\ Horizon % (2 * (3 * Faults + 1)) = 0
    /\ Scores \subseteq [(0 .. 2) \X Authorities \X (0 .. Horizon) -> Nat]

VARIABLE score

-----------------------------------------------------------------------------
(* Positions, windows and ranks.                                           *)

LeaderOf(r) == Keys[(r % Len(Keys)) + 1]

Position(a) == CHOOSE i \in DOMAIN Keys : Keys[i] = a

\* The leader rounds of the window of f that r is in; round 0 counts to the first.
Window(r, f) ==
    LET size  == 3 * f + 1
        start == IF r < 2 THEN 1 ELSE (((r \div 2) - 1) \div size) * size + 1
    IN  {2 * (start + offset) : offset \in 0 .. size - 1}

\* Authorities and leader rounds in the order of their score; equal scores in
\* the order of the keys or the rounds.
AuthorityBefore(a, b, r) ==
    LET s == score[<<0, a, r>>]
        t == score[<<0, b, r>>]
    IN  s < t \/ (s = t /\ Position(a) < Position(b))

SlotBefore(q, r, domain) ==
    LET s == score[<<domain, LeaderOf(q), q>>]
        t == score[<<domain, LeaderOf(r), r>>]
    IN  s < t \/ (s = t /\ q < r)

\* r is one of the k first of the leader rounds S.
AmongFirst(r, S, k, domain) ==
    r \in S /\ Cardinality({q \in S : SlotBefore(q, r, domain)}) < k

Rank(a, S, r) == Cardinality({b \in S : AuthorityBefore(b, a, r)})

-----------------------------------------------------------------------------
(* The schedule.                                                           *)

ClampedFaults == IF Faults < Len(Keys) THEN Faults ELSE Len(Keys)

LeaderIsSilent(r) == AmongFirst(r, Window(r, ClampedFaults), ClampedFaults, 2)

\* Mutant of selected: the silent leader is not counted.
selected_uncounted(a, r) ==
    /\ Faults > 0
    /\ IF r % 2 # 0 THEN Rank(a, Authorities, r) < ClampedFaults
       ELSE IF a = LeaderOf(r) THEN LeaderIsSilent(r)
       ELSE Rank(a, Authorities \ {LeaderOf(r)}, r) < ClampedFaults

\* Whether a is silent in round r: a silent leader counts as one of the faults.
selected(a, r) ==
    /\ Faults > 0
    /\ IF r % 2 # 0 THEN Rank(a, Authorities, r) < ClampedFaults
       ELSE IF a = LeaderOf(r) THEN LeaderIsSilent(r)
       ELSE Rank(a, Authorities \ {LeaderOf(r)}, r) <
                ClampedFaults - (IF LeaderIsSilent(r) THEN 1 ELSE 0)

\* Mutant of Available: the silent leaders are not left out.
AvailableAll(r) == Window(r, Faults)

\* The leader rounds of the window whose leader speaks.
Available(r) == {q \in Window(r, Faults) : ~ selected(LeaderOf(q), q)}

\* Whether the leader of round r may be committed directly.
direct_commit_selected(r) ==
    Faults = 0 \/ AmongFirst(r, Available(r), Faults + 2, 1)

-----------------------------------------------------------------------------
(* Properties of every schedule: each holds at the start, and the schedule *)
(* stays what it is.                                                       *)

LeaderRounds == {r \in 2 .. Horizon : r % 2 = 0}

\* The scores are a function of names and rounds that nothing changes.
Fixed == [][FALSE]_score

\* The nodes, each asking selected about itself, agree on exactly f silent
\* authorities in every round, so that a quorum always speaks.
ExactlyFaultsSilent ==
    /\ \A r \in 1 .. Horizon : Cardinality({a \in Authorities : selected(a, r)}) = Faults
    /\ Fixed

\* Of the 3f+1 leader rounds of a window exactly f have a silent leader, in the
\* leader's own view, and exactly f+2 of the others may be committed directly, in
\* the view of every replica.
LeadersPerWindow ==
    /\ \A r \in LeaderRounds :
         LET mute   == {q \in Window(r, Faults) : selected(LeaderOf(q), q)}
             direct == {q \in Window(r, Faults) : direct_commit_selected(q)}
         IN  /\ Cardinality(mute) = Faults
             /\ Cardinality(direct) = Faults + 2
             /\ direct \cap mute = {}
    /\ Fixed

=============================================================================
