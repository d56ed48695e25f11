--------------------------- MODULE ProposerProofs ---------------------------
(***************************************************************************)
(* The headers of a Proposer, for any committee, schedule and order of     *)
(* messages: no two in one round, parents of the round before, none in a   *)
(* silent round, and no digest lost.  The reason for the first two is that *)
(* parents are held only for the current round and are given up with the   *)
(* first header of the round.  Then the schedule itself: the number of     *)
(* nodes it silences in a round and of leaders it commits in a window.     *)
(***************************************************************************)
EXTENDS Proposer, SequenceTheorems, FiniteSetTheorems, TLAPS

Header == [round : Nat, payload : SUBSET Batches, parents : SUBSET (0 .. MaxRound)]

\* Parents in hand mean that the round has no header yet.
RoundInv ==
    /\ \A i \in DOMAIN headers : headers[i].round <= round
    /\ last_parents # {} => \A i \in DOMAIN headers : headers[i].round < round

\* The parents in hand are of the round before ours.
ParentsInv == last_parents \subseteq {round - 1}

\* Once started, silent is the schedule's answer for our round.
SilentInv ==
    /\ pc = "start" => headers = <<>>
    /\ pc # "start" => (silent <=> round \in SilentRounds)

ProposerInv ==
    /\ TypeOK /\ RoundInv /\ ParentsInv /\ SilentInv
    /\ OneHeaderPerRound /\ ParentsOfPreviousRound /\ SilentRoundsHaveNoHeader

-----------------------------------------------------------------------------

\* The schedule is a function of the scores, which do not change.
LEMMA ScheduleStable ==
  ASSUME score' = score
  PROVE  SilentRounds' = SilentRounds
  BY DEF SilentRounds, selected, LeaderIsSilent, AmongFirst, Rank,
         AuthorityBefore, SlotBefore

\* The first round is entered with the genesis certificates.
LEMMA ProposerInit == Init => ProposerInv
  <1> SUFFICES ASSUME Init PROVE ProposerInv
    OBVIOUS
  <1>1. headers = <<>> /\ DOMAIN headers = {}
    BY DEF Init
  <1>2. TypeOK
    <2>1. /\ round \in 1 .. MaxRound /\ last_parents \subseteq 0 .. MaxRound
          /\ payload_size \in 0 .. HeaderSize
      BY AdversaryAssumption, ProposerAssumption DEF Init
    <2>2. headers \in Seq([round : Nat, payload : SUBSET Batches, parents : SUBSET (0 .. MaxRound)])
      BY <1>1, EmptySeq
    <2> QED
      BY <2>1, <2>2 DEF Init, TypeOK
  <1> QED
    BY <1>1, <1>2 DEF Init, ProposerInv, RoundInv, ParentsInv, SilentInv,
                      OneHeaderPerRound, ParentsOfPreviousRound, SilentRoundsHaveNoHeader

\* A step that sends no header leaves what is known of the headers.
LEMMA SameHeaders ==
  ASSUME ProposerInv, score' = score, headers' = headers
  PROVE  /\ OneHeaderPerRound' /\ ParentsOfPreviousRound' /\ SilentRoundsHaveNoHeader'
  <1>1. OneHeaderPerRound' /\ ParentsOfPreviousRound'
    BY DEF ProposerInv, OneHeaderPerRound, ParentsOfPreviousRound
  <1>2. SilentRoundsHaveNoHeader'
    BY ScheduleStable DEF ProposerInv, SilentRoundsHaveNoHeader
  <1> QED
    BY <1>1, <1>2

\* enter_round answers for the round it enters.
LEMMA EnterRound ==
  ASSUME score' = score, NEW r \in 1 .. MaxRound, enter_round(r)
  PROVE  round' = r /\ silent' \in BOOLEAN /\ (silent' <=> round' \in SilentRounds')
  <1>1. round' = r /\ silent' = selected(name, r)
    BY DEF enter_round
  <1>2. silent' \in BOOLEAN
    BY <1>1 DEF selected
  <1>3. silent' <=> r \in SilentRounds
    BY <1>1 DEF SilentRounds
  <1> QED
    BY <1>1, <1>2, <1>3, ScheduleStable

\* make_header sends the only header of the round.
LEMMA ProposeInv ==
  ASSUME ProposerInv, Propose
  PROVE  ProposerInv'
  <1> DEFINE h == [round |-> round, payload |-> digests, parents |-> last_parents]
  <1>1. /\ score' = score /\ round' = round /\ silent' = silent /\ received' = received
        /\ pc = "check" /\ pc' = "select" /\ last_parents # {} /\ silent = FALSE
        /\ headers' = Append(headers, h) /\ last_parents' = {} /\ digests' = {}
        /\ payload_size' = 0 /\ elapsed' = FALSE
    BY DEF Propose, make_header, Proposes, ProposerInv, TypeOK
  <1>2. headers \in Seq(Header) /\ h \in Header
    BY DEF ProposerInv, TypeOK, Header
  <1>3. h.round = round /\ h.parents = last_parents
    OBVIOUS
  <1> HIDE DEF h
  <1>4. /\ headers' \in Seq(Header)
        /\ Len(headers) \in Nat /\ DOMAIN headers = 1 .. Len(headers)
        /\ DOMAIN headers' = 1 .. Len(headers) + 1
        /\ \A i \in 1 .. Len(headers) : headers'[i] = headers[i]
        /\ headers'[Len(headers) + 1] = h
    BY <1>1, <1>2
  <1>5. TypeOK'
    <2>1. payload_size' \in 0 .. HeaderSize
      BY <1>1, ProposerAssumption
    <2>2. headers' \in Seq([round : Nat, payload : SUBSET Batches, parents : SUBSET (0 .. MaxRound)])
      BY <1>4 DEF Header
    <2> QED
      BY <1>1, <2>1, <2>2 DEF ProposerInv, TypeOK
  <1>6. /\ \A i \in 1 .. Len(headers) : headers[i].round < round
        /\ \A i \in 1 .. Len(headers) : headers[i] \in Header /\ headers[i].round \in Nat
        /\ round \in Nat
    <2>1. \A i \in 1 .. Len(headers) : headers[i] \in Header
      BY <1>2
    <2>2. round \in Nat
      BY AdversaryAssumption DEF ProposerInv, TypeOK
    <2>3. \A i \in 1 .. Len(headers) : headers[i].round < round
      BY <1>1, <1>4 DEF ProposerInv, RoundInv
    <2> QED
      BY <2>1, <2>2, <2>3 DEF Header
  <1>7. RoundInv' /\ ParentsInv'
    <2>1. ASSUME NEW i \in DOMAIN headers' PROVE headers'[i].round <= round'
      <3>1. CASE i \in 1 .. Len(headers)
        BY <1>1, <1>4, <1>6, <3>1
      <3>2. CASE i = Len(headers) + 1
        BY <1>1, <1>3, <1>4, <1>6, <3>2
      <3> QED
        BY <1>4, <2>1, <3>1, <3>2
    <2> QED
      BY <1>1, <2>1 DEF RoundInv, ParentsInv
  <1>8. OneHeaderPerRound'
    <2> SUFFICES ASSUME NEW i \in DOMAIN headers', NEW j \in DOMAIN headers', i < j
                 PROVE  headers'[i].round < headers'[j].round
      BY DEF OneHeaderPerRound
    <2>1. i \in 1 .. Len(headers)
      BY <1>4
    <2>2. CASE j \in 1 .. Len(headers)
      BY <1>4, <2>1, <2>2 DEF ProposerInv, OneHeaderPerRound
    <2>3. CASE j = Len(headers) + 1
      BY <1>3, <1>4, <1>6, <2>1, <2>3
    <2> QED
      BY <1>4, <2>2, <2>3
  <1>9. ParentsOfPreviousRound'
    <2> SUFFICES ASSUME NEW i \in DOMAIN headers'
                 PROVE  headers'[i].parents # {} /\ headers'[i].parents = {headers'[i].round - 1}
      BY DEF ParentsOfPreviousRound
    <2>1. CASE i \in 1 .. Len(headers)
      BY <1>4, <2>1 DEF ProposerInv, ParentsOfPreviousRound
    <2>2. CASE i = Len(headers) + 1
      <3>1. last_parents = {round - 1}
        BY <1>1 DEF ProposerInv, ParentsInv
      <3> QED
        BY <1>3, <1>4, <2>2, <3>1
    <2> QED
      BY <1>4, <2>1, <2>2
  <1>10. SilentRoundsHaveNoHeader'
    <2>1. SilentRounds' = SilentRounds
      BY <1>1, ScheduleStable
    <2> SUFFICES ASSUME NEW i \in DOMAIN headers'
                 PROVE  headers'[i].round \notin SilentRounds
      BY <2>1 DEF SilentRoundsHaveNoHeader
    <2>2. CASE i \in 1 .. Len(headers)
      BY <1>4, <2>2 DEF ProposerInv, SilentRoundsHaveNoHeader
    <2>3. CASE i = Len(headers) + 1
      <3>1. round \notin SilentRounds
        BY <1>1 DEF ProposerInv, SilentInv
      <3> QED
        BY <1>3, <1>4, <2>3, <3>1
    <2> QED
      BY <1>4, <2>2, <2>3
  <1>11. SilentInv'
    BY <1>1, ScheduleStable DEF ProposerInv, SilentInv
  <1> QED
    BY <1>5, <1>7, <1>8, <1>9, <1>10, <1>11 DEF ProposerInv

\* Every turn of the loop preserves the invariant.
LEMMA ProposerStep == ProposerInv /\ [Next]_vars => ProposerInv'
  <1> SUFFICES ASSUME ProposerInv, [Next]_vars PROVE ProposerInv'
    OBVIOUS
  <1> USE AdversaryAssumption, ProposerAssumption
  <1>1. CASE Propose
    BY <1>1, ProposeInv
  <1>2. CASE Start
    <2>1. score' = score /\ headers' = headers /\ pc' = "check" /\ last_parents' = last_parents
      BY <1>2 DEF Start
    <2>2. round \in 1 .. MaxRound /\ enter_round(round)
      BY <1>2 DEF ProposerInv, TypeOK, Start
    <2>3. round' = round /\ silent' \in BOOLEAN /\ (silent' <=> round' \in SilentRounds')
      BY <2>1, <2>2, EnterRound
    <2>4. TypeOK'
      BY <1>2, <2>1, <2>3 DEF Start, ProposerInv, TypeOK
    <2>5. RoundInv' /\ ParentsInv'
      BY <2>1, <2>3 DEF ProposerInv, RoundInv, ParentsInv
    <2>6. SilentInv'
      BY <2>1, <2>3 DEF SilentInv
    <2> QED
      BY <2>1, <2>4, <2>5, <2>6, SameHeaders DEF ProposerInv
  <1>3. CASE ReceiveParents
    <2>1. /\ score' = score /\ headers' = headers /\ pc = "select" /\ pc' = "check"
          /\ digests' = digests /\ payload_size' = payload_size /\ elapsed' = elapsed
          /\ received' = received
      BY <1>3 DEF ReceiveParents
    <2>2. PICK r \in 0 .. MaxRound - 1 :
            \/ NewParents(r) /\ enter_round(r + 1) /\ last_parents' = {r}
            \/ UNCHANGED <<round, silent, last_parents, batch_silent>>
      BY <1>3 DEF ReceiveParents
    <2>3. headers \in Seq(Header) /\ round \in 1 .. MaxRound
          /\ \A i \in DOMAIN headers : headers[i].round \in Nat
      <3>1. headers \in Seq(Header) /\ round \in 1 .. MaxRound
        BY DEF ProposerInv, TypeOK, Header
      <3>2. \A i \in DOMAIN headers : headers[i] \in Header
        BY <3>1
      <3> QED
        BY <3>1, <3>2 DEF Header
    <2>4. CASE UNCHANGED <<round, silent, last_parents, batch_silent>>
      <3>1. TypeOK' /\ RoundInv' /\ ParentsInv'
        BY <2>1, <2>4 DEF ProposerInv, TypeOK, RoundInv, ParentsInv
      <3>2. SilentInv'
        BY <2>1, <2>4, ScheduleStable DEF ProposerInv, SilentInv
      <3> QED
        BY <2>1, <3>1, <3>2, SameHeaders DEF ProposerInv
    <2>5. CASE NewParents(r) /\ enter_round(r + 1) /\ last_parents' = {r}
      <3>1. r + 1 \in 1 .. MaxRound
        BY <2>2
      <3>2. round' = r + 1 /\ silent' \in BOOLEAN /\ (silent' <=> round' \in SilentRounds')
        BY <2>1, <2>5, <3>1, EnterRound
      <3>3. r >= round
        BY <2>5 DEF NewParents
      <3>4. TypeOK'
        BY <2>1, <2>2, <2>5, <3>1, <3>2 DEF ProposerInv, TypeOK
      <3>5. ParentsInv'
        BY <2>2, <2>5, <3>2 DEF ParentsInv
      <3>6. \A i \in DOMAIN headers : headers[i].round < r + 1
        BY <2>2, <2>3, <3>3 DEF ProposerInv, RoundInv
      <3>7. RoundInv'
        BY <2>1, <2>2, <2>3, <3>2, <3>6 DEF RoundInv
      <3>8. SilentInv'
        BY <2>1, <3>2 DEF SilentInv
      <3> QED
        BY <2>1, <3>4, <3>5, <3>7, <3>8, SameHeaders DEF ProposerInv
    <2> QED
      BY <2>2, <2>4, <2>5
  <1>4. CASE StaySilent \/ NothingToPropose \/ ReceiveDigest \/ ReceiveTimer \/ Elapse \/ UNCHANGED vars
    <2>1. /\ score' = score /\ headers' = headers /\ round' = round /\ silent' = silent
          /\ last_parents' \subseteq last_parents
          /\ pc' = "start" <=> pc = "start"
      BY <1>4 DEF StaySilent, NothingToPropose, ReceiveDigest, ReceiveTimer, Elapse, vars, fields
    <2>2. TypeOK'
      <3> USE DEF ProposerInv, TypeOK
      <3>1. CASE StaySilent
        BY <3>1 DEF StaySilent
      <3>2. CASE NothingToPropose \/ ReceiveTimer \/ Elapse
        BY <3>2 DEF NothingToPropose, ReceiveTimer, Elapse, fields
      <3>3. CASE ReceiveDigest
        <4>1. payload_size' \in 0 .. HeaderSize
          BY <3>3 DEF ReceiveDigest
        <4> QED
          BY <3>3, <4>1 DEF ReceiveDigest
      <3>4. CASE UNCHANGED vars
        BY <3>4 DEF vars, fields
      <3> QED
        BY <1>4, <3>1, <3>2, <3>3, <3>4
    <2>3. RoundInv' /\ ParentsInv'
      BY <2>1 DEF ProposerInv, RoundInv, ParentsInv
    <2>4. SilentInv'
      BY <2>1, ScheduleStable DEF ProposerInv, SilentInv
    <2> QED
      BY <2>1, <2>2, <2>3, <2>4, SameHeaders DEF ProposerInv
  <1> QED
    BY <1>1, <1>2, <1>3, <1>4 DEF Next

-----------------------------------------------------------------------------
(* The theorems.                                                           *)

\* The type invariant holds in every state of the Proposer.
THEOREM ProposerTypeCorrect == Spec => []TypeOK
  <1>1. ProposerInv => TypeOK
    BY DEF ProposerInv
  <1> QED
    BY <1>1, ProposerInit, ProposerStep, PTL DEF Spec

\* A primary that runs this code never proposes twice in a round.
THEOREM NoEquivocation == Spec => []OneHeaderPerRound
  <1>1. ProposerInv => OneHeaderPerRound
    BY DEF ProposerInv
  <1> QED
    BY <1>1, ProposerInit, ProposerStep, PTL DEF Spec

\* Every header it proposes is built on the round before.
THEOREM HeadersExtendPreviousRound == Spec => []ParentsOfPreviousRound
  <1>1. ProposerInv => ParentsOfPreviousRound
    BY DEF ProposerInv
  <1> QED
    BY <1>1, ProposerInit, ProposerStep, PTL DEF Spec

\* It proposes nothing in the rounds the schedule makes it silent.
THEOREM SilenceIsKept == Spec => []SilentRoundsHaveNoHeader
  <1>1. ProposerInv => SilentRoundsHaveNoHeader
    BY DEF ProposerInv
  <1> QED
    BY <1>1, ProposerInit, ProposerStep, PTL DEF Spec

(* Only make_header and ReceiveDigest touch the digests: what the first takes
   away it puts into the header it appends. *)
LEMMA DigestStep == TypeOK /\ NoDigestLost /\ [Next]_vars => NoDigestLost'
<1> SUFFICES ASSUME TypeOK, NoDigestLost, [Next]_vars
             PROVE  NoDigestLost'
  OBVIOUS
<1> DEFINE InHeaders == UNION {headers[i].payload : i \in DOMAIN headers}
<1>1. CASE Propose
  <2>1. /\ headers' = Append(headers, [round |-> round, payload |-> digests, parents |-> last_parents])
        /\ digests' = {} /\ received' = received
    BY <1>1 DEF Propose, make_header
  <2>2. headers \in Seq([round : Nat, payload : SUBSET Batches, parents : SUBSET (0 .. MaxRound)])
    BY DEF TypeOK
  <2>3. /\ DOMAIN headers' = DOMAIN headers \cup {Len(headers) + 1}
        /\ \A i \in DOMAIN headers : headers'[i] = headers[i]
        /\ headers'[Len(headers) + 1].payload = digests
    BY <2>1, <2>2
  <2>4. UNION {headers'[i].payload : i \in DOMAIN headers'} = InHeaders \cup digests
    BY <2>3
  <2> QED  BY <2>1, <2>4 DEF NoDigestLost
<1>2. CASE ReceiveDigest
  BY <1>2 DEF ReceiveDigest, NoDigestLost
<1>3. CASE Start \/ StaySilent \/ NothingToPropose \/ ReceiveParents \/ ReceiveTimer \/ Elapse
           \/ UNCHANGED vars
  <2>1. UNCHANGED <<digests, headers, received>>
    BY <1>3 DEF Start, StaySilent, NothingToPropose, ReceiveParents, ReceiveTimer, Elapse, vars, fields
  <2> QED  BY <2>1 DEF NoDigestLost
<1> QED  BY <1>1, <1>2, <1>3 DEF Next

(* A digest a worker reported is in a header or waits for the next one, however
   many rounds are skipped or silent (Proposer::run). *)
THEOREM DigestsAreKept == Spec => []NoDigestLost
<1>1. Init => NoDigestLost
  BY DEF Init, NoDigestLost
<1> QED  BY <1>1, DigestStep, ProposerTypeCorrect, PTL DEF Spec

-----------------------------------------------------------------------------
(* The schedule: how many are silent, and how many leaders commit.         *)

(* Of a finite set in a total order, k elements have fewer than k before them:
   the number of elements before x is one to one, so it takes every value. *)
LEMMA FirstOnes ==
  ASSUME NEW S, IsFiniteSet(S), NEW R, NEW k \in Nat, k <= Cardinality(S),
         \A x \in S : <<x, x>> \notin R,
         \A x, y \in S : x # y => <<x, y>> \in R \/ <<y, x>> \in R,
         \A x, y, z \in S : <<x, y>> \in R /\ <<y, z>> \in R => <<x, z>> \in R
  PROVE  Cardinality({x \in S : Cardinality({y \in S : <<y, x>> \in R}) < k}) = k
<1> DEFINE n         == Cardinality(S)
           Before(x) == {y \in S : <<y, x>> \in R}
           rank      == [x \in S |-> Cardinality(Before(x))]
           First     == {x \in S : rank[x] < k}
<1>1. n \in Nat
  BY FS_CardinalityType
<1>2. ASSUME NEW x \in S  PROVE  IsFiniteSet(Before(x)) /\ rank[x] \in 0 .. n - 1
  <2>1. Before(x) \in SUBSET S /\ x \notin Before(x)
    OBVIOUS
  <2>2. IsFiniteSet(Before(x)) /\ Cardinality(Before(x)) <= n /\ (n = Cardinality(Before(x)) => S = Before(x))
    BY <2>1, FS_Subset
  <2>3. Cardinality(Before(x)) \in Nat
    BY <2>2, FS_CardinalityType
  <2>4. Cardinality(Before(x)) # n
    BY <2>1, <2>2
  <2>5. rank[x] = Cardinality(Before(x))
    OBVIOUS
  <2> HIDE DEF Before, rank, n
  <2> QED  BY <1>1, <2>2, <2>3, <2>4, <2>5
<1>3. ASSUME NEW x \in S, NEW y \in S, <<x, y>> \in R  PROVE  rank[x] < rank[y]
  <2>1. Before(x) \in SUBSET Before(y) /\ x \in Before(y) /\ x \notin Before(x)
    BY <1>3
  <2>2. /\ Cardinality(Before(x)) <= Cardinality(Before(y))
        /\ Cardinality(Before(x)) # Cardinality(Before(y))
    BY <2>1, <1>2, FS_Subset
  <2>3. rank[x] = Cardinality(Before(x)) /\ rank[y] = Cardinality(Before(y))
    OBVIOUS
  <2> HIDE DEF Before, rank
  <2>4. rank[x] \in Int /\ rank[y] \in Int
    <3> HIDE DEF n
    <3> QED  BY <1>1, <1>2
  <2> QED  BY <2>2, <2>3, <2>4
<1>4. ASSUME NEW x \in S, NEW y \in S, rank[x] = rank[y]  PROVE  x = y
  <2>1. ~ (rank[x] < rank[y]) /\ ~ (rank[y] < rank[x])
    BY <1>2, <1>4
  <2> HIDE DEF rank
  <2> QED  BY <1>3, <2>1
<1>5. IsFiniteSet(0 .. n - 1) /\ Cardinality(0 .. n - 1) = n
  <2> HIDE DEF n
  <2>1. n - 1 \in Int /\ 0 \in Int
    BY <1>1
  <2> QED  BY <1>1, <2>1, FS_Interval
<1>6. rank \in Injection(S, 0 .. n - 1)
  <2>1. rank \in [S -> 0 .. n - 1]
    BY <1>2
  <2> HIDE DEF rank, n
  <2> QED  BY <2>1, <1>4 DEF Injection, IsInjective
<1>7. rank \in Surjection(S, 0 .. n - 1)
  BY <1>5, <1>6, FS_Injection
<1>8. IsFiniteSet(0 .. k - 1) /\ Cardinality(0 .. k - 1) = k
  BY FS_Interval
<1> DEFINE low == [x \in First |-> rank[x]]
<1>9. low \in Bijection(First, 0 .. k - 1)
  <2>1. \A x \in First : x \in S /\ low[x] = rank[x] /\ low[x] \in 0 .. k - 1
    <3> SUFFICES ASSUME NEW x \in First
                 PROVE  x \in S /\ low[x] = rank[x] /\ low[x] \in 0 .. k - 1
      OBVIOUS
    <3>1. x \in S /\ low[x] = rank[x] /\ rank[x] < k
      OBVIOUS
    <3>2. rank[x] \in 0 .. n - 1
      BY <1>2, <3>1
    <3> HIDE DEF low, First, rank, n, Before
    <3> QED  BY <1>1, <3>1, <3>2
  <2>2. \A i \in 0 .. k - 1 : \E x \in First : low[x] = i
    <3> SUFFICES ASSUME NEW i \in 0 .. k - 1  PROVE  \E x \in First : low[x] = i
      OBVIOUS
    <3>1. i \in 0 .. n - 1 /\ i < k
      BY <1>1
    <3>2. PICK x \in S : rank[x] = i
      BY <3>1, <1>7 DEF Surjection
    <3>3. x \in First /\ low[x] = i
      BY <3>1, <3>2
    <3> QED  BY <3>3
  <2>3. low \in [First -> 0 .. k - 1]
    BY <2>1
  <2> HIDE DEF low, First, rank
  <2> QED  BY <1>4, <2>1, <2>2, <2>3 DEF Bijection, Injection, IsInjective, Surjection
<1>10. IsFiniteSet(First)
  BY FS_Subset
<1>11. Cardinality(0 .. k - 1) = Cardinality(First)
  BY <1>9, <1>10, FS_Bijection DEF ExistsBijection
<1>12. First = {x \in S : Cardinality(Before(x)) < k}
  OBVIOUS
<1> QED  BY <1>8, <1>11, <1>12

\* The first k of S by their score and, among equals, by their position.
ByScore(S, k, sc, pos) ==
    {x \in S : Cardinality({y \in S : sc[y] < sc[x] \/ (sc[y] = sc[x] /\ pos[y] < pos[x])}) < k}

LEMMA FirstByScore ==
  ASSUME NEW S, IsFiniteSet(S), NEW k \in Nat, k <= Cardinality(S),
         NEW sc \in [S -> Nat], NEW pos \in [S -> Nat],
         \A x, y \in S : pos[x] = pos[y] => x = y
  PROVE  Cardinality(ByScore(S, k, sc, pos)) = k
<1> DEFINE Less(y, x) == sc[y] < sc[x] \/ (sc[y] = sc[x] /\ pos[y] < pos[x])
           R == {p \in S \X S : Less(p[1], p[2])}
<1>1. \A x, y \in S : <<y, x>> \in R <=> Less(y, x)
  OBVIOUS
<1>2. \A x \in S : sc[x] \in Nat /\ pos[x] \in Nat
  OBVIOUS
<1>3. \A x \in S : ~ Less(x, x)
  BY <1>2
<1>4. \A x, y \in S : x # y => Less(x, y) \/ Less(y, x)
  BY <1>2
<1>5. \A x, y, z \in S : Less(x, y) /\ Less(y, z) => Less(x, z)
  BY <1>2
<1> HIDE DEF Less, R
<1>6. \A x \in S : {y \in S : Less(y, x)} = {y \in S : <<y, x>> \in R}
  BY <1>1
<1>7. Cardinality({x \in S : Cardinality({y \in S : <<y, x>> \in R}) < k}) = k
  BY <1>1, <1>3, <1>4, <1>5, FirstOnes
<1>8. {x \in S : Cardinality({y \in S : Less(y, x)}) < k}
        = {x \in S : Cardinality({y \in S : <<y, x>> \in R}) < k}
  BY <1>6
<1>9. Cardinality({x \in S : Cardinality({y \in S : Less(y, x)}) < k}) = k
  BY <1>7, <1>8
<1> QED  BY <1>9 DEF Less, ByScore

Scored == score \in [(0 .. 2) \X Authorities \X (0 .. Horizon) -> Nat]

LEMMA CommitteeFacts ==
  /\ IsFiniteSet(Authorities) /\ Cardinality(Authorities) = Len(Keys)
  /\ Len(Keys) \in Nat \ {0} /\ DOMAIN Keys = 1 .. Len(Keys)
  /\ \A a \in Authorities : Position(a) \in 1 .. Len(Keys) /\ Keys[Position(a)] = a
  /\ \A r \in Nat : LeaderOf(r) \in Authorities
<1>1. Len(Keys) \in Nat \ {0} /\ DOMAIN Keys = 1 .. Len(Keys)
  BY AdversaryAssumption
<1>2. \A a \in Authorities : Position(a) \in DOMAIN Keys /\ Keys[Position(a)] = a
  BY DEF Position, Authorities
<1>3. \A r \in Nat : (r % Len(Keys)) + 1 \in 1 .. Len(Keys)
  BY <1>1
<1>4. \A r \in Nat : LeaderOf(r) \in Authorities
  BY <1>1, <1>3 DEF LeaderOf, Authorities
<1>5. IsFiniteSet(Authorities)
  <2>1. Keys \in Surjection(DOMAIN Keys, Authorities)
    BY AdversaryAssumption DEF Authorities, Surjection
  <2> QED  BY <2>1, <1>1, FS_Interval, FS_Surjection
<1> QED  BY <1>1, <1>2, <1>4, <1>5, AdversaryAssumption

\* The first k authorities of S in the order of a round are k.
LEMMA FirstAuthorities ==
  ASSUME Scored, NEW r \in 0 .. Horizon, NEW S \in SUBSET Authorities,
         NEW k \in Nat, k <= Cardinality(S)
  PROVE  Cardinality({a \in S : Rank(a, S, r) < k}) = k
<1> DEFINE sc  == [a \in S |-> score[<<0, a, r>>]]
           pos == [a \in S |-> Position(a)]
<1>1. IsFiniteSet(S)
  BY CommitteeFacts, FS_Subset
<1>2. \A a \in S : score[<<0, a, r>>] \in Nat
  <2> TAKE a \in S
  <2>1. <<0, a, r>> \in (0 .. 2) \X Authorities \X (0 .. Horizon)
    BY AdversaryAssumption
  <2> QED  BY <2>1 DEF Scored
<1>3. \A a \in S : Position(a) \in Nat /\ Keys[Position(a)] = a
  BY CommitteeFacts
<1>4. sc \in [S -> Nat] /\ pos \in [S -> Nat]
  BY <1>2, <1>3
<1>5. \A a, b \in S : pos[a] = pos[b] => a = b
  BY <1>3
<1>6. \A a, b \in S : AuthorityBefore(b, a, r) <=> sc[b] < sc[a] \/ (sc[b] = sc[a] /\ pos[b] < pos[a])
  BY DEF AuthorityBefore
<1> HIDE DEF sc, pos
<1>7. \A a \in S : Rank(a, S, r) =
                Cardinality({b \in S : sc[b] < sc[a] \/ (sc[b] = sc[a] /\ pos[b] < pos[a])})
  <2> TAKE a \in S
  <2>1. {b \in S : AuthorityBefore(b, a, r)}
          = {b \in S : sc[b] < sc[a] \/ (sc[b] = sc[a] /\ pos[b] < pos[a])}
    BY <1>6
  <2> QED  BY <2>1 DEF Rank
<1>8. {a \in S : Rank(a, S, r) < k} = ByScore(S, k, sc, pos)
  BY <1>7 DEF ByScore
<1>9. Cardinality(ByScore(S, k, sc, pos)) = k
  BY <1>1, <1>4, <1>5, FirstByScore
<1> QED  BY <1>8, <1>9

FirstOf(S, k, domain) == {q \in S : AmongFirst(q, S, k, domain)}

\* The first k of a set of leader rounds are k.
LEMMA FirstSlots ==
  ASSUME Scored, NEW domain \in 1 .. 2, NEW S, S \subseteq 0 .. Horizon, IsFiniteSet(S),
         NEW k \in Nat, k <= Cardinality(S)
  PROVE  Cardinality(FirstOf(S, k, domain)) = k
<1> DEFINE sc  == [q \in S |-> score[<<domain, LeaderOf(q), q>>]]
           pos == [q \in S |-> q]
<1>1. S \subseteq Nat
  OBVIOUS
<1>2. \A q \in S : score[<<domain, LeaderOf(q), q>>] \in Nat
  <2> TAKE q \in S
  <2>1. LeaderOf(q) \in Authorities
    BY <1>1, CommitteeFacts
  <2>2. <<domain, LeaderOf(q), q>> \in (0 .. 2) \X Authorities \X (0 .. Horizon)
    BY <2>1
  <2> QED  BY <2>2 DEF Scored
<1>3. IsFiniteSet(S) /\ k \in Nat /\ k <= Cardinality(S)
  OBVIOUS
<1>4. sc \in [S -> Nat] /\ pos \in [S -> Nat]
  BY <1>1, <1>2
<1>5. \A p, q \in S : pos[p] = pos[q] => p = q
  OBVIOUS
<1>6. \A p, q \in S : SlotBefore(p, q, domain) <=> sc[p] < sc[q] \/ (sc[p] = sc[q] /\ pos[p] < pos[q])
  BY DEF SlotBefore
<1> HIDE DEF sc, pos
<1>7. \A q \in S : {p \in S : SlotBefore(p, q, domain)}
                = {p \in S : sc[p] < sc[q] \/ (sc[p] = sc[q] /\ pos[p] < pos[q])}
  BY <1>6
<1>8. FirstOf(S, k, domain) = ByScore(S, k, sc, pos)
  BY <1>7 DEF AmongFirst, ByScore, FirstOf
<1>9. Cardinality(ByScore(S, k, sc, pos)) = k
  BY ONLY <1>3, <1>4, <1>5, FirstByScore
<1> QED  BY <1>8, <1>9

-----------------------------------------------------------------------------

\* Division, in the form the windows need.
LEMMA DivOfSum ==
  ASSUME NEW size \in Nat \ {0}, NEW w \in Nat, NEW o \in 0 .. size - 1
  PROVE  (w * size + o) \div size = w
  OBVIOUS

LEMMA DivFacts ==
  ASSUME NEW size \in Nat \ {0}, NEW m \in Nat
  PROVE  /\ m \div size \in Nat /\ m % size \in 0 .. size - 1
         /\ m = (m \div size) * size + (m % size)
  OBVIOUS

\* A window has 3f+1 leader rounds within the horizon and is the window of each of
\* them.
LEMMA WindowFacts ==
  ASSUME NEW r \in LeaderRounds
  PROVE  /\ r \in Window(r, Faults) /\ Window(r, Faults) \subseteq LeaderRounds
         /\ IsFiniteSet(Window(r, Faults)) /\ Cardinality(Window(r, Faults)) = 3 * Faults + 1
         /\ \A q \in Window(r, Faults) : Window(q, Faults) = Window(r, Faults)
<1> DEFINE size == 3 * Faults + 1
           w    == ((r \div 2) - 1) \div size
           Of(v) == {2 * (v * size + 1 + offset) : offset \in 0 .. size - 1}
<1>1. size \in Nat \ {0} /\ Faults \in Nat /\ Horizon \in Nat
  BY AdversaryAssumption
<1>2. r \in 2 .. Horizon /\ r = 2 * (r \div 2) /\ (r \div 2) - 1 \in Nat
  BY <1>1 DEF LeaderRounds
<1>3. w \in Nat /\ \E o \in 0 .. size - 1 : (r \div 2) - 1 = w * size + o
  <2>1. PICK m \in Nat : m = (r \div 2) - 1
    BY <1>2
  <2>2. m \div size \in Nat /\ m % size \in 0 .. size - 1 /\ m = (m \div size) * size + (m % size)
    <3> HIDE DEF size
    <3> QED  BY <1>1, DivFacts
  <2> QED  BY <2>1, <2>2
<1>4. ASSUME NEW q \in Nat, NEW v \in Nat, NEW o \in 0 .. size - 1, q = 2 * (v * size + 1 + o)
      PROVE  Window(q, Faults) = Of(v)
  <2>1. v * size \in Nat
    BY <1>1
  <2>2. q >= 2 /\ (q \div 2) - 1 = v * size + o
    <3> HIDE DEF size
    <3> QED  BY <1>1, <1>4, <2>1
  <2>3. (v * size + o) \div size = v
    <3> HIDE DEF size
    <3> QED  BY <1>1, DivOfSum
  <2>4. Window(q, Faults) = {2 * (((((q \div 2) - 1) \div size) * size + 1) + offset) : offset \in 0 .. size - 1}
    BY <2>2 DEF Window
  <2>5. Window(q, Faults) = {2 * ((v * size + 1) + offset) : offset \in 0 .. size - 1}
    BY <2>2, <2>3, <2>4
  <2> QED  BY <2>5
<1>5. PICK o \in 0 .. size - 1 : (r \div 2) - 1 = w * size + o
  BY <1>3
<1>6. w * size \in Nat
  BY <1>1, <1>3
<1>7. r \in Nat /\ r = 2 * (w * size + 1 + o)
  <2> HIDE DEF size, w
  <2> QED  BY <1>1, <1>2, <1>5, <1>6
<1>8. Window(r, Faults) = Of(w)
  <2> HIDE DEF w, Of
  <2> QED  BY <1>3, <1>4, <1>7
<1>9. ASSUME NEW q \in Of(w)  PROVE  q \in LeaderRounds /\ Window(q, Faults) = Of(w)
  <2>1. PICK i \in 0 .. size - 1 : q = 2 * (w * size + 1 + i)
    OBVIOUS
  <2>2. q \in Nat /\ q >= 2 /\ q % 2 = 0 /\ q <= 2 * (w * size + size)
    <3> HIDE DEF size, w
    <3> QED  BY <1>1, <1>6, <2>1
  <2>3. Window(q, Faults) = Of(w)
    <3> HIDE DEF w, Of
    <3> QED  BY <1>3, <1>4, <2>1, <2>2
  <2>4. PICK h \in Nat : Horizon = (2 * size) * h
    <3>1. Horizon % (2 * size) = 0
      BY ScheduleAssumption
    <3>2. 2 * size \in Nat \ {0}
      BY <1>1
    <3>3. Horizon \div (2 * size) \in Nat /\ Horizon = (Horizon \div (2 * size)) * (2 * size) + (Horizon % (2 * size))
      <4> HIDE DEF size
      <4> QED  BY <1>1, <3>2, DivFacts
    <3> HIDE DEF size
    <3> QED  BY <1>1, <3>1, <3>3
  <2>5. w < h
    <3> SUFFICES ASSUME h <= w PROVE FALSE
      BY <1>3
    <3> HIDE DEF size, w
    <3>1. size * h <= size * w
      BY <1>1, <1>3
    <3>2. (2 * size) * h = 2 * (size * h) /\ size * w = w * size /\ size * h \in Nat
      BY <1>1, <1>3
    <3> QED  BY <1>1, <1>2, <1>6, <1>7, <2>4, <3>1, <3>2
  <2>6. 2 * (w * size + size) <= Horizon
    <3> HIDE DEF size, w
    <3>1. (w + 1) * size <= h * size
      BY <1>1, <1>3, <2>5
    <3>2. (w + 1) * size = w * size + size /\ (2 * size) * h = 2 * (h * size) /\ h * size \in Nat
      BY <1>1, <1>3
    <3> QED  BY <1>1, <1>6, <2>4, <3>1, <3>2
  <2>7. q \in LeaderRounds
    <3> HIDE DEF size, w
    <3> QED  BY <1>1, <1>6, <2>2, <2>6 DEF LeaderRounds
  <2> QED  BY <2>3, <2>7
<1>10. r \in Of(w)
  <2> HIDE DEF w
  <2> QED  BY <1>7
<1>11. IsFiniteSet(Of(w)) /\ Cardinality(Of(w)) = size
  <2> DEFINE f == [offset \in 0 .. size - 1 |-> 2 * (w * size + 1 + offset)]
  <2>1. IsFiniteSet(0 .. size - 1) /\ Cardinality(0 .. size - 1) = size
    <3> HIDE DEF size
    <3> QED  BY <1>1, FS_Interval
  <2>2. f \in Bijection(0 .. size - 1, Of(w))
    <3>1. f \in [0 .. size - 1 -> Of(w)]
      OBVIOUS
    <3>2. \A i, j \in 0 .. size - 1 : f[i] = f[j] => i = j
      <4>1. \A i \in 0 .. size - 1 : f[i] = 2 * (w * size + 1 + i)
        OBVIOUS
      <4> HIDE DEF size, w, f
      <4> QED  BY <1>1, <1>6, <4>1
    <3>3. \A q \in Of(w) : \E i \in 0 .. size - 1 : f[i] = q
      OBVIOUS
    <3> HIDE DEF f, Of
    <3> QED  BY <3>1, <3>2, <3>3 DEF Bijection, Injection, IsInjective, Surjection
  <2> HIDE DEF f, Of, size, w
  <2> QED  BY <2>1, <2>2, FS_Bijection DEF ExistsBijection
<1> HIDE DEF Of, w
<1> QED  BY <1>8, <1>9, <1>10, <1>11

-----------------------------------------------------------------------------

\* A leader is silent in the rounds the window chose, if there is an adversary.
LEMMA LeaderSelected ==
  ASSUME NEW r \in LeaderRounds
  PROVE  /\ selected(LeaderOf(r), r) <=> Faults > 0 /\ LeaderIsSilent(r)
         /\ LeaderIsSilent(r) <=> AmongFirst(r, Window(r, Faults), Faults, 2)
<1>1. ClampedFaults = Faults
  BY ScheduleAssumption DEF ClampedFaults
<1>2. r % 2 = 0
  BY DEF LeaderRounds
<1> QED  BY <1>1, <1>2 DEF selected, LeaderIsSilent

\* In a leader round the leader is one of the silent ones or all of them are others.
LEMMA SilentInRound ==
  ASSUME Scored, NEW r \in 1 .. Horizon
  PROVE  Cardinality({a \in Authorities : selected(a, r)}) = Faults
<1> DEFINE Silent == {a \in Authorities : selected(a, r)}
           others == Authorities \ {LeaderOf(r)}
           k      == Faults - (IF LeaderIsSilent(r) THEN 1 ELSE 0)
           Rest   == {a \in others : Rank(a, others, r) < k}
<1>1. Faults \in Nat /\ Horizon \in Nat /\ Faults < Len(Keys) /\ r \in Nat /\ r \in 0 .. Horizon
  BY AdversaryAssumption, ScheduleAssumption
<1>2. ClampedFaults = Faults
  BY <1>1 DEF ClampedFaults
<1>3. CASE Faults = 0
  <2>1. Silent = {}
    BY <1>3 DEF selected
  <2> QED  BY <1>3, <2>1, FS_EmptySet
<1>4. CASE Faults > 0 /\ r % 2 # 0
  <2>1. Silent = {a \in Authorities : Rank(a, Authorities, r) < Faults}
    BY <1>2, <1>4 DEF selected
  <2>2. Faults <= Cardinality(Authorities)
    BY <1>1, CommitteeFacts
  <2>3. Cardinality({a \in Authorities : Rank(a, Authorities, r) < Faults}) = Faults
    BY <1>1, <2>2, FirstAuthorities
  <2> QED  BY <2>1, <2>3
<1>5. CASE Faults > 0 /\ r % 2 = 0
  <2>1. LeaderOf(r) \in Authorities
    BY <1>1, CommitteeFacts
  <2>2. k \in Nat /\ Faults = k + (IF LeaderIsSilent(r) THEN 1 ELSE 0)
    BY <1>1, <1>5
  <2>3. others \in SUBSET Authorities /\ IsFiniteSet(others) /\ Cardinality(others) = Len(Keys) - 1
    BY <2>1, CommitteeFacts, FS_RemoveElement
  <2>4. k <= Cardinality(others)
    <3>1. Faults <= Len(Keys) - 1 /\ Len(Keys) \in Nat
      BY <1>1, CommitteeFacts
    <3> HIDE DEF k, others
    <3> QED  BY <1>1, <2>2, <2>3, <3>1
  <2>5. Cardinality(Rest) = k /\ IsFiniteSet(Rest)
    <3>1. IsFiniteSet(Rest)
      BY <2>3, FS_Subset
    <3> HIDE DEF k, others
    <3>2. Cardinality({a \in others : Rank(a, others, r) < k}) = k
      BY <1>1, <2>2, <2>3, <2>4, FirstAuthorities
    <3> QED  BY <3>1, <3>2
  <2>6. LeaderOf(r) \notin Rest
    OBVIOUS
  <2>7. Silent = Rest \cup (IF LeaderIsSilent(r) THEN {LeaderOf(r)} ELSE {})
    <3>1. \A a \in others : selected(a, r) <=> Rank(a, others, r) < k
      BY <1>2, <1>5 DEF selected
    <3>2. selected(LeaderOf(r), r) <=> LeaderIsSilent(r)
      BY <1>5 DEF selected
    <3> HIDE DEF k
    <3> QED  BY <2>1, <3>1, <3>2
  <2> HIDE DEF k, Rest, Silent
  <2>8. CASE LeaderIsSilent(r)
    <3>1. Silent = Rest \cup {LeaderOf(r)} /\ Faults = k + 1
      BY <2>2, <2>7, <2>8
    <3> QED  BY <2>5, <2>6, <3>1, FS_AddElement DEF Silent
  <2>9. CASE ~ LeaderIsSilent(r)
    <3>1. Silent = Rest /\ Faults = k
      BY <2>2, <2>7, <2>9
    <3> QED  BY <2>5, <3>1 DEF Silent
  <2> QED  BY <2>8, <2>9
<1>6. Faults = 0 \/ (Faults > 0 /\ r % 2 # 0) \/ (Faults > 0 /\ r % 2 = 0)
  BY <1>1
<1> QED  BY <1>3, <1>4, <1>5, <1>6

Mute(r) == {q \in Window(r, Faults) : selected(LeaderOf(q), q)}

Direct(r) == {q \in Window(r, Faults) : direct_commit_selected(q)}

\* The choices of a window are made by everyone in the same window.
LEMMA LeadersInWindow ==
  ASSUME Scored, Faults > 0, NEW r \in LeaderRounds
  PROVE  /\ Cardinality(Mute(r)) = Faults
         /\ Cardinality(Direct(r)) = Faults + 2
         /\ Direct(r) \cap Mute(r) = {}
<1> DEFINE W    == Window(r, Faults)
           rest == W \ Mute(r)
<1>1. /\ W \subseteq LeaderRounds /\ IsFiniteSet(W) /\ Cardinality(W) = 3 * Faults + 1
      /\ \A q \in W : Window(q, Faults) = W
  BY WindowFacts
<1>2. Faults \in Nat /\ Horizon \in Nat /\ LeaderRounds \subseteq 0 .. Horizon
  BY AdversaryAssumption DEF LeaderRounds
<1>3. W \subseteq 0 .. Horizon
  BY <1>1, <1>2
<1>4. Mute(r) = FirstOf(W, Faults, 2)
  <2>1. \A q \in W : selected(LeaderOf(q), q) <=> AmongFirst(q, W, Faults, 2)
    <3> HIDE DEF W
    <3> QED  BY <1>1, LeaderSelected
  <2> QED  BY <2>1 DEF Mute, FirstOf
<1>5. Cardinality(Mute(r)) = Faults
  <2>1. Faults <= Cardinality(W)
    BY <1>1, <1>2
  <2> HIDE DEF W
  <2>2. /\ Scored /\ 2 \in 1 .. 2 /\ W \subseteq 0 .. Horizon /\ IsFiniteSet(W)
        /\ Faults \in Nat /\ Faults <= Cardinality(W)
    BY <1>1, <1>2, <1>3, <2>1
  <2>3. Cardinality(FirstOf(W, Faults, 2)) = Faults
    BY ONLY <2>2, FirstSlots
  <2> QED  BY <1>4, <2>3
<1>6. Mute(r) \subseteq W
  BY DEF Mute
<1>7. IsFiniteSet(rest) /\ Cardinality(rest) = 2 * Faults + 1 /\ rest \subseteq W
  <2>1. W \cap Mute(r) = Mute(r)
    BY <1>6
  <2> HIDE DEF W
  <2>2. IsFiniteSet(rest) /\ Cardinality(rest) = Cardinality(W) - Cardinality(W \cap Mute(r))
    BY <1>1, FS_Difference
  <2> QED  BY <1>1, <1>2, <1>5, <2>1, <2>2
<1>8. \A q \in W : Available(q) = rest
  BY <1>1 DEF Available, Mute
<1>9. Direct(r) = FirstOf(rest, Faults + 2, 1)
  <2>1. \A q \in W : direct_commit_selected(q) <=> AmongFirst(q, rest, Faults + 2, 1)
    <3> HIDE DEF W, rest
    <3> QED  BY <1>2, <1>8 DEF direct_commit_selected
  <2>2. \A q : AmongFirst(q, rest, Faults + 2, 1) => q \in rest
    BY DEF AmongFirst
  <2> HIDE DEF rest
  <2> QED  BY <1>7, <2>1, <2>2 DEF Direct, FirstOf
<1>10. Cardinality(Direct(r)) = Faults + 2
  <2> HIDE DEF W, rest
  <2>1. Faults + 2 \in Nat /\ Faults + 2 <= Cardinality(rest) /\ rest \subseteq 0 .. Horizon
    BY <1>2, <1>3, <1>7
  <2>2. PICK R : R = rest
    OBVIOUS
  <2>3. /\ Scored /\ 1 \in 1 .. 2 /\ R \subseteq 0 .. Horizon /\ IsFiniteSet(R)
        /\ Faults + 2 \in Nat /\ Faults + 2 <= Cardinality(R)
    BY <1>7, <2>1, <2>2
  <2>4. Cardinality(FirstOf(R, Faults + 2, 1)) = Faults + 2
    BY ONLY <2>3, FirstSlots
  <2> QED  BY <1>9, <2>2, <2>4
<1>11. Direct(r) \cap Mute(r) = {}
  BY <1>9 DEF FirstOf
<1> QED  BY <1>5, <1>10, <1>11

LEMMA InitScored == Init => Scored
  BY ScheduleAssumption DEF Init, Scored

LEMMA ScoresStay == [Next]_vars => [FALSE]_score
  BY DEF Next, vars, Start, Propose, StaySilent, NothingToPropose, ReceiveParents, ReceiveDigest,
         ReceiveTimer, Elapse

(* Each node asks selected (adversary.rs) about itself alone, and yet in every
   round exactly f of them are silent, for any scores. *)
THEOREM FaultsAreExact == Spec => ExactlyFaultsSilent
<1> DEFINE Count == \A r \in 1 .. Horizon : Cardinality({a \in Authorities : selected(a, r)}) = Faults
<1>1. Init => Count
  BY InitScored, SilentInRound
<1> HIDE DEF Count
<1>2. Spec => Count /\ Fixed
  BY <1>1, ScoresStay, PTL DEF Spec, Fixed
<1> QED  BY <1>2 DEF Count, ExactlyFaultsSilent

(* Nodes that rank the leader rounds of a window alone choose the same f of them to
   be silent and the same f+2 of the others to be committed directly; without
   faults every leader may be (direct_commit_selected). *)
THEOREM WindowsAreExact == Faults > 0 => (Spec => LeadersPerWindow)
<1> DEFINE Count == \A r \in LeaderRounds :
                      LET mute   == {q \in Window(r, Faults) : selected(LeaderOf(q), q)}
                          direct == {q \in Window(r, Faults) : direct_commit_selected(q)}
                      IN  /\ Cardinality(mute) = Faults
                          /\ Cardinality(direct) = Faults + 2
                          /\ direct \cap mute = {}
<1>1. Faults > 0 /\ Init => Count
  BY InitScored, LeadersInWindow DEF Mute, Direct
<1> HIDE DEF Count
<1>2. Faults > 0 => (Spec => Count /\ Fixed)
  BY <1>1, ScoresStay, PTL DEF Spec, Fixed
<1> QED  BY <1>2 DEF Count, LeadersPerWindow

=============================================================================
