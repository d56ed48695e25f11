-------------------------- MODULE ConsensusProofs --------------------------
(***************************************************************************)
(* The leaders that Consensus commits, for every committee, every DAG the  *)
(* primaries can certify and every order in which a replica receives it.   *)
(***************************************************************************)
EXTENDS Consensus, CommonProofs


-----------------------------------------------------------------------------
(* What the operators on sequences compute.                                *)

\* What is selected of the first elements of a sequence.
IsSelection(kept, seq, S) ==
    /\ kept[0] = <<>>
    /\ \A i \in 1 .. Len(seq) :
         kept[i] = IF seq[i] \in S THEN Append(kept[i - 1], seq[i]) ELSE kept[i - 1]

LEMMA SelectedSteps ==
  ASSUME NEW T, NEW seq \in Seq(T), NEW S
  PROVE  \E kept : IsSelection(kept, seq, S) /\ Selected(seq, S) = kept[Len(seq)]
  <1> DEFINE n == Len(seq)
             Step(v, i) == IF seq[i] \in S THEN Append(v, seq[i]) ELSE v
             G == [iv \in (1 .. n) \X Seq(T) |-> Step(iv[2], iv[1])]
             Rec(f) == f = [i \in 0 .. n |-> IF i = 0 THEN <<>> ELSE Step(f[i - 1], i)]
             kept == CHOOSE f : Rec(f)
  <1>1. n \in Nat /\ \A i \in 1 .. n : seq[i] \in T
    OBVIOUS
  <1>2. Selected(seq, S) = kept[n]
    BY DEF Selected
  <1>3. <<>> \in Seq(T) /\ \A i \in 1 .. n : \A v \in Seq(T) : Step(v, i) \in Seq(T)
    BY <1>1, EmptySeq
  <1> HIDE DEF Step
  <1>4. IsStep(G, 1 .. n, Seq(T)) /\ \A i \in 1 .. n : \A v \in Seq(T) : G[<<i, v>>] = Step(v, i)
    BY <1>3 DEF IsStep
  <1> HIDE DEF G
  <1>5. PICK f : IsUpward(f, n, Seq(T), <<>>, G)
    BY <1>1, <1>3, <1>4, UpwardRecursion
  <1>6. /\ f = [i \in 0 .. n |-> f[i]] /\ f[0] = <<>>
        /\ \A i \in 1 .. n : f[i] = Step(f[i - 1], i)
    <2>1. /\ f = [i \in 0 .. n |-> f[i]] /\ f[0] = <<>>
          /\ \A i \in 1 .. n : f[i - 1] \in Seq(T) /\ f[i] = G[<<i, f[i - 1]>>]
      BY <1>1, <1>5, UpwardValues
    <2> QED
      BY <1>4, <2>1
  <1>7. Rec(f)
    <2>1. \A i \in 0 .. n : i = 0 \/ i \in 1 .. n
      BY <1>1
    <2> QED
      BY <1>6, <2>1
  <1>8. Rec(kept)
    BY <1>7
  <1> HIDE DEF kept
  <1>9. \A i \in 0 .. n : kept[i] = IF i = 0 THEN <<>> ELSE Step(kept[i - 1], i)
    BY <1>8
  <1>10. 0 \in 0 .. n /\ \A i \in 1 .. n : i \in 0 .. n /\ i # 0
    BY <1>1
  <1>11. IsSelection(kept, seq, S)
    BY <1>9, <1>10 DEF IsSelection, Step
  <1> QED
    BY <1>2, <1>11

\* Selected keeps the elements that are in the set.
LEMMA SelectedFacts ==
  ASSUME NEW T, NEW seq \in Seq(T), NEW S
  PROVE  /\ Selected(seq, S) \in Seq(T) /\ ToSet(Selected(seq, S)) = ToSet(seq) \cap S
         /\ Distinct(seq) => Distinct(Selected(seq, S))
  <1> DEFINE n == Len(seq)
  <1>1. n \in Nat /\ \A i \in 1 .. n : seq[i] \in T
    OBVIOUS
  <1>2. PICK kept : IsSelection(kept, seq, S) /\ Selected(seq, S) = kept[n]
    BY SelectedSteps
  <1>3. <<>> \in Seq(T) /\ kept[0] = <<>>
    BY <1>2, EmptySeq DEF IsSelection
  <1> DEFINE Once(v) == Distinct(seq) => Distinct(v)
             Good == {i \in Nat : i <= n => /\ kept[i] \in Seq(T) /\ Once(kept[i])
                                            /\ ToSet(kept[i]) = {seq[j] : j \in 1 .. i} \cap S}
  <1>4. 0 \in Good
    <2>1. kept[0] = <<>> /\ {seq[j] : j \in 1 .. 0} = {}
      BY <1>3
    <2> QED
      BY <1>3, <2>1, ToSetEmpty, DistinctEmpty
  <1> HIDE DEF Once
  <1>5. ASSUME NEW i \in Nat, i \in Good PROVE i + 1 \in Good
    <2> SUFFICES ASSUME i + 1 <= n
                 PROVE  /\ kept[i + 1] \in Seq(T) /\ Once(kept[i + 1])
                        /\ ToSet(kept[i + 1]) = {seq[j] : j \in 1 .. i + 1} \cap S
      OBVIOUS
    <2>1. kept[i] \in Seq(T) /\ Once(kept[i]) /\ ToSet(kept[i]) = {seq[j] : j \in 1 .. i} \cap S
      BY <1>1, <1>5
    <2>2. i + 1 \in 1 .. n /\ (i + 1) - 1 = i /\ 1 .. i + 1 = (1 .. i) \cup {i + 1} /\ seq[i + 1] \in T
      BY <1>1
    <2>3. kept[i + 1] = IF seq[i + 1] \in S THEN Append(kept[i], seq[i + 1]) ELSE kept[i]
      BY <1>2, <2>2 DEF IsSelection
    <2>4. ToSet(Append(kept[i], seq[i + 1])) = ToSet(kept[i]) \cup {seq[i + 1]}
      BY <2>1, <2>2, ToSetAppend
    <2>5. {seq[j] : j \in 1 .. i + 1} = {seq[j] : j \in 1 .. i} \cup {seq[i + 1]}
      BY <2>2
    <2>6. Once(Append(kept[i], seq[i + 1]))
      <3> SUFFICES ASSUME Distinct(seq) PROVE Distinct(Append(kept[i], seq[i + 1]))
        BY DEF Once
      <3>1. seq[i + 1] \notin {seq[j] : j \in 1 .. i}
        <4>1. \A j \in 1 .. i : j \in DOMAIN seq /\ i + 1 \in DOMAIN seq /\ j # i + 1
          BY <1>1
        <4> QED
          BY <4>1 DEF Distinct
      <3>2. seq[i + 1] \notin ToSet(kept[i])
        BY <2>1, <3>1
      <3> QED
        BY <2>1, <2>2, <3>2, DistinctAppend DEF Once
    <2> QED
      BY <2>1, <2>2, <2>3, <2>4, <2>5, <2>6
  <1> HIDE DEF Good
  <1>6. n \in Good
    BY <1>1, <1>4, <1>5, SetInduction
  <1>7. n <= n /\ ToSet(seq) = {seq[j] : j \in 1 .. n}
    BY <1>1, ToSetLen
  <1> QED
    BY <1>2, <1>6, <1>7 DEF Good, Once

\* Selected is a filter: it distributes over sequences and composes.
LEMMA EmptySelection ==
  ASSUME NEW S
  PROVE  Selected(<<>>, S) = <<>>
  <1>1. <<>> \in Seq({}) /\ Len(<<>>) = 0
    BY EmptySeq
  <1>2. PICK kept : IsSelection(kept, <<>>, S) /\ Selected(<<>>, S) = kept[Len(<<>>)]
    BY <1>1, SelectedSteps
  <1> QED
    BY <1>1, <1>2 DEF IsSelection

LEMMA SelectedAppend ==
  ASSUME NEW T, NEW seq \in Seq(T), NEW m \in T, NEW S
  PROVE  Selected(Append(seq, m), S) =
           IF m \in S THEN Append(Selected(seq, S), m) ELSE Selected(seq, S)
  <1> DEFINE n == Len(seq)
             more == Append(seq, m)
  <1>1. /\ n \in Nat /\ more \in Seq(T) /\ Len(more) = n + 1 /\ more[n + 1] = m
        /\ \A i \in 1 .. n : more[i] = seq[i]
    OBVIOUS
  <1> HIDE DEF more
  <1>2. PICK g : IsSelection(g, seq, S) /\ Selected(seq, S) = g[n]
    BY SelectedSteps
  <1>3. PICK h : IsSelection(h, more, S) /\ Selected(more, S) = h[n + 1]
    BY <1>1, SelectedSteps
  <1> HIDE DEF n
  <1> DEFINE Good == {i \in Nat : i <= n => g[i] = h[i]}
  <1>4. 0 \in Good
    BY <1>2, <1>3 DEF IsSelection
  <1>5. ASSUME NEW i \in Nat, i \in Good PROVE i + 1 \in Good
    <2> SUFFICES ASSUME i + 1 <= n PROVE g[i + 1] = h[i + 1]
      OBVIOUS
    <2>1. i + 1 \in 1 .. n /\ i + 1 \in 1 .. n + 1 /\ (i + 1) - 1 = i /\ g[i] = h[i]
      BY <1>1, <1>5
    <2>2. g[i + 1] = IF seq[i + 1] \in S THEN Append(g[i], seq[i + 1]) ELSE g[i]
      BY <1>2, <2>1 DEF IsSelection, n
    <2>3. h[i + 1] = IF more[i + 1] \in S THEN Append(h[i], more[i + 1]) ELSE h[i]
      BY <1>1, <1>3, <2>1 DEF IsSelection
    <2> QED
      BY <1>1, <2>1, <2>2, <2>3
  <1> HIDE DEF Good
  <1>6. n \in Good
    BY <1>1, <1>4, <1>5, SetInduction
  <1>7. g[n] = h[n]
    BY <1>1, <1>6 DEF Good
  <1>8. n + 1 \in 1 .. n + 1 /\ (n + 1) - 1 = n
    BY <1>1
  <1>9. h[n + 1] = IF m \in S THEN Append(h[n], m) ELSE h[n]
    BY <1>1, <1>3, <1>8 DEF IsSelection
  <1> QED
    BY <1>2, <1>3, <1>7, <1>9 DEF more

LEMMA SelectedConcat ==
  ASSUME NEW T, NEW seq \in Seq(T), NEW S
  PROVE  \A t \in Seq(T) : Selected(seq \o t, S) = Selected(seq, S) \o Selected(t, S)
  <1> DEFINE Good == {k \in Nat : \A t \in Seq(T) :
                       Len(t) = k => Selected(Then(seq, t), S) = Then(Selected(seq, S), Selected(t, S))}
  <1>1. /\ \A s, t \in Seq(T) : Then(s, t) \in Seq(T)
        /\ \A s \in Seq(T) : Then(s, <<>>) = s
        /\ \A s, t, u \in Seq(T) : Then(Then(s, t), u) = Then(s, Then(t, u))
        /\ \A s \in Seq(T), m \in T : Then(s, <<m>>) = Append(s, m) /\ <<m>> \in Seq(T)
    BY ThenFacts
  <1>2. \A s \in Seq(T) : Selected(s, S) \in Seq(T)
    BY SelectedFacts
  <1>3. 0 \in Good
    <2> SUFFICES ASSUME NEW t \in Seq(T), Len(t) = 0
                 PROVE  Selected(Then(seq, t), S) = Then(Selected(seq, S), Selected(t, S))
      OBVIOUS
    <2>1. t = <<>>
      BY EmptySeq
    <2>2. Selected(<<>>, S) = <<>>
      BY EmptySelection
    <2> QED
      BY <1>1, <1>2, <2>1, <2>2
  <1>4. ASSUME NEW k \in Nat, k \in Good PROVE k + 1 \in Good
    <2> SUFFICES ASSUME NEW t \in Seq(T), Len(t) = k + 1
                 PROVE  Selected(Then(seq, t), S) = Then(Selected(seq, S), Selected(t, S))
      OBVIOUS
    <2>1. PICK r \in Seq(T), m \in T : t = Append(r, m) /\ Len(r) = k
      BY LastOfLonger
    <2>2. Selected(Then(seq, r), S) = Then(Selected(seq, S), Selected(r, S))
      BY <1>4, <2>1
    <2>3. Then(seq, t) = Append(Then(seq, r), m) /\ Then(seq, r) \in Seq(T)
      BY <1>1, <2>1, ThenAppend
    <2>4. /\ Selected(t, S) = IF m \in S THEN Append(Selected(r, S), m) ELSE Selected(r, S)
          /\ Selected(Then(seq, t), S) =
               IF m \in S THEN Append(Selected(Then(seq, r), S), m) ELSE Selected(Then(seq, r), S)
      BY <2>1, <2>3, SelectedAppend
    <2>5. Then(Selected(seq, S), Append(Selected(r, S), m)) = Append(Then(Selected(seq, S), Selected(r, S)), m)
      <3>1. Selected(seq, S) \in Seq(T) /\ Selected(r, S) \in Seq(T)
        BY <1>2
      <3> DEFINE x == Selected(seq, S)
                 y == Selected(r, S)
      <3> HIDE DEF x, y
      <3>2. x \in Seq(T) /\ y \in Seq(T)
        BY <3>1 DEF x, y
      <3>3. Then(x, Append(y, m)) = Append(Then(x, y), m)
        BY <3>2, ThenAppend
      <3> QED
        BY <3>3 DEF x, y
    <2> QED
      BY <2>2, <2>4, <2>5
  <1> HIDE DEF Good
  <1>5. \A k \in Nat : k \in Good
    BY <1>3, <1>4, SetInduction
  <1>6. \A t \in Seq(T) : Len(t) \in Nat
    OBVIOUS
  <1> QED
    BY <1>5, <1>6 DEF Good, Then

LEMMA SelectedTwice ==
  ASSUME NEW T, NEW S, NEW U
  PROVE  \A seq \in Seq(T) : Selected(Selected(seq, S), U) = Selected(seq, S \cap U)
  <1> DEFINE P(seq) == Selected(Selected(seq, S), U) = Selected(seq, S \cap U)
             Good == {k \in Nat : \A seq \in Seq(T) : Len(seq) = k => P(seq)}
  <1>1. ASSUME NEW seq \in Seq(T), Len(seq) = 0 PROVE P(seq)
    <2>1. seq = <<>>
      BY <1>1, EmptySeq
    <2>2. \A R : Selected(<<>>, R) = <<>>
      BY EmptySelection
    <2> QED
      BY <2>1, <2>2
  <1>2. ASSUME NEW r \in Seq(T), NEW m \in T, P(r) PROVE P(Append(r, m))
    <2>1. Selected(r, S) \in Seq(T)
      BY SelectedFacts
    <2>2. Selected(Append(r, m), S) = IF m \in S THEN Append(Selected(r, S), m) ELSE Selected(r, S)
      BY SelectedAppend
    <2>3. Selected(Append(r, m), S \cap U) =
            IF m \in S \cap U THEN Append(Selected(r, S \cap U), m) ELSE Selected(r, S \cap U)
      BY SelectedAppend
    <2>4. Selected(Append(Selected(r, S), m), U) =
            IF m \in U THEN Append(Selected(Selected(r, S), U), m) ELSE Selected(Selected(r, S), U)
      BY <2>1, SelectedAppend
    <2>5. CASE m \in S /\ m \in U
      BY <1>2, <2>2, <2>3, <2>4, <2>5, Zenon
    <2>6. CASE m \in S /\ m \notin U
      BY <1>2, <2>2, <2>3, <2>4, <2>6, Zenon
    <2>7. CASE m \notin S
      BY <1>2, <2>2, <2>3, <2>7, Zenon
    <2> QED
      BY <2>5, <2>6, <2>7
  <1> HIDE DEF P
  <1>3. 0 \in Good
    BY <1>1
  <1>4. ASSUME NEW k \in Nat, k \in Good PROVE k + 1 \in Good
    <2> SUFFICES ASSUME NEW seq \in Seq(T), Len(seq) = k + 1 PROVE P(seq)
      OBVIOUS
    <2>1. PICK r \in Seq(T), m \in T : seq = Append(r, m) /\ Len(r) = k
      BY LastOfLonger
    <2> QED
      BY <1>2, <1>4, <2>1
  <1> HIDE DEF Good
  <1>5. \A k \in Nat : k \in Good
    BY <1>3, <1>4, SetInduction
  <1>6. \A seq \in Seq(T) : Len(seq) \in Nat
    OBVIOUS
  <1> QED
    BY <1>5, <1>6 DEF Good, P

\* The rounds of a sequence never decrease.
InRoundOrder(q) == \A i, j \in 1 .. Len(q) : i <= j => Round(q[i]) <= Round(q[j])

LEMMA RoundOrderConcat ==
  ASSUME NEW q \in Seq(Certificates), NEW t \in Seq(Certificates), InRoundOrder(q), InRoundOrder(t),
         \A x \in ToSet(q) : \A y \in ToSet(t) : Round(x) <= Round(y)
  PROVE  InRoundOrder(q \o t)
  <1> DEFINE o == q \o t
             m == Len(q)
  <1>1. /\ m \in Nat /\ Len(t) \in Nat /\ Len(o) = m + Len(t)
        /\ \A i \in 1 .. Len(o) : o[i] = IF i <= m THEN q[i] ELSE t[i - m]
    BY ConcatProperties
  <1>2. /\ \A i \in 1 .. m : q[i] \in ToSet(q)
        /\ \A i \in 1 .. Len(t) : t[i] \in ToSet(t)
    BY ToSetLen
  <1> HIDE DEF o, m
  <1>3. ASSUME NEW i \in 1 .. Len(o), NEW j \in 1 .. Len(o), i <= j PROVE Round(o[i]) <= Round(o[j])
    <2>1. CASE j <= m
      <3>1. i \in 1 .. m /\ j \in 1 .. m /\ o[i] = q[i] /\ o[j] = q[j]
        BY <1>1, <1>3, <2>1
      <3> QED
        BY <1>3, <3>1 DEF InRoundOrder, m
    <2>2. CASE i > m
      <3>1. /\ i - m \in 1 .. Len(t) /\ j - m \in 1 .. Len(t) /\ i - m <= j - m
            /\ o[i] = t[i - m] /\ o[j] = t[j - m]
        BY <1>1, <1>3, <2>2
      <3> QED
        BY <3>1 DEF InRoundOrder
    <2>3. CASE i <= m /\ j > m
      <3>1. i \in 1 .. m /\ j - m \in 1 .. Len(t) /\ o[i] = q[i] /\ o[j] = t[j - m]
        BY <1>1, <1>3, <2>3
      <3> QED
        BY <1>2, <3>1
    <2> QED
      BY <1>1, <2>1, <2>2, <2>3
  <1> QED
    BY <1>3 DEF InRoundOrder, o

\* The recent certificates of one round, in the order of the search.
OfRound(s, ordered, r) ==
    Selected(ordered,
             {x \in {y \in ToSet(ordered) : Round(y) + GcDepth >= s.last_committed_round} : Round(x) = r})

LEMMA OfRoundFacts ==
  ASSUME NEW s, NEW ordered \in Seq(Certificates), NEW r
  PROVE  /\ OfRound(s, ordered, r) \in Seq(Certificates)
         /\ ToSet(OfRound(s, ordered, r)) =
              {x \in ToSet(ordered) : Round(x) + GcDepth >= s.last_committed_round /\ Round(x) = r}
         /\ Distinct(ordered) => Distinct(OfRound(s, ordered, r))
  <1> DEFINE S == {x \in {y \in ToSet(ordered) : Round(y) + GcDepth >= s.last_committed_round} : Round(x) = r}
  <1>1. ToSet(ordered) \cap S =
          {x \in ToSet(ordered) : Round(x) + GcDepth >= s.last_committed_round /\ Round(x) = r}
    OBVIOUS
  <1>2. OfRound(s, ordered, r) = Selected(ordered, S)
    BY DEF OfRound
  <1> HIDE DEF S
  <1>3. /\ Selected(ordered, S) \in Seq(Certificates) /\ ToSet(Selected(ordered, S)) = ToSet(ordered) \cap S
        /\ Distinct(ordered) => Distinct(Selected(ordered, S))
    BY SelectedFacts
  <1> QED
    BY <1>1, <1>2, <1>3

\* ByRound goes through the rounds.
IsByRound(sorted, s, ordered) ==
    /\ sorted[0] = <<>>
    /\ \A i \in 1 .. MaxRound + 1 : sorted[i] = sorted[i - 1] \o OfRound(s, ordered, i - 1)

LEMMA ByRoundSteps ==
  ASSUME NEW s, NEW ordered \in Seq(Certificates)
  PROVE  \E sorted : IsByRound(sorted, s, ordered) /\ ByRound(s, ordered) = sorted[MaxRound + 1]
  <1> DEFINE n == MaxRound + 1
             Of(i) == OfRound(s, ordered, i - 1)
             Step(v, i) == v \o Of(i)
             G == [iv \in (1 .. n) \X Seq(Certificates) |-> Step(iv[2], iv[1])]
             Rec(f) == f = [i \in 0 .. n |-> IF i = 0 THEN <<>> ELSE Step(f[i - 1], i)]
             sorted == CHOOSE f : Rec(f)
  <1>1. n \in Nat
    BY ConsensusAssumption
  <1>2. ByRound(s, ordered) = sorted[n]
    BY DEF ByRound, OfRound
  <1>3. \A i : Of(i) \in Seq(Certificates)
    BY OfRoundFacts
  <1> HIDE DEF Of, n
  <1>4. <<>> \in Seq(Certificates) /\ \A i, v : v \in Seq(Certificates) => Step(v, i) \in Seq(Certificates)
    BY <1>3, EmptySeq, ConcatProperties
  <1> HIDE DEF Step
  <1>5. /\ IsStep(G, 1 .. n, Seq(Certificates))
        /\ \A i \in 1 .. n : \A v \in Seq(Certificates) : G[<<i, v>>] = Step(v, i)
    BY <1>4 DEF IsStep
  <1> HIDE DEF G
  <1>6. PICK f : IsUpward(f, n, Seq(Certificates), <<>>, G)
    BY <1>1, <1>4, <1>5, UpwardRecursion
  <1>7. /\ f = [i \in 0 .. n |-> f[i]] /\ f[0] = <<>>
        /\ \A i \in 1 .. n : f[i - 1] \in Seq(Certificates) /\ f[i] = G[<<i, f[i - 1]>>]
    BY <1>1, <1>6, UpwardValues
  <1>8. 0 \in 0 .. n /\ (\A i \in 0 .. n : i = 0 \/ i \in 1 .. n) /\ (\A i \in 1 .. n : i \in 0 .. n /\ i # 0)
    BY <1>1
  <1>9. Rec(f)
    BY <1>5, <1>7, <1>8
  <1>10. Rec(sorted)
    BY <1>9
  <1> HIDE DEF sorted
  <1>11. sorted[0] = <<>> /\ \A i \in 1 .. n : sorted[i] = Step(sorted[i - 1], i)
    BY <1>8, <1>10
  <1> QED
    BY <1>2, <1>11 DEF IsByRound, Step, Of, n

\* ByRound keeps the certificates that are recent enough, in the order of their
\* rounds.
LEMMA ByRoundFacts ==
  ASSUME NEW s, NEW ordered \in Seq(Certificates)
  PROVE  /\ ByRound(s, ordered) \in Seq(Certificates)
         /\ ToSet(ByRound(s, ordered)) =
              {x \in ToSet(ordered) : Round(x) + GcDepth >= s.last_committed_round}
         /\ Distinct(ordered) => Distinct(ByRound(s, ordered))
         /\ InRoundOrder(ByRound(s, ordered))
  <1> DEFINE recent == {x \in ToSet(ordered) : Round(x) + GcDepth >= s.last_committed_round}
             n == MaxRound + 1
             Of(i) == OfRound(s, ordered, i - 1)
  <1>1. n \in Nat
    BY ConsensusAssumption
  <1>2. PICK sorted : IsByRound(sorted, s, ordered) /\ ByRound(s, ordered) = sorted[n]
    BY ByRoundSteps
  <1>3. \A i : /\ Of(i) \in Seq(Certificates) /\ ToSet(Of(i)) = {x \in recent : Round(x) = i - 1}
               /\ Distinct(ordered) => Distinct(Of(i))
    <2> SUFFICES ASSUME NEW i
                 PROVE  /\ Of(i) \in Seq(Certificates) /\ ToSet(Of(i)) = {x \in recent : Round(x) = i - 1}
                        /\ Distinct(ordered) => Distinct(Of(i))
      OBVIOUS
    <2>1. {x \in ToSet(ordered) : Round(x) + GcDepth >= s.last_committed_round /\ Round(x) = i - 1} =
            {x \in recent : Round(x) = i - 1}
      OBVIOUS
    <2> DEFINE r == i - 1
    <2> HIDE DEF r
    <2>2. /\ OfRound(s, ordered, r) \in Seq(Certificates)
          /\ ToSet(OfRound(s, ordered, r)) =
               {x \in ToSet(ordered) : Round(x) + GcDepth >= s.last_committed_round /\ Round(x) = r}
          /\ Distinct(ordered) => Distinct(OfRound(s, ordered, r))
      BY OfRoundFacts
    <2> HIDE DEF recent
    <2> QED
      BY <2>1, <2>2 DEF r
  <1>4. recent \subseteq Certificates
    BY ToSetLen
  <1> HIDE DEF recent
  <1>5. <<>> \in Seq(Certificates) /\ sorted[0] = <<>> /\ \A i \in 1 .. n : sorted[i] = sorted[i - 1] \o Of(i)
    BY <1>2, EmptySeq DEF IsByRound
  <1> HIDE DEF Of, n
  <1> DEFINE Once(v) == Distinct(ordered) => Distinct(v)
             Good == {i \in Nat : i <= n => /\ sorted[i] \in Seq(Certificates) /\ Once(sorted[i])
                                            /\ InRoundOrder(sorted[i])
                                            /\ ToSet(sorted[i]) = {x \in recent : Round(x) < i}}
  <1>6. \A x \in Certificates : Round(x) \in 0 .. MaxRound
    BY DEF Certificates, Round
  <1>7. 0 \in Good
    <2>1. sorted[0] = <<>>
      BY <1>5
    <2>2. {x \in recent : Round(x) < 0} = {}
      BY <1>4, <1>6, ConsensusAssumption
    <2>3. InRoundOrder(<<>>)
      BY DEF InRoundOrder
    <2> QED
      BY <1>5, <2>1, <2>2, <2>3, ToSetEmpty, DistinctEmpty
  <1> HIDE DEF Once
  <1>8. ASSUME NEW i \in Nat, i \in Good PROVE i + 1 \in Good
    <2> SUFFICES ASSUME i + 1 <= n
                 PROVE  /\ sorted[i + 1] \in Seq(Certificates) /\ Once(sorted[i + 1])
                        /\ InRoundOrder(sorted[i + 1])
                        /\ ToSet(sorted[i + 1]) = {x \in recent : Round(x) < i + 1}
      OBVIOUS
    <2>1. /\ sorted[i] \in Seq(Certificates) /\ Once(sorted[i]) /\ InRoundOrder(sorted[i])
          /\ ToSet(sorted[i]) = {x \in recent : Round(x) < i}
      BY <1>1, <1>8
    <2>2. i + 1 \in 1 .. n /\ (i + 1) - 1 = i
      BY <1>1
    <2>3. sorted[i + 1] = sorted[i] \o Of(i + 1)
      BY <1>5, <2>2
    <2>4. /\ sorted[i] \o Of(i + 1) \in Seq(Certificates)
          /\ ToSet(sorted[i] \o Of(i + 1)) = ToSet(sorted[i]) \cup ToSet(Of(i + 1))
      BY <1>3, <2>1, ConcatProperties, ToSetConcat
    <2>5. ToSet(Of(i + 1)) = {x \in recent : Round(x) = i}
      BY <1>3, <2>2
    <2>6. {x \in recent : Round(x) < i} \cup {x \in recent : Round(x) = i} = {x \in recent : Round(x) < i + 1}
      BY <1>4, <1>6, ConsensusAssumption
    <2>7. Once(sorted[i] \o Of(i + 1))
      <3>1. ToSet(sorted[i]) \cap ToSet(Of(i + 1)) = {}
        BY <1>4, <1>6, <2>1, <2>5, ConsensusAssumption
      <3>2. Of(i + 1) \in Seq(Certificates) /\ (Distinct(ordered) => Distinct(Of(i + 1)))
        BY <1>3
      <3> QED
        BY <2>1, <3>1, <3>2, DistinctConcat DEF Once
    <2>8. InRoundOrder(sorted[i] \o Of(i + 1))
      <3>1. Of(i + 1) \in Seq(Certificates)
        BY <1>3
      <3>2. \A y \in ToSet(Of(i + 1)) : Round(y) = i
        BY <2>5
      <3>3. \A x \in ToSet(sorted[i]) : Round(x) \in Nat /\ Round(x) < i
        BY <1>4, <1>6, <2>1, ConsensusAssumption
      <3>4. \A x \in ToSet(sorted[i]) : \A y \in ToSet(Of(i + 1)) : Round(x) <= Round(y)
        BY <3>2, <3>3
      <3>5. InRoundOrder(Of(i + 1))
        <4>1. \A j \in 1 .. Len(Of(i + 1)) : Round(Of(i + 1)[j]) = i
          BY <3>1, <3>2, ToSetLen
        <4> QED
          BY <4>1 DEF InRoundOrder
      <3> QED
        BY <2>1, <3>1, <3>4, <3>5, RoundOrderConcat
    <2> QED
      BY <2>1, <2>3, <2>4, <2>5, <2>6, <2>7, <2>8
  <1> HIDE DEF Good
  <1>9. n \in Good
    BY <1>1, <1>7, <1>8, SetInduction
  <1>10. {x \in recent : Round(x) < n} = recent
    BY <1>4, <1>6, ConsensusAssumption DEF n
  <1>11. n <= n
    BY <1>1
  <1>12. /\ sorted[n] \in Seq(Certificates) /\ ToSet(sorted[n]) = recent /\ Once(sorted[n])
         /\ InRoundOrder(sorted[n])
    BY <1>9, <1>10, <1>11 DEF Good
  <1> QED
    BY <1>2, <1>12 DEF recent, Once

\* The certificates that are not too old to be committed.
Recent(s) == {x \in Certificates : Round(x) + GcDepth >= s.last_committed_round}

\* Only they count.
LEMMA ByRoundOfRecent ==
  ASSUME NEW s, NEW t, s.last_committed_round = t.last_committed_round, NEW ordered \in Seq(Certificates)
  PROVE  ByRound(s, ordered) = ByRound(t, Selected(ordered, Recent(s)))
  <1> DEFINE R == Recent(s)
             kept == Selected(ordered, R)
             n == MaxRound + 1
  <1>1. kept \in Seq(Certificates) /\ ToSet(kept) = ToSet(ordered) \cap R /\ ToSet(ordered) \subseteq Certificates
    BY SelectedFacts, ToSetLen
  <1>2. ASSUME NEW r PROVE OfRound(s, ordered, r) = OfRound(t, kept, r)
    <2> DEFINE A == {x \in {y \in ToSet(ordered) : Round(y) + GcDepth >= s.last_committed_round} : Round(x) = r}
               B == {x \in {y \in ToSet(kept) : Round(y) + GcDepth >= t.last_committed_round} : Round(x) = r}
    <2>1. A = B /\ R \cap A = A
      BY <1>1 DEF Recent
    <2>2. OfRound(s, ordered, r) = Selected(ordered, A) /\ OfRound(t, kept, r) = Selected(kept, B)
      BY DEF OfRound
    <2> HIDE DEF A, B
    <2>3. Selected(kept, A) = Selected(ordered, R \cap A)
      BY SelectedTwice
    <2> QED
      BY <2>1, <2>2, <2>3
  <1> HIDE DEF kept
  <1>3. PICK g : IsByRound(g, s, ordered) /\ ByRound(s, ordered) = g[n]
    BY ByRoundSteps
  <1>4. PICK h : IsByRound(h, t, kept) /\ ByRound(t, kept) = h[n]
    BY <1>1, ByRoundSteps
  <1> DEFINE Good == {i \in Nat : i <= n => g[i] = h[i]}
  <1>5. n \in Nat
    BY ConsensusAssumption
  <1>6. 0 \in Good
    BY <1>3, <1>4 DEF IsByRound
  <1>7. ASSUME NEW i \in Nat, i \in Good PROVE i + 1 \in Good
    <2> SUFFICES ASSUME i + 1 <= n PROVE g[i + 1] = h[i + 1]
      OBVIOUS
    <2>1. i + 1 \in 1 .. n /\ (i + 1) - 1 = i /\ g[i] = h[i]
      BY <1>5, <1>7
    <2>2. g[i + 1] = g[i] \o OfRound(s, ordered, i) /\ h[i + 1] = h[i] \o OfRound(t, kept, i)
      BY <1>3, <1>4, <2>1 DEF IsByRound
    <2> QED
      BY <1>2, <2>1, <2>2
  <1> HIDE DEF Good
  <1>8. n \in Good
    BY <1>5, <1>6, <1>7, SetInduction
  <1>9. g[n] = h[n]
    BY <1>5, <1>8 DEF Good
  <1> QED
    BY <1>3, <1>4, <1>9 DEF kept

-----------------------------------------------------------------------------
(* The DAG.                                                                *)

LEMMA CertificateFacts ==
  ASSUME NEW c \in Certificates
  PROVE  /\ Round(c) \in 0 .. MaxRound /\ Round(c) \in Nat /\ Origin(c) \in Authorities
         /\ c = <<Round(c), Origin(c)>>
  BY ConsensusAssumption DEF Certificates, Round, Origin

LEMMA DagFacts ==
  ASSUME edges \in Dags
  PROVE  /\ Genesis \subseteq DOMAIN edges /\ DOMAIN edges \subseteq Certificates
         /\ \A g \in Genesis : edges[g] = {}
         /\ \A c \in DOMAIN edges \ Genesis :
              /\ edges[c] \subseteq {p \in DOMAIN edges : Round(p) + 1 = Round(c)}
              /\ IsQuorum({Origin(p) : p \in edges[c]})
         /\ \A c \in DOMAIN edges : \A p \in edges[c] : p \in DOMAIN edges /\ Round(p) + 1 = Round(c)
         /\ \A c \in DOMAIN edges : Round(c) = 0 <=> c \in Genesis
  <1>1. IsDag(edges)
    BY ConsensusAssumption
  <1>2. \A c \in Certificates : Round(c) = 0 <=> c \in Genesis
    BY DEF Genesis, Certificates, Round
  <1> QED
    BY <1>1, <1>2 DEF IsDag

LEMMA CertificatesFinite == IsFiniteSet(Certificates)
  <1>1. IsFiniteSet(0 .. MaxRound)
    BY ConsensusAssumption, FS_Interval, SMT
  <1> QED
    BY <1>1, CommitteeAssumption, FS_Product DEF Certificates

LEMMA DigestOrderFacts ==
  ASSUME NEW U \in SUBSET Certificates
  PROVE  /\ InDigestOrder(U) \in Seq(Certificates) /\ ToSet(InDigestOrder(U)) = U
         /\ Distinct(InDigestOrder(U))
  <1>1. /\ DigestOrder \in Seq(Certificates) /\ ToSet(DigestOrder) = Certificates
        /\ DOMAIN DigestOrder = 1 .. Len(DigestOrder)
    BY ConsensusAssumption
  <1>2. Distinct(DigestOrder)
    BY <1>1, ConsensusAssumption DEF Distinct
  <1>3. /\ Selected(DigestOrder, U) \in Seq(Certificates)
        /\ ToSet(Selected(DigestOrder, U)) = ToSet(DigestOrder) \cap U
        /\ Distinct(DigestOrder) => Distinct(Selected(DigestOrder, U))
    BY <1>1, SelectedFacts
  <1> QED
    BY <1>1, <1>2, <1>3 DEF InDigestOrder

-----------------------------------------------------------------------------
(* The depth-first search of order_dag.                                    *)

\* What the search has done so far: nothing is visited twice, and nothing but c
\* that is the last committed certificate of its author; the parents of what it
\* has visited are visited or waiting in the buffer.
IsSearch(v, s, c) ==
    /\ v \in [ordered : Seq(Certificates), buffer : Seq(Certificates), seen : SUBSET Certificates]
    /\ v.seen \subseteq {x \in s.dag : Round(x) < Round(c) /\ Round(x) # s.last_committed[Origin(x)]}
    /\ Distinct(v.ordered) /\ Distinct(v.buffer)
    /\ ToSet(v.ordered) \cap ToSet(v.buffer) = {}
    /\ ToSet(v.ordered) \cup ToSet(v.buffer) = v.seen \cup {c}
    /\ \A x \in ToSet(v.ordered) : Unvisited(s, x, v.seen) = {}
    /\ c \in ToSet(v.ordered) \/ (c = Last(v.buffer) /\ v.buffer # <<>>)

\* The search w comes after v: one more certificate is visited, if any is left.
IsNextSearch(w, v, s, c) ==
    /\ IsSearch(w, s, c) /\ c \in ToSet(w.ordered)
    /\ v.buffer = <<>> => w.buffer = <<>>
    /\ v.buffer # <<>> => \E x : /\ x \notin ToSet(v.ordered)
                                 /\ ToSet(w.ordered) = ToSet(v.ordered) \cup {x}

LEMMA VisitFacts ==
  ASSUME edges \in Dags, NEW s, s.dag \subseteq DOMAIN edges, NEW c \in s.dag,
         NEW v, IsSearch(v, s, c)
  PROVE  IsNextSearch(Visit(s, v), v, s, c)
  <1>0. /\ v = [ordered |-> v.ordered, buffer |-> v.buffer, seen |-> v.seen]
        /\ v.ordered \in Seq(Certificates) /\ v.buffer \in Seq(Certificates)
        /\ v.seen \subseteq Certificates
    BY DEF IsSearch
  <1>1. CASE v.buffer = <<>>
    <2>1. Visit(s, v) = v
      BY <1>1 DEF Visit
    <2>2. c \in ToSet(v.ordered)
      BY <1>1, ToSetEmpty DEF IsSearch
    <2> QED
      BY <1>1, <2>1, <2>2 DEF IsNextSearch
  <1>2. CASE v.buffer # <<>>
    <2> DEFINE x == Last(v.buffer)
               rest == Front(v.buffer)
               U == Unvisited(s, x, v.seen)
               w == [ordered |-> Append(v.ordered, x), buffer |-> rest \o InDigestOrder(U),
                     seen |-> v.seen \cup U]
    <2>1. Visit(s, v) = w
      BY <1>2 DEF Visit
    <2>2. /\ rest \in Seq(Certificates) /\ x \in Certificates
          /\ ToSet(v.buffer) = ToSet(rest) \cup {x}
          /\ Distinct(rest) /\ x \notin ToSet(rest)
      BY <1>0, <1>2, FrontLast DEF IsSearch
    <2>3. x \in v.seen \cup {c} /\ x \notin ToSet(v.ordered)
      BY <2>2 DEF IsSearch
    <2>4. /\ s.dag \subseteq Certificates /\ c \in Certificates
          /\ \A y \in DOMAIN edges : \A p \in edges[y] : Round(p) + 1 = Round(y)
      BY DagFacts
    <2>5. x \in s.dag /\ Round(x) <= Round(c) /\ Round(x) \in Nat /\ Round(c) \in Nat
      BY <2>3, <2>4, CertificateFacts DEF IsSearch
    <2>6. /\ U \subseteq {y \in s.dag : Round(y) < Round(c) /\ Round(y) # s.last_committed[Origin(y)]}
          /\ U \cap v.seen = {}
      <3> SUFFICES ASSUME NEW y \in U
                   PROVE  /\ y \in s.dag /\ Round(y) < Round(c) /\ Round(y) # s.last_committed[Origin(y)]
                          /\ y \notin v.seen
        OBVIOUS
      <3>1. y \in edges[x] /\ y \in s.dag /\ y \notin v.seen /\ Round(y) # s.last_committed[Origin(y)]
        BY DEF Unvisited
      <3>2. Round(y) + 1 = Round(x) /\ Round(y) \in Nat
        BY <2>4, <2>5, <3>1, CertificateFacts
      <3> QED
        BY <2>5, <3>1, <3>2
    <2>7. c \notin U /\ U \subseteq Certificates
      BY <2>4, <2>5, <2>6
    <2> HIDE DEF x, rest, U
    <2>8. /\ InDigestOrder(U) \in Seq(Certificates) /\ ToSet(InDigestOrder(U)) = U
          /\ Distinct(InDigestOrder(U))
      BY <2>7, DigestOrderFacts
    <2>9. /\ Append(v.ordered, x) \in Seq(Certificates)
          /\ ToSet(Append(v.ordered, x)) = ToSet(v.ordered) \cup {x}
          /\ Distinct(Append(v.ordered, x))
      BY <1>0, <2>2, <2>3, ToSetAppend, DistinctAppend DEF IsSearch
    <2>10. ToSet(rest) \subseteq v.seen \cup {c}
      BY <2>2 DEF IsSearch
    <2>11. /\ rest \o InDigestOrder(U) \in Seq(Certificates)
           /\ ToSet(rest \o InDigestOrder(U)) = ToSet(rest) \cup U
           /\ Distinct(rest \o InDigestOrder(U))
      <3>1. ToSet(rest) \cap ToSet(InDigestOrder(U)) = {}
        BY <2>6, <2>7, <2>8, <2>10
      <3> QED
        BY <2>2, <2>8, <3>1, ToSetConcat, DistinctConcat, ConcatProperties
    <2>12. c \in ToSet(Append(v.ordered, x))
      BY <2>9 DEF IsSearch, x
    <2>13. /\ w.ordered = Append(v.ordered, x) /\ w.buffer = rest \o InDigestOrder(U)
           /\ w.seen = v.seen \cup U
           /\ w \in [ordered : Seq(Certificates), buffer : Seq(Certificates), seen : SUBSET Certificates]
      BY <1>0, <2>7, <2>9, <2>11
    <2> HIDE DEF w
    <2>14. (ToSet(v.ordered) \cup {x}) \cap (ToSet(rest) \cup U) = {}
      <3>1. ToSet(v.ordered) \cap ToSet(v.buffer) = {} /\ ToSet(v.ordered) \subseteq v.seen \cup {c}
        BY DEF IsSearch
      <3> QED
        BY <2>2, <2>3, <2>6, <2>7, <3>1
    <2>15. (ToSet(v.ordered) \cup {x}) \cup (ToSet(rest) \cup U) = (v.seen \cup U) \cup {c}
      BY <2>2, <2>3, <2>10 DEF IsSearch
    <2>16. w.seen \subseteq {y \in s.dag : Round(y) < Round(c) /\ Round(y) # s.last_committed[Origin(y)]}
      BY <2>6, <2>13 DEF IsSearch
    <2>17. \A y \in ToSet(w.ordered) : Unvisited(s, y, w.seen) = {}
      <3>1. \A y \in ToSet(v.ordered) : Unvisited(s, y, v.seen) = {}
        BY DEF IsSearch
      <3>2. \A y : Unvisited(s, y, v.seen) = {} => Unvisited(s, y, w.seen) = {}
        BY <2>13 DEF Unvisited
      <3>3. Unvisited(s, x, w.seen) = {}
        BY <2>13 DEF Unvisited, U
      <3> QED
        BY <2>9, <2>13, <3>1, <3>2, <3>3
    <2>18. IsSearch(w, s, c) /\ c \in ToSet(w.ordered)
      BY <2>9, <2>11, <2>12, <2>13, <2>14, <2>15, <2>16, <2>17 DEF IsSearch
    <2> QED
      BY <1>2, <2>1, <2>3, <2>9, <2>13, <2>18 DEF IsNextSearch
  <1> QED
    BY <1>1, <1>2

FirstSearch(c) == [ordered |-> <<>>, buffer |-> <<c>>, seen |-> {}]

\* The turns of the search from c, until there is nothing left to visit.
IsSearchRun(search, n, s, c) ==
    /\ n \in Nat
    /\ search[0] = FirstSearch(c)
    /\ \A i \in 1 .. n : search[i] = Visit(s, search[i - 1])
    /\ \A i \in 0 .. n : IsSearch(search[i], s, c)
    /\ search[n].buffer = <<>>
    /\ c \in ToSet(search[n].ordered)

LEMMA SearchFacts ==
  ASSUME edges \in Dags, NEW s, s.dag \subseteq DOMAIN edges, NEW c \in s.dag
  PROVE  \E search, n : IsSearchRun(search, n, s, c) /\ order_dag(s, c) = ByRound(s, search[n].ordered)
  <1> DEFINE n == Cardinality(s.dag) + 1
             V == [ordered : Seq(Certificates), buffer : Seq(Certificates), seen : SUBSET Certificates]
             T == {v \in V : IsSearch(v, s, c)}
             base == FirstSearch(c)
             G == [iv \in (1 .. n) \X T |-> Visit(s, iv[2])]
             Rec(f) == f = [k \in 0 .. n |-> IF k = 0 THEN base ELSE Visit(s, f[k - 1])]
             search == CHOOSE f : Rec(f)
  <1>1. n \in Nat /\ n >= 1 /\ IsFiniteSet(s.dag) /\ n = Cardinality(s.dag) + 1
    <2>1. IsFiniteSet(s.dag)
      BY CertificatesFinite, DagFacts, FS_Subset
    <2> QED
      BY <2>1, FS_CardinalityType
  <1>2. order_dag(s, c) = ByRound(s, search[n].ordered)
    BY DEF order_dag, FirstSearch
  <1>3. c \in Certificates /\ s.dag \subseteq Certificates
    BY DagFacts
  <1>4. base \in T
    <2>1. /\ <<c>> \in Seq(Certificates) /\ ToSet(<<c>>) = {c} /\ Distinct(<<c>>)
          /\ Last(<<c>>) = c /\ <<c>> # <<>>
      BY <1>3, SingletonFacts
    <2>2. base \in V
      BY <2>1, EmptySeq DEF FirstSearch
    <2> QED
      BY <2>1, <2>2, ToSetEmpty, DistinctEmpty DEF IsSearch, FirstSearch
  <1>5. ASSUME NEW v \in T
        PROVE  /\ Visit(s, v) \in T /\ c \in ToSet(Visit(s, v).ordered)
               /\ v.buffer = <<>> => Visit(s, v).buffer = <<>>
               /\ v.buffer # <<>> => \E x : /\ x \notin ToSet(v.ordered)
                                            /\ ToSet(Visit(s, v).ordered) = ToSet(v.ordered) \cup {x}
    <2>1. IsSearch(v, s, c)
      OBVIOUS
    <2> HIDE DEF T, V, G, base, n
    <2>2. /\ IsSearch(Visit(s, v), s, c) /\ c \in ToSet(Visit(s, v).ordered)
          /\ v.buffer = <<>> => Visit(s, v).buffer = <<>>
          /\ v.buffer # <<>> => \E x : /\ x \notin ToSet(v.ordered)
                                       /\ ToSet(Visit(s, v).ordered) = ToSet(v.ordered) \cup {x}
      <3>1. IsNextSearch(Visit(s, v), v, s, c)
        BY <2>1, VisitFacts
      <3> QED
        BY <3>1 DEF IsNextSearch
    <2>3. Visit(s, v) \in V
      BY <2>2 DEF IsSearch, V
    <2> QED
      BY <2>2, <2>3 DEF T
  <1> HIDE DEF T, V, base, n
  <1>6. IsStep(G, 1 .. n, T) /\ \A i \in 1 .. n : \A v \in T : G[<<i, v>>] = Visit(s, v)
    BY <1>5 DEF IsStep
  <1> HIDE DEF G
  <1>7. PICK f : IsUpward(f, n, T, base, G)
    BY <1>1, <1>4, <1>6, UpwardRecursion
  <1>8. /\ f = [i \in 0 .. n |-> f[i]] /\ f[0] = base
        /\ \A i \in 1 .. n : f[i - 1] \in T /\ f[i] = G[<<i, f[i - 1]>>]
    BY <1>1, <1>7, UpwardValues
  <1>9. \A i \in 0 .. n : i = 0 \/ i \in 1 .. n
    BY <1>1
  <1>10. Rec(f)
    BY <1>6, <1>8, <1>9
  <1>11. Rec(search)
    BY <1>10
  <1> HIDE DEF search
  <1>12. search[0] = base /\ \A i \in 1 .. n : search[i] = Visit(s, search[i - 1])
    BY <1>1, <1>11
  \* Every turn visits one more certificate, until the buffer is empty.
  <1> DEFINE Visits(v, i) == /\ IsFiniteSet(ToSet(v.ordered))
                             /\ v.buffer = <<>> \/ Cardinality(ToSet(v.ordered)) = i
             Good == {i \in Nat : i <= n => search[i] \in T /\ Visits(search[i], i)}
  <1>13. 0 \in Good
    <2>1. base.ordered = <<>>
      BY DEF base, FirstSearch
    <2> QED
      BY <1>4, <1>12, <2>1, ToSetEmpty, FS_EmptySet
  <1>14. ASSUME NEW i \in Nat, i \in Good PROVE i + 1 \in Good
    <2> SUFFICES ASSUME i + 1 <= n PROVE search[i + 1] \in T /\ Visits(search[i + 1], i + 1)
      OBVIOUS
    <2> DEFINE v == search[i]
               w == Visit(s, v)
    <2>1. v \in T /\ Visits(v, i)
      BY <1>1, <1>14
    <2>2. i + 1 \in 1 .. n /\ (i + 1) - 1 = i
      BY <1>1
    <2>3. search[i + 1] = w
      BY <1>12, <2>2
    <2>4. /\ w \in T
          /\ v.buffer = <<>> => w.buffer = <<>>
          /\ v.buffer # <<>> => \E x : x \notin ToSet(v.ordered) /\ ToSet(w.ordered) = ToSet(v.ordered) \cup {x}
      BY <1>5, <2>1
    <2> HIDE DEF v, w
    <2>5. CASE v.buffer = <<>>
      <3>1. w = v
        BY <2>5 DEF Visit, w
      <3> QED
        BY <2>1, <2>3, <2>4, <2>5, <3>1
    <2>6. CASE v.buffer # <<>>
      <3>1. PICK x : x \notin ToSet(v.ordered) /\ ToSet(w.ordered) = ToSet(v.ordered) \cup {x}
        BY <2>4, <2>6
      <3>2. /\ IsFiniteSet(ToSet(v.ordered) \cup {x})
            /\ Cardinality(ToSet(v.ordered) \cup {x}) = Cardinality(ToSet(v.ordered)) + 1
        BY <2>1, <3>1, FS_AddElement
      <3> QED
        BY <2>1, <2>3, <2>4, <2>6, <3>1, <3>2
    <2> QED
      BY <2>5, <2>6
  <1>15. \A i \in Nat : i \in Good
    <2> HIDE DEF Good
    <2> QED
      BY <1>13, <1>14, SetInduction
  <1>16. search[n - 1] \in T /\ search[n] = Visit(s, search[n - 1])
    <2>1. n - 1 \in Nat /\ n - 1 <= n /\ n \in 1 .. n
      BY <1>1
    <2> QED
      BY <1>12, <1>15, <2>1
  <1>17. IsSearch(search[n], s, c) /\ c \in ToSet(search[n].ordered) /\ Visits(search[n], n)
    <2>1. n <= n
      BY <1>1
    <2> QED
      BY <1>1, <1>5, <1>15, <1>16, <2>1 DEF T
  <1>18. ToSet(search[n].ordered) \subseteq s.dag
    BY <1>17 DEF IsSearch
  \* The search cannot have visited more certificates than the DAG holds.
  <1>19. search[n].buffer = <<>>
    <2> SUFFICES ASSUME Cardinality(ToSet(search[n].ordered)) = n PROVE FALSE
      BY <1>17
    <2>1. Cardinality(ToSet(search[n].ordered)) <= Cardinality(s.dag) /\ Cardinality(s.dag) \in Nat
      BY <1>1, <1>18, FS_Subset, FS_CardinalityType
    <2> QED
      BY <1>1, <2>1
  <1>20. \A i \in 0 .. n : IsSearch(search[i], s, c)
    <2>1. \A i \in 0 .. n : i \in Nat /\ i <= n
      BY <1>1
    <2> QED
      BY <1>15, <2>1 DEF T
  <1>21. IsSearchRun(search, n, s, c)
    BY <1>1, <1>12, <1>17, <1>19, <1>20 DEF IsSearchRun, base
  <1> QED
    BY <1>2, <1>21

\* The sub-DAG of a leader, in the order of the rounds: it has the parents of
\* what it holds, but for those that are not in the DAG, that are the last
\* committed certificate of their author, or that are too old.
LEMMA OrderDagFacts ==
  ASSUME edges \in Dags, NEW s, s.dag \subseteq DOMAIN edges, NEW c \in s.dag
  PROVE  /\ order_dag(s, c) \in Seq(Certificates) /\ Distinct(order_dag(s, c))
         /\ \A x \in ToSet(order_dag(s, c)) :
              /\ x \in s.dag /\ Round(x) <= Round(c)
              /\ x = c \/ Round(x) # s.last_committed[Origin(x)]
         /\ Round(c) + GcDepth >= s.last_committed_round => c \in ToSet(order_dag(s, c))
         /\ InRoundOrder(order_dag(s, c))
         /\ \A x \in ToSet(order_dag(s, c)) : \A p \in edges[x] :
              (/\ p \in s.dag /\ Round(p) # s.last_committed[Origin(p)]
               /\ Round(p) + GcDepth >= s.last_committed_round) => p \in ToSet(order_dag(s, c))
  <1>1. PICK search, n : IsSearchRun(search, n, s, c) /\ order_dag(s, c) = ByRound(s, search[n].ordered)
    BY SearchFacts
  <1> DEFINE r == search[n].ordered
  <1>2. IsSearch(search[n], s, c) /\ c \in ToSet(r) /\ search[n].buffer = <<>>
    <2>1. n \in 0 .. n
      BY <1>1 DEF IsSearchRun
    <2> QED
      BY <1>1, <2>1 DEF IsSearchRun
  <1>3. c \in Certificates /\ s.dag \subseteq Certificates
    BY DagFacts
  <1>4. r \in Seq(Certificates) /\ Distinct(r) /\ ToSet(r) \subseteq search[n].seen \cup {c}
    BY <1>2 DEF IsSearch
  <1>5. \A x \in ToSet(r) : /\ x \in s.dag /\ Round(x) <= Round(c)
                            /\ x = c \/ Round(x) # s.last_committed[Origin(x)]
    <2> SUFFICES ASSUME NEW x \in ToSet(r), x # c
                 PROVE  /\ x \in s.dag /\ Round(x) <= Round(c)
                        /\ Round(x) # s.last_committed[Origin(x)]
      <3>1. Round(c) <= Round(c)
        BY <1>3, CertificateFacts
      <3> QED
        BY <3>1
    <2>1. x \in s.dag /\ Round(x) < Round(c) /\ Round(x) # s.last_committed[Origin(x)]
      BY <1>2, <1>4 DEF IsSearch
    <2>2. Round(x) \in Nat /\ Round(c) \in Nat
      BY <1>3, <2>1, CertificateFacts
    <2> QED
      BY <2>1, <2>2
  <1>6. ASSUME NEW x \in ToSet(r), NEW p \in edges[x], p \in s.dag, Round(p) # s.last_committed[Origin(p)]
        PROVE  p \in ToSet(r)
    <2>1. Unvisited(s, x, search[n].seen) = {}
      BY <1>2 DEF IsSearch
    <2>2. p \in search[n].seen
      BY <1>6, <2>1 DEF Unvisited
    <2>3. ToSet(r) \cup {} = search[n].seen \cup {c}
      BY <1>2, ToSetEmpty DEF IsSearch
    <2> QED
      BY <2>2, <2>3
  <1> HIDE DEF r
  <1>7. /\ ByRound(s, r) \in Seq(Certificates) /\ Distinct(ByRound(s, r)) /\ InRoundOrder(ByRound(s, r))
        /\ ToSet(ByRound(s, r)) = {x \in ToSet(r) : Round(x) + GcDepth >= s.last_committed_round}
    BY <1>4, ByRoundFacts
  <1>8. order_dag(s, c) = ByRound(s, r)
    BY <1>1 DEF r
  <1> QED
    BY <1>2, <1>5, <1>6, <1>7, <1>8

-----------------------------------------------------------------------------
(* Two replicas search the same sub-DAG.                                   *)

\* A replica may hold certificates that are too old, because it received them
\* late.  The other one holds none, and the two agree on the recent parents that
\* remain to be committed.
Shadows(t, s) ==
    /\ t.last_committed = s.last_committed
    /\ t.last_committed_round = s.last_committed_round
    /\ t.dag \subseteq Recent(s)
    /\ \A x \in s.dag \cap Recent(s) : \A p \in edges[x] \cap Recent(s) :
         Round(p) # s.last_committed[Origin(p)] => (p \in s.dag <=> p \in t.dag)

\* The search w is the search v without what is too old.
SameSearch(w, v, R) ==
    /\ w.ordered = Selected(v.ordered, R)
    /\ w.buffer = Selected(v.buffer, R)
    /\ w.seen = v.seen \cap R

\* Visiting a certificate that is too old leads to older ones only.
LEMMA VisitTwin ==
  ASSUME edges \in Dags, NEW s, s.dag \subseteq DOMAIN edges, NEW c \in s.dag,
         s.last_committed_round \in Nat, NEW t, Shadows(t, s),
         NEW v, IsSearch(v, s, c), v.buffer # <<>>, NEW w, SameSearch(w, v, Recent(s))
  PROVE  IF Last(v.buffer) \in Recent(s)
         THEN w.buffer # <<>> /\ SameSearch(Visit(t, w), Visit(s, v), Recent(s))
         ELSE SameSearch(w, Visit(s, v), Recent(s))
  <1> DEFINE R == Recent(s)
             x == Last(v.buffer)
             rest == Front(v.buffer)
             U == Unvisited(s, x, v.seen)
             D == InDigestOrder(U)
             front == Selected(rest, R)
  <1>1. /\ v.ordered \in Seq(Certificates) /\ v.buffer \in Seq(Certificates)
        /\ v.seen \subseteq Certificates /\ ToSet(v.buffer) \subseteq v.seen \cup {c}
        /\ v.seen \subseteq s.dag
    BY DEF IsSearch
  <1>2. /\ rest \in Seq(Certificates) /\ x \in Certificates /\ x \in ToSet(v.buffer)
        /\ v.buffer = Append(rest, x)
    BY <1>1, FrontLast, AppendFrontLast
  <1>3. x \in s.dag /\ s.dag \subseteq Certificates /\ U \subseteq Certificates
    BY <1>1, <1>2, DagFacts DEF Unvisited
  <1>4. Visit(s, v) = [ordered |-> Append(v.ordered, x), buffer |-> rest \o D, seen |-> v.seen \cup U]
    BY DEF Visit
  <1>5. w.ordered = Selected(v.ordered, R) /\ w.buffer = Selected(v.buffer, R) /\ w.seen = v.seen \cap R
    BY DEF SameSearch
  <1> HIDE DEF x, rest, D
  <1>6. D \in Seq(Certificates)
    BY <1>3, DigestOrderFacts DEF D
  <1>7. Selected(Append(v.ordered, x), R) =
          IF x \in R THEN Append(Selected(v.ordered, R), x) ELSE Selected(v.ordered, R)
    <2> DEFINE r == v.ordered
    <2>1. r \in Seq(Certificates)
      BY <1>1
    <2> HIDE DEF R, U, front, r
    <2>2. Selected(Append(r, x), R) = IF x \in R THEN Append(Selected(r, R), x) ELSE Selected(r, R)
      BY <1>2, <2>1, SelectedAppend
    <2> QED
      BY <2>2 DEF r
  <1>8. Selected(v.buffer, R) = IF x \in R THEN Append(front, x) ELSE front
    BY <1>2, SelectedAppend
  <1>9. Selected(rest \o D, R) = front \o InDigestOrder(U \cap R)
    <2>1. Selected(rest \o D, R) = Selected(rest, R) \o Selected(D, R)
      BY <1>2, <1>6, SelectedConcat
    <2>2. Selected(Selected(DigestOrder, U), R) = Selected(DigestOrder, U \cap R)
      BY SelectedTwice, ConsensusAssumption
    <2> QED
      BY <2>1, <2>2 DEF D, InDigestOrder
  <1>10. front \in Seq(Certificates)
    BY <1>2, SelectedFacts
  <1> HIDE DEF front
  <1>11. CASE x \in R
    <2> DEFINE W == Unvisited(t, x, w.seen)
    <2>1. W = U \cap R
      <3>1. ASSUME NEW p \in W PROVE p \in U /\ p \in R
        <4>1. p \in edges[x] /\ p \in t.dag /\ p \notin w.seen /\ Round(p) # s.last_committed[Origin(p)] /\ p \in R
          BY <3>1 DEF Unvisited, Shadows
        <4>2. p \in s.dag
          BY <1>3, <1>11, <4>1 DEF Shadows
        <4> QED
          BY <1>5, <4>1, <4>2 DEF Unvisited
      <3>2. ASSUME NEW p \in U, p \in R PROVE p \in W
        <4>1. p \in edges[x] /\ p \in s.dag /\ p \notin v.seen /\ Round(p) # s.last_committed[Origin(p)]
          BY <3>2 DEF Unvisited
        <4>2. p \in t.dag
          BY <1>3, <1>11, <3>2, <4>1 DEF Shadows
        <4> QED
          BY <1>5, <4>1, <4>2 DEF Unvisited, Shadows
      <3> QED
        BY <3>1, <3>2
    <2>2. w.buffer = Append(front, x)
      BY <1>5, <1>8, <1>11
    <2>3. w.buffer # <<>> /\ Last(w.buffer) = x /\ Front(w.buffer) = front
      BY <1>2, <1>10, <2>2, AppendFrontLast
    <2> HIDE DEF W, U, R
    <2>4. Visit(t, w) = [ordered |-> Append(w.ordered, x), buffer |-> front \o InDigestOrder(W),
                         seen |-> w.seen \cup W]
      BY <2>3 DEF Visit, W
    <2>5. Visit(t, w).ordered = Selected(Visit(s, v).ordered, R)
      BY <1>4, <1>5, <1>7, <1>11, <2>4
    <2>6. Visit(t, w).buffer = Selected(Visit(s, v).buffer, R)
      <3>1. Visit(s, v).buffer = rest \o D
        BY <1>4
      <3>2. Visit(t, w).buffer = front \o InDigestOrder(W)
        BY <2>4
      <3>3. InDigestOrder(W) = InDigestOrder(U \cap R)
        BY <2>1, Zenon
      <3> QED
        BY <1>9, <3>1, <3>2, <3>3, Zenon
    <2>7. Visit(t, w).seen = Visit(s, v).seen \cap R
      BY <1>4, <1>5, <2>1, <2>4
    <2> QED
      BY <1>11, <2>3, <2>5, <2>6, <2>7 DEF SameSearch, R, x
  <1>12. CASE x \notin R
    <2>1. U \cap R = {}
      <3> SUFFICES ASSUME NEW p \in U, p \in R PROVE FALSE
        OBVIOUS
      <3>1. p \in edges[x] /\ p \in Certificates /\ Round(p) + GcDepth >= s.last_committed_round
        BY <1>3 DEF Unvisited, Recent
      <3>2. Round(p) + 1 = Round(x) /\ Round(p) \in Nat /\ GcDepth \in Nat
        BY <1>3, <3>1, DagFacts, CertificateFacts, ConsensusAssumption
      <3>3. Round(x) + GcDepth >= s.last_committed_round
        BY <3>1, <3>2
      <3> QED
        BY <1>2, <1>12, <3>3 DEF Recent
    <2> HIDE DEF U, R
    <2> DEFINE e == InDigestOrder(U \cap R)
    <2>2. e = <<>>
      <3>1. e \in Seq(Certificates) /\ ToSet(e) = {}
        BY <1>3, <2>1, DigestOrderFacts
      <3> HIDE DEF e
      <3> QED
        BY <3>1, NothingInIt
    <2>3. Selected(rest \o D, R) = front
      <3>1. Selected(rest \o D, R) = front \o e
        BY <1>9
      <3> HIDE DEF e
      <3>2. front \o <<>> = front
        BY <1>10
      <3> QED
        BY <2>2, <3>1, <3>2
    <2>4. Visit(s, v).ordered = Append(v.ordered, x) /\ Visit(s, v).buffer = rest \o D /\ Visit(s, v).seen = v.seen \cup U
      BY <1>4
    <2>5. w.ordered = Selected(Visit(s, v).ordered, R)
      BY <1>5, <1>7, <1>12, <2>4
    <2>6. w.buffer = Selected(Visit(s, v).buffer, R)
      BY <1>5, <1>8, <1>12, <2>3, <2>4
    <2>7. w.seen = Visit(s, v).seen \cap R
      BY <1>5, <2>1, <2>4
    <2> QED
      BY <1>12, <2>5, <2>6, <2>7 DEF SameSearch, R, x
  <1> QED
    BY <1>11, <1>12

\* The two commit the same sequence for a leader.
LEMMA OrderDagTwin ==
  ASSUME edges \in Dags, NEW s, s.dag \subseteq DOMAIN edges, s.last_committed_round \in Nat,
         NEW t, t.dag \subseteq DOMAIN edges, Shadows(t, s), NEW c \in s.dag, c \in t.dag
  PROVE  order_dag(t, c) = order_dag(s, c)
  <1> DEFINE R == Recent(s)
  <1>1. PICK f, n : IsSearchRun(f, n, s, c) /\ order_dag(s, c) = ByRound(s, f[n].ordered)
    BY SearchFacts
  <1>2. PICK g, m : IsSearchRun(g, m, t, c) /\ order_dag(t, c) = ByRound(t, g[m].ordered)
    BY SearchFacts
  <1>3. /\ n \in Nat /\ f[0] = FirstSearch(c) /\ f[n].buffer = <<>>
        /\ \A i \in 1 .. n : f[i] = Visit(s, f[i - 1])
        /\ \A i \in 0 .. n : IsSearch(f[i], s, c)
    BY <1>1 DEF IsSearchRun
  <1>4. /\ m \in Nat /\ g[0] = FirstSearch(c) /\ g[m].buffer = <<>>
        /\ \A i \in 1 .. m : g[i] = Visit(t, g[i - 1])
    BY <1>2 DEF IsSearchRun
  <1> DEFINE Good == {i \in Nat : i <= n => \E k \in 0 .. m : SameSearch(g[k], f[i], R)}
  <1>5. c \in R /\ c \in Certificates
    BY DagFacts DEF Shadows
  <1>6. 0 \in Good
    <2>1. Append(<<>>, c) = <<c>> /\ <<>> \in Seq(Certificates)
      BY EmptySeq
    <2>2. Selected(<<>>, R) = <<>> /\ Selected(<<c>>, R) = <<c>>
      <3>1. Selected(<<>>, R) = <<>>
        BY EmptySelection
      <3>2. \A e \in Seq(Certificates) : Selected(Append(e, c), R) = Append(Selected(e, R), c)
        <4> HIDE DEF R
        <4> QED
          BY <1>5, SelectedAppend
      <3>3. Selected(Append(<<>>, c), R) = Append(Selected(<<>>, R), c)
        BY <2>1, <3>2
      <3> QED
        BY <2>1, <3>1, <3>3
    <2>3. SameSearch(FirstSearch(c), FirstSearch(c), R)
      BY <2>2 DEF SameSearch, FirstSearch
    <2>4. 0 \in 0 .. m
      BY <1>4
    <2> QED
      BY <1>3, <1>4, <2>3, <2>4
  <1> HIDE DEF R
  <1>7. ASSUME NEW i \in Nat, i \in Good PROVE i + 1 \in Good
    <2> SUFFICES ASSUME i + 1 <= n PROVE \E k \in 0 .. m : SameSearch(g[k], f[i + 1], R)
      OBVIOUS
    <2>0. n \in Nat
      BY <1>3
    <2>1. /\ i + 1 \in 1 .. n /\ (i + 1) - 1 = i /\ i \in 0 .. n /\ i <= n
      BY <2>0
    <2>2. f[i + 1] = Visit(s, f[i]) /\ IsSearch(f[i], s, c)
      BY <1>3, <2>1
    <2>3. PICK k \in 0 .. m : SameSearch(g[k], f[i], R)
      BY <1>7, <2>1
    <2>4. CASE f[i].buffer = <<>>
      <3>1. f[i + 1] = f[i]
        BY <2>2, <2>4 DEF Visit
      <3> QED
        BY <2>3, <3>1
    <2>5. CASE f[i].buffer # <<>> /\ Last(f[i].buffer) \in R
      <3>1. g[k].buffer # <<>> /\ SameSearch(Visit(t, g[k]), f[i + 1], R)
        BY <2>2, <2>3, <2>5, VisitTwin DEF R
      <3>2. k + 1 \in 1 .. m /\ k + 1 \in 0 .. m /\ (k + 1) - 1 = k
        BY <1>4, <3>1
      <3>3. g[k + 1] = Visit(t, g[k])
        BY <1>4, <3>2
      <3> QED
        BY <3>1, <3>2, <3>3
    <2>6. CASE f[i].buffer # <<>> /\ Last(f[i].buffer) \notin R
      <3>1. SameSearch(g[k], f[i + 1], R)
        BY <2>2, <2>3, <2>6, VisitTwin DEF R
      <3> QED
        BY <3>1
    <2> QED
      BY <2>4, <2>5, <2>6
  <1> HIDE DEF Good
  <1>8. n \in Good
    BY <1>3, <1>6, <1>7, SetInduction
  <1>9. PICK k \in 0 .. m : SameSearch(g[k], f[n], R)
    BY <1>3, <1>8 DEF Good
  <1>10. g[k].buffer = <<>>
    BY <1>3, <1>9, EmptySelection DEF SameSearch
  \* The search is over.
  <1> DEFINE Over == {i \in Nat : k + i <= m => g[k + i] = g[k]}
  <1>11. 0 \in Over
    BY <1>4
  <1>12. ASSUME NEW i \in Nat, i \in Over PROVE i + 1 \in Over
    <2> SUFFICES ASSUME k + (i + 1) <= m PROVE g[k + (i + 1)] = g[k]
      OBVIOUS
    <2>1. k + (i + 1) \in 1 .. m /\ (k + (i + 1)) - 1 = k + i /\ k + i <= m
      BY <1>4
    <2>2. g[k + (i + 1)] = Visit(t, g[k + i]) /\ g[k + i] = g[k]
      BY <1>4, <1>12, <2>1
    <2> QED
      BY <1>10, <2>2 DEF Visit
  <1> HIDE DEF Over
  <1>13. g[m] = g[k]
    <2>1. m - k \in Nat /\ k + (m - k) = m /\ m <= m
      BY <1>4
    <2>2. m - k \in Over
      BY <1>11, <1>12, <2>1, SetInduction
    <2> QED
      BY <2>1, <2>2 DEF Over
  <1>14. g[m].ordered = Selected(f[n].ordered, Recent(s))
    BY <1>9, <1>13 DEF SameSearch, R
  <1>15. f[n].ordered \in Seq(Certificates)
    <2>1. n \in 0 .. n
      BY <1>3
    <2> QED
      BY <1>3, <2>1 DEF IsSearch
  <1>16. s.last_committed_round = t.last_committed_round
    BY DEF Shadows
  <1>17. ByRound(s, f[n].ordered) = ByRound(t, Selected(f[n].ordered, Recent(s)))
    BY <1>15, <1>16, ByRoundOfRecent
  <1> QED
    BY <1>1, <1>2, <1>14, <1>17

-----------------------------------------------------------------------------
(* What committing leaders does to the state.                              *)

LEMMA MaxFacts ==
  ASSUME NEW S \in SUBSET (0 .. MaxRound), S # {}
  PROVE  Max(S) \in S /\ \A y \in S : y <= Max(S)
  <1>1. MaxRound \in Nat
    BY ConsensusAssumption
  <1>2. PICK x \in S : \A y \in S : y <= x
    BY <1>1, GreatestNumber
  <1>3. Max(S) \in S /\ \A y \in S : Max(S) >= y
    BY <1>2 DEF Max
  <1> QED
    BY <1>1, <1>3

\* A state of the replica: nothing is committed above the last committed round.
IsState(s) ==
    /\ s \in [dag : SUBSET Certificates, last_committed : [Authorities -> 0 .. MaxRound],
              last_committed_round : 0 .. MaxRound]
    /\ s.dag \subseteq DOMAIN edges
    /\ \A a \in Authorities : s.last_committed[a] <= s.last_committed_round

LEMMA UpdateFacts ==
  ASSUME NEW s, IsState(s), NEW committed \in Seq(Certificates),
         NEW c \in ToSet(committed), \A x \in ToSet(committed) : Round(x) <= Round(c),
         Round(c) >= s.last_committed_round
  PROVE  /\ IsState(update(s, committed))
         /\ update(s, committed).last_committed_round = Round(c)
         /\ update(s, committed).dag \subseteq s.dag
         /\ \A x \in s.dag : Round(x) > Round(c) => x \in update(s, committed).dag
         /\ \A x \in update(s, committed).dag : Round(x) >= update(s, committed).last_committed[Origin(x)]
         /\ \A a \in Authorities : s.last_committed[a] <= update(s, committed).last_committed[a]
         /\ \A x \in ToSet(committed) : Round(x) <= update(s, committed).last_committed[Origin(x)]
         /\ \A x \in s.dag :
              (/\ Round(x) >= update(s, committed).last_committed[Origin(x)]
               /\ Round(x) + GcDepth >= Round(c)) => x \in update(s, committed).dag
         /\ \A a \in Authorities :
              \/ update(s, committed).last_committed[a] = s.last_committed[a]
              \/ \E x \in ToSet(committed) :
                   Origin(x) = a /\ Round(x) = update(s, committed).last_committed[a]
  <1> DEFINE Of(a) == {s.last_committed[a]} \cup
                      {Round(x) : x \in {y \in ToSet(committed) : Origin(y) = a}}
             last == [a \in Authorities |-> Max(Of(a))]
             round == Max({last[a] : a \in Authorities})
             u == [dag |-> {x \in s.dag : Round(x) >= last[Origin(x)] /\ Round(x) + GcDepth >= round},
                   last_committed |-> last, last_committed_round |-> round]
  <1>1. update(s, committed) = u
    BY DEF update
  <1>2. /\ ToSet(committed) \subseteq Certificates /\ c \in Certificates
        /\ s.dag \subseteq Certificates /\ s.dag \subseteq DOMAIN edges
        /\ s.last_committed_round \in 0 .. MaxRound /\ s.last_committed_round \in Nat
        /\ \A a \in Authorities : s.last_committed[a] \in 0 .. MaxRound
        /\ \A a \in Authorities : s.last_committed[a] <= s.last_committed_round
    <2>1. ToSet(committed) \subseteq Certificates
      BY ToSetLen
    <2>2. s.last_committed_round \in 0 .. MaxRound /\ MaxRound \in Nat
      BY ConsensusAssumption DEF IsState
    <2> QED
      BY <2>1, <2>2 DEF IsState
  <1>3. \A x \in Certificates : Round(x) \in 0 .. MaxRound /\ Round(x) \in Nat /\ Origin(x) \in Authorities
    BY CertificateFacts
  <1>4. ASSUME NEW a \in Authorities
        PROVE  /\ Max(Of(a)) \in 0 .. MaxRound /\ s.last_committed[a] <= Max(Of(a))
               /\ \A x \in ToSet(committed) : Origin(x) = a => Round(x) <= Max(Of(a))
               /\ Max(Of(a)) <= Round(c)
               /\ \/ Max(Of(a)) = s.last_committed[a]
                  \/ \E x \in ToSet(committed) : Origin(x) = a /\ Round(x) = Max(Of(a))
    <2>1. Of(a) \in SUBSET (0 .. MaxRound) /\ Of(a) # {}
      BY <1>2, <1>3
    <2>2. \A y \in Of(a) : y <= Round(c)
      BY <1>2, <1>3, ConsensusAssumption
    <2>3. /\ s.last_committed[a] \in Of(a)
          /\ \A x \in ToSet(committed) : Origin(x) = a => Round(x) \in Of(a)
          /\ \A y \in Of(a) : \/ y = s.last_committed[a]
                             \/ \E x \in ToSet(committed) : Origin(x) = a /\ Round(x) = y
      OBVIOUS
    <2> HIDE DEF Of
    <2>4. Max(Of(a)) \in Of(a) /\ \A y \in Of(a) : y <= Max(Of(a))
      BY <2>1, MaxFacts
    <2> QED
      BY <2>1, <2>2, <2>3, <2>4
  <1> HIDE DEF Of
  <1>5. /\ last \in [Authorities -> 0 .. MaxRound]
        /\ \A a \in Authorities : s.last_committed[a] <= last[a] /\ last[a] <= Round(c)
        /\ \A x \in ToSet(committed) : Round(x) <= last[Origin(x)]
        /\ \A a \in Authorities :
             \/ last[a] = s.last_committed[a]
             \/ \E x \in ToSet(committed) : Origin(x) = a /\ Round(x) = last[a]
    BY <1>2, <1>3, <1>4
  <1> HIDE DEF last
  <1>6. round = Round(c)
    <2> DEFINE S == {last[a] : a \in Authorities}
    <2>1. Origin(c) \in Authorities /\ Round(c) <= last[Origin(c)] /\ last[Origin(c)] <= Round(c)
      BY <1>2, <1>3, <1>5
    <2>2. last[Origin(c)] = Round(c)
      <3>1. last[Origin(c)] \in 0 .. MaxRound
        BY <1>5, <2>1
      <3> QED
        BY <1>2, <1>3, <2>1, <3>1, ConsensusAssumption
    <2>3. S \in SUBSET (0 .. MaxRound) /\ Round(c) \in S /\ \A y \in S : y <= Round(c)
      BY <1>5, <2>1, <2>2
    <2> HIDE DEF S
    <2>4. Max(S) \in S /\ \A y \in S : y <= Max(S)
      BY <2>3, MaxFacts
    <2>5. Max(S) = Round(c)
      <3>1. Max(S) <= Round(c) /\ Round(c) <= Max(S) /\ Max(S) \in 0 .. MaxRound /\ Round(c) \in 0 .. MaxRound
        BY <2>3, <2>4
      <3> QED
        BY <3>1, ConsensusAssumption
    <2> QED
      BY <2>5 DEF S
  <1> HIDE DEF round
  <1>7. u.dag = {x \in s.dag : Round(x) >= last[Origin(x)] /\ Round(x) + GcDepth >= Round(c)}
        /\ u.last_committed = last /\ u.last_committed_round = Round(c)
    BY <1>6
  <1>8. IsState(u)
    BY <1>2, <1>3, <1>5, <1>6, <1>7 DEF IsState
  <1> HIDE DEF u
  <1>9. ASSUME NEW x \in s.dag, Round(x) > Round(c) PROVE x \in u.dag
    <2>1. /\ Round(x) \in Nat /\ Round(c) \in Nat /\ GcDepth \in Nat
          /\ last[Origin(x)] \in 0 .. MaxRound /\ last[Origin(x)] <= Round(c)
      BY <1>2, <1>3, <1>5, ConsensusAssumption
    <2> QED
      BY <1>7, <1>9, <2>1, ConsensusAssumption
  <1> QED
    BY <1>1, <1>5, <1>7, <1>8, <1>9

\* The state, the output and the leaders while a sequence of leaders is committed.
IsRun(v) ==
    /\ v \in [state : [dag : SUBSET Certificates, last_committed : [Authorities -> 0 .. MaxRound],
                       last_committed_round : 0 .. MaxRound],
              output : Seq(Certificates), leaders : Seq(Certificates)]
    /\ IsState(v.state)

LEMMA RunFacts ==
  ASSUME NEW v, IsRun(v)
  PROVE  /\ IsState(v.state)
         /\ v.state.dag \subseteq DOMAIN edges /\ v.state.dag \subseteq Certificates
         /\ v.output \in Seq(Certificates) /\ v.leaders \in Seq(Certificates)
         /\ v.state.last_committed_round \in Nat
         /\ \A a \in Authorities : /\ v.state.last_committed[a] \in Nat
                                   /\ v.state.last_committed[a] <= v.state.last_committed_round
  <1>1. /\ IsState(v.state) /\ v.output \in Seq(Certificates) /\ v.leaders \in Seq(Certificates)
    BY DEF IsRun
  <1>2. /\ v.state.dag \subseteq DOMAIN edges /\ v.state.dag \subseteq Certificates
        /\ v.state.last_committed_round \in 0 .. MaxRound
        /\ \A a \in Authorities : /\ v.state.last_committed[a] \in 0 .. MaxRound
                                  /\ v.state.last_committed[a] <= v.state.last_committed_round
    BY <1>1 DEF IsState
  <1>3. 0 .. MaxRound \subseteq Nat
    BY ConsensusAssumption
  <1> QED
    BY <1>1, <1>2, <1>3

\* What was output from position k + 1 on was output once, and what of it is in
\* the DAG is the last committed certificate of its author.
IsOnce(v, k) ==
    /\ \A i, j \in k + 1 .. Len(v.output) : v.output[i] = v.output[j] => i = j
    /\ \A i \in k + 1 .. Len(v.output) :
         /\ Round(v.output[i]) <= v.state.last_committed[Origin(v.output[i])]
         /\ v.output[i] \in v.state.dag =>
              Round(v.output[i]) = v.state.last_committed[Origin(v.output[i])]

\* One leader above the last committed round.
LEMMA CommitFacts ==
  ASSUME edges \in Dags, NEW v, IsRun(v),
         NEW c \in v.state.dag, Round(c) > v.state.last_committed_round
  PROVE  /\ IsRun(commit(v, c)) /\ commit(v, c).leaders = Append(v.leaders, c)
         /\ commit(v, c).state.last_committed_round = Round(c)
         /\ commit(v, c).state.dag \subseteq v.state.dag
         /\ \A x \in v.state.dag : Round(x) > Round(c) => x \in commit(v, c).state.dag
         /\ ToSet(commit(v, c).output) \subseteq ToSet(v.output) \cup v.state.dag
         /\ Len(v.output) <= Len(commit(v, c).output)
         /\ \E t \in Seq(Certificates) : commit(v, c).output = v.output \o t
         /\ \A k \in 0 .. Len(v.output) : IsOnce(v, k) => IsOnce(commit(v, c), k)
  <1> DEFINE s == v.state
             committed == order_dag(s, c)
             u == update(s, committed)
             o == v.output \o committed
             w == [state |-> u, output |-> o, leaders |-> Append(v.leaders, c)]
  <1>1. commit(v, c) = w
    BY DEF commit
  <1>2. /\ IsState(s) /\ s.dag \subseteq DOMAIN edges /\ s.dag \subseteq Certificates /\ c \in Certificates
        /\ s.last_committed_round \in Nat /\ Round(c) \in Nat /\ GcDepth \in Nat
        /\ v.output \in Seq(Certificates) /\ v.leaders \in Seq(Certificates)
        /\ \A a \in Authorities : s.last_committed[a] \in Nat /\ s.last_committed[a] <= s.last_committed_round
    <2>1. c \in Certificates /\ Round(c) \in Nat /\ GcDepth \in Nat
      BY RunFacts, CertificateFacts, ConsensusAssumption
    <2> QED
      BY <2>1, RunFacts
  <1>3. /\ committed \in Seq(Certificates) /\ Distinct(committed)
        /\ \A x \in ToSet(committed) :
              /\ x \in s.dag /\ Round(x) <= Round(c)
              /\ x = c \/ Round(x) # s.last_committed[Origin(x)]
        /\ c \in ToSet(committed)
    <2>1. Round(c) + GcDepth >= s.last_committed_round
      BY <1>2
    <2> HIDE DEF s
    <2> QED
      BY <1>2, <2>1, OrderDagFacts DEF s
  <1> HIDE DEF committed
  <1>4. /\ IsState(u) /\ u.last_committed_round = Round(c) /\ u.dag \subseteq s.dag
        /\ \A x \in s.dag : Round(x) > Round(c) => x \in u.dag
        /\ \A x \in u.dag : Round(x) >= u.last_committed[Origin(x)]
        /\ \A a \in Authorities : s.last_committed[a] <= u.last_committed[a]
        /\ \A x \in ToSet(committed) : Round(x) <= u.last_committed[Origin(x)]
    <2> HIDE DEF s
    <2>1. Round(c) >= s.last_committed_round /\ IsState(s)
      BY <1>2 DEF s
    <2> QED
      BY <1>3, <2>1, UpdateFacts
  <1> HIDE DEF u
  <1>5. /\ o \in Seq(Certificates) /\ ToSet(o) = ToSet(v.output) \cup ToSet(committed)
        /\ Len(o) = Len(v.output) + Len(committed) /\ Len(v.output) \in Nat /\ Len(committed) \in Nat
    BY <1>2, <1>3, ToSetConcat, ConcatProperties
  <1>6. /\ w.state = u /\ w.output = o /\ w.leaders = Append(v.leaders, c)
        /\ Append(v.leaders, c) \in Seq(Certificates)
    BY <1>2
  <1>7. IsRun(w)
    BY <1>4, <1>5, <1>6 DEF IsRun, IsState
  <1>8. ASSUME NEW k \in 0 .. Len(v.output), IsOnce(v, k) PROVE IsOnce(w, k)
    <2>1. /\ \A i \in 1 .. Len(v.output) : i \in 1 .. Len(o) /\ o[i] = v.output[i]
          /\ \A i \in k + 1 .. Len(o) :
               \/ i \in k + 1 .. Len(v.output) /\ o[i] = v.output[i]
               \/ i - Len(v.output) \in 1 .. Len(committed) /\ o[i] = committed[i - Len(v.output)]
      <3> DEFINE m == Len(v.output)
      <3>1. /\ \A i \in 1 .. m : o[i] = v.output[i]
            /\ \A i \in 1 .. Len(committed) : o[m + i] = committed[i]
        BY <1>2, <1>3, ConcatProperties
      <3> HIDE DEF o
      <3>2. m \in Nat /\ Len(committed) \in Nat /\ Len(o) = m + Len(committed) /\ k \in 0 .. m
        BY <1>5
      <3> HIDE DEF m
      <3>3. \A i \in 1 .. m : i \in 1 .. Len(o)
        BY <3>2
      <3>4. \A i \in k + 1 .. Len(o) :
               \/ i \in k + 1 .. m /\ i \in 1 .. m
               \/ i - m \in 1 .. Len(committed) /\ m + (i - m) = i
        BY <3>2
      <3>5. \A i \in k + 1 .. Len(o) :
               \/ i \in k + 1 .. m /\ o[i] = v.output[i]
               \/ i - m \in 1 .. Len(committed) /\ o[i] = committed[i - m]
        BY <3>1, <3>4
      <3> QED
        BY <3>1, <3>3, <3>5 DEF m
    <2>2. \A i \in 1 .. Len(committed) : committed[i] \in ToSet(committed)
      BY <1>3, ToSetLen
    <2>3. /\ \A i, j \in k + 1 .. Len(v.output) : v.output[i] = v.output[j] => i = j
          /\ \A i \in k + 1 .. Len(v.output) :
                /\ Round(v.output[i]) <= s.last_committed[Origin(v.output[i])]
                /\ v.output[i] \in s.dag => Round(v.output[i]) = s.last_committed[Origin(v.output[i])]
      BY <1>8 DEF IsOnce
    <2>4. \A i \in k + 1 .. Len(v.output) : v.output[i] \in Certificates
      BY <1>2
    <2>5. \A x \in Certificates : Round(x) \in Nat /\ Origin(x) \in Authorities
      BY CertificateFacts
    <2>6. \A a \in Authorities : u.last_committed[a] \in Nat
      <3>1. \A a \in Authorities : u.last_committed[a] \in 0 .. MaxRound
        BY <1>4 DEF IsState
      <3> QED
        BY <3>1, ConsensusAssumption
    <2> HIDE DEF o, s
    <2>7. ASSUME NEW i \in k + 1 .. Len(v.output) PROVE v.output[i] \notin ToSet(committed)
      <3> DEFINE x == v.output[i]
      <3>1. x \in Certificates /\ Round(x) \in Nat /\ Origin(x) \in Authorities
        BY <2>4, <2>5
      <3>2. Round(x) <= s.last_committed[Origin(x)]
            /\ (x \in s.dag => Round(x) = s.last_committed[Origin(x)])
        BY <2>3
      <3>3. x # c
        BY <1>2, <3>1, <3>2 DEF s
      <3> QED
        BY <1>3, <3>2, <3>3
    <2>8. ASSUME NEW i \in k + 1 .. Len(o), NEW j \in k + 1 .. Len(o), o[i] = o[j] PROVE i = j
      <3>1. CASE /\ i \in k + 1 .. Len(v.output) /\ o[i] = v.output[i]
                 /\ j \in k + 1 .. Len(v.output) /\ o[j] = v.output[j]
        BY <2>3, <2>8, <3>1
      <3>2. CASE /\ i - Len(v.output) \in 1 .. Len(committed) /\ o[i] = committed[i - Len(v.output)]
                 /\ j - Len(v.output) \in 1 .. Len(committed) /\ o[j] = committed[j - Len(v.output)]
        <4>1. i - Len(v.output) = j - Len(v.output)
          BY <1>3, <2>8, <3>2 DEF Distinct
        <4> QED
          BY <1>5, <4>1
      <3>3. CASE /\ i \in k + 1 .. Len(v.output) /\ o[i] = v.output[i]
                 /\ j - Len(v.output) \in 1 .. Len(committed) /\ o[j] = committed[j - Len(v.output)]
        BY <2>2, <2>7, <2>8, <3>3
      <3>4. CASE /\ j \in k + 1 .. Len(v.output) /\ o[j] = v.output[j]
                 /\ i - Len(v.output) \in 1 .. Len(committed) /\ o[i] = committed[i - Len(v.output)]
        BY <2>2, <2>7, <2>8, <3>4
      <3> QED
        BY <2>1, <3>1, <3>2, <3>3, <3>4
    <2>9. ASSUME NEW i \in k + 1 .. Len(o)
          PROVE  /\ Round(o[i]) <= u.last_committed[Origin(o[i])]
                 /\ o[i] \in u.dag => Round(o[i]) = u.last_committed[Origin(o[i])]
      <3> DEFINE x == o[i]
      <3>1. x \in Certificates /\ Round(x) <= u.last_committed[Origin(x)]
        <4>1. CASE i \in k + 1 .. Len(v.output) /\ o[i] = v.output[i]
          <5>1. x \in Certificates /\ Round(x) <= s.last_committed[Origin(x)]
            BY <2>3, <2>4, <4>1
          <5>2. /\ Origin(x) \in Authorities /\ Round(x) \in Nat
                /\ s.last_committed[Origin(x)] <= u.last_committed[Origin(x)]
                /\ s.last_committed[Origin(x)] \in Nat /\ u.last_committed[Origin(x)] \in Nat
            BY <1>2, <1>4, <2>5, <2>6, <5>1 DEF s
          <5> QED
            BY <5>1, <5>2
        <4>2. CASE i - Len(v.output) \in 1 .. Len(committed) /\ o[i] = committed[i - Len(v.output)]
          BY <1>2, <1>3, <1>4, <2>2, <4>2 DEF s
        <4> QED
          BY <2>1, <4>1, <4>2
      <3>2. Round(x) \in Nat /\ u.last_committed[Origin(x)] \in Nat
        BY <2>5, <2>6, <3>1
      <3>3. x \in u.dag => Round(x) >= u.last_committed[Origin(x)]
        BY <1>4
      <3> QED
        BY <3>1, <3>2, <3>3
    <2> HIDE DEF w
    <2> QED
      BY <1>6, <2>8, <2>9 DEF IsOnce
  <1>9. ToSet(o) \subseteq ToSet(v.output) \cup s.dag /\ Len(v.output) <= Len(o)
    BY <1>3, <1>5
  <1>10. \E t \in Seq(Certificates) : o = v.output \o t
    BY <1>3
  <1> HIDE DEF w, o
  <1> QED
    BY <1>1, <1>4, <1>6, <1>7, <1>8, <1>9, <1>10

\* In a chained DAG, nothing that the replica got is forgotten: up to the last
\* committed round of its author it was output, above it is in the DAG of the
\* replica, or else it is too old; and what was output comes after its parents.
IsComplete(v, got) ==
    /\ got \subseteq DOMAIN edges /\ \A x \in got : edges[x] \subseteq got
    /\ v.state.dag \cup ToSet(v.output) \subseteq got
    /\ \A a \in Authorities : <<v.state.last_committed[a], a>> \in got
    /\ \A x \in v.state.dag : Round(x) >= v.state.last_committed[Origin(x)]
    /\ \A x \in got : Round(x) + GcDepth >= v.state.last_committed_round =>
         \/ Round(x) <= v.state.last_committed[Origin(x)] /\ x \in Genesis \cup ToSet(v.output)
         \/ Round(x) > v.state.last_committed[Origin(x)] /\ x \in v.state.dag
    /\ \A i \in 1 .. Len(v.output) : \A p \in edges[v.output[i]] :
         \/ p \in Genesis \cup {v.output[j] : j \in 1 .. i - 1}
         \/ Round(p) + GcDepth < v.state.last_committed_round

\* The certificates of one author have every round below the last one received.
LEMMA ChainIsReceived ==
  ASSUME edges \in Dags, Chained, NEW got \in SUBSET DOMAIN edges, \A x \in got : edges[x] \subseteq got,
         NEW c \in got
  PROVE  \A r \in Nat : r <= Round(c) => <<r, Origin(c)>> \in got
  <1> DEFINE n == Round(c)
             a == Origin(c)
             Good == {k \in Nat : k <= n => <<n - k, a>> \in got}
  <1>1. n \in Nat /\ c = <<n, a>> /\ a \in Authorities
    BY DagFacts, CertificateFacts
  <1>2. 0 \in Good
    <2>1. n - 0 = n
      BY <1>1
    <2> QED
      BY <1>1, <2>1
  <1>3. ASSUME NEW k \in Nat, k \in Good PROVE k + 1 \in Good
    <2> SUFFICES ASSUME k + 1 <= n PROVE <<n - (k + 1), a>> \in got
      OBVIOUS
    <2> DEFINE x == <<n - k, a>>
    <2>1. x \in got /\ n - k # 0 /\ (n - k) - 1 = n - (k + 1)
      BY <1>1, <1>3
    <2>2. Round(x) = n - k /\ Origin(x) = a
      BY DEF Round, Origin
    <2> HIDE DEF x
    <2>3. x \in DOMAIN edges \ Genesis
      BY <2>1, <2>2, DagFacts
    <2>4. <<Round(x) - 1, Origin(x)>> \in edges[x]
      BY <2>3 DEF Chained
    <2> QED
      BY <2>1, <2>2, <2>4
  <1> HIDE DEF Good
  <1>4. \A k \in Nat : k \in Good
    BY <1>2, <1>3, SetInduction
  <1>5. ASSUME NEW r \in Nat, r <= n PROVE <<r, a>> \in got
    <2>1. n - r \in Nat /\ n - r <= n /\ n - (n - r) = r
      BY <1>1, <1>5
    <2>2. n - r \in Good
      BY <1>4, <2>1
    <2> QED
      BY <2>1, <2>2 DEF Good
  <1> QED
    BY <1>5

\* Committing one leader forgets nothing: the parents of what it outputs are in
\* the same sub-DAG, were output before or are too old, and so is what lies
\* between the old and the new last committed round of an author.
LEMMA CommitComplete ==
  ASSUME edges \in Dags, Chained, NEW v, IsRun(v), NEW c \in v.state.dag,
         Round(c) > v.state.last_committed_round, NEW got, IsComplete(v, got)
  PROVE  IsComplete(commit(v, c), got)
  <1> DEFINE s == v.state
             L == s.last_committed_round
             lc == s.last_committed
             q == order_dag(s, c)
             u == update(s, q)
             o == v.output \o q
             w == [state |-> u, output |-> o, leaders |-> Append(v.leaders, c)]
             old == Genesis \cup ToSet(v.output)
  <1>1. commit(v, c) = w
    BY DEF commit
  <1>2. w.state = u /\ w.output = o
    OBVIOUS
  <1>3. /\ IsState(s) /\ s.dag \subseteq DOMAIN edges /\ s.dag \subseteq Certificates /\ c \in Certificates
        /\ L \in Nat /\ Round(c) \in Nat /\ GcDepth \in Nat /\ v.output \in Seq(Certificates)
        /\ \A a \in Authorities : lc[a] \in Nat
    <2>1. c \in Certificates /\ Round(c) \in Nat /\ GcDepth \in Nat
      BY RunFacts, CertificateFacts, ConsensusAssumption
    <2> QED
      BY <2>1, RunFacts
  <1>4. /\ got \subseteq DOMAIN edges /\ \A x \in got : edges[x] \subseteq got
        /\ s.dag \subseteq got /\ ToSet(v.output) \subseteq got
        /\ \A a \in Authorities : <<lc[a], a>> \in got
        /\ \A x \in got : Round(x) + GcDepth >= L =>
             \/ Round(x) <= lc[Origin(x)] /\ x \in old
             \/ Round(x) > lc[Origin(x)] /\ x \in s.dag
        /\ \A i \in 1 .. Len(v.output) : \A p \in edges[v.output[i]] :
             \/ p \in Genesis \cup {v.output[j] : j \in 1 .. i - 1}
             \/ Round(p) + GcDepth < L
    BY DEF IsComplete
  <1>5. \A x \in got : /\ x \in Certificates /\ Round(x) \in Nat /\ Origin(x) \in Authorities
                       /\ x = <<Round(x), Origin(x)>>
    BY <1>4, DagFacts, CertificateFacts
  <1>6. /\ q \in Seq(Certificates) /\ InRoundOrder(q) /\ c \in ToSet(q)
        /\ \A x \in ToSet(q) : x \in s.dag /\ Round(x) <= Round(c)
        /\ \A x \in ToSet(q) : \A p \in edges[x] :
             (p \in s.dag /\ Round(p) # lc[Origin(p)] /\ Round(p) + GcDepth >= L) => p \in ToSet(q)
    <2>1. Round(c) + GcDepth >= L
      BY <1>3
    <2> HIDE DEF s
    <2> QED
      BY <1>3, <2>1, OrderDagFacts DEF s
  <1> HIDE DEF q
  <1>7. /\ u.last_committed_round = Round(c) /\ u.dag \subseteq s.dag
        /\ \A a \in Authorities : lc[a] <= u.last_committed[a]
        /\ \A x \in ToSet(q) : Round(x) <= u.last_committed[Origin(x)]
        /\ \A x \in s.dag : (Round(x) >= u.last_committed[Origin(x)] /\ Round(x) + GcDepth >= Round(c)) => x \in u.dag
        /\ \A x \in u.dag : Round(x) >= u.last_committed[Origin(x)]
        /\ \A a \in Authorities :
             \/ u.last_committed[a] = lc[a]
             \/ \E x \in ToSet(q) : Origin(x) = a /\ Round(x) = u.last_committed[a]
        /\ IsState(u)
    <2> HIDE DEF s
    <2>1. Round(c) >= s.last_committed_round /\ IsState(s)
      BY <1>3 DEF s
    <2> QED
      BY <1>6, <2>1, UpdateFacts
  <1>8. \A a \in Authorities : u.last_committed[a] \in Nat
    <2>1. \A a \in Authorities : u.last_committed[a] \in 0 .. MaxRound
      BY <1>7 DEF IsState
    <2> QED
      BY <2>1, ConsensusAssumption
  <1> HIDE DEF u
  <1>9. ToSet(o) = ToSet(v.output) \cup ToSet(q)
    BY <1>3, <1>6, ToSetConcat
  <1> HIDE DEF old
  \* A recent parent is in the sub-DAG or was output before.
  <1>10. ASSUME NEW x \in ToSet(q), NEW p \in edges[x], Round(p) + GcDepth >= L
         PROVE  p \in old \/ (p \in ToSet(q) /\ Round(p) < Round(x))
    <2>1. x \in s.dag /\ p \in got
      BY <1>4, <1>6
    <2>2. Round(p) < Round(x)
      <3>1. Round(p) + 1 = Round(x)
        BY <1>4, <2>1, DagFacts
      <3> QED
        BY <1>5, <2>1, <3>1
    <2>3. CASE Round(p) <= lc[Origin(p)] /\ p \in old
      BY <2>3
    <2>4. CASE Round(p) > lc[Origin(p)] /\ p \in s.dag
      <3>1. Round(p) # lc[Origin(p)]
        BY <1>3, <1>5, <2>1, <2>4
      <3> QED
        BY <1>6, <1>10, <2>2, <2>4, <3>1
    <2> QED
      BY <1>4, <1>10, <2>1, <2>3, <2>4
  <1>11. ASSUME NEW a \in Authorities PROVE <<u.last_committed[a], a>> \in got
    <2>1. CASE u.last_committed[a] = lc[a]
      BY <1>4, <2>1
    <2>2. CASE \E x \in ToSet(q) : Origin(x) = a /\ Round(x) = u.last_committed[a]
      BY <1>4, <1>5, <1>6, <2>2
    <2> QED
      BY <1>7, <2>1, <2>2
  \* What an author certified between the old and the new last committed round.
  <1>12. ASSUME NEW x \in got, Round(x) + GcDepth >= Round(c), Round(x) <= u.last_committed[Origin(x)]
         PROVE  x \in Genesis \cup ToSet(o)
    <2> DEFINE a == Origin(x)
    <2>1. Round(x) + GcDepth >= L /\ Round(x) \in Nat /\ a \in Authorities
      BY <1>3, <1>5, <1>12
    <2>2. CASE Round(x) <= lc[a]
      <3>1. x \in old
        BY <1>3, <1>4, <2>1, <2>2
      <3> QED
        BY <1>9, <3>1 DEF old
    <2>3. CASE Round(x) > lc[a]
      <3>1. u.last_committed[a] # lc[a]
        BY <1>3, <1>8, <1>12, <2>1, <2>3
      <3>2. PICK y \in ToSet(q) : Origin(y) = a /\ Round(y) = u.last_committed[a]
        BY <1>7, <2>1, <3>1
      <3> DEFINE n == Round(y)
                 Good == {k \in Nat : n - k >= Round(x) => <<n - k, a>> \in ToSet(q)}
      <3>3. n \in Nat /\ y = <<n, a>> /\ y \in got
        BY <1>4, <1>5, <1>6, <3>2
      <3>4. 0 \in Good
        <4>1. n - 0 = n
          BY <3>3
        <4> QED
          BY <3>2, <3>3, <4>1
      <3>5. ASSUME NEW k \in Nat, k \in Good PROVE k + 1 \in Good
        <4> SUFFICES ASSUME n - (k + 1) >= Round(x) PROVE <<n - (k + 1), a>> \in ToSet(q)
          OBVIOUS
        <4> DEFINE z == <<n - k, a>>
                   p == <<n - (k + 1), a>>
        <4>1. n - k >= Round(x) /\ n - k # 0 /\ (n - k) - 1 = n - (k + 1)
          BY <2>1, <3>3
        <4>2. z \in ToSet(q)
          BY <3>5, <4>1
        <4>3. Round(z) = n - k /\ Origin(z) = a /\ Round(p) = n - (k + 1) /\ Origin(p) = a
          BY DEF Round, Origin
        <4> HIDE DEF z, p
        <4>4. z \in s.dag /\ z \in got /\ z \in DOMAIN edges \ Genesis
          BY <1>4, <1>6, <4>1, <4>2, <4>3, DagFacts
        <4>5. p \in edges[z]
          BY <4>1, <4>3, <4>4 DEF Chained, p
        <4>6. p \in got /\ Round(p) > lc[Origin(p)] /\ Round(p) + GcDepth >= L
          <5>1. p \in got
            BY <1>4, <4>4, <4>5
          <5>2. Round(p) \in Nat /\ Round(p) >= Round(x) /\ lc[a] \in Nat /\ GcDepth \in Nat
            BY <1>3, <1>5, <2>1, <4>3, <5>1
          <5>3. Round(p) > lc[a] /\ Round(p) + GcDepth >= L
            BY <1>3, <2>1, <2>3, <5>2
          <5> QED
            BY <4>3, <5>1, <5>3
        <4>7. p \in s.dag /\ Round(p) # lc[Origin(p)]
          <5>1. Round(p) \in Nat /\ lc[Origin(p)] \in Nat
            BY <1>3, <1>5, <4>6
          <5>2. ~ (Round(p) <= lc[Origin(p)])
            BY <4>6, <5>1
          <5> QED
            BY <1>4, <4>6, <5>1, <5>2
        <4> QED
          BY <1>6, <4>2, <4>5, <4>6, <4>7 DEF p
      <3> HIDE DEF Good
      <3>6. \A k \in Nat : k \in Good
        BY <3>4, <3>5, SetInduction
      <3>7. n - Round(x) \in Nat /\ n - (n - Round(x)) = Round(x) /\ Round(x) >= Round(x)
        BY <1>12, <2>1, <3>2, <3>3
      <3>8. <<Round(x), a>> \in ToSet(q)
        BY <3>6, <3>7 DEF Good
      <3> QED
        BY <1>5, <1>9, <3>8
    <2> QED
      BY <1>3, <2>1, <2>2, <2>3
  <1>13. ASSUME NEW x \in got, Round(x) + GcDepth >= Round(c)
         PROVE  \/ Round(x) <= u.last_committed[Origin(x)] /\ x \in Genesis \cup ToSet(o)
                \/ Round(x) > u.last_committed[Origin(x)] /\ x \in u.dag
    <2>1. /\ Round(x) \in Nat /\ u.last_committed[Origin(x)] \in Nat /\ lc[Origin(x)] \in Nat
          /\ lc[Origin(x)] <= u.last_committed[Origin(x)] /\ Round(x) + GcDepth >= L
      BY <1>3, <1>5, <1>7, <1>8, <1>13
    <2>2. CASE Round(x) <= u.last_committed[Origin(x)]
      BY <1>12, <1>13, <2>2
    <2>3. CASE Round(x) > u.last_committed[Origin(x)]
      <3>1. ~ (Round(x) <= lc[Origin(x)]) /\ Round(x) >= u.last_committed[Origin(x)]
        BY <2>1, <2>3
      <3>2. x \in s.dag
        BY <1>4, <2>1, <3>1
      <3> QED
        BY <1>7, <1>13, <2>3, <3>1, <3>2
    <2> QED
      BY <2>1, <2>2, <2>3
  \* What is output comes after its parents.
  <1>14. /\ Len(v.output) \in Nat /\ Len(q) \in Nat /\ Len(o) = Len(v.output) + Len(q)
         /\ \A i \in 1 .. Len(v.output) : o[i] = v.output[i]
         /\ \A i \in 1 .. Len(q) : o[Len(v.output) + i] = q[i]
    BY <1>3, <1>6, ConcatProperties
  <1> HIDE DEF o
  <1>15. ASSUME NEW i \in 1 .. Len(o), NEW p \in edges[o[i]]
         PROVE  \/ p \in Genesis \cup {o[j] : j \in 1 .. i - 1}
                \/ Round(p) + GcDepth < Round(c)
    <2> DEFINE m == Len(v.output)
    <2>0. m \in Nat /\ Len(q) \in Nat /\ Len(o) = m + Len(q) /\ i \in Nat /\ 1 <= i /\ i <= Len(o)
      BY <1>14, <1>15
    <2>1. CASE i <= m
      <3>1. i \in 1 .. m /\ o[i] = v.output[i] /\ \A j \in 1 .. i - 1 : o[j] = v.output[j]
        <4>1. i \in 1 .. m /\ \A j \in 1 .. i - 1 : j \in 1 .. m
          BY <2>0, <2>1
        <4> QED
          BY <1>14, <4>1
      <3>2. CASE p \in Genesis \cup {v.output[j] : j \in 1 .. i - 1}
        BY <3>1, <3>2
      <3>3. CASE Round(p) + GcDepth < L
        <4>1. v.output[i] \in got
          BY <1>3, <1>4, <3>1, ToSetLen
        <4>2. Round(p) \in Nat
          BY <1>4, <1>5, <1>15, <3>1, <4>1
        <4> QED
          BY <1>3, <3>3, <4>2
      <3> QED
        BY <1>4, <1>15, <3>1, <3>2, <3>3
    <2>2. CASE i > m
      <3> DEFINE k == i - m
                 x == q[k]
      <3>1. k \in 1 .. Len(q) /\ o[i] = x /\ x \in ToSet(q) /\ m + k = i
        <4>1. k \in 1 .. Len(q) /\ m + k = i
          BY <2>0, <2>2
        <4>2. o[i] = x
          BY <1>14, <4>1
        <4>3. x \in ToSet(q)
          BY <1>6, <4>1, ToSetLen
        <4> QED
          BY <4>1, <4>2, <4>3
      <3>2. p \in got /\ Round(p) \in Nat
        BY <1>4, <1>5, <1>6, <1>15, <3>1
      <3>3. CASE Round(p) + GcDepth < L
        BY <1>3, <3>2, <3>3
      <3>4. CASE Round(p) + GcDepth >= L
        <4>1. p \in old \/ (p \in ToSet(q) /\ Round(p) < Round(x))
          BY <1>10, <1>15, <3>1, <3>4
        <4>2. CASE p \in Genesis
          BY <4>2
        <4>3. CASE p \in ToSet(v.output)
          <5>1. PICK j \in 1 .. m : p = v.output[j]
            BY <1>3, <4>3, ToSetLen
          <5>2. j \in 1 .. i - 1 /\ o[j] = p
            <6>1. j \in 1 .. i - 1
              BY <2>0, <2>2, <5>1
            <6> QED
              BY <1>14, <5>1, <6>1
          <5> QED
            BY <5>2
        <4>4. CASE p \in ToSet(q) /\ Round(p) < Round(x)
          <5>1. PICK j \in 1 .. Len(q) : p = q[j]
            BY <1>6, <4>4, ToSetLen
          <5>2. j < k
            <6>1. k <= j => Round(x) <= Round(p)
              BY <1>6, <3>1, <5>1 DEF InRoundOrder
            <6>2. Round(x) \in Nat
              BY <1>4, <1>5, <1>6, <3>1
            <6> QED
              BY <2>0, <3>1, <3>2, <4>4, <6>1, <6>2
          <5>3. m + j \in 1 .. i - 1
            BY <2>0, <5>2
          <5>4. o[m + j] = p
            BY <1>14, <5>1
          <5> QED
            BY <5>3, <5>4
        <4> QED
          BY <4>1, <4>2, <4>3, <4>4 DEF old
      <3> QED
        BY <1>3, <3>2, <3>3, <3>4
    <2> QED
      BY <1>14, <2>1, <2>2
  <1> HIDE DEF w
  <1>16. u.dag \cup ToSet(o) \subseteq got
    BY <1>4, <1>6, <1>7, <1>9
  <1> QED
    BY <1>1, <1>2, <1>4, <1>7, <1>11, <1>13, <1>15, <1>16 DEF IsComplete

\* A sequence of leaders of a DAG, all above a round and each above the one before.
IsRising(q, dag, round) ==
    /\ q \in Seq(dag)
    /\ \A i \in 1 .. Len(q) : Round(q[i]) > round
    /\ \A i, j \in 1 .. Len(q) : i < j => Round(q[i]) < Round(q[j])

\* After the first i leaders of a sequence.
IsAfter(w, v, q, i) ==
    /\ IsRun(w)
    /\ w.leaders = v.leaders \o SubSeq(q, 1, i)
    /\ w.state.last_committed_round = IF i = 0 THEN v.state.last_committed_round ELSE Round(q[i])
    /\ w.state.dag \subseteq v.state.dag
    /\ \A x \in v.state.dag : Round(x) > w.state.last_committed_round => x \in w.state.dag
    /\ ToSet(w.output) \subseteq ToSet(v.output) \cup v.state.dag
    /\ Len(v.output) <= Len(w.output)
    /\ \A k \in 0 .. Len(v.output) : IsOnce(v, k) => IsOnce(w, k)
    /\ \E t \in Seq(Certificates) : w.output = v.output \o t

LEMMA AfterNone ==
  ASSUME NEW v, IsRun(v), NEW q, q \in Seq(v.state.dag)
  PROVE  IsAfter(v, v, q, 0)
  <1>1. v.leaders \in Seq(Certificates) /\ v.output \in Seq(Certificates)
    BY DEF IsRun
  <1>2. v.leaders \o SubSeq(q, 1, 0) = v.leaders
    BY <1>1
  <1>3. Len(v.output) <= Len(v.output)
    BY <1>1
  <1>4. v.output = v.output \o <<>> /\ <<>> \in Seq(Certificates)
    BY <1>1, EmptySeq
  <1> QED
    BY <1>2, <1>3, <1>4 DEF IsAfter

\* The next leader is in the DAG and above the last committed round.
LEMMA NextLeader ==
  ASSUME NEW v, IsRun(v), NEW q, IsRising(q, v.state.dag, v.state.last_committed_round),
         NEW i \in Nat, i + 1 <= Len(q), NEW w, IsAfter(w, v, q, i)
  PROVE  q[i + 1] \in w.state.dag /\ Round(q[i + 1]) > w.state.last_committed_round
  <1> DEFINE c == q[i + 1]
  <1>1. /\ w.state.last_committed_round = IF i = 0 THEN v.state.last_committed_round ELSE Round(q[i])
        /\ \A x \in v.state.dag : Round(x) > w.state.last_committed_round => x \in w.state.dag
    BY DEF IsAfter
  <1>2. /\ q \in Seq(v.state.dag) /\ Len(q) \in Nat /\ i + 1 \in 1 .. Len(q) /\ c \in v.state.dag
    BY DEF IsRising
  <1>3. Round(c) > w.state.last_committed_round
    <2>1. CASE i = 0
      BY <1>1, <1>2, <2>1 DEF IsRising
    <2>2. CASE i # 0
      <3>1. i \in 1 .. Len(q) /\ i < i + 1
        BY <1>2, <2>2
      <3>2. c \in Certificates /\ q[i] \in Certificates
        BY <1>2, <3>1 DEF IsRun
      <3> QED
        BY <1>1, <1>2, <2>2, <3>1, <3>2, CertificateFacts DEF IsRising
    <2> QED
      BY <2>1, <2>2
  <1> QED
    BY <1>1, <1>2, <1>3

LEMMA AfterOneMore ==
  ASSUME edges \in Dags, NEW v, IsRun(v), NEW q, IsRising(q, v.state.dag, v.state.last_committed_round),
         NEW i \in Nat, i + 1 <= Len(q), NEW w, IsAfter(w, v, q, i)
  PROVE  IsAfter(commit(w, q[i + 1]), v, q, i + 1)
  <1> DEFINE c == q[i + 1]
             z == commit(w, c)
  <1>1. /\ IsRun(w) /\ w.leaders = v.leaders \o SubSeq(q, 1, i)
        /\ w.state.last_committed_round = IF i = 0 THEN v.state.last_committed_round ELSE Round(q[i])
        /\ w.state.dag \subseteq v.state.dag
        /\ \A x \in v.state.dag : Round(x) > w.state.last_committed_round => x \in w.state.dag
        /\ ToSet(w.output) \subseteq ToSet(v.output) \cup v.state.dag
        /\ Len(v.output) <= Len(w.output)
        /\ \A k \in 0 .. Len(v.output) : IsOnce(v, k) => IsOnce(w, k)
        /\ \E t \in Seq(Certificates) : w.output = v.output \o t
    BY DEF IsAfter
  <1>2. /\ q \in Seq(v.state.dag) /\ Len(q) \in Nat /\ i + 1 \in 1 .. Len(q) /\ c \in v.state.dag
        /\ v.state.dag \subseteq Certificates /\ c \in Certificates
        /\ v.leaders \in Seq(Certificates)
        /\ Len(v.output) \in Nat /\ Len(w.output) \in Nat
    BY <1>1 DEF IsRising, IsRun
  <1>3. Round(c) > w.state.last_committed_round /\ c \in w.state.dag
    BY NextLeader
  <1> HIDE DEF c
  <1>5. /\ IsRun(z) /\ z.leaders = Append(w.leaders, c)
        /\ z.state.last_committed_round = Round(c) /\ z.state.dag \subseteq w.state.dag
        /\ \A x \in w.state.dag : Round(x) > Round(c) => x \in z.state.dag
        /\ ToSet(z.output) \subseteq ToSet(w.output) \cup w.state.dag
        /\ Len(w.output) <= Len(z.output)
        /\ \A k \in 0 .. Len(w.output) : IsOnce(w, k) => IsOnce(z, k)
        /\ \E t \in Seq(Certificates) : z.output = w.output \o t
    BY <1>1, <1>3, CommitFacts
  <1> HIDE DEF z
  <1>6. z.leaders = v.leaders \o SubSeq(q, 1, i + 1)
    <2>1. SubSeq(q, 1, i + 1) = Append(SubSeq(q, 1, i), c)
      BY <1>2 DEF c
    <2>2. SubSeq(q, 1, i) \in Seq(Certificates)
      BY <1>2
    <2> DEFINE t == SubSeq(q, 1, i)
    <2> HIDE DEF t
    <2>3. t \in Seq(Certificates) /\ Joins(w.leaders, v.leaders, t)
      BY <1>1, <2>2 DEF t, Joins
    <2>4. Joins(Append(w.leaders, c), v.leaders, Append(t, c))
      BY <1>2, <2>3, JoinsAppend
    <2> QED
      BY <1>5, <2>1, <2>4 DEF t, Joins
  <1>7. \A x \in v.state.dag : Round(x) > Round(c) => x \in z.state.dag
    <2> SUFFICES ASSUME NEW x \in v.state.dag, Round(x) > Round(c) PROVE x \in z.state.dag
      OBVIOUS
    <2>1. w.state.last_committed_round \in Nat /\ Round(x) \in Nat /\ Round(c) \in Nat
      BY <1>1, <1>2, RunFacts, CertificateFacts
    <2>2. Round(x) > w.state.last_committed_round
      BY <1>3, <2>1
    <2> QED
      BY <1>1, <1>5, <2>2
  <1>8. Len(z.output) \in Nat
    BY <1>5 DEF IsRun
  <1>9. /\ ToSet(z.output) \subseteq ToSet(v.output) \cup v.state.dag
        /\ Len(v.output) <= Len(z.output) /\ z.state.dag \subseteq v.state.dag
    BY <1>1, <1>2, <1>5, <1>8
  <1>10. \A k \in 0 .. Len(v.output) : IsOnce(v, k) => IsOnce(z, k)
    <2>1. \A k \in 0 .. Len(v.output) : k \in 0 .. Len(w.output)
      BY <1>1, <1>2
    <2> QED
      BY <1>1, <1>5, <2>1
  <1>11. i + 1 # 0
    OBVIOUS
  <1>12. \E t \in Seq(Certificates) : z.output = v.output \o t
    <2>1. PICK t \in Seq(Certificates) : w.output = Then(v.output, t)
      BY <1>1 DEF Then
    <2>2. PICK r \in Seq(Certificates) : z.output = Then(w.output, r)
      BY <1>5 DEF Then
    <2>3. v.output \in Seq(Certificates)
      BY DEF IsRun
    <2>4. z.output = Then(v.output, Then(t, r)) /\ Then(t, r) \in Seq(Certificates)
      <3>1. \A a, b, d \in Seq(Certificates) : Then(Then(a, b), d) = Then(a, Then(b, d)) /\ Then(b, d) \in Seq(Certificates)
        BY ThenFacts
      <3>2. Then(Then(v.output, t), r) = Then(v.output, Then(t, r)) /\ Then(t, r) \in Seq(Certificates)
        BY <2>1, <2>2, <2>3, <3>1, Zenon
      <3> QED
        BY <2>1, <2>2, <3>2
    <2> QED
      BY <2>4 DEF Then
  <1> QED
    BY <1>5, <1>6, <1>7, <1>9, <1>10, <1>11, <1>12 DEF IsAfter, c, z

\* The function f lists what commit_all goes through.
IsCommitRun(f, v, q) ==
    /\ f[0] = v
    /\ \A i \in Nat : i + 1 <= Len(q) => f[i + 1] = commit(f[i], q[i + 1])
    /\ \A i \in 0 .. Len(q) : IsAfter(f[i], v, q, i)
    /\ commit_all(v, q) = f[Len(q)]

\* A sequence of leaders is committed in its order.
LEMMA CommitAllSteps ==
  ASSUME edges \in Dags, NEW v, IsRun(v), NEW q, IsRising(q, v.state.dag, v.state.last_committed_round)
  PROVE  \E f : IsCommitRun(f, v, q)
  <1> DEFINE n == Len(q)
             T == {w \in [state : [dag : SUBSET Certificates, last_committed : [Authorities -> 0 .. MaxRound],
                                   last_committed_round : 0 .. MaxRound],
                          output : Seq(Certificates), leaders : Seq(Certificates)] :
                      IsRun(w)}
             Step(w, i) == IF commit(w, q[i]) \in T THEN commit(w, q[i]) ELSE v
             G == [iw \in (1 .. n) \X T |-> Step(iw[2], iw[1])]
             Rec(f) == f = [i \in 0 .. n |-> IF i = 0 THEN v ELSE commit(f[i - 1], q[i])]
             done == CHOOSE f : Rec(f)
  <1>1. n \in Nat /\ q \in Seq(v.state.dag)
    BY DEF IsRising
  <1>2. commit_all(v, q) = done[n]
    BY DEF commit_all
  <1>3. v \in T /\ \A w : IsRun(w) => w \in T
    BY DEF IsRun
  <1> HIDE DEF T
  <1>4. \A i \in 1 .. n : \A w \in T : Step(w, i) \in T
    BY <1>3
  <1> HIDE DEF Step
  <1>5. IsStep(G, 1 .. n, T) /\ \A i \in 1 .. n : \A w \in T : G[<<i, w>>] = Step(w, i)
    BY <1>4 DEF IsStep
  <1> HIDE DEF G, n
  <1>6. PICK f : IsUpward(f, n, T, v, G)
    BY <1>1, <1>3, <1>5, UpwardRecursion
  <1>7. /\ f = [i \in 0 .. n |-> f[i]] /\ f[0] = v
        /\ \A i \in 1 .. n : f[i - 1] \in T /\ f[i] = G[<<i, f[i - 1]>>]
    BY <1>1, <1>6, UpwardValues
  <1>8. ASSUME NEW g, g[0] = v,
               \A i \in Nat : (i + 1 <= n /\ IsAfter(g[i], v, q, i)) => g[i + 1] = commit(g[i], q[i + 1])
        PROVE  \A i \in 0 .. n : IsAfter(g[i], v, q, i)
    <2> DEFINE Good == {i \in Nat : i <= n => IsAfter(g[i], v, q, i)}
    <2>1. 0 \in Good
      BY <1>1, <1>8, AfterNone
    <2>2. ASSUME NEW i \in Nat, i \in Good PROVE i + 1 \in Good
      <3> SUFFICES ASSUME i + 1 <= n PROVE IsAfter(g[i + 1], v, q, i + 1)
        OBVIOUS
      <3>1. IsAfter(g[i], v, q, i)
        BY <1>1, <2>2
      <3>2. IsAfter(commit(g[i], q[i + 1]), v, q, i + 1)
        BY <3>1, AfterOneMore DEF n
      <3> QED
        BY <1>8, <3>1, <3>2
    <2> HIDE DEF Good
    <2>3. \A i \in Nat : i \in Good
      BY <2>1, <2>2, SetInduction
    <2> QED
      BY <1>1, <2>3 DEF Good
  <1>9. ASSUME NEW i \in Nat, i + 1 <= n, IsAfter(f[i], v, q, i) PROVE f[i + 1] = commit(f[i], q[i + 1])
    <2>1. i + 1 \in 1 .. n /\ (i + 1) - 1 = i
      BY <1>1, <1>9
    <2>2. f[i] \in T /\ f[i + 1] = Step(f[i], i + 1)
      BY <1>5, <1>7, <2>1
    <2>3. IsAfter(commit(f[i], q[i + 1]), v, q, i + 1)
      BY <1>9, AfterOneMore DEF n
    <2>4. commit(f[i], q[i + 1]) \in T
      BY <1>3, <2>3 DEF IsAfter
    <2> QED
      BY <2>2, <2>4 DEF Step
  <1>10. \A i \in 0 .. n : IsAfter(f[i], v, q, i)
    BY <1>7, <1>8, <1>9
  <1>11. \A i \in 0 .. n : i = 0 \/ (i # 0 /\ i - 1 \in Nat /\ i - 1 \in 0 .. n /\ (i - 1) + 1 = i /\ i <= n)
    BY <1>1
  <1>12. \A i \in 0 .. n : f[i] = IF i = 0 THEN v ELSE commit(f[i - 1], q[i])
    <2> SUFFICES ASSUME NEW i \in 0 .. n, i # 0 PROVE f[i] = commit(f[i - 1], q[i])
      BY <1>7
    <2>1. i - 1 \in Nat /\ (i - 1) + 1 <= n /\ (i - 1) + 1 = i /\ i - 1 \in 0 .. n
      BY <1>11
    <2>2. f[(i - 1) + 1] = commit(f[i - 1], q[(i - 1) + 1])
      BY <1>9, <1>10, <2>1
    <2> QED
      BY <2>1, <2>2
  <1>13. Rec(f)
    BY <1>7, <1>12
  <1>14. Rec(done)
    BY <1>13
  <1> HIDE DEF done
  <1>15. done[0] = v /\ \A i \in Nat : i + 1 <= n => done[i + 1] = commit(done[i], q[i + 1])
    <2>1. 0 \in 0 .. n
      BY <1>1
    <2>2. \A i \in Nat : i + 1 <= n => i + 1 \in 0 .. n /\ i + 1 # 0 /\ (i + 1) - 1 = i
      BY <1>1
    <2> QED
      BY <1>14, <2>1, <2>2
  <1>16. \A i \in 0 .. n : IsAfter(done[i], v, q, i)
    BY <1>8, <1>15
  <1> QED
    BY <1>2, <1>15, <1>16 DEF n, IsCommitRun

LEMMA CommitAllFacts ==
  ASSUME edges \in Dags, NEW v, IsRun(v), NEW q, IsRising(q, v.state.dag, v.state.last_committed_round)
  PROVE  IsAfter(commit_all(v, q), v, q, Len(q))
  <1>1. PICK f : IsCommitRun(f, v, q)
    BY CommitAllSteps
  <1>2. Len(q) \in 0 .. Len(q)
    BY DEF IsRising
  <1> QED
    BY <1>1, <1>2 DEF IsCommitRun

-----------------------------------------------------------------------------
(* Two replicas output the same sequence for the same leaders.             *)

\* The replica v has received got, and the replica w everything: they output the
\* same certificates and forgot nothing, and w keeps nothing that is too old.
IsTwin(v, w, got) ==
    /\ v.output = w.output
    /\ v.state.last_committed = w.state.last_committed
    /\ v.state.last_committed_round = w.state.last_committed_round
    /\ IsComplete(v, got) /\ IsComplete(w, DOMAIN edges)
    /\ \A x \in w.state.dag : Round(x) + GcDepth >= w.state.last_committed_round

LEMMA TwinFacts ==
  ASSUME edges \in Dags, NEW v, IsRun(v), NEW w, IsRun(w), NEW got, IsTwin(v, w, got)
  PROVE  /\ Shadows(w.state, v.state)
         /\ \A c \in v.state.dag : Round(c) > v.state.last_committed_round => c \in w.state.dag
  <1> DEFINE s == v.state
             t == w.state
             L == s.last_committed_round
             lc == s.last_committed
  <1>1. /\ t.last_committed = lc /\ t.last_committed_round = L
        /\ \A x \in t.dag : Round(x) + GcDepth >= L
        /\ IsComplete(v, got) /\ IsComplete(w, DOMAIN edges)
    BY DEF IsTwin
  <1>2. /\ s.dag \subseteq got /\ got \subseteq DOMAIN edges /\ \A x \in got : edges[x] \subseteq got
        /\ \A x \in s.dag : Round(x) >= lc[Origin(x)]
        /\ \A x \in got : Round(x) + GcDepth >= L =>
             Round(x) <= lc[Origin(x)] \/ (Round(x) > lc[Origin(x)] /\ x \in s.dag)
    BY <1>1 DEF IsComplete
  <1>3. /\ \A x \in t.dag : Round(x) >= lc[Origin(x)]
        /\ \A x \in DOMAIN edges : Round(x) + GcDepth >= L =>
             Round(x) <= lc[Origin(x)] \/ (Round(x) > lc[Origin(x)] /\ x \in t.dag)
    BY <1>1 DEF IsComplete
  <1>4. /\ t.dag \subseteq Certificates /\ L \in Nat /\ GcDepth \in Nat
        /\ \A a \in Authorities : lc[a] \in Nat /\ lc[a] <= L
    BY RunFacts, ConsensusAssumption
  <1>5. \A x \in DOMAIN edges : x \in Certificates /\ Round(x) \in Nat /\ Origin(x) \in Authorities
    BY DagFacts, CertificateFacts
  <1>6. t.dag \subseteq Recent(s)
    BY <1>1, <1>4 DEF Recent
  <1>7. ASSUME NEW x \in s.dag, NEW p \in edges[x], p \in Recent(s), Round(p) # lc[Origin(p)]
        PROVE  p \in s.dag <=> p \in t.dag
    <2>1. p \in got /\ p \in DOMAIN edges /\ Round(p) + GcDepth >= L
      BY <1>2, <1>7 DEF Recent
    <2>2. Round(p) \in Nat /\ lc[Origin(p)] \in Nat
      BY <1>4, <1>5, <2>1
    <2>3. CASE Round(p) < lc[Origin(p)]
      <3>1. ~ (Round(p) >= lc[Origin(p)])
        BY <2>2, <2>3
      <3> QED
        BY <1>2, <1>3, <3>1
    <2>4. CASE Round(p) > lc[Origin(p)]
      <3>1. ~ (Round(p) <= lc[Origin(p)])
        BY <2>2, <2>4
      <3> QED
        BY <1>2, <1>3, <2>1, <3>1
    <2> QED
      BY <1>7, <2>2, <2>3, <2>4
  <1>8. ASSUME NEW c \in s.dag, Round(c) > L PROVE c \in t.dag
    <2>1. c \in DOMAIN edges /\ Round(c) \in Nat /\ lc[Origin(c)] \in Nat /\ lc[Origin(c)] <= L
      BY <1>2, <1>4, <1>5
    <2>2. Round(c) + GcDepth >= L /\ ~ (Round(c) <= lc[Origin(c)])
      BY <1>4, <1>8, <2>1
    <2> QED
      BY <1>3, <2>1, <2>2
  <1> QED
    BY <1>1, <1>6, <1>7, <1>8 DEF Shadows

\* What an update does to the committed rounds does not depend on the DAG.
LEMMA SameUpdate ==
  ASSUME NEW s, NEW t, s.last_committed = t.last_committed, NEW q
  PROVE  /\ update(s, q).last_committed = update(t, q).last_committed
         /\ update(s, q).last_committed_round = update(t, q).last_committed_round
         /\ \A x \in update(t, q).dag : Round(x) + GcDepth >= update(t, q).last_committed_round
  <1> DEFINE last(l) == [a \in Authorities |->
                           Max({l[a]} \cup {Round(c) : c \in {x \in ToSet(q) : Origin(x) = a}})]
             round(l) == Max({last(l)[a] : a \in Authorities})
             u(r) == [dag |-> {x \in r.dag : /\ Round(x) >= last(r.last_committed)[Origin(x)]
                                             /\ Round(x) + GcDepth >= round(r.last_committed)},
                      last_committed |-> last(r.last_committed),
                      last_committed_round |-> round(r.last_committed)]
  <1>1. update(s, q) = u(s) /\ update(t, q) = u(t)
    BY Zenon DEF update
  <1> HIDE DEF last, round
  <1> QED
    BY <1>1

\* Committing one leader.
LEMMA CommitTwin ==
  ASSUME edges \in Dags, Chained, NEW v, IsRun(v), NEW w, IsRun(w), NEW got, IsTwin(v, w, got),
         NEW c \in v.state.dag, Round(c) > v.state.last_committed_round
  PROVE  IsTwin(commit(v, c), commit(w, c), got)
  <1> DEFINE s == v.state
             t == w.state
             q == order_dag(s, c)
             cv == commit(v, c)
             cw == commit(w, c)
  <1>1. /\ v.output = w.output /\ s.last_committed = t.last_committed
        /\ s.last_committed_round = t.last_committed_round
        /\ IsComplete(v, got) /\ IsComplete(w, DOMAIN edges)
    BY DEF IsTwin
  <1>2. Shadows(t, s) /\ c \in t.dag
    BY TwinFacts
  <1>3. s.dag \subseteq DOMAIN edges /\ t.dag \subseteq DOMAIN edges /\ s.last_committed_round \in Nat
    BY RunFacts
  <1>4. order_dag(t, c) = q
    <2> HIDE DEF s, t
    <2> QED
      BY <1>2, <1>3, OrderDagTwin DEF s
  <1>5. IsComplete(cv, got)
    BY <1>1, CommitComplete
  <1>6. IsComplete(cw, DOMAIN edges)
    BY <1>1, <1>2, CommitComplete
  <1> HIDE DEF q
  <1>7. /\ cv.state = update(s, q) /\ cw.state = update(t, q)
        /\ cv.output = v.output \o q /\ cw.output = w.output \o q
    BY <1>4 DEF commit, q
  <1> HIDE DEF cv, cw, s, t
  <1>8. /\ update(s, q).last_committed = update(t, q).last_committed
        /\ update(s, q).last_committed_round = update(t, q).last_committed_round
        /\ \A x \in update(t, q).dag : Round(x) + GcDepth >= update(t, q).last_committed_round
    BY <1>1, SameUpdate
  <1>9. cv.output = cw.output
    BY <1>1, <1>7
  <1>10. /\ cv.state.last_committed = cw.state.last_committed
         /\ cv.state.last_committed_round = cw.state.last_committed_round
         /\ \A x \in cw.state.dag : Round(x) + GcDepth >= cw.state.last_committed_round
    BY <1>7, <1>8
  <1>11. IsTwin(cv, cw, got)
    BY <1>5, <1>6, <1>9, <1>10 DEF IsTwin
  <1> QED
    BY <1>11 DEF cv, cw

\* Committing a sequence of leaders.
LEMMA CommitAllTwin ==
  ASSUME edges \in Dags, Chained, NEW v, IsRun(v), NEW w, IsRun(w), NEW got, IsTwin(v, w, got),
         NEW q, IsRising(q, v.state.dag, v.state.last_committed_round)
  PROVE  /\ IsRising(q, w.state.dag, w.state.last_committed_round)
         /\ IsTwin(commit_all(v, q), commit_all(w, q), got)
  <1> DEFINE n == Len(q)
  <1>1. n \in Nat /\ q \in Seq(v.state.dag)
    BY DEF IsRising
  <1>2. IsRising(q, w.state.dag, w.state.last_committed_round)
    <2>1. \A i \in 1 .. n : q[i] \in w.state.dag
      <3> SUFFICES ASSUME NEW i \in 1 .. n PROVE q[i] \in w.state.dag
        OBVIOUS
      <3>1. q[i] \in v.state.dag /\ Round(q[i]) > v.state.last_committed_round
        BY <1>1 DEF IsRising
      <3> QED
        BY <3>1, TwinFacts
    <2>2. ToSet(q) \subseteq w.state.dag
      <3>1. ToSet(q) = {q[i] : i \in 1 .. Len(q)}
        BY <1>1, ToSetLen
      <3> QED
        BY <2>1, <3>1
    <2>3. q \in Seq(w.state.dag)
      BY <1>1, <2>2, SeqOver
    <2>4. w.state.last_committed_round = v.state.last_committed_round
      BY DEF IsTwin
    <2> QED
      BY <2>3, <2>4 DEF IsRising
  <1>3. PICK f : IsCommitRun(f, v, q)
    BY CommitAllSteps
  <1>4. PICK g : IsCommitRun(g, w, q)
    BY <1>2, CommitAllSteps
  <1> DEFINE Good == {i \in Nat : i <= n => IsTwin(f[i], g[i], got)}
  <1>5. 0 \in Good
    BY <1>3, <1>4 DEF IsCommitRun
  <1>6. ASSUME NEW i \in Nat, i \in Good PROVE i + 1 \in Good
    <2> SUFFICES ASSUME i + 1 <= n PROVE IsTwin(f[i + 1], g[i + 1], got)
      OBVIOUS
    <2>1. i \in 0 .. n /\ i <= n
      BY <1>1
    <2>2. IsTwin(f[i], g[i], got) /\ IsAfter(f[i], v, q, i) /\ IsAfter(g[i], w, q, i)
      BY <1>3, <1>4, <1>6, <2>1 DEF IsCommitRun
    <2>3. f[i + 1] = commit(f[i], q[i + 1]) /\ g[i + 1] = commit(g[i], q[i + 1])
      BY <1>3, <1>4 DEF IsCommitRun
    <2>4. q[i + 1] \in f[i].state.dag /\ Round(q[i + 1]) > f[i].state.last_committed_round
      BY <2>2, NextLeader
    <2>5. IsRun(f[i]) /\ IsRun(g[i])
      BY <2>2 DEF IsAfter
    <2> QED
      BY <2>2, <2>3, <2>4, <2>5, CommitTwin
  <1> HIDE DEF Good
  <1>7. n \in Good
    BY <1>1, <1>5, <1>6, SetInduction
  <1>8. IsTwin(f[n], g[n], got)
    BY <1>1, <1>7 DEF Good
  <1> QED
    BY <1>2, <1>3, <1>4, <1>8 DEF IsCommitRun

\* Leaders may be committed in two parts.
LEMMA CommitAllConcat ==
  ASSUME edges \in Dags, NEW v, IsRun(v), NEW a \in Seq(Certificates), NEW b \in Seq(Certificates),
         IsRising(a \o b, v.state.dag, v.state.last_committed_round)
  PROVE  /\ IsRun(commit_all(v, a))
         /\ IsRising(b, commit_all(v, a).state.dag, commit_all(v, a).state.last_committed_round)
         /\ commit_all(v, a \o b) = commit_all(commit_all(v, a), b)
  <1> DEFINE q == a \o b
             n == Len(a)
             m == Len(b)
             dag == v.state.dag
             L == v.state.last_committed_round
             w == commit_all(v, a)
  <1>1. /\ n \in Nat /\ m \in Nat /\ Len(q) = n + m /\ q \in Seq(dag)
        /\ \A i \in 1 .. n : q[i] = a[i]
        /\ \A i \in 1 .. m : q[n + i] = b[i]
    <2>1. q \in Seq(dag)
      BY DEF IsRising
    <2> QED
      BY <2>1, ConcatProperties
  <1>2. /\ \A i \in 1 .. Len(q) : q[i] \in dag /\ Round(q[i]) > L
        /\ \A i, j \in 1 .. Len(q) : i < j => Round(q[i]) < Round(q[j])
    <2>1. IsRising(q, dag, L)
      OBVIOUS
    <2> HIDE DEF q, dag, L
    <2> QED
      BY <2>1 DEF IsRising
  <1> HIDE DEF q
  <1>3. \A i \in 1 .. n : i \in 1 .. Len(q)
    BY <1>1
  <1>4. \A i \in 1 .. m : n + i \in 1 .. Len(q)
    BY <1>1
  <1>5. IsRising(a, dag, L)
    <2>1. \A i \in 1 .. n : a[i] \in dag
      BY <1>1, <1>2, <1>3
    <2>2. a \in Seq(dag)
      <3>1. ToSet(a) = {a[i] : i \in 1 .. Len(a)}
        BY ToSetLen
      <3> QED
        BY <2>1, <3>1, SeqOver
    <2> QED
      BY <1>1, <1>2, <1>3, <2>2 DEF IsRising
  <1>6. PICK g : IsCommitRun(g, v, a)
    BY <1>5, CommitAllSteps
  <1>7. w = g[n] /\ IsAfter(w, v, a, n) /\ IsRun(w)
    <2>1. n \in 0 .. n
      BY <1>1
    <2> QED
      BY <1>6, <2>1 DEF IsCommitRun, IsAfter
  <1> HIDE DEF w
  <1>8. IsRising(b, w.state.dag, w.state.last_committed_round)
    <2>1. /\ w.state.last_committed_round = IF n = 0 THEN L ELSE Round(a[n])
          /\ \A x \in dag : Round(x) > w.state.last_committed_round => x \in w.state.dag
      BY <1>7 DEF IsAfter
    <2>2. ASSUME NEW i \in 1 .. m
          PROVE  b[i] \in w.state.dag /\ Round(b[i]) > w.state.last_committed_round
      <3>1. b[i] = q[n + i] /\ n + i \in 1 .. Len(q)
        BY <1>1, <1>4
      <3>2. b[i] \in dag /\ Round(b[i]) > L
        BY <1>2, <3>1
      <3>3. n # 0 => Round(b[i]) > Round(a[n])
        <4> SUFFICES ASSUME n # 0 PROVE Round(b[i]) > Round(a[n])
          OBVIOUS
        <4>1. n \in 1 .. n /\ n < n + i /\ n \in 1 .. Len(q)
          BY <1>1
        <4>2. Round(q[n]) < Round(q[n + i]) /\ q[n] = a[n]
          BY <1>1, <1>2, <3>1, <4>1
        <4>3. b[i] \in Certificates /\ a[n] \in Certificates
          BY <4>1
        <4> QED
          BY <3>1, <4>2, <4>3, CertificateFacts
      <3> QED
        BY <2>1, <3>2, <3>3
    <2>3. b \in Seq(w.state.dag)
      <3>1. ToSet(b) = {b[i] : i \in 1 .. Len(b)}
        BY ToSetLen
      <3> QED
        BY <2>2, <3>1, SeqOver
    <2>4. ASSUME NEW i \in 1 .. m, NEW j \in 1 .. m, i < j PROVE Round(b[i]) < Round(b[j])
      <3>1. n + i < n + j
        BY <1>1, <2>4
      <3> QED
        BY <1>1, <1>2, <1>4, <3>1
    <2> QED
      BY <2>2, <2>3, <2>4 DEF IsRising
  <1>9. PICK h : IsCommitRun(h, w, b)
    BY <1>7, <1>8, CommitAllSteps
  <1>10. PICK f : IsCommitRun(f, v, q)
    BY CommitAllSteps DEF q
  <1> DEFINE First == {i \in Nat : i <= n => f[i] = g[i]}
             Second == {i \in Nat : i <= m => f[n + i] = h[i]}
  <1>11. 0 \in First
    BY <1>6, <1>10 DEF IsCommitRun
  <1>12. ASSUME NEW i \in Nat, i \in First PROVE i + 1 \in First
    <2> SUFFICES ASSUME i + 1 <= n PROVE f[i + 1] = g[i + 1]
      OBVIOUS
    <2>1. i <= n /\ i + 1 \in 1 .. n /\ i + 1 <= Len(q)
      BY <1>1
    <2>2. f[i] = g[i] /\ q[i + 1] = a[i + 1]
      BY <1>1, <1>12, <2>1
    <2>3. f[i + 1] = commit(f[i], q[i + 1]) /\ g[i + 1] = commit(g[i], a[i + 1])
      BY <1>6, <1>10, <2>1 DEF IsCommitRun
    <2> QED
      BY <2>2, <2>3
  <1> HIDE DEF First
  <1>13. f[n] = w
    <2>1. n \in First
      <3>1. n \in Nat
        BY <1>1
      <3> QED
        BY <1>11, <1>12, <3>1, SetInduction
    <2>2. n <= n
      BY <1>1
    <2> QED
      BY <1>7, <2>1, <2>2 DEF First
  <1>14. 0 \in Second
    <2>1. n + 0 = n
      BY <1>1
    <2> QED
      BY <1>9, <1>13, <2>1 DEF IsCommitRun
  <1>15. ASSUME NEW i \in Nat, i \in Second PROVE i + 1 \in Second
    <2> SUFFICES ASSUME i + 1 <= m PROVE f[n + (i + 1)] = h[i + 1]
      OBVIOUS
    <2>1. /\ i <= m /\ i + 1 \in 1 .. m /\ n + i \in Nat /\ (n + i) + 1 <= Len(q)
          /\ n + (i + 1) = (n + i) + 1
      BY <1>1
    <2>2. f[n + i] = h[i] /\ q[n + (i + 1)] = b[i + 1]
      BY <1>1, <1>15, <2>1
    <2>3. f[(n + i) + 1] = commit(f[n + i], q[(n + i) + 1]) /\ h[i + 1] = commit(h[i], b[i + 1])
      BY <1>9, <1>10, <2>1 DEF IsCommitRun
    <2> QED
      BY <2>1, <2>2, <2>3
  <1> HIDE DEF Second
  <1>16. f[n + m] = h[m]
    <2>1. m \in Second
      <3>1. m \in Nat
        BY <1>1
      <3> QED
        BY <1>14, <1>15, <3>1, SetInduction
    <2>2. m <= m
      BY <1>1
    <2> QED
      BY <2>1, <2>2 DEF Second
  <1>17. commit_all(v, q) = commit_all(w, b)
    BY <1>1, <1>9, <1>10, <1>16 DEF IsCommitRun
  <1> QED
    BY <1>7, <1>8, <1>17 DEF q, w

-----------------------------------------------------------------------------
(* Paths of the DAG, and the leaders they link.                            *)

\* The function that linked computes: what a certificate reaches in each round.
Reach(dag, from) ==
    CHOOSE f : f = [r \in Nat |->
                      IF r >= Round(from) THEN {from}
                      ELSE {x \in dag : Round(x) = r /\ \E y \in f[r + 1] : x \in edges[y]}]

\* The function that order_leaders computes: the leaders linked to c from a
\* round on.
Chain(dag, c) ==
    CHOOSE f : f = [r \in Nat |->
                      IF r >= Round(c) THEN <<c>>
                      ELSE LET later == f[r + 2]
                           IN  IF leader(r) \in dag /\ linked(dag, Head(later), leader(r))
                               THEN <<leader(r)>> \o later
                               ELSE later]

LEMMA LinkedByReach ==
  ASSUME NEW dag, NEW from, NEW to
  PROVE  linked(dag, from, to) <=> to \in Reach(dag, from)[Round(to)]
  BY DEF linked, Reach

LEMMA LeadersByChain ==
  ASSUME NEW s, NEW c
  PROVE  order_leaders(s, c) = Chain(s.dag, c)[s.last_committed_round + 2]
  BY DEF order_leaders, Chain

LEMMA ReachFacts ==
  ASSUME NEW dag, NEW from \in Certificates
  PROVE  \A r \in Nat :
           /\ r >= Round(from) => Reach(dag, from)[r] = {from}
           /\ r < Round(from) => \A x :
                 x \in Reach(dag, from)[r] <=>
                   x \in dag /\ Round(x) = r /\ \E y \in Reach(dag, from)[r + 1] : x \in edges[y]
  <1> DEFINE Step(r, ys) == {x \in dag : Round(x) = r /\ \E y \in ys : x \in edges[y]}
             Rec(f) == f = [r \in Nat |-> IF r >= Round(from) THEN {from} ELSE Step(r, f[r + 1])]
             T == SUBSET (dag \cup {from})
             G == [ry \in Nat \X T |-> Step(ry[1], ry[2])]
  <1>1. Reach(dag, from) = CHOOSE f : Rec(f)
    BY DEF Reach
  <1>2. {from} \in T /\ \A r, ys : Step(r, ys) \in T
    OBVIOUS
  <1> HIDE DEF Step, T
  <1>3. IsStep(G, Nat, T) /\ \A r \in Nat : \A ys \in T : G[<<r, ys>>] = Step(r, ys)
    BY <1>2 DEF IsStep
  <1>4. Round(from) \in Nat /\ 1 \in Nat \ {0}
    BY CertificateFacts
  <1> HIDE DEF G
  <1>5. PICK f : IsDownward(f, Round(from), 1, T, {from}, G)
    BY <1>2, <1>3, <1>4, DownwardRecursion
  <1>6. /\ f \in [Nat -> T]
        /\ \A r \in Nat : f[r] = IF r >= Round(from) THEN {from} ELSE G[<<r, f[r + 1]>>]
    BY <1>5 DEF IsDownward
  <1>7. \A r \in Nat : r + 1 \in Nat /\ f[r + 1] \in T
    BY <1>6
  <1>8. Rec(f)
    BY <1>3, <1>6, <1>7
  <1> DEFINE g == CHOOSE h : Rec(h)
  <1>9. Rec(g)
    BY <1>8
  <1> HIDE DEF g
  <1>10. \A r \in Nat : g[r] = IF r >= Round(from) THEN {from} ELSE Step(r, g[r + 1])
    BY <1>9
  <1>11. Reach(dag, from) = g
    BY <1>1 DEF g
  <1> SUFFICES ASSUME NEW r \in Nat
               PROVE  /\ r >= Round(from) => g[r] = {from}
                      /\ r < Round(from) => \A x :
                           x \in g[r] <=> x \in dag /\ Round(x) = r /\ \E y \in g[r + 1] : x \in edges[y]
    BY <1>11
  <1>12. r < Round(from) => ~ (r >= Round(from))
    BY <1>4
  <1>13. r >= Round(from) => g[r] = {from}
    BY <1>10
  <1>14. ASSUME r < Round(from), NEW x
         PROVE  x \in g[r] <=> x \in dag /\ Round(x) = r /\ \E y \in g[r + 1] : x \in edges[y]
    <2>1. g[r] = Step(r, g[r + 1])
      BY <1>10, <1>12, <1>14
    <2> QED
      BY <2>1 DEF Step
  <1> QED
    BY <1>13, <1>14

LEMMA ChainStep ==
  ASSUME NEW dag, NEW c \in Certificates, c \in dag
  PROVE  \A r \in Nat :
           Chain(dag, c)[r] =
             IF r >= Round(c) THEN <<c>>
             ELSE IF leader(r) \in dag /\ linked(dag, Head(Chain(dag, c)[r + 2]), leader(r))
                  THEN <<leader(r)>> \o Chain(dag, c)[r + 2]
                  ELSE Chain(dag, c)[r + 2]
  <1> DEFINE Step(r, later) == IF leader(r) \in dag /\ linked(dag, Head(later), leader(r))
                               THEN <<leader(r)>> \o later
                               ELSE later
             Rec(f) == f = [r \in Nat |-> IF r >= Round(c) THEN <<c>> ELSE Step(r, f[r + 2])]
             T == Seq(dag)
             G == [rl \in Nat \X T |-> Step(rl[1], rl[2])]
  <1>1. Chain(dag, c) = CHOOSE f : Rec(f)
    BY DEF Chain
  <1>2. <<c>> \in T /\ \A r : \A later \in T : Step(r, later) \in T
    <2>1. \A r : leader(r) \in dag => <<leader(r)>> \in Seq(dag)
      BY SingletonFacts
    <2> QED
      BY <2>1, ConcatProperties
  <1> HIDE DEF Step, T
  <1>3. IsStep(G, Nat, T) /\ \A r \in Nat : \A later \in T : G[<<r, later>>] = Step(r, later)
    BY <1>2 DEF IsStep
  <1>4. Round(c) \in Nat /\ 2 \in Nat \ {0}
    BY CertificateFacts
  <1> HIDE DEF G
  <1>5. PICK f : IsDownward(f, Round(c), 2, T, <<c>>, G)
    BY <1>2, <1>3, <1>4, DownwardRecursion
  <1>6. /\ f \in [Nat -> T]
        /\ \A r \in Nat : f[r] = IF r >= Round(c) THEN <<c>> ELSE G[<<r, f[r + 2]>>]
    BY <1>5 DEF IsDownward
  <1>7. \A r \in Nat : r + 2 \in Nat /\ f[r + 2] \in T
    BY <1>6
  <1>8. Rec(f)
    BY <1>3, <1>6, <1>7
  <1> DEFINE g == CHOOSE h : Rec(h)
  <1>9. Rec(g)
    BY <1>8
  <1> HIDE DEF g
  <1>10. \A r \in Nat : g[r] = IF r >= Round(c) THEN <<c>> ELSE Step(r, g[r + 2])
    BY <1>9
  <1> QED
    BY <1>1, <1>10 DEF g, Step

LEMMA RisingFacts ==
  ASSUME NEW dag \in SUBSET Certificates, NEW r \in Int, NEW q, IsRising(q, dag, r)
  PROVE  /\ \A b \in Int : b <= r => IsRising(q, dag, b)
         /\ \A x \in dag : Round(x) = r => IsRising(<<x>> \o q, dag, r - 1)
  <1>1. q \in Seq(dag) /\ Len(q) \in Nat /\ \A i \in 1 .. Len(q) : q[i] \in dag /\ Round(q[i]) \in Nat
    BY CertificateFacts DEF IsRising
  <1>2. ASSUME NEW b \in Int, b <= r PROVE IsRising(q, dag, b)
    BY <1>1, <1>2 DEF IsRising
  <1>3. ASSUME NEW x \in dag, Round(x) = r PROVE IsRising(<<x>> \o q, dag, r - 1)
    <2> DEFINE t == <<x>> \o q
    <2>1. /\ t \in Seq(dag) /\ Len(t) = Len(q) + 1 /\ t[1] = x
          /\ \A i \in 1 .. Len(q) : t[i + 1] = q[i]
      BY <1>1, ConsFacts
    <2> HIDE DEF t
    <2>2. \A i \in 1 .. Len(t) : i = 1 \/ (i - 1 \in 1 .. Len(q) /\ t[i] = q[i - 1])
      <3> SUFFICES ASSUME NEW i \in 1 .. Len(t), i # 1
                   PROVE  i - 1 \in 1 .. Len(q) /\ t[i] = q[i - 1]
        OBVIOUS
      <3>1. i - 1 \in 1 .. Len(q) /\ (i - 1) + 1 = i
        BY <1>1, <2>1
      <3> QED
        BY <2>1, <3>1
    <2>3. ASSUME NEW i \in 1 .. Len(t) PROVE Round(t[i]) > r - 1
      <3>1. CASE i = 1
        BY <1>3, <2>1, <3>1
      <3>2. CASE i - 1 \in 1 .. Len(q) /\ t[i] = q[i - 1]
        <4>1. Round(q[i - 1]) > r /\ Round(q[i - 1]) \in Nat
          BY <1>1, <3>2 DEF IsRising
        <4> QED
          BY <3>2, <4>1
      <3> QED
        BY <2>2, <3>1, <3>2
    <2>4. ASSUME NEW i \in 1 .. Len(t), NEW j \in 1 .. Len(t), i < j PROVE Round(t[i]) < Round(t[j])
      <3>1. j # 1 /\ j - 1 \in 1 .. Len(q) /\ t[j] = q[j - 1]
        BY <2>2, <2>4
      <3>2. CASE i = 1
        BY <1>1, <1>3, <2>1, <3>1, <3>2 DEF IsRising
      <3>3. CASE i # 1
        <4>1. i - 1 \in 1 .. Len(q) /\ t[i] = q[i - 1] /\ i - 1 < j - 1
          BY <2>2, <2>4, <3>3
        <4> QED
          BY <3>1, <4>1 DEF IsRising
      <3> QED
        BY <3>2, <3>3
    <2> QED
      BY <2>1, <2>3, <2>4 DEF IsRising, t
  <1> QED
    BY <1>2, <1>3

\* The leaders of a chain are in the DAG, each above the one before, and c is
\* the last.
LEMMA ChainFacts ==
  ASSUME NEW dag \in SUBSET Certificates, NEW c \in dag
  PROVE  \A r \in Nat : r < Round(c) + 2 =>
           /\ IsRising(Chain(dag, c)[r], dag, r - 2)
           /\ r <= Round(c) => IsRising(Chain(dag, c)[r], dag, r - 1)
           /\ Chain(dag, c)[r] # <<>> /\ Chain(dag, c)[r][Len(Chain(dag, c)[r])] = c
  <1> DEFINE f == Chain(dag, c)
             P(r) == /\ IsRising(f[r], dag, r - 2)
                     /\ r <= Round(c) => IsRising(f[r], dag, r - 1)
                     /\ f[r] # <<>> /\ f[r][Len(f[r])] = c
             Good == {k \in Nat : \A r \in Nat : (r + k >= Round(c) /\ r < Round(c) + 2) => P(r)}
  <1>1. \A r \in Nat : f[r] = IF r >= Round(c) THEN <<c>>
                              ELSE IF leader(r) \in dag /\ linked(dag, Head(f[r + 2]), leader(r))
                                   THEN <<leader(r)>> \o f[r + 2]
                                   ELSE f[r + 2]
    BY ChainStep
  <1>2. Round(c) \in Nat
    BY CertificateFacts
  <1> HIDE DEF f
  <1>3. ASSUME NEW r \in Nat, r >= Round(c), r < Round(c) + 2 PROVE P(r)
    <2>1. f[r] = <<c>>
      BY <1>1, <1>3
    <2>2. <<c>> \in Seq(dag) /\ Len(<<c>>) = 1 /\ <<c>>[1] = c /\ <<c>> # <<>> /\ 1 .. 1 = {1}
      OBVIOUS
    <2>3. Round(c) > r - 2 /\ (r <= Round(c) => Round(c) > r - 1)
      BY <1>2, <1>3
    <2> DEFINE t == <<c>>
    <2> HIDE DEF t
    <2>4. IsRising(t, dag, r - 2) /\ (r <= Round(c) => IsRising(t, dag, r - 1))
      BY <2>2, <2>3 DEF IsRising, t
    <2> QED
      BY <2>1, <2>2, <2>4 DEF t
  <1>4. 0 \in Good
    BY <1>3
  <1>5. ASSUME NEW k \in Nat, k \in Good PROVE k + 1 \in Good
    <2> SUFFICES ASSUME NEW r \in Nat, r + (k + 1) >= Round(c), r < Round(c) + 2 PROVE P(r)
      OBVIOUS
    <2>1. CASE r >= Round(c)
      BY <1>3, <2>1
    <2>2. CASE r < Round(c)
      <3>1. /\ r + 2 \in Nat /\ (r + 2) + k >= Round(c) /\ r + 2 < Round(c) + 2 /\ (r + 2) - 2 = r
            /\ r - 2 \in Int /\ r - 2 <= r /\ ~ (r >= Round(c)) /\ r \in Int
            /\ r - 1 \in Int /\ r - 1 <= r /\ r - 2 <= r - 1
        BY <1>2, <2>2
      <3> DEFINE later == f[r + 2]
      <3>2. IsRising(later, dag, r) /\ later # <<>> /\ later[Len(later)] = c
        BY <1>5, <3>1
      <3> HIDE DEF later
      <3>3. later \in Seq(dag) /\ Len(later) \in Nat /\ Len(later) \in 1 .. Len(later)
        BY <3>2 DEF IsRising
      <3>4. CASE f[r] = later
        BY <3>1, <3>2, <3>4, RisingFacts
      <3>5. CASE f[r] = <<leader(r)>> \o later /\ leader(r) \in dag
        <4>1. Round(leader(r)) = r
          BY DEF leader, Round
        <4> DEFINE t == <<leader(r)>> \o later
        <4>2. /\ t # <<>> /\ Len(t) = Len(later) + 1 /\ t[Len(later) + 1] = later[Len(later)]
          BY <3>3, <3>5, ConsFacts
        <4>3. IsRising(t, dag, r - 1)
          BY <3>1, <3>2, <3>5, <4>1, RisingFacts
        <4>4. IsRising(t, dag, r - 2)
          BY <3>1, <4>3, RisingFacts
        <4> QED
          BY <3>2, <3>5, <4>2, <4>3, <4>4
      <3> QED
        BY <1>1, <3>1, <3>4, <3>5 DEF later
    <2> QED
      BY <1>2, <2>1, <2>2
  <1> HIDE DEF Good
  <1>6. \A k \in Nat : k \in Good
    BY <1>4, <1>5, SetInduction
  <1>7. ASSUME NEW r \in Nat, r < Round(c) + 2 PROVE P(r)
    <2>1. r + Round(c) >= Round(c)
      BY <1>2
    <2> QED
      BY <1>2, <1>6, <1>7, <2>1 DEF Good
  <1> QED
    BY <1>7 DEF f

LEMMA QuorumNotEmpty ==
  ASSUME NEW S \in SUBSET Authorities, IsQuorum(S)
  PROVE  S # {}
  <1>1. 0 < quorum_threshold
    BY ThresholdFacts
  <1>2. ~ (Weight({}) >= quorum_threshold)
    BY <1>1, WeightOfNone, ThresholdFacts
  <1> QED
    BY <1>2 DEF IsQuorum

LEMMA ParentsFacts ==
  ASSUME edges \in Dags, NEW y \in DOMAIN edges, Round(y) # 0
  PROVE  /\ IsQuorum({Origin(p) : p \in edges[y]}) /\ edges[y] # {}
         /\ {Origin(p) : p \in edges[y]} \in SUBSET Authorities
         /\ \A p \in edges[y] : p \in DOMAIN edges /\ Round(p) = Round(y) - 1
  <1>1. /\ y \in Certificates /\ Round(y) \in Nat /\ IsQuorum({Origin(p) : p \in edges[y]})
        /\ \A p \in edges[y] : p \in DOMAIN edges /\ p \in Certificates /\ Round(p) + 1 = Round(y)
    BY DagFacts, CertificateFacts
  <1>2. \A p \in edges[y] : Origin(p) \in Authorities /\ Round(p) \in Nat
    BY <1>1, CertificateFacts
  <1>3. {Origin(p) : p \in edges[y]} \in SUBSET Authorities
    BY <1>2
  <1>4. {Origin(p) : p \in edges[y]} # {}
    BY <1>1, <1>3, QuorumNotEmpty
  <1> QED
    BY <1>1, <1>2, <1>3, <1>4

\* What is reached in a round is of that round.
LEMMA ReachIn ==
  ASSUME NEW dag, NEW from \in Certificates, NEW r \in Nat, r <= Round(from),
         NEW y \in Reach(dag, from)[r]
  PROVE  Round(y) = r /\ (y \in dag \/ y = from) /\ (r < Round(from) => y \in dag)
  <1>1. Round(from) \in Nat
    BY CertificateFacts
  <1>2. CASE r < Round(from)
    BY <1>2, ReachFacts
  <1>3. CASE r = Round(from)
    <2>1. r >= Round(from) /\ ~ (r < Round(from))
      BY <1>1, <1>3
    <2> QED
      BY <1>3, <2>1, ReachFacts
  <1> QED
    BY <1>1, <1>2, <1>3

(* The argument of Tusk: a leader with the support of f+1 authorities is
   reached by every certificate from two rounds above it on, as the parents of
   a certificate are a quorum and a quorum meets the supporters ("Check if the
   leader has f+1 support from its children", consensus/src/lib.rs:166). *)
THEOREM SupportedIsReached ==
  ASSUME edges \in Dags, NEW l \in DOMAIN edges, IsValidity(Supporters(DOMAIN edges, l)),
         NEW c \in DOMAIN edges, Round(c) >= Round(l) + 2
  PROVE  linked(DOMAIN edges, c, l)
  <1> DEFINE E == DOMAIN edges
             R == Reach(E, c)
             n == Round(c)
             m == Round(l)
             Good == {k \in Nat : n - k >= m + 1 => R[n - k] # {}}
  <1>1. /\ c \in Certificates /\ l \in Certificates /\ n \in Nat /\ m \in Nat
    BY DagFacts, CertificateFacts
  <1>2. \A r \in Nat :
           /\ r >= n => R[r] = {c}
           /\ r < n => \A x :
                x \in R[r] <=> x \in E /\ Round(x) = r /\ \E y \in R[r + 1] : x \in edges[y]
    BY <1>1, ReachFacts
  <1>3. \A r \in Nat : r <= n => \A y \in R[r] : y \in E /\ Round(y) = r
    BY <1>1, ReachIn
  <1> HIDE DEF R, n, m
  <1>4. ASSUME NEW r \in Nat, r < n, NEW y \in R[r + 1]
        PROVE  /\ edges[y] \subseteq R[r] /\ edges[y] # {}
               /\ IsQuorum({Origin(p) : p \in edges[y]})
               /\ {Origin(p) : p \in edges[y]} \in SUBSET Authorities
               /\ \A p \in edges[y] : p \in E /\ Round(p) = r
    <2>1. y \in E /\ Round(y) = r + 1 /\ r + 1 # 0 /\ (r + 1) - 1 = r
      BY <1>1, <1>3, <1>4
    <2>2. /\ IsQuorum({Origin(p) : p \in edges[y]}) /\ edges[y] # {}
          /\ {Origin(p) : p \in edges[y]} \in SUBSET Authorities
          /\ \A p \in edges[y] : p \in E /\ Round(p) = r
      BY <2>1, ParentsFacts
    <2>3. edges[y] \subseteq R[r]
      BY <1>2, <1>4, <2>2
    <2> QED
      BY <2>2, <2>3
  <1>5. 0 \in Good
    <2>1. n - 0 = n /\ n >= n
      BY <1>1
    <2>2. R[n] = {c}
      BY <1>1, <1>2, <2>1
    <2> QED
      BY <2>1, <2>2
  <1>6. ASSUME NEW k \in Nat, k \in Good PROVE k + 1 \in Good
    <2> SUFFICES ASSUME n - (k + 1) >= m + 1 PROVE R[n - (k + 1)] # {}
      OBVIOUS
    <2> DEFINE r == n - (k + 1)
    <2>1. r \in Nat /\ r < n /\ r + 1 = n - k /\ n - k >= m + 1
      BY <1>1
    <2>2. PICK y \in R[r + 1] : TRUE
      BY <1>6, <2>1
    <2> HIDE DEF r
    <2>3. edges[y] \subseteq R[r] /\ edges[y] # {}
      BY <1>4, <2>1, <2>2
    <2> QED
      BY <2>3 DEF r
  <1>7. \A k \in Nat : k \in Good
    <2> HIDE DEF Good
    <2> QED
      BY <1>5, <1>6, SetInduction
  <1>8. R[m + 2] # {}
    <2>1. n - (m + 2) \in Nat /\ n - (n - (m + 2)) = m + 2 /\ m + 2 >= m + 1
      BY <1>1 DEF n, m
    <2> QED
      BY <1>7, <2>1
  <1>9. PICK y \in R[m + 2] : TRUE
    BY <1>8
  <1>10. m + 1 \in Nat /\ m + 1 < n /\ (m + 1) + 1 = m + 2
    BY <1>1 DEF n, m
  <1>11. /\ edges[y] \subseteq R[m + 1] /\ IsQuorum({Origin(p) : p \in edges[y]})
         /\ {Origin(p) : p \in edges[y]} \in SUBSET Authorities
         /\ \A p \in edges[y] : p \in E /\ Round(p) = m + 1
    BY <1>4, <1>9, <1>10
  <1>12. \A x \in E : x \in Certificates /\ Origin(x) \in Authorities /\ x = <<Round(x), Origin(x)>>
    BY DagFacts, CertificateFacts
  <1>13. Supporters(E, l) \in SUBSET Authorities
    BY <1>12 DEF Supporters
  <1>14. {Origin(p) : p \in edges[y]} \cap Supporters(E, l) # {}
    BY <1>11, <1>13, QuorumMeetsValidity
  <1>15. PICK p \in edges[y] : Origin(p) \in Supporters(E, l)
    BY <1>14
  <1>16. PICK z \in E : Round(z) = m + 1 /\ l \in edges[z] /\ Origin(z) = Origin(p)
    BY <1>15 DEF Supporters, m
  <1>17. p = z
    BY <1>11, <1>12, <1>16
  <1>18. l \in R[m]
    <2>1. m < n
      BY <1>1, <1>10
    <2> QED
      BY <1>1, <1>2, <1>11, <1>16, <1>17, <2>1 DEF m
  <1> QED
    BY <1>18, LinkedByReach DEF R, m

-----------------------------------------------------------------------------
(* A replica that has the whole history above a round computes the same    *)
(* paths and the same leaders as from the complete DAG.                    *)

\* What was received comes with its history, and the part of it that is above a
\* round is in the DAG.
HasHistory(dag, got, round) ==
    /\ got \subseteq DOMAIN edges
    /\ \A x \in got : edges[x] \subseteq got
    /\ dag \subseteq got
    /\ \A x \in got : Round(x) > round => x \in dag

LEMMA SameReach ==
  ASSUME edges \in Dags, NEW dag, NEW got, NEW round \in Nat, HasHistory(dag, got, round),
         NEW from \in got
  PROVE  \A r \in Nat : (round < r /\ r <= Round(from)) =>
           /\ Reach(dag, from)[r] = Reach(DOMAIN edges, from)[r]
           /\ Reach(DOMAIN edges, from)[r] \subseteq got
  <1> DEFINE E == DOMAIN edges
             A == Reach(dag, from)
             B == Reach(E, from)
             n == Round(from)
             P(r) == A[r] = B[r] /\ B[r] \subseteq got
             Good == {k \in Nat : \A r \in Nat : (r + k = n /\ round < r) => P(r)}
  <1>1. from \in Certificates /\ n \in Nat
    BY DagFacts, CertificateFacts DEF HasHistory
  <1>2. \A r \in Nat :
           /\ r >= n => A[r] = {from}
           /\ r < n => \A x :
                x \in A[r] <=> x \in dag /\ Round(x) = r /\ \E y \in A[r + 1] : x \in edges[y]
    BY <1>1, ReachFacts
  <1>3. \A r \in Nat :
           /\ r >= n => B[r] = {from}
           /\ r < n => \A x :
                x \in B[r] <=> x \in E /\ Round(x) = r /\ \E y \in B[r + 1] : x \in edges[y]
    BY <1>1, ReachFacts
  <1> HIDE DEF A, B, n
  <1>4. 0 \in Good
    <2> SUFFICES ASSUME NEW r \in Nat, r + 0 = n PROVE P(r)
      OBVIOUS
    <2>1. r >= n
      BY <1>1
    <2>2. A[r] = {from} /\ B[r] = {from}
      BY <1>2, <1>3, <2>1
    <2> QED
      BY <2>2
  <1>5. ASSUME NEW k \in Nat, k \in Good PROVE k + 1 \in Good
    <2> SUFFICES ASSUME NEW r \in Nat, r + (k + 1) = n, round < r PROVE P(r)
      OBVIOUS
    <2>1. r + 1 \in Nat /\ (r + 1) + k = n /\ round < r + 1 /\ r < n
      BY <1>1
    <2>2. P(r + 1)
      BY <1>5, <2>1
    <2>3. ASSUME NEW x \in B[r] PROVE x \in A[r] /\ x \in got
      <3>1. PICK y \in B[r + 1] : x \in edges[y]
        BY <1>3, <2>1
      <3>2. x \in E /\ Round(x) = r
        BY <1>3, <2>1
      <3>3. x \in got
        BY <2>2, <3>1 DEF HasHistory
      <3>4. x \in dag
        BY <3>2, <3>3 DEF HasHistory
      <3> QED
        BY <1>2, <2>1, <2>2, <3>1, <3>2, <3>3, <3>4
    <2>4. ASSUME NEW x \in A[r] PROVE x \in B[r]
      <3>1. x \in dag /\ Round(x) = r /\ \E y \in A[r + 1] : x \in edges[y]
        BY <1>2, <2>1
      <3>2. x \in E
        BY <3>1 DEF HasHistory
      <3> QED
        BY <1>3, <2>1, <2>2, <3>1, <3>2
    <2> QED
      BY <2>3, <2>4
  <1>6. \A k \in Nat : k \in Good
    <2> HIDE DEF Good
    <2> QED
      BY <1>4, <1>5, SetInduction
  <1>7. ASSUME NEW r \in Nat, round < r, r <= n PROVE P(r)
    <2>1. n - r \in Nat /\ r + (n - r) = n
      BY <1>1, <1>7
    <2> QED
      BY <1>6, <1>7, <2>1
  <1> QED
    BY <1>7 DEF A, B, n

LEMMA SameChain ==
  ASSUME edges \in Dags, NEW dag, NEW got, NEW round \in Nat, HasHistory(dag, got, round),
         NEW c \in dag, Round(c) > round
  PROVE  Chain(dag, c)[round + 2] = Chain(DOMAIN edges, c)[round + 2]
  <1> DEFINE E == DOMAIN edges
             A == Chain(dag, c)
             B == Chain(E, c)
             n == Round(c)
             Good == {k \in Nat : \A r \in Nat : (r + k >= n /\ round < r) => A[r] = B[r]}
  <1>1. /\ c \in Certificates /\ n \in Nat /\ c \in E /\ dag \in SUBSET Certificates /\ dag \subseteq E
    BY DagFacts, CertificateFacts DEF HasHistory
  <1>2. \A r \in Nat : A[r] = IF r >= n THEN <<c>>
                              ELSE IF leader(r) \in dag /\ linked(dag, Head(A[r + 2]), leader(r))
                                   THEN <<leader(r)>> \o A[r + 2]
                                   ELSE A[r + 2]
    BY <1>1, ChainStep
  <1>3. \A r \in Nat : B[r] = IF r >= n THEN <<c>>
                              ELSE IF leader(r) \in E /\ linked(E, Head(B[r + 2]), leader(r))
                                   THEN <<leader(r)>> \o B[r + 2]
                                   ELSE B[r + 2]
    BY <1>1, ChainStep
  <1>4. \A r \in Nat : r < n + 2 => IsRising(A[r], dag, r - 2) /\ A[r] # <<>>
    BY <1>1, ChainFacts
  <1> HIDE DEF A, B, n
  <1>5. 0 \in Good
    <2> SUFFICES ASSUME NEW r \in Nat, r + 0 >= n PROVE A[r] = B[r]
      OBVIOUS
    <2>1. r >= n
      BY <1>1
    <2> QED
      BY <1>2, <1>3, <2>1
  <1>6. ASSUME NEW k \in Nat, k \in Good PROVE k + 1 \in Good
    <2> SUFFICES ASSUME NEW r \in Nat, r + (k + 1) >= n, round < r PROVE A[r] = B[r]
      OBVIOUS
    <2>1. CASE r >= n
      BY <1>2, <1>3, <2>1
    <2>2. CASE ~ (r >= n)
      <3>1. r + 2 \in Nat /\ (r + 2) + k >= n /\ round < r + 2 /\ r + 2 < n + 2 /\ (r + 2) - 2 = r
        BY <1>1, <2>2
      <3>2. A[r + 2] = B[r + 2]
        BY <1>6, <3>1
      <3> DEFINE h == Head(A[r + 2])
      <3>3. h \in dag /\ Round(h) > r
        <4>1. IsRising(A[r + 2], dag, r) /\ A[r + 2] # <<>>
          BY <1>4, <3>1
        <4>2. A[r + 2] \in Seq(dag) /\ 1 \in 1 .. Len(A[r + 2]) /\ h = A[r + 2][1]
          BY <4>1 DEF IsRising
        <4> QED
          BY <4>1, <4>2 DEF IsRising
      <3>4. h \in got /\ h \in Certificates /\ Round(h) \in Nat
        BY <1>1, <3>3, CertificateFacts DEF HasHistory
      <3> HIDE DEF h
      <3>5. r <= Round(h) /\ r < Round(h)
        BY <3>3, <3>4
      <3>6. Reach(dag, h)[r] = Reach(E, h)[r]
        BY <3>4, <3>5, SameReach
      <3>7. Round(leader(r)) = r
        BY DEF leader, Round
      <3>8. linked(dag, h, leader(r)) <=> linked(E, h, leader(r))
        BY <3>6, <3>7, LinkedByReach
      <3>9. linked(dag, h, leader(r)) => leader(r) \in dag
        BY <3>4, <3>5, <3>7, LinkedByReach, ReachIn
      <3>10. leader(r) \in dag /\ linked(dag, h, leader(r)) <=> leader(r) \in E /\ linked(E, h, leader(r))
        BY <1>1, <3>8, <3>9
      <3> QED
        BY <1>2, <1>3, <2>2, <3>2, <3>10 DEF h
    <2> QED
      BY <2>1, <2>2
  <1>7. \A k \in Nat : k \in Good
    <2> HIDE DEF Good
    <2> QED
      BY <1>5, <1>6, SetInduction
  <1>8. A[round + 2] = B[round + 2]
    <2>1. round + 2 \in Nat /\ (round + 2) + n >= n /\ round < round + 2
      BY <1>1
    <2> QED
      BY <1>1, <1>7, <2>1
  <1> QED
    BY <1>8 DEF A, B

\* Leaders committed later stand on those committed before: the chain of a later
\* leader goes through the chain of an earlier one that has support.
LEMMA LaterChain ==
  ASSUME edges \in Dags, NEW m \in DirectLeaders, NEW c \in DOMAIN edges, Round(c) >= Round(m) + 2
  PROVE  Chain(DOMAIN edges, c)[2] =
           Chain(DOMAIN edges, m)[2] \o Chain(DOMAIN edges, c)[Round(m) + 2]
  <1> DEFINE E == DOMAIN edges
             A == Chain(E, m)
             B == Chain(E, c)
             n == Round(m)
             rest == B[n + 2]
             Good == {k \in Nat : \A r \in Nat : r + 2 * k = n => Joins(B[r], A[r], rest)}
  <1>1. /\ m \in Certificates /\ m \in E /\ c \in Certificates /\ n \in Nat /\ Round(c) \in Nat
        /\ E \in SUBSET Certificates /\ m = leader(n) /\ n % 2 = 0 /\ n > 0
        /\ IsValidity(Supporters(E, m))
    BY DagFacts, CertificateFacts DEF DirectLeaders
  <1>2. \A r \in Nat : A[r] = IF r >= n THEN <<m>>
                              ELSE IF leader(r) \in E /\ linked(E, Head(A[r + 2]), leader(r))
                                   THEN <<leader(r)>> \o A[r + 2]
                                   ELSE A[r + 2]
    BY <1>1, ChainStep
  <1>3. \A r \in Nat : B[r] = IF r >= Round(c) THEN <<c>>
                              ELSE IF leader(r) \in E /\ linked(E, Head(B[r + 2]), leader(r))
                                   THEN <<leader(r)>> \o B[r + 2]
                                   ELSE B[r + 2]
    BY <1>1, ChainStep
  <1>4. \A r \in Nat : r < n + 2 => IsRising(A[r], E, r - 2) /\ A[r] # <<>>
    BY <1>1, ChainFacts
  <1>5. \A r \in Nat : r < Round(c) + 2 => (r <= Round(c) => IsRising(B[r], E, r - 1)) /\ B[r] # <<>>
    BY <1>1, ChainFacts
  <1>6. /\ n + 2 \in Nat /\ n + 2 < Round(c) + 2 /\ (n + 2) - 1 = n + 1 /\ ~ (n >= Round(c)) /\ n >= n
        /\ n + 2 <= Round(c)
    BY <1>1
  <1> HIDE DEF A, B, n
  <1>7. IsRising(rest, E, n + 1) /\ rest # <<>>
    BY <1>5, <1>6
  <1>8. rest \in Seq(E) /\ rest \in Seq(Certificates) /\ Head(rest) \in E /\ Round(Head(rest)) >= n + 2
    <2>1. rest \in Seq(E) /\ 1 \in 1 .. Len(rest) /\ Head(rest) = rest[1]
      BY <1>7 DEF IsRising
    <2>2. Head(rest) \in E /\ Round(Head(rest)) > n + 1
      BY <1>7, <2>1 DEF IsRising
    <2>3. Round(Head(rest)) \in Nat
      BY <1>1, <2>2, CertificateFacts
    <2>4. rest \in Seq(Certificates)
      BY <1>1, <2>1, SeqMonotonic
    <2> QED
      BY <1>1, <2>1, <2>2, <2>3, <2>4
  <1>9. linked(E, Head(rest), m)
    <2> HIDE DEF rest
    <2> QED
      BY <1>1, <1>8, SupportedIsReached DEF n
  <1>10. 0 \in Good
    <2> SUFFICES ASSUME NEW r \in Nat, r + 2 * 0 = n PROVE Joins(B[r], A[r], rest)
      OBVIOUS
    <2>1. r = n
      BY <1>1
    <2>2. A[r] = <<m>> /\ B[r] = <<m>> \o rest
      BY <1>1, <1>2, <1>3, <1>6, <1>9, <2>1
    <2> QED
      BY <2>2 DEF Joins
  <1>11. ASSUME NEW k \in Nat, k \in Good PROVE k + 1 \in Good
    <2> SUFFICES ASSUME NEW r \in Nat, r + 2 * (k + 1) = n PROVE Joins(B[r], A[r], rest)
      OBVIOUS
    <2>1. /\ r + 2 \in Nat /\ (r + 2) + 2 * k = n /\ r + 2 < n + 2 /\ ~ (r >= n) /\ ~ (r >= Round(c))
          /\ (r + 2) - 2 = r
      BY <1>1, <1>6
    <2>2. Joins(B[r + 2], A[r + 2], rest)
      BY <1>11, <2>1
    <2>3. A[r + 2] \in Seq(E) /\ A[r + 2] # <<>> /\ A[r + 2] \in Seq(Certificates)
      <3>1. A[r + 2] \in Seq(E) /\ A[r + 2] # <<>>
        BY <1>4, <2>1 DEF IsRising
      <3> QED
        BY <1>1, <3>1, SeqMonotonic
    <2> HIDE DEF rest
    <2>4. Head(B[r + 2]) = Head(A[r + 2])
      BY <1>8, <2>2, <2>3, JoinsHead
    <2>5. leader(r) \in E => leader(r) \in Certificates
      BY <1>1
    <2>6. leader(r) \in E => Joins(<<leader(r)>> \o B[r + 2], <<leader(r)>> \o A[r + 2], rest)
      BY <1>8, <2>2, <2>3, <2>5, JoinsCons
    <2> QED
      BY <1>2, <1>3, <2>1, <2>2, <2>4, <2>6
  <1>12. \A k \in Nat : k \in Good
    <2> HIDE DEF Good
    <2> QED
      BY <1>10, <1>11, SetInduction
  <1>13. PICK k \in Nat : 2 + 2 * k = n
    <2>1. (n \div 2) - 1 \in Nat /\ 2 + 2 * ((n \div 2) - 1) = n
      BY <1>1
    <2> QED
      BY <2>1
  <1>14. Joins(B[2], A[2], rest)
    BY <1>12, <1>13
  <1> QED
    BY <1>14 DEF A, B, n, Joins

-----------------------------------------------------------------------------
(* The invariant.                                                          *)

Current == [state |-> state, output |-> output, leaders |-> leaders]

\* What was received comes with its history; the DAG and the output are made of it.
Received ==
    /\ edges \in Dags
    /\ received \subseteq DOMAIN edges
    /\ \A x \in received : edges[x] \subseteq received
    /\ Genesis \subseteq received
    /\ IsRun(Current)
    /\ state.dag \subseteq received
    /\ ToSet(output) \subseteq received
    /\ since \in 0 .. Len(output)
    /\ alive \in BOOLEAN
    /\ resent \in 0 .. MaxResend
    /\ restarts \in 0 .. MaxRestart

OutputOnce == resent = 0 => IsOnce(Current, since)

\* The leaders committed so far are those that the last of them, which has
\* support, is linked to in the complete DAG.
AreLeaders(ls, round) ==
    \/ ls = <<>> /\ round = 0
    \/ \E m \in DirectLeaders : round = Round(m) /\ ls = Chain(DOMAIN edges, m)[2]

LeadersOfDag ==
    restarts = 0 =>
        /\ alive
        /\ HasHistory(state.dag, received, state.last_committed_round)
        /\ AreLeaders(leaders, state.last_committed_round)

\* A replica that has the complete DAG from the start and commits the leaders ls.
StartRun == [state |-> Start, output |-> <<>>, leaders |-> <<>>]

FromStart(ls) == commit_all(StartRun, ls)

\* The order of delivery does not matter: the replica has output what one with the
\* complete DAG outputs for the same leaders, and neither has forgotten anything.
SameOrder ==
    (Chained /\ resent = 0 /\ restarts = 0) => IsTwin(Current, FromStart(leaders), received)

ConsensusInv == Received /\ OutputOnce /\ LeadersOfDag /\ SameOrder

\* The operators depend on the DAG of the variables only.
LEMMA SameDag ==
  ASSUME edges' = edges
  PROVE  /\ DirectLeaders' = DirectLeaders
         /\ \A m : (Chain(DOMAIN edges, m))' = Chain(DOMAIN edges, m)
         /\ \A s, m : order_leaders(s, m)' = order_leaders(s, m)
         /\ \A ls, round : AreLeaders(ls, round)' = AreLeaders(ls, round)
         /\ \A dag, got, round : HasHistory(dag, got, round)' = HasHistory(dag, got, round)
         /\ \A v : IsRun(v)' = IsRun(v)
         /\ \A v, k : IsOnce(v, k)' = IsOnce(v, k)
         /\ Chained' = Chained
         /\ \A v, w, got : IsTwin(v, w, got)' = IsTwin(v, w, got)
         /\ FromStart(leaders)' = FromStart(leaders')
  <1>1. DirectLeaders' = DirectLeaders
    BY DEF DirectLeaders, Supporters
  <1>2. ASSUME NEW m PROVE (Chain(DOMAIN edges, m))' = Chain(DOMAIN edges, m)
    BY DEF Chain, linked
  <1>3. ASSUME NEW s, NEW m PROVE order_leaders(s, m)' = order_leaders(s, m)
    BY DEF order_leaders, linked
  <1>4. ASSUME NEW ls, NEW round PROVE AreLeaders(ls, round)' = AreLeaders(ls, round)
    BY <1>1, <1>2 DEF AreLeaders
  <1>5. ASSUME NEW dag, NEW got, NEW round PROVE HasHistory(dag, got, round)' = HasHistory(dag, got, round)
    BY DEF HasHistory
  <1>6. ASSUME NEW v PROVE IsRun(v)' = IsRun(v)
    BY DEF IsRun, IsState
  <1>7. ASSUME NEW v, NEW k PROVE IsOnce(v, k)' = IsOnce(v, k)
    BY DEF IsOnce
  <1>8. Chained' = Chained
    BY DEF Chained
  <1>9. ASSUME NEW v, NEW got PROVE IsComplete(v, got)' = IsComplete(v, got)
    BY DEF IsComplete
  <1>10. ASSUME NEW v, NEW w, NEW got PROVE IsTwin(v, w, got)' = IsTwin(v, w, got)
    BY <1>9 DEF IsTwin, IsComplete
  <1>11. FromStart(leaders)' = FromStart(leaders')
    <2>1. StartRun' = StartRun
      BY DEF StartRun, Start
    <2> QED
      BY <2>1 DEF FromStart, commit_all, commit, order_dag, Visit, Unvisited
  <1> QED
    BY <1>1, <1>2, <1>3, <1>4, <1>5, <1>6, <1>7, <1>8, <1>10, <1>11

\* The run that starts from the complete DAG.
LEMMA StartFacts ==
  ASSUME edges \in Dags
  PROVE  /\ IsRun(StartRun) /\ StartRun.output = <<>>
         /\ StartRun.state.dag = DOMAIN edges /\ StartRun.state.last_committed_round = 0
         /\ FromStart(<<>>) = StartRun
         /\ IsTwin([state |-> NewState, output |-> <<>>, leaders |-> <<>>], StartRun, Genesis)
  <1> DEFINE E == DOMAIN edges
             w == StartRun
             v == [state |-> NewState, output |-> <<>>, leaders |-> <<>>]
  <1>1. /\ w.state.dag = E /\ w.state.last_committed_round = 0 /\ w.output = <<>>
        /\ w.state.last_committed = [a \in Authorities |-> 0]
        /\ v.state.dag = Genesis /\ v.state.last_committed_round = 0 /\ v.output = <<>>
        /\ v.state.last_committed = [a \in Authorities |-> 0]
    BY DEF StartRun, Start, NewState
  <1>2. /\ Genesis \subseteq E /\ E \subseteq Certificates /\ \A g \in Genesis : edges[g] = {}
        /\ \A x \in E : edges[x] \subseteq E
    BY DagFacts
  <1>3. 0 \in 0 .. MaxRound /\ 0 <= 0 /\ <<>> \in Seq(Certificates) /\ GcDepth \in Nat
    BY ConsensusAssumption, EmptySeq
  <1>4. IsRun(w)
    BY <1>2, <1>3 DEF IsRun, IsState, StartRun, Start, NewState
  <1>5. FromStart(<<>>) = w
    <2> DEFINE e == <<>>
    <2>1. IsRising(e, w.state.dag, w.state.last_committed_round)
      BY EmptySeq DEF IsRising
    <2>2. Len(e) = 0
      OBVIOUS
    <2> HIDE DEF e
    <2>3. PICK f : IsCommitRun(f, w, e)
      BY <1>4, <2>1, CommitAllSteps
    <2>4. commit_all(w, e) = w
      BY <2>2, <2>3 DEF IsCommitRun
    <2> QED
      BY <2>4 DEF FromStart, e
  <1>6. /\ \A x \in E : Round(x) \in Nat /\ Origin(x) \in Authorities /\ Round(x) >= 0
        /\ \A x \in E : Round(x) + GcDepth >= 0 /\ (Round(x) > 0 \/ (Round(x) <= 0 /\ x \in Genesis))
        /\ \A x \in Genesis : Round(x) = 0
    <2>1. \A x \in E : Round(x) \in Nat /\ Origin(x) \in Authorities /\ (x \in Genesis <=> Round(x) = 0)
      BY DagFacts, CertificateFacts
    <2> QED
      BY <1>2, <1>3, <2>1
  <1>7. \A a \in Authorities : <<0, a>> \in Genesis
    BY DEF Genesis
  <1>8. ToSet(<<>>) = {} /\ 1 .. Len(<<>>) = {}
    BY ToSetEmpty
  <1> HIDE DEF v, w
  <1>9. IsComplete(v, Genesis)
    BY <1>1, <1>2, <1>6, <1>7, <1>8 DEF IsComplete
  <1>10. IsComplete(w, E)
    BY <1>1, <1>2, <1>6, <1>7, <1>8 DEF IsComplete
  <1>11. IsTwin(v, w, Genesis)
    BY <1>1, <1>6, <1>9, <1>10 DEF IsTwin
  <1> QED
    BY <1>1, <1>4, <1>5, <1>11 DEF v, w

\* The leaders committed rise from round 0 on.
LEMMA LeadersRise ==
  ASSUME edges \in Dags, NEW ls, NEW round, AreLeaders(ls, round)
  PROVE  IsRising(ls, DOMAIN edges, 0) /\ ls \in Seq(Certificates)
  <1>1. DOMAIN edges \in SUBSET Certificates
    BY DagFacts
  <1>2. IsRising(ls, DOMAIN edges, 0)
    <2>1. CASE ls = <<>>
      <3>1. ls \in Seq(DOMAIN edges) /\ 1 .. Len(ls) = {}
        BY <2>1, EmptySeq
      <3> QED
        BY <3>1 DEF IsRising
    <2>2. ASSUME NEW m \in DirectLeaders, ls = Chain(DOMAIN edges, m)[2] PROVE IsRising(ls, DOMAIN edges, 0)
      <3>1. m \in DOMAIN edges /\ Round(m) > 0 /\ Round(m) \in Nat
        BY <1>1, CertificateFacts DEF DirectLeaders
      <3>2. 2 \in Nat /\ 2 < Round(m) + 2 /\ 2 - 2 = 0
        BY <3>1
      <3>3. IsRising(Chain(DOMAIN edges, m)[2], DOMAIN edges, 2 - 2)
        BY <1>1, <3>1, <3>2, ChainFacts
      <3> QED
        BY <2>2, <3>2, <3>3
    <2> QED
      BY <2>1, <2>2 DEF AreLeaders
  <1>3. ls \in Seq(Certificates)
    BY <1>1, <1>2, SeqMonotonic DEF IsRising
  <1> QED
    BY <1>2, <1>3

\* Every round below a certificate that was received has one too.
LEMMA EveryRound ==
  ASSUME edges \in Dags, NEW got \in SUBSET DOMAIN edges, \A x \in got : edges[x] \subseteq got,
         NEW c \in got
  PROVE  \A r \in Nat : r <= Round(c) => \E x \in got : Round(x) = r
  <1> DEFINE n == Round(c)
             Good == {k \in Nat : k <= n => \E x \in got : Round(x) = n - k}
  <1>1. n \in Nat
    BY DagFacts, CertificateFacts
  <1>2. 0 \in Good
    BY <1>1
  <1>3. ASSUME NEW k \in Nat, k \in Good PROVE k + 1 \in Good
    <2> SUFFICES ASSUME k + 1 <= n PROVE \E x \in got : Round(x) = n - (k + 1)
      OBVIOUS
    <2>1. PICK y \in got : Round(y) = n - k
      BY <1>1, <1>3
    <2>2. Round(y) # 0 /\ Round(y) - 1 = n - (k + 1)
      BY <1>1, <2>1
    <2>3. edges[y] # {} /\ \A p \in edges[y] : Round(p) = Round(y) - 1
      BY <2>2, ParentsFacts
    <2> QED
      BY <2>2, <2>3
  <1>4. \A k \in Nat : k \in Good
    <2> HIDE DEF Good
    <2> QED
      BY <1>2, <1>3, SetInduction
  <1>5. ASSUME NEW r \in Nat, r <= n PROVE \E x \in got : Round(x) = r
    <2>1. n - r \in Nat /\ n - r <= n /\ n - (n - r) = r
      BY <1>1, <1>5
    <2> QED
      BY <1>4, <2>1
  <1> QED
    BY <1>5

\* So the history the task expects is there.
LEMMA HistoryIsThere ==
  ASSUME edges \in Dags, NEW s, NEW got, s.last_committed_round \in Nat,
         HasHistory(s.dag, got, s.last_committed_round), NEW c \in got
  PROVE  ~ MissesHistory(s, c)
  <1> DEFINE n == Round(c)
             L == s.last_committed_round
  <1>1. n \in Nat
    BY DagFacts, CertificateFacts DEF HasHistory
  <1>2. ASSUME NEW r \in Nat, L < r, r <= n PROVE r \in Rounds(s.dag)
    <2>1. PICK x \in got : Round(x) = r
      BY <1>2, EveryRound DEF HasHistory
    <2>2. x \in s.dag
      BY <1>2, <2>1 DEF HasHistory
    <2> QED
      BY <2>1, <2>2 DEF Rounds
  <1> SUFFICES ASSUME MissesHistory(s, c) PROVE FALSE
    OBVIOUS
  <1>3. n - 3 > L /\ n >= 5
    BY DEF MissesHistory, ElectsLeader
  <1>4. CASE (n - 3) + 1 \notin Rounds(s.dag)
    <2>1. (n - 3) + 1 \in Nat /\ L < (n - 3) + 1 /\ (n - 3) + 1 <= n
      BY <1>1, <1>3
    <2> QED
      BY <1>2, <1>4, <2>1
  <1>5. CASE \E q \in L + 2 .. (n - 3) - 2 : ~ q .. (n - 3) \subseteq Rounds(s.dag)
    <2>1. PICK q \in L + 2 .. (n - 3) - 2 : ~ q .. (n - 3) \subseteq Rounds(s.dag)
      BY <1>5
    <2>2. PICK r \in q .. (n - 3) : r \notin Rounds(s.dag)
      BY <2>1
    <2>3. r \in Nat /\ L < r /\ r <= n
      BY <1>1, <1>3, <2>1, <2>2
    <2> QED
      BY <1>2, <2>2, <2>3
  <1> QED
    BY <1>4, <1>5 DEF MissesHistory

Inserted(c) == [state |-> insert(c), output |-> output, leaders |-> leaders]

\* A certificate that comes after its history is added to the DAG.
LEMMA InsertFacts ==
  ASSUME Received, NEW c \in DOMAIN edges, edges[c] \subseteq received
  PROVE  /\ IsRun(Inserted(c)) /\ insert(c).dag = state.dag \cup {c}
         /\ insert(c).last_committed_round = state.last_committed_round
         /\ state.last_committed_round \in Nat
         /\ (restarts = 0 /\ LeadersOfDag) =>
              HasHistory(insert(c).dag, received \cup {c}, state.last_committed_round)
         /\ (c \notin received /\ IsOnce(Current, since)) => IsOnce(Inserted(c), since)
         /\ \A w : (c \notin received /\ Chained /\ IsTwin(Current, w, received)) =>
              IsTwin(Inserted(c), w, received \cup {c})
  <1> DEFINE s == insert(c)
             v == Inserted(c)
  <1>1. /\ edges \in Dags /\ IsRun(Current) /\ c \in Certificates
        /\ received \subseteq DOMAIN edges /\ ToSet(output) \subseteq received
    BY DagFacts DEF Received
  <1>2. /\ state \in [dag : SUBSET Certificates, last_committed : [Authorities -> 0 .. MaxRound],
                      last_committed_round : 0 .. MaxRound]
        /\ state.dag \subseteq DOMAIN edges
        /\ \A a \in Authorities : state.last_committed[a] <= state.last_committed_round
        /\ output \in Seq(Certificates) /\ leaders \in Seq(Certificates)
    BY <1>1 DEF IsRun, IsState, Current
  <1>3. /\ s.dag = state.dag \cup {c} /\ s.last_committed = state.last_committed
        /\ s.last_committed_round = state.last_committed_round
        /\ s \in [dag : SUBSET Certificates, last_committed : [Authorities -> 0 .. MaxRound],
                  last_committed_round : 0 .. MaxRound]
    BY <1>1, <1>2 DEF insert
  <1>4. v.state = s /\ v.output = output /\ v.leaders = leaders
    BY DEF Inserted
  <1>5. Current.state = state /\ Current.output = output
    BY DEF Current
  <1> HIDE DEF s
  <1>6. IsState(s)
    BY <1>2, <1>3 DEF IsState
  <1>7. IsRun(v)
    BY <1>2, <1>3, <1>4, <1>6 DEF IsRun, Inserted, s
  <1> HIDE DEF v
  <1>8. ASSUME restarts = 0, LeadersOfDag
        PROVE  HasHistory(s.dag, received \cup {c}, state.last_committed_round)
    <2>1. HasHistory(state.dag, received, state.last_committed_round)
      BY <1>8 DEF LeadersOfDag
    <2>2. state.dag \subseteq received
      BY DEF Received
    <2> QED
      BY <1>1, <1>3, <2>1, <2>2 DEF HasHistory
  <1>9. ASSUME c \notin received, IsOnce(Current, since) PROVE IsOnce(v, since)
    <2>1. \A i \in since + 1 .. Len(output) : output[i] # c
      <3>1. since \in Nat /\ Len(output) \in Nat
        BY <1>2 DEF Received
      <3>2. \A i \in since + 1 .. Len(output) : i \in 1 .. Len(output)
        BY <3>1
      <3>3. \A i \in 1 .. Len(output) : output[i] \in ToSet(output)
        BY <1>2, ToSetLen
      <3> QED
        BY <1>1, <1>9, <3>2, <3>3
    <2> QED
      BY <1>3, <1>4, <1>5, <1>9, <2>1 DEF IsOnce
  <1>10. state.last_committed_round \in Nat
    <2>1. state.last_committed_round \in 0 .. MaxRound
      BY <1>2
    <2> QED
      BY <2>1, ConsensusAssumption
  \* A new certificate is above the last committed round of its author.
  <1>11. ASSUME c \notin received, Chained, IsComplete(Current, received)
         PROVE  IsComplete(v, received \cup {c})
    <2> DEFINE a == Origin(c)
               top == <<state.last_committed[a], a>>
    <2>1. /\ Round(c) \in Nat /\ a \in Authorities /\ c = <<Round(c), a>>
          /\ state.last_committed[a] \in Nat
      <3>1. Round(c) \in Nat /\ a \in Authorities /\ c = <<Round(c), a>>
        BY <1>1, CertificateFacts
      <3>2. state.last_committed[a] \in 0 .. MaxRound
        BY <1>2, <3>1
      <3> QED
        BY <3>1, <3>2, ConsensusAssumption
    <2>2. top \in received
      BY <1>5, <1>11, <2>1 DEF IsComplete
    <2>3. Round(c) > state.last_committed[a]
      <3> SUFFICES ASSUME Round(c) <= state.last_committed[a] PROVE FALSE
        BY <2>1
      <3>1. Round(top) = state.last_committed[a] /\ Origin(top) = a
        BY DEF Round, Origin
      <3> HIDE DEF top
      <3>2. \A x \in received : edges[x] \subseteq received
        BY DEF Received
      <3>3. \A r \in Nat : r <= Round(top) => <<r, Origin(top)>> \in received
        BY <1>1, <1>11, <2>2, <3>2, ChainIsReceived
      <3> QED
        BY <1>11, <2>1, <3>1, <3>3
    <2> HIDE DEF top
    <2>4. /\ received \cup {c} \subseteq DOMAIN edges
          /\ \A x \in received \cup {c} : edges[x] \subseteq received \cup {c}
          /\ v.state.dag \cup ToSet(v.output) \subseteq received \cup {c}
          /\ \A b \in Authorities : <<v.state.last_committed[b], b>> \in received \cup {c}
      BY <1>3, <1>4, <1>5, <1>11 DEF IsComplete
    <2>5. \A x \in v.state.dag : Round(x) >= v.state.last_committed[Origin(x)]
      BY <1>3, <1>4, <1>5, <1>11, <2>1, <2>3 DEF IsComplete
    <2>6. \A x \in received \cup {c} : Round(x) + GcDepth >= v.state.last_committed_round =>
            \/ Round(x) <= v.state.last_committed[Origin(x)] /\ x \in Genesis \cup ToSet(v.output)
            \/ Round(x) > v.state.last_committed[Origin(x)] /\ x \in v.state.dag
      BY <1>3, <1>4, <1>5, <1>11, <2>3 DEF IsComplete
    <2>7. \A i \in 1 .. Len(v.output) : \A p \in edges[v.output[i]] :
            \/ p \in Genesis \cup {v.output[j] : j \in 1 .. i - 1}
            \/ Round(p) + GcDepth < v.state.last_committed_round
      BY <1>3, <1>4, <1>5, <1>11 DEF IsComplete
    <2> QED
      BY <2>4, <2>5, <2>6, <2>7 DEF IsComplete
  <1>12. ASSUME c \notin received, Chained, NEW w, IsTwin(Current, w, received)
         PROVE  IsTwin(v, w, received \cup {c})
    BY <1>3, <1>4, <1>5, <1>11, <1>12 DEF IsTwin
  <1> QED
    BY <1>3, <1>7, <1>8, <1>9, <1>10, <1>12 DEF s, v

\* A leader that has support in the DAG of the replica has it in the complete one.
LEMMA TriggersDirectLeader ==
  ASSUME edges \in Dags, NEW s, s.dag \subseteq DOMAIN edges, NEW c \in DOMAIN edges, Triggers(s, c)
  PROVE  /\ leader(Round(c) - 3) \in s.dag /\ leader(Round(c) - 3) \in DirectLeaders
         /\ Round(leader(Round(c) - 3)) = Round(c) - 3
         /\ Round(c) - 3 > s.last_committed_round
  <1> DEFINE r == Round(c) - 3
             l == leader(r)
             E == DOMAIN edges
  <1>1. /\ Round(c) % 2 = 1 /\ Round(c) >= 5 /\ r > s.last_committed_round
        /\ r \in DirectSlots /\ l \in s.dag /\ IsValidity(Supporters(s.dag, l))
    BY DEF Triggers, ElectsLeader
  <1>2. Round(l) = r
    BY DEF leader, Round
  <1>3. Round(c) \in Nat
    BY DagFacts, CertificateFacts
  <1>4. r > 0 /\ r % 2 = 0 /\ r \in Nat
    BY <1>1, <1>3
  <1>5. IsValidity(Supporters(E, l))
    <2>1. Supporters(s.dag, l) \subseteq Supporters(E, l)
      BY DEF Supporters
    <2>2. Supporters(E, l) \in SUBSET Authorities
      <3>1. \A x \in E : Origin(x) \in Authorities
        BY DagFacts, CertificateFacts
      <3> QED
        BY <3>1 DEF Supporters
    <2>3. Weight(Supporters(s.dag, l)) <= Weight(Supporters(E, l))
      BY <2>1, <2>2, WeightMonotone
    <2>4. Supporters(s.dag, l) \in SUBSET Authorities
      BY <2>1, <2>2
    <2>5. Weight(Supporters(s.dag, l)) \in Nat /\ Weight(Supporters(E, l)) \in Nat
      BY <2>2, <2>4, UnitsFinite
    <2> QED
      BY <1>1, <2>3, <2>5, ThresholdFacts DEF IsValidity
  <1> HIDE DEF l
  <1>6. l \in DirectLeaders
    BY <1>1, <1>2, <1>4, <1>5 DEF DirectLeaders, l
  <1> QED
    BY <1>1, <1>2, <1>6 DEF l

\* What committing the leaders that a certificate triggers does.
LEMMA TriggerFacts ==
  ASSUME Received, NEW c \in DOMAIN edges, edges[c] \subseteq received, Triggers(insert(c), c),
         NEW done, done = commit_all(Inserted(c), order_leaders(insert(c), leader(Round(c) - 3)))
  PROVE  /\ IsRun(done)
         /\ done.state.dag \subseteq state.dag \cup {c}
         /\ ToSet(done.output) \subseteq ToSet(output) \cup state.dag \cup {c}
         /\ Len(output) <= Len(done.output)
         /\ IsOnce(Inserted(c), since) => IsOnce(done, since)
         /\ (restarts = 0 /\ LeadersOfDag /\ Chained) =>
              \A got : IsTwin(Inserted(c), FromStart(leaders), got) => IsTwin(done, FromStart(done.leaders), got)
         /\ (restarts = 0 /\ LeadersOfDag) =>
              /\ HasHistory(done.state.dag, received \cup {c}, done.state.last_committed_round)
              /\ AreLeaders(done.leaders, done.state.last_committed_round)
  <1> DEFINE s == insert(c)
             v == Inserted(c)
             l == leader(Round(c) - 3)
             L == state.last_committed_round
             q == order_leaders(s, l)
  <1>1. /\ IsRun(v) /\ s.dag = state.dag \cup {c} /\ s.last_committed_round = L /\ L \in Nat
        /\ (restarts = 0 /\ LeadersOfDag) => HasHistory(s.dag, received \cup {c}, L)
    BY InsertFacts
  <1>2. v.state = s /\ v.output = output /\ v.leaders = leaders
    BY DEF Inserted
  <1>3. /\ edges \in Dags /\ s.dag \subseteq DOMAIN edges /\ s.dag \in SUBSET Certificates
        /\ since \in 0 .. Len(output) /\ leaders \in Seq(Certificates)
    BY <1>1, <1>2 DEF Received, IsRun, IsState
  <1> HIDE DEF s, v
  <1>4. l \in s.dag /\ l \in DirectLeaders /\ Round(l) > L /\ Round(l) \in Nat
    <2>1. Triggers(s, c)
      BY DEF s
    <2>2. l \in s.dag /\ l \in DirectLeaders /\ Round(l) > L
      BY <1>1, <1>3, <2>1, TriggersDirectLeader
    <2> QED
      BY <1>3, <2>2, CertificateFacts
  <1> HIDE DEF l
  <1>5. q = Chain(s.dag, l)[L + 2]
    BY <1>1, LeadersByChain
  <1> HIDE DEF q
  <1>6. IsRising(q, s.dag, L) /\ q # <<>> /\ q[Len(q)] = l
    <2>1. L + 2 \in Nat /\ L + 2 < Round(l) + 2 /\ (L + 2) - 2 = L
      BY <1>1, <1>4
    <2> QED
      BY <1>3, <1>4, <1>5, <2>1, ChainFacts
  <1>7. IsAfter(done, v, q, Len(q))
    <2>1. IsRising(q, v.state.dag, v.state.last_committed_round)
      BY <1>1, <1>2, <1>6
    <2>2. done = commit_all(v, q)
      BY DEF v, q, l, s
    <2> QED
      BY <1>1, <1>3, <2>1, <2>2, CommitAllFacts
  <1>8. q \in Seq(s.dag) /\ Len(q) \in Nat /\ Len(q) # 0 /\ SubSeq(q, 1, Len(q)) = q
    BY <1>6 DEF IsRising
  <1>9. /\ IsRun(done) /\ done.leaders = leaders \o q
        /\ done.state.last_committed_round = Round(l)
        /\ done.state.dag \subseteq s.dag
        /\ \A x \in s.dag : Round(x) > Round(l) => x \in done.state.dag
        /\ ToSet(done.output) \subseteq ToSet(output) \cup s.dag
        /\ Len(output) <= Len(done.output)
        /\ \A k \in 0 .. Len(output) : IsOnce(v, k) => IsOnce(done, k)
    BY <1>2, <1>6, <1>7, <1>8 DEF IsAfter
  <1>10. ASSUME restarts = 0, LeadersOfDag
         PROVE  /\ HasHistory(done.state.dag, received \cup {c}, Round(l))
                /\ AreLeaders(done.leaders, Round(l))
    <2>1. HasHistory(s.dag, received \cup {c}, L)
      BY <1>1, <1>10
    <2>2. HasHistory(done.state.dag, received \cup {c}, Round(l))
      <3>1. ASSUME NEW x \in received \cup {c}, Round(x) > Round(l) PROVE x \in done.state.dag
        <4>1. x \in Certificates
          BY <2>1, <1>3, DagFacts DEF HasHistory
        <4>2. Round(x) > L
          BY <1>1, <1>4, <3>1, <4>1, CertificateFacts
        <4> QED
          BY <1>9, <2>1, <3>1, <4>2 DEF HasHistory
      <3>2. done.state.dag \subseteq received \cup {c}
        BY <1>9, <2>1 DEF HasHistory
      <3>3. /\ received \cup {c} \subseteq DOMAIN edges
            /\ \A x \in received \cup {c} : edges[x] \subseteq received \cup {c}
        BY <2>1 DEF HasHistory
      <3> QED
        BY <3>1, <3>2, <3>3 DEF HasHistory
    <2>3. q = Chain(DOMAIN edges, l)[L + 2]
      BY <1>1, <1>3, <1>4, <1>5, <2>1, SameChain
    <2>4. AreLeaders(leaders, L)
      BY <1>10 DEF LeadersOfDag
    <2>5. CASE leaders = <<>> /\ L = 0
      <3>1. q \in Seq(Certificates)
        BY <1>3, <1>8, SeqMonotonic
      <3>2. done.leaders = q
        BY <1>9, <2>5, <3>1
      <3>3. L + 2 = 2
        BY <2>5
      <3> QED
        BY <1>4, <2>2, <2>3, <3>2, <3>3 DEF AreLeaders
    <2>6. CASE \E m \in DirectLeaders : L = Round(m) /\ leaders = Chain(DOMAIN edges, m)[2]
      <3>1. PICK m \in DirectLeaders : L = Round(m) /\ leaders = Chain(DOMAIN edges, m)[2]
        BY <2>6
      <3>2. Round(l) >= Round(m) + 2 /\ l \in DOMAIN edges
        <4>1. Round(l) % 2 = 0 /\ Round(m) % 2 = 0 /\ l \in DOMAIN edges
          BY <1>4 DEF DirectLeaders
        <4> QED
          BY <1>1, <1>4, <3>1, <4>1
      <3>3. Chain(DOMAIN edges, l)[2] = Chain(DOMAIN edges, m)[2] \o Chain(DOMAIN edges, l)[Round(m) + 2]
        BY <1>3, <3>2, LaterChain
      <3>4. done.leaders = Chain(DOMAIN edges, l)[2]
        BY <1>9, <2>3, <3>1, <3>3
      <3> QED
        BY <1>4, <2>2, <3>4 DEF AreLeaders
    <2> QED
      BY <2>4, <2>5, <2>6 DEF AreLeaders
  \* The replica with the complete DAG commits the same leaders after the same ones.
  <1>11. ASSUME restarts = 0, LeadersOfDag, Chained, NEW got, IsTwin(v, FromStart(leaders), got)
         PROVE  IsTwin(done, FromStart(done.leaders), got)
    <2> DEFINE w == FromStart(leaders)
    <2>1. IsRising(leaders \o q, StartRun.state.dag, StartRun.state.last_committed_round)
      BY <1>3, <1>9, <1>10, <1>11, LeadersRise, StartFacts
    <2>2. q \in Seq(Certificates)
      BY <1>3, <1>8, SeqMonotonic
    <2>3. IsRun(w) /\ FromStart(leaders \o q) = commit_all(w, q)
      BY <1>3, <2>1, <2>2, StartFacts, CommitAllConcat DEF FromStart
    <2> HIDE DEF w
    <2>4. IsTwin(v, w, got)
      BY <1>11 DEF w
    <2>5. IsRising(q, v.state.dag, v.state.last_committed_round) /\ done = commit_all(v, q)
      BY <1>1, <1>2, <1>6 DEF v, q, l, s
    <2>6. IsTwin(commit_all(v, q), commit_all(w, q), got)
      BY <1>1, <1>3, <1>11, <2>3, <2>4, <2>5, CommitAllTwin
    <2> QED
      BY <1>9, <2>3, <2>5, <2>6
  <1> QED
    BY <1>1, <1>3, <1>9, <1>10, <1>11 DEF v

LEMMA NewStateFacts ==
  ASSUME edges \in Dags
  PROVE  /\ NewState.dag = Genesis /\ NewState.last_committed_round = 0
         /\ NewState \in [dag : SUBSET Certificates, last_committed : [Authorities -> 0 .. MaxRound],
                          last_committed_round : 0 .. MaxRound]
         /\ IsState(NewState)
  <1>1. Genesis \subseteq DOMAIN edges /\ DOMAIN edges \subseteq Certificates
    BY DagFacts
  <1>2. 0 \in 0 .. MaxRound
    BY ConsensusAssumption
  <1> QED
    BY <1>1, <1>2 DEF NewState, IsState

LEMMA InvInit == Init => ConsensusInv
  <1> SUFFICES ASSUME Init PROVE ConsensusInv
    OBVIOUS
  <1>1. /\ edges \in Dags /\ received = Genesis /\ resent = 0 /\ state = NewState /\ output = <<>>
        /\ leaders = <<>> /\ alive = TRUE /\ restarts = 0 /\ since = 0
    BY DEF Init
  <1>2. /\ Genesis \subseteq DOMAIN edges /\ \A g \in Genesis : edges[g] = {}
    BY <1>1, DagFacts
  <1>3. IsRun(Current)
    BY <1>1, NewStateFacts, EmptySeq DEF IsRun, Current
  <1>4. Received
    <2>1. ToSet(output) = {} /\ since \in 0 .. Len(output)
      BY <1>1, ToSetEmpty
    <2>2. resent \in 0 .. MaxResend /\ restarts \in 0 .. MaxRestart
      BY <1>1, ConsensusAssumption
    <2>3. state.dag = Genesis
      BY <1>1, NewStateFacts
    <2> QED
      BY <1>1, <1>2, <1>3, <2>1, <2>2, <2>3 DEF Received
  <1>5. OutputOnce
    <2>1. Current.output = <<>>
      BY <1>1 DEF Current
    <2>2. 0 + 1 .. Len(Current.output) = {}
      BY <2>1
    <2> QED
      BY <1>1, <2>2 DEF OutputOnce, IsOnce
  <1>6. LeadersOfDag
    <2>1. state.dag = Genesis /\ state.last_committed_round = 0
      BY <1>1, NewStateFacts
    <2> QED
      BY <1>1, <1>2, <2>1 DEF LeadersOfDag, HasHistory, AreLeaders
  <1>7. SameOrder
    <2>1. Current = [state |-> NewState, output |-> <<>>, leaders |-> <<>>]
      BY <1>1 DEF Current
    <2>2. FromStart(leaders) = FromStart(<<>>)
      BY <1>1
    <2> QED
      BY <1>1, <2>1, <2>2, StartFacts DEF SameOrder
  <1> QED
    BY <1>4, <1>5, <1>6, <1>7 DEF ConsensusInv

\* One turn of the loop, for a certificate that comes after its history.
LEMMA ProcessInv ==
  ASSUME ConsensusInv, NEW c \in DOMAIN edges, edges[c] \subseteq received, Process(c),
         received' = received \cup {c}, UNCHANGED <<edges, restarts, since>>,
         resent' \in 0 .. MaxResend, resent' = 0 => (resent = 0 /\ c \notin received)
  PROVE  ConsensusInv'
  <1>1. Received /\ OutputOnce /\ LeadersOfDag /\ SameOrder
    BY DEF ConsensusInv
  <1>2. /\ edges \in Dags /\ received \subseteq DOMAIN edges /\ Genesis \subseteq received
        /\ \A x \in received : edges[x] \subseteq received
        /\ IsRun(Current) /\ state.dag \subseteq received /\ ToSet(output) \subseteq received
        /\ since \in 0 .. Len(output) /\ alive \in BOOLEAN /\ restarts \in 0 .. MaxRestart
    BY <1>1 DEF Received
  <1>3. /\ IsRun(Inserted(c)) /\ insert(c).dag = state.dag \cup {c}
        /\ insert(c).last_committed_round = state.last_committed_round
        /\ state.last_committed_round \in Nat
        /\ (restarts = 0 /\ LeadersOfDag) =>
             HasHistory(insert(c).dag, received \cup {c}, state.last_committed_round)
        /\ (c \notin received /\ IsOnce(Current, since)) => IsOnce(Inserted(c), since)
        /\ \A w : (c \notin received /\ Chained /\ IsTwin(Current, w, received)) =>
             IsTwin(Inserted(c), w, received \cup {c})
    BY <1>1, InsertFacts
  <1>4. restarts = 0 => ~ MissesHistory(insert(c), c)
    <2> SUFFICES ASSUME restarts = 0 PROVE ~ MissesHistory(insert(c), c)
      OBVIOUS
    <2> DEFINE s == insert(c)
               got == received \cup {c}
    <2>1. s.last_committed_round \in Nat /\ HasHistory(s.dag, got, s.last_committed_round) /\ c \in got
      BY <1>1, <1>3
    <2> HIDE DEF s, got
    <2>2. ~ MissesHistory(s, c)
      BY <1>2, <2>1, HistoryIsThere
    <2> QED
      BY <2>2 DEF s
  <1>5. Len(output) \in Nat
    BY <1>2 DEF IsRun, Current
  \* It suffices that the run after the step has the properties.
  <1>6. ASSUME alive' \in BOOLEAN, IsRun(Current'), state'.dag \subseteq received \cup {c},
               ToSet(output') \subseteq received \cup {c}, Len(output) <= Len(output'),
               resent' = 0 => IsOnce(Current', since),
               (Chained /\ resent' = 0 /\ restarts = 0) =>
                 IsTwin(Current', FromStart(leaders'), received \cup {c}),
               restarts = 0 => /\ alive'
                               /\ HasHistory(state'.dag, received \cup {c}, state'.last_committed_round)
                               /\ AreLeaders(leaders', state'.last_committed_round)
        PROVE  ConsensusInv'
    <2>1. since' \in 0 .. Len(output')
      <3>1. Len(output') \in Nat
        BY <1>6 DEF IsRun, Current
      <3> QED
        BY <1>2, <1>5, <1>6, <3>1
    <2>2. IsRun(Current)'
      <3>1. IsRun(Current') <=> IsRun(Current)'
        BY DEF IsRun, IsState
      <3> QED
        BY <1>6, <3>1
    <2>3. Received'
      BY <1>2, <1>6, <2>1, <2>2 DEF Received
    <2>4. OutputOnce'
      <3>1. IsOnce(Current', since) => IsOnce(Current, since)'
        BY DEF IsOnce
      <3> QED
        BY <1>6, <3>1 DEF OutputOnce
    <2>5. LeadersOfDag'
      <3>1. HasHistory(state'.dag, received \cup {c}, state'.last_committed_round) =>
              HasHistory(state.dag, received, state.last_committed_round)'
        BY DEF HasHistory
      <3>2. AreLeaders(leaders', state'.last_committed_round) =>
              AreLeaders(leaders, state.last_committed_round)'
        BY SameDag DEF AreLeaders
      <3> QED
        BY <1>6, <3>1, <3>2 DEF LeadersOfDag
    <2>6. SameOrder'
      <3>1. Chained' = Chained /\ FromStart(leaders)' = FromStart(leaders')
        BY SameDag
      <3>2. IsTwin(Current', FromStart(leaders'), received \cup {c}) =>
              IsTwin(Current, FromStart(leaders), received)'
        BY <3>1 DEF IsTwin, IsComplete
      <3> QED
        BY <1>6, <3>1, <3>2 DEF SameOrder
    <2> QED
      BY <2>3, <2>4, <2>5, <2>6 DEF ConsensusInv
  <1>7. CASE /\ alive => MissesHistory(insert(c), c)
             /\ alive' = FALSE
             /\ UNCHANGED <<state, output, leaders>>
    <2>1. restarts # 0
      BY <1>1, <1>4, <1>7 DEF LeadersOfDag
    <2>2. Current' = Current
      BY <1>7 DEF Current
    <2>3. resent' = 0 => IsOnce(Current', since)
      BY <1>1, <2>2 DEF OutputOnce
    <2>4. alive' \in BOOLEAN /\ state'.dag \subseteq received \cup {c}
      BY <1>2, <1>7
    <2>5. ToSet(output') \subseteq received \cup {c} /\ Len(output) <= Len(output')
      BY <1>2, <1>5, <1>7
    <2>6. IsRun(Current')
      BY <1>2, <2>2
    <2> QED
      BY <1>6, <2>1, <2>3, <2>4, <2>5, <2>6
  <1>8. CASE /\ alive /\ ~ Triggers(insert(c), c) /\ ~ MissesHistory(insert(c), c)
             /\ state' = insert(c)
             /\ UNCHANGED <<output, leaders, alive>>
    <2>1. Current' = Inserted(c)
      BY <1>8 DEF Current, Inserted
    <2>2. resent' = 0 => IsOnce(Inserted(c), since)
      BY <1>1, <1>3 DEF OutputOnce
    <2>3. restarts = 0 => AreLeaders(leaders, state.last_committed_round)
      BY <1>1 DEF LeadersOfDag
    <2>4. alive' \in BOOLEAN /\ state'.dag \subseteq received \cup {c} /\ alive'
      BY <1>2, <1>3, <1>8
    <2>5. ToSet(output') \subseteq received \cup {c} /\ Len(output) <= Len(output')
      BY <1>2, <1>5, <1>8
    <2>6. /\ IsRun(Current') /\ (resent' = 0 => IsOnce(Current', since))
          /\ (Chained /\ resent' = 0 /\ restarts = 0) =>
               IsTwin(Current', FromStart(leaders'), received \cup {c})
      BY <1>1, <1>3, <1>8, <2>1, <2>2 DEF SameOrder
    <2>7. restarts = 0 => /\ HasHistory(state'.dag, received \cup {c}, state'.last_committed_round)
                          /\ AreLeaders(leaders', state'.last_committed_round)
      BY <1>1, <1>3, <1>8, <2>3
    <2> QED
      BY <1>6, <2>4, <2>5, <2>6, <2>7
  <1>9. CASE /\ alive /\ Triggers(insert(c), c) /\ ~ MissesHistory(insert(c), c)
             /\ LET s    == insert(c)
                    done == commit_all([state |-> s, output |-> output, leaders |-> leaders],
                                       order_leaders(s, leader(Round(c) - 3)))
                IN  /\ state' = done.state
                    /\ output' = done.output
                    /\ leaders' = done.leaders
             /\ UNCHANGED alive
    <2> DEFINE done == commit_all(Inserted(c), order_leaders(insert(c), leader(Round(c) - 3)))
    <2>1. state' = done.state /\ output' = done.output /\ leaders' = done.leaders
      BY <1>9 DEF Inserted
    <2>2. /\ IsRun(done)
          /\ done.state.dag \subseteq state.dag \cup {c}
          /\ ToSet(done.output) \subseteq ToSet(output) \cup state.dag \cup {c}
          /\ Len(output) <= Len(done.output)
          /\ IsOnce(Inserted(c), since) => IsOnce(done, since)
          /\ (restarts = 0 /\ LeadersOfDag /\ Chained) =>
               \A got : IsTwin(Inserted(c), FromStart(leaders), got) => IsTwin(done, FromStart(done.leaders), got)
          /\ (restarts = 0 /\ LeadersOfDag) =>
               /\ HasHistory(done.state.dag, received \cup {c}, done.state.last_committed_round)
               /\ AreLeaders(done.leaders, done.state.last_committed_round)
      BY <1>1, <1>9, TriggerFacts
    <2> HIDE DEF done
    <2>3. Current' = done
      <3>1. done = [state |-> done.state, output |-> done.output, leaders |-> done.leaders]
        BY <2>2 DEF IsRun
      <3> QED
        BY <2>1, <3>1 DEF Current
    <2>4. resent' = 0 => IsOnce(Current', since)
      BY <1>1, <1>3, <2>2, <2>3 DEF OutputOnce
    <2>5. (Chained /\ resent' = 0 /\ restarts = 0) =>
            IsTwin(Current', FromStart(leaders'), received \cup {c})
      BY <1>1, <1>3, <2>1, <2>2, <2>3 DEF SameOrder
    <2>6. /\ state'.dag \subseteq received \cup {c} /\ ToSet(output') \subseteq received \cup {c}
          /\ Len(output) <= Len(output') /\ IsRun(Current') /\ alive' \in BOOLEAN
      BY <1>2, <1>9, <2>1, <2>2, <2>3
    <2>7. restarts = 0 => /\ alive'
                          /\ HasHistory(state'.dag, received \cup {c}, state'.last_committed_round)
                          /\ AreLeaders(leaders', state'.last_committed_round)
      BY <1>1, <1>9, <2>1, <2>2
    <2> QED
      BY <1>6, <2>4, <2>5, <2>6, <2>7
  <1> QED
    BY <1>7, <1>8, <1>9 DEF Process

LEMMA InvNext == ConsensusInv /\ [Next]_vars => ConsensusInv'
  <1> SUFFICES ASSUME ConsensusInv, [Next]_vars PROVE ConsensusInv'
    OBVIOUS
  <1>1. Received /\ OutputOnce /\ LeadersOfDag /\ SameOrder
    BY DEF ConsensusInv
  <1>2. /\ edges \in Dags /\ received \subseteq DOMAIN edges /\ Genesis \subseteq received
        /\ \A x \in received : edges[x] \subseteq received
        /\ IsRun(Current) /\ ToSet(output) \subseteq received
        /\ resent \in 0 .. MaxResend /\ restarts \in 0 .. MaxRestart
        /\ MaxResend \in Nat /\ MaxRestart \in Nat
    BY <1>1, ConsensusAssumption DEF Received
  <1>3. ASSUME NEW c \in DOMAIN edges, Receive(c) PROVE ConsensusInv'
    <2>1. /\ c \notin received /\ edges[c] \subseteq received /\ received' = received \cup {c}
          /\ Process(c) /\ UNCHANGED <<edges, restarts, since>> /\ resent' = resent
      BY <1>3 DEF Receive
    <2> QED
      BY <1>2, <2>1, ProcessInv
  <1>4. ASSUME NEW c \in DOMAIN edges, ReceiveAgain(c) PROVE ConsensusInv'
    <2>1. /\ c \in received /\ edges[c] \subseteq received /\ received' = received \cup {c}
          /\ Process(c) /\ UNCHANGED <<edges, restarts, since>>
          /\ resent' = resent + 1 /\ resent < MaxResend
      BY <1>2, <1>4 DEF ReceiveAgain
    <2>2. resent' \in 0 .. MaxResend /\ resent' # 0
      BY <1>2, <2>1
    <2> QED
      BY <2>1, <2>2, ProcessInv
  <1>5. CASE Restart
    <2>1. /\ restarts' = restarts + 1 /\ restarts < MaxRestart /\ alive' = TRUE /\ state' = NewState
          /\ since' = Len(output) /\ edges' = edges /\ received' = received /\ resent' = resent
          /\ output' = output /\ leaders' = leaders
      BY <1>5 DEF Restart
    <2>2. restarts' \in 0 .. MaxRestart /\ restarts' # 0
      BY <1>2, <2>1
    <2>3. output \in Seq(Certificates) /\ leaders \in Seq(Certificates)
      BY <1>2 DEF IsRun, Current
    <2>4. IsRun(Current)'
      <3>1. NewState.dag = Genesis /\ IsState(NewState)
        BY <1>2, NewStateFacts
      <3>2. IsRun([state |-> NewState, output |-> output, leaders |-> leaders])
        BY <1>2, <2>3, <3>1, NewStateFacts DEF IsRun
      <3>3. Current' = [state |-> NewState, output |-> output, leaders |-> leaders]
        BY <2>1 DEF Current
      <3>4. IsRun(Current') <=> IsRun(Current)'
        BY <2>1 DEF IsRun, IsState
      <3> QED
        BY <3>2, <3>3, <3>4
    <2>5. state'.dag \subseteq received'
      BY <1>2, <2>1, NewStateFacts
    <2>6. since' \in 0 .. Len(output')
      BY <2>1, <2>3
    <2>7. Received'
      BY <1>2, <2>1, <2>2, <2>4, <2>5, <2>6 DEF Received
    <2>8. OutputOnce'
      <3>1. Current'.output = output
        BY <2>1 DEF Current
      <3>2. since' + 1 .. Len(Current'.output) = {}
        BY <2>1, <2>3, <3>1
      <3> QED
        BY <3>2 DEF OutputOnce, IsOnce
    <2>9. LeadersOfDag' /\ SameOrder'
      BY <2>2 DEF LeadersOfDag, SameOrder
    <2> QED
      BY <2>7, <2>8, <2>9 DEF ConsensusInv
  <1>6. CASE UNCHANGED vars
    <2>1. /\ edges' = edges /\ received' = received /\ resent' = resent /\ state' = state
          /\ output' = output /\ leaders' = leaders /\ alive' = alive /\ restarts' = restarts
          /\ since' = since
      BY <1>6 DEF vars
    <2>2. Current' = Current
      BY <2>1 DEF Current
    <2>3. IsRun(Current)' /\ (OutputOnce => OutputOnce')
      BY <1>2, <2>1, <2>2 DEF IsRun, IsState, OutputOnce, IsOnce
    <2>4. Received'
      BY <1>1, <2>1, <2>3 DEF Received
    <2>5. LeadersOfDag'
      BY <1>1, <2>1, SameDag DEF LeadersOfDag, HasHistory, AreLeaders
    <2>6. SameOrder'
      <3>1. Chained' = Chained /\ FromStart(leaders)' = FromStart(leaders)
        BY <2>1, SameDag
      <3>2. IsTwin(Current, FromStart(leaders), received)' = IsTwin(Current, FromStart(leaders), received)
        BY <2>1, <2>2, <3>1 DEF IsTwin, IsComplete
      <3> QED
        BY <1>1, <2>1, <3>1, <3>2 DEF SameOrder
    <2> QED
      BY <1>1, <2>3, <2>4, <2>5, <2>6 DEF ConsensusInv
  <1> QED
    BY <1>3, <1>4, <1>5, <1>6 DEF Next

LEMMA InvHolds == Spec => []ConsensusInv
  BY InvInit, InvNext, PTL DEF Spec

(* Every variable of the consensus task stays in its type. *)
THEOREM ConsensusTypes == Spec => []TypeOK
  <1>1. ConsensusInv => TypeOK
    <2> SUFFICES ASSUME ConsensusInv PROVE TypeOK
      OBVIOUS
    <2>1. Received /\ edges \in Dags /\ IsRun(Current)
      BY DEF ConsensusInv, Received
    <2>2. DOMAIN edges \subseteq Certificates
      BY <2>1, DagFacts
    <2> QED
      BY <2>1, <2>2 DEF TypeOK, Received, IsRun, IsState, Current
  <1> QED
    BY <1>1, InvHolds, PTL

(* The expect calls of Consensus::run ("We should have the whole history by
   now") never fail in a replica that was not restarted: the task lives, and
   nothing received above the last committed round has been cleaned up, for
   every committee, DAG, order of delivery and garbage collection depth. *)
THEOREM HistoryIsWhole == Spec => []WholeHistory
  <1>1. ConsensusInv => WholeHistory
    BY DEF ConsensusInv, LeadersOfDag, HasHistory, WholeHistory
  <1> QED
    BY <1>1, InvHolds, PTL

(* A certificate delivered once is committed at most once between two starts
   (last_committed in order_dag and State::update), restarts and holes in the
   DAG included. *)
THEOREM NothingCommittedTwice == Spec => []CommittedOnce
  <1>1. ConsensusInv => CommittedOnce
    BY DEF ConsensusInv, OutputOnce, IsOnce, Current, CommittedOnce
  <1> QED
    BY <1>1, InvHolds, PTL

(* "Committing a leader block means committing all its dependencies"
   (order_dag, State::update and GcDepth): in a chained DAG that is delivered
   once, what a replica that was never stopped outputs comes after its parents,
   but for those too old to be committed. *)
THEOREM DependenciesComeFirst == Spec => []DependenciesCommitted
  <1>1. ConsensusInv => DependenciesCommitted
    <2> SUFFICES ASSUME ConsensusInv, Chained, resent = 0, restarts = 0
                 PROVE  \A i \in DOMAIN output : \A p \in edges[output[i]] :
                          \/ p \in Genesis \cup {output[j] : j \in 1 .. i - 1}
                          \/ Round(p) + GcDepth < state.last_committed_round
      BY DEF DependenciesCommitted
    <2>1. IsComplete(Current, received) /\ IsRun(Current)
      BY DEF ConsensusInv, SameOrder, IsTwin, Received
    <2>2. Current.state = state /\ Current.output = output
      BY DEF Current
    <2>3. DOMAIN output = 1 .. Len(output)
      BY <2>1, <2>2 DEF IsRun
    <2> QED
      BY <2>1, <2>2, <2>3 DEF IsComplete
  <1> QED
    BY <1>1, InvHolds, PTL

LEMMA CanonicalFacts ==
  ASSUME edges \in Dags
  PROVE  /\ CanonicalLeaders \in Seq(Certificates)
         /\ DirectLeaders # {} =>
              \E l \in DirectLeaders :
                /\ \A m \in DirectLeaders : Round(m) <= Round(l)
                /\ CanonicalLeaders = Chain(DOMAIN edges, l)[2]
  <1> DEFINE E == DOMAIN edges
             last == CHOOSE l \in DirectLeaders : \A m \in DirectLeaders : Round(m) <= Round(l)
             S == {Round(l) : l \in DirectLeaders}
  <1>1. CASE DirectLeaders = {}
    BY <1>1, EmptySeq DEF CanonicalLeaders
  <1>2. CASE DirectLeaders # {}
    <2>1. \A l \in DirectLeaders : l \in E /\ l \in Certificates /\ Round(l) \in 0 .. MaxRound /\ Round(l) > 0
      BY DagFacts, CertificateFacts DEF DirectLeaders
    <2>2. S \in SUBSET (0 .. MaxRound) /\ S # {}
      BY <1>2, <2>1
    <2>3. Max(S) \in S /\ \A y \in S : y <= Max(S)
      <3> HIDE DEF S
      <3> QED
        BY <2>2, MaxFacts
    <2>4. PICK l \in DirectLeaders : Round(l) = Max(S)
      BY <2>3
    <2>5. \A m \in DirectLeaders : Round(m) <= Round(l)
      BY <2>3, <2>4
    <2>6. last \in DirectLeaders /\ \A m \in DirectLeaders : Round(m) <= Round(last)
      BY <2>5
    <2>7. CanonicalLeaders = order_leaders(Start, last)
      BY <1>2 DEF CanonicalLeaders
    <2> HIDE DEF last
    <2>8. Start.dag = E /\ Start.last_committed_round = 0 /\ 0 + 2 = 2
      BY DEF Start, NewState
    <2>9. CanonicalLeaders = Chain(E, last)[2]
      <3>1. order_leaders(Start, last) = Chain(Start.dag, last)[Start.last_committed_round + 2]
        BY LeadersByChain
      <3> QED
        BY <2>7, <2>8, <3>1
    <2>10. Chain(E, last)[2] \in Seq(Certificates)
      <3>1. E \in SUBSET Certificates /\ last \in E /\ 2 \in Nat
        BY <2>1, <2>6, DagFacts
      <3>2. 2 < Round(last) + 2
        BY <2>1, <2>6, ConsensusAssumption
      <3>3. Chain(E, last)[2] \in Seq(E)
        BY <3>1, <3>2, ChainFacts DEF IsRising
      <3> QED
        BY <3>1, <3>3, SeqMonotonic
    <2> QED
      BY <2>6, <2>9, <2>10
  <1> QED
    BY <1>1, <1>2

\* The leaders committed so far start the sequence that depends on the DAG only.
LEMMA CanonicalRest ==
  ASSUME edges \in Dags, NEW ls, NEW round, AreLeaders(ls, round)
  PROVE  \E rest \in Seq(Certificates) : CanonicalLeaders = ls \o rest
  <1>1. CanonicalLeaders \in Seq(Certificates)
    BY CanonicalFacts
  <1>2. CASE ls = <<>>
    <2>1. \A t \in Seq(Certificates) : t = <<>> \o t
      OBVIOUS
    <2>2. CanonicalLeaders = <<>> \o CanonicalLeaders
      BY <1>1, <2>1
    <2> QED
      BY <1>1, <1>2, <2>2
  <1>3. ASSUME NEW m \in DirectLeaders, ls = Chain(DOMAIN edges, m)[2]
        PROVE  \E rest \in Seq(Certificates) : CanonicalLeaders = ls \o rest
    <2>1. PICK l \in DirectLeaders : /\ \A k \in DirectLeaders : Round(k) <= Round(l)
                                     /\ CanonicalLeaders = Chain(DOMAIN edges, l)[2]
      BY CanonicalFacts
    <2>2. /\ Round(m) <= Round(l) /\ m = leader(Round(m)) /\ l = leader(Round(l))
          /\ Round(m) % 2 = 0 /\ Round(l) % 2 = 0 /\ l \in DOMAIN edges /\ m \in DOMAIN edges
      BY <2>1 DEF DirectLeaders
    <2>3. Round(m) \in Nat /\ Round(l) \in Nat /\ l \in Certificates /\ DOMAIN edges \in SUBSET Certificates
      BY <2>2, DagFacts, CertificateFacts
    <2>4. CASE Round(m) = Round(l)
      <3>1. CanonicalLeaders = ls
        BY <1>3, <2>1, <2>2, <2>4
      <3>2. \A t \in Seq(Certificates) : t = t \o <<>>
        OBVIOUS
      <3>3. CanonicalLeaders = CanonicalLeaders \o <<>> /\ <<>> \in Seq(Certificates)
        BY <1>1, <3>2, EmptySeq
      <3> QED
        BY <3>1, <3>3
    <2>5. CASE Round(m) # Round(l)
      <3> DEFINE rest == Chain(DOMAIN edges, l)[Round(m) + 2]
      <3>1. Round(l) >= Round(m) + 2
        BY <2>2, <2>3, <2>5
      <3>2. CanonicalLeaders = ls \o rest
        BY <1>3, <2>1, <2>2, <3>1, LaterChain
      <3>3. Round(m) + 2 \in Nat /\ Round(m) + 2 < Round(l) + 2
        BY <2>3, <3>1
      <3>4. rest \in Seq(DOMAIN edges)
        BY <2>2, <2>3, <3>3, ChainFacts DEF IsRising
      <3>5. rest \in Seq(Certificates)
        BY <2>3, <3>4, SeqMonotonic
      <3> QED
        BY <3>2, <3>5
    <2> QED
      BY <2>4, <2>5
  <1> QED
    BY <1>2, <1>3 DEF AreLeaders

(* Agreement: the leaders a replica commits are a prefix of a sequence that
   depends on the DAG only (Consensus::run, order_leaders and linked), so two
   replicas that were not restarted never commit conflicting leaders, for every
   committee, every DAG that can be certified and every order of delivery. *)
THEOREM LeadersAgree == Spec => []LeaderAgreement
  <1>1. ConsensusInv => LeaderAgreement
    <2> SUFFICES ASSUME ConsensusInv, restarts = 0 PROVE IsPrefix(leaders, CanonicalLeaders)
      BY DEF LeaderAgreement
    <2>1. edges \in Dags /\ IsRun(Current) /\ AreLeaders(leaders, state.last_committed_round)
      BY DEF ConsensusInv, Received, LeadersOfDag
    <2>2. leaders \in Seq(Certificates)
      BY <2>1 DEF IsRun, Current
    <2>3. PICK rest \in Seq(Certificates) : CanonicalLeaders = leaders \o rest
      BY <2>1, CanonicalRest
    <2> QED
      BY <2>2, <2>3, PrefixFacts
  <1> QED
    BY <1>1, InvHolds, PTL

(* Total order: what a replica outputs is a prefix of a sequence that depends on
   the DAG only (order_dag, State::update and the garbage collection of both),
   so replicas that were not stopped output the same certificates in the same
   order, however their certificates came, when each stands on the previous one
   of its author and is delivered once; for every committee, every DAG that can
   be certified and every garbage collection depth. *)
THEOREM ReplicasAgree == Spec => []TotalOrder
  <1>1. ConsensusInv => TotalOrder
    <2> SUFFICES ASSUME ConsensusInv, Chained, resent = 0, restarts = 0
                 PROVE  IsPrefix(output, CanonicalOutput)
      BY DEF TotalOrder
    <2> DEFINE w == FromStart(leaders)
    <2>1. edges \in Dags /\ IsRun(Current) /\ AreLeaders(leaders, state.last_committed_round)
      BY DEF ConsensusInv, Received, LeadersOfDag
    <2>2. output \in Seq(Certificates) /\ leaders \in Seq(Certificates) /\ Current.output = output
      BY <2>1 DEF IsRun, Current
    <2>3. w.output = output
      BY <2>2 DEF ConsensusInv, SameOrder, IsTwin
    <2>4. PICK rest \in Seq(Certificates) : CanonicalLeaders = leaders \o rest
      BY <2>1, CanonicalRest
    <2>5. \E round : AreLeaders(CanonicalLeaders, round)
      <3>1. CASE DirectLeaders = {}
        BY <3>1 DEF CanonicalLeaders, AreLeaders
      <3>2. CASE DirectLeaders # {}
        BY <2>1, <3>2, CanonicalFacts DEF AreLeaders
      <3> QED
        BY <3>1, <3>2
    <2>6. IsRising(leaders \o rest, StartRun.state.dag, StartRun.state.last_committed_round)
      BY <2>1, <2>4, <2>5, LeadersRise, StartFacts
    <2>7. /\ IsRun(w) /\ IsRising(rest, w.state.dag, w.state.last_committed_round)
          /\ FromStart(leaders \o rest) = commit_all(w, rest)
      BY <2>1, <2>2, <2>6, StartFacts, CommitAllConcat DEF FromStart
    <2>8. CanonicalOutput = FromStart(leaders \o rest).output
      BY <2>4 DEF CanonicalOutput, FromStart, StartRun
    <2> HIDE DEF w
    <2>9. PICK t \in Seq(Certificates) : commit_all(w, rest).output = w.output \o t
      BY <2>1, <2>7, CommitAllFacts DEF IsAfter
    <2> QED
      BY <2>2, <2>3, <2>7, <2>8, <2>9, PrefixFacts
  <1> QED
    BY <1>1, InvHolds, PTL

=============================================================================
