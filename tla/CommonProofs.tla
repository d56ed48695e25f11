---------------------------- MODULE CommonProofs ----------------------------
(***************************************************************************)
(* What the proofs of several components rest on: the two thresholds of    *)
(* the committee, and facts about numbers, sequences and their elements.   *)
(***************************************************************************)
EXTENDS Committee, FiniteSetTheorems, SequencesExt, SequenceTheorems,
        WellFoundedInduction, TLAPS

-----------------------------------------------------------------------------
(* What the two thresholds of config/src/lib.rs guarantee, for every       *)
(* committee and every distribution of stake.                              *)

(* The units of stake of a set of authorities are finitely many, so that a
   weight is a natural number. *)
LEMMA UnitsFinite ==
    ASSUME NEW S \in SUBSET Authorities
    PROVE  IsFiniteSet(StakeUnits(S)) /\ Weight(S) \in Nat
<1> DEFINE U(a) == {a} \X (1 .. Stake[a])
<1>1. IsFiniteSet(S)
  BY CommitteeAssumption, FS_Subset
<1>2. \A a \in S : IsFiniteSet(U(a))
  <2> SUFFICES ASSUME NEW a \in S PROVE IsFiniteSet(U(a))
    OBVIOUS
  <2>1. Stake[a] \in Nat
    BY CommitteeAssumption
  <2>2. IsFiniteSet(1 .. Stake[a])
    BY <2>1, FS_Interval, SMT
  <2>3. IsFiniteSet({a})
    BY FS_Singleton
  <2> QED  BY <2>2, <2>3, FS_Product
<1> HIDE DEF U
<1>3. IsFiniteSet({U(a) : a \in S})
  <2> DEFINE T == {U(a) : a \in S}
             f == [a \in S |-> U(a)]
  <2>1. f \in Surjection(S, T)
    BY DEF Surjection
  <2> QED  BY <1>1, <2>1, FS_Surjection
<1>4. \A T \in {U(a) : a \in S} : IsFiniteSet(T)
  BY <1>2
<1>5. IsFiniteSet(UNION {U(a) : a \in S})
  BY <1>3, <1>4, FS_UNION
<1>6. IsFiniteSet(StakeUnits(S))
  BY <1>5 DEF StakeUnits, U
<1> QED  BY <1>6, FS_CardinalityType DEF Weight

(* Units of stake follow the set operations. *)
LEMMA UnitsOfSets ==
    ASSUME NEW S \in SUBSET Authorities, NEW T \in SUBSET Authorities
    PROVE  /\ StakeUnits(S \cup T) = StakeUnits(S) \cup StakeUnits(T)
           /\ StakeUnits(S \cap T) = StakeUnits(S) \cap StakeUnits(T)
           /\ S \subseteq T => StakeUnits(S) \subseteq StakeUnits(T)
BY DEF StakeUnits

(* Inclusion and exclusion for weights. *)
LEMMA WeightUnion ==
    ASSUME NEW S \in SUBSET Authorities, NEW T \in SUBSET Authorities
    PROVE  Weight(S \cup T) = Weight(S) + Weight(T) - Weight(S \cap T)
<1>1. IsFiniteSet(StakeUnits(S)) /\ IsFiniteSet(StakeUnits(T))
  BY UnitsFinite
<1>2. Cardinality(StakeUnits(S) \cup StakeUnits(T)) =
        Cardinality(StakeUnits(S)) + Cardinality(StakeUnits(T))
          - Cardinality(StakeUnits(S) \cap StakeUnits(T))
  BY <1>1, FS_Union
<1> QED  BY <1>2, UnitsOfSets DEF Weight

(* A larger set weighs at least as much. *)
LEMMA WeightMonotone ==
    ASSUME NEW T \in SUBSET Authorities, NEW S \in SUBSET T
    PROVE  Weight(S) <= Weight(T)
<1>1. StakeUnits(S) \subseteq StakeUnits(T)
  BY UnitsOfSets
<1> QED  BY <1>1, UnitsFinite, FS_Subset DEF Weight

(* The empty set has no voting power, and one more authority adds its own. *)
LEMMA WeightOfNone == Weight({}) = 0
<1>1. StakeUnits({}) = {}
  BY DEF StakeUnits
<1> QED  BY <1>1, FS_EmptySet DEF Weight

LEMMA WeightOfOne ==
    ASSUME NEW a \in Authorities
    PROVE  Weight({a}) = Stake[a]
<1>1. Stake[a] \in Nat
  BY CommitteeAssumption
<1>2. StakeUnits({a}) = {a} \X (1 .. Stake[a])
  BY DEF StakeUnits
<1>3. IsFiniteSet(1 .. Stake[a]) /\ Cardinality(1 .. Stake[a]) = Stake[a]
  <2>1. /\ IsFiniteSet(1 .. Stake[a])
        /\ Cardinality(1 .. Stake[a]) = IF 1 > Stake[a] THEN 0 ELSE Stake[a] - 1 + 1
    <3> DEFINE n == Stake[a]
    <3>1. 1 \in Int /\ n \in Int
      BY <1>1
    <3> HIDE DEF n
    <3>2. IsFiniteSet(1 .. n) /\ Cardinality(1 .. n) = IF 1 > n THEN 0 ELSE n - 1 + 1
      BY <3>1, FS_Interval, Zenon
    <3> QED  BY <3>2 DEF n
  <2> QED  BY <1>1, <2>1
<1>4. IsFiniteSet({a}) /\ Cardinality({a}) = 1
  BY FS_Singleton
<1>5. Cardinality({a} \X (1 .. Stake[a])) = 1 * Stake[a]
  <2> DEFINE A == {a}
             B == 1 .. Stake[a]
  <2> HIDE DEF A, B
  <2>1. IsFiniteSet(A) /\ IsFiniteSet(B) /\ Cardinality(A) = 1 /\ Cardinality(B) = Stake[a]
    BY <1>3, <1>4 DEF A, B
  <2>2. Cardinality(A \X B) = Cardinality(A) * Cardinality(B)
    BY <2>1, FS_Product, Zenon
  <2> QED  BY <2>1, <2>2 DEF A, B
<1>6. Weight({a}) = Cardinality({a} \X (1 .. Stake[a]))
  BY <1>2 DEF Weight
<1> QED  BY <1>1, <1>5, <1>6

LEMMA WeightAdd ==
    ASSUME NEW S \in SUBSET Authorities, NEW a \in Authorities \ S
    PROVE  Weight(S \cup {a}) = Weight(S) + Stake[a]
<1>1. S \cap {a} = {}
  OBVIOUS
<1>2. Weight(S \cup {a}) = Weight(S) + Weight({a}) - Weight({})
  BY <1>1, WeightUnion
<1>3. Stake[a] \in Nat /\ Weight(S) \in Nat
  BY CommitteeAssumption, UnitsFinite
<1> QED  BY <1>2, <1>3, WeightOfOne, WeightOfNone

(* The arithmetic of quorum_threshold and validity_threshold
   (config/src/lib.rs:168-181), as the comments there state it: for
   N = 3f+1+k the first is N-f and the second f+1. *)
THEOREM Thresholds ==
    ASSUME NEW f \in Nat, NEW k \in 0 .. 2, total_votes = 3 * f + 1 + k
    PROVE  /\ quorum_threshold = total_votes - f
           /\ validity_threshold = f + 1
BY DEF quorum_threshold, validity_threshold

LEMMA ThresholdFacts ==
    /\ total_votes \in Nat /\ quorum_threshold \in Nat /\ validity_threshold \in Nat
    /\ 2 * quorum_threshold > total_votes
    /\ 2 * quorum_threshold - total_votes >= validity_threshold
    /\ quorum_threshold + validity_threshold > total_votes
    /\ quorum_threshold + 1 >= 2 * validity_threshold
<1>1. total_votes \in Nat
  BY UnitsFinite DEF total_votes
<1> QED  BY <1>1, SMT DEF quorum_threshold, validity_threshold

(* Two quorums share more stake than the faulty authorities hold, hence a
   correct authority: what makes a certificate unique. *)
THEOREM QuorumsShareCorrect ==
    ASSUME NEW F \in SUBSET Authorities, FaultBound(F),
           NEW S \in SUBSET Authorities, IsQuorum(S),
           NEW T \in SUBSET Authorities, IsQuorum(T)
    PROVE  \E n \in Authorities \ F : n \in S /\ n \in T
<1> SUFFICES ASSUME S \cap T \subseteq F PROVE FALSE
  OBVIOUS
<1>1. Weight(S \cap T) <= Weight(F)
  BY WeightMonotone
<1>2. Weight(S \cup T) <= total_votes
  BY WeightMonotone DEF total_votes
<1>3. Weight(S \cup T) = Weight(S) + Weight(T) - Weight(S \cap T)
  BY WeightUnion
<1>4. /\ Weight(S) \in Nat /\ Weight(T) \in Nat /\ Weight(F) \in Nat
      /\ Weight(S \cap T) \in Nat /\ Weight(S \cup T) \in Nat
  BY UnitsFinite
<1> QED  BY <1>1, <1>2, <1>3, <1>4, ThresholdFacts DEF IsQuorum, FaultBound

(* A quorum and a set of validity weight intersect: what makes a leader with
   f+1 support visible to every later certificate. *)
THEOREM QuorumMeetsValidity ==
    ASSUME NEW S \in SUBSET Authorities, IsQuorum(S),
           NEW T \in SUBSET Authorities, IsValidity(T)
    PROVE  S \cap T # {}
<1> SUFFICES ASSUME S \cap T = {} PROVE FALSE
  OBVIOUS
<1>1. Weight(S \cup T) <= total_votes
  BY WeightMonotone DEF total_votes
<1>2. Weight(S \cup T) = Weight(S) + Weight(T) - Weight({})
  BY WeightUnion
<1>3. Weight(S) \in Nat /\ Weight(T) \in Nat /\ Weight(S \cup T) \in Nat
  BY UnitsFinite
<1> QED  BY <1>1, <1>2, <1>3, WeightOfNone, ThresholdFacts DEF IsQuorum, IsValidity

(* The correct part of a quorum weighs at least validity_threshold: what makes
   certified data available. *)
THEOREM CorrectPartOfQuorum ==
    ASSUME NEW F \in SUBSET Authorities, FaultBound(F),
           NEW S \in SUBSET Authorities, IsQuorum(S)
    PROVE  IsValidity(S \ F)
<1>1. Weight(S) <= Weight((S \ F) \cup F)
  BY WeightMonotone
<1>2. Weight((S \ F) \cup F) = Weight(S \ F) + Weight(F) - Weight((S \ F) \cap F)
  BY WeightUnion
<1>3. (S \ F) \cap F = {}
  OBVIOUS
<1>4. Weight(S) \in Nat /\ Weight(S \ F) \in Nat /\ Weight(F) \in Nat
      /\ Weight((S \ F) \cup F) \in Nat
  BY UnitsFinite
<1> QED  BY <1>1, <1>2, <1>3, <1>4, WeightOfNone, ThresholdFacts
         DEF IsQuorum, IsValidity, FaultBound

-----------------------------------------------------------------------------
(* Numbers and sequences.  Induction is stated about the set of the        *)
(* numbers that have a property, and recursion about functions, as the     *)
(* provers instantiate sets and functions but no operators.  Both follow   *)
(* from the well-foundedness of the order of the naturals.                 *)

\* A set of naturals that is not empty has a least element.
LEMMA LeastNumber ==
  ASSUME NEW S \in SUBSET Nat, S # {}
  PROVE  \E n \in S : \A m \in S : n <= m
  <1> DEFINE R == {ss \in Nat \X Nat : ss[1] < ss[2]}
  <1>1. IsWellFoundedOn(R, Nat)
    BY NatLessThanWellFounded DEF OpToRel
  <1> HIDE DEF R
  <1>2. PICK x \in S : \A y \in S : ~ (<<y, x>> \in R)
    BY <1>1, WFMin
  <1>3. \A y \in S : ~ (y < x)
    BY <1>2 DEF R
  <1> QED
    BY <1>3

\* The greatest of some numbers up to n.
LEMMA GreatestNumber ==
  ASSUME NEW n \in Nat, NEW S \in SUBSET (0 .. n), S # {}
  PROVE  \E x \in S : \A y \in S : y <= x
  <1> DEFINE D == {n - y : y \in S}
  <1>1. \A y \in S : y \in Nat /\ y <= n /\ n - y \in Nat
    OBVIOUS
  <1>2. PICK l \in D : \A m \in D : l <= m
    <2>1. D \in SUBSET Nat /\ D # {}
      BY <1>1
    <2> QED
      BY <2>1, LeastNumber
  <1>3. PICK x \in S : l = n - x
    BY <1>2
  <1>4. ASSUME NEW y \in S PROVE y <= x
    <2>1. n - x <= n - y
      BY <1>2, <1>3
    <2> QED
      BY <1>1, <2>1
  <1> QED
    BY <1>4

\* A set that has 0 and the successors of its elements has every natural.
LEMMA SetInduction ==
  ASSUME NEW S, 0 \in S, \A n \in Nat : n \in S => n + 1 \in S
  PROVE  \A n \in Nat : n \in S
  <1> SUFFICES ASSUME Nat \ S # {} PROVE FALSE
    OBVIOUS
  <1>1. PICK n \in Nat \ S : \A m \in Nat \ S : n <= m
    BY LeastNumber
  <1>2. n # 0
    OBVIOUS
  <1>3. n - 1 \in Nat /\ ~ (n <= n - 1)
    BY <1>2
  <1>4. n - 1 \in S
    BY <1>1, <1>3
  <1>5. (n - 1) + 1 \in S
    BY <1>3, <1>4
  <1> QED
    BY <1>1, <1>5

\* The step of a recursion on arguments in D, with values in T.
IsStep(G, D, T) == G \in [D \X T -> T]

\* What a recursion that goes down from N by steps of k defines.
IsDownward(f, N, k, T, base, G) ==
    /\ f \in [Nat -> T]
    /\ \A r \in Nat : f[r] = IF r >= N THEN base ELSE G[<<r, f[r + k]>>]

\* What a recursion that goes up from 0 to n defines.
IsUpward(f, n, T, base, G) ==
    /\ f \in [0 .. n -> T]
    /\ \A i \in 0 .. n : f[i] = IF i = 0 THEN base ELSE G[<<i, f[i - 1]>>]

\* A recursion that goes down defines a function.
LEMMA DownwardRecursion ==
  ASSUME NEW T, NEW N \in Nat, NEW k \in Nat \ {0}, NEW base \in T, NEW G, IsStep(G, Nat, T)
  PROVE  \E f : IsDownward(f, N, k, T, base, G)
  <1> DEFINE Step(f, r) == IF r >= N THEN base ELSE G[<<r, f[r + k]>>]
             Good == {n \in Nat : \E f \in [Nat -> T] : \A r \in Nat : r + n >= N => f[r] = Step(f, r)}
  <1>1. 0 \in Good
    <2>1. [r \in Nat |-> base] \in [Nat -> T]
      OBVIOUS
    <2>2. \A r \in Nat : r + 0 >= N => [q \in Nat |-> base][r] = Step([q \in Nat |-> base], r)
      OBVIOUS
    <2> QED
      BY <2>1, <2>2
  <1>2. ASSUME NEW n \in Nat, n \in Good PROVE n + 1 \in Good
    <2>1. PICK f \in [Nat -> T] : \A r \in Nat : r + n >= N => f[r] = Step(f, r)
      BY <1>2
    <2> DEFINE g == [r \in Nat |-> IF r + n >= N THEN f[r] ELSE Step(f, r)]
    <2>2. g \in [Nat -> T]
      <3>1. \A r \in Nat : f[r] \in T /\ r + k \in Nat /\ f[r + k] \in T
        OBVIOUS
      <3>2. \A r \in Nat : Step(f, r) \in T
        BY <3>1 DEF IsStep
      <3> QED
        BY <3>1, <3>2
    <2>3. \A r \in Nat : r + n >= N => g[r] = f[r]
      OBVIOUS
    <2>4. ASSUME NEW r \in Nat, r + (n + 1) >= N PROVE g[r] = Step(g, r)
      <3>1. g[r] = Step(f, r)
        BY <2>1
      <3>2. r + k \in Nat /\ (r + k) + n >= N
        BY <2>4
      <3>3. g[r + k] = f[r + k]
        BY <2>3, <3>2
      <3> HIDE DEF g
      <3> QED
        BY <3>1, <3>3
    <2> HIDE DEF g
    <2> QED
      BY <2>2, <2>4
  <1> HIDE DEF Good
  <1>3. N \in Good
    BY <1>1, <1>2, SetInduction
  <1>4. PICK f \in [Nat -> T] : \A r \in Nat : r + N >= N => f[r] = Step(f, r)
    BY <1>3 DEF Good
  <1>5. \A r \in Nat : f[r] = Step(f, r)
    BY <1>4
  <1>6. IsDownward(f, N, k, T, base, G)
    BY <1>5 DEF IsDownward
  <1> QED
    BY <1>6

\* A recursion that goes up defines a function.
LEMMA UpwardRecursion ==
  ASSUME NEW T, NEW n \in Nat, NEW base \in T, NEW G, IsStep(G, 1 .. n, T)
  PROVE  \E f : IsUpward(f, n, T, base, G)
  <1> DEFINE Step(f, i) == IF i = 0 THEN base ELSE G[<<i, f[i - 1]>>]
             Good == {m \in Nat : m <= n => \E f \in [0 .. n -> T] : \A i \in 0 .. m : f[i] = Step(f, i)}
  <1>1. 0 \in Good
    <2>1. [i \in 0 .. n |-> base] \in [0 .. n -> T]
      OBVIOUS
    <2>2. \A i \in 0 .. 0 : [j \in 0 .. n |-> base][i] = Step([j \in 0 .. n |-> base], i)
      OBVIOUS
    <2> QED
      BY <2>1, <2>2
  <1>2. ASSUME NEW m \in Nat, m \in Good PROVE m + 1 \in Good
    <2> SUFFICES ASSUME m + 1 <= n
                 PROVE  \E f \in [0 .. n -> T] : \A i \in 0 .. m + 1 : f[i] = Step(f, i)
      OBVIOUS
    <2>1. PICK f \in [0 .. n -> T] : \A i \in 0 .. m : f[i] = Step(f, i)
      BY <1>2
    <2> DEFINE g == [i \in 0 .. n |-> IF i = m + 1 THEN Step(f, i) ELSE f[i]]
    <2>2. g \in [0 .. n -> T]
      <3>1. m + 1 \in 1 .. n /\ m \in 0 .. n /\ (m + 1) - 1 = m /\ m + 1 # 0
        OBVIOUS
      <3>2. Step(f, m + 1) \in T
        BY <3>1 DEF IsStep
      <3> QED
        BY <3>2
    <2>3. \A i \in 0 .. m : g[i] = f[i]
      OBVIOUS
    <2>4. ASSUME NEW i \in 0 .. m + 1 PROVE g[i] = Step(g, i)
      <3>1. i = 0 \/ i - 1 \in 0 .. m
        OBVIOUS
      <3>2. g[i] = Step(f, i)
        BY <2>1
      <3> HIDE DEF g
      <3> QED
        BY <2>3, <3>1, <3>2
    <2> HIDE DEF g
    <2> QED
      BY <2>2, <2>4
  <1> HIDE DEF Good
  <1>3. n \in Good
    BY <1>1, <1>2, SetInduction
  <1>4. PICK f \in [0 .. n -> T] : \A i \in 0 .. n : f[i] = Step(f, i)
    BY <1>3 DEF Good
  <1>5. IsUpward(f, n, T, base, G)
    BY <1>4 DEF IsUpward
  <1> QED
    BY <1>5

\* The values of such a function, one after the other.
LEMMA UpwardValues ==
  ASSUME NEW n \in Nat, NEW T, NEW base, NEW G, NEW f, IsUpward(f, n, T, base, G)
  PROVE  /\ f = [i \in 0 .. n |-> f[i]] /\ f[0] = base
         /\ \A i \in 1 .. n : f[i - 1] \in T /\ f[i] = G[<<i, f[i - 1]>>]
  <1>1. f \in [0 .. n -> T] /\ \A i \in 0 .. n : f[i] = IF i = 0 THEN base ELSE G[<<i, f[i - 1]>>]
    BY DEF IsUpward
  <1>2. \A i \in 1 .. n : i \in 0 .. n /\ i # 0 /\ i - 1 \in 0 .. n
    OBVIOUS
  <1>3. \A i \in 1 .. n : f[i - 1] \in T /\ f[i] = G[<<i, f[i - 1]>>]
    BY <1>1, <1>2
  <1>4. f[0] = base
    <2>1. 0 \in 0 .. n
      OBVIOUS
    <2> QED
      BY <1>1, <2>1
  <1>5. f = [i \in 0 .. n |-> f[i]]
    BY <1>1
  <1> QED
    BY <1>3, <1>4, <1>5

-----------------------------------------------------------------------------
(* The elements of a sequence.                                             *)


LEMMA ToSetLen ==
  ASSUME NEW S, NEW s \in Seq(S)
  PROVE  ToSet(s) = {s[i] : i \in 1 .. Len(s)} /\ Len(s) \in Nat /\ ToSet(s) \subseteq S
  BY DEF ToSet

LEMMA NothingInIt ==
  ASSUME NEW S, NEW s \in Seq(S), ToSet(s) = {}
  PROVE  s = <<>>
  BY EmptySeq DEF ToSet

LEMMA ToSetEmpty == ToSet(<<>>) = {}
  BY DEF ToSet

LEMMA ToSetAppend ==
  ASSUME NEW S, NEW s \in Seq(S), NEW m \in S
  PROVE  ToSet(Append(s, m)) = ToSet(s) \cup {m}
  <1>1. /\ DOMAIN Append(s, m) = 1 .. Len(s) + 1 /\ DOMAIN s = 1 .. Len(s) /\ Len(s) \in Nat
        /\ \A i \in 1 .. Len(s) : Append(s, m)[i] = s[i]
        /\ Append(s, m)[Len(s) + 1] = m
    OBVIOUS
  <1>2. 1 .. Len(s) + 1 = (1 .. Len(s)) \cup {Len(s) + 1}
    BY <1>1
  <1> QED
    BY <1>1, <1>2 DEF ToSet

LEMMA ToSetTail ==
  ASSUME NEW S, NEW s \in Seq(S), s # <<>>
  PROVE  ToSet(s) = {Head(s)} \cup ToSet(Tail(s))
  <1>1. /\ DOMAIN Tail(s) = 1 .. Len(s) - 1 /\ DOMAIN s = 1 .. Len(s)
        /\ Len(s) \in Nat /\ Len(s) >= 1
        /\ \A i \in 1 .. Len(s) - 1 : Tail(s)[i] = s[i + 1]
        /\ Head(s) = s[1]
    OBVIOUS
  <1> DEFINE t == Tail(s)
  <1> HIDE DEF t
  <1>2. ASSUME NEW i \in 1 .. Len(s)
        PROVE  s[i] = Head(s) \/ s[i] \in {t[j] : j \in 1 .. Len(s) - 1}
    <2>1. CASE i = 1
      BY <1>1, <2>1
    <2>2. CASE i # 1
      <3>1. i - 1 \in 1 .. Len(s) - 1 /\ (i - 1) + 1 = i
        BY <1>1, <2>2
      <3>2. t[i - 1] = s[i]
        BY <1>1, <3>1 DEF t
      <3> QED
        BY <3>1, <3>2
    <2> QED
      BY <2>1, <2>2
  <1>3. ASSUME NEW j \in 1 .. Len(s) - 1
        PROVE  t[j] \in {s[i] : i \in 1 .. Len(s)}
    <2>1. j + 1 \in 1 .. Len(s) /\ t[j] = s[j + 1]
      BY <1>1 DEF t
    <2> QED
      BY <2>1
  <1>4. Head(s) \in {s[i] : i \in 1 .. Len(s)}
    BY <1>1
  <1>5. ToSet(Tail(s)) = {t[j] : j \in 1 .. Len(s) - 1}
    BY <1>1 DEF ToSet, t
  <1>6. ToSet(s) = {s[i] : i \in 1 .. Len(s)}
    BY <1>1 DEF ToSet
  <1> QED
    BY <1>2, <1>3, <1>4, <1>5, <1>6

LEMMA ToSetConcat ==
  ASSUME NEW S, NEW s \in Seq(S), NEW r \in Seq(S)
  PROVE  ToSet(s \o r) = ToSet(s) \cup ToSet(r)
  <1>1. /\ Len(s \o r) = Len(s) + Len(r) /\ Len(s) \in Nat /\ Len(r) \in Nat
        /\ \A i \in 1 .. Len(s) + Len(r) :
             (s \o r)[i] = IF i <= Len(s) THEN s[i] ELSE r[i - Len(s)]
        /\ s \o r \in Seq(S)
    BY ConcatProperties
  <1>2. ASSUME NEW i \in 1 .. Len(s) PROVE i \in 1 .. Len(s \o r) /\ (s \o r)[i] = s[i]
    BY <1>1
  <1>3. ASSUME NEW i \in 1 .. Len(r)
        PROVE  Len(s) + i \in 1 .. Len(s \o r) /\ (s \o r)[Len(s) + i] = r[i]
    BY <1>1
  <1>4. ASSUME NEW i \in 1 .. Len(s \o r)
        PROVE  \/ i \in 1 .. Len(s) /\ (s \o r)[i] = s[i]
               \/ i - Len(s) \in 1 .. Len(r) /\ (s \o r)[i] = r[i - Len(s)]
    BY <1>1
  <1> DEFINE c == s \o r
  <1> HIDE DEF c
  <1>5. /\ ToSet(c) = {c[i] : i \in 1 .. Len(c)} /\ ToSet(s) = {s[i] : i \in 1 .. Len(s)}
        /\ ToSet(r) = {r[i] : i \in 1 .. Len(r)}
    BY <1>1, ToSetLen DEF c
  <1>6. ToSet(c) = ToSet(s) \cup ToSet(r)
    BY <1>2, <1>3, <1>4, <1>5 DEF c
  <1> QED
    BY <1>6 DEF c

\* A sequence whose elements are in a set is a sequence over it.
LEMMA SeqOver ==
  ASSUME NEW S, NEW s \in Seq(S), NEW V, ToSet(s) \subseteq V
  PROVE  s \in Seq(V)
  <1>1. Len(s) \in Nat /\ s \in [1 .. Len(s) -> S] /\ \A i \in 1 .. Len(s) : s[i] \in V
    BY ToSetLen, LenProperties
  <1>2. s \in [1 .. Len(s) -> V]
    BY <1>1
  <1> QED
    BY <1>1, <1>2, SeqDef

\* Nothing occurs twice.
Distinct(s) == \A i, j \in 1 .. Len(s) : s[i] = s[j] => i = j

LEMMA DistinctEmpty == Distinct(<<>>)
  BY DEF Distinct

LEMMA SingletonFacts ==
  ASSUME NEW S, NEW m \in S
  PROVE  /\ <<m>> \in Seq(S) /\ <<m>> # <<>> /\ Last(<<m>>) = m
         /\ ToSet(<<m>>) = {m} /\ Distinct(<<m>>)
  <1>1. <<m>> \in Seq(S) /\ Len(<<m>>) = 1 /\ <<m>>[1] = m /\ <<m>> # <<>>
    OBVIOUS
  <1>2. 1 .. 1 = {1}
    OBVIOUS
  <1>3. ToSet(<<m>>) = {<<m>>[i] : i \in 1 .. Len(<<m>>)}
    BY <1>1, ToSetLen
  <1> DEFINE s == <<m>>
  <1> HIDE DEF s
  <1>4. ToSet(s) = {m}
    BY <1>1, <1>2, <1>3 DEF s
  <1>5. Distinct(s) /\ Last(s) = m
    BY <1>1, <1>2 DEF Distinct, Last, s
  <1> QED
    BY <1>1, <1>4, <1>5 DEF s

\* The last element and the rest.
LEMMA FrontLast ==
  ASSUME NEW S, NEW s \in Seq(S), s # <<>>
  PROVE  /\ Front(s) \in Seq(S) /\ Last(s) \in S
         /\ ToSet(s) = ToSet(Front(s)) \cup {Last(s)}
         /\ Distinct(s) => Distinct(Front(s)) /\ Last(s) \notin ToSet(Front(s))
  <1> DEFINE f == Front(s)
             n == Len(s) - 1
  <1>1. n \in Nat /\ Len(s) = n + 1 /\ Last(s) = s[n + 1]
    BY DEF Last
  <1>2. f \in Seq(S) /\ Len(f) = n /\ \A i \in 1 .. n : f[i] = s[i]
    BY <1>1 DEF Front
  <1>3. Last(s) \in S
    BY <1>1 DEF Last
  <1>4. 1 .. Len(s) = (1 .. n) \cup {n + 1}
    BY <1>1
  <1>5. ToSet(s) = {s[i] : i \in 1 .. Len(s)} /\ ToSet(f) = {f[i] : i \in 1 .. n}
    BY <1>2, ToSetLen
  <1> HIDE DEF f, n
  <1>6. ToSet(s) = ToSet(f) \cup {Last(s)}
    BY <1>1, <1>2, <1>4, <1>5
  <1>7. ASSUME Distinct(s) PROVE Distinct(f) /\ Last(s) \notin ToSet(f)
    <2>1. DOMAIN s = 1 .. Len(s) /\ DOMAIN f = 1 .. n
      BY <1>2
    <2>2. \A i, j \in 1 .. Len(s) : s[i] = s[j] => i = j
      BY <1>7, <2>1 DEF Distinct
    <2>3. Distinct(f)
      BY <1>1, <1>2, <1>4, <2>1, <2>2 DEF Distinct
    <2>4. Last(s) \notin ToSet(f)
      <3> SUFFICES ASSUME NEW i \in 1 .. n, f[i] = s[n + 1] PROVE FALSE
        BY <1>1, <1>5
      <3>1. i \in 1 .. Len(s) /\ n + 1 \in 1 .. Len(s) /\ i # n + 1 /\ s[i] = s[n + 1]
        BY <1>1, <1>2, <1>4
      <3> QED
        BY <2>2, <3>1
    <2> QED
      BY <2>3, <2>4
  <1> QED
    BY <1>2, <1>3, <1>6, <1>7 DEF f

\* A sequence that is not empty is its front and its last element.
LEMMA LastOfLonger ==
  ASSUME NEW S, NEW k \in Nat, NEW s \in Seq(S), Len(s) = k + 1
  PROVE  \E r \in Seq(S), m \in S : s = Append(r, m) /\ Len(r) = k
  <1> DEFINE r == SubSeq(s, 1, k)
             m == s[k + 1]
             t == Append(r, m)
  <1>1. r \in Seq(S) /\ Len(r) = k /\ m \in S /\ \A i \in 1 .. k : r[i] = s[i]
    OBVIOUS
  <1> HIDE DEF r
  <1>2. t \in Seq(S) /\ Len(t) = Len(s) /\ \A i \in 1 .. Len(s) : t[i] = s[i]
    BY <1>1
  <1> HIDE DEF t
  <1>3. t = s
    BY <1>2, SeqEqual
  <1> QED
    BY <1>1, <1>3 DEF t

LEMMA AppendFrontLast ==
  ASSUME NEW S, NEW s \in Seq(S)
  PROVE  /\ s # <<>> => s = Append(Front(s), Last(s))
         /\ \A m \in S : Append(s, m) # <<>> /\ Front(Append(s, m)) = s /\ Last(Append(s, m)) = m
  <1>1. ASSUME s # <<>> PROVE s = Append(Front(s), Last(s))
    <2> DEFINE f == Front(s)
               n == Len(s) - 1
               t == Append(f, Last(s))
    <2>1. n \in Nat /\ Len(s) = n + 1 /\ Last(s) = s[n + 1] /\ Last(s) \in S
      BY <1>1 DEF Last
    <2>2. f \in Seq(S) /\ Len(f) = n /\ \A i \in 1 .. n : f[i] = s[i]
      BY <2>1 DEF Front
    <2> HIDE DEF f, n
    <2>3. t \in Seq(S) /\ Len(t) = Len(s) /\ \A i \in 1 .. Len(s) : t[i] = s[i]
      BY <2>1, <2>2
    <2> HIDE DEF t
    <2>4. t = s
      BY <2>3, SeqEqual
    <2> QED
      BY <2>4 DEF t, f
  <1>2. ASSUME NEW m \in S
        PROVE  Append(s, m) # <<>> /\ Front(Append(s, m)) = s /\ Last(Append(s, m)) = m
    <2> DEFINE t == Append(s, m)
    <2>1. /\ t \in Seq(S) /\ Len(t) = Len(s) + 1 /\ t[Len(s) + 1] = m /\ Len(s) \in Nat
          /\ \A i \in 1 .. Len(s) : t[i] = s[i]
      OBVIOUS
    <2> HIDE DEF t
    <2>2. t # <<>> /\ Last(t) = m /\ Len(t) - 1 = Len(s)
      BY <2>1 DEF Last
    <2>3. /\ Front(t) \in Seq(S) /\ Len(Front(t)) = Len(s)
          /\ \A i \in 1 .. Len(s) : Front(t)[i] = s[i]
      BY <2>1, <2>2 DEF Front
    <2>4. Front(t) = s
      BY <2>3, SeqEqual
    <2> QED
      BY <2>2, <2>4 DEF t
  <1> QED
    BY <1>1, <1>2

LEMMA DistinctAppend ==
  ASSUME NEW S, NEW s \in Seq(S), NEW m \in S, Distinct(s), m \notin ToSet(s)
  PROVE  Distinct(Append(s, m))
  <1>1. /\ DOMAIN Append(s, m) = 1 .. Len(s) + 1 /\ DOMAIN s = 1 .. Len(s) /\ Len(s) \in Nat
        /\ \A i \in 1 .. Len(s) : Append(s, m)[i] = s[i]
        /\ Append(s, m)[Len(s) + 1] = m
    OBVIOUS
  <1>2. 1 .. Len(s) + 1 = (1 .. Len(s)) \cup {Len(s) + 1}
    BY <1>1
  <1>3. \A i, j \in 1 .. Len(s) : s[i] = s[j] => i = j
    BY <1>1 DEF Distinct
  <1>4. \A i \in 1 .. Len(s) : s[i] # m
    BY <1>1 DEF ToSet
  <1> QED
    BY <1>1, <1>2, <1>3, <1>4 DEF Distinct

LEMMA DistinctConcat ==
  ASSUME NEW S, NEW s \in Seq(S), NEW r \in Seq(S), Distinct(s), Distinct(r),
         ToSet(s) \cap ToSet(r) = {}
  PROVE  Distinct(s \o r)
  <1>1. /\ Len(s \o r) = Len(s) + Len(r) /\ Len(s) \in Nat /\ Len(r) \in Nat
        /\ \A i \in 1 .. Len(s) + Len(r) :
             (s \o r)[i] = IF i <= Len(s) THEN s[i] ELSE r[i - Len(s)]
        /\ s \o r \in Seq(S)
    BY ConcatProperties
  <1>2. DOMAIN s = 1 .. Len(s) /\ DOMAIN r = 1 .. Len(r) /\ DOMAIN (s \o r) = 1 .. Len(s) + Len(r)
    BY <1>1
  <1>3. /\ \A i, j \in 1 .. Len(s) : s[i] = s[j] => i = j
        /\ \A i, j \in 1 .. Len(r) : r[i] = r[j] => i = j
        /\ \A i \in 1 .. Len(s), j \in 1 .. Len(r) : s[i] # r[j]
    <2>1. ToSet(s) = {s[i] : i \in 1 .. Len(s)} /\ ToSet(r) = {r[i] : i \in 1 .. Len(r)}
      BY ToSetLen
    <2>2. \A i \in 1 .. Len(s), j \in 1 .. Len(r) : s[i] # r[j]
      BY <2>1
    <2> QED
      BY <2>2 DEF Distinct
  <1> DEFINE c == s \o r
  <1> HIDE DEF c
  <1>4. \A i \in 1 .. Len(s) + Len(r) :
           \/ i \in 1 .. Len(s) /\ c[i] = s[i]
           \/ i - Len(s) \in 1 .. Len(r) /\ c[i] = r[i - Len(s)]
    BY <1>1 DEF c
  <1> SUFFICES ASSUME NEW i \in 1 .. Len(s) + Len(r), NEW j \in 1 .. Len(s) + Len(r), c[i] = c[j]
               PROVE  i = j
    BY <1>2 DEF Distinct, c
  <1>5. CASE i \in 1 .. Len(s) /\ c[i] = s[i] /\ j \in 1 .. Len(s) /\ c[j] = s[j]
    BY <1>3, <1>5
  <1>6. CASE /\ i - Len(s) \in 1 .. Len(r) /\ c[i] = r[i - Len(s)]
             /\ j - Len(s) \in 1 .. Len(r) /\ c[j] = r[j - Len(s)]
    <2>1. i - Len(s) = j - Len(s)
      BY <1>3, <1>6
    <2> QED
      BY <1>1, <2>1
  <1>7. CASE i \in 1 .. Len(s) /\ c[i] = s[i] /\ j - Len(s) \in 1 .. Len(r) /\ c[j] = r[j - Len(s)]
    BY <1>3, <1>7
  <1>8. CASE j \in 1 .. Len(s) /\ c[j] = s[j] /\ i - Len(s) \in 1 .. Len(r) /\ c[i] = r[i - Len(s)]
    BY <1>3, <1>8
  <1> QED
    BY <1>4, <1>5, <1>6, <1>7, <1>8

\* One sequence is another one followed by a third.
Joins(x, s, t) == x = s \o t

LEMMA JoinsAppend ==
  ASSUME NEW S, NEW s \in Seq(S), NEW t \in Seq(S), NEW m \in S, NEW x, Joins(x, s, t)
  PROVE  Joins(Append(x, m), s, Append(t, m))
  <1> DEFINE l == Append(s \o t, m)
             r == s \o Append(t, m)
  <1>1. Append(t, m) \in Seq(S) /\ s \o t \in Seq(S) /\ Len(s) \in Nat /\ Len(t) \in Nat
    BY ConcatProperties
  <1>2. /\ l \in Seq(S) /\ Len(l) = Len(s) + Len(t) + 1
        /\ r \in Seq(S) /\ Len(r) = Len(s) + Len(t) + 1
    BY <1>1, ConcatProperties
  <1>3. ASSUME NEW i \in 1 .. Len(s) + Len(t) + 1 PROVE l[i] = r[i]
    BY <1>1, ConcatProperties
  <1> HIDE DEF l, r
  <1>4. l = r
    BY <1>2, <1>3, SeqEqual
  <1> QED
    BY <1>4 DEF l, r, Joins

LEMMA JoinsCons ==
  ASSUME NEW S, NEW s \in Seq(S), NEW t \in Seq(S), NEW m \in S, NEW x, Joins(x, s, t)
  PROVE  Joins(<<m>> \o x, <<m>> \o s, t)
  <1> DEFINE l == <<m>> \o (s \o t)
             r == (<<m>> \o s) \o t
  <1>1. <<m>> \in Seq(S) /\ <<m>> \o s \in Seq(S) /\ s \o t \in Seq(S) /\ Len(s) \in Nat /\ Len(t) \in Nat
    BY ConcatProperties
  <1>2. /\ l \in Seq(S) /\ Len(l) = Len(s) + Len(t) + 1
        /\ r \in Seq(S) /\ Len(r) = Len(s) + Len(t) + 1
    BY <1>1, ConcatProperties
  <1>3. ASSUME NEW i \in 1 .. Len(s) + Len(t) + 1 PROVE l[i] = r[i]
    BY <1>1, ConcatProperties
  <1> HIDE DEF l, r
  <1>4. l = r
    BY <1>2, <1>3, SeqEqual
  <1> QED
    BY <1>4 DEF l, r, Joins

LEMMA JoinsHead ==
  ASSUME NEW S, NEW s \in Seq(S), s # <<>>, NEW t \in Seq(S), NEW x, Joins(x, s, t)
  PROVE  Head(x) = Head(s)
  <1>1. Len(s) \in Nat /\ Len(s) >= 1 /\ Len(t) \in Nat /\ Head(s) = s[1]
    OBVIOUS
  <1> DEFINE c == s \o t
  <1>2. c \in Seq(S) /\ Len(c) = Len(s) + Len(t) /\ c[1] = s[1]
    BY <1>1, ConcatProperties
  <1> HIDE DEF c
  <1>3. Head(c) = c[1]
    BY <1>1, <1>2
  <1> QED
    BY <1>1, <1>2, <1>3 DEF c, Joins

\* A sequence with one more element in front.
LEMMA ConsFacts ==
  ASSUME NEW S, NEW s \in Seq(S), NEW m \in S
  PROVE  /\ <<m>> \o s \in Seq(S) /\ Len(<<m>> \o s) = Len(s) + 1 /\ <<m>> \o s # <<>>
         /\ (<<m>> \o s)[1] = m /\ \A i \in 1 .. Len(s) : (<<m>> \o s)[i + 1] = s[i]
         /\ Head(<<m>> \o s) = m
  <1>1. <<m>> \in Seq(S) /\ Len(<<m>>) = 1 /\ <<m>>[1] = m /\ Len(s) \in Nat
    OBVIOUS
  <1> DEFINE c == <<m>> \o s
  <1>2. c \in Seq(S) /\ Len(c) = Len(s) + 1 /\ c[1] = m /\ \A i \in 1 .. Len(s) : c[i + 1] = s[i]
    BY <1>1, ConcatProperties
  <1> HIDE DEF c
  <1>3. c # <<>> /\ Head(c) = c[1]
    BY <1>1, <1>2
  <1> QED
    BY <1>2, <1>3 DEF c

LEMMA PrefixFacts ==
  ASSUME NEW S, NEW s \in Seq(S), NEW t \in Seq(S)
  PROVE  IsPrefix(<<>>, s) /\ IsPrefix(s, s) /\ IsPrefix(s, s \o t)
  <1>1. Len(s) \in Nat /\ Len(t) \in Nat /\ Len(<<>>) = 0
    OBVIOUS
  <1>2. SubSeq(<<>>, 1, 0) = <<>> /\ SubSeq(s, 1, 0) = <<>>
    OBVIOUS
  <1>3. IsPrefix(<<>>, s)
    BY <1>1, <1>2 DEF IsPrefix
  <1>4. IsPrefix(s, s)
    BY <1>1 DEF IsPrefix
  <1> DEFINE c == s \o t
  <1>5. c \in Seq(S) /\ Len(c) = Len(s) + Len(t) /\ \A i \in 1 .. Len(s) : c[i] = s[i]
    BY <1>1, ConcatProperties
  <1> HIDE DEF c
  <1>6. SubSeq(s, 1, Len(s)) = SubSeq(c, 1, Len(s))
    BY <1>1, <1>5
  <1>7. Len(s) <= Len(c)
    BY <1>1, <1>5
  <1> QED
    BY <1>3, <1>4, <1>6, <1>7 DEF IsPrefix, c

-----------------------------------------------------------------------------
(* The concatenation of a sequence of sequences.                           *)

\* Concatenation under a name of its own, for the lemmas to be instantiated.
Then(s, t) == s \o t

LEMMA ThenFacts ==
  ASSUME NEW T
  PROVE  /\ \A s, t \in Seq(T) : Then(s, t) \in Seq(T)
         /\ \A s \in Seq(T) : Then(s, <<>>) = s /\ Then(<<>>, s) = s
         /\ \A s, t, u \in Seq(T) : Then(Then(s, t), u) = Then(s, Then(t, u))
         /\ \A s \in Seq(T), m \in T : Then(s, <<m>>) = Append(s, m) /\ <<m>> \in Seq(T)
  <1>1. \A s, t \in Seq(T) : Then(s, t) \in Seq(T)
    BY ConcatProperties DEF Then
  <1>2. \A s \in Seq(T) : Then(s, <<>>) = s /\ Then(<<>>, s) = s
    BY ConcatEmptySeq DEF Then
  <1>3. ASSUME NEW s \in Seq(T), NEW t \in Seq(T), NEW u \in Seq(T)
        PROVE  Then(Then(s, t), u) = Then(s, Then(t, u))
    BY ConcatAssociative DEF Then
  <1>4. \A s \in Seq(T), m \in T : Then(s, <<m>>) = Append(s, m) /\ <<m>> \in Seq(T)
    BY AppendIsConcat DEF Then
  <1> QED
    BY <1>1, <1>2, <1>3, <1>4

LEMMA ThenAppend ==
  ASSUME NEW T, NEW s \in Seq(T), NEW t \in Seq(T), NEW m \in T
  PROVE  Then(s, Append(t, m)) = Append(Then(s, t), m)
  <1>1. Joins(Then(s, t), s, t)
    BY DEF Joins, Then
  <1>2. Joins(Append(Then(s, t), m), s, Append(t, m))
    BY <1>1, JoinsAppend
  <1> QED
    BY <1>2 DEF Joins, Then

\* The concatenations of the first elements of s, up to all of them.
IsFlat(f, s, T) ==
    /\ f \in [0 .. Len(s) -> Seq(T)] /\ f[0] = <<>>
    /\ \A i \in 1 .. Len(s) : f[i] = f[i - 1] \o s[i]

LEMMA FlatExists ==
  ASSUME NEW T, NEW s \in Seq(Seq(T))
  PROVE  \E f : IsFlat(f, s, T)
  <1> DEFINE n == Len(s)
             D == (1 .. n) \X Seq(T)
             G == [d \in D |-> d[2] \o s[d[1]]]
  <1>1. n \in Nat /\ \A i \in 1 .. n : s[i] \in Seq(T)
    OBVIOUS
  <1>2. <<>> \in Seq(T)
    OBVIOUS
  <1>3. ASSUME NEW d \in D PROVE d[2] \o s[d[1]] \in Seq(T)
    BY <1>1, ConcatProperties
  <1>4. IsStep(G, 1 .. n, Seq(T))
    BY <1>3 DEF IsStep
  <1>5. \A i \in 1 .. n, x \in Seq(T) : G[<<i, x>>] = x \o s[i]
    OBVIOUS
  <1> HIDE DEF G, D, n
  <1>6. PICK f : IsUpward(f, n, Seq(T), <<>>, G)
    BY <1>1, <1>2, <1>4, UpwardRecursion
  <1>7. f[0] = <<>> /\ \A i \in 1 .. n : f[i - 1] \in Seq(T) /\ f[i] = G[<<i, f[i - 1]>>]
    BY <1>1, <1>6, UpwardValues
  <1>8. \A i \in 1 .. n : f[i] = f[i - 1] \o s[i]
    BY <1>5, <1>7
  <1>9. f \in [0 .. n -> Seq(T)]
    BY <1>6 DEF IsUpward
  <1> QED
    BY <1>7, <1>8, <1>9 DEF IsFlat, n

LEMMA FlattenIsFlat ==
  ASSUME NEW T, NEW s \in Seq(Seq(T)), NEW f, IsFlat(f, s, T)
  PROVE  FlattenSeq(s) = f[Len(s)]
  <1> DEFINE n == Len(s)
  <1>1. n \in Nat /\ \A i \in 1 .. n : s[i] \in Seq(T)
    OBVIOUS
  <1>2. f \in [0 .. n -> Seq(T)] /\ f[0] = <<>> /\ \A i \in 1 .. n : f[i] = f[i - 1] \o s[i]
    BY DEF IsFlat
  <1>3. CASE n = 0
    <2>1. s = <<>>
      BY <1>3
    <2> QED
      BY <1>2, <1>3, <2>1 DEF FlattenSeq
  <1>4. CASE n # 0
    <2> DEFINE g == [i \in 1 .. n |-> f[i]]
               R(h) == h = [i \in 1 .. n |-> IF i = 1 THEN s[i] ELSE h[i - 1] \o s[i]]
               h == CHOOSE x : R(x)
    <2>0. 1 \in 1 .. n /\ 0 \in 0 .. n /\ 1 - 1 = 0
      BY <1>1, <1>4
    <2>1. f[1] = s[1]
      <3>1. f[1] = <<>> \o s[1] /\ s[1] \in Seq(T)
        BY <1>1, <1>2, <2>0
      <3>2. <<>> \o s[1] = s[1]
        BY <3>1, ConcatEmptySeq
      <3> QED
        BY <3>1, <3>2
    <2>2. ASSUME NEW i \in 1 .. n PROVE g[i] = IF i = 1 THEN s[i] ELSE g[i - 1] \o s[i]
      <3>1. i = 1 \/ i - 1 \in 1 .. n
        OBVIOUS
      <3> QED
        BY <1>2, <2>1, <3>1
    <2>3. R(g)
      <3>1. g = [i \in 1 .. n |-> g[i]]
        OBVIOUS
      <3> HIDE DEF g
      <3> QED
        BY <2>2, <3>1, Zenon
    <2>4. R(h)
      <3> HIDE DEF g
      <3> QED
        BY <2>3, Zenon
    <2>5. FlattenSeq(s) = h[n]
      BY <1>4 DEF FlattenSeq
    <2> HIDE DEF h
    <2>6. \A i \in 1 .. n : h[i] = IF i = 1 THEN s[i] ELSE h[i - 1] \o s[i]
      BY <2>4
    <2> DEFINE Same == {m \in Nat : m + 1 <= n => h[m + 1] = f[m + 1]}
    <2>7. 0 \in Same
      BY <2>0, <2>1, <2>6
    <2>8. ASSUME NEW m \in Nat, m \in Same PROVE m + 1 \in Same
      <3> SUFFICES ASSUME (m + 1) + 1 <= n PROVE h[(m + 1) + 1] = f[(m + 1) + 1]
        OBVIOUS
      <3>1. (m + 1) + 1 \in 1 .. n /\ (m + 1) + 1 # 1 /\ ((m + 1) + 1) - 1 = m + 1 /\ m + 1 <= n
        BY <1>1
      <3>2. h[m + 1] = f[m + 1]
        BY <2>8, <3>1
      <3>3. h[(m + 1) + 1] = h[m + 1] \o s[(m + 1) + 1]
        BY <2>6, <3>1
      <3>4. f[(m + 1) + 1] = f[m + 1] \o s[(m + 1) + 1]
        BY <1>2, <3>1
      <3> QED
        BY <3>2, <3>3, <3>4
    <2> HIDE DEF Same
    <2>9. n - 1 \in Nat /\ (n - 1) + 1 = n
      BY <1>1, <1>4
    <2>10. n - 1 \in Same
      BY <2>7, <2>8, <2>9, SetInduction
    <2>11. h[n] = f[n]
      BY <2>9, <2>10 DEF Same
    <2> QED
      BY <2>5, <2>11
  <1> QED
    BY <1>3, <1>4


LEMMA FlattenInSeq ==
  ASSUME NEW T, NEW s \in Seq(Seq(T))
  PROVE  FlattenSeq(s) \in Seq(T)
  <1>1. PICK f : IsFlat(f, s, T)
    BY FlatExists
  <1>2. FlattenSeq(s) = f[Len(s)]
    BY <1>1, FlattenIsFlat
  <1> QED
    BY <1>1, <1>2 DEF IsFlat

LEMMA FlattenAppend ==
  ASSUME NEW T, NEW s \in Seq(Seq(T)), NEW m \in Seq(T)
  PROVE  FlattenSeq(Append(s, m)) = FlattenSeq(s) \o m
  <1> DEFINE t == Append(s, m)
             n == Len(s)
  <1>1. /\ t \in Seq(Seq(T)) /\ Len(t) = n + 1 /\ n \in Nat
        /\ t[n + 1] = m /\ \A i \in 1 .. n : t[i] = s[i]
    OBVIOUS
  <1> HIDE DEF t
  <1>2. PICK f : IsFlat(f, t, T)
    BY <1>1, FlatExists
  <1>3. /\ f \in [0 .. n + 1 -> Seq(T)] /\ f[0] = <<>>
        /\ \A i \in 1 .. n + 1 : f[i] = f[i - 1] \o t[i]
    BY <1>1, <1>2 DEF IsFlat
  <1> DEFINE g == [i \in 0 .. n |-> f[i]]
  <1>4. IsFlat(g, s, T)
    <2>1. g \in [0 .. n -> Seq(T)] /\ g[0] = <<>>
      BY <1>1, <1>3
    <2>2. ASSUME NEW i \in 1 .. n PROVE g[i] = g[i - 1] \o s[i]
      <3>1. i \in 0 .. n /\ i - 1 \in 0 .. n /\ i \in 1 .. n + 1
        BY <1>1
      <3>2. g[i] = f[i] /\ g[i - 1] = f[i - 1]
        BY <3>1
      <3>3. f[i] = f[i - 1] \o t[i]
        BY <1>3, <3>1
      <3> HIDE DEF g
      <3> QED
        BY <1>1, <3>2, <3>3
    <2> HIDE DEF g
    <2> QED
      BY <2>1, <2>2 DEF IsFlat
  <1>5. g[n] = f[n]
    BY <1>1
  <1> HIDE DEF g
  <1>6. FlattenSeq(s) = g[n]
    BY <1>4, FlattenIsFlat
  <1>7. FlattenSeq(t) = f[n + 1]
    BY <1>1, <1>2, FlattenIsFlat
  <1>8. n + 1 \in 1 .. n + 1 /\ (n + 1) - 1 = n
    BY <1>1
  <1>9. f[n + 1] = f[n] \o m
    BY <1>1, <1>3, <1>8
  <1>10. FlattenSeq(t) = FlattenSeq(s) \o m
    BY <1>5, <1>6, <1>7, <1>9
  <1> QED
    BY <1>10 DEF t

LEMMA FlattenTail ==
  ASSUME NEW T, NEW s \in Seq(Seq(T)), s # <<>>
  PROVE  FlattenSeq(s) = Head(s) \o FlattenSeq(Tail(s))
  <1> DEFINE t == Tail(s)
             h == Head(s)
             n == Len(t)
  <1>1. /\ t \in Seq(Seq(T)) /\ Len(s) = n + 1 /\ n \in Nat
        /\ h = s[1] /\ h \in Seq(T) /\ \A i \in 1 .. n : t[i] = s[i + 1] /\ t[i] \in Seq(T)
    OBVIOUS
  <1> HIDE DEF t, h
  <1>2. PICK f : IsFlat(f, s, T)
    BY FlatExists
  <1>3. PICK g : IsFlat(g, t, T)
    BY <1>1, FlatExists
  <1>4. /\ f[0] = <<>> /\ \A i \in 1 .. n + 1 : f[i] = Then(f[i - 1], s[i])
    BY <1>1, <1>2 DEF IsFlat, Then
  <1>5. /\ g \in [0 .. n -> Seq(T)] /\ g[0] = <<>> /\ \A i \in 1 .. n : g[i] = Then(g[i - 1], t[i])
    BY <1>3 DEF IsFlat, Then
  <1> DEFINE Good == {i \in Nat : i <= n => f[i + 1] = Then(h, g[i])}
  <1>6. 0 \in Good
    <2>1. 1 \in 1 .. n + 1 /\ 1 - 1 = 0 /\ 0 + 1 = 1
      BY <1>1
    <2>2. f[1] = Then(<<>>, h)
      BY <1>1, <1>4, <2>1
    <2>3. Then(<<>>, h) = h /\ Then(h, <<>>) = h
      BY <1>1, ThenFacts
    <2> QED
      BY <1>5, <2>1, <2>2, <2>3
  <1>7. ASSUME NEW i \in Nat, i \in Good PROVE i + 1 \in Good
    <2> SUFFICES ASSUME i + 1 <= n PROVE f[(i + 1) + 1] = Then(h, g[i + 1])
      OBVIOUS
    <2>1. /\ i + 1 \in 1 .. n /\ (i + 1) - 1 = i /\ i \in 0 .. n /\ i <= n
          /\ (i + 1) + 1 \in 1 .. n + 1 /\ ((i + 1) + 1) - 1 = i + 1
      BY <1>1
    <2>2. f[i + 1] = Then(h, g[i])
      BY <1>7, <2>1
    <2>3. f[(i + 1) + 1] = Then(f[i + 1], t[i + 1]) /\ t[i + 1] \in Seq(T)
      BY <1>1, <1>4, <2>1
    <2>4. g[i + 1] = Then(g[i], t[i + 1]) /\ g[i] \in Seq(T)
      BY <1>5, <2>1
    <2>5. Then(Then(h, g[i]), t[i + 1]) = Then(h, Then(g[i], t[i + 1]))
      <3>1. h \in Seq(T) /\ g[i] \in Seq(T) /\ t[i + 1] \in Seq(T)
        BY <1>1, <2>3, <2>4
      <3>2. \A x, y, z \in Seq(T) : Then(Then(x, y), z) = Then(x, Then(y, z))
        BY ThenFacts
      <3> QED
        BY <3>1, <3>2
    <2> QED
      BY <2>2, <2>3, <2>4, <2>5
  <1> HIDE DEF Good
  <1>8. n \in Good
    BY <1>1, <1>6, <1>7, SetInduction
  <1>9. f[n + 1] = Then(h, g[n])
    BY <1>1, <1>8 DEF Good
  <1>10. FlattenSeq(s) = f[n + 1] /\ FlattenSeq(t) = g[n]
    BY <1>1, <1>2, <1>3, FlattenIsFlat
  <1> QED
    BY <1>9, <1>10 DEF t, h, Then

\* Five sequences one after the other, and how their ends can move.
LEMMA Regroup ==
  ASSUME NEW T, NEW a \in Seq(T), NEW b \in Seq(T), NEW c \in Seq(T), NEW d \in Seq(T), NEW e \in Seq(T)
  PROVE  /\ Then(Then(Then(Then(a, b), c), d), e) = Then(Then(a, b), Then(c, Then(d, e)))
         /\ Then(Then(a, b), c) = Then(a, Then(b, c))
  <1>1. /\ \A s, t \in Seq(T) : Then(s, t) \in Seq(T)
        /\ \A s, t, u \in Seq(T) : Then(Then(s, t), u) = Then(s, Then(t, u))
    BY ThenFacts
  <1> DEFINE p == Then(a, b)
  <1>2. p \in Seq(T) /\ Then(p, c) \in Seq(T) /\ Then(d, e) \in Seq(T)
    BY <1>1
  <1> HIDE DEF p
  <1>3. Then(Then(Then(p, c), d), e) = Then(Then(p, c), Then(d, e))
    BY <1>1, <1>2
  <1>4. Then(Then(p, c), Then(d, e)) = Then(p, Then(c, Then(d, e)))
    BY <1>1, <1>2
  <1> QED
    BY <1>1, <1>3, <1>4 DEF p

\* The first element of a sequence can go to the one before it.
LEMMA HeadFirst ==
  ASSUME NEW T, NEW s \in Seq(T), s # <<>>, NEW b \in Seq(T)
  PROVE  /\ Append(b, Head(s)) \in Seq(T) /\ Tail(s) \in Seq(T)
         /\ Then(Append(b, Head(s)), Tail(s)) = Then(b, s)
  <1> DEFINE m == Head(s)
             l == Append(b, m) \o Tail(s)
             r == b \o s
  <1>1. m \in T /\ m = s[1] /\ Tail(s) \in Seq(T) /\ Len(s) \in Nat \ {0} /\ Len(b) \in Nat
        /\ Len(Tail(s)) = Len(s) - 1 /\ \A i \in 1 .. Len(s) - 1 : Tail(s)[i] = s[i + 1]
    OBVIOUS
  <1>2. /\ Append(b, m) \in Seq(T) /\ Len(Append(b, m)) = Len(b) + 1
        /\ \A i \in 1 .. Len(b) : Append(b, m)[i] = b[i]
        /\ Append(b, m)[Len(b) + 1] = m
    BY <1>1, AppendProperties
  <1> HIDE DEF m
  <1>3. /\ l \in Seq(T) /\ Len(l) = Len(b) + Len(s)
        /\ \A i \in 1 .. Len(b) + Len(s) :
             l[i] = IF i <= Len(b) + 1 THEN Append(b, m)[i] ELSE Tail(s)[i - (Len(b) + 1)]
    <2> DEFINE x == Append(b, m)
               y == Tail(s)
    <2> HIDE DEF x, y
    <2>1. /\ x \o y \in Seq(T) /\ Len(x \o y) = Len(x) + Len(y)
          /\ \A i \in 1 .. Len(x) + Len(y) : (x \o y)[i] = IF i <= Len(x) THEN x[i] ELSE y[i - Len(x)]
      BY <1>1, <1>2, ConcatProperties DEF x, y
    <2>2. Len(x) = Len(b) + 1 /\ Len(x) + Len(y) = Len(b) + Len(s)
      BY <1>1, <1>2 DEF x, y
    <2> QED
      BY <2>1, <2>2 DEF x, y
  <1>4. /\ r \in Seq(T) /\ Len(r) = Len(b) + Len(s)
        /\ \A i \in 1 .. Len(b) + Len(s) : r[i] = IF i <= Len(b) THEN b[i] ELSE s[i - Len(b)]
    BY ConcatProperties
  <1> HIDE DEF l, r
  <1>5. ASSUME NEW i \in 1 .. Len(b) + Len(s) PROVE l[i] = r[i]
    <2>1. CASE i <= Len(b)
      <3>1. i \in 1 .. Len(b) /\ i <= Len(b) + 1
        BY <1>1, <2>1
      <3> QED
        BY <1>2, <1>3, <1>4, <2>1, <3>1
    <2>2. CASE i = Len(b) + 1
      <3>1. i <= Len(b) + 1 /\ ~ (i <= Len(b)) /\ i - Len(b) = 1
        BY <1>1, <2>2
      <3> QED
        BY <1>1, <1>2, <1>3, <1>4, <2>2, <3>1
    <2>3. CASE i > Len(b) + 1
      <3>1. /\ ~ (i <= Len(b) + 1) /\ ~ (i <= Len(b))
            /\ i - (Len(b) + 1) \in 1 .. Len(s) - 1 /\ (i - (Len(b) + 1)) + 1 = i - Len(b)
        BY <1>1, <2>3
      <3> QED
        BY <1>1, <1>3, <1>4, <3>1
    <2> QED
      BY <1>1, <2>1, <2>2, <2>3
  <1>6. l = r
    BY <1>3, <1>4, <1>5, SeqEqual
  <1> QED
    BY <1>1, <1>2, <1>6 DEF l, r, m, Then

=============================================================================
