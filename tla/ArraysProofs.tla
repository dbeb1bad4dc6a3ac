---------------------------- MODULE ArraysProofs ----------------------------
(***************************************************************************)
(* What Filter returns, for any sequence and any set of its indices.       *)
(***************************************************************************)
EXTENDS Arrays, Sequences, FiniteSetTheorems, SequenceTheorems, TLAPS

(* The size of an initial interval of the naturals. *)
LEMMA CountTo ==
    ASSUME NEW n \in Nat
    PROVE  IsFiniteSet(1..n) /\ Cardinality(1..n) = n
<1>1. 1 \in Int /\ n \in Int
  OBVIOUS
<1>2. IsFiniteSet(1..n) /\ Cardinality(1..n) = IF 1 > n THEN 0 ELSE n - 1 + 1
  BY <1>1, FS_Interval, Zenon
<1> QED
  BY <1>2

(* A set of indices that has, with an index, every smaller one is an initial *)
(* interval.                                                                 *)
LEMMA InitialInterval ==
    ASSUME NEW n \in Nat, NEW S \in SUBSET (1..n),
           \A k \in S : \A j \in 1..k : j \in S
    PROVE  Cardinality(S) \in 0..n /\ S = 1..Cardinality(S)
<1>1. IsFiniteSet(1..n) /\ Cardinality(1..n) = n
  BY CountTo
<1>2. IsFiniteSet(S) /\ Cardinality(S) <= n
  BY <1>1, FS_Subset
<1>3. Cardinality(S) \in Nat
  BY <1>2, FS_CardinalityType
<1> DEFINE c == Cardinality(S)
<1>4. ASSUME NEW k \in S PROVE k \in 1..c
  <2>1. k \in Nat /\ k >= 1
    BY <1>4
  <2>2. 1..k \in SUBSET S
    BY <1>4
  <2>3. Cardinality(1..k) = k
    BY <2>1, CountTo
  <2>4. Cardinality(1..k) <= c
    BY <2>2, <1>2, FS_Subset
  <2> QED
    BY <2>1, <2>3, <2>4, <1>3
<1>5. S \in SUBSET (1..c)
  BY <1>4
<1>6. IsFiniteSet(1..c) /\ Cardinality(1..c) = c
  BY <1>3, CountTo
<1>7. S = 1..c
  BY <1>5, <1>6, FS_Subset
<1> QED
  BY <1>2, <1>3, <1>7

(* How many kept indices are not after k: later indices have more. *)
LEMMA PlaceFacts ==
    ASSUME NEW n \in Nat, NEW kept \in SUBSET (1..n)
    PROVE  /\ IsFiniteSet(kept) /\ Cardinality(kept) \in Nat
           /\ \A k \in kept : Place(kept, k) \in 1..Cardinality(kept)
           /\ \A k, l \in kept : k < l => Place(kept, k) < Place(kept, l)
<1>1. IsFiniteSet(1..n)
  BY CountTo
<1>2. IsFiniteSet(kept)
  BY <1>1, FS_Subset
<1>3. Cardinality(kept) \in Nat
  BY <1>2, FS_CardinalityType
<1> DEFINE Below(k) == {j \in kept : j <= k}
<1>4. ASSUME NEW k \in kept
      PROVE  IsFiniteSet(Below(k)) /\ Cardinality(Below(k)) \in 1..Cardinality(kept)
  <2>1. Below(k) \in SUBSET kept /\ k \in Below(k)
    BY <1>4
  <2>2. IsFiniteSet(Below(k)) /\ Cardinality(Below(k)) <= Cardinality(kept)
    BY <2>1, <1>2, FS_Subset
  <2>3. Cardinality(Below(k)) \in Nat /\ Cardinality(Below(k)) # 0
    BY <2>1, <2>2, FS_CardinalityType, FS_EmptySet
  <2> QED
    BY <2>2, <2>3, <1>3
<1>5. ASSUME NEW k \in kept, NEW l \in kept, k < l
      PROVE  Cardinality(Below(k)) < Cardinality(Below(l))
  <2>1. Below(k) \in SUBSET Below(l)
    <3>1. \A j \in kept : j \in Nat
      OBVIOUS
    <3>2. \A j \in kept : j <= k => j <= l
      BY <3>1, <1>5
    <3> QED
      BY <3>2
  <2>2. l \in Below(l) /\ l \notin Below(k)
    BY <1>5
  <2>3. IsFiniteSet(Below(l)) /\ Cardinality(Below(l)) \in Nat /\ Cardinality(Below(k)) \in Nat
    BY <1>4, <1>3
  <2> HIDE DEF Below
  <2>4. /\ Cardinality(Below(k)) <= Cardinality(Below(l))
        /\ Cardinality(Below(l)) = Cardinality(Below(k)) => Below(l) = Below(k)
    BY <2>1, <2>3, FS_Subset
  <2> QED
    BY <2>2, <2>3, <2>4
<1>6. \A k \in kept : Place(kept, k) = Cardinality(Below(k))
  BY DEF Place
<1> HIDE DEF Below
<1> QED
  BY <1>2, <1>3, <1>4, <1>5, <1>6

(* f has the entries of s at the kept indices, all of them, each once and in *)
(* their order; g says where each comes from.                                *)
OrderedPick(f, s, kept, g) ==
    /\ g \in [1..Len(f) -> kept]
    /\ \A i \in 1..Len(f) : f[i] = s[g[i]]
    /\ \A i, j \in 1..Len(f) : i < j => g[i] < g[j]
    /\ \A k \in kept : \E i \in 1..Len(f) : g[i] = k

(* Array.filter picks the entries at the kept indices in their order. *)
LEMMA FilterFacts ==
    ASSUME NEW S, NEW s \in Seq(S), NEW kept \in SUBSET (1..Len(s))
    PROVE  /\ Filter(s, kept) \in Seq(S)
           /\ Len(Filter(s, kept)) = Cardinality(kept)
           /\ \E g : OrderedPick(Filter(s, kept), s, kept, g)
<1> DEFINE n == Cardinality(kept)
           rank == [k \in kept |-> Place(kept, k)]
           g == [i \in 1..n |-> CHOOSE k \in kept : Place(kept, k) = i]
           f == Filter(s, kept)
<1>0. Len(s) \in Nat /\ \A k \in kept : k \in Nat /\ k \in 1..Len(s) /\ s[k] \in S
  BY LenProperties
<1>1. /\ IsFiniteSet(kept) /\ n \in Nat
      /\ \A k \in kept : Place(kept, k) \in 1..n
      /\ \A k, l \in kept : k < l => Place(kept, k) < Place(kept, l)
  BY <1>0, PlaceFacts
<1>2. \A k, l \in kept : k # l => Place(kept, k) # Place(kept, l)
  <2> SUFFICES ASSUME NEW k \in kept, NEW l \in kept, k # l
               PROVE  Place(kept, k) # Place(kept, l)
    OBVIOUS
  <2>1. k < l \/ l < k
    BY <1>0
  <2>2. Place(kept, k) \in Nat /\ Place(kept, l) \in Nat
    BY <1>1
  <2> QED
    BY <2>1, <2>2, <1>1
<1>3. \A i \in 1..n : \E k \in kept : Place(kept, k) = i
  <2>1. rank \in Injection(kept, 1..n)
    BY <1>1, <1>2 DEF Injection, IsInjective
  <2>2. IsFiniteSet(1..n) /\ Cardinality(1..n) = n
    BY <1>1, CountTo
  <2>3. rank \in Surjection(kept, 1..n)
    <3> HIDE DEF rank
    <3> QED
      BY <2>1, <2>2, FS_Injection
  <2> QED
    BY <2>3 DEF Surjection
<1>4. \A i \in 1..n : g[i] \in kept /\ Place(kept, g[i]) = i
  BY <1>3
<1>5. g \in [1..n -> kept]
  BY <1>4
<1>6. f = [i \in 1..n |-> s[g[i]]]
  BY DEF Filter
<1> HIDE DEF g, n, f, rank
<1>7. f \in Seq(S) /\ Len(f) = n /\ \A i \in 1..n : f[i] = s[g[i]]
  <2>1. \A i \in 1..n : s[g[i]] \in S
    BY <1>0, <1>4
  <2>2. f \in [1..n -> S]
    BY <2>1, <1>6
  <2>3. f \in Seq(S) /\ Len(f) = n
    BY <2>2, <1>1
  <2> QED
    BY <2>3, <1>6
<1>8. ASSUME NEW i \in 1..n, NEW j \in 1..n, i < j PROVE g[i] < g[j]
  <2>0. g[i] \in Nat /\ g[j] \in Nat
    BY <1>0, <1>4
  <2>1. g[i] \in Nat /\ g[j] \in Nat /\ i \in Nat /\ j \in Nat
    BY <2>0, <1>1
  <2>2. CASE g[j] < g[i]
    <3>1. Place(kept, g[j]) < Place(kept, g[i])
      BY <2>2, <1>1, <1>4
    <3>2. Place(kept, g[j]) = j /\ Place(kept, g[i]) = i
      BY <1>4
    <3> QED
      BY <2>1, <3>1, <3>2, <1>8
  <2>3. CASE g[j] = g[i]
    BY <2>1, <2>3, <1>4, <1>8
  <2> QED
    BY <2>1, <2>2, <2>3
<1>9. ASSUME NEW k \in kept PROVE \E i \in 1..n : g[i] = k
  <2>1. Place(kept, k) \in 1..n
    BY <1>1
  <2>2. g[Place(kept, k)] \in kept /\ Place(kept, g[Place(kept, k)]) = Place(kept, k)
    BY <2>1, <1>4
  <2>3. g[Place(kept, k)] = k
    BY <2>2, <1>2
  <2> QED
    BY <2>1, <2>3
<1>10. OrderedPick(f, s, kept, g)
  BY <1>5, <1>7, <1>8, <1>9 DEF OrderedPick
<1> QED
  BY <1>7, <1>10 DEF f, n
=============================================================================
