------------------------------- MODULE Counts --------------------------------
(* Facts about the size of finite sets that gain or lose a member, which   *)
(* the proofs about limits add up, and about sequences that lose one.      *)
EXTENDS Integers, FiniteSets, Sequences, FiniteSetTheorems, SequenceTheorems, TLAPS

\* A part of a finite set is not larger than it.
LEMMA NoMore ==
  ASSUME NEW A, IsFiniteSet(A), NEW C \in SUBSET A
  PROVE  /\ IsFiniteSet(C)
         /\ Cardinality(A) \in Nat /\ Cardinality(C) \in Nat
         /\ Cardinality(C) <= Cardinality(A)
  BY FS_Subset, FS_CardinalityType

\* One new member adds one at most.
LEMMA OneMore ==
  ASSUME NEW A, IsFiniteSet(A), NEW x, NEW C \in SUBSET (A \cup {x})
  PROVE  /\ IsFiniteSet(C)
         /\ Cardinality(A) \in Nat /\ Cardinality(C) \in Nat
         /\ Cardinality(C) <= Cardinality(A) + 1
<1>1. /\ IsFiniteSet(A \cup {x})
      /\ Cardinality(A \cup {x}) = Cardinality(A)
           \/ Cardinality(A \cup {x}) = Cardinality(A) + 1
  BY FS_AddElement
<1>2. Cardinality(A) \in Nat
  BY FS_CardinalityType
<1>3. /\ IsFiniteSet(C) /\ Cardinality(A \cup {x}) \in Nat /\ Cardinality(C) \in Nat
      /\ Cardinality(C) <= Cardinality(A \cup {x})
  BY <1>1, NoMore
<1> QED BY <1>1, <1>2, <1>3

\* One member that goes takes one away.
LEMMA OneLess ==
  ASSUME NEW A, IsFiniteSet(A), NEW x \in A, NEW C \in SUBSET (A \ {x})
  PROVE  /\ IsFiniteSet(C)
         /\ Cardinality(A) \in Nat /\ Cardinality(C) \in Nat
         /\ Cardinality(C) <= Cardinality(A) - 1
<1>1. IsFiniteSet(A \ {x}) /\ Cardinality(A \ {x}) = Cardinality(A) - 1
        /\ Cardinality(A) \in Nat
  BY FS_RemoveElement, FS_CardinalityType
<1>2. IsFiniteSet(C) /\ Cardinality(C) \in Nat /\ Cardinality(C) <= Cardinality(A \ {x})
  BY <1>1, NoMore
<1> QED BY <1>1, <1>2

\* Two sets that shrink add up to no more than before.
LEMMA SumNoMore ==
  ASSUME NEW A, IsFiniteSet(A), NEW B, IsFiniteSet(B),
         NEW C \in SUBSET A, NEW D \in SUBSET B
  PROVE  Cardinality(C) + Cardinality(D) <= Cardinality(A) + Cardinality(B)
<1>1. /\ Cardinality(A) \in Nat /\ Cardinality(C) \in Nat
      /\ Cardinality(C) <= Cardinality(A)
  BY NoMore
<1>2. /\ Cardinality(B) \in Nat /\ Cardinality(D) \in Nat
      /\ Cardinality(D) <= Cardinality(B)
  BY NoMore
<1> QED BY <1>1, <1>2

\* Nor do they when one gains a member and the other loses one.
LEMMA SumMoves ==
  ASSUME NEW A, IsFiniteSet(A), NEW B, IsFiniteSet(B), NEW x, NEW y \in B,
         NEW C \in SUBSET (A \cup {x}), NEW D \in SUBSET (B \ {y})
  PROVE  Cardinality(C) + Cardinality(D) <= Cardinality(A) + Cardinality(B)
<1>1. /\ Cardinality(A) \in Nat /\ Cardinality(C) \in Nat
      /\ Cardinality(C) <= Cardinality(A) + 1
  BY OneMore
<1>2. /\ Cardinality(B) \in Nat /\ Cardinality(D) \in Nat
      /\ Cardinality(D) <= Cardinality(B) - 1
  BY OneLess
<1> QED BY <1>1, <1>2

\* Two parts that share no member add up to no more than the whole.
LEMMA PartsNoMore ==
  ASSUME NEW S, IsFiniteSet(S), NEW A \in SUBSET S, NEW B \in SUBSET S, A \cap B = {}
  PROVE  /\ Cardinality(A) \in Nat /\ Cardinality(B) \in Nat /\ Cardinality(S) \in Nat
         /\ Cardinality(A) + Cardinality(B) <= Cardinality(S)
<1>1. /\ IsFiniteSet(A) /\ IsFiniteSet(B)
      /\ Cardinality(A) \in Nat /\ Cardinality(B) \in Nat /\ Cardinality(S) \in Nat
  BY NoMore
<1>2. Cardinality(A \cup B) = Cardinality(A) + Cardinality(B)
  <2>1. Cardinality(A \cup B)
          = Cardinality(A) + Cardinality(B) - Cardinality(A \cap B)
    BY <1>1, FS_Union
  <2>2. Cardinality(A \cap B) = 0
    BY FS_EmptySet
  <2> QED BY <1>1, <2>1, <2>2
<1>3. Cardinality(A \cup B) <= Cardinality(S)
  BY NoMore
<1> QED BY <1>1, <1>2, <1>3

\* A finite set has no more images than members.
LEMMA ImageNoMore ==
  ASSUME NEW S, IsFiniteSet(S), NEW T, NEW f \in [S -> T], \A t \in T : \E s \in S : f[s] = t
  PROVE  /\ IsFiniteSet(T)
         /\ Cardinality(T) \in Nat /\ Cardinality(S) \in Nat
         /\ Cardinality(T) <= Cardinality(S)
<1>1. f \in Surjection(S, T)
  BY DEF Surjection
<1>2. IsFiniteSet(T) /\ Cardinality(T) <= Cardinality(S)
  BY <1>1, FS_Surjection
<1> QED BY <1>2, FS_CardinalityType

\* A sequence that loses its i-th element keeps the others in order.
But(s, i) == SubSeq(s, 1, i - 1) \o SubSeq(s, i + 1, Len(s))

LEMMA Kept ==
  ASSUME NEW S, NEW s \in Seq(S), NEW i \in 1..Len(s), NEW t, t = But(s, i)
  PROVE  /\ t \in Seq(S)
         /\ \A j \in 1..Len(s) : j # i =>
              \E k \in 1..Len(t) : t[k] = s[j] /\ k = IF j < i THEN j ELSE j - 1
         /\ \A k \in 1..Len(t) :
              \E j \in 1..Len(s) : j # i /\ t[k] = s[j] /\ k = IF j < i THEN j ELSE j - 1
<1>0. Len(s) \in Nat
  BY LenProperties
<1> DEFINE n == Len(s)
           a == SubSeq(s, 1, i - 1)
           b == SubSeq(s, i + 1, Len(s))
<1>1. n \in Nat /\ i \in 1..n
  BY LenProperties
<1>2. /\ a \in Seq(S) /\ Len(a) = i - 1
      /\ \A j \in 1..(i - 1) : a[j] = s[j]
  BY SubSeqProperties
<1>3. /\ b \in Seq(S) /\ Len(b) = n - i
      /\ \A j \in 1..(n - i) : b[j] = s[i + j]
  BY SubSeqProperties
<1>4. t = a \o b /\ n = Len(s)
  BY DEF But
<1> HIDE DEF n, a, b
<1>5. /\ a \o b \in Seq(S) /\ Len(a \o b) = Len(a) + Len(b)
      /\ \A j \in 1..(Len(a) + Len(b)) : (a \o b)[j] = IF j <= Len(a) THEN a[j] ELSE b[j - Len(a)]
  <2>1. a \in Seq(S) /\ b \in Seq(S)
    BY <1>2, <1>3
  <2> QED BY <2>1, ConcatProperties
<1>6. /\ t \in Seq(S)
      /\ Len(t) = Len(s) - 1
      /\ \A j \in 1..Len(t) : t[j] = IF j < i THEN s[j] ELSE s[j + 1]
  <2>1. t \in Seq(S) /\ Len(t) = n - 1
    <3>1. Len(a) = i - 1 /\ Len(b) = n - i
      BY <1>2, <1>3
    <3>2. Len(a) + Len(b) = n - 1
      BY <1>1, <3>1
    <3>3. a \o b \in Seq(S) /\ Len(a \o b) = Len(a) + Len(b) /\ t = a \o b
      BY <1>4, <1>5
    <3> QED BY <3>2, <3>3
  <2>2. ASSUME NEW j \in 1..(n - 1)
        PROVE  t[j] = IF j < i THEN s[j] ELSE s[j + 1]
    <3>1. CASE j < i
      BY <1>1, <1>2, <1>3, <1>4, <1>5, <3>1
    <3>2. CASE ~(j < i)
      <4>1. t[j] = b[j - (i - 1)] /\ j - (i - 1) \in 1..(n - i)
        BY <1>1, <1>2, <1>3, <1>4, <1>5, <3>2
      <4> QED BY <1>1, <1>3, <3>2, <4>1
    <3> QED BY <3>1, <3>2
  <2> QED BY <1>4, <2>1, <2>2
<1>7. ASSUME NEW j \in 1..Len(s), j # i
      PROVE  \E k \in 1..Len(t) : t[k] = s[j] /\ k = IF j < i THEN j ELSE j - 1
  <2>1. CASE j < i
    BY <1>0, <1>6, <2>1
  <2>2. CASE ~(j < i)
    <3>1. j - 1 \in 1..Len(t) /\ ~(j - 1 < i) /\ (j - 1) + 1 = j
      BY <1>0, <1>6, <1>7, <2>2
    <3> QED BY <1>6, <2>2, <3>1
  <2> QED BY <2>1, <2>2
<1>8. ASSUME NEW k \in 1..Len(t)
      PROVE  \E j \in 1..Len(s) : j # i /\ t[k] = s[j] /\ k = IF j < i THEN j ELSE j - 1
  <2>1. CASE k < i
    BY <1>0, <1>6, <2>1
  <2>2. CASE ~(k < i)
    <3>1. k + 1 \in 1..Len(s) /\ ~(k + 1 < i) /\ (k + 1) - 1 = k /\ k + 1 # i
      BY <1>0, <1>6, <2>2
    <3> QED BY <1>6, <2>2, <3>1
  <2> QED BY <2>1, <2>2
<1> QED BY <1>6, <1>7, <1>8
=============================================================================
