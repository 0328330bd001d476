------------------------------ MODULE NumberSets ------------------------------
(***************************************************************************)
(* What the proofs need of finite sets of numbers.                         *)
(***************************************************************************)
EXTENDS Integers, FiniteSets, FiniteSetTheorems, TLAPS

\* A nonempty set of naturals has a smallest member.
LEMMA Smallest ==
    ASSUME NEW T \in SUBSET Nat, T # {}
    PROVE  \E x \in T : \A y \in T : x <= y
<1>1. PICK x \in T : \A y \in T : ~(<<y, x>> \in OpToRel(<, Nat))
  BY NatLessThanWellFounded, WFMin
<1>2. ASSUME NEW y \in T PROVE x <= y
  <2>1. ~(y < x)
    BY <1>1 DEF OpToRel
  <2> QED BY <2>1
<1> QED BY <1>2

\* A bounded one has a largest member too.
LEMMA Largest ==
    ASSUME NEW n \in Nat, NEW S \in SUBSET (0..n), S # {}
    PROVE  \E e \in S : \A d \in S : d <= e
<1> DEFINE T == {n - e : e \in S}
<1>1. \A e \in S : e \in Nat /\ n - e \in Nat
  OBVIOUS
<1>2. T \in SUBSET Nat
  BY <1>1
<1>3. PICK b \in S : TRUE
  OBVIOUS
<1>4. T # {}
  BY <1>3
<1> HIDE DEF T
<1>5. PICK x \in T : \A y \in T : x <= y
  BY <1>2, <1>4, Smallest
<1>6. PICK e \in S : x = n - e
  BY <1>5 DEF T
<1>7. ASSUME NEW d \in S PROVE d <= e
  <2>1. x <= n - d
    BY <1>5 DEF T
  <2> QED BY <2>1, <1>6, <1>1
<1> QED BY <1>7

\* Sets of numbers below a bound are finite.
LEMMA FiniteBelow ==
    ASSUME NEW n \in Nat, NEW S \in SUBSET (0..n)
    PROVE  IsFiniteSet(S) /\ Cardinality(S) \in Nat
<1>1. IsFiniteSet(0..n)
  BY FS_Interval
<1> QED BY <1>1, FS_Subset, FS_CardinalityType

\* The members of a set with fewer than k smaller members are at most k.
LEMMA FirstAreFew ==
    ASSUME NEW n \in Nat, NEW S \in SUBSET (0..n), NEW k \in Nat
    PROVE  Cardinality({e \in S : Cardinality({d \in S : d < e}) < k}) <= k
<1> DEFINE T == {e \in S : Cardinality({d \in S : d < e}) < k}
<1>0. T \in SUBSET (0..n)
  OBVIOUS
<1> SUFFICES Cardinality(T) <= k
  OBVIOUS
<1> HIDE DEF T
<1>1. CASE T = {}
  <2>1. Cardinality(T) = 0
    BY <1>1, FS_EmptySet
  <2> QED BY <2>1
<1>2. CASE T # {}
  <2>1. PICK m \in T : \A d \in T : d <= m
    BY <1>2, <1>0, Largest
  <2> DEFINE B == {d \in S : d < m}
  <2>2. m \in S /\ Cardinality(B) < k
    BY <2>1 DEF T
  <2>3. B \in SUBSET (0..n)
    OBVIOUS
  <2>4. IsFiniteSet(B) /\ Cardinality(B) \in Nat
    BY <2>3, FiniteBelow
  <2>5. T \subseteq B \cup {m}
    <3>1. ASSUME NEW d \in T, d # m PROVE d \in B
      <4>1. d \in S /\ m \in S /\ d <= m
        BY <2>1 DEF T
      <4> QED BY <4>1, <3>1
    <3> QED BY <3>1
  <2> HIDE DEF B
  <2>6. /\ IsFiniteSet(B \cup {m})
        /\ Cardinality(B \cup {m}) = IF m \in B THEN Cardinality(B) ELSE Cardinality(B) + 1
    BY <2>4, FS_AddElement
  <2>7. Cardinality(T) <= Cardinality(B \cup {m}) /\ Cardinality(T) \in Nat
    BY <2>5, <2>6, FS_Subset, FS_CardinalityType
  <2> QED BY <2>2, <2>4, <2>6, <2>7
<1> QED BY <1>1, <1>2

\* The size of a union is at most the sum of the sizes.
LEMMA UnionIsSmall ==
    ASSUME NEW n \in Nat, NEW S \in SUBSET (0..n), NEW T \in SUBSET (0..n)
    PROVE  Cardinality(S \cup T) <= Cardinality(S) + Cardinality(T)
<1>1. /\ IsFiniteSet(S) /\ IsFiniteSet(T) /\ IsFiniteSet(S \cap T)
      /\ Cardinality(S) \in Nat /\ Cardinality(T) \in Nat
      /\ Cardinality(S \cap T) \in Nat
  <2>1. S \cap T \in SUBSET (0..n)
    OBVIOUS
  <2> QED BY <2>1, FiniteBelow
<1>2. Cardinality(S \cup T) = Cardinality(S) + Cardinality(T) - Cardinality(S \cap T)
  BY <1>1, FS_Union
<1> QED BY <1>1, <1>2

\* A subset is not larger.
LEMMA SubsetIsSmall ==
    ASSUME NEW n \in Nat, NEW S \in SUBSET (0..n), NEW T \in SUBSET S
    PROVE  Cardinality(T) <= Cardinality(S)
BY FiniteBelow, FS_Subset
=============================================================================
