-------------------------------- MODULE Numbers --------------------------------
(***************************************************************************)
(* Facts about sets of natural numbers and about division that the proofs  *)
(* of WorkerLoop and LedgerWalk use.                                       *)
(***************************************************************************)
EXTENDS Integers, FiniteSetsExt, FiniteSetTheorems, TLAPS

----------------------------------------------------------------------------
(* Least and greatest elements *)

\* The least element exists: of the initial segments of T that end in one of its
\* elements, one is contained in no other.
LEMMA LeastNumber ==
    ASSUME NEW T \in SUBSET Nat, T # {}
    PROVE  \E x \in T : \A y \in T : x <= y
<1> DEFINE Upto(k) == {y \in T : y <= k}
           family  == {Upto(k) : k \in T}
<1>1. \A k \in T : Upto(k) \in FiniteSubsetsOf(Nat)
  <2>1. ASSUME NEW k \in T
        PROVE  IsFiniteSet(Upto(k))
    BY FS_BoundedSetOfNaturals
  <2>. QED  BY <2>1 DEF FiniteSubsetsOf
<1>2. family \subseteq FiniteSubsetsOf(Nat) /\ family # {}
  BY <1>1
<1>3. PICK U \in family : \A V \in family : <<V, U>> \notin StrictSubsetOrdering(Nat)
  <2> HIDE DEF family
  <2>. QED  BY <1>2, FS_StrictSubsetOrderingWellFounded, WFMin
<1>4. PICK x \in T : U = Upto(x)
  BY <1>3
<1>5. ASSUME NEW y \in T
      PROVE  x <= y
  <2>1. SUFFICES ASSUME y < x PROVE FALSE
    OBVIOUS
  <2>2. Upto(y) \in family
    OBVIOUS
  <2>3. x \in Upto(x) /\ x \notin Upto(y)
    BY <2>1
  <2>4. ASSUME NEW z \in Upto(y)
        PROVE  z \in Upto(x)
    <3>1. z \in T /\ z <= y /\ x \in Nat /\ y \in Nat /\ z \in Nat
      OBVIOUS
    <3>. QED  BY <2>1, <3>1
  <2>5. <<Upto(y), Upto(x)>> \in StrictSubsetOrdering(Nat)
    BY <2>3, <2>4 DEF StrictSubsetOrdering
  <2>. QED  BY <1>3, <1>4, <2>2, <2>5
<1>. QED  BY <1>5

LEMMA MinIsLeast ==
    ASSUME NEW T \in SUBSET Nat, T # {}
    PROVE  Min(T) \in T /\ \A y \in T : Min(T) <= y
BY LeastNumber DEF Min

LEMMA MaxIsGreatest ==
    ASSUME NEW n \in Nat, NEW T \in SUBSET (1..n), T # {}
    PROVE  Max(T) \in T /\ \A y \in T : Max(T) >= y
<1> DEFINE mirror == {n - y : y \in T}
<1>1. \A y \in T : y \in Nat /\ n - y \in Nat
  OBVIOUS
<1>2. mirror \in SUBSET Nat /\ mirror # {}
  BY <1>1
<1>3. PICK m \in mirror : \A k \in mirror : m <= k
  <2> HIDE DEF mirror
  <2>. QED  BY <1>2, LeastNumber
<1>4. PICK x \in T : m = n - x
  OBVIOUS
<1>5. ASSUME NEW y \in T
      PROVE  x >= y
  <2>1. n - x <= n - y
    BY <1>3, <1>4
  <2>. QED  BY <1>1, <2>1
<1>. QED  BY <1>5 DEF Max

\* The first `limit` elements of a finite set of numbers.
FirstNumbers(T, limit) == {i \in T : Cardinality({j \in T : j < i}) < limit}

\* They are as many, and all those up to the last of them, or all there are.
LEMMA FirstNumbersCut ==
    ASSUME NEW n \in Nat, NEW T \in SUBSET (1..n), NEW limit \in Nat, limit >= 1
    PROVE  LET first == FirstNumbers(T, limit) IN
           \/ /\ Cardinality(first) = limit
              /\ Max(first) \in first
              /\ \A i \in T : i <= Max(first) => i \in first
           \/ Cardinality(first) # limit /\ first = T
<1> DEFINE first    == FirstNumbers(T, limit)
           Below(i) == {j \in T : j < i}
<1>1. /\ IsFiniteSet(T) /\ first \subseteq T
      /\ \A i \in T : IsFiniteSet(Below(i)) /\ Cardinality(Below(i)) \in Nat
  <2>1. IsFiniteSet(T)
    <3>1. IsFiniteSet(1..n)
      BY FS_Interval
    <3>. QED  BY <3>1, FS_Subset
  <2>2. \A i \in T : Below(i) \in SUBSET T
    OBVIOUS
  <2>3. \A i \in T : IsFiniteSet(Below(i)) /\ Cardinality(Below(i)) \in Nat
    BY <2>1, <2>2, FS_Subset, FS_CardinalityType
  <2>. QED  BY <2>1, <2>3 DEF FirstNumbers
<1>2. IsFiniteSet(first) /\ Cardinality(first) \in Nat
  BY <1>1, FS_Subset, FS_CardinalityType
<1>0. \A i \in T : i \in Nat
  OBVIOUS
<1>3. \A i \in T : i \in first <=> Cardinality(Below(i)) < limit
  BY DEF FirstNumbers
<1> HIDE DEF first, Below
<1>4. CASE Cardinality(first) = limit
  <2>1. first # {}
    BY <1>4, FS_EmptySet
  <2>2. Max(first) \in first
    BY <1>1, <2>1, MaxIsGreatest
  <2>3. ASSUME NEW i \in T, i <= Max(first)
        PROVE  i \in first
    <3>1. Max(first) \in T /\ Max(first) \in Nat /\ i \in Nat
      BY <1>0, <1>1, <2>2, <2>3
    <3>4. \A y \in Below(i) : y \in Below(Max(first))
      BY <1>0, <2>3, <3>1 DEF Below
    <3>2. Cardinality(Below(i)) <= Cardinality(Below(Max(first)))
      BY <1>1, <3>1, <3>4, FS_Subset
    <3>3. Cardinality(Below(Max(first))) < limit
      BY <1>3, <2>2, <3>1
    <3>5. Cardinality(Below(i)) \in Nat /\ Cardinality(Below(Max(first))) \in Nat
      BY <1>1, <2>3, <3>1
    <3>. QED  BY <1>3, <2>3, <3>2, <3>3, <3>5
  <2>. QED  BY <1>4, <2>2, <2>3 DEF first
<1>5. CASE Cardinality(first) # limit
  <2>1. SUFFICES ASSUME T \ first # {} PROVE FALSE
    BY <1>1, <1>5 DEF first
  <2>2. PICK x \in T \ first : \A y \in T \ first : x <= y
    <3>1. T \ first \in SUBSET Nat
      BY <1>0
    <3>. QED  BY <2>1, <3>1, LeastNumber
  <2>3. x \in T /\ x \in Nat /\ Cardinality(Below(x)) >= limit
    BY <1>1, <1>3, <2>2
  <2>4. Below(x) \subseteq first
    <3>1. ASSUME NEW y \in Below(x)
          PROVE  y \in first
      <4>1. y \in T /\ y < x /\ y \in Nat
        BY DEF Below
      <4>. QED  BY <2>2, <2>3, <4>1
    <3>. QED  BY <3>1
  <2>5. Cardinality(first) >= limit
    <3>1. Cardinality(Below(x)) <= Cardinality(first)
      BY <1>2, <2>4, FS_Subset
    <3>. QED  BY <1>1, <1>2, <2>3, <3>1
  <2>6. first # {}
    BY <1>2, <2>5, FS_EmptySet
  <2>7. Max(first) \in first /\ \A y \in first : Max(first) >= y
    BY <1>1, <2>6, MaxIsGreatest
  <2>8. first \ {Max(first)} \subseteq Below(Max(first))
    <3>1. ASSUME NEW y \in first \ {Max(first)}
          PROVE  y \in Below(Max(first))
      <4>1. y \in T /\ y \in Nat /\ y # Max(first)
        BY <1>0, <1>1
      <4>2. Max(first) \in Nat /\ Max(first) >= y
        BY <1>0, <1>1, <2>7
      <4>3. y < Max(first)
        BY <4>1, <4>2
      <4>. QED  BY <4>1, <4>3 DEF Below
    <3>. QED  BY <3>1
  <2>9. Cardinality(first) - 1 <= Cardinality(Below(Max(first)))
    <3>1. Cardinality(first \ {Max(first)}) = Cardinality(first) - 1
      BY <1>2, <2>7, FS_RemoveElement
    <3>2. Max(first) \in T
      BY <1>1, <2>7
    <3>3. Cardinality(first \ {Max(first)}) <= Cardinality(Below(Max(first)))
      BY <1>1, <2>8, <3>2, FS_Subset
    <3>. QED  BY <3>1, <3>3
  <2>10. Cardinality(Below(Max(first))) < limit /\ Cardinality(Below(Max(first))) \in Nat
    BY <1>1, <1>3, <2>7
  <2>. QED  BY <1>2, <1>5, <2>5, <2>9, <2>10
<1>. QED  BY <1>4, <1>5 DEF first

----------------------------------------------------------------------------
(* Division *)

LEMMA Quotients ==
    ASSUME NEW n \in Nat, NEW d \in Nat, d >= 1
    PROVE  /\ n \div d \in Nat
           /\ d * (n \div d) <= n
           /\ n < d * (n \div d) + d
<1>1. n \div d \in Int
  OBVIOUS
<1>. QED  BY <1>1

LEMMA QuotientsDiffer ==
    ASSUME NEW m \in Nat, NEW n \in Nat, NEW d \in Nat, d >= 1, m + d <= n
    PROVE  m \div d # n \div d
<1>1. /\ n \div d \in Nat /\ m \div d \in Nat
      /\ d * (m \div d) <= m /\ n < d * (n \div d) + d
  BY Quotients
<1>. QED  BY <1>1

LEMMA QuotientsOrdered ==
    ASSUME NEW m \in Nat, NEW n \in Nat, NEW d \in Nat, d >= 1, m <= n
    PROVE  m \div d <= n \div d
<1>1. /\ n \div d \in Nat /\ m \div d \in Nat
      /\ d * (m \div d) <= m /\ n < d * (n \div d) + d
  BY Quotients
<1>2. d * (m \div d) < d * ((n \div d) + 1)
  BY <1>1
<1>. QED  BY <1>1, <1>2
=============================================================================
