----------------------------- MODULE FiniteOrders -----------------------------
(* Finite sets with an order.  Such a set has a greatest element, can be      *)
(* listed in its order, and has a member of every rank.  Each is proved by    *)
(* taking a smallest subset for which the claim fails.                        *)
EXTENDS Integers, Sequences, FiniteSets, FiniteSetTheorems, TLAPS

USE SMTT(30)

\* A finite, totally ordered set that is not empty has a greatest element.
LEMMA HasGreatest ==
  ASSUME NEW S, IsFiniteSet(S), S # {}, NEW R,
         \A x, y \in S : x # y => <<x, y>> \in R \/ <<y, x>> \in R,
         \A x, y, z \in S : <<x, y>> \in R /\ <<y, z>> \in R => <<x, z>> \in R
  PROVE  \E x \in S : \A y \in S \ {x} : <<y, x>> \in R
<1> DEFINE greatest(T) == \E x \in T : \A y \in T \ {x} : <<y, x>> \in R
           Bad == {T \in FiniteSubsetsOf(S) : T # {} /\ ~greatest(T)}
<1> SUFFICES ASSUME Bad # {} PROVE FALSE
  <2>1. S \in FiniteSubsetsOf(S)
    BY DEF FiniteSubsetsOf
  <2> QED BY <2>1
<1>1. PICK T \in Bad : \A U \in Bad : ~(<<U, T>> \in StrictSubsetOrdering(S))
  <2>1. IsWellFoundedOn(StrictSubsetOrdering(S), FiniteSubsetsOf(S))
    BY FS_StrictSubsetOrderingWellFounded
  <2>2. Bad \subseteq FiniteSubsetsOf(S)
    OBVIOUS
  <2> HIDE DEF Bad
  <2> QED BY <2>1, <2>2, WFMin
<1>2. PICK x \in T : TRUE
  OBVIOUS
<1>3. T \ {x} \in FiniteSubsetsOf(S) /\ T \in SUBSET S /\ IsFiniteSet(T)
  BY FS_RemoveElement DEF FiniteSubsetsOf
<1>4. <<T \ {x}, T>> \in StrictSubsetOrdering(S)
  BY <1>2, <1>3 DEF StrictSubsetOrdering
<1>5. T \ {x} \notin Bad
  BY <1>1, <1>4, Zenon
<1>6. CASE T \ {x} = {}
  BY <1>6, <1>2
<1>7. CASE T \ {x} # {}
  <2>1. PICK y \in T \ {x} : \A z \in (T \ {x}) \ {y} : <<z, y>> \in R
    BY <1>5, <1>7, <1>3, Zenon
  <2> QED BY <2>1, <1>3, Zenon
<1> QED BY <1>6, <1>7

\* It can be listed in its order.
LEMMA HasSorted ==
  ASSUME NEW S, IsFiniteSet(S), NEW R,
         \A x, y \in S : x # y => <<x, y>> \in R \/ <<y, x>> \in R,
         \A x, y, z \in S : <<x, y>> \in R /\ <<y, z>> \in R => <<x, z>> \in R
  PROVE  \E s \in [1..Cardinality(S) -> S] :
           \A i, j \in 1..Cardinality(S) : i < j => <<s[i], s[j]>> \in R
<1> DEFINE sorted(T) == \E s \in [1..Cardinality(T) -> T] :
             \A i, j \in 1..Cardinality(T) : i < j => <<s[i], s[j]>> \in R
           Bad == {T \in FiniteSubsetsOf(S) : ~sorted(T)}
<1> SUFFICES ASSUME Bad # {} PROVE FALSE
  <2>1. S \in FiniteSubsetsOf(S)
    BY DEF FiniteSubsetsOf
  <2> QED BY <2>1
<1>1. PICK T \in Bad : \A U \in Bad : ~(<<U, T>> \in StrictSubsetOrdering(S))
  <2>1. IsWellFoundedOn(StrictSubsetOrdering(S), FiniteSubsetsOf(S))
    BY FS_StrictSubsetOrderingWellFounded
  <2>2. Bad \subseteq FiniteSubsetsOf(S)
    OBVIOUS
  <2> HIDE DEF Bad
  <2> QED BY <2>1, <2>2, WFMin
<1>2. T \in SUBSET S /\ IsFiniteSet(T) /\ ~sorted(T)
  BY DEF FiniteSubsetsOf
<1>3. T # {}
  <2> SUFFICES ASSUME T = {} PROVE sorted(T)
    BY <1>2
  <2>1. Cardinality(T) = 0
    BY FS_EmptySet
  <2>2. 1..0 = {}
    OBVIOUS
  <2>3. [i \in {} |-> i] \in [{} -> T]
    OBVIOUS
  <2> QED BY <2>1, <2>2, <2>3, Zenon
<1>4. PICK x \in T : \A y \in T \ {x} : <<y, x>> \in R
  BY <1>2, <1>3, HasGreatest, Zenon
<1> DEFINE U == T \ {x}
           n == Cardinality(T)
<1>5. IsFiniteSet(U) /\ n \in Nat /\ n > 0 /\ Cardinality(U) = n - 1
  BY <1>2, <1>3, FS_RemoveElement, FS_CardinalityType, FS_EmptySet
<1>6. U \in FiniteSubsetsOf(S) /\ <<U, T>> \in StrictSubsetOrdering(S)
  BY <1>2, <1>5 DEF FiniteSubsetsOf, StrictSubsetOrdering
<1>7. sorted(U)
  BY <1>1, <1>6, Zenon
<1>8. PICK s \in [1..(n - 1) -> U] : \A i, j \in 1..(n - 1) : i < j => <<s[i], s[j]>> \in R
  BY <1>5, <1>7, Zenon
<1> DEFINE t == [i \in 1..n |-> IF i = n THEN x ELSE s[i]]
<1> HIDE DEF n
<1>9. t \in [1..n -> T]
  BY <1>5, <1>8
<1>10. ASSUME NEW i \in 1..n, NEW j \in 1..n, i < j PROVE <<t[i], t[j]>> \in R
  <2>1. i \in 1..(n - 1) /\ t[i] = s[i] /\ s[i] \in U
    BY <1>5, <1>8, <1>10
  <2>2. CASE j = n
    BY <2>1, <2>2, <1>4
  <2>3. CASE j # n
    BY <2>1, <2>3, <1>5, <1>8, <1>10
  <2> QED BY <2>2, <2>3
<1>11. sorted(T)
  BY <1>9, <1>10, Zenon DEF n
<1> QED BY <1>2, <1>11, Zenon

\* A finite set of numbers that is not empty has a greatest one.
LEMMA HasMaximum ==
  ASSUME NEW S \in SUBSET Nat, IsFiniteSet(S), S # {}
  PROVE  LET m == CHOOSE q \in S : \A r \in S : r <= q
         IN  m \in S /\ \A r \in S : r <= m
<1> DEFINE R == {pr \in S \X S : pr[1] < pr[2]}
<1>1. \A x, y \in S : <<x, y>> \in R <=> x < y
  OBVIOUS
<1> HIDE DEF R
<1>2. \A x, y \in S : x # y => <<x, y>> \in R \/ <<y, x>> \in R
  BY <1>1
<1>3. \A x, y, z \in S : <<x, y>> \in R /\ <<y, z>> \in R => <<x, z>> \in R
  BY <1>1
<1>4. PICK x \in S : \A y \in S \ {x} : <<y, x>> \in R
  BY <1>2, <1>3, HasGreatest, Zenon
<1>5. ASSUME NEW r \in S PROVE r <= x
  <2>1. r \in Nat /\ x \in Nat
    OBVIOUS
  <2>2. CASE r = x
    BY <2>1, <2>2
  <2>3. CASE r # x
    <3>1. <<r, x>> \in R
      BY <2>3, <1>4
    <3>2. r < x
      BY <3>1, <1>1
    <3> QED BY <2>1, <3>2
  <2> QED BY <2>2, <2>3
<1>6. \E q \in S : \A r \in S : r <= q
  BY <1>5
<1> QED BY <1>6, Zenon

\* Every rank up to its size is that of a member.
LEMMA HasRank ==
  ASSUME NEW S \in SUBSET Nat, IsFiniteSet(S)
  PROVE  \A n \in 1..Cardinality(S) : \E i \in S : Cardinality({k \in S : k <= i}) = n
<1> DEFINE ranked(T) == \A n \in 1..Cardinality(T) : \E i \in T :
                          Cardinality({k \in T : k <= i}) = n
           Bad == {T \in FiniteSubsetsOf(S) : ~ranked(T)}
<1>0. S \in FiniteSubsetsOf(S)
  BY DEF FiniteSubsetsOf
<1> SUFFICES ASSUME ~ranked(S) PROVE FALSE
  OBVIOUS
<1>b. Bad # {}
  <2> HIDE DEF ranked
  <2> QED BY <1>0
<1>1. PICK T \in Bad : \A U \in Bad : ~(<<U, T>> \in StrictSubsetOrdering(S))
  <2>1. IsWellFoundedOn(StrictSubsetOrdering(S), FiniteSubsetsOf(S))
    BY FS_StrictSubsetOrderingWellFounded
  <2>2. Bad \subseteq FiniteSubsetsOf(S)
    OBVIOUS
  <2> HIDE DEF Bad
  <2> QED BY <1>b, <2>1, <2>2, WFMin
<1>2. T \in SUBSET S /\ T \in SUBSET Nat /\ IsFiniteSet(T) /\ ~ranked(T)
  BY DEF FiniteSubsetsOf
<1>3. T # {}
  <2> SUFFICES ASSUME T = {} PROVE FALSE
    OBVIOUS
  <2>1. Cardinality(T) = 0
    BY FS_EmptySet
  <2>2. 1..0 = {}
    OBVIOUS
  <2> QED BY <2>1, <2>2, <1>2
<1>4. PICK x \in T : \A y \in T : y <= x
  BY <1>2, <1>3, HasMaximum, Zenon
<1> DEFINE U == T \ {x}
           n == Cardinality(T)
<1>5. IsFiniteSet(U) /\ n \in Nat /\ n > 0 /\ Cardinality(U) = n - 1
  <2>1. IsFiniteSet(T) /\ T # {} /\ x \in T
    BY <1>2, <1>3
  <2>2. Cardinality(T) \in Nat /\ Cardinality(T) # 0
    BY <2>1, FS_CardinalityType, FS_EmptySet
  <2>3. IsFiniteSet(T \ {x}) /\ Cardinality(T \ {x}) = Cardinality(T) - 1
    BY <2>1, FS_RemoveElement, Zenon
  <2> QED BY <2>2, <2>3
<1>6. U \in FiniteSubsetsOf(S) /\ <<U, T>> \in StrictSubsetOrdering(S)
  BY <1>2, <1>5, Zenon DEF FiniteSubsetsOf, StrictSubsetOrdering
<1>7. ranked(U)
  BY <1>1, <1>6, Zenon
<1>8. ASSUME NEW m \in 1..n PROVE \E i \in T : Cardinality({k \in T : k <= i}) = m
  <2>1. CASE m = n
    <3>1. {k \in T : k <= x} = T
      BY <1>4
    <3> QED BY <3>1, <2>1, <1>4, Zenon
  <2>2. CASE m # n
    <3>1. m \in 1..Cardinality(U)
      BY <2>2, <1>5
    <3>2. PICK i \in U : Cardinality({k \in U : k <= i}) = m
      BY <3>1, <1>7, Zenon
    <3>3. i \in Nat /\ x \in Nat /\ i <= x /\ i # x
      BY <1>2, <1>4, <3>2
    <3>4. ~(x <= i)
      BY <3>3
    <3>5. {k \in T : k <= i} = {k \in U : k <= i}
      BY <3>4
    <3> QED BY <3>2, <3>5
  <2> QED BY <2>1, <2>2
<1>9. ranked(T)
  BY <1>8
<1> QED BY <1>2, <1>9

\* A function on the first N numbers is a sequence.
LEMMA FunctionIsSeq ==
  ASSUME NEW S, NEW N \in Nat, NEW s \in [1..N -> S]
  PROVE  s \in Seq(S) /\ Len(s) = N
OBVIOUS

\* A set of numbers up to L that is not empty has a least one.
LEMMA HasLeast ==
  ASSUME NEW L \in Nat, NEW S \in SUBSET (0..L), S # {}
  PROVE  \E m \in S : \A r \in S : m <= r
<1> DEFINE R == {pr \in S \X S : pr[2] < pr[1]}
<1>1. \A x, y \in S : <<x, y>> \in R <=> y < x
  OBVIOUS
<1> HIDE DEF R
<1>2. \A x, y \in S : x # y => <<x, y>> \in R \/ <<y, x>> \in R
  BY <1>1
<1>3. \A x, y, z \in S : <<x, y>> \in R /\ <<y, z>> \in R => <<x, z>> \in R
  BY <1>1
<1>4. IsFiniteSet(S)
  <2>1. IsFiniteSet(0..L)
    BY FS_Interval
  <2> QED BY <2>1, FS_Subset, Zenon
<1>5. PICK m \in S : \A y \in S \ {m} : <<y, m>> \in R
  BY <1>2, <1>3, <1>4, HasGreatest, Zenon
<1>6. ASSUME NEW r \in S PROVE m <= r
  <2>1. CASE r = m
    BY <2>1
  <2>2. CASE r # m
    <3>1. <<r, m>> \in R
      BY <2>2, <1>5, Zenon
    <3>2. m < r
      BY <3>1, <1>1, Zenon
    <3> QED BY <3>2
  <2> QED BY <2>1, <2>2
<1> QED BY <1>6

\* Induction up to L, as a fact about the set of numbers a claim holds for.
LEMMA UpTo ==
  ASSUME NEW L \in Nat, NEW S, 0 \in S,
         \A n \in 1..L : n - 1 \in S => n \in S
  PROVE  \A n \in 0..L : n \in S
<1> DEFINE Bad == (0..L) \ S
<1> SUFFICES ASSUME Bad # {} PROVE FALSE
  OBVIOUS
<1>1. PICK m \in Bad : \A r \in Bad : m <= r
  <2>1. Bad \in SUBSET (0..L)
    OBVIOUS
  <2> HIDE DEF Bad
  <2> QED BY <2>1, HasLeast, Zenon
<1>2. m \in 1..L /\ m - 1 \notin Bad
  BY <1>1
<1> QED BY <1>2
=============================================================================
