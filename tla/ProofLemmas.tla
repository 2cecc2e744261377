----------------------------- MODULE ProofLemmas -----------------------------
(***************************************************************************)
(* Facts about finite sets, and about division with remainder, that the    *)
(* proofs of several modules need.                                         *)
(***************************************************************************)
EXTENDS FiniteSetsExt, FiniteSetTheorems, TLAPS

\* A finite set of integers that is not empty has a largest element, and Max is it.  (By
\* induction on the set, as the minimum of the well-founded order of its finite subsets.)
LEMMA MaxOf ==
  ASSUME NEW S \in SUBSET Int, IsFiniteSet(S), S # {}
  PROVE  Max(S) \in S /\ \A y \in S : y <= Max(S)
<1> DEFINE HasMax(U) == \E x \in U : \A y \in U : x >= y
           Bad == {U \in FiniteSubsetsOf(S) : U # {} /\ ~ HasMax(U)}
<1>1. Bad = {}
  <2> SUFFICES ASSUME Bad # {} PROVE FALSE
    OBVIOUS
  <2>1. Bad \subseteq FiniteSubsetsOf(S)
    OBVIOUS
  <2>2. PICK U \in Bad : \A V \in Bad : <<V, U>> \notin StrictSubsetOrdering(S)
    <3> HIDE DEF Bad
    <3> QED BY <2>1, WFMin, FS_StrictSubsetOrderingWellFounded
  <2>3. PICK x \in U : TRUE
    OBVIOUS
  <2>4. /\ U \ {x} \in FiniteSubsetsOf(S)
        /\ <<U \ {x}, U>> \in StrictSubsetOrdering(S)
    BY FS_RemoveElement DEF FiniteSubsetsOf, StrictSubsetOrdering
  <2>5. U \ {x} # {} => HasMax(U \ {x})
    BY <2>2, <2>4
  <2>6. HasMax(U)
    <3>1. U \subseteq Int
      BY DEF FiniteSubsetsOf
    <3> QED BY <2>3, <2>5, <3>1
  <2> QED BY <2>6
<1>2. HasMax(S)
  BY <1>1 DEF FiniteSubsetsOf
<1> QED BY <1>2 DEF Max

\* The same for the smallest element.
LEMMA MinOf ==
  ASSUME NEW S \in SUBSET Int, IsFiniteSet(S), S # {}
  PROVE  Min(S) \in S /\ \A y \in S : Min(S) <= y
<1> DEFINE HasMin(U) == \E x \in U : \A y \in U : x =< y
           Bad == {U \in FiniteSubsetsOf(S) : U # {} /\ ~ HasMin(U)}
<1>1. Bad = {}
  <2> SUFFICES ASSUME Bad # {} PROVE FALSE
    OBVIOUS
  <2>1. Bad \subseteq FiniteSubsetsOf(S)
    OBVIOUS
  <2>2. PICK U \in Bad : \A V \in Bad : <<V, U>> \notin StrictSubsetOrdering(S)
    <3> HIDE DEF Bad
    <3> QED BY <2>1, WFMin, FS_StrictSubsetOrderingWellFounded
  <2>3. PICK x \in U : TRUE
    OBVIOUS
  <2>4. /\ U \ {x} \in FiniteSubsetsOf(S)
        /\ <<U \ {x}, U>> \in StrictSubsetOrdering(S)
    BY FS_RemoveElement DEF FiniteSubsetsOf, StrictSubsetOrdering
  <2>5. U \ {x} # {} => HasMin(U \ {x})
    BY <2>2, <2>4
  <2>6. HasMin(U)
    <3>1. U \subseteq Int
      BY DEF FiniteSubsetsOf
    <3> QED BY <2>3, <2>5, <3>1
  <2> QED BY <2>6
<1>2. HasMin(S)
  BY <1>1 DEF FiniteSubsetsOf
<1> QED BY <1>2 DEF Min

\* Min of a pair.
LEMMA LesserOf ==
  ASSUME NEW a \in Int, NEW b \in Int
  PROVE  Min({a, b}) = IF a <= b THEN a ELSE b
<1>1. Min({a, b}) \in {a, b} /\ \A y \in {a, b} : Min({a, b}) <= y
  <2>1. IsFiniteSet({a}) /\ IsFiniteSet({a} \cup {b})
    BY FS_Singleton, FS_AddElement
  <2>2. {a, b} = {a} \cup {b} /\ {a, b} # {} /\ {a, b} \in SUBSET Int
    OBVIOUS
  <2> QED BY <2>1, <2>2, MinOf
<1> QED BY <1>1

\* Max of a pair.
LEMMA GreaterOf ==
  ASSUME NEW a \in Int, NEW b \in Int
  PROVE  Max({a, b}) = IF a <= b THEN b ELSE a
<1>1. Max({a, b}) \in {a, b} /\ \A y \in {a, b} : y <= Max({a, b})
  <2>1. IsFiniteSet({a}) /\ IsFiniteSet({a} \cup {b})
    BY FS_Singleton, FS_AddElement
  <2>2. {a, b} = {a} \cup {b} /\ {a, b} # {} /\ {a, b} \in SUBSET Int
    OBVIOUS
  <2> QED BY <2>1, <2>2, MaxOf
<1> QED BY <1>1

\* Taking part of a finite set away takes as many away as the part has, and all of it only
\* when the part is everything.
LEMMA TakenAway ==
  ASSUME NEW S, IsFiniteSet(S), NEW T \in SUBSET S
  PROVE  /\ IsFiniteSet(S \ T) /\ IsFiniteSet(T)
         /\ Cardinality(S) \in Nat /\ Cardinality(T) \in Nat
         /\ Cardinality(T) <= Cardinality(S)
         /\ Cardinality(S \ T) = Cardinality(S) - Cardinality(T)
         /\ Cardinality(T) = Cardinality(S) <=> T = S
<1>1. S \cap T = T
  OBVIOUS
<1> QED BY <1>1, FS_Subset, FS_Difference, FS_CardinalityType

-----------------------------------------------------------------------------
(* Division with remainder, by a divisor that is not known *)

\* The remainder is below the divisor.
LEMMA Divided ==
  ASSUME NEW n \in Nat, n > 0, NEW a \in Nat
  PROVE  /\ a % n \in 0 .. n - 1 /\ a \div n \in Nat
         /\ a = n * (a \div n) + (a % n)
OBVIOUS

\* There is but one remainder.
LEMMA RestIs ==
  ASSUME NEW n \in Nat, n > 0, NEW a \in Nat, NEW q \in Int, NEW r \in 0 .. n - 1, a = n * q + r
  PROVE  a % n = r
<1>1. PICK p \in Int, s \in Int : p = a \div n /\ s = a % n /\ 0 <= s /\ s < n /\ a = n * p + s
  BY Divided
<1>2. ASSUME NEW u \in Int, NEW v \in Int, u < v PROVE n * u + n <= n * v
  BY <1>2
<1>3. PICK x \in Int, y \in Int : x = n * p /\ y = n * q /\ a = x + s /\ a = y + r
  BY <1>1
<1>4. p = q
  <2>1. CASE p < q
    BY <1>1, <1>2, <1>3, <2>1
  <2>2. CASE q < p
    BY <1>1, <1>2, <1>3, <2>2
  <2> QED BY <1>1, <2>1, <2>2
<1> QED BY <1>1, <1>3, <1>4

\* There is but one quotient.
LEMMA QuotientIs ==
  ASSUME NEW n \in Nat, n > 0, NEW a \in Nat, NEW q \in Int, NEW r \in 0 .. n - 1, a = n * q + r
  PROVE  a \div n = q
<1>1. PICK p \in Int, s \in Int : p = a \div n /\ s = a % n /\ 0 <= s /\ s < n /\ a = n * p + s
  BY Divided
<1>2. ASSUME NEW u \in Int, NEW v \in Int, u < v PROVE n * u + n <= n * v
  BY <1>2
<1>3. PICK x \in Int, y \in Int : x = n * p /\ y = n * q /\ a = x + s /\ a = y + r
  BY <1>1
<1>4. CASE p < q
  BY <1>1, <1>2, <1>3, <1>4
<1>5. CASE q < p
  BY <1>1, <1>2, <1>3, <1>5
<1> QED BY <1>1, <1>4, <1>5

\* The remainder of the next number: counting round and round.
LEMMA NextTurn ==
  ASSUME NEW n \in Nat, n > 0, NEW a \in Nat
  PROVE  (a + 1) % n = IF (a % n) + 1 >= n THEN 0 ELSE (a % n) + 1
<1>1. PICK p \in Nat, s \in 0 .. n - 1 : s = a % n /\ a = n * p + s
  BY Divided
<1>2. CASE s + 1 >= n
  <2>1. a + 1 = n * (p + 1) + 0
    BY <1>1, <1>2
  <2>2. a + 1 \in Nat /\ p + 1 \in Int /\ 0 \in 0 .. n - 1
    BY <1>1
  <2> QED BY <1>1, <1>2, <2>1, <2>2, RestIs
<1>3. CASE s + 1 < n
  <2>1. a + 1 = n * p + (s + 1)
    BY <1>1
  <2>2. a + 1 \in Nat /\ p \in Int /\ s + 1 \in 0 .. n - 1
    BY <1>1, <1>3
  <2>3. (a + 1) % n = s + 1
    BY <2>1, <2>2, RestIs
  <2> QED BY <1>1, <1>3, <2>3
<1> QED BY <1>1, <1>2, <1>3

\* A whole round later the remainder is the same.
LEMMA NextRound ==
  ASSUME NEW n \in Nat, n > 0, NEW a \in Nat
  PROVE  (a + n) % n = a % n
<1>1. PICK p \in Nat, s \in 0 .. n - 1 : s = a % n /\ a = n * p + s
  BY Divided
<1>2. a + n = n * (p + 1) + s
  BY <1>1
<1>3. a + n \in Nat /\ p + 1 \in Int
  BY <1>1
<1> QED BY <1>1, <1>2, <1>3, RestIs

\* Numbers of the same remainder are a round apart.
LEMMA SameRest ==
  ASSUME NEW n \in Nat, n > 0, NEW a \in Nat, NEW b \in Nat, a % n = b % n, b <= a, a < b + n
  PROVE  a = b
<1>1. PICK p \in Nat, s \in 0 .. n - 1 : s = a % n /\ a = n * p + s
  BY Divided
<1>2. PICK q \in Nat : b = n * q + s
  BY <1>1, Divided
<1>3. ASSUME NEW u \in Int, NEW v \in Int, u < v PROVE n * u + n <= n * v
  BY <1>3
<1>4. PICK x \in Int, y \in Int : x = n * p /\ y = n * q /\ a = x + s /\ b = y + s
  BY <1>1, <1>2
<1>5. p = q
  <2>1. CASE p < q
    BY <1>3, <1>4, <2>1
  <2>2. CASE q < p
    BY <1>3, <1>4, <2>2
  <2> QED BY <2>1, <2>2
<1> QED BY <1>4, <1>5
=============================================================================
