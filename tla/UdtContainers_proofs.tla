------------------------ MODULE UdtContainers_proofs -------------------------
(***************************************************************************)
(* Proofs about the pool of units of UdtContainers, for queues of any      *)
(* size, any threshold of growth and any number of units in use: the       *)
(* worker never fills a unit that a buffer holds, goes without one at most *)
(* once in a row, and the pool stays bounded, however wrong m_iCount is.   *)
(*                                                                         *)
(* The search leaves units out, so a failure to find one does not mean     *)
(* that the pool is full.  But it ends at the start of a queue, and from   *)
(* there the next search meets all units but the last of every queue: if   *)
(* these are taken, so many units are that the pool has grown.             *)
(***************************************************************************)
EXTENDS UdtContainers, ProofLemmas, SequenceTheorems

\* The r-th unit of the q-th queue, and those among n queues that are ever looked at.
UnitAt(q, r) == q * QueueSize + r + 1
LookedAt(n) == {UnitAt(q, r) : q \in 0 .. n - 1, r \in 0 .. QueueSize - 2}
PoolsOf(n) == [1 .. n * QueueSize -> BOOLEAN]

\* m_pAvailUnit is never the last unit of a queue; after a search that found none it is
\* the first, and then there is one to be found.
PlaceInv(n) ==
  \E q \in 0 .. n - 1, r \in 0 .. QueueSize - 2 :
    /\ avail = UnitAt(q, r)
    /\ refused # 0 => r = 0

PoolInv(n) ==
  /\ inUse \in PoolsOf(n)
  /\ PlaceInv(n)
  /\ refused # 0 => step = "get" /\ \E u \in LookedAt(n) : ~ inUse[u]
  /\ step = "fill" => unit \in DOMAIN inUse /\ ~ inUse[unit]
  /\ Used(inUse) <= MaxUsed
  /\ (n - 1) * QueueSize * Part <= MaxUsed * Whole

UnitsInv ==
  /\ \E n \in Nat \ {0} : PoolInv(n)
  /\ count \in Int /\ seen \in Int /\ read \in Int /\ refused \in {0, 1}

-----------------------------------------------------------------------------
(* Arithmetic *)

\* Products grow with their factors.
LEMMA TimesMore ==
  ASSUME NEW a \in Int, NEW b \in Int, a <= b, NEW c \in Nat
  PROVE  a * c <= b * c
BY SMT

\* A unit lies in its queue, and in the pool.
LEMMA UnitIs ==
  ASSUME NEW n \in Nat \ {0}, NEW q \in 0 .. n - 1, NEW r \in 0 .. QueueSize - 1
  PROVE  /\ UnitAt(q, r) \in 1 .. n * QueueSize
         /\ QueueOf(UnitAt(q, r)) = q
         /\ UnitAt(q, r) = QueueStart(q) + r
<1> USE UnitQueueAssumption
<1>1. PICK s \in Nat : s = QueueSize /\ s > 1
  OBVIOUS
<1>2. q * s \in Nat /\ (q + 1) * s <= n * s /\ (q + 1) * s = q * s + s /\ n * s \in Nat
  BY <1>1, TimesMore
<1>3. PICK x \in Nat, y \in Nat : x = q * s /\ y = n * s /\ x + s <= y
  BY <1>2
<1>4. UnitAt(q, r) = x + r + 1 /\ QueueStart(q) = x + 1
  BY <1>1, <1>3 DEF UnitAt, QueueStart
<1>5. (x + r) \div s = q
  <2>1. x + r = s * q + r /\ x + r \in Nat /\ q \in Int /\ r \in 0 .. s - 1
    BY <1>1, <1>3
  <2> QED BY <1>1, <2>1, QuotientIs
<1>6. QueueOf(UnitAt(q, r)) = q
  <2>1. x + r + 1 - 1 = x + r
    OBVIOUS
  <2> QED BY <1>1, <1>4, <1>5, <2>1 DEF QueueOf
<1> QED BY <1>1, <1>3, <1>4, <1>6

\* The length of a pool.
LEMMA PoolIs ==
  ASSUME NEW n \in Nat \ {0}, NEW pool \in PoolsOf(n)
  PROVE  /\ Len(pool) = n * QueueSize /\ DOMAIN pool = 1 .. n * QueueSize
         /\ n * QueueSize \in Nat /\ Queues(pool) = n
         /\ IsFiniteSet({u \in DOMAIN pool : pool[u]}) /\ Used(pool) \in Nat
         /\ Used(pool) <= n * QueueSize
<1> USE UnitQueueAssumption
<1>1. PICK s \in Nat, y \in Nat : s = QueueSize /\ s > 1 /\ y = n * s
  OBVIOUS
<1>2. pool \in [1 .. y -> BOOLEAN]
  BY <1>1 DEF PoolsOf
<1>3. Len(pool) = y /\ DOMAIN pool = 1 .. y
  BY <1>2
<1>4. y \div s = n
  <2>1. y = s * n + 0 /\ 0 \in 0 .. s - 1 /\ n \in Int
    BY <1>1
  <2> QED BY <1>1, <2>1, QuotientIs
<1>5. /\ IsFiniteSet({u \in DOMAIN pool : pool[u]})
      /\ Cardinality({u \in DOMAIN pool : pool[u]}) \in Nat
      /\ Cardinality({u \in DOMAIN pool : pool[u]}) <= y
  <2>1. IsFiniteSet(1 .. y) /\ Cardinality(1 .. y) = y
    BY FS_Interval
  <2>2. PICK T \in SUBSET (1 .. y) : T = {u \in DOMAIN pool : pool[u]}
    BY <1>3
  <2>3. /\ IsFiniteSet(T) /\ Cardinality(T) \in Nat
        /\ Cardinality(T) <= Cardinality(1 .. y)
    BY <2>1, TakenAway, Zenon
  <2> QED BY <2>1, <2>2, <2>3
<1> QED BY <1>1, <1>3, <1>4, <1>5 DEF Queues, Used

-----------------------------------------------------------------------------
(* The search *)

\* The search looks at no other units than those, and at all of them when it begins at the
\* first unit of a queue.
LEMMA OrderIs ==
  ASSUME NEW n \in Nat \ {0}, NEW pool \in PoolsOf(n),
         NEW q \in 0 .. n - 1, NEW r \in 0 .. QueueSize - 2, avail = UnitAt(q, r)
  PROVE  /\ Order(pool) \in Seq(LookedAt(n))
         /\ r = 0 => \A u \in LookedAt(n) : \E k \in DOMAIN Order(pool) : Order(pool)[k] = u
<1> USE UnitQueueAssumption
<1>1. PICK s \in Nat : s = QueueSize - 1 /\ s > 0 /\ Searched = s
  BY DEF Searched
<1>2. QueueOf(avail) = q /\ avail = QueueStart(q) + r /\ QueueStart(q) \in Nat
  <2>1. r \in 0 .. QueueSize - 1
    OBVIOUS
  <2>2. QueueStart(q) \in Nat
    BY DEF QueueStart
  <2> QED BY <2>1, <2>2, UnitIs
<1>3. Queues(pool) = n
  BY PoolIs
<1>4. PICK x \in Nat : x = QueueStart(q)
  BY <1>2
<1> DEFINE A == [k \in 1 .. s - r + 1 |-> IF k <= s - r THEN x + r + k - 1 ELSE x]
           Other(k) == QueueStart((q + 1 + (k \div s)) % n) + (k % s)
           B == [k \in 1 .. (n - 1) * s |-> Other(k - 1)]
<1>5. Order(pool) = A \o B
  <2>1. QueueStart(q) + Searched - avail = s - r
    BY <1>1, <1>2, <1>4
  <2>2. avail = x + r
    BY <1>2, <1>4
  <2> QED BY <1>1, <1>2, <1>3, <1>4, <2>1, <2>2 DEF Order
<1>6. ASSUME NEW j \in 0 .. n - 1, NEW i \in 0 .. s - 1
      PROVE  QueueStart(j) + i \in LookedAt(n) /\ QueueStart(j) + i = UnitAt(j, i)
  <2>1. i \in 0 .. QueueSize - 2 /\ i \in 0 .. QueueSize - 1
    BY <1>1
  <2>2. UnitAt(j, i) = QueueStart(j) + i
    BY <2>1, UnitIs
  <2> QED BY <2>1, <2>2 DEF LookedAt
<1>7. A \in Seq(LookedAt(n)) /\ Len(A) = s - r + 1
  <2>1. ASSUME NEW k \in 1 .. s - r + 1
        PROVE  (IF k <= s - r THEN x + r + k - 1 ELSE x) \in LookedAt(n)
    <3>1. PICK i \in 0 .. s - 1 : (IF k <= s - r THEN x + r + k - 1 ELSE x) = x + i
      <4>1. CASE k <= s - r
        <5>1. r + k - 1 \in 0 .. s - 1 /\ x + r + k - 1 = x + (r + k - 1)
          BY <1>1, <4>1
        <5> QED BY <4>1, <5>1
      <4>2. CASE ~ (k <= s - r)
        <5>1. 0 \in 0 .. s - 1 /\ x = x + 0
          BY <1>1
        <5> QED BY <4>2, <5>1
      <4> QED BY <4>1, <4>2
    <3> QED BY <3>1, <1>4, <1>6
  <2>2. s - r + 1 \in Nat
    BY <1>1
  <2> QED BY <2>1, <2>2
<1>8. (n - 1) * s \in Nat
  BY <1>1
<1>9. B \in Seq(LookedAt(n)) /\ Len(B) = (n - 1) * s
  <2>1. ASSUME NEW k \in 1 .. (n - 1) * s
        PROVE  Other(k - 1) \in LookedAt(n)
    <3>1. k - 1 \in Nat
      BY <1>8
    <3>2. (k - 1) \div s \in Nat /\ (k - 1) % s \in 0 .. s - 1
      BY <3>1, <1>1, Divided
    <3>3. (q + 1 + ((k - 1) \div s)) % n \in 0 .. n - 1
      <4>1. q + 1 + ((k - 1) \div s) \in Nat
        BY <3>2
      <4> QED BY <4>1, Divided
    <3> QED BY <3>2, <3>3, <1>6
  <2>2. PICK m \in Nat : m = (n - 1) * s
    BY <1>8
  <2> HIDE DEF Other
  <2> QED BY <2>1, <2>2
<1>10. /\ A \o B \in Seq(LookedAt(n)) /\ Len(A \o B) = Len(A) + Len(B)
       /\ DOMAIN (A \o B) = 1 .. Len(A) + Len(B)
       /\ \A k \in 1 .. Len(A) + Len(B) :
            (A \o B)[k] = IF k <= Len(A) THEN A[k] ELSE B[k - Len(A)]
  <2>1. PICK a \in Seq(LookedAt(n)), b \in Seq(LookedAt(n)) : a = A /\ b = B
    BY <1>7, <1>9
  <2>2. /\ a \o b \in Seq(LookedAt(n)) /\ Len(a \o b) = Len(a) + Len(b)
        /\ \A k \in 1 .. Len(a) + Len(b) :
             (a \o b)[k] = IF k <= Len(a) THEN a[k] ELSE b[k - Len(a)]
    BY ConcatProperties
  <2>3. DOMAIN (a \o b) = 1 .. Len(a) + Len(b)
    BY <2>2, LenProperties
  <2> HIDE DEF A, B
  <2> QED BY <2>1, <2>2, <2>3
<1>11. ASSUME r = 0, NEW u \in LookedAt(n)
       PROVE  \E k \in DOMAIN Order(pool) : Order(pool)[k] = u
  <2>1. PICK j \in 0 .. n - 1, i \in 0 .. s - 1 : u = QueueStart(j) + i
    <3>1. PICK j \in 0 .. n - 1, i \in 0 .. QueueSize - 2 : u = UnitAt(j, i)
      BY DEF LookedAt
    <3>2. i \in 0 .. s - 1
      BY <1>1
    <3> QED BY <3>1, <3>2, <1>6
  <2>2. CASE j = q
    <3>1. i + 1 \in 1 .. s - r + 1 /\ i + 1 <= s - r /\ x + r + (i + 1) - 1 = x + i
      BY <1>1, <1>11
    <3>2. A[i + 1] = u
      BY <3>1, <2>1, <2>2, <1>4
    <3>3. i + 1 \in 1 .. Len(A) + Len(B) /\ i + 1 <= Len(A)
      BY <3>1, <1>7, <1>8, <1>9
    <3> HIDE DEF A, B
    <3> QED BY <3>2, <3>3, <1>5, <1>10
  <2>3. CASE j # q
    <3>1. PICK d \in 0 .. n - 2 : (q + 1 + d) % n = j
      <4>1. CASE j > q
        <5>1. j - q - 1 \in 0 .. n - 2 /\ q + 1 + (j - q - 1) = n * 0 + j
          BY <4>1
        <5>2. (q + 1 + (j - q - 1)) % n = j
          <6>1. q + 1 + (j - q - 1) \in Nat
            BY <5>1
          <6> QED BY <5>1, <6>1, RestIs
        <5> QED BY <5>1, <5>2
      <4>2. CASE j < q
        <5>1. j - q - 1 + n \in 0 .. n - 2 /\ q + 1 + (j - q - 1 + n) = n * 1 + j
          BY <4>2
        <5>2. (q + 1 + (j - q - 1 + n)) % n = j
          <6>1. q + 1 + (j - q - 1 + n) \in Nat
            BY <5>1
          <6> QED BY <5>1, <6>1, RestIs
        <5> QED BY <5>1, <5>2
      <4> QED BY <2>3, <4>1, <4>2
    <3>2. PICK m \in Nat : /\ m = d * s + i /\ m + 1 \in 1 .. (n - 1) * s
                           /\ m \div s = d /\ m % s = i
      <4>1. PICK y \in Nat, z \in Nat : y = d * s /\ z = (n - 1) * s /\ y + s <= z
        <5>1. (d + 1) * s <= (n - 1) * s
          BY TimesMore
        <5>2. (d + 1) * s = d * s + s
          OBVIOUS
        <5>3. d * s \in Nat /\ (n - 1) * s \in Nat
          OBVIOUS
        <5> QED BY <5>1, <5>2, <5>3
      <4>2. y + i \in Nat /\ y + i + 1 \in 1 .. z
        BY <4>1
      <4>3. y + i = s * d + i
        BY <4>1
      <4>4. (y + i) \div s = d /\ (y + i) % s = i
        BY <4>2, <4>3, <1>1, QuotientIs, RestIs
      <4> QED BY <4>1, <4>2, <4>4
    <3>3. B[m + 1] = u
      <4>1. m + 1 - 1 = m
        OBVIOUS
      <4>2. Other(m) = u
        BY <3>1, <3>2, <2>1
      <4> HIDE DEF Other
      <4> QED BY <3>2, <4>1, <4>2
    <3> HIDE DEF A, B
    <3>4. PICK a \in Nat, b \in Nat : a = Len(A) /\ b = Len(B) /\ m + 1 \in 1 .. b
      <4>1. Len(A) \in Nat /\ Len(B) \in Nat
        BY <1>1, <1>7, <1>8, <1>9
      <4> QED BY <3>2, <4>1, <1>9
    <3>5. PICK k \in 1 .. a + b : ~ (k <= a) /\ k - a = m + 1
      <4>1. a + (m + 1) \in 1 .. a + b /\ ~ (a + (m + 1) <= a) /\ a + (m + 1) - a = m + 1
        BY <3>4
      <4> QED BY <4>1
    <3>6. DOMAIN (A \o B) = 1 .. a + b /\ (A \o B)[k] = IF k <= a THEN A[k] ELSE B[k - a]
      BY <3>4, <1>10
    <3> QED BY <3>3, <3>5, <3>6, <1>5
  <2> QED BY <2>2, <2>3
<1> QED BY <1>5, <1>10, <1>11

\* The unit that a search finds is one that may be looked at, and is free.
LEMMA FirstFreeIs ==
  ASSUME NEW n \in Nat \ {0}, NEW pool \in PoolsOf(n), PlaceInv(n), FreeIn(pool) # {}
  PROVE  FirstFree(pool) \in LookedAt(n) /\ ~ pool[FirstFree(pool)]
<1>1. Order(pool) \in Seq(LookedAt(n))
  BY OrderIs DEF PlaceInv
<1>2. PICK m \in Nat : m = Len(Order(pool)) /\ DOMAIN Order(pool) = 1 .. m
  BY <1>1, LenProperties
<1>3. IsFiniteSet(1 .. m) /\ FreeIn(pool) \in SUBSET (1 .. m) /\ FreeIn(pool) \in SUBSET Int
  BY <1>2, FS_Interval DEF FreeIn
<1>4. IsFiniteSet(FreeIn(pool))
  BY <1>3, FS_Subset
<1>5. \E k \in FreeIn(pool) : \A j \in FreeIn(pool) : k <= j
  BY <1>3, <1>4, MinOf
<1>6. PICK k \in FreeIn(pool) : FirstFree(pool) = Order(pool)[k]
  BY <1>5 DEF FirstFree
<1>7. k \in 1 .. m /\ ~ pool[Order(pool)[k]]
  BY <1>2, <1>6 DEF FreeIn
<1>8. Order(pool)[k] \in LookedAt(n)
  BY <1>1, <1>2, <1>7, ElementOfSeq
<1> QED BY <1>6, <1>7, <1>8

\* From the first unit of a queue, a search that finds nothing has seen every unit that may
\* be looked at.
LEMMA NoneFree ==
  ASSUME NEW n \in Nat \ {0}, NEW pool \in PoolsOf(n), NEW q \in 0 .. n - 1,
         avail = UnitAt(q, 0), FreeIn(pool) = {}
  PROVE  \A u \in LookedAt(n) : pool[u]
<1> SUFFICES ASSUME NEW u \in LookedAt(n) PROVE pool[u]
  OBVIOUS
<1>1. 0 \in 0 .. QueueSize - 2
  BY UnitQueueAssumption
<1>2. PICK k \in DOMAIN Order(pool) : Order(pool)[k] = u
  BY <1>1, OrderIs
<1> QED BY <1>2 DEF FreeIn

-----------------------------------------------------------------------------
(* Growth *)

\* If all units that may be looked at are in use, the pool is due to grow.
LEMMA AllLooked ==
  ASSUME NEW n \in Nat \ {0}, NEW pool \in PoolsOf(n), \A u \in LookedAt(n) : pool[u]
  PROVE  ~ (Used(pool) * Whole < Len(pool) * Part)
<1> USE UnitQueueAssumption
<1>1. PICK s \in Nat, y \in Nat : s = QueueSize - 1 /\ s > 0 /\ y = n * s
  <2>1. n * (QueueSize - 1) \in Nat
    OBVIOUS
  <2> QED BY <2>1
<1>2. PICK T : T = {u \in DOMAIN pool : pool[u]} /\ IsFiniteSet(T) /\ Used(pool) = Cardinality(T)
  BY PoolIs DEF Used
<1> DEFINE f == [k \in 0 .. y - 1 |-> UnitAt(k \div s, k % s)]
<1>3. ASSUME NEW k \in 0 .. y - 1
      PROVE  /\ k \div s \in 0 .. n - 1 /\ k % s \in 0 .. QueueSize - 2
             /\ k % s \in 0 .. QueueSize - 1
             /\ k = s * (k \div s) + (k % s)
  <2>1. PICK d \in Nat, i \in 0 .. s - 1 : d = k \div s /\ i = k % s /\ k = s * d + i
    <3>1. k \in Nat
      OBVIOUS
    <3> QED BY <3>1, <1>1, Divided
  <2>2. ASSUME d >= n PROVE FALSE
    <3>1. n * s <= d * s
      BY <2>2, TimesMore
    <3>2. PICK z \in Int : z = d * s /\ k = z + i /\ y <= z
      BY <3>1, <2>1, <1>1
    <3> QED BY <3>2
  <2> QED BY <1>1, <2>1, <2>2
<1>4. ASSUME NEW k \in 0 .. y - 1
      PROVE  f[k] \in T
  <2>1. UnitAt(k \div s, k % s) \in LookedAt(n)
    BY <1>3 DEF LookedAt
  <2>2. UnitAt(k \div s, k % s) \in 1 .. n * QueueSize
    BY <1>3, UnitIs
  <2>3. DOMAIN pool = 1 .. n * QueueSize
    BY PoolIs
  <2> QED BY <2>1, <2>2, <2>3, <1>2
<1>5. ASSUME NEW k \in 0 .. y - 1, NEW l \in 0 .. y - 1, f[k] = f[l]
      PROVE  k = l
  <2>1. PICK d \in 0 .. n - 1, i \in 0 .. QueueSize - 1 :
          d = k \div s /\ i = k % s /\ k = s * d + i
    BY <1>3
  <2>2. PICK e \in 0 .. n - 1, j \in 0 .. QueueSize - 1 :
          e = l \div s /\ j = l % s /\ l = s * e + j
    BY <1>3
  <2>3. UnitAt(d, i) = UnitAt(e, j)
    BY <1>5, <2>1, <2>2
  <2>4. d = e
    <3>1. QueueOf(UnitAt(d, i)) = d /\ QueueOf(UnitAt(e, j)) = e
      BY UnitIs, Zenon
    <3> QED BY <2>3, <3>1
  <2>5. QueueStart(d) + i = QueueStart(d) + j
    BY <2>3, <2>4, UnitIs
  <2>6. QueueStart(d) \in Int
    BY DEF QueueStart
  <2>7. i = j
    BY <2>5, <2>6
  <2> QED BY <2>1, <2>2, <2>4, <2>7
<1>6. f \in Injection(0 .. y - 1, T)
  <2>1. f \in [0 .. y - 1 -> T]
    BY <1>4
  <2>2. \A k, l \in 0 .. y - 1 : f[k] = f[l] => k = l
    BY <1>5
  <2> HIDE DEF f
  <2> QED BY <2>1, <2>2 DEF Injection, IsInjective
<1>7. y <= Cardinality(T)
  <2>1. Cardinality(0 .. y - 1) = y
    <3>1. 0 \in Int /\ y - 1 \in Int
      OBVIOUS
    <3>2. Cardinality(0 .. y - 1) = IF 0 > y - 1 THEN 0 ELSE y - 1 - 0 + 1
      BY <3>1, FS_Interval
    <3> QED BY <3>2
  <2> HIDE DEF f
  <2> QED BY <2>1, <1>2, <1>6, FS_Injection
<1>8. PICK c \in Nat : c = Used(pool) /\ y <= c
  BY <1>2, <1>7, PoolIs
<1>9. y * Whole <= c * Whole
  BY <1>8, TimesMore
<1>10. n * QueueSize * Part <= y * Whole
  <2>1. (Part * QueueSize) * n <= (Whole * s) * n
    BY <1>1, TimesMore
  <2>2. (Part * QueueSize) * n = n * QueueSize * Part /\ (Whole * s) * n = y * Whole
    BY <1>1
  <2> QED BY <2>1, <2>2
<1>11. Len(pool) = n * QueueSize
  BY PoolIs
<1>12. PICK a \in Int, b \in Int, d \in Int :
         a = n * QueueSize * Part /\ b = y * Whole /\ d = c * Whole
  <2>1. n * QueueSize * Part \in Int /\ y * Whole \in Int /\ c * Whole \in Int
    OBVIOUS
  <2> QED BY <2>1
<1> QED BY <1>8, <1>9, <1>10, <1>11, <1>12

\* What increase makes of a pool: the same, or one more queue of free units if so many are
\* in use.
LEMMA IncreasedIs ==
  ASSUME NEW n \in Nat \ {0}, NEW pool \in PoolsOf(n), NEW c \in Int
  PROVE  IF Used(pool) * Whole < Len(pool) * Part THEN Increased(pool, c) = pool
         ELSE /\ Increased(pool, c) \in PoolsOf(n + 1)
              /\ \A u \in 1 .. n * QueueSize : Increased(pool, c)[u] = pool[u]
              /\ \A u \in 1 .. (n + 1) * QueueSize :
                   u \notin 1 .. n * QueueSize => ~ Increased(pool, c)[u]
              /\ Used(Increased(pool, c)) = Used(pool)
              /\ n * QueueSize * Part <= Used(pool) * Whole
<1> USE UnitQueueAssumption
<1>1. PICK y \in Nat, z \in Nat :
        y = n * QueueSize /\ z = (n + 1) * QueueSize /\ y + QueueSize = z
  <2>1. n * QueueSize \in Nat /\ (n + 1) * QueueSize \in Nat
        /\ n * QueueSize + QueueSize = (n + 1) * QueueSize
    OBVIOUS
  <2> QED BY <2>1
<1>2. Len(pool) = y /\ DOMAIN pool = 1 .. y
  BY <1>1, PoolIs
<1>3. CASE Used(pool) * Whole < Len(pool) * Part
  BY <1>3 DEF Increased, Recount
<1>4. CASE ~ (Used(pool) * Whole < Len(pool) * Part)
  <2>1. PICK P : P = [u \in 1 .. z |-> IF u \in 1 .. y THEN pool[u] ELSE FALSE]
    OBVIOUS
  <2>2. Increased(pool, c) = P
    BY <2>1, <1>1, <1>2, <1>4 DEF Increased, Recount
  <2>3. \A u \in 1 .. y : pool[u] \in BOOLEAN /\ u \in 1 .. z
    BY <1>1 DEF PoolsOf
  <2>4. P \in [1 .. z -> BOOLEAN]
    BY <2>1, <2>3
  <2>5. \A u \in 1 .. y : P[u] = pool[u]
    BY <2>1, <2>3
  <2>6. \A u \in 1 .. z : u \notin 1 .. y => ~ P[u]
    BY <2>1
  <2>7. {u \in DOMAIN P : P[u]} = {u \in DOMAIN pool : pool[u]}
    BY <2>3, <2>4, <2>5, <2>6, <1>2
  <2>8. n * QueueSize * Part <= Used(pool) * Whole
    <3>1. Used(pool) * Whole \in Int /\ Len(pool) * Part \in Int
      <4>1. Used(pool) \in Nat
        BY PoolIs
      <4> QED BY <4>1, <1>1, <1>2
    <3> QED BY <3>1, <1>1, <1>2, <1>4
  <2> QED BY <1>1, <1>4, <2>2, <2>4, <2>5, <2>6, <2>7, <2>8 DEF Used, PoolsOf
<1> QED BY <1>3, <1>4

-----------------------------------------------------------------------------
(* The steps *)

\* Below the threshold is below the size of the pool.
LEMMA BelowSize ==
  ASSUME NEW c \in Int, NEW y \in Nat, y > 0, c * Whole <= y * Part
  PROVE  c < y
<1> SUFFICES ASSUME y <= c PROVE FALSE
  OBVIOUS
<1> USE UnitQueueAssumption
<1>1. y * Whole <= c * Whole
  BY TimesMore
<1>2. (Part + 1) * y <= Whole * y
  BY TimesMore
<1>3. PICK a \in Int, b \in Int, d \in Int : a = y * Whole /\ b = c * Whole /\ d = y * Part
  OBVIOUS
<1>4. (Part + 1) * y = d + y /\ Whole * y = a
  BY <1>3
<1> QED BY <1>1, <1>2, <1>3, <1>4

\* More queues, more units to be looked at.
LEMMA LookedAtMore ==
  ASSUME NEW n \in Nat \ {0}, NEW m \in {n, n + 1}
  PROVE  /\ LookedAt(n) \subseteq LookedAt(m)
         /\ LookedAt(n) \subseteq 1 .. n * QueueSize
<1>1. \A q \in 0 .. n - 1 : q \in 0 .. m - 1
  OBVIOUS
<1>2. \A q \in 0 .. n - 1, r \in 0 .. QueueSize - 2 : UnitAt(q, r) \in 1 .. n * QueueSize
  BY UnitIs, UnitQueueAssumption
<1> QED BY <1>1, <1>2 DEF LookedAt

\* The pool the worker searches is the one it had, or has a queue more; it is never
\* exhausted.
LEMMA PoolGrows ==
  ASSUME UnitsInv, NEW n \in Nat \ {0}, PoolInv(n)
  PROVE  /\ Counted \in Int /\ ~ Exhausted
         /\ \E m \in {n, n + 1} :
              /\ Pool \in PoolsOf(m) /\ PlaceInv(m)
              /\ \A u \in 1 .. n * QueueSize : Pool[u] = inUse[u]
              /\ Used(Pool) = Used(inUse)
              /\ (m - 1) * QueueSize * Part <= MaxUsed * Whole
<1> USE UnitQueueAssumption
<1>1. inUse \in PoolsOf(n) /\ count \in Int
  BY DEF PoolInv, UnitsInv
<1>2. PICK y \in Nat, c \in Nat :
        y = n * QueueSize /\ c = Used(inUse) /\ c <= y /\ Len(inUse) = y /\ y > 0
  <2>1. n * QueueSize >= 1 * QueueSize
    BY TimesMore
  <2>2. /\ Len(inUse) = n * QueueSize /\ n * QueueSize \in Nat
        /\ Used(inUse) \in Nat /\ Used(inUse) <= n * QueueSize
    BY <1>1, PoolIs
  <2> QED BY <2>1, <2>2
<1>3. c <= MaxUsed
  BY <1>2 DEF PoolInv
<1>4. CASE Crowded /\ ~ (c * Whole < y * Part)
  <2>1. PICK P : P = Increased(inUse, count)
    OBVIOUS
  <2>2. /\ P \in PoolsOf(n + 1)
        /\ \A u \in 1 .. n * QueueSize : P[u] = inUse[u]
        /\ Used(P) = c /\ n * QueueSize * Part <= c * Whole
    BY <1>1, <1>2, <1>4, <2>1, IncreasedIs
  <2>3. Pool = P /\ Counted = c
    BY <1>2, <1>4, <2>1 DEF Pool, Counted, Recount
  <2>4. Len(P) = (n + 1) * QueueSize
    <3>1. n + 1 \in Nat \ {0}
      OBVIOUS
    <3> QED BY <3>1, <2>2, PoolIs
  <2>5. ~ Exhausted
    <3>1. (n + 1) * QueueSize = y + QueueSize
      BY <1>2
    <3> QED BY <2>3, <2>4, <3>1, <1>2 DEF Exhausted
  <2>6. n * QueueSize * Part <= MaxUsed * Whole
    <3>1. c * Whole <= MaxUsed * Whole
      BY <1>3, TimesMore
    <3>2. n * QueueSize * Part \in Int /\ c * Whole \in Int /\ MaxUsed * Whole \in Int
      OBVIOUS
    <3> QED BY <3>1, <3>2, <2>2
  <2>7. PlaceInv(n + 1)
    <3>1. PlaceInv(n) /\ \A q \in 0 .. n - 1 : q \in 0 .. n + 1 - 1
      BY DEF PoolInv
    <3> QED BY <3>1 DEF PlaceInv
  <2>8. n + 1 - 1 = n
    OBVIOUS
  <2> QED BY <1>2, <2>2, <2>3, <2>5, <2>6, <2>7, <2>8
<1>5. CASE ~ (Crowded /\ ~ (c * Whole < y * Part))
  <2>1. Pool = inUse
    <3>1. Used(inUse) * Whole < Len(inUse) * Part => Increased(inUse, count) = inUse
      BY <1>1, IncreasedIs
    <3> QED BY <3>1, <1>2, <1>5 DEF Pool
  <2>2. Counted \in Int /\ Counted < y
    <3>1. CASE Crowded
      <4>1. Counted = c
        BY <3>1, <1>2 DEF Counted, Recount
      <4>2. c * Whole <= y * Part
        <5>1. c * Whole \in Int /\ y * Part \in Int
          OBVIOUS
        <5> QED BY <5>1, <3>1, <1>5
      <4> QED BY <4>1, <4>2, <1>2, BelowSize
    <3>2. CASE ~ Crowded
      <4>1. Counted = count
        BY <3>2 DEF Counted
      <4>2. count * Whole <= y * Part
        <5>1. count * Whole \in Int /\ y * Part \in Int
          BY <1>1
        <5> QED BY <5>1, <3>2, <1>2 DEF Crowded
      <4> QED BY <4>1, <4>2, <1>1, <1>2, BelowSize
    <3> QED BY <3>1, <3>2
  <2>3. ~ Exhausted
    BY <2>1, <2>2, <1>2 DEF Exhausted
  <2> QED BY <1>1, <2>1, <2>2, <2>3 DEF PoolInv
<1> QED BY <1>4, <1>5

LEMMA GetNextAvailUnitStep ==
  ASSUME UnitsInv, GetNextAvailUnit
  PROVE  UnitsInv'
<1>1. PICK n \in Nat \ {0} : PoolInv(n)
  BY DEF UnitsInv
<1>2. Counted \in Int
  BY <1>1, PoolGrows
<1>3. PICK m \in Nat \ {0} : /\ Pool \in PoolsOf(m) /\ PlaceInv(m)
                             /\ Used(Pool) = Used(inUse)
                             /\ (m - 1) * QueueSize * Part <= MaxUsed * Whole
  <2>1. \A m \in {n, n + 1} : m \in Nat \ {0}
    OBVIOUS
  <2> QED BY <1>1, <2>1, PoolGrows
<1>4. FirstFree(Pool) \in LookedAt(m) /\ ~ Pool[FirstFree(Pool)]
  BY <1>3, FirstFreeIs DEF GetNextAvailUnit
<1>5. FirstFree(Pool) \in DOMAIN Pool
  <2>1. DOMAIN Pool = 1 .. m * QueueSize
    BY <1>3, PoolIs
  <2>2. LookedAt(m) \subseteq 1 .. m * QueueSize
    BY LookedAtMore
  <2> QED BY <1>4, <2>1, <2>2
<1>6. /\ inUse' = Pool /\ count' = Counted
      /\ avail' = FirstFree(Pool) /\ unit' = FirstFree(Pool)
      /\ step' = "fill" /\ refused' = 0 /\ seen' = seen /\ read' = read
  BY DEF GetNextAvailUnit
<1>7. PlaceInv(m)'
  <2>1. PICK q \in 0 .. m - 1, r \in 0 .. QueueSize - 2 : FirstFree(Pool) = UnitAt(q, r)
    BY <1>4 DEF LookedAt
  <2>2. avail' = UnitAt(q, r)
    BY <2>1, <1>6
  <2> QED BY <2>2, <1>6 DEF PlaceInv, UnitAt
<1>8. Used(inUse)' <= MaxUsed
  BY <1>1, <1>3, <1>6 DEF PoolInv, Used
<1>9. PoolInv(m)'
  BY <1>3, <1>4, <1>5, <1>6, <1>7, <1>8 DEF PoolInv, PoolsOf
<1> QED BY <1>2, <1>6, <1>9 DEF UnitsInv

LEMMA GetsNoneStep ==
  ASSUME UnitsInv, GetsNone
  PROVE  UnitsInv'
<1> USE UnitQueueAssumption
<1>1. PICK n \in Nat \ {0} : PoolInv(n)
  BY DEF UnitsInv
<1>2. Counted \in Int /\ ~ Exhausted
  BY <1>1, PoolGrows
<1>3. PICK m \in Nat \ {0} : /\ m \in {n, n + 1}
                             /\ Pool \in PoolsOf(m) /\ PlaceInv(m)
                             /\ \A u \in 1 .. n * QueueSize : Pool[u] = inUse[u]
                             /\ Used(Pool) = Used(inUse)
                             /\ (m - 1) * QueueSize * Part <= MaxUsed * Whole
  <2>1. \A m \in {n, n + 1} : m \in Nat \ {0}
    OBVIOUS
  <2> QED BY <1>1, <2>1, PoolGrows
<1>4. /\ step = "get" /\ FreeIn(Pool) = {}
      /\ inUse' = Increased(Pool, Counted) /\ count' = Recount(Pool, Counted)
      /\ avail' = QueueStart(QueueOf(avail)) /\ refused' = refused + 1
      /\ step' = "get" /\ unit' = unit /\ seen' = seen /\ read' = read
  BY <1>2 DEF GetsNone
<1>5. PICK q \in 0 .. m - 1, r \in 0 .. QueueSize - 2 :
        avail = UnitAt(q, r) /\ (refused # 0 => r = 0)
  BY <1>3 DEF PlaceInv
<1>6. refused = 0
  <2> SUFFICES ASSUME refused # 0 PROVE FALSE
    OBVIOUS
  <2>1. PICK u \in LookedAt(n) : ~ inUse[u]
    BY <1>1 DEF PoolInv
  <2>2. u \in LookedAt(m) /\ u \in 1 .. n * QueueSize
    BY <1>3, <2>1, LookedAtMore
  <2>3. Pool[u]
    BY <1>3, <1>4, <1>5, <2>2, NoneFree
  <2> QED BY <1>3, <2>1, <2>2, <2>3
<1>7. avail' = UnitAt(q, 0)
  <2>1. r \in 0 .. QueueSize - 1 /\ 0 \in 0 .. QueueSize - 1
    OBVIOUS
  <2>2. QueueOf(avail) = q
    BY <1>5, <2>1, UnitIs
  <2>3. UnitAt(q, 0) = QueueStart(q) + 0
    BY <2>1, UnitIs
  <2>4. QueueStart(q) \in Int
    BY DEF QueueStart
  <2> QED BY <2>2, <2>3, <2>4, <1>4
<1>8. \E k \in Nat \ {0} :
        /\ k \in {m, m + 1} /\ inUse' \in PoolsOf(k)
        /\ \E u \in LookedAt(k) : ~ inUse'[u]
        /\ Used(inUse') = Used(inUse)
        /\ (k - 1) * QueueSize * Part <= MaxUsed * Whole
  <2>1. CASE Used(Pool) * Whole < Len(Pool) * Part
    <3>1. inUse' = Pool
      BY <2>1, <1>2, <1>3, <1>4, IncreasedIs
    <3>2. \E u \in LookedAt(m) : ~ Pool[u]
      BY <2>1, <1>3, AllLooked
    <3> QED BY <3>1, <3>2, <1>3
  <2>2. CASE ~ (Used(Pool) * Whole < Len(Pool) * Part)
    <3>1. /\ inUse' \in PoolsOf(m + 1)
          /\ \A u \in 1 .. (m + 1) * QueueSize : u \notin 1 .. m * QueueSize => ~ inUse'[u]
          /\ Used(inUse') = Used(Pool)
          /\ m * QueueSize * Part <= Used(Pool) * Whole
      BY <2>2, <1>2, <1>3, <1>4, IncreasedIs
    <3>2. UnitAt(m, 0) \in LookedAt(m + 1) /\ UnitAt(m, 0) \in 1 .. (m + 1) * QueueSize
      <4>1. m \in 0 .. m + 1 - 1 /\ 0 \in 0 .. QueueSize - 2 /\ m + 1 \in Nat \ {0}
        OBVIOUS
      <4>2. UnitAt(m, 0) \in LookedAt(m + 1)
        BY <4>1 DEF LookedAt
      <4> QED BY <4>1, <4>2, LookedAtMore
    <3>3. UnitAt(m, 0) \notin 1 .. m * QueueSize
      BY DEF UnitAt
    <3>4. m * QueueSize * Part <= MaxUsed * Whole
      <4>1. Used(Pool) \in Int /\ Used(Pool) <= MaxUsed
        <5>1. Used(Pool) \in Nat
          BY <1>3, PoolIs, Zenon
        <5> QED BY <5>1, <1>1, <1>3 DEF PoolInv
      <4>2. Used(Pool) * Whole <= MaxUsed * Whole
        BY <4>1, TimesMore
      <4>3. /\ m * QueueSize * Part \in Int /\ Used(Pool) * Whole \in Int
            /\ MaxUsed * Whole \in Int
        BY <4>1
      <4> QED BY <4>2, <4>3, <3>1
    <3>5. m + 1 \in Nat \ {0} /\ m + 1 - 1 = m
      OBVIOUS
    <3> QED BY <3>1, <3>2, <3>3, <3>4, <3>5, <1>3
  <2> QED BY <2>1, <2>2
<1>9. PICK k \in Nat \ {0} :
        /\ k \in {m, m + 1} /\ inUse' \in PoolsOf(k)
        /\ \E u \in LookedAt(k) : ~ inUse'[u]
        /\ Used(inUse') = Used(inUse)
        /\ (k - 1) * QueueSize * Part <= MaxUsed * Whole
  BY <1>8
<1>10. PlaceInv(k)'
  <2>1. q \in 0 .. k - 1 /\ 0 \in 0 .. QueueSize - 2
    BY <1>9
  <2> QED BY <2>1, <1>7 DEF PlaceInv, UnitAt
<1>11. Used(inUse)' <= MaxUsed
  BY <1>1, <1>9 DEF PoolInv, Used
<1>12. PoolInv(k)'
  <2>1. \E u \in LookedAt(k)' : ~ inUse'[u]
    <3>1. LookedAt(k)' = LookedAt(k)
      BY DEF LookedAt, UnitAt
    <3> QED BY <3>1, <1>9
  <2>2. (inUse \in PoolsOf(k))'
    BY <1>9 DEF PoolsOf
  <2> QED BY <1>4, <1>9, <1>10, <1>11, <2>1, <2>2 DEF PoolInv
<1>13. count' \in Int
  <2>1. Used(Pool) \in Nat
    BY <1>3, PoolIs, Zenon
  <2> QED BY <2>1, <1>4 DEF Recount
<1> QED BY <1>4, <1>6, <1>12, <1>13 DEF UnitsInv

\* The count itself, right or wrong, is nothing the invariant depends on.
LEMMA CountStep ==
  ASSUME UnitsInv, NotKept \/ CountUp \/ CountDown
  PROVE  UnitsInv'
<1>1. PICK n \in Nat \ {0} : PoolInv(n)
  BY DEF UnitsInv
<1>2. /\ inUse' = inUse /\ avail' = avail /\ refused' = refused
      /\ step' = "get" \/ (step' = step /\ unit' = unit)
      /\ count' \in Int /\ seen' \in Int /\ read' \in Int
  BY DEF UnitsInv, NotKept, CountUp, CountDown
<1>3. PlaceInv(n)'
  BY <1>1, <1>2 DEF PoolInv, PlaceInv
<1>4. PoolInv(n)'
  BY <1>1, <1>2, <1>3 DEF PoolInv, Used
<1> QED BY <1>2, <1>4 DEF UnitsInv

LEMMA KeepStep ==
  ASSUME UnitsInv, Keep
  PROVE  UnitsInv'
<1> USE UnitQueueAssumption
<1>1. PICK n \in Nat \ {0} : PoolInv(n)
  BY DEF UnitsInv
<1>2. /\ step = "fill" /\ Used(inUse) < MaxUsed
      /\ inUse' = [inUse EXCEPT ![unit] = TRUE] /\ seen' = count /\ step' = "count"
      /\ avail' = avail /\ count' = count /\ read' = read /\ refused' = refused
  BY DEF Keep
<1>3. unit \in DOMAIN inUse /\ inUse \in PoolsOf(n) /\ refused = 0
  BY <1>1, <1>2 DEF PoolInv
<1>4. inUse' \in PoolsOf(n)
  BY <1>2, <1>3 DEF PoolsOf
<1>5. Used(inUse)' <= MaxUsed
  <2>1. PICK S, T : /\ S = {u \in DOMAIN inUse : inUse[u]}
                    /\ T = {u \in DOMAIN inUse' : inUse'[u]}
    OBVIOUS
  <2>2. T = S \cup {unit}
    BY <2>1, <1>2, <1>3 DEF PoolsOf
  <2>3. IsFiniteSet(S) /\ Cardinality(S) \in Nat /\ Used(inUse) = Cardinality(S)
    BY <2>1, <1>3, PoolIs DEF Used
  <2>4. Cardinality(T) \in Int /\ Cardinality(T) <= Cardinality(S) + 1
    BY <2>2, <2>3, FS_AddElement
  <2>5. Used(inUse)' = Cardinality(T)
    BY <2>1 DEF Used
  <2> QED BY <2>3, <2>4, <2>5, <1>2
<1>6. PlaceInv(n)'
  BY <1>1, <1>2 DEF PoolInv, PlaceInv
<1>7. PoolInv(n)'
  BY <1>1, <1>2, <1>3, <1>4, <1>5, <1>6 DEF PoolInv
<1> QED BY <1>2, <1>7 DEF UnitsInv

LEMMA FreeStep ==
  ASSUME UnitsInv, NEW v \in DOMAIN inUse, Free(v)
  PROVE  UnitsInv'
<1> USE UnitQueueAssumption
<1>1. PICK n \in Nat \ {0} : PoolInv(n)
  BY DEF UnitsInv
<1>2. /\ inUse' = [inUse EXCEPT ![v] = FALSE] /\ read' = count
      /\ avail' = avail /\ count' = count /\ seen' = seen /\ refused' = refused
      /\ step' = step /\ unit' = unit
  BY DEF Free
<1>3. inUse \in PoolsOf(n) /\ inUse' \in PoolsOf(n) /\ DOMAIN inUse' = DOMAIN inUse
  BY <1>1, <1>2 DEF PoolInv, PoolsOf
<1>4. \A u \in DOMAIN inUse : inUse'[u] => inUse[u]
  BY <1>2, <1>3 DEF PoolsOf
<1>5. Used(inUse)' <= MaxUsed
  <2>1. PICK S, T : /\ S = {u \in DOMAIN inUse : inUse[u]}
                    /\ T = {u \in DOMAIN inUse' : inUse'[u]}
    OBVIOUS
  <2>2. T \in SUBSET S
    BY <2>1, <1>3, <1>4
  <2>3. IsFiniteSet(S) /\ Cardinality(S) \in Nat /\ Used(inUse) = Cardinality(S)
    BY <2>1, <1>3, PoolIs DEF Used
  <2>4. Cardinality(T) \in Nat /\ Cardinality(T) <= Cardinality(S)
    BY <2>2, <2>3, TakenAway, Zenon
  <2>5. Used(inUse)' = Cardinality(T)
    BY <2>1 DEF Used
  <2> QED BY <2>3, <2>4, <2>5, <1>1 DEF PoolInv
<1>6. PlaceInv(n)'
  BY <1>1, <1>2 DEF PoolInv, PlaceInv
<1>7. refused # 0 => step = "get" /\ \E u \in LookedAt(n) : ~ inUse'[u]
  <2>1. LookedAt(n) \subseteq DOMAIN inUse
    BY <1>3, LookedAtMore, PoolIs
  <2> QED BY <2>1, <1>1, <1>4 DEF PoolInv
<1>8. step = "fill" => unit \in DOMAIN inUse' /\ ~ inUse'[unit]
  BY <1>1, <1>3, <1>4 DEF PoolInv
<1>9. PoolInv(n)'
  BY <1>1, <1>2, <1>3, <1>5, <1>6, <1>7, <1>8 DEF PoolInv, PoolsOf, LookedAt, UnitAt
<1> QED BY <1>2, <1>9 DEF UnitsInv

-----------------------------------------------------------------------------
(* The theorem *)

LEMMA InitUnits == UnitsInit => UnitsInv
<1> USE UnitQueueAssumption
<1> SUFFICES ASSUME UnitsInit PROVE UnitsInv
  OBVIOUS
<1>1. 1 * QueueSize = QueueSize
  OBVIOUS
<1>2. inUse \in PoolsOf(1) /\ DOMAIN inUse = 1 .. QueueSize /\ \A u \in DOMAIN inUse : ~ inUse[u]
  BY <1>1 DEF UnitsInit, PoolsOf
<1>3. Used(inUse) = 0
  <2>1. {u \in DOMAIN inUse : inUse[u]} = {}
    BY <1>2
  <2> QED BY <2>1, FS_EmptySet DEF Used
<1>4. PlaceInv(1)
  <2>1. 0 \in 0 .. 1 - 1 /\ 0 \in 0 .. QueueSize - 2 /\ UnitAt(0, 0) = 1
    BY DEF UnitAt
  <2> QED BY <2>1 DEF PlaceInv, UnitsInit
<1>5. (1 - 1) * QueueSize * Part <= MaxUsed * Whole
  <2>1. (1 - 1) * QueueSize * Part = 0 /\ MaxUsed * Whole \in Nat
    OBVIOUS
  <2> QED BY <2>1
<1>6. PoolInv(1)
  BY <1>2, <1>3, <1>4, <1>5 DEF PoolInv, UnitsInit
<1> QED BY <1>6 DEF UnitsInv, UnitsInit

LEMMA NextUnits == UnitsInv /\ [UnitsNext]_unitVars => UnitsInv'
<1> SUFFICES ASSUME UnitsInv, [UnitsNext]_unitVars PROVE UnitsInv'
  OBVIOUS
<1>1. CASE UNCHANGED unitVars
  <2>1. \A n \in Nat \ {0} : PoolInv(n) => PoolInv(n)'
    BY <1>1 DEF PoolInv, PlaceInv, unitVars, Used
  <2> QED BY <2>1, <1>1 DEF UnitsInv, unitVars
<1>2. CASE UnitsNext
  <2>1. CASE GetNextAvailUnit
    BY <2>1, GetNextAvailUnitStep
  <2>2. CASE GetsNone
    BY <2>2, GetsNoneStep
  <2>3. CASE NotKept \/ CountUp \/ CountDown
    BY <2>3, CountStep
  <2>4. CASE Keep
    BY <2>4, KeepStep
  <2>5. CASE \E u \in DOMAIN inUse : Free(u)
    BY <2>5, FreeStep
  <2> QED BY <1>2, <2>1, <2>2, <2>3, <2>4, <2>5 DEF UnitsNext
<1> QED BY <1>1, <1>2

\* However wrong m_iCount has become: the worker is refused a unit at most once in a row,
\* what it fills is not held by a buffer, and the pool has grown no further than the units
\* really in use called for.
THEOREM UnitsStayExact == ContainersSpec => []UnitsExact
<1>1. ContainersInit => UnitsInv
  BY InitUnits DEF ContainersInit
<1>2. UnitsInv /\ [ContainersNext]_containers => UnitsInv'
  <2>1. [ContainersNext]_containers => [UnitsNext]_unitVars
    BY DEF ContainersNext, containers
  <2> QED BY <2>1, NextUnits
<1>3. UnitsInv => UnitsExact
  <2> SUFFICES ASSUME UnitsInv PROVE UnitsExact
    OBVIOUS
  <2>1. PICK n \in Nat \ {0} : PoolInv(n)
    BY DEF UnitsInv
  <2>2. Len(inUse) - QueueSize = (n - 1) * QueueSize
    <3>1. inUse \in PoolsOf(n)
      BY <2>1 DEF PoolInv
    <3>2. Len(inUse) = n * QueueSize
      BY <3>1, PoolIs
    <3> QED BY <3>2, UnitQueueAssumption
  <2> QED BY <2>1, <2>2 DEF UnitsExact, UnitsInv, PoolInv
<1> QED BY <1>1, <1>2, <1>3, PTL DEF ContainersSpec
=============================================================================
