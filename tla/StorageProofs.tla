---------------------------- MODULE StorageProofs ----------------------------
(* Storage, for every memory, every layout of blocks, every choice of the   *)
(* sediment and every bound.  First the collector: what one collection does *)
(* to the blocks in use.  Then the allocator and the program: the static    *)
(* area never reaches the dynamic area, the dynamic area is blocks from end *)
(* to end whenever the program runs, a collection keeps every block in use  *)
(* and every pointer to it, and memory overflows only when it is full.      *)
EXTENDS Storage, FiniteSetTheorems, SequenceTheorems, WellFoundedInduction, TLAPS

-----------------------------------------------------------------------------
(* Induction, in the form the provers can use: with a set for the predicate.*)
LEMMA LeastNumber ==
  ASSUME NEW T \in SUBSET Nat, T # {}
  PROVE  \E x \in T : \A y \in T : x <= y
<1>1. IsWellFoundedOn(OpToRel(<, Nat), Nat)  BY NatLessThanWellFounded
<1>2. PICK x \in T : \A y \in T : ~ (<<y, x>> \in OpToRel(<, Nat))
  BY <1>1, WFMin
<1>3. \A y \in T : ~ (y < x)  BY <1>2 DEF OpToRel
<1> QED BY <1>3

(* A set with 0 and with the successor of each of its numbers has them all. *)
LEMMA SetInduction ==
  ASSUME NEW S, 0 \in S, \A n \in Nat : n \in S => n + 1 \in S
  PROVE  Nat \subseteq S
<1> SUFFICES ASSUME Nat \ S # {} PROVE FALSE  OBVIOUS
<1>1. PICK x \in Nat \ S : \A y \in Nat \ S : x <= y  BY LeastNumber
<1>2. x # 0 /\ x - 1 \in Nat /\ x - 1 \notin Nat \ S  BY <1>1
<1> QED BY <1>1, <1>2

(* A set of numbers with a bound has a greatest one.                        *)
LEMMA GreatestNumber ==
  ASSUME NEW T \in SUBSET Nat, T # {}, NEW n \in Nat, \A y \in T : y <= n
  PROVE  \E x \in T : \A y \in T : y <= x
<1> DEFINE D == {n - y : y \in T}
<1>1. D \in SUBSET Nat /\ D # {}
  <2>1. \A y \in T : n - y \in Nat  OBVIOUS
  <2>2. D \in SUBSET Nat  BY <2>1
  <2>3. D # {}  OBVIOUS
  <2> QED BY <2>2, <2>3
<1>2. PICK d \in D : \A e \in D : d <= e
  <2> HIDE DEF D
  <2> QED BY <1>1, LeastNumber
<1>3. PICK x \in T : d = n - x  BY <1>2
<1>4. \A y \in T : n - y \in D  OBVIOUS
<1> QED
  <2> HIDE DEF D
  <2> QED BY <1>2, <1>3, <1>4

-----------------------------------------------------------------------------
(* Words.                                                                   *)

(* A word has at least two bytes, and an even number of them.               *)
LEMMA WordBytes == W \in Nat /\ W >= 2
<1>1. W \in Nat \ {0} /\ Even(W)  BY GarbageCollectorAssumption, Zenon
<1>2. W # 1  BY <1>1 DEF Even
<1> QED BY <1>1, <1>2

(* An aligned address is a number of words.                                 *)
LEMMA AlignedIs == \A a \in Nat : Aligned(a) <=> \E k \in Nat : a = k * W
<1> SUFFICES ASSUME NEW a \in Nat PROVE Aligned(a) <=> \E k \in Nat : a = k * W
  OBVIOUS
<1>1. ASSUME Aligned(a) PROVE \E k \in Nat : a = k * W
  <2>1. a % W = 0  BY <1>1 DEF Aligned
  <2>2. a \div W \in Nat /\ a = (W * (a \div W)) + (a % W)  BY WordBytes, Z3
  <2>3. a = (a \div W) * W  BY <2>1, <2>2, WordBytes
  <2> QED BY <2>2, <2>3
<1>2. ASSUME NEW k \in Nat, a = k * W PROVE Aligned(a)
  <2>1. (k * W) % W = 0  BY WordBytes, Z3
  <2> QED BY <1>2, <2>1 DEF Aligned
<1> QED BY <1>1, <1>2

(* Sums, differences and multiples of aligned numbers are aligned, and two  *)
(* of them that differ do so by a word at least.                            *)
LEMMA AlignedArithmetic ==
  /\ \A a, b : Aligned(a) /\ Aligned(b) => Aligned(a + b)
  /\ \A a, b : Aligned(a) /\ Aligned(b) /\ a <= b => Aligned(b - a)
  /\ \A a, b : Aligned(a) /\ Aligned(b) /\ a < b => a + W <= b
  /\ \A k \in Nat : Aligned(k * W)
  /\ Aligned(0) /\ Aligned(W)
  /\ \A a : Aligned(a) => a \in Nat
<1>0. \A a : Aligned(a) => a \in Nat  BY DEF Aligned
<1>1. ASSUME NEW a, NEW b, Aligned(a), Aligned(b) PROVE Aligned(a + b)
  <2>1. a \in Nat /\ b \in Nat  BY <1>0, <1>1
  <2>2. PICK j \in Nat : a = j * W  BY <1>1, <2>1, AlignedIs
  <2>3. PICK k \in Nat : b = k * W  BY <1>1, <2>1, AlignedIs
  <2>4. a + b = (j + k) * W  BY <2>2, <2>3, WordBytes
  <2> QED BY <2>1, <2>4, AlignedIs
<1>2. ASSUME NEW a, NEW b, Aligned(a), Aligned(b), a <= b PROVE Aligned(b - a)
  <2>1. a \in Nat /\ b \in Nat  BY <1>0, <1>2
  <2>2. PICK j \in Nat : a = j * W  BY <1>2, <2>1, AlignedIs
  <2>3. PICK k \in Nat : b = k * W  BY <1>2, <2>1, AlignedIs
  <2>4. b - a = (k - j) * W  BY <2>2, <2>3, WordBytes
  <2>5. CASE j <= k
    <3>1. k - j \in Nat /\ b - a \in Nat  BY <1>2, <2>1, <2>5
    <3> QED BY <2>4, <3>1, AlignedIs
  <2>6. CASE k < j
    <3>1. PICK d \in Nat : j = k + 1 + d
      <4>1. j - k - 1 \in Nat /\ j = k + 1 + (j - k - 1)  BY <2>6
      <4> QED BY <4>1
    <3>2. a = (k * W) + W + (d * W)  BY <2>2, <3>1, WordBytes
    <3>3. d * W >= 0 /\ k * W \in Nat  BY WordBytes
    <3> QED BY <1>2, <2>1, <2>3, <3>2, <3>3, WordBytes
  <2> QED BY <2>5, <2>6
<1>3. ASSUME NEW a, NEW b, Aligned(a), Aligned(b), a < b PROVE a + W <= b
  <2>1. a \in Nat /\ b \in Nat  BY <1>0, <1>3
  <2>2. PICK j \in Nat : a = j * W  BY <1>3, <2>1, AlignedIs
  <2>3. PICK k \in Nat : b = k * W  BY <1>3, <2>1, AlignedIs
  <2>4. CASE j < k
    <3>1. PICK d \in Nat : k = j + 1 + d
      <4>1. k - j - 1 \in Nat /\ k = j + 1 + (k - j - 1)  BY <2>4
      <4> QED BY <4>1
    <3>2. b = (j * W) + W + (d * W)  BY <2>3, <3>1, WordBytes
    <3>3. d * W >= 0  BY WordBytes
    <3> QED BY <2>1, <2>2, <3>2, <3>3, WordBytes
  <2>5. CASE k <= j
    <3>1. PICK d \in Nat : j = k + d
      <4>1. j - k \in Nat /\ j = k + (j - k)  BY <2>5
      <4> QED BY <4>1
    <3>2. a = (k * W) + (d * W)  BY <2>2, <3>1, WordBytes
    <3>3. d * W \in Nat /\ k * W \in Nat  BY WordBytes
    <3>4. b <= a
      <4> DEFINE p == k * W
                 q == d * W
      <4>1. a = p + q /\ b = p /\ p \in Nat /\ q \in Nat  BY <2>3, <3>2, <3>3
      <4> HIDE DEF p, q
      <4> QED BY <4>1
    <3> QED BY <1>3, <2>1, <3>4
  <2> QED BY <2>4, <2>5
<1>4. \A k \in Nat : Aligned(k * W)
  <2>1. \A k \in Nat : k * W \in Nat  BY WordBytes
  <2> QED BY <2>1, AlignedIs
<1>5. Aligned(0) /\ Aligned(W)
  <2>1. 0 = 0 * W /\ W = 1 * W  BY WordBytes
  <2> QED BY <1>4, <2>1
<1> QED BY <1>0, <1>1, <1>2, <1>3, <1>4, <1>5

(* The same for a number of words.                                          *)
LEMMA WordsArithmetic ==
  /\ \A k \in Nat : k * W \in Nat /\ (k * W) \div W = k
  /\ \A j, k \in Nat : j < k => (j * W) + W <= k * W
  /\ \A k \in Nat : k >= 2 => k * W >= 2 * W
<1>1. \A k \in Nat : k * W \in Nat  BY WordBytes
<1>2. \A k \in Nat : (k * W) \div W = k  BY WordBytes, Z3
<1>3. ASSUME NEW j \in Nat, NEW k \in Nat, j < k PROVE (j * W) + W <= k * W
  <2>1. PICK d \in Nat : k = j + 1 + d
    <3>1. k - j - 1 \in Nat /\ k = j + 1 + (k - j - 1)  BY <1>3
    <3> QED BY <3>1
  <2>2. k * W = (j * W) + W + (d * W)  BY <2>1, WordBytes
  <2>3. d * W >= 0 /\ j * W \in Nat  BY WordBytes
  <2> QED BY <2>2, <2>3, WordBytes
<1>4. ASSUME NEW k \in Nat, k >= 2 PROVE k * W >= 2 * W
  <2>1. PICK d \in Nat : k = 2 + d
    <3>1. k - 2 \in Nat /\ k = 2 + (k - 2)  BY <1>4
    <3> QED BY <3>1
  <2>2. k * W = (2 * W) + (d * W)  BY <2>1, WordBytes
  <2>3. d * W >= 0  BY WordBytes
  <2> QED BY <2>2, <2>3, WordBytes
<1> QED BY <1>1, <1>2, <1>3, <1>4

(* The cells of memory are aligned.                                         *)
LEMMA CellsAligned == \A a \in Cells : Aligned(a) /\ a \in Nat
<1>1. \A a \in Cells : Aligned(a)  BY GarbageCollectorAssumption, Zenon
<1> QED BY <1>1, AlignedArithmetic

(* An aligned address is even, so that no entry word is one.                *)
LEMMA AlignedEven == \A a : Aligned(a) => Even(a)
<1> SUFFICES ASSUME NEW a, Aligned(a) PROVE Even(a)  OBVIOUS
<1>1. a \in Nat  BY DEF Aligned
<1>2. PICK k \in Nat : a = k * W  BY <1>1, AlignedIs
<1>3. W \in Nat /\ W % 2 = 0
  <2>1. W \in Nat \ {0} /\ Even(W)  BY GarbageCollectorAssumption, Zenon
  <2> QED BY <2>1 DEF Even
<1>4. PICK v \in Nat : W = 2 * v  BY <1>3
<1>5. a = 2 * (k * v) /\ k * v \in Nat  BY <1>2, <1>4
<1> QED BY <1>5 DEF Even

-----------------------------------------------------------------------------
(* What the blocks at a set of places occupy together.                      *)

(* The length of the block at x of the memory m.                            *)
LenAt(m, x) == BlkLn(m, m[x], x)

(* g sums the lengths of the blocks at each subset of S.                    *)
Sums(m, S, g) ==
  \A s \in SUBSET S :
    g[s] = IF s = {} THEN 0
           ELSE LenAt(m, CHOOSE x \in s : TRUE) + g[s \ {CHOOSE x \in s : TRUE}]

(* The subsets of S with n elements at most.                                *)
UpTo(S, n) == {s \in SUBSET S : Cardinality(s) <= n}

(* There is such a sum for a finite set.                                    *)
LEMMA SumsExist ==
  ASSUME NEW m, NEW S, IsFiniteSet(S)
  PROVE  \E g : Sums(m, S, g)
<1> DEFINE Pick(s) == CHOOSE x \in s : TRUE
           Good(g, n) == \A s \in UpTo(S, n) :
                           g[s] = IF s = {} THEN 0 ELSE LenAt(m, Pick(s)) + g[s \ {Pick(s)}]
           N == {n \in Nat : \E g : Good(g, n)}
<1>0. \A s \in SUBSET S : IsFiniteSet(s) /\ Cardinality(s) \in Nat
  BY FS_Subset, FS_CardinalityType
<1>1. 0 \in N
  <2>1. \A s \in UpTo(S, 0) : s = {}  BY <1>0, FS_EmptySet DEF UpTo
  <2>2. Good([s \in {{}} |-> 0], 0)  BY <2>1
  <2> QED BY <2>2
<1>2. ASSUME NEW n \in Nat, n \in N PROVE n + 1 \in N
  <2>1. PICK g : Good(g, n)  BY <1>2
  <2> DEFINE h == [s \in SUBSET S |-> IF s \in UpTo(S, n) THEN g[s]
                                      ELSE LenAt(m, Pick(s)) + g[s \ {Pick(s)}]]
  <2>2. ASSUME NEW s \in UpTo(S, n + 1), s # {}
        PROVE  s \in SUBSET S /\ Pick(s) \in s /\ s \ {Pick(s)} \in UpTo(S, n)
    <3>1. s \in SUBSET S /\ Cardinality(s) <= n + 1  BY <2>2 DEF UpTo
    <3>2. Pick(s) \in s  BY <2>2
    <3>3. Cardinality(s \ {Pick(s)}) = Cardinality(s) - 1
      BY <1>0, <3>1, <3>2, FS_RemoveElement
    <3>4. Cardinality(s \ {Pick(s)}) <= n  BY <1>0, <3>1, <3>3
    <3> QED BY <3>1, <3>2, <3>4 DEF UpTo
  <2>3. \A s \in UpTo(S, n) : s \in SUBSET S /\ h[s] = g[s]  BY DEF UpTo
  <2>4. ASSUME NEW s \in UpTo(S, n + 1)
        PROVE  h[s] = IF s = {} THEN 0 ELSE LenAt(m, Pick(s)) + h[s \ {Pick(s)}]
    <3>1. CASE s = {}
      <4>1. s \in UpTo(S, n)  BY <3>1, FS_EmptySet DEF UpTo
      <4> QED BY <2>1, <2>3, <3>1, <4>1
    <3>2. CASE s # {}
      <4>1. s \in SUBSET S /\ s \ {Pick(s)} \in UpTo(S, n)  BY <2>2, <3>2
      <4>2. h[s \ {Pick(s)}] = g[s \ {Pick(s)}]  BY <2>3, <4>1
      <4>3. h[s] = LenAt(m, Pick(s)) + g[s \ {Pick(s)}]
        <5>1. CASE s \in UpTo(S, n)
          <6>1. g[s] = LenAt(m, Pick(s)) + g[s \ {Pick(s)}]  BY <2>1, <3>2, <5>1
          <6> QED BY <2>3, <5>1, <6>1
        <5>2. CASE s \notin UpTo(S, n)  BY <4>1, <5>2
        <5> QED BY <5>1, <5>2
      <4> QED BY <3>2, <4>2, <4>3
    <3> QED BY <3>1, <3>2
  <2> HIDE DEF h
  <2>5. Good(h, n + 1)  BY <2>4
  <2> HIDE DEF Good
  <2> QED BY <2>5
<1>3. PICK g : Good(g, Cardinality(S))
  <2>1. Cardinality(S) \in N
    <3> HIDE DEF N
    <3> QED BY <1>0, <1>1, <1>2, SetInduction
  <2> QED BY <2>1
<1>4. \A s \in SUBSET S : s \in UpTo(S, Cardinality(S))  BY FS_Subset DEF UpTo
<1> QED BY <1>3, <1>4 DEF Sums

(* The sum of the model is one of them.                                     *)
LEMMA SumLenIs ==
  ASSUME NEW m, NEW S, IsFiniteSet(S)
  PROVE  \E g : Sums(m, S, g) /\ SumLen(m, S) = g[S]
<1> DEFINE Solves(g) == g = [s \in SUBSET S |->
                               IF s = {} THEN 0
                               ELSE LET x == CHOOSE x \in s : TRUE
                                    IN  BlkLn(m, m[x], x) + g[s \ {x}]]
<1>1. SumLen(m, S) = (CHOOSE g : Solves(g))[S]
  BY DEF SumLen, MapThenSumSet, MapThenFoldSet
<1>2. PICK g : Sums(m, S, g)  BY SumsExist
<1> DEFINE k == [s \in SUBSET S |-> g[s]]
<1>3. Solves(k)
  <2>1. ASSUME NEW s \in SUBSET S
        PROVE  k[s] = IF s = {} THEN 0
                      ELSE LenAt(m, CHOOSE x \in s : TRUE) + k[s \ {CHOOSE x \in s : TRUE}]
    <3>1. s \ {CHOOSE x \in s : TRUE} \in SUBSET S  OBVIOUS
    <3> QED BY <1>2, <3>1 DEF Sums
  <2>2. k = [s \in SUBSET S |-> IF s = {} THEN 0
                      ELSE LenAt(m, CHOOSE x \in s : TRUE) + k[s \ {CHOOSE x \in s : TRUE}]]
    BY <2>1
  <2> HIDE DEF k
  <2> QED BY <2>2 DEF LenAt
<1>4. \A h : Solves(h) => Sums(m, S, h)
  <2> SUFFICES ASSUME NEW h, Solves(h), NEW s \in SUBSET S
      PROVE  h[s] = IF s = {} THEN 0
                    ELSE LenAt(m, CHOOSE x \in s : TRUE) + h[s \ {CHOOSE x \in s : TRUE}]
    BY DEF Sums
  <2> QED BY DEF LenAt
<1>5. Solves(CHOOSE h : Solves(h))
  <2> HIDE DEF Solves, k
  <2> QED BY <1>3
<1> HIDE DEF Solves
<1> QED BY <1>1, <1>4, <1>5

(* Any element of a set can be taken out of its sum first.                  *)
LEMMA SumTakes ==
  ASSUME NEW m, NEW S, IsFiniteSet(S), \A x \in S : LenAt(m, x) \in Nat,
         NEW g, Sums(m, S, g)
  PROVE  \A s \in SUBSET S : g[s] \in Nat /\ \A x \in s : g[s] = LenAt(m, x) + g[s \ {x}]
<1> DEFINE P(s) == g[s] \in Nat /\ \A x \in s : g[s] = LenAt(m, x) + g[s \ {x}]
           N == {n \in Nat : \A s \in UpTo(S, n) : P(s)}
<1>0. \A s \in SUBSET S : IsFiniteSet(s) /\ Cardinality(s) \in Nat
  BY FS_Subset, FS_CardinalityType
<1>1. g[{}] = 0  BY DEF Sums
<1>2. 0 \in N
  <2>1. \A s \in UpTo(S, 0) : s = {}  BY <1>0, FS_EmptySet DEF UpTo
  <2> QED BY <1>1, <2>1
<1>3. ASSUME NEW n \in Nat, n \in N PROVE n + 1 \in N
  <2>1. ASSUME NEW s \in UpTo(S, n + 1) PROVE P(s)
    <3> DEFINE c == CHOOSE x \in s : TRUE
    <3>1. CASE s = {}  BY <1>1, <3>1
    <3>2. CASE s # {}
      <4>1. s \in SUBSET S /\ Cardinality(s) <= n + 1 /\ c \in s  BY <3>2 DEF UpTo
      <4>2. ASSUME NEW x \in s PROVE s \ {x} \in UpTo(S, n)
        <5>1. Cardinality(s \ {x}) = Cardinality(s) - 1  BY <1>0, <4>1, FS_RemoveElement
        <5> QED BY <1>0, <4>1, <5>1 DEF UpTo
      <4>3. g[s] = LenAt(m, c) + g[s \ {c}]  BY <3>2, <4>1 DEF Sums
      <4> HIDE DEF c
      <4>4. \A x \in s : P(s \ {x}) /\ LenAt(m, x) \in Nat  BY <1>3, <4>1, <4>2
      <4>5. g[s] \in Nat
        <5>1. LenAt(m, c) \in Nat /\ g[s \ {c}] \in Nat  BY <4>1, <4>4
        <5> QED BY <4>3, <5>1
      <4>6. ASSUME NEW x \in s PROVE g[s] = LenAt(m, x) + g[s \ {x}]
        <5>1. CASE x = c  BY <4>3, <5>1
        <5>2. CASE x # c
          <6>1. g[s \ {c}] = LenAt(m, x) + g[(s \ {c}) \ {x}]  BY <4>1, <4>4, <5>2
          <6>2. g[s \ {x}] = LenAt(m, c) + g[(s \ {x}) \ {c}]  BY <4>1, <4>4, <5>2
          <6>3. (s \ {c}) \ {x} = (s \ {x}) \ {c}  OBVIOUS
          <6>4. g[(s \ {x}) \ {c}] \in Nat
            <7>1. (s \ {x}) \ {c} \in SUBSET S  BY <4>1
            <7>2. Cardinality((s \ {x}) \ {c}) <= Cardinality(s \ {x})
              <8>1. s \ {x} \in SUBSET S /\ (s \ {x}) \ {c} \in SUBSET (s \ {x})  BY <4>1
              <8> QED BY <8>1, <1>0, FS_Subset
            <7>3. Cardinality(s \ {x}) <= n /\ s \ {x} \in SUBSET S  BY <4>2 DEF UpTo
            <7>4. Cardinality((s \ {x}) \ {c}) <= n  BY <1>0, <7>1, <7>2, <7>3
            <7>5. (s \ {x}) \ {c} \in UpTo(S, n)  BY <7>1, <7>4 DEF UpTo
            <7> QED BY <7>5, <1>3
          <6> DEFINE p == LenAt(m, x)
                     q == LenAt(m, c)
                     r == g[(s \ {x}) \ {c}]
          <6>5. p \in Nat /\ q \in Nat /\ r \in Nat  BY <4>1, <4>4, <6>4
          <6>6. g[s] = q + g[s \ {c}] /\ g[s \ {c}] = p + r /\ g[s \ {x}] = q + r
            BY <4>3, <6>1, <6>2, <6>3
          <6>7. g[s] = p + g[s \ {x}]
            <7> HIDE DEF p, q, r
            <7> QED BY <6>5, <6>6
          <6> QED BY <6>7
        <5> QED BY <5>1, <5>2
      <4> QED BY <4>5, <4>6
    <3> QED BY <3>1, <3>2
  <2> HIDE DEF P
  <2> QED BY <2>1
<1>4. ASSUME NEW s \in SUBSET S PROVE P(s)
  <2>1. Cardinality(s) \in N
    <3> HIDE DEF N
    <3> QED BY <1>0, <1>2, <1>3, SetInduction
  <2>2. s \in UpTo(S, Cardinality(s))  BY <1>0 DEF UpTo
  <2> HIDE DEF P
  <2> QED BY <2>1, <2>2
<1> QED BY <1>4

(* There is one sum only.                                                   *)
LEMMA SumsAgree ==
  ASSUME NEW m, NEW S, IsFiniteSet(S), NEW T \in SUBSET S,
         NEW g, Sums(m, S, g), NEW h, Sums(m, T, h)
  PROVE  h[T] = g[T]
<1> DEFINE N == {n \in Nat : \A s \in UpTo(T, n) : h[s] = g[s]}
<1>0. IsFiniteSet(T) /\ \A s \in SUBSET T : IsFiniteSet(s) /\ Cardinality(s) \in Nat
  BY FS_Subset, FS_CardinalityType
<1>1. 0 \in N
  <2>1. \A s \in UpTo(T, 0) : s = {}  BY <1>0, FS_EmptySet DEF UpTo
  <2>2. g[{}] = 0 /\ h[{}] = 0  BY DEF Sums
  <2> QED BY <2>1, <2>2
<1>2. ASSUME NEW n \in Nat, n \in N PROVE n + 1 \in N
  <2>1. ASSUME NEW s \in UpTo(T, n + 1) PROVE h[s] = g[s]
    <3> DEFINE c == CHOOSE x \in s : TRUE
    <3>1. CASE s = {}  BY <3>1 DEF Sums
    <3>2. CASE s # {}
      <4>1. s \in SUBSET T /\ s \in SUBSET S /\ Cardinality(s) <= n + 1 /\ c \in s
        BY <3>2 DEF UpTo
      <4>2. h[s] = LenAt(m, c) + h[s \ {c}] /\ g[s] = LenAt(m, c) + g[s \ {c}]
        BY <3>2, <4>1 DEF Sums
      <4>3. Cardinality(s \ {c}) = Cardinality(s) - 1  BY <1>0, <4>1, FS_RemoveElement
      <4>4. s \ {c} \in UpTo(T, n)  BY <1>0, <4>1, <4>3 DEF UpTo
      <4> QED BY <1>2, <4>2, <4>4
    <3> QED BY <3>1, <3>2
  <2> QED BY <2>1
<1>3. Cardinality(T) \in N
  <2> HIDE DEF N
  <2> QED BY <1>0, <1>1, <1>2, SetInduction
<1>4. T \in UpTo(T, Cardinality(T))  BY <1>0 DEF UpTo
<1> QED BY <1>3, <1>4

(* What SumLen is used by.                                                  *)
LEMMA SumFacts ==
  ASSUME NEW m, NEW S, IsFiniteSet(S), \A x \in S : LenAt(m, x) \in Nat
  PROVE  /\ SumLen(m, S) \in Nat
         /\ S = {} => SumLen(m, S) = 0
         /\ \A x \in S : SumLen(m, S) = LenAt(m, x) + SumLen(m, S \ {x})
<1>1. PICK g : Sums(m, S, g) /\ SumLen(m, S) = g[S]  BY SumLenIs
<1>2. S = {} => g[S] = 0  BY <1>1 DEF Sums
<1>3. g[S] \in Nat /\ \A x \in S : g[S] = LenAt(m, x) + g[S \ {x}]
  <2>1. \A s \in SUBSET S : g[s] \in Nat /\ \A x \in s : g[s] = LenAt(m, x) + g[s \ {x}]
    BY <1>1, SumTakes
  <2>2. S \in SUBSET S  OBVIOUS
  <2> QED BY <2>1, <2>2
<1>4. ASSUME NEW x \in S PROVE SumLen(m, S \ {x}) = g[S \ {x}]
  <2>1. S \ {x} \in SUBSET S /\ IsFiniteSet(S \ {x})  BY FS_Subset
  <2>2. PICK h : Sums(m, S \ {x}, h) /\ SumLen(m, S \ {x}) = h[S \ {x}]  BY <2>1, SumLenIs
  <2> QED BY <1>1, <2>1, <2>2, SumsAgree
<1> QED BY <1>1, <1>2, <1>3, <1>4

-----------------------------------------------------------------------------
(* The blocks of a heap.                                                    *)

(* B holds the places of the blocks of m that fill the area from b to t.    *)
IsHeap(m, b, t, B) ==
  /\ Aligned(b) /\ Aligned(t) /\ b <= t /\ b \in B \cup {t}
  /\ \A x \in B :
       /\ Aligned(x) /\ b <= x /\ x < t /\ m[x] \in DOMAIN Kind
       /\ Aligned(LenAt(m, x)) /\ LenAt(m, x) >= 2 * W /\ x + LenAt(m, x) \in B \cup {t}
       /\ HasFields(m[x]) => FirstField(m[x], x) < PastField(m, m[x], x)
  /\ \A x, y \in B : x < y => x + LenAt(m, x) <= y

(* The places and the lengths of blocks are numbers.                        *)
LEMMA HeapNumbers ==
  ASSUME NEW m, NEW b, NEW t, NEW B, IsHeap(m, b, t, B)
  PROVE  /\ b \in Nat /\ t \in Nat /\ b <= t
         /\ \A x \in B \cup {t} : Aligned(x) /\ x \in Nat /\ b <= x /\ x <= t
         /\ \A x \in B : /\ LenAt(m, x) \in Nat /\ LenAt(m, x) >= 2 * W /\ x < t
                        /\ x + LenAt(m, x) \in B \cup {t} /\ x < x + LenAt(m, x)
                        /\ x + LenAt(m, x) <= t
<1>1. b \in Nat /\ t \in Nat /\ b <= t  BY AlignedArithmetic DEF IsHeap
<1>2. ASSUME NEW x \in B
      PROVE  /\ Aligned(x) /\ x \in Nat /\ b <= x /\ x < t
             /\ LenAt(m, x) \in Nat /\ LenAt(m, x) >= 2 * W /\ x + LenAt(m, x) \in B \cup {t}
  BY AlignedArithmetic DEF IsHeap
<1>3. Aligned(t)  BY DEF IsHeap
<1>4. \A x \in B \cup {t} : Aligned(x) /\ x \in Nat /\ b <= x /\ x <= t  BY <1>1, <1>2, <1>3
<1>5. ASSUME NEW x \in B PROVE x < x + LenAt(m, x) /\ x + LenAt(m, x) <= t
  <2>1. x < x + LenAt(m, x)  BY <1>2, WordBytes
  <2>2. x + LenAt(m, x) <= t  BY <1>2, <1>4
  <2> QED BY <2>1, <2>2
<1> QED BY <1>1, <1>2, <1>4, <1>5

(* Where one block ends another has started, but at the bottom.             *)
LEMMA BlockBefore ==
  ASSUME NEW m, NEW b, NEW t, NEW B, IsHeap(m, b, t, B), NEW y \in B \cup {t}, y # b
  PROVE  \E x \in B : x + LenAt(m, x) = y
<1> DEFINE T == {x \in B : x < y}
<1>1. b \in Nat /\ t \in Nat /\ y \in Nat /\ b < y /\ y <= t
  <2>1. b \in Nat /\ t \in Nat /\ y \in Nat /\ b <= y /\ y <= t  BY HeapNumbers
  <2> QED BY <2>1
<1>2. b \in T  BY <1>1 DEF IsHeap
<1>3. T \in SUBSET Nat /\ \A x \in T : x <= t
  <2>1. \A x \in B : x \in Nat /\ x <= t  BY HeapNumbers
  <2> QED BY <2>1
<1>4. PICK x \in T : \A z \in T : z <= x
  <2> HIDE DEF T
  <2> QED BY <1>1, <1>2, <1>3, GreatestNumber
<1>5. LenAt(m, x) \in Nat /\ LenAt(m, x) >= 2 * W /\ x + LenAt(m, x) \in B \cup {t}
  BY AlignedArithmetic DEF IsHeap
<1>6. x + LenAt(m, x) <= y
  <2>1. CASE y \in B  BY <2>1 DEF IsHeap
  <2>2. CASE y = t
    <3>1. \A z \in B : z < t  BY DEF IsHeap
    <3>2. x + LenAt(m, x) <= t  BY <1>1, <1>5, <3>1
    <3> QED BY <2>2, <3>2
  <2> QED BY <2>1, <2>2
<1>7. x \in Nat /\ x < x + LenAt(m, x)  BY <1>3, <1>5, WordBytes
<1>8. x + LenAt(m, x) = y
  <2> SUFFICES ASSUME x + LenAt(m, x) < y PROVE FALSE  BY <1>1, <1>5, <1>6, <1>7
  <2>1. x + LenAt(m, x) \in B  BY <1>1, <1>5
  <2>2. x + LenAt(m, x) \in T  BY <2>1
  <2>3. x + LenAt(m, x) <= x
    <3> HIDE DEF T
    <3> QED BY <1>4, <2>2
  <2> QED BY <1>5, <1>7, <2>3
<1> QED BY <1>8

(* A heap has at most one block for each of its words.                      *)
LEMMA HeapFinite ==
  ASSUME NEW m, NEW b, NEW t, NEW B, IsHeap(m, b, t, B)
  PROVE  /\ (t - b) \div W \in Nat /\ t = b + ((t - b) \div W) * W
         /\ IsFiniteSet(B) /\ Cardinality(B) <= (t - b) \div W
<1>1. b \in Nat /\ t \in Nat /\ Aligned(t - b)  BY AlignedArithmetic DEF IsHeap
<1>2. PICK n \in Nat : t - b = n * W  BY <1>1, AlignedIs, AlignedArithmetic
<1>3. (t - b) \div W = n  BY <1>2, WordsArithmetic
<1>4. n * W \in Nat /\ t = b + (n * W)  BY <1>1, <1>2, WordsArithmetic
<1> DEFINE f == [x \in B |-> CHOOSE k \in Nat : x - b = k * W]
<1>5. ASSUME NEW x \in B PROVE f[x] \in 0 .. n - 1 /\ x = b + (f[x] * W)
  <2>1. Aligned(x) /\ b <= x /\ x < t /\ x \in Nat  BY AlignedArithmetic DEF IsHeap
  <2>2. Aligned(x - b)  BY <2>1, AlignedArithmetic DEF IsHeap
  <2>3. \E k \in Nat : x - b = k * W  BY <2>2, AlignedIs, AlignedArithmetic
  <2>4. f[x] \in Nat /\ x - b = f[x] * W  BY <2>3
  <2> HIDE DEF f
  <2>5. f[x] * W \in Nat  BY <2>4, WordsArithmetic
  <2>6. f[x] < n
    <3> SUFFICES ASSUME n <= f[x] PROVE FALSE  BY <2>4
    <3>1. n * W <= f[x] * W
      <4>1. CASE n = f[x]  BY <2>5, <4>1
      <4>2. CASE n < f[x]
        <5>1. (n * W) + W <= f[x] * W  BY <2>4, <4>2, WordsArithmetic
        <5> QED BY <1>4, <2>5, <5>1, WordBytes
      <4> QED BY <2>4, <4>1, <4>2
    <3> QED BY <1>1, <1>4, <2>1, <2>4, <2>5, <3>1
  <2> QED BY <1>1, <2>1, <2>4, <2>5, <2>6
<1>6. f \in Injection(B, 0 .. n - 1)
  <2>1. f \in [B -> 0 .. n - 1]
    <3>1. DOMAIN f = B /\ f = [x \in B |-> f[x]]  OBVIOUS
    <3> HIDE DEF f
    <3> QED BY <1>5, <3>1
  <2>2. \A x, y \in B : f[x] = f[y] => x = y
    <3> HIDE DEF f
    <3>1. ASSUME NEW x \in B, NEW y \in B, f[x] = f[y] PROVE x = y
      <4>1. x = b + (f[x] * W)  BY <1>5
      <4>2. y = b + (f[y] * W)  BY <1>5
      <4> QED BY <3>1, <4>1, <4>2
    <3> QED BY <3>1
  <2> HIDE DEF f
  <2> QED BY <2>1, <2>2 DEF Injection, IsInjective
<1>7. IsFiniteSet(0 .. n - 1) /\ Cardinality(0 .. n - 1) = n  BY FS_Interval
<1>8. IsFiniteSet(B) /\ Cardinality(B) <= n
  <2> HIDE DEF f
  <2> QED BY <1>6, <1>7, FS_Injection
<1> QED BY <1>3, <1>4, <1>8

(* One step of Starts, and that Starts is what so many of them give.        *)
Scanned(m, t, S) == S \cup { x + LenAt(m, x) : x \in { y \in S : y < t /\ m[y] \in DOMAIN Kind } }

ScansTo(m, b, t, s) ==
  /\ s[0] = {b} /\ Starts(m, b, t) = s[(t - b) \div W]
  /\ \A i \in 1 .. (t - b) \div W : s[i] = Scanned(m, t, s[i - 1])

LEMMA StartsDef ==
  ASSUME NEW m, NEW b, NEW t, (t - b) \div W \in Nat
  PROVE  \E s : ScansTo(m, b, t, s)
<1> DEFINE n == (t - b) \div W
           Good(g, k) == g[0] = {b} /\ \A i \in 1..k : g[i] = Scanned(m, t, g[i - 1])
           K == {k \in Nat : \E g : Good(g, k)}
<1>1. 0 \in K
  <2>1. Good([i \in {0} |-> {b}], 0)  OBVIOUS
  <2> QED BY <2>1
<1>2. ASSUME NEW k \in Nat, k \in K PROVE k + 1 \in K
  <2>1. PICK g : Good(g, k)  BY <1>2
  <2> DEFINE h == [i \in 0..(k + 1) |-> IF i <= k THEN g[i] ELSE Scanned(m, t, g[k])]
  <2>2. \A i \in 0..k : h[i] = g[i]  OBVIOUS
  <2>3. h[k + 1] = Scanned(m, t, g[k])  OBVIOUS
  <2> HIDE DEF h
  <2>4. h[0] = {b}  BY <2>1, <2>2
  <2>5. ASSUME NEW i \in 1..(k + 1) PROVE h[i] = Scanned(m, t, h[i - 1])
    <3>1. CASE i = k + 1  BY <2>2, <2>3, <3>1
    <3>2. CASE i # k + 1
      <4>1. i \in 1..k /\ i \in 0..k /\ i - 1 \in 0..k  BY <3>2
      <4> QED BY <2>1, <2>2, <4>1
    <3> QED BY <3>1, <3>2
  <2> QED BY <2>4, <2>5
<1>3. n \in K
  <2> HIDE DEF K, n
  <2> QED BY <1>1, <1>2, SetInduction DEF n
<1>4. PICK g : Good(g, n)  BY <1>3
<1> DEFINE Solves(h) == h = [i \in 0..n |->
              IF i = 0 THEN {b}
              ELSE h[i - 1] \cup { x + BlkLn(m, m[x], x) :
                                     x \in { y \in h[i - 1] : y < t /\ m[y] \in DOMAIN Kind } }]
           f == [i \in 0..n |-> g[i]]
<1>5. Solves(f)
  <2>1. ASSUME NEW i \in 0..n PROVE f[i] = IF i = 0 THEN {b} ELSE Scanned(m, t, f[i - 1])
    <3>1. CASE i = 0  BY <1>4, <3>1
    <3>2. CASE i # 0
      <4>1. i \in 1..n /\ i - 1 \in 0..n  BY <3>2
      <4>2. f[i] = g[i] /\ f[i - 1] = g[i - 1]  BY <4>1
      <4>3. g[i] = Scanned(m, t, g[i - 1])  BY <1>4, <4>1
      <4> HIDE DEF f
      <4> QED BY <3>2, <4>2, <4>3
    <3> QED BY <3>1, <3>2
  <2>2. f = [i \in 0..n |-> IF i = 0 THEN {b} ELSE Scanned(m, t, f[i - 1])]
    BY <2>1
  <2> HIDE DEF f
  <2> QED BY <2>2 DEF Scanned, LenAt
<1> DEFINE c == CHOOSE h : Solves(h)
<1>6. Starts(m, b, t) = c[n]
  BY DEF Starts
<1>7. Solves(c)
  <2> HIDE DEF Solves, f
  <2> QED BY <1>5
<1>8. ASSUME NEW h, Solves(h)
      PROVE  h[0] = {b} /\ \A i \in 1..n : h[i] = Scanned(m, t, h[i - 1])
  <2>1. h[0] = {b}  BY <1>8
  <2>2. ASSUME NEW i \in 1..n PROVE h[i] = Scanned(m, t, h[i - 1])
    <3>1. i \in 0..n /\ i # 0  OBVIOUS
    <3> QED BY <1>8, <3>1 DEF Scanned, LenAt
  <2> QED BY <2>1, <2>2
<1> HIDE DEF Solves, c
<1>9. c[0] = {b} /\ \A i \in 1..n : c[i] = Scanned(m, t, c[i - 1])
  BY <1>7, <1>8
<1>10. ScansTo(m, b, t, c)  BY <1>6, <1>9 DEF ScansTo
<1> QED BY <1>10

(* The places that scanning meets are those of the blocks, and the end.     *)
LEMMA StartsOfHeap ==
  ASSUME NEW m, NEW b, NEW t, NEW B, IsHeap(m, b, t, B)
  PROVE  Starts(m, b, t) = B \cup {t}
<1> DEFINE n == (t - b) \div W
<1>1. n \in Nat /\ t = b + (n * W)  BY HeapFinite
<1>2. PICK s : /\ s[0] = {b} /\ Starts(m, b, t) = s[n]
               /\ \A i \in 1 .. n : s[i] = Scanned(m, t, s[i - 1])
  <2>1. (t - b) \div W \in Nat  BY <1>1
  <2>2. PICK s : ScansTo(m, b, t, s)  BY <2>1, StartsDef
  <2> QED BY <2>2 DEF ScansTo
<1>3. b \in Nat /\ t \in Nat /\ b \in B \cup {t} /\ \A x \in B : x \in Nat /\ LenAt(m, x) \in Nat
  BY AlignedArithmetic DEF IsHeap
<1> HIDE DEF n
<1> DEFINE D == {i \in Nat : i <= n => s[i] \subseteq B \cup {t}}
           U == {i \in Nat : i <= n => {y \in B \cup {t} : y <= b + (i * W)} \subseteq s[i]}
<1>4. n \in D
  <2>1. 0 \in D  BY <1>2, <1>3
  <2>2. ASSUME NEW i \in Nat, i \in D PROVE i + 1 \in D
    <3> SUFFICES ASSUME i + 1 <= n, NEW y \in s[i + 1] PROVE y \in B \cup {t}
      OBVIOUS
    <3>1. s[i] \subseteq B \cup {t} /\ s[i + 1] = Scanned(m, t, s[i])
      <4>1. i <= n /\ i + 1 \in 1..n /\ (i + 1) - 1 = i  BY <1>1
      <4> QED BY <1>2, <2>2, <4>1
    <3>2. CASE y \in s[i]  BY <3>1, <3>2
    <3>3. CASE y \notin s[i]
      <4>1. PICK x \in s[i] : x < t /\ y = x + LenAt(m, x)  BY <3>1, <3>3 DEF Scanned
      <4>2. x \in B  BY <1>3, <3>1, <4>1
      <4> QED BY <4>1, <4>2 DEF IsHeap
    <3> QED BY <3>2, <3>3
  <2> HIDE DEF D
  <2> QED BY <1>1, <2>1, <2>2, SetInduction
<1>5. n \in U
  <2>1. 0 \in U
    <3>1. \A y \in B \cup {t} : y \in Nat /\ b <= y  BY HeapNumbers
    <3>2. b + (0 * W) = b  BY <1>3, WordBytes
    <3>3. \A y \in B \cup {t} : y <= b + (0 * W) => y \in s[0]  BY <1>2, <1>3, <3>1, <3>2
    <3> QED BY <3>3
  <2>2. ASSUME NEW i \in Nat, i \in U PROVE i + 1 \in U
    <3> SUFFICES ASSUME i + 1 <= n, NEW y \in B \cup {t}, y <= b + ((i + 1) * W)
                 PROVE  y \in s[i + 1]
      OBVIOUS
    <3>1. {z \in B \cup {t} : z <= b + (i * W)} \subseteq s[i] /\ s[i + 1] = Scanned(m, t, s[i])
      <4>1. i <= n /\ i + 1 \in 1..n /\ (i + 1) - 1 = i  BY <1>1
      <4> QED BY <1>2, <2>2, <4>1
    <3>2. i * W \in Nat /\ (i + 1) * W = (i * W) + W  BY WordBytes
    <3>3. CASE y <= b + (i * W)  BY <3>1, <3>3 DEF Scanned
    <3>4. CASE ~ (y <= b + (i * W))
      <4>1. y # b  BY <1>3, <3>2, <3>4
      <4>2. PICK x \in B : x + LenAt(m, x) = y  BY <4>1, BlockBefore
      <4>3. LenAt(m, x) >= 2 * W /\ x < t /\ m[x] \in DOMAIN Kind  BY DEF IsHeap
      <4>4. x <= b + (i * W)
        <5> DEFINE k == i * W
                   l == LenAt(m, x)
                   j == (i + 1) * W
        <5>1. k \in Nat /\ j = k + W /\ W \in Nat /\ W >= 2 /\ y <= b + j  BY <3>2, WordBytes
        <5>2. x \in Nat /\ b \in Nat /\ l \in Nat /\ l >= 2 * W /\ x + l = y  BY <1>3, <4>2, <4>3
        <5> HIDE DEF k, l, j
        <5>3. x <= b + k  BY <5>1, <5>2
        <5> QED BY <5>3 DEF k
      <4>5. x \in s[i]  BY <3>1, <4>4
      <4> QED BY <3>1, <4>2, <4>3, <4>5 DEF Scanned
    <3> QED BY <3>3, <3>4
  <2> HIDE DEF U
  <2> QED BY <1>1, <2>1, <2>2, SetInduction
<1>6. s[n] \subseteq B \cup {t}  BY <1>1, <1>4
<1>7. B \cup {t} \subseteq s[n]
  <2>1. \A y \in B \cup {t} : y <= b + (n * W)  BY <1>1, <1>3 DEF IsHeap
  <2> QED BY <1>1, <1>5, <2>1
<1> QED BY <1>2, <1>6, <1>7

-----------------------------------------------------------------------------
(* The blocks a program can reach.                                          *)

(* One step of Reachable, and that Reachable is what so many of them give.  *)
Followed(m, b, t, S) == S \cup UNION { Pointers(m, FieldCells(m, x), b, t) : x \in S }

LEMMA ReachableDef ==
  ASSUME NEW m, NEW b, NEW t, (t - b) \div W \in Nat
  PROVE  \E s : /\ s[0] = Pointers(m, RootCells, b, t) /\ Reachable(m, b, t) = s[(t - b) \div W]
                /\ \A i \in 1 .. (t - b) \div W : s[i] = Followed(m, b, t, s[i - 1])
<1> DEFINE n == (t - b) \div W
           r == Pointers(m, RootCells, b, t)
           Good(g, k) == g[0] = r /\ \A i \in 1..k : g[i] = Followed(m, b, t, g[i - 1])
           K == {k \in Nat : \E g : Good(g, k)}
<1>1. 0 \in K
  <2> HIDE DEF r
  <2>1. Good([i \in {0} |-> r], 0)  OBVIOUS
  <2> QED BY <2>1
<1>2. ASSUME NEW k \in Nat, k \in K PROVE k + 1 \in K
  <2> HIDE DEF r
  <2>1. PICK g : Good(g, k)  BY <1>2
  <2> DEFINE h == [i \in 0..(k + 1) |-> IF i <= k THEN g[i] ELSE Followed(m, b, t, g[k])]
  <2>2. \A i \in 0..k : h[i] = g[i]  OBVIOUS
  <2>3. h[k + 1] = Followed(m, b, t, g[k])  OBVIOUS
  <2> HIDE DEF h
  <2>4. h[0] = r  BY <2>1, <2>2
  <2>5. ASSUME NEW i \in 1..(k + 1) PROVE h[i] = Followed(m, b, t, h[i - 1])
    <3>1. CASE i = k + 1  BY <2>2, <2>3, <3>1
    <3>2. CASE i # k + 1
      <4>1. i \in 1..k /\ i \in 0..k /\ i - 1 \in 0..k  BY <3>2
      <4> QED BY <2>1, <2>2, <4>1
    <3> QED BY <3>1, <3>2
  <2> QED BY <2>4, <2>5
<1>3. n \in K
  <2> HIDE DEF K, n
  <2> QED BY <1>1, <1>2, SetInduction DEF n
<1>4. PICK g : Good(g, n)  BY <1>3
<1> DEFINE Solves(h) == h = [i \in 0..n |->
              IF i = 0 THEN Pointers(m, RootCells, b, t)
              ELSE h[i - 1] \cup UNION { Pointers(m, FieldCells(m, x), b, t) : x \in h[i - 1] }]
           f == [i \in 0..n |-> g[i]]
<1>5. Solves(f)
  <2>1. ASSUME NEW i \in 0..n PROVE f[i] = IF i = 0 THEN r ELSE Followed(m, b, t, f[i - 1])
    <3> HIDE DEF r
    <3>1. CASE i = 0  BY <1>4, <3>1
    <3>2. CASE i # 0
      <4>1. i \in 1..n /\ i - 1 \in 0..n  BY <3>2
      <4>2. f[i] = g[i] /\ f[i - 1] = g[i - 1]  BY <4>1
      <4>3. g[i] = Followed(m, b, t, g[i - 1])  BY <1>4, <4>1
      <4> HIDE DEF f
      <4> QED BY <3>2, <4>2, <4>3
    <3> QED BY <3>1, <3>2
  <2>2. f = [i \in 0..n |-> IF i = 0 THEN r ELSE Followed(m, b, t, f[i - 1])]
    <3> HIDE DEF r
    <3> QED BY <2>1
  <2> HIDE DEF f
  <2> QED BY <2>2 DEF Followed
<1> DEFINE c == CHOOSE h : Solves(h)
<1>6. Reachable(m, b, t) = c[n]
  BY DEF Reachable
<1>7. Solves(c)
  <2> HIDE DEF Solves, f
  <2> QED BY <1>5
<1>8. ASSUME NEW h, Solves(h)
      PROVE  h[0] = r /\ \A i \in 1..n : h[i] = Followed(m, b, t, h[i - 1])
  <2>1. h[0] = r  BY <1>8
  <2>2. ASSUME NEW i \in 1..n PROVE h[i] = Followed(m, b, t, h[i - 1])
    <3>1. i \in 0..n /\ i # 0  OBVIOUS
    <3> QED BY <1>8, <3>1 DEF Followed
  <2> QED BY <2>1, <2>2
<1> HIDE DEF Solves, c
<1>9. c[0] = r /\ \A i \in 1..n : c[i] = Followed(m, b, t, c[i - 1])
  BY <1>7, <1>8
<1> QED BY <1>6, <1>9

(* S has what the roots point to and what the fields of its blocks point to.*)
IsClosed(m, b, t, S) ==
  /\ Pointers(m, RootCells, b, t) \subseteq S
  /\ \A x \in S : Pointers(m, FieldCells(m, x), b, t) \subseteq S

(* Every such set has all that can be reached.                              *)
LEMMA ReachableLeast ==
  ASSUME NEW m, NEW b, NEW t, (t - b) \div W \in Nat, NEW S, IsClosed(m, b, t, S)
  PROVE  Reachable(m, b, t) \subseteq S
<1> DEFINE n == (t - b) \div W
<1>1. PICK s : /\ s[0] = Pointers(m, RootCells, b, t) /\ Reachable(m, b, t) = s[n]
               /\ \A i \in 1 .. n : s[i] = Followed(m, b, t, s[i - 1])
  BY ReachableDef
<1> HIDE DEF n
<1>2. n \in Nat  BY DEF n
<1> DEFINE D == {i \in Nat : i <= n => s[i] \subseteq S}
<1>3. 0 \in D  BY <1>1 DEF IsClosed
<1>4. ASSUME NEW i \in Nat, i \in D PROVE i + 1 \in D
  <2> SUFFICES ASSUME i + 1 <= n PROVE s[i + 1] \subseteq S
    OBVIOUS
  <2>1. s[i] \subseteq S /\ s[i + 1] = Followed(m, b, t, s[i])
    <3>1. i <= n /\ i + 1 \in 1..n /\ (i + 1) - 1 = i  BY <1>2
    <3> QED BY <1>1, <1>4, <3>1
  <2>2. \A x \in s[i] : Pointers(m, FieldCells(m, x), b, t) \subseteq S  BY <2>1 DEF IsClosed
  <2> QED BY <2>1, <2>2 DEF Followed
<1>5. n \in D
  <2> HIDE DEF D
  <2> QED BY <1>2, <1>3, <1>4, SetInduction
<1> QED BY <1>1, <1>2, <1>5

(* What can be reached is such a set, when it is among the blocks of a heap:*)
(* there are not more of them than steps.                                   *)
LEMMA ReachableClosed ==
  ASSUME NEW m, NEW b, NEW t, NEW B, IsHeap(m, b, t, B), Reachable(m, b, t) \subseteq B
  PROVE  IsClosed(m, b, t, Reachable(m, b, t))
<1> DEFINE n == (t - b) \div W
           Next_(S) == Followed(m, b, t, S)
<1>1. n \in Nat /\ IsFiniteSet(B) /\ Cardinality(B) <= n /\ Cardinality(B) \in Nat
  BY HeapFinite, FS_CardinalityType
<1>2. PICK s : /\ s[0] = Pointers(m, RootCells, b, t) /\ Reachable(m, b, t) = s[n]
               /\ \A i \in 1 .. n : s[i] = Next_(s[i - 1])
  BY <1>1, ReachableDef
<1> HIDE DEF n
<1>3. \A S : S \subseteq Next_(S)  BY DEF Followed
<1> DEFINE M == {i \in Nat : i <= n => s[0] \subseteq s[i] /\ s[n - i] \subseteq s[n]}
<1>4. \A i \in 0..n : s[0] \subseteq s[i] /\ s[i] \subseteq s[n]
  <2>1. 0 \in M
    <3>1. n - 0 = n  BY <1>1
    <3> QED BY <3>1
  <2>2. ASSUME NEW i \in Nat, i \in M PROVE i + 1 \in M
    <3> SUFFICES ASSUME i + 1 <= n PROVE s[0] \subseteq s[i + 1] /\ s[n - (i + 1)] \subseteq s[n]
      OBVIOUS
    <3>1. s[0] \subseteq s[i] /\ s[n - i] \subseteq s[n]  BY <1>1, <2>2
    <3>2. s[i + 1] = Next_(s[i])
      <4>1. i + 1 \in 1..n /\ (i + 1) - 1 = i  BY <1>1
      <4> QED BY <1>2, <4>1
    <3>3. s[n - i] = Next_(s[n - (i + 1)])
      <4>1. n - i \in 1..n /\ (n - i) - 1 = n - (i + 1)  BY <1>1
      <4> QED BY <1>2, <4>1
    <3> HIDE DEF Next_
    <3>4. s[i] \subseteq s[i + 1] /\ s[n - (i + 1)] \subseteq s[n - i]  BY <1>3, <3>2, <3>3
    <3> QED BY <3>1, <3>4
  <2>3. \A i \in Nat : i \in M
    <3> HIDE DEF M
    <3> QED BY <2>1, <2>2, SetInduction
  <2>4. ASSUME NEW i \in 0..n PROVE s[0] \subseteq s[i] /\ s[i] \subseteq s[n]
    <3>1. i \in M /\ n - i \in M /\ i <= n /\ n - i <= n /\ n - (n - i) = i  BY <1>1, <2>3
    <3> QED BY <3>1
  <2> QED BY <2>4
<1>5. \A i \in 0..n : IsFiniteSet(s[i]) /\ Cardinality(s[i]) \in Nat /\ Cardinality(s[i]) <= n
  <2>1. ASSUME NEW i \in 0..n
        PROVE  IsFiniteSet(s[i]) /\ Cardinality(s[i]) \in Nat /\ Cardinality(s[i]) <= n
    <3>1. s[i] \in SUBSET B  BY <1>2, <1>4
    <3>2. IsFiniteSet(s[i]) /\ Cardinality(s[i]) <= Cardinality(B)  BY <1>1, <3>1, FS_Subset
    <3>3. Cardinality(s[i]) \in Nat  BY <3>2, FS_CardinalityType
    <3> QED BY <1>1, <3>2, <3>3
  <2> QED BY <2>1
<1> DEFINE K == {i \in Nat : i <= n => Next_(s[i]) = s[i] \/ Cardinality(s[i]) >= i + 1}
<1>6. 0 \in K
  <2> SUFFICES ASSUME ~ (Cardinality(s[0]) >= 1) PROVE Next_(s[0]) = s[0]
    OBVIOUS
  <2>1. Cardinality(s[0]) = 0 /\ IsFiniteSet(s[0])
    <3>1. 0 \in 0..n  BY <1>1
    <3> QED BY <1>5, <3>1
  <2>2. s[0] = {}  BY <2>1, FS_EmptySet
  <2> QED BY <2>2 DEF Followed
<1>7. ASSUME NEW i \in Nat, i \in K PROVE i + 1 \in K
  <2> SUFFICES ASSUME i + 1 <= n
               PROVE  Next_(s[i + 1]) = s[i + 1] \/ Cardinality(s[i + 1]) >= (i + 1) + 1
    OBVIOUS
  <2>1. s[i + 1] = Next_(s[i])
    <3>1. i + 1 \in 1..n /\ (i + 1) - 1 = i  BY <1>1
    <3> QED BY <1>2, <3>1
  <2>2. i \in 0..n /\ i + 1 \in 0..n  BY <1>1
  <2> HIDE DEF Next_
  <2>3. CASE Next_(s[i]) = s[i]  BY <2>1, <2>3
  <2>4. CASE Next_(s[i]) # s[i]
    <3>1. Cardinality(s[i]) >= i + 1  BY <1>7, <2>2, <2>4
    <3>2. s[i] \in SUBSET s[i + 1] /\ s[i] # s[i + 1]  BY <1>3, <2>1, <2>4
    <3>3. IsFiniteSet(s[i + 1]) /\ Cardinality(s[i]) \in Nat /\ Cardinality(s[i + 1]) \in Nat
      BY <1>5, <2>2
    <3>4. Cardinality(s[i]) <= Cardinality(s[i + 1]) /\ Cardinality(s[i]) # Cardinality(s[i + 1])
      BY <3>2, <3>3, FS_Subset
    <3> QED BY <3>1, <3>3, <3>4
  <2> QED BY <2>3, <2>4
<1>8. n \in K
  <2> HIDE DEF K
  <2> QED BY <1>1, <1>6, <1>7, SetInduction
<1>9. Next_(s[n]) = s[n]
  <2>1. n \in 0..n  BY <1>1
  <2>2. Cardinality(s[n]) \in Nat /\ Cardinality(s[n]) <= n  BY <1>5, <2>1
  <2> HIDE DEF Next_
  <2> QED BY <1>1, <1>8, <2>2
<1>10. s[0] \subseteq s[n]
  <2>1. n \in 0..n  BY <1>1
  <2> QED BY <1>4, <2>1
<1>11. \A x \in s[n] : Pointers(m, FieldCells(m, x), b, t) \subseteq s[n]
  <2>1. UNION { Pointers(m, FieldCells(m, x), b, t) : x \in s[n] } \subseteq s[n]
    BY <1>9 DEF Followed
  <2> QED BY <2>1
<1> QED BY <1>2, <1>10, <1>11 DEF IsClosed

-----------------------------------------------------------------------------
(* The words of a block.                                                    *)

(* a is an address in the block at x of m.                                   *)
Within(m, a, x) == x <= a /\ a < x + LenAt(m, x)

(* An address belongs to one block at most.                                 *)
LEMMA BlocksApart ==
  ASSUME NEW m, NEW b, NEW t, NEW B, IsHeap(m, b, t, B), NEW x \in B, NEW y \in B,
         NEW a \in Nat, Within(m, a, x), Within(m, a, y)
  PROVE  x = y
<1>1. x \in Nat /\ y \in Nat /\ LenAt(m, x) \in Nat /\ LenAt(m, y) \in Nat  BY HeapNumbers
<1>2. ~ (x < y)
  <2>1. x < y => x + LenAt(m, x) <= y  BY DEF IsHeap
  <2> QED BY <1>1, <2>1 DEF Within
<1>3. ~ (y < x)
  <2>1. y < x => y + LenAt(m, y) <= x  BY DEF IsHeap
  <2> QED BY <1>1, <2>1 DEF Within
<1> QED BY <1>1, <1>2, <1>3

(* Kinds of blocks, by entry word.                                          *)
LEMMA KindFacts ==
  ASSUME NEW e \in DOMAIN Kind
  PROVE  /\ e \in Nat /\ ~Even(e)
         /\ Kind[e].len \in Nat \ {1} /\ Kind[e].from \in Nat /\ Kind[e].to \in Nat
         /\ Kind[e].from # 0 /\ Kind[e].len # 0 => Kind[e].from < Kind[e].to /\ Kind[e].to <= Kind[e].len
         /\ Kind[e].from # 0 /\ Kind[e].len = 0 => Kind[e].from >= 2
BY GarbageCollectorAssumption, Zenon

(* The fields of a block are words of it, between two addresses, neither    *)
(* the entry word nor the length word.                                      *)
FieldsWithin(m, x) ==
  /\ HasFields(m[x]) =>
       /\ Aligned(FirstField(m[x], x)) /\ Aligned(PastField(m, m[x], x))
       /\ x < FirstField(m[x], x) /\ FirstField(m[x], x) < PastField(m, m[x], x)
       /\ PastField(m, m[x], x) <= x + LenAt(m, x)
       /\ Kind[m[x]].len = 0 => x + 2 * W <= FirstField(m[x], x)
  /\ \A a \in FieldCells(m, x) :
       /\ HasFields(m[x]) /\ a \in Cells /\ a \in Nat /\ Aligned(a)
       /\ FirstField(m[x], x) <= a /\ a < PastField(m, m[x], x)
       /\ x < a /\ Within(m, a, x)
       /\ Kind[m[x]].len = 0 => a # x + W

LEMMA FieldFacts ==
  ASSUME NEW m, NEW b, NEW t, NEW B, IsHeap(m, b, t, B), NEW x \in B
  PROVE  FieldsWithin(m, x)
<1> DEFINE e == m[x]
           k == Kind[e]
<1>1. /\ x \in Nat /\ Aligned(x) /\ LenAt(m, x) \in Nat /\ Aligned(LenAt(m, x))
      /\ e \in DOMAIN Kind /\ (HasFields(e) => FirstField(e, x) < PastField(m, e, x))
  BY HeapNumbers DEF IsHeap
<1>2. /\ k.len \in Nat \ {1} /\ k.from \in Nat /\ k.to \in Nat
      /\ k.from # 0 /\ k.len # 0 => k.from < k.to /\ k.to <= k.len
      /\ k.from # 0 /\ k.len = 0 => k.from >= 2
  BY <1>1, KindFacts
<1>3. k.from * W \in Nat /\ k.to * W \in Nat /\ k.len * W \in Nat /\ Aligned(k.from * W) /\ Aligned(k.to * W)
  BY <1>2, WordsArithmetic, AlignedArithmetic
<1>4. LenAt(m, x) = IF k.len = 0 THEN m[x + W] ELSE k.len * W  BY DEF LenAt, BlkLn
<1>5. ASSUME HasFields(e)
      PROVE  /\ Aligned(FirstField(e, x)) /\ Aligned(PastField(m, e, x))
             /\ x < FirstField(e, x) /\ FirstField(e, x) < PastField(m, e, x)
             /\ PastField(m, e, x) <= x + LenAt(m, x)
             /\ k.len = 0 => x + 2 * W <= FirstField(e, x)
             /\ FirstField(e, x) \in Nat /\ PastField(m, e, x) \in Nat
  <2>1. FirstField(e, x) = x + (k.from * W) /\ k.from # 0  BY <1>5 DEF FirstField, HasFields
  <2>2. PastField(m, e, x) = IF k.len = 0 THEN x + LenAt(m, x) ELSE x + (k.to * W)
    BY <1>4 DEF PastField
  <2>3. Aligned(FirstField(e, x)) /\ Aligned(PastField(m, e, x))
    BY <1>1, <1>3, <2>1, <2>2, AlignedArithmetic
  <2>4. k.from * W >= W
    <3>1. 0 < k.from  BY <1>2, <2>1
    <3>2. (0 * W) + W <= k.from * W  BY <1>2, <3>1, WordsArithmetic
    <3> QED BY <3>2, WordBytes
  <2>5. k.len = 0 => k.from * W >= 2 * W  BY <1>2, <2>1, WordsArithmetic
  <2>6. k.len # 0 => k.to * W <= LenAt(m, x)
    <3>1. CASE k.len # 0 /\ k.to = k.len  BY <1>3, <1>4, <3>1
    <3>2. CASE k.len # 0 /\ k.to # k.len
      <4>1. k.to < k.len  BY <1>2, <2>1, <3>2
      <4>2. (k.to * W) + W <= k.len * W  BY <1>2, <4>1, WordsArithmetic
      <4> QED BY <1>3, <1>4, <3>2, <4>2, WordBytes
    <3> QED BY <3>1, <3>2
  <2> HIDE DEF k, e
  <2>7. x < FirstField(e, x)  BY <1>1, <1>3, <2>1, <2>4, WordBytes
  <2>8. PastField(m, e, x) <= x + LenAt(m, x)  BY <1>1, <1>3, <2>2, <2>6
  <2>9. k.len = 0 => x + 2 * W <= FirstField(e, x)  BY <1>1, <1>3, <2>1, <2>5, WordBytes
  <2> QED BY <1>1, <1>5, <2>3, <2>7, <2>8, <2>9, AlignedArithmetic
<1>6. ASSUME NEW a \in FieldCells(m, x)
      PROVE  /\ HasFields(e) /\ a \in Cells /\ a \in Nat /\ Aligned(a)
             /\ FirstField(e, x) <= a /\ a < PastField(m, e, x)
             /\ x < a /\ Within(m, a, x)
             /\ k.len = 0 => a # x + W
  <2>1. HasFields(e) /\ a \in Cells /\ FirstField(e, x) <= a /\ a < PastField(m, e, x)
    BY DEF FieldCells
  <2>2. Aligned(a) /\ a \in Nat  BY <2>1, CellsAligned
  <2> HIDE DEF e, k
  <2> QED BY <1>1, <1>5, <2>1, <2>2, WordBytes DEF Within
<1> HIDE DEF e, k
<1>7. e = m[x] /\ k = Kind[m[x]]  BY DEF e, k
<1> QED BY <1>5, <1>6, <1>7 DEF FieldsWithin

-----------------------------------------------------------------------------
(* A collection: what it starts from and what it is to do, as one value, so *)
(* that it is plain what its steps leave alone.                             *)

(* The memory, the area and the sediment it starts with, the bytes to move  *)
(* up by, the blocks there are and those in use.                            *)
Collection ==
  [mem |-> before.mem, bottom |-> before.dnamb, top |-> before.dnamp, sed |-> SedimentEnd,
   up |-> up, blocks |-> OldBlocks, used |-> InUse]

(* The length of a block, the roots and the fields of some blocks, and of   *)
(* those in use.                                                            *)
Length(h, x)     == LenAt(h.mem, x)
FieldsOf(h, V)   == RootCells \cup UNION { FieldCells(h.mem, x) : x \in V }
LiveFields(h)    == FieldsOf(h, h.used)

(* Where what is at z, the start of a block or the end of the last, goes to *)
(* before it is moved up.                                                   *)
UsedBelow(h, z)  == { y \in h.used : h.sed <= y /\ y < z }
To(h, z)         == h.sed + SumLen(h.mem, UsedBelow(h, z))

(* The new address of a block and the new value of a word.                  *)
Newly(h, x)      == IF x < h.sed THEN x + h.up ELSE To(h, x) + h.up
NewValue(h, w)   == IF w \in h.used THEN Newly(h, w) ELSE w
NewAt(h, a)      == IF a \in LiveFields(h) THEN NewValue(h, h.mem[a]) ELSE h.mem[a]

(* What a collection may rely on.                                           *)
Collectable(h) ==
  /\ h.mem \in [Cells -> Nat]
  /\ IsHeap(h.mem, h.bottom, h.top, h.blocks)
  /\ h.used \subseteq h.blocks
  /\ \A a \in LiveFields(h) : h.mem[a] \in {0} \cup h.used
  /\ h.sed \in h.blocks \cup {h.top}
  /\ Aligned(h.up) /\ (h.up # 0 => h.sed = h.bottom)
  /\ \A a : Aligned(a) /\ h.bottom <= a /\ a < h.top + h.up => a \in Cells
  /\ \A a \in RootCells \cup {GbcNm, GbcNs} : a < h.bottom

(* Nothing but what the program can reach is in use.                        *)
UsedIsLeast(h) == \A S : IsClosed(h.mem, h.bottom, h.top, S) => h.used \subseteq S

(* The two words that head the list of the runs.                            *)
LEMMA HeadCells ==
  /\ GbcNm \in Cells /\ GbcNs \in Cells /\ GbcNs = GbcNm + W /\ GbcNm # GbcNs
  /\ GbcNm \notin RootCells /\ GbcNs \notin RootCells
  /\ GbcNm \in Nat /\ GbcNs \in Nat /\ RootCells \subseteq Cells
<1>1. {GbcNm, GbcNs} \subseteq Cells \ RootCells  BY GarbageCollectorAssumption, Zenon
<1>2. GbcNs = GbcNm + W  BY DEF GbcNs
<1>3. RootCells \subseteq Cells  BY DEF RootCells
<1>4. GbcNm \in Nat /\ GbcNs \in Nat  BY <1>1, CellsAligned
<1> QED BY <1>1, <1>2, <1>3, <1>4, WordBytes

(* Numbers of a collection.                                                 *)
LEMMA CollectionNumbers ==
  ASSUME NEW h, Collectable(h)
  PROVE  /\ h.bottom \in Nat /\ h.top \in Nat /\ h.sed \in Nat /\ h.up \in Nat
         /\ 0 < h.bottom /\ h.bottom <= h.sed /\ h.sed <= h.top /\ Aligned(h.sed)
         /\ \A x \in h.blocks \cup {h.top} :
              Aligned(x) /\ x \in Nat /\ h.bottom <= x /\ x <= h.top /\ ~ (x = 0)
         /\ \A x \in h.blocks :
              /\ Length(h, x) \in Nat /\ Aligned(Length(h, x)) /\ Length(h, x) >= 2 * W /\ x < h.top
              /\ x + Length(h, x) \in h.blocks \cup {h.top} /\ x < x + Length(h, x)
              /\ x + Length(h, x) <= h.top
         /\ \A x, y \in h.blocks : x < y => x + Length(h, x) <= y
<1>1. IsHeap(h.mem, h.bottom, h.top, h.blocks) /\ h.sed \in h.blocks \cup {h.top} /\ Aligned(h.up)
      /\ GbcNm < h.bottom
  BY DEF Collectable
<1>2. /\ h.bottom \in Nat /\ h.top \in Nat
      /\ \A x \in h.blocks \cup {h.top} : Aligned(x) /\ x \in Nat /\ h.bottom <= x /\ x <= h.top
      /\ \A x \in h.blocks :
              /\ LenAt(h.mem, x) \in Nat /\ LenAt(h.mem, x) >= 2 * W /\ x < h.top
              /\ x + LenAt(h.mem, x) \in h.blocks \cup {h.top} /\ x < x + LenAt(h.mem, x)
              /\ x + LenAt(h.mem, x) <= h.top
  BY <1>1, HeapNumbers
<1>3. 0 < h.bottom  BY <1>1, <1>2, HeadCells
<1>4. h.up \in Nat  BY <1>1, AlignedArithmetic
<1>5. \A x, y \in h.blocks : x < y => x + LenAt(h.mem, x) <= y  BY <1>1 DEF IsHeap
<1>6. \A x \in h.blocks : Aligned(LenAt(h.mem, x))  BY <1>1 DEF IsHeap
<1> QED BY <1>1, <1>2, <1>3, <1>4, <1>5, <1>6 DEF Length

(* The words of a block are cells of memory.                                *)
LEMMA BlockCells ==
  ASSUME NEW h, Collectable(h), NEW x \in h.blocks, NEW a, Aligned(a), Within(h.mem, a, x)
  PROVE  a \in Cells
<1>1. a \in Nat  BY AlignedArithmetic
<1>2. /\ h.bottom <= x /\ x + Length(h, x) <= h.top /\ x \in Nat /\ Length(h, x) \in Nat
      /\ h.bottom \in Nat /\ h.top \in Nat /\ h.up \in Nat
  BY CollectionNumbers
<1>3. h.bottom <= a /\ a < h.top + h.up  BY <1>1, <1>2 DEF Within, Length
<1> QED BY <1>3 DEF Collectable

(* The fields that count are cells, of the roots or of one block in use,    *)
(* and neither the start of a block nor the head of the runs.               *)
LEMMA FieldPlaces ==
  ASSUME NEW h, Collectable(h), NEW V, V \subseteq h.blocks, NEW a \in FieldsOf(h, V)
  PROVE  /\ a \in Cells /\ a \in Nat /\ Aligned(a) /\ a \notin h.blocks /\ a \notin {GbcNm, GbcNs}
         /\ \/ a \in RootCells /\ a < h.bottom
            \/ \E x \in V : a \in FieldCells(h.mem, x) /\ Within(h.mem, a, x) /\ x < a /\ h.bottom <= a
<1>0. IsHeap(h.mem, h.bottom, h.top, h.blocks)  BY DEF Collectable
<1>1. CASE a \in RootCells
  <2>1. a < h.bottom  BY <1>1 DEF Collectable
  <2>2. a \in Cells /\ a \notin {GbcNm, GbcNs}  BY <1>1, HeadCells
  <2>3. a \in Nat /\ Aligned(a)  BY <2>2, CellsAligned
  <2>4. a \notin h.blocks  BY <2>1, <2>3, CollectionNumbers
  <2> QED BY <1>1, <2>1, <2>2, <2>3, <2>4
<1>2. CASE a \notin RootCells
  <2>1. PICK x \in V : a \in FieldCells(h.mem, x)  BY <1>2 DEF FieldsOf
  <2>2. x \in h.blocks  OBVIOUS
  <2>3. FieldsWithin(h.mem, x)  BY <1>0, <2>2, FieldFacts
  <2>4. a \in Cells /\ a \in Nat /\ Aligned(a) /\ x < a /\ Within(h.mem, a, x)
    BY <2>1, <2>3 DEF FieldsWithin
  <2>5. x \in Nat /\ h.bottom <= x /\ h.bottom \in Nat /\ Length(h, x) \in Nat
    BY <2>2, CollectionNumbers
  <2>6. h.bottom <= a  BY <2>4, <2>5
  <2>7. a \notin h.blocks
    <3> SUFFICES ASSUME a \in h.blocks PROVE FALSE  OBVIOUS
    <3>1. LenAt(h.mem, a) \in Nat /\ LenAt(h.mem, a) >= 2 * W  BY CollectionNumbers DEF Length
    <3>2. Within(h.mem, a, a)  BY <2>4, <3>1, WordBytes DEF Within
    <3>3. a = x  BY <1>0, <2>2, <2>4, <3>2, BlocksApart
    <3> QED BY <2>4, <2>5, <3>3
  <2>8. a \notin {GbcNm, GbcNs}
    <3>1. GbcNm < h.bottom /\ GbcNs < h.bottom  BY DEF Collectable
    <3> QED BY <2>4, <2>5, <2>6, <3>1, HeadCells
  <2> QED BY <2>1, <2>4, <2>6, <2>7, <2>8
<1> QED BY <1>1, <1>2

(* The fields of a block are those of no other block, and of no root.       *)
LEMMA FieldsApart ==
  ASSUME NEW h, Collectable(h), NEW V, V \subseteq h.blocks, NEW x \in h.blocks, x \notin V,
         NEW a \in FieldCells(h.mem, x)
  PROVE  a \notin FieldsOf(h, V)
<1> SUFFICES ASSUME a \in FieldsOf(h, V) PROVE FALSE  OBVIOUS
<1>0. IsHeap(h.mem, h.bottom, h.top, h.blocks)  BY DEF Collectable
<1>1. FieldsWithin(h.mem, x)  BY <1>0, FieldFacts
<1>2. a \in Nat /\ x < a /\ Within(h.mem, a, x)  BY <1>1 DEF FieldsWithin
<1>3. x \in Nat /\ h.bottom \in Nat /\ h.bottom <= x  BY CollectionNumbers
<1>4. ~ (a < h.bottom)  BY <1>2, <1>3
<1>5. PICK y \in V : Within(h.mem, a, y)  BY <1>4, FieldPlaces
<1>6. x = y  BY <1>0, <1>2, <1>5, BlocksApart
<1> QED BY <1>6

(* The blocks of a collection are finite in number.                         *)
LEMMA UsedFinite ==
  ASSUME NEW h, Collectable(h)
  PROVE  /\ IsFiniteSet(h.blocks) /\ IsFiniteSet(h.used)
         /\ \A z : IsFiniteSet(UsedBelow(h, z)) /\ \A x \in UsedBelow(h, z) : LenAt(h.mem, x) \in Nat
<1>1. IsHeap(h.mem, h.bottom, h.top, h.blocks) /\ h.used \in SUBSET h.blocks  BY DEF Collectable
<1>2. IsFiniteSet(h.blocks)  BY <1>1, HeapFinite
<1>3. IsFiniteSet(h.used)  BY <1>1, <1>2, FS_Subset
<1>4. ASSUME NEW z PROVE IsFiniteSet(UsedBelow(h, z))
  <2>1. UsedBelow(h, z) \in SUBSET h.used  BY DEF UsedBelow
  <2> QED BY <1>3, <2>1, FS_Subset
<1>5. \A z : \A x \in UsedBelow(h, z) : LenAt(h.mem, x) \in Nat
  BY <1>1, CollectionNumbers DEF UsedBelow, Length
<1> QED BY <1>2, <1>3, <1>4, <1>5

(* Past a block in use what follows goes a block further.                   *)
LEMMA ToStep ==
  ASSUME NEW h, Collectable(h), NEW x \in h.blocks, h.sed <= x
  PROVE  /\ x \in h.used => To(h, x + Length(h, x)) = To(h, x) + Length(h, x)
         /\ x \notin h.used => To(h, x + Length(h, x)) = To(h, x)
<1> DEFINE z == x + Length(h, x)
<1>1. /\ x \in Nat /\ Length(h, x) \in Nat /\ x < z /\ h.sed \in Nat /\ z \in Nat
      /\ \A y \in h.blocks : y \in Nat /\ (x < y => z <= y)
  BY CollectionNumbers
<1>2. h.used \subseteq h.blocks  BY DEF Collectable
<1>3. \A y \in h.used : y < z <=> y < x \/ y = x
  <2>1. \A y \in h.used : y \in Nat /\ (x < y => z <= y)  BY <1>1, <1>2
  <2> HIDE DEF z
  <2> QED BY <1>1, <2>1
<1>4. x \notin UsedBelow(h, x)  BY <1>1 DEF UsedBelow
<1>5. ASSUME x \in h.used PROVE To(h, z) = To(h, x) + Length(h, x)
  <2>1. UsedBelow(h, z) = UsedBelow(h, x) \cup {x}  BY <1>3, <1>5 DEF UsedBelow
  <2>2. x \in UsedBelow(h, z) /\ UsedBelow(h, z) \ {x} = UsedBelow(h, x)  BY <1>4, <2>1
  <2>3. IsFiniteSet(UsedBelow(h, z)) /\ \A y \in UsedBelow(h, z) : LenAt(h.mem, y) \in Nat
    BY UsedFinite
  <2>4. SumLen(h.mem, UsedBelow(h, z)) = LenAt(h.mem, x) + SumLen(h.mem, UsedBelow(h, z) \ {x})
    BY <2>2, <2>3, SumFacts
  <2>5. IsFiniteSet(UsedBelow(h, x)) /\ \A y \in UsedBelow(h, x) : LenAt(h.mem, y) \in Nat
    BY UsedFinite
  <2>6. SumLen(h.mem, UsedBelow(h, x)) \in Nat  BY <2>5, SumFacts
  <2>7. SumLen(h.mem, UsedBelow(h, z)) = Length(h, x) + SumLen(h.mem, UsedBelow(h, x))
    BY <2>2, <2>4 DEF Length
  <2> HIDE DEF z
  <2> QED BY <1>1, <2>6, <2>7 DEF To
<1>6. ASSUME x \notin h.used PROVE To(h, z) = To(h, x)
  <2>1. UsedBelow(h, z) = UsedBelow(h, x)  BY <1>3, <1>6 DEF UsedBelow
  <2> QED BY <2>1 DEF To
<1> QED BY <1>5, <1>6

(* The blocks of the sediment, and the first above it, stay.                *)
LEMMA ToSediment == ASSUME NEW h, Collectable(h) PROVE To(h, h.sed) = h.sed
<1>1. h.sed \in Nat /\ \A y \in h.used : y \in Nat  BY CollectionNumbers DEF Collectable
<1>2. UsedBelow(h, h.sed) = {}  BY <1>1 DEF UsedBelow
<1>3. SumLen(h.mem, UsedBelow(h, h.sed)) = 0  BY <1>2, UsedFinite, SumFacts
<1> QED BY <1>1, <1>3 DEF To

(* The starts of blocks above the sediment, and the end.                    *)
Places(h) == { z \in h.blocks \cup {h.top} : h.sed <= z }

(* Before each of them but the first a block ends that is one of them.      *)
LEMMA PlaceBefore ==
  ASSUME NEW h, Collectable(h), NEW y \in Places(h), y # h.sed
  PROVE  \E x \in h.blocks : /\ x + Length(h, x) = y /\ x \in Places(h) /\ x < y
                             /\ x \in Nat /\ Length(h, x) \in Nat
<1>0. IsHeap(h.mem, h.bottom, h.top, h.blocks)  BY DEF Collectable
<1>3. y \in Nat /\ h.sed \in Nat /\ h.sed <= y  BY CollectionNumbers DEF Places
<1>5. PICK x \in h.blocks : x + Length(h, x) = y
  <2>1. y \in h.blocks \cup {h.top}  BY DEF Places
  <2>2. y # h.bottom  BY <1>3, CollectionNumbers
  <2> QED BY <1>0, <2>1, <2>2, BlockBefore DEF Length
<1>6. x \in Nat /\ Length(h, x) \in Nat /\ x < y  BY <1>5, CollectionNumbers
<1>7. h.sed <= x
  <2> SUFFICES ASSUME x < h.sed PROVE FALSE  BY <1>3, <1>6
  <2>1. h.sed \in h.blocks \cup {h.top}  BY DEF Collectable
  <2>2. CASE h.sed \in h.blocks
    <3>1. x + Length(h, x) <= h.sed  BY <2>2, CollectionNumbers
    <3> QED BY <1>3, <1>5, <3>1
  <2>3. CASE h.sed = h.top
    <3>1. y <= h.top  BY CollectionNumbers DEF Places
    <3> QED BY <1>3, <2>3, <3>1
  <2> QED BY <2>1, <2>2, <2>3
<1>8. x \in Places(h)  BY <1>7 DEF Places
<1> QED BY <1>5, <1>6, <1>8

(* Everything goes down, to an aligned address above the sediment.          *)
LEMMA ToBounds ==
  ASSUME NEW h, Collectable(h), NEW z \in Places(h)
  PROVE  To(h, z) \in Nat /\ Aligned(To(h, z)) /\ h.sed <= To(h, z) /\ To(h, z) <= z
<1> DEFINE P(y) == To(h, y) \in Nat /\ Aligned(To(h, y)) /\ h.sed <= To(h, y) /\ To(h, y) <= y
           Bad == {y \in Places(h) : ~P(y)}
<1> SUFFICES ASSUME Bad # {} PROVE FALSE
  <2> P(z)  OBVIOUS
  <2> QED OBVIOUS
<1>1. Places(h) \subseteq Nat  BY CollectionNumbers DEF Places
<1>2. PICK y \in Bad : \A v \in Bad : y <= v
  <2>1. Bad \in SUBSET Nat  BY <1>1
  <2> HIDE DEF Bad
  <2> QED BY <2>1, LeastNumber
<1>3. y \in Places(h) /\ ~P(y) /\ y \in Nat /\ h.sed \in Nat /\ Aligned(h.sed) /\ h.sed <= y
  BY <1>1, CollectionNumbers DEF Places
<1>4. y # h.sed
  <2> SUFFICES ASSUME y = h.sed PROVE FALSE  OBVIOUS
  <2> QED BY <1>3, ToSediment
<1>5. PICK x \in h.blocks : /\ x + Length(h, x) = y /\ x \in Places(h) /\ x < y
                            /\ x \in Nat /\ Length(h, x) \in Nat
  BY <1>3, <1>4, PlaceBefore
<1>6. Aligned(Length(h, x)) /\ x \in Nat /\ Length(h, x) \in Nat /\ x < y  BY <1>5, CollectionNumbers
<1>7. h.sed <= x  BY <1>5 DEF Places
<1>8. x \in Places(h) /\ ~ (y <= x)  BY <1>3, <1>5
<1>9. P(x)  BY <1>2, <1>8
<1>10. To(h, y) = To(h, x) + Length(h, x) \/ To(h, y) = To(h, x)
  BY <1>5, <1>7, ToStep
<1>11. P(y)
  <2>1. CASE To(h, y) = To(h, x) + Length(h, x)
    <3>1. Aligned(To(h, y))  BY <1>6, <1>9, <2>1, AlignedArithmetic
    <3> QED BY <1>3, <1>5, <1>6, <1>9, <2>1, <3>1
  <2>2. CASE To(h, y) = To(h, x)  BY <1>3, <1>6, <1>9, <2>2
  <2> QED BY <1>10, <2>1, <2>2
<1> QED BY <1>3, <1>11

(* What is lower goes lower, and a block in use has its room.               *)
LEMMA ToMonotone ==
  ASSUME NEW h, Collectable(h), NEW y \in Places(h), NEW z \in Places(h), y <= z
  PROVE  To(h, y) <= To(h, z)
<1> DEFINE Bad == {v \in Places(h) : y <= v /\ ~ (To(h, y) <= To(h, v))}
<1> SUFFICES ASSUME Bad # {} PROVE FALSE  OBVIOUS
<1>1. Places(h) \subseteq Nat /\ \A v \in Places(h) : To(h, v) \in Nat
  BY CollectionNumbers, ToBounds DEF Places
<1>2. PICK v \in Bad : \A u \in Bad : v <= u
  <2>1. Bad \in SUBSET Nat  BY <1>1
  <2> HIDE DEF Bad
  <2> QED BY <2>1, LeastNumber
<1>3. v \in Places(h) /\ y < v /\ ~ (To(h, y) <= To(h, v)) /\ v \in Nat /\ y \in Nat  BY <1>1, <1>2
<1>4. v # h.sed
  <2>1. h.sed <= y /\ h.sed \in Nat  BY CollectionNumbers DEF Places
  <2> QED BY <1>3, <2>1
<1>5. PICK x \in h.blocks : /\ x + Length(h, x) = v /\ x \in Places(h) /\ x < v
                            /\ x \in Nat /\ Length(h, x) \in Nat
  BY <1>3, <1>4, PlaceBefore
<1>6. y <= x
  <2> SUFFICES ASSUME x < y PROVE FALSE  BY <1>3, <1>5
  <2>1. y \in h.blocks \cup {h.top}  BY DEF Places
  <2>2. x + Length(h, x) <= y  BY <2>1, CollectionNumbers
  <2> QED BY <1>3, <1>5, <2>2
<1>7. To(h, y) <= To(h, x)
  <2>1. x \notin Bad  BY <1>2, <1>3, <1>5
  <2> QED BY <1>5, <1>6, <2>1
<1>8. To(h, x) <= To(h, v)
  <2>1. h.sed <= x  BY <1>5 DEF Places
  <2>2. To(h, v) = To(h, x) + Length(h, x) \/ To(h, v) = To(h, x)  BY <1>5, <2>1, ToStep
  <2> QED BY <1>1, <1>3, <1>5, <2>2
<1> QED BY <1>1, <1>3, <1>5, <1>7, <1>8

-----------------------------------------------------------------------------
(* Pass one: the chains.                                                    *)

(* c holds the fields chained to a block, the last of them first met; e is  *)
(* the entry word.  What the i-th points on to, or the block itself at the  *)
(* end of c:                                                                *)
Link(c, i, e) == IF i = 0 THEN e ELSE c[i]

OnChain(ch, x, a) == \E i \in 1 .. Len(ch[x]) : ch[x][i] = a

(* The chains ch once the fields of the roots and of the blocks V are met,  *)
(* all but those of T.                                                      *)
Chains(h, ch, V, T) ==
  /\ ch \in [h.blocks -> Seq(Cells)]
  /\ \A x \in h.blocks :
       /\ x < h.sed => ch[x] = <<>>
       /\ h.sed <= x => (x \in V <=> ch[x] # <<>>)
       /\ \A i \in 1 .. Len(ch[x]) : ch[x][i] \in FieldsOf(h, V) \ T /\ h.mem[ch[x][i]] = x
       /\ \A i, j \in 1 .. Len(ch[x]) : ch[x][i] = ch[x][j] => i = j
  /\ \A a \in FieldsOf(h, V) \ T :
       h.mem[a] \in h.blocks =>
         h.mem[a] \in V /\ (h.sed <= h.mem[a] => OnChain(ch, h.mem[a], a))

(* The fields of a chain hold the links up to the k-th, and then the new    *)
(* address of their block.                                                  *)
LinksHold(h, m, ch, k) ==
  \A x \in h.blocks : \A i \in 1 .. Len(ch[x]) :
    m[ch[x][i]] = IF i <= k[x] THEN Link(ch[x], i - 1, h.mem[x]) ELSE To(h, x) + h.up

AllLinks(h, ch) == [x \in h.blocks |-> Len(ch[x])]

(* No word has changed but entry words, fields on a chain and free ones.    *)
RestKept(h, m, ch, Free) ==
  \A a \in Cells \ Free :
    a \notin h.blocks /\ (\A x \in h.blocks : ~OnChain(ch, x, a)) => m[a] = h.mem[a]

(* In pass one the entry words of V are marked, or the heads of chains.     *)
EntryIn(h, ch, V, x) ==
  IF h.sed <= x THEN Link(ch[x], Len(ch[x]), h.mem[x])
  ELSE IF x \in V THEN h.mem[x] + 1 ELSE h.mem[x]

Threaded(h, m, ch, V, T) ==
  /\ m \in [Cells -> Nat] /\ V \subseteq h.used
  /\ Chains(h, ch, V, T)
  /\ LinksHold(h, m, ch, AllLinks(h, ch))
  /\ RestKept(h, m, ch, {})
  /\ \A x \in h.blocks : m[x] = EntryIn(h, ch, V, x)

(* A field not met yet is on no chain and has its word.                     *)
LEMMA FieldToMeet ==
  ASSUME NEW h, Collectable(h), NEW m, NEW ch, NEW V, NEW T, Threaded(h, m, ch, V, T),
         NEW a \in FieldsOf(h, V), a \in T
  PROVE  /\ a \in Cells /\ a \in Nat /\ a \notin h.blocks /\ m[a] = h.mem[a]
         /\ h.mem[a] \in {0} \cup h.used
         /\ \A x \in h.blocks : ~OnChain(ch, x, a)
<1>1. V \subseteq h.used /\ V \subseteq h.blocks  BY DEF Threaded, Collectable
<1>2. a \in Cells /\ a \in Nat /\ a \notin h.blocks  BY <1>1, FieldPlaces
<1>3. \A x \in h.blocks : ~OnChain(ch, x, a)
  <2>1. \A x \in h.blocks : \A i \in 1 .. Len(ch[x]) : ch[x][i] \notin T  BY DEF Threaded, Chains
  <2> QED BY <2>1 DEF OnChain
<1>4. m[a] = h.mem[a]  BY <1>2, <1>3 DEF Threaded, RestKept
<1>5. a \in LiveFields(h)  BY <1>1 DEF FieldsOf, LiveFields
<1> QED BY <1>2, <1>3, <1>4, <1>5 DEF Collectable

(* What is left to meet once the field a, which points to the block x, is.  *)
Left(h, V, T, a, x) == (T \ {a}) \cup (IF x \in V THEN {} ELSE FieldCells(h.mem, x))

(* The fields met then are those met before, and a.                         *)
Met(h, V, T, a, x) ==
  LET V2 == V \cup {x}
      T2 == Left(h, V, T, a, x)
  IN  /\ a \in FieldsOf(h, V2) \ T2
      /\ \A b \in FieldsOf(h, V) \ T : b \in FieldsOf(h, V2) \ T2 /\ b # a
      /\ \A b \in FieldsOf(h, V2) \ T2 : b = a \/ b \in FieldsOf(h, V) \ T

LEMMA MetThen ==
  ASSUME NEW h, Collectable(h), NEW V, V \subseteq h.blocks, NEW T,
         NEW a \in FieldsOf(h, V), a \in T, NEW x \in h.blocks
  PROVE  Met(h, V, T, a, x)
<1>1. FieldsOf(h, V \cup {x}) = FieldsOf(h, V) \cup FieldCells(h.mem, x)  BY DEF FieldsOf
<1>2. CASE x \in V
  <2>1. V \cup {x} = V  BY <1>2
  <2>2. Left(h, V, T, a, x) = T \ {a}  BY <1>2 DEF Left
  <2> QED BY <2>1, <2>2 DEF Met
<1>3. CASE x \notin V
  <2>1. Left(h, V, T, a, x) = (T \ {a}) \cup FieldCells(h.mem, x)  BY <1>3 DEF Left
  <2>2. \A b \in FieldsOf(h, V) : b \notin FieldCells(h.mem, x)  BY <1>3, FieldsApart
  <2> QED BY <1>1, <2>1, <2>2 DEF Met
<1> QED BY <1>2, <1>3

(* A field is put on the chain of its block, met now or before.             *)
LEMMA FieldLinked ==
  ASSUME NEW h, Collectable(h), NEW m, NEW ch, NEW V, NEW T, Threaded(h, m, ch, V, T),
         NEW a \in FieldsOf(h, V), a \in T, NEW x \in h.blocks, x = h.mem[a], h.sed <= x
  PROVE  \E ch2 : Threaded(h, [m EXCEPT ![x] = a, ![a] = m[x]], ch2, V \cup {x}, Left(h, V, T, a, x))
<1> DEFINE m2  == [m EXCEPT ![x] = a, ![a] = m[x]]
           n   == Len(ch[x]) + 1
           ch2 == [ch EXCEPT ![x] = Append(ch[x], a)]
           V2  == V \cup {x}
           T2  == Left(h, V, T, a, x)
<1>0. IsHeap(h.mem, h.bottom, h.top, h.blocks) /\ V \subseteq h.used /\ V \subseteq h.blocks
      /\ m \in [Cells -> Nat] /\ Chains(h, ch, V, T)
  BY DEF Threaded, Collectable
<1>1. /\ a \in Cells /\ a \in Nat /\ a \notin h.blocks /\ x \in h.used
      /\ \A y \in h.blocks : ~OnChain(ch, y, a)
  <2>1. /\ a \in Cells /\ a \in Nat /\ a \notin h.blocks
        /\ h.mem[a] \in {0} \cup h.used /\ \A y \in h.blocks : ~OnChain(ch, y, a)
    BY FieldToMeet
  <2>2. x # 0  BY CollectionNumbers
  <2> QED BY <2>1, <2>2
<1>2. \A y \in h.blocks : y \in Cells
  <2>1. ASSUME NEW y \in h.blocks PROVE y \in Cells
    <3>1. Aligned(y) /\ y \in Nat /\ Length(h, y) \in Nat /\ y < y + Length(h, y)  BY CollectionNumbers
    <3>2. Within(h.mem, y, y)  BY <3>1 DEF Within, Length
    <3> QED BY <3>1, <3>2, BlockCells
  <2> QED BY <2>1
<1>3. /\ ch \in [h.blocks -> Seq(Cells)] /\ ch2 \in [h.blocks -> Seq(Cells)]
      /\ Len(ch2[x]) = n /\ n \in Nat /\ n - 1 = Len(ch[x]) /\ ch2[x][n] = a
      /\ \A i \in 1 .. n - 1 : ch2[x][i] = ch[x][i]
      /\ \A y \in h.blocks : y # x => ch2[y] = ch[y]
      /\ \A y \in h.blocks : Len(ch[y]) \in Nat /\ Len(ch2[y]) \in Nat
  <2>1. ch \in [h.blocks -> Seq(Cells)]  BY <1>0 DEF Chains
  <2>2. ch[x] \in Seq(Cells) /\ Append(ch[x], a) \in Seq(Cells)  BY <1>1, <2>1
  <2>3. ch2 \in [h.blocks -> Seq(Cells)]  BY <2>1, <2>2
  <2>4. ch2[x] = Append(ch[x], a)  BY <2>1
  <2>5. Len(Append(ch[x], a)) = n /\ Append(ch[x], a)[n] = a
        /\ \A i \in 1 .. n - 1 : Append(ch[x], a)[i] = ch[x][i]
    BY <2>2
  <2>6. \A y \in h.blocks : y # x => ch2[y] = ch[y]  BY <2>1
  <2>7. \A y \in h.blocks : Len(ch[y]) \in Nat /\ Len(ch2[y]) \in Nat  BY <2>1, <2>3
  <2> HIDE DEF ch2
  <2> QED BY <2>1, <2>2, <2>3, <2>4, <2>5, <2>6, <2>7
<1>4. /\ a \in FieldsOf(h, V2) \ T2
      /\ \A b \in FieldsOf(h, V) \ T : b \in FieldsOf(h, V2) \ T2 /\ b # a
      /\ \A b \in FieldsOf(h, V2) \ T2 : b = a \/ b \in FieldsOf(h, V) \ T
  <2>1. Met(h, V, T, a, x)
    <3> HIDE DEF V2, T2
    <3> QED BY <1>0, MetThen
  <2> QED BY <2>1 DEF Met
<1>5. m2 \in [Cells -> Nat] /\ m2[x] = a /\ m2[a] = m[x]
      /\ \A c \in Cells : c # a /\ c # x => m2[c] = m[c]
  <2>1. x \in Cells /\ x # a /\ m[x] \in Nat  BY <1>0, <1>1, <1>2
  <2> QED BY <1>0, <1>1, <2>1
<1>6. m[x] = Link(ch[x], n - 1, h.mem[x])
  <2>1. m[x] = EntryIn(h, ch, V, x)  BY DEF Threaded
  <2> QED BY <1>3, <2>1 DEF EntryIn
<1> HIDE DEF m2, n, ch2, V2, T2
<1>7. Chains(h, ch2, V2, T2)
  <2>1. ASSUME NEW y \in h.blocks
        PROVE  /\ y < h.sed => ch2[y] = <<>>
               /\ h.sed <= y => (y \in V2 <=> ch2[y] # <<>>)
               /\ \A i \in 1 .. Len(ch2[y]) : ch2[y][i] \in FieldsOf(h, V2) \ T2 /\ h.mem[ch2[y][i]] = y
               /\ \A i, j \in 1 .. Len(ch2[y]) : ch2[y][i] = ch2[y][j] => i = j
    <3>0. /\ y < h.sed => ch[y] = <<>>
          /\ h.sed <= y => (y \in V <=> ch[y] # <<>>)
          /\ \A i \in 1 .. Len(ch[y]) : ch[y][i] \in FieldsOf(h, V) \ T /\ h.mem[ch[y][i]] = y
          /\ \A i, j \in 1 .. Len(ch[y]) : ch[y][i] = ch[y][j] => i = j
      BY <1>0 DEF Chains
    <3>1. CASE y # x
      <4>1. ch2[y] = ch[y] /\ (y \in V2 <=> y \in V)  BY <1>3, <3>1 DEF V2
      <4> QED BY <1>4, <3>0, <4>1
    <3>2. CASE y = x
      <4>1. ~ (y < h.sed)  BY <3>2, CollectionNumbers
      <4>2. ch2[y] # <<>> /\ y \in V2
        <5>1. Len(ch2[x]) >= 1  BY <1>3
        <5> QED BY <3>2, <5>1 DEF V2
      <4>3. ASSUME NEW i \in 1 .. Len(ch2[y])
            PROVE  ch2[y][i] \in FieldsOf(h, V2) \ T2 /\ h.mem[ch2[y][i]] = y
        <5>1. CASE i = n  BY <1>3, <1>4, <3>2, <5>1
        <5>2. CASE i # n
          <6>1. i \in 1 .. n - 1 /\ i \in 1 .. Len(ch[x])  BY <1>3, <3>2, <5>2
          <6>2. ch2[y][i] = ch[y][i]  BY <1>3, <3>2, <6>1
          <6> QED BY <1>4, <3>0, <3>2, <6>1, <6>2
        <5> QED BY <5>1, <5>2
      <4>4. ASSUME NEW i \in 1 .. n - 1 PROVE ch2[x][i] = ch[x][i] /\ ch[x][i] # a /\ i \in 1 .. Len(ch[x])
        <5>1. i \in 1 .. Len(ch[x])  BY <1>3
        <5>2. ch[x][i] # a  BY <1>1, <5>1 DEF OnChain
        <5> QED BY <1>3, <5>1, <5>2
      <4>5. ASSUME NEW i \in 1 .. Len(ch2[y]), NEW j \in 1 .. Len(ch2[y]), ch2[y][i] = ch2[y][j]
            PROVE  i = j
        <5>1. i \in 1 .. n /\ j \in 1 .. n  BY <1>3, <3>2
        <5>2. CASE i = n /\ j = n  BY <5>2
        <5>3. CASE i = n /\ j # n
          <6>1. j \in 1 .. n - 1  BY <1>3, <5>1, <5>3
          <6> QED BY <1>3, <3>2, <4>4, <4>5, <5>3, <6>1
        <5>4. CASE i # n /\ j = n
          <6>1. i \in 1 .. n - 1  BY <1>3, <5>1, <5>4
          <6> QED BY <1>3, <3>2, <4>4, <4>5, <5>4, <6>1
        <5>5. CASE i # n /\ j # n
          <6>1. i \in 1 .. n - 1 /\ j \in 1 .. n - 1  BY <1>3, <5>1, <5>5
          <6> QED BY <3>0, <3>2, <4>4, <4>5, <6>1
        <5> QED BY <5>2, <5>3, <5>4, <5>5
      <4> QED BY <4>1, <4>2, <4>3, <4>5
    <3> QED BY <3>1, <3>2
  <2>2. ASSUME NEW b \in FieldsOf(h, V2) \ T2, h.mem[b] \in h.blocks
        PROVE  h.mem[b] \in V2 /\ (h.sed <= h.mem[b] => OnChain(ch2, h.mem[b], b))
    <3>1. CASE b = a
      <4>1. n \in 1 .. Len(ch2[x])  BY <1>3
      <4> QED BY <1>3, <3>1, <4>1 DEF V2, OnChain
    <3>2. CASE b # a
      <4>1. b \in FieldsOf(h, V) \ T  BY <1>4, <3>2
      <4>2. h.mem[b] \in V /\ (h.sed <= h.mem[b] => OnChain(ch, h.mem[b], b))
        BY <1>0, <2>2, <4>1 DEF Chains
      <4>3. ASSUME OnChain(ch, h.mem[b], b) PROVE OnChain(ch2, h.mem[b], b)
        <5>1. PICK i \in 1 .. Len(ch[h.mem[b]]) : ch[h.mem[b]][i] = b  BY <4>3 DEF OnChain
        <5>2. CASE h.mem[b] = x
          <6>1. i \in 1 .. n - 1 /\ i \in 1 .. Len(ch2[x])  BY <1>3, <5>2
          <6> QED BY <1>3, <5>1, <5>2, <6>1 DEF OnChain
        <5>3. CASE h.mem[b] # x  BY <1>3, <2>2, <5>1, <5>3 DEF OnChain
        <5> QED BY <5>2, <5>3
      <4> QED BY <4>2, <4>3 DEF V2
    <3> QED BY <3>1, <3>2
  <2> QED BY <1>3, <2>1, <2>2 DEF Chains
<1>8. LinksHold(h, m2, ch2, AllLinks(h, ch2))
  <2>1. ASSUME NEW y \in h.blocks, NEW i \in 1 .. Len(ch2[y])
        PROVE  m2[ch2[y][i]] = Link(ch2[y], i - 1, h.mem[y])
    <3>1. CASE y = x /\ i = n  
      <4>1. m2[ch2[y][i]] = Link(ch[x], n - 1, h.mem[x])  BY <1>3, <1>5, <1>6, <3>1
      <4>2. Link(ch[x], n - 1, h.mem[x]) = Link(ch2[x], n - 1, h.mem[x])
        <5>1. n - 1 # 0 => n - 1 \in 1 .. n - 1  BY <1>3
        <5> QED BY <1>3, <5>1 DEF Link
      <4> QED BY <3>1, <4>1, <4>2
    <3>2. CASE ~ (y = x /\ i = n)
      <4>1. i \in 1 .. Len(ch[y]) /\ ch2[y][i] = ch[y][i]
            /\ (i - 1 # 0 => ch2[y][i - 1] = ch[y][i - 1])
        <5>1. CASE y = x
          <6>1. i \in 1 .. n - 1 /\ (i - 1 # 0 => i - 1 \in 1 .. n - 1)  BY <1>3, <3>2, <5>1
          <6> QED BY <1>3, <5>1, <6>1
        <5>2. CASE y # x  BY <1>3, <5>2
        <5> QED BY <5>1, <5>2
      <4>2. ch[y][i] \in FieldsOf(h, V) \ T /\ ch[y][i] # a  BY <1>0, <1>1, <4>1 DEF Chains, OnChain
      <4>3. ch[y][i] \in Cells /\ ch[y][i] \notin h.blocks  BY <1>0, <4>2, FieldPlaces
      <4>4. m2[ch[y][i]] = m[ch[y][i]]  BY <1>5, <4>2, <4>3
      <4>5. m[ch[y][i]] = Link(ch[y], i - 1, h.mem[y])
        <5>1. AllLinks(h, ch)[y] = Len(ch[y]) /\ i <= Len(ch[y])  BY <4>1, <1>3 DEF AllLinks
        <5> QED BY <4>1, <5>1 DEF Threaded, LinksHold
      <4> QED BY <4>1, <4>4, <4>5 DEF Link
    <3> QED BY <3>1, <3>2
  <2>2. \A y \in h.blocks : AllLinks(h, ch2)[y] = Len(ch2[y])  BY DEF AllLinks
  <2>3. \A y \in h.blocks : \A i \in 1 .. Len(ch2[y]) : i <= AllLinks(h, ch2)[y]  BY <1>3, <2>2
  <2> QED BY <2>1, <2>3 DEF LinksHold
<1>9. RestKept(h, m2, ch2, {})
  <2> SUFFICES ASSUME NEW c \in Cells, c \notin h.blocks, \A y \in h.blocks : ~OnChain(ch2, y, c)
               PROVE  m2[c] = h.mem[c]
    BY DEF RestKept
  <2>1. c # a
    <3>1. n \in 1 .. Len(ch2[x]) /\ ch2[x][n] = a  BY <1>3
    <3> QED BY <3>1 DEF OnChain
  <2>2. ASSUME NEW y \in h.blocks PROVE ~OnChain(ch, y, c)
    <3> SUFFICES ASSUME NEW i \in 1 .. Len(ch[y]), ch[y][i] = c PROVE FALSE  BY DEF OnChain
    <3>1. i \in 1 .. Len(ch2[y]) /\ ch2[y][i] = c
      <4>1. CASE y = x
        <5>1. i \in 1 .. n - 1 /\ i \in 1 .. n  BY <1>3, <4>1
        <5> QED BY <1>3, <4>1, <5>1
      <4>2. CASE y # x  BY <1>3, <4>2
      <4> QED BY <4>1, <4>2
    <3> QED BY <3>1 DEF OnChain
  <2>3. m[c] = h.mem[c]  BY <2>2 DEF Threaded, RestKept
  <2> QED BY <1>5, <2>1, <2>3
<1>10. ASSUME NEW y \in h.blocks PROVE m2[y] = EntryIn(h, ch2, V2, y)
  <2>1. m[y] = EntryIn(h, ch, V, y)  BY DEF Threaded
  <2>2. CASE y = x
    <3>1. Link(ch2[x], Len(ch2[x]), h.mem[x]) = a  BY <1>3 DEF Link
    <3> QED BY <1>5, <2>2, <3>1 DEF EntryIn
  <2>3. CASE y # x
    <3>1. m2[y] = m[y]  BY <1>1, <1>2, <1>5, <2>3
    <3>2. ch2[y] = ch[y] /\ (y \in V2 <=> y \in V)  BY <1>3, <2>3 DEF V2
    <3> QED BY <2>1, <3>1, <3>2 DEF EntryIn
  <2> QED BY <2>2, <2>3
<1>11. Threaded(h, m2, ch2, V2, T2)
  <2>1. V2 \subseteq h.used  BY <1>0, <1>1 DEF V2
  <2> QED BY <1>5, <1>7, <1>8, <1>9, <1>10, <2>1 DEF Threaded
<1> QED BY <1>11 DEF m2, V2, T2

(* What is left when the field a needs no link: it points to no block, or to*)
(* a block of the sediment that is met.                                     *)
LEMMA FieldPassed ==
  ASSUME NEW h, Collectable(h), NEW m, NEW ch, NEW V, NEW T, Threaded(h, m, ch, V, T),
         NEW a \in FieldsOf(h, V), a \in T,
         h.mem[a] \in h.blocks => h.mem[a] \in V /\ h.mem[a] < h.sed
  PROVE  Threaded(h, m, ch, V, T \ {a})
<1>1. Chains(h, ch, V, T)  BY DEF Threaded
<1>2. h.sed \in Nat /\ \A x \in h.blocks : x \in Nat  BY CollectionNumbers
<1>3. \A x \in h.blocks : \A i \in 1 .. Len(ch[x]) :
         ch[x][i] \in FieldsOf(h, V) \ (T \ {a}) /\ h.mem[ch[x][i]] = x
  BY <1>1 DEF Chains
<1>4. ASSUME NEW b \in FieldsOf(h, V) \ (T \ {a}), h.mem[b] \in h.blocks
      PROVE  h.mem[b] \in V /\ (h.sed <= h.mem[b] => OnChain(ch, h.mem[b], b))
  <2>1. CASE b = a
    <3>1. ~ (h.sed <= h.mem[a])  BY <1>2, <1>4, <2>1
    <3> QED BY <1>4, <2>1, <3>1
  <2>2. CASE b # a
    <3>1. b \in FieldsOf(h, V) \ T  BY <2>2
    <3> QED BY <1>1, <1>4, <3>1 DEF Chains
  <2> QED BY <2>1, <2>2
<1>5. Chains(h, ch, V, T \ {a})  BY <1>1, <1>3, <1>4 DEF Chains
<1> QED BY <1>5 DEF Threaded

(* The fields of a marked block are left to meet.                           *)
LEMMA BlockMarked ==
  ASSUME NEW h, Collectable(h), NEW m, NEW ch, NEW V, NEW T, Threaded(h, m, ch, V, T),
         NEW a \in FieldsOf(h, V), a \in T, NEW x \in h.blocks, x = h.mem[a], x < h.sed, x \notin V
  PROVE  Threaded(h, [m EXCEPT ![x] = m[x] + 1], ch, V \cup {x}, Left(h, V, T, a, x))
<1> DEFINE m2  == [m EXCEPT ![x] = m[x] + 1]
           V2  == V \cup {x}
           T2  == Left(h, V, T, a, x)
<1>0. /\ V \subseteq h.used /\ V \subseteq h.blocks /\ m \in [Cells -> Nat] /\ Chains(h, ch, V, T)
      /\ x \in h.used
  <2>1. h.mem[a] \in {0} \cup h.used  BY FieldToMeet
  <2>2. x # 0  BY CollectionNumbers
  <2> QED BY <2>1, <2>2 DEF Threaded, Collectable
<1>1. x \in Cells /\ h.sed \in Nat /\ \A y \in h.blocks : y \in Nat
  <2>1. Aligned(x) /\ x \in Nat /\ Length(h, x) \in Nat /\ x < x + Length(h, x)  BY CollectionNumbers
  <2>2. Within(h.mem, x, x)  BY <2>1 DEF Within, Length
  <2> QED BY <2>1, <2>2, BlockCells, CollectionNumbers
<1>2. m2 \in [Cells -> Nat] /\ m2[x] = m[x] + 1 /\ \A c \in Cells : c # x => m2[c] = m[c]
  <2>1. m[x] \in Nat  BY <1>0, <1>1
  <2> QED BY <1>0, <1>1, <2>1
<1>3. Met(h, V, T, a, x)  BY <1>0, MetThen
<1>4. /\ a \in FieldsOf(h, V2) \ T2
      /\ \A b \in FieldsOf(h, V) \ T : b \in FieldsOf(h, V2) \ T2 /\ b # a
      /\ \A b \in FieldsOf(h, V2) \ T2 : b = a \/ b \in FieldsOf(h, V) \ T
  BY <1>3 DEF Met
<1>5. \A y \in h.blocks : y \in V2 <=> y \in V \/ y = x  OBVIOUS
<1>6. V2 \subseteq h.used  BY <1>0
<1> HIDE DEF m2, V2, T2
<1>7. Chains(h, ch, V2, T2)
  <2>1. ASSUME NEW y \in h.blocks
        PROVE  /\ y < h.sed => ch[y] = <<>>
               /\ h.sed <= y => (y \in V2 <=> ch[y] # <<>>)
               /\ \A i \in 1 .. Len(ch[y]) : ch[y][i] \in FieldsOf(h, V2) \ T2 /\ h.mem[ch[y][i]] = y
               /\ \A i, j \in 1 .. Len(ch[y]) : ch[y][i] = ch[y][j] => i = j
    <3>0. /\ y < h.sed => ch[y] = <<>>
          /\ h.sed <= y => (y \in V <=> ch[y] # <<>>)
          /\ \A i \in 1 .. Len(ch[y]) : ch[y][i] \in FieldsOf(h, V) \ T /\ h.mem[ch[y][i]] = y
          /\ \A i, j \in 1 .. Len(ch[y]) : ch[y][i] = ch[y][j] => i = j
      BY <1>0 DEF Chains
    <3>1. h.sed <= y => (y \in V2 <=> y \in V)  BY <1>1, <1>5
    <3> QED BY <1>4, <3>0, <3>1
  <2>2. ASSUME NEW b \in FieldsOf(h, V2) \ T2, h.mem[b] \in h.blocks
        PROVE  h.mem[b] \in V2 /\ (h.sed <= h.mem[b] => OnChain(ch, h.mem[b], b))
    <3>1. CASE b = a
      <4>1. ~ (h.sed <= h.mem[b])  BY <1>1, <3>1
      <4> QED BY <1>5, <3>1, <4>1
    <3>2. CASE b # a
      <4>1. b \in FieldsOf(h, V) \ T  BY <1>4, <3>2
      <4> QED BY <1>0, <1>5, <2>2, <4>1 DEF Chains
    <3> QED BY <3>1, <3>2
  <2>3. ch \in [h.blocks -> Seq(Cells)]  BY <1>0 DEF Chains
  <2> QED BY <2>1, <2>2, <2>3 DEF Chains
<1>8. LinksHold(h, m2, ch, AllLinks(h, ch))
  <2> SUFFICES ASSUME NEW y \in h.blocks, NEW i \in 1 .. Len(ch[y])
               PROVE  m2[ch[y][i]] = m[ch[y][i]]
    BY DEF Threaded, LinksHold
  <2>1. ch[y][i] \in FieldsOf(h, V)  BY <1>0 DEF Chains
  <2>2. ch[y][i] \in Cells /\ ch[y][i] \notin h.blocks  BY <1>0, <2>1, FieldPlaces
  <2> QED BY <1>2, <2>2
<1>9. RestKept(h, m2, ch, {})
  <2> SUFFICES ASSUME NEW c \in Cells, c \notin h.blocks, \A y \in h.blocks : ~OnChain(ch, y, c)
               PROVE  m2[c] = h.mem[c]
    BY DEF RestKept
  <2>1. m[c] = h.mem[c]  BY DEF Threaded, RestKept
  <2> QED BY <1>2, <2>1
<1>10. ASSUME NEW y \in h.blocks PROVE m2[y] = EntryIn(h, ch, V2, y)
  <2>1. m[y] = EntryIn(h, ch, V, y)  BY DEF Threaded
  <2>2. CASE y = x
    <3>1. ~ (h.sed <= x)  BY <1>1
    <3>2. m[x] = h.mem[x]  BY <2>1, <2>2, <3>1 DEF EntryIn
    <3> QED BY <1>2, <1>5, <2>2, <3>1, <3>2 DEF EntryIn
  <2>3. CASE y # x
    <3>1. y \in Cells
      <4>1. Aligned(y) /\ y \in Nat /\ Length(h, y) \in Nat /\ y < y + Length(h, y)  BY CollectionNumbers
      <4>2. Within(h.mem, y, y)  BY <4>1 DEF Within, Length
      <4> QED BY <4>1, <4>2, BlockCells
    <3>2. m2[y] = m[y] /\ (y \in V2 <=> y \in V)  BY <1>2, <1>5, <2>3, <3>1
    <3> QED BY <2>1, <3>2 DEF EntryIn
  <2> QED BY <2>2, <2>3
<1> HIDE DEF Chains, LinksHold, RestKept
<1>11. Threaded(h, m2, ch, V2, T2)  BY <1>2, <1>6, <1>7, <1>8, <1>9, <1>10 DEF Threaded
<1> QED BY <1>11 DEF m2, V2, T2

(* A block is met exactly when its entry word is even.                      *)
LEMMA MetIsEven ==
  ASSUME NEW h, Collectable(h), NEW m, NEW ch, NEW V, NEW T, Threaded(h, m, ch, V, T), NEW x \in h.blocks
  PROVE  (Even(m[x]) <=> x \in V) /\ (x \notin V => m[x] = h.mem[x])
<1>1. h.mem[x] \in Nat /\ ~Even(h.mem[x])
  <2>1. h.mem[x] \in DOMAIN Kind  BY DEF Collectable, IsHeap
  <2> QED BY <2>1, KindFacts
<1>2. m[x] = EntryIn(h, ch, V, x) /\ Chains(h, ch, V, T)  BY DEF Threaded
<1>3. h.sed \in Nat /\ x \in Nat  BY CollectionNumbers
<1>4. CASE x < h.sed
  <2>1. ~ (h.sed <= x)  BY <1>3, <1>4
  <2>2. Even(h.mem[x] + 1)  BY <1>1 DEF Even
  <2> QED BY <1>1, <1>2, <2>1, <2>2 DEF EntryIn
<1>5. CASE h.sed <= x
  <2>1. x \in V <=> ch[x] # <<>>  BY <1>2, <1>5 DEF Chains
  <2>2. ch[x] \in Seq(Cells)  BY <1>2 DEF Chains
  <2>3. m[x] = Link(ch[x], Len(ch[x]), h.mem[x])  BY <1>2, <1>5 DEF EntryIn
  <2>4. CASE ch[x] = <<>>
    <3>1. m[x] = h.mem[x]  BY <2>3, <2>4 DEF Link
    <3> QED BY <1>1, <2>1, <2>4, <3>1
  <2>5. CASE ch[x] # <<>>
    <3>1. Len(ch[x]) \in 1 .. Len(ch[x])  BY <2>2, <2>5
    <3>2. m[x] = ch[x][Len(ch[x])] /\ m[x] \in Cells  BY <2>2, <2>3, <3>1 DEF Link
    <3>3. Even(m[x])  BY <3>2, CellsAligned, AlignedEven
    <3> QED BY <2>1, <2>5, <3>3
  <2> QED BY <2>4, <2>5
<1> QED BY <1>3, <1>4, <1>5

(* What a field met leaves of the memory: Linked and Marked of the model.   *)
AfterMeeting(h, m, a) ==
  LET x == m[a] IN
  IF x \notin h.blocks THEN m
  ELSE IF h.sed <= x THEN [m EXCEPT ![x] = a, ![a] = m[x]]
  ELSE IF Even(m[x]) THEN m
  ELSE [m EXCEPT ![x] = m[x] + 1]

(* What is met then, and what is left to meet.                              *)
MetWith(h, m, V, a)     == IF m[a] \in h.blocks THEN V \cup {m[a]} ELSE V
LeftWith(h, m, V, T, a) == IF m[a] \in h.blocks THEN Left(h, V, T, a, m[a]) ELSE T \ {a}

LEMMA FieldMet ==
  ASSUME NEW h, Collectable(h), NEW m, NEW ch, NEW V, NEW T, Threaded(h, m, ch, V, T),
         NEW a \in FieldsOf(h, V), a \in T
  PROVE  \E ch2 : Threaded(h, AfterMeeting(h, m, a), ch2, MetWith(h, m, V, a), LeftWith(h, m, V, T, a))
<1> DEFINE x == m[a]
<1>1. m[a] = h.mem[a]  BY FieldToMeet
<1>2. CASE x \notin h.blocks
  <2>1. Threaded(h, m, ch, V, T \ {a})  BY <1>1, <1>2, FieldPassed
  <2>2. AfterMeeting(h, m, a) = m /\ MetWith(h, m, V, a) = V /\ LeftWith(h, m, V, T, a) = T \ {a}
    BY <1>2 DEF AfterMeeting, MetWith, LeftWith
  <2> QED BY <2>1, <2>2
<1>3. CASE x \in h.blocks
  <2>1. MetWith(h, m, V, a) = V \cup {x} /\ LeftWith(h, m, V, T, a) = Left(h, V, T, a, x)
    BY <1>3 DEF MetWith, LeftWith
  <2>2. h.sed \in Nat /\ x \in Nat  BY <1>3, CollectionNumbers
  <2>3. (Even(m[x]) <=> x \in V) /\ x = h.mem[a]
    <3> HIDE DEF x
    <3>1. x = h.mem[a]  BY <1>1 DEF x
    <3>2. Even(m[x]) <=> x \in V  BY <1>3, MetIsEven
    <3> QED BY <3>1, <3>2
  <2>4. CASE h.sed <= x
    <3>1. AfterMeeting(h, m, a) = [m EXCEPT ![x] = a, ![a] = m[x]]  BY <1>3, <2>4 DEF AfterMeeting
    <3> HIDE DEF x
    <3>2. \E ch2 : Threaded(h, [m EXCEPT ![x] = a, ![a] = m[x]], ch2, V \cup {x}, Left(h, V, T, a, x))
      BY <1>3, <2>3, <2>4, FieldLinked
    <3> QED BY <2>1, <3>1, <3>2
  <2>5. CASE x < h.sed /\ x \in V
    <3>0. ~ (h.sed <= x)  BY <2>2, <2>5
    <3>1. AfterMeeting(h, m, a) = m  BY <1>3, <2>3, <2>5, <3>0 DEF AfterMeeting
    <3> HIDE DEF x
    <3>2. Threaded(h, m, ch, V, T \ {a})  BY <2>3, <2>5, FieldPassed
    <3>3. V \cup {x} = V /\ Left(h, V, T, a, x) = T \ {a}  BY <2>5 DEF Left
    <3> QED BY <2>1, <3>1, <3>2, <3>3
  <2>6. CASE x < h.sed /\ x \notin V
    <3>0. ~ (h.sed <= x)  BY <2>2, <2>6
    <3>1. AfterMeeting(h, m, a) = [m EXCEPT ![x] = m[x] + 1]
      BY <1>3, <2>3, <2>6, <3>0 DEF AfterMeeting
    <3> HIDE DEF x
    <3>2. Threaded(h, [m EXCEPT ![x] = m[x] + 1], ch, V \cup {x}, Left(h, V, T, a, x))
      BY <1>3, <2>3, <2>6, BlockMarked
    <3> QED BY <2>1, <3>1, <3>2
  <2> HIDE DEF x
  <2> QED BY <2>2, <2>4, <2>5, <2>6
<1> HIDE DEF x
<1> QED BY <1>2, <1>3

-----------------------------------------------------------------------------
(* Pass one: the stack of gbcpf.                                            *)

(* The cells from one address to another, and those of several spans.       *)
Span(r)   == { a \in Cells : r[1] <= a /\ a < r[2] }
Spans(iv) == UNION { Span(iv[i]) : i \in 1 .. Len(iv) }

(* The spans of fields still to be met of blocks that are: they do not      *)
(* overlap.                                                                 *)
SpansOfFields(h, V, iv) ==
  /\ iv \in Seq(Nat \X Nat)
  /\ \A i \in 1 .. Len(iv) :
       /\ Aligned(iv[i][1]) /\ Aligned(iv[i][2]) /\ iv[i][1] <= iv[i][2]
       /\ \A a : Aligned(a) /\ iv[i][1] <= a /\ a < iv[i][2] => a \in FieldsOf(h, V)
       /\ \A j \in 1 .. Len(iv) : i # j => Span(iv[i]) \cap Span(iv[j]) = {}

Advanced(iv) == [iv EXCEPT ![1] = <<iv[1][1] + W, iv[1][2]>>]

(* The first field of the first span is passed.                             *)
LEMMA SpansAdvance ==
  ASSUME NEW h, Collectable(h), NEW V, V \subseteq h.blocks, NEW iv, SpansOfFields(h, V, iv),
         iv # <<>>, iv[1][1] # iv[1][2]
  PROVE  /\ iv[1][1] \in FieldsOf(h, V) /\ iv[1][1] \in Spans(iv)
         /\ SpansOfFields(h, V, Advanced(iv))
         /\ Spans(Advanced(iv)) = Spans(iv) \ {iv[1][1]}
         /\ Len(Advanced(iv)) = Len(iv)
         /\ \A i \in 1 .. Len(iv) : Advanced(iv)[i] = IF i = 1 THEN <<iv[1][1] + W, iv[1][2]>> ELSE iv[i]
<1> DEFINE a  == iv[1][1]
           l  == iv[1][2]
           iw == Advanced(iv)
<1>1. iv \in Seq(Nat \X Nat) /\ 1 \in 1 .. Len(iv) /\ Len(iv) \in Nat  BY DEF SpansOfFields
<1>2. /\ a \in Nat /\ l \in Nat /\ Aligned(a) /\ Aligned(l) /\ a <= l
      /\ \A c : Aligned(c) /\ a <= c /\ c < l => c \in FieldsOf(h, V)
      /\ \A j \in 1 .. Len(iv) : 1 # j => Span(iv[1]) \cap Span(iv[j]) = {}
  <2>1. iv[1] \in Nat \X Nat  BY <1>1
  <2>2. a \in Nat /\ l \in Nat  BY <2>1
  <2>3. /\ Aligned(a) /\ Aligned(l) /\ a <= l
        /\ \A c : Aligned(c) /\ a <= c /\ c < l => c \in FieldsOf(h, V)
        /\ \A j \in 1 .. Len(iv) : 1 # j => Span(iv[1]) \cap Span(iv[j]) = {}
    BY <1>1, Zenon DEF SpansOfFields
  <2> QED BY <2>2, <2>3
<1>3. a < l /\ a + W <= l /\ Aligned(a + W) /\ a + W \in Nat
  <2>1. ~ (a = l)  OBVIOUS
  <2> HIDE DEF a, l
  <2>2. a < l  BY <1>2, <2>1
  <2>3. a + W <= l  BY <1>2, <2>2, AlignedArithmetic
  <2>4. Aligned(a + W) /\ a + W \in Nat  BY <1>2, AlignedArithmetic
  <2> QED BY <2>2, <2>3, <2>4
<1>4. a \in FieldsOf(h, V) /\ a \in Cells
  <2>1. a \in FieldsOf(h, V)  BY <1>2, <1>3
  <2> HIDE DEF a
  <2> QED BY <2>1, FieldPlaces
<1>5. a \in Span(iv[1])  BY <1>2, <1>3, <1>4 DEF Span
<1>6. /\ iw \in Seq(Nat \X Nat) /\ Len(iw) = Len(iv)
      /\ \A i \in 1 .. Len(iv) : iw[i] = IF i = 1 THEN <<a + W, l>> ELSE iv[i]
  <2>1. <<a + W, l>> \in Nat \X Nat  BY <1>2, <1>3
  <2> HIDE DEF a, l
  <2>2. iw = [iv EXCEPT ![1] = <<a + W, l>>]  BY DEF Advanced, a, l
  <2> HIDE DEF iw
  <2> QED BY <1>1, <2>1, <2>2
<1>7. Span(iw[1]) = Span(iv[1]) \ {a}
  <2>1. iw[1] = <<a + W, l>>  BY <1>1, <1>6
  <2>2. ASSUME NEW c \in Cells PROVE a + W <= c <=> a <= c /\ c # a
    <3>1. c \in Nat /\ Aligned(c)  BY CellsAligned
    <3>2. a < c => a + W <= c  BY <1>2, <3>1, AlignedArithmetic
    <3> HIDE DEF a
    <3> QED BY <1>2, <3>1, <3>2, WordBytes
  <2> QED BY <2>1, <2>2 DEF Span
<1> HIDE DEF a, l, iw
<1>8. \A i \in 1 .. Len(iv) : Span(iw[i]) = Span(iv[i]) \ {a}
  <2> SUFFICES ASSUME NEW i \in 1 .. Len(iv), i # 1 PROVE Span(iw[i]) = Span(iv[i]) \ {a}
    BY <1>7
  <2>1. iw[i] = iv[i]  BY <1>6
  <2>2. a \notin Span(iv[i])  BY <1>2, <1>5
  <2> QED BY <2>1, <2>2
<1>9. Spans(iw) = Spans(iv) \ {a} /\ a \in Spans(iv)
  <2>1. 1 .. Len(iw) = 1 .. Len(iv)  BY <1>6
  <2>2. ASSUME NEW c \in Spans(iw) PROVE c \in Spans(iv) \ {a}
    <3>1. PICK i \in 1 .. Len(iv) : c \in Span(iw[i])  BY <2>1 DEF Spans
    <3> QED BY <1>8, <3>1 DEF Spans
  <2>3. ASSUME NEW c \in Spans(iv) \ {a} PROVE c \in Spans(iw)
    <3>1. PICK i \in 1 .. Len(iv) : c \in Span(iv[i])  BY DEF Spans
    <3>2. c \in Span(iw[i])  BY <1>8, <3>1
    <3> QED BY <2>1, <3>2 DEF Spans
  <2>4. a \in Spans(iv)  BY <1>1, <1>5 DEF Spans
  <2> QED BY <2>2, <2>3, <2>4
<1>10. SpansOfFields(h, V, iw)
  <2>1. ASSUME NEW i \in 1 .. Len(iv)
        PROVE  /\ Aligned(iw[i][1]) /\ Aligned(iw[i][2]) /\ iw[i][1] <= iw[i][2]
               /\ \A c : Aligned(c) /\ iw[i][1] <= c /\ c < iw[i][2] => c \in FieldsOf(h, V)
               /\ \A j \in 1 .. Len(iv) : i # j => Span(iw[i]) \cap Span(iw[j]) = {}
    <3>1. \A j \in 1 .. Len(iv) : i # j => Span(iw[i]) \cap Span(iw[j]) = {}
      <4>1. \A j \in 1 .. Len(iv) : i # j => Span(iv[i]) \cap Span(iv[j]) = {}  BY DEF SpansOfFields
      <4> QED BY <1>8, <4>1
    <3>2. CASE i = 1
      <4>1. iw[i] = <<a + W, l>>  BY <1>6, <3>2
      <4>2. ASSUME NEW c, Aligned(c), a + W <= c, c < l PROVE c \in FieldsOf(h, V)
        <5>1. c \in Nat  BY <4>2, AlignedArithmetic
        <5>2. a <= c  BY <1>2, <4>2, <5>1, WordBytes
        <5> QED BY <1>2, <4>2, <5>2
      <4> QED BY <1>2, <1>3, <3>1, <4>1, <4>2
    <3>3. CASE i # 1
      <4>1. iw[i] = iv[i]  BY <1>6, <3>3
      <4>2. /\ Aligned(iv[i][1]) /\ Aligned(iv[i][2]) /\ iv[i][1] <= iv[i][2]
            /\ \A c : Aligned(c) /\ iv[i][1] <= c /\ c < iv[i][2] => c \in FieldsOf(h, V)
        BY DEF SpansOfFields
      <4> QED BY <3>1, <4>1, <4>2
    <3> QED BY <3>2, <3>3
  <2> QED BY <1>6, <2>1 DEF SpansOfFields
<1>11. a = iv[1][1] /\ l = iv[1][2] /\ iw = Advanced(iv)  BY DEF a, l, iw
<1> QED BY <1>4, <1>6, <1>9, <1>10, <1>11

(* The fields of a block met for the first time are one more span.          *)
Pushed(h, V, iv, x, iw) ==
  LET f == FirstField(h.mem[x], x)
      p == PastField(h.mem, h.mem[x], x)
  IN  /\ iw = <<<<f, p>>>> \o iv
      /\ SpansOfFields(h, V \cup {x}, iw)
      /\ Spans(iw) = FieldCells(h.mem, x) \cup Spans(iv)
      /\ Len(iw) = Len(iv) + 1 /\ iw[1] = <<f, p>>
      /\ \A i \in 1 .. Len(iv) : iw[i + 1] = iv[i]

LEMMA SpansPush ==
  ASSUME NEW h, Collectable(h), NEW V, V \subseteq h.blocks, NEW iv, SpansOfFields(h, V, iv),
         NEW x \in h.blocks, x \notin V, HasFields(h.mem[x])
  PROVE  \E iw : Pushed(h, V, iv, x, iw)
<1> DEFINE f  == FirstField(h.mem[x], x)
           p  == PastField(h.mem, h.mem[x], x)
           iw == <<<<f, p>>>> \o iv
<1>1. iv \in Seq(Nat \X Nat) /\ Len(iv) \in Nat  BY DEF SpansOfFields
<1>2. FieldsWithin(h.mem, x)
  <2>1. IsHeap(h.mem, h.bottom, h.top, h.blocks)  BY DEF Collectable
  <2> QED BY <2>1, FieldFacts
<1>3. /\ Aligned(f) /\ Aligned(p) /\ x < f /\ f < p /\ p <= x + LenAt(h.mem, x) /\ f \in Nat /\ p \in Nat
  <2>1. /\ Aligned(f) /\ Aligned(p) /\ x < f /\ f < p /\ p <= x + LenAt(h.mem, x)
    BY <1>2 DEF FieldsWithin
  <2> QED BY <2>1, AlignedArithmetic
<1>4. /\ iw \in Seq(Nat \X Nat) /\ Len(iw) = Len(iv) + 1 /\ iw[1] = <<f, p>>
      /\ \A i \in 1 .. Len(iv) : iw[i + 1] = iv[i]
  <2>1. <<f, p>> \in Nat \X Nat  BY <1>3
  <2>2. <<<<f, p>>>> \in Seq(Nat \X Nat) /\ Len(<<<<f, p>>>>) = 1  BY <2>1
  <2>3. iw \in Seq(Nat \X Nat) /\ Len(iw) = Len(iv) + 1  BY <1>1, <2>2
  <2> DEFINE p1 == <<f, p>>
             q  == <<p1>>
  <2>4. iw = q \o iv /\ q \in Seq(Nat \X Nat) /\ Len(q) = 1 /\ q[1] = p1  BY <2>2
  <2> HIDE DEF p1, q, iw, f, p
  <2>5. Len(iv) \in Nat  BY <1>1
  <2>8. \A i \in 1 .. Len(q) + Len(iv) : (q \o iv)[i] = IF i <= Len(q) THEN q[i] ELSE iv[i - Len(q)]
    BY <1>1, <2>4, ConcatProperties
  <2>9. \A i \in 1 .. 1 + Len(iv) : iw[i] = IF i <= 1 THEN q[i] ELSE iv[i - 1]
    BY <2>4, <2>8
  <2>6. iw[1] = p1
    <3>1. 1 \in 1 .. 1 + Len(iv) /\ 1 <= 1  BY <2>5
    <3> QED BY <2>4, <2>9, <3>1
  <2>7. ASSUME NEW i \in 1 .. Len(iv) PROVE iw[i + 1] = iv[i]
    <3>1. i + 1 \in 1 .. 1 + Len(iv) /\ ~ (i + 1 <= 1) /\ (i + 1) - 1 = i  BY <2>5
    <3>2. iw[i + 1] = iv[(i + 1) - 1]  BY <2>9, <3>1
    <3> QED BY <3>1, <3>2
  <2> QED BY <2>3, <2>6, <2>7 DEF p1
<1>5. Span(iw[1]) = FieldCells(h.mem, x)  BY <1>4 DEF Span, FieldCells
<1>6. FieldsOf(h, V \cup {x}) = FieldsOf(h, V) \cup FieldCells(h.mem, x)  BY DEF FieldsOf
<1>7. \A c : Aligned(c) /\ f <= c /\ c < p => c \in FieldCells(h.mem, x)
  <2> SUFFICES ASSUME NEW c, Aligned(c), f <= c, c < p PROVE c \in Cells
    BY DEF FieldCells
  <2>1. c \in Nat /\ x \in Nat /\ LenAt(h.mem, x) \in Nat
    BY AlignedArithmetic, CollectionNumbers DEF Length
  <2>2. Within(h.mem, c, x)  BY <1>3, <2>1 DEF Within
  <2> QED BY <2>2, BlockCells
<1>8. \A i \in 1 .. Len(iv) : Span(iv[i]) \subseteq FieldsOf(h, V)
  <2> SUFFICES ASSUME NEW i \in 1 .. Len(iv), NEW c \in Span(iv[i]) PROVE c \in FieldsOf(h, V)
    OBVIOUS
  <2>1. c \in Cells /\ iv[i][1] <= c /\ c < iv[i][2]  BY DEF Span
  <2>2. Aligned(c)  BY <2>1, CellsAligned
  <2> QED BY <2>1, <2>2 DEF SpansOfFields
<1>9. \A i \in 1 .. Len(iv) : Span(iv[i]) \cap FieldCells(h.mem, x) = {}
  <2> SUFFICES ASSUME NEW i \in 1 .. Len(iv), NEW c \in FieldCells(h.mem, x), c \in Span(iv[i])
               PROVE  FALSE
    OBVIOUS
  <2>1. c \notin FieldsOf(h, V)  BY FieldsApart
  <2> QED BY <1>8, <2>1
<1>10. \A i \in 1 .. Len(iw) : i = 1 \/ \E j \in 1 .. Len(iv) : i = j + 1 /\ iw[i] = iv[j]
  <2> SUFFICES ASSUME NEW i \in 1 .. Len(iw), i # 1
               PROVE  \E j \in 1 .. Len(iv) : i = j + 1 /\ iw[i] = iv[j]
    OBVIOUS
  <2>1. i - 1 \in 1 .. Len(iv) /\ (i - 1) + 1 = i  BY <1>1, <1>4
  <2> QED BY <1>4, <2>1
<1> HIDE DEF iw
<1>11. Spans(iw) = FieldCells(h.mem, x) \cup Spans(iv)
  <2>1. 1 \in 1 .. Len(iw) /\ \A j \in 1 .. Len(iv) : j + 1 \in 1 .. Len(iw)
    <3> DEFINE n == Len(iv)
    <3>1. n \in Nat /\ Len(iw) = n + 1  BY <1>1, <1>4
    <3> HIDE DEF n
    <3>2. 1 \in 1 .. n + 1 /\ \A j \in 1 .. n : j + 1 \in 1 .. n + 1  BY <3>1
    <3> QED BY <3>1, <3>2 DEF n
  <2>2. ASSUME NEW c \in Spans(iw) PROVE c \in FieldCells(h.mem, x) \cup Spans(iv)
    <3>1. PICK i \in 1 .. Len(iw) : c \in Span(iw[i])  BY DEF Spans
    <3> QED BY <1>5, <1>10, <3>1 DEF Spans
  <2>3. FieldCells(h.mem, x) \subseteq Spans(iw)  BY <1>5, <2>1 DEF Spans
  <2>4. ASSUME NEW c \in Spans(iv) PROVE c \in Spans(iw)
    <3>1. PICK j \in 1 .. Len(iv) : c \in Span(iv[j])  BY DEF Spans
    <3>2. j + 1 \in 1 .. Len(iw) /\ iw[j + 1] = iv[j]  BY <1>4, <2>1
    <3> QED BY <3>1, <3>2 DEF Spans
  <2> QED BY <2>2, <2>3, <2>4
<1>12. SpansOfFields(h, V \cup {x}, iw)
  <2>1. ASSUME NEW i \in 1 .. Len(iw)
        PROVE  /\ Aligned(iw[i][1]) /\ Aligned(iw[i][2]) /\ iw[i][1] <= iw[i][2]
               /\ \A c : Aligned(c) /\ iw[i][1] <= c /\ c < iw[i][2] => c \in FieldsOf(h, V \cup {x})
    <3>1. CASE i = 1
      <4>1. iw[i][1] = f /\ iw[i][2] = p /\ f <= p  BY <1>3, <1>4, <3>1
      <4>2. \A c : Aligned(c) /\ f <= c /\ c < p => c \in FieldsOf(h, V \cup {x})
        BY <1>6, <1>7
      <4> QED BY <1>3, <4>1, <4>2
    <3>2. CASE i # 1
      <4>1. PICK j \in 1 .. Len(iv) : iw[i] = iv[j]  BY <1>10, <3>2
      <4> QED BY <1>6, <4>1 DEF SpansOfFields
    <3> QED BY <3>1, <3>2
  <2>2. ASSUME NEW i \in 1 .. Len(iw), NEW j \in 1 .. Len(iw), i # j
        PROVE  Span(iw[i]) \cap Span(iw[j]) = {}
    <3>1. CASE i = 1
      <4>1. PICK k \in 1 .. Len(iv) : iw[j] = iv[k]  BY <1>10, <2>2, <3>1
      <4> QED BY <1>5, <1>9, <3>1, <4>1
    <3>2. CASE j = 1
      <4>1. PICK k \in 1 .. Len(iv) : iw[i] = iv[k]  BY <1>10, <2>2, <3>2
      <4> QED BY <1>5, <1>9, <3>2, <4>1
    <3>3. CASE i # 1 /\ j # 1
      <4>1. PICK k \in 1 .. Len(iv) : i = k + 1 /\ iw[i] = iv[k]  BY <1>10, <3>3
      <4>2. PICK n \in 1 .. Len(iv) : j = n + 1 /\ iw[j] = iv[n]  BY <1>10, <3>3
      <4>3. k # n  BY <2>2, <4>1, <4>2
      <4> QED BY <4>1, <4>2, <4>3 DEF SpansOfFields
    <3> QED BY <3>1, <3>2, <3>3
  <2> QED BY <1>4, <2>1, <2>2 DEF SpansOfFields
<1>13. iw = <<<<f, p>>>> \o iv  BY DEF iw
<1> QED BY <1>4, <1>11, <1>12, <1>13 DEF Pushed

(* An empty span goes.                                                      *)
LEMMA SpansTail ==
  ASSUME NEW h, NEW V, NEW iv, SpansOfFields(h, V, iv), iv # <<>>, iv[1][1] = iv[1][2]
  PROVE  /\ SpansOfFields(h, V, Tail(iv)) /\ Spans(Tail(iv)) = Spans(iv)
         /\ Len(Tail(iv)) = Len(iv) - 1
         /\ \A i \in 1 .. Len(iv) - 1 : Tail(iv)[i] = iv[i + 1]
<1> DEFINE iw == Tail(iv)
<1>1. iv \in Seq(Nat \X Nat) /\ 1 \in 1 .. Len(iv) /\ Len(iv) \in Nat  BY DEF SpansOfFields
<1>2. /\ iw \in Seq(Nat \X Nat) /\ Len(iw) = Len(iv) - 1
      /\ \A i \in 1 .. Len(iv) - 1 : iw[i] = iv[i + 1]
  BY <1>1
<1>3. Span(iv[1]) = {}
  <2>1. iv[1][1] \in Nat /\ iv[1][2] \in Nat  BY <1>1
  <2>2. \A c \in Cells : c \in Nat  BY CellsAligned
  <2> QED BY <2>1, <2>2 DEF Span
<1>4. \A i \in 1 .. Len(iw) : i + 1 \in 1 .. Len(iv) /\ iw[i] = iv[i + 1]  BY <1>1, <1>2
<1>5. \A i \in 1 .. Len(iv) : i = 1 \/ (i - 1 \in 1 .. Len(iw) /\ iw[i - 1] = iv[i])  BY <1>1, <1>2
<1> HIDE DEF iw
<1>6. Spans(iw) = Spans(iv)
  <2>1. ASSUME NEW c \in Spans(iw) PROVE c \in Spans(iv)  BY <1>4 DEF Spans
  <2>2. ASSUME NEW c \in Spans(iv) PROVE c \in Spans(iw)
    <3>1. PICK i \in 1 .. Len(iv) : c \in Span(iv[i])  BY DEF Spans
    <3>2. i # 1  BY <1>3, <3>1
    <3> QED BY <1>5, <3>1, <3>2 DEF Spans
  <2> QED BY <2>1, <2>2
<1>7. SpansOfFields(h, V, iw)
  <2>1. \A i, j \in 1 .. Len(iw) : i # j => i + 1 # j + 1  BY <1>2
  <2> QED BY <1>2, <1>4, <2>1 DEF SpansOfFields
<1> QED BY <1>2, <1>6, <1>7 DEF iw

(* What the stack and the segments left say of the spans.                   *)
OnStack(iv, at, levels, left) ==
  /\ levels \in Seq([field : Nat, limit : Nat]) /\ levels # <<>> /\ left \in Seq(Nat \X Nat)
  /\ Len(iv) = Len(levels) + Len(left) /\ iv[1][1] = at
  /\ \A i \in 1 .. Len(levels) :
       iv[i][2] = levels[i].limit /\ (i # 1 => iv[i][1] = levels[i - 1].field + W)
  /\ \A i \in 1 .. Len(left) : iv[Len(levels) + i] = left[i]

-----------------------------------------------------------------------------
(* The length word of a block is no field, and so it is there when blkln is *)
(* called, as it was.                                                       *)
LEMMA LengthKept ==
  ASSUME NEW h, Collectable(h), NEW m, NEW ch, NEW V, V \subseteq h.blocks, NEW T, Chains(h, ch, V, T),
         NEW Free, RestKept(h, m, ch, Free), NEW x \in h.blocks, x + W \notin Free
  PROVE  /\ BlkLn(m, h.mem[x], x) = Length(h, x)
         /\ PastField(m, h.mem[x], x) = PastField(h.mem, h.mem[x], x)
<1>0. IsHeap(h.mem, h.bottom, h.top, h.blocks)  BY DEF Collectable
<1>1. ASSUME Kind[h.mem[x]].len = 0 PROVE m[x + W] = h.mem[x + W]
  <2> DEFINE a == x + W
  <2>1. /\ Aligned(x) /\ x \in Nat /\ Length(h, x) \in Nat /\ Length(h, x) >= 2 * W /\ h.bottom <= x
        /\ h.bottom \in Nat /\ \A y \in h.blocks : y \in Nat /\ (x < y => x + Length(h, x) <= y)
    BY CollectionNumbers
  <2>2. a \in Nat /\ Aligned(a) /\ Within(h.mem, a, x) /\ x < a
    <3>1. a \in Nat /\ x < a /\ a < x + Length(h, x)  BY <2>1, WordBytes
    <3>2. Aligned(a)  BY <2>1, AlignedArithmetic
    <3> HIDE DEF a
    <3> QED BY <2>1, <3>1, <3>2 DEF Within, Length
  <2>3. a \in Cells /\ ~ (a < h.bottom)
    <3> HIDE DEF a
    <3> QED BY <2>1, <2>2, BlockCells
  <2>4. a \notin h.blocks
    <3> HIDE DEF a
    <3>1. a < x + Length(h, x)  BY <2>2 DEF Within, Length
    <3> QED BY <2>1, <2>2, <3>1
  <2>5. ASSUME NEW y \in h.blocks PROVE ~OnChain(ch, y, a)
    <3> SUFFICES ASSUME a \in FieldsOf(h, V) PROVE FALSE  BY DEF Chains, OnChain
    <3> HIDE DEF a
    <3>1. PICK z \in V : a \in FieldCells(h.mem, z) /\ Within(h.mem, a, z)  BY <2>3, FieldPlaces
    <3>2. z = x  BY <1>0, <2>2, <3>1, BlocksApart
    <3>3. FieldsWithin(h.mem, x)  BY <1>0, FieldFacts
    <3>4. a # x + W  BY <1>1, <3>1, <3>2, <3>3 DEF FieldsWithin
    <3> QED BY <3>4 DEF a
  <2> QED BY <2>3, <2>4, <2>5 DEF RestKept
<1> QED BY <1>1 DEF Length, LenAt, BlkLn, PastField

(* Pass one at the field or the end of a level at.                          *)
PassOne(h, m, ch, V, iv, at, levels, left) ==
  /\ Threaded(h, m, ch, V, Spans(iv))
  /\ SpansOfFields(h, V, iv)
  /\ OnStack(iv, at, levels, left)

(* The field at leads gbcpf into the block it points to.                    *)
Descends(h, m, at) == m[at] \in h.blocks /\ ~Even(m[m[at]]) /\ HasFields(m[m[at]])

PassOneOn(h, m, at, levels, left) ==
  \E ch, V, iv : PassOne(h, m, ch, V, iv, at, levels, left)

(* One field is met, and gbcpf goes on to the next or into a block.         *)
LEMMA PassOneField ==
  ASSUME NEW h, Collectable(h), NEW m, NEW ch, NEW V, NEW iv, NEW at, NEW levels, NEW left,
         PassOne(h, m, ch, V, iv, at, levels, left), at # levels[1].limit
  PROVE  /\ m[at] \in {0} \cup h.used /\ at \in Nat
         /\ ~Descends(h, m, at) => PassOneOn(h, AfterMeeting(h, m, at), at + W, levels, left)
         /\ Descends(h, m, at) =>
              LET x == m[at] IN
              PassOneOn(h, AfterMeeting(h, m, at), FirstField(m[x], x),
                        <<Level(at, PastField(m, m[x], x))>> \o levels, left)
<1> DEFINE T  == Spans(iv)
           x  == m[at]
           m2 == AfterMeeting(h, m, at)
           V2 == MetWith(h, m, V, at)
           T2 == LeftWith(h, m, V, T, at)
           iw == Advanced(iv)
<1>0. /\ Threaded(h, m, ch, V, T) /\ SpansOfFields(h, V, iv) /\ OnStack(iv, at, levels, left)
      /\ V \subseteq h.used /\ V \subseteq h.blocks
  BY DEF PassOne, Threaded, Collectable
<1>1. /\ levels \in Seq([field : Nat, limit : Nat]) /\ levels # <<>> /\ left \in Seq(Nat \X Nat)
      /\ Len(levels) \in Nat /\ Len(left) \in Nat /\ 1 \in 1 .. Len(levels)
      /\ iv \in Seq(Nat \X Nat) /\ Len(iv) \in Nat
      /\ Len(iv) = Len(levels) + Len(left) /\ iv[1][1] = at /\ iv[1][2] = levels[1].limit
  <2>1. /\ levels \in Seq([field : Nat, limit : Nat]) /\ levels # <<>> /\ left \in Seq(Nat \X Nat)
        /\ Len(iv) = Len(levels) + Len(left) /\ iv[1][1] = at
        /\ \A i \in 1 .. Len(levels) : iv[i][2] = levels[i].limit
    BY <1>0, Zenon DEF OnStack
  <2>2. iv \in Seq(Nat \X Nat)  BY <1>0, Zenon DEF SpansOfFields
  <2>3. Len(levels) \in Nat /\ Len(left) \in Nat /\ Len(iv) \in Nat /\ 1 \in 1 .. Len(levels)
    <3>1. Len(levels) \in Nat /\ Len(levels) # 0  BY <2>1
    <3>2. 1 \in 1 .. Len(levels)  BY <3>1
    <3>3. Len(left) \in Nat  BY <2>1
    <3>4. Len(iv) \in Nat  BY <2>2
    <3> QED BY <3>1, <3>2, <3>3, <3>4
  <2>4. iv[1][2] = levels[1].limit  BY <2>1, <2>3, Zenon
  <2> QED BY <2>1, <2>2, <2>3, <2>4, Zenon
<1>2. iv # <<>> /\ iv[1][1] # iv[1][2] /\ 1 \in 1 .. Len(iv)  BY <1>1
<1>3. /\ at \in FieldsOf(h, V) /\ at \in T
      /\ SpansOfFields(h, V, iw) /\ Spans(iw) = T \ {at} /\ Len(iw) = Len(iv)
      /\ \A i \in 1 .. Len(iv) : iw[i] = IF i = 1 THEN <<at + W, iv[1][2]>> ELSE iv[i]
  <2>1. /\ iv[1][1] \in FieldsOf(h, V) /\ iv[1][1] \in Spans(iv)
        /\ SpansOfFields(h, V, iw) /\ Spans(iw) = Spans(iv) \ {iv[1][1]} /\ Len(iw) = Len(iv)
        /\ \A i \in 1 .. Len(iv) : iw[i] = IF i = 1 THEN <<iv[1][1] + W, iv[1][2]>> ELSE iv[i]
    BY <1>0, <1>2, SpansAdvance
  <2> HIDE DEF iw
  <2> QED BY <1>1, <2>1
<1>num. /\ Len(levels) \in Nat /\ Len(left) \in Nat /\ Len(levels) >= 1
        /\ Len(iv) = Len(levels) + Len(left) /\ Len(iw) = Len(iv)
  BY <1>1, <1>3
<1> HIDE DEF T, x, m2, V2, T2, iw
<1>4. x = h.mem[at] /\ x \in {0} \cup h.used /\ at \in Nat
  BY <1>0, <1>3, FieldToMeet DEF x
<1>5. PICK ch2 : Threaded(h, m2, ch2, V2, T2)  BY <1>0, <1>3, FieldMet DEF m2, V2, T2
<1>6. OnStack(iw, at + W, levels, left)
  <2>1. \A i \in 1 .. Len(levels) :
          iw[i][2] = levels[i].limit /\ (i # 1 => iw[i][1] = levels[i - 1].field + W)
    <3> SUFFICES ASSUME NEW i \in 1 .. Len(levels)
                 PROVE  iw[i][2] = levels[i].limit /\ (i # 1 => iw[i][1] = levels[i - 1].field + W)
      OBVIOUS
    <3>1. i \in 1 .. Len(iv)  BY <1>1
    <3>2. iv[i][2] = levels[i].limit /\ (i # 1 => iv[i][1] = levels[i - 1].field + W)
      BY <1>0 DEF OnStack
    <3> QED BY <1>3, <3>1, <3>2
  <2>2. \A i \in 1 .. Len(left) : iw[Len(levels) + i] = left[i]
    <3> SUFFICES ASSUME NEW i \in 1 .. Len(left) PROVE iw[Len(levels) + i] = left[i]
      OBVIOUS
    <3>1. Len(levels) + i \in 1 .. Len(iv) /\ Len(levels) + i # 1  BY <1>num
    <3>2. iv[Len(levels) + i] = left[i]  BY <1>0 DEF OnStack
    <3> QED BY <1>3, <3>1, <3>2
  <2>3. iw[1][1] = at + W  BY <1>2, <1>3
  <2> QED BY <1>1, <1>3, <2>1, <2>2, <2>3 DEF OnStack
<1>7. x \in h.blocks => (Even(m[x]) <=> x \in V) /\ (x \notin V => m[x] = h.mem[x])
  BY <1>0, MetIsEven
<1>8. ASSUME ~Descends(h, m, at) PROVE PassOneOn(h, m2, at + W, levels, left)
  <2>1. SpansOfFields(h, V2, iw) /\ Spans(iw) = T2
    <3>1. CASE x \notin h.blocks
      <4>1. V2 = V /\ T2 = T \ {at}  BY <3>1 DEF V2, T2, MetWith, LeftWith, x
      <4> QED BY <1>3, <4>1
    <3>2. CASE x \in V
      <4>1. x \in h.blocks  BY <1>0, <3>2
      <4>2. V2 = V \cup {x} /\ T2 = Left(h, V, T, at, x)  BY <4>1 DEF V2, T2, MetWith, LeftWith, x
      <4>3. V \cup {x} = V /\ Left(h, V, T, at, x) = T \ {at}  BY <3>2 DEF Left
      <4> QED BY <1>3, <4>2, <4>3
    <3>3. CASE x \in h.blocks /\ x \notin V
      <4>1. ~Even(m[x]) /\ m[x] = h.mem[x]  BY <1>7, <3>3
      <4>2. ~HasFields(h.mem[x])  BY <1>8, <3>3, <4>1 DEF Descends, x
      <4>3. FieldCells(h.mem, x) = {}  BY <4>2 DEF FieldCells
      <4>4. V2 = V \cup {x} /\ T2 = Left(h, V, T, at, x)  BY <3>3 DEF V2, T2, MetWith, LeftWith, x
      <4>5. Left(h, V, T, at, x) = T \ {at}  BY <3>3, <4>3 DEF Left
      <4>6. FieldsOf(h, V \cup {x}) = FieldsOf(h, V)  BY <4>3 DEF FieldsOf
      <4>7. SpansOfFields(h, V \cup {x}, iw)  BY <1>3, <4>6 DEF SpansOfFields
      <4> QED BY <1>3, <4>4, <4>5, <4>7
    <3> QED BY <3>1, <3>2, <3>3
  <2> QED BY <1>5, <1>6, <2>1 DEF PassOne, PassOneOn
<1>9. ASSUME Descends(h, m, at)
      PROVE  PassOneOn(h, m2, FirstField(m[x], x), <<Level(at, PastField(m, m[x], x))>> \o levels, left)
  <2> DEFINE f  == FirstField(h.mem[x], x)
             p  == PastField(h.mem, h.mem[x], x)
             lv == <<Level(at, p)>> \o levels
  <2>1. x \in h.blocks /\ ~Even(m[x]) /\ HasFields(m[x])  BY <1>9 DEF Descends, x
  <2>2. x \notin V /\ m[x] = h.mem[x]  BY <1>7, <2>1
  <2>3. PastField(m, m[x], x) = p
    <3>1. Chains(h, ch, V, T) /\ RestKept(h, m, ch, {})  BY <1>0 DEF Threaded
    <3>2. PastField(m, h.mem[x], x) = p  BY <1>0, <2>1, <3>1, LengthKept
    <3> QED BY <2>2, <3>2
  <2>4. p \in Nat /\ f \in Nat
    <3>1. IsHeap(h.mem, h.bottom, h.top, h.blocks)  BY DEF Collectable
    <3>2. FieldsWithin(h.mem, x)  BY <2>1, <3>1, FieldFacts
    <3> QED BY <2>1, <2>2, <3>2, AlignedArithmetic DEF FieldsWithin
  <2> HIDE DEF f, p
  <2>pu. PICK iu : Pushed(h, V, iw, x, iu)
    <3>1. HasFields(h.mem[x])  BY <2>1, <2>2
    <3> QED BY <1>0, <1>3, <2>1, <2>2, <3>1, SpansPush
  <2>5. /\ SpansOfFields(h, V \cup {x}, iu) /\ Spans(iu) = FieldCells(h.mem, x) \cup Spans(iw)
        /\ Len(iu) = Len(iw) + 1 /\ iu[1] = <<f, p>>
        /\ \A i \in 1 .. Len(iw) : iu[i + 1] = iw[i]
    BY <2>pu DEF Pushed, f, p
  <2>6. V2 = V \cup {x} /\ T2 = Spans(iu)
    <3>1. V2 = V \cup {x} /\ T2 = Left(h, V, T, at, x)  BY <2>1 DEF V2, T2, MetWith, LeftWith, x
    <3>2. Left(h, V, T, at, x) = (T \ {at}) \cup FieldCells(h.mem, x)  BY <2>2 DEF Left
    <3> QED BY <1>3, <2>5, <3>1, <3>2
  <2>7. /\ lv \in Seq([field : Nat, limit : Nat]) /\ Len(lv) = Len(levels) + 1
        /\ lv[1] = Level(at, p) /\ \A i \in 1 .. Len(levels) : lv[i + 1] = levels[i]
    <3>1. Level(at, p) \in [field : Nat, limit : Nat]  BY <1>4, <2>4 DEF Level
    <3> DEFINE top == Level(at, p)
               S   == [field : Nat, limit : Nat]
    <3>2. top \in S /\ levels \in Seq(S)  BY <1>1, <3>1
    <3> HIDE DEF top, S
    <3>3. /\ <<top>> \o levels \in Seq(S)
          /\ Len(<<top>> \o levels) = Len(levels) + 1 /\ (<<top>> \o levels)[1] = top
          /\ \A i \in 1 .. Len(levels) : (<<top>> \o levels)[i + 1] = levels[i]
      BY <3>2
    <3> QED BY <3>3 DEF top, S
  <2> HIDE DEF lv
  <2>8. OnStack(iu, f, lv, left)
    <3>1. lv # <<>>  BY <1>1, <2>7
    <3>2. ASSUME NEW i \in 1 .. Len(lv)
          PROVE  iu[i][2] = lv[i].limit /\ (i # 1 => iu[i][1] = lv[i - 1].field + W)
      <4>1. CASE i = 1  BY <2>5, <2>7, <4>1 DEF Level
      <4>2. CASE i = 2
        <5>1. iu[2] = iw[1] /\ lv[2] = levels[1]
          <6>1. 1 \in 1 .. Len(iw) /\ 1 \in 1 .. Len(levels) /\ 1 + 1 = 2  BY <1>num
          <6>2. iu[1 + 1] = iw[1] /\ lv[1 + 1] = levels[1]  BY <2>5, <2>7, <6>1
          <6> QED BY <6>1, <6>2
        <5>2. iw[1] = <<at + W, levels[1].limit>>  BY <1>1, <1>2, <1>3
        <5>3. lv[1].field = at  BY <2>7 DEF Level
        <5> QED BY <4>2, <5>1, <5>2, <5>3
      <4>3. CASE i # 1 /\ i # 2
        <5>1. i - 1 \in 1 .. Len(levels) /\ (i - 1) + 1 = i /\ i - 1 # 1
              /\ i - 2 \in 1 .. Len(levels) /\ (i - 2) + 1 = i - 1 /\ (i - 1) - 1 = i - 2
          <6>1. Len(lv) = Len(levels) + 1 /\ i \in 1 .. Len(lv)  BY <2>7
          <6> QED BY <1>num, <4>3, <6>1
        <5>2. i - 1 \in 1 .. Len(iw)  BY <1>num, <5>1
        <5>3. iu[i] = iw[i - 1] /\ lv[i] = levels[i - 1] /\ lv[i - 1] = levels[i - 2]
          BY <2>5, <2>7, <5>1, <5>2
        <5>4. iw[i - 1][2] = levels[i - 1].limit /\ iw[i - 1][1] = levels[(i - 1) - 1].field + W
          BY <1>6, <5>1 DEF OnStack
        <5> QED BY <5>1, <5>3, <5>4
      <4> QED BY <4>1, <4>2, <4>3
    <3>3. ASSUME NEW i \in 1 .. Len(left) PROVE iu[Len(lv) + i] = left[i]
      <4>1. Len(levels) + i \in 1 .. Len(iw) /\ Len(lv) + i = (Len(levels) + i) + 1
        BY <1>1, <1>3, <2>7
      <4>2. iu[Len(lv) + i] = iw[Len(levels) + i]  BY <2>5, <4>1
      <4>3. iw[Len(levels) + i] = left[i]  BY <1>6 DEF OnStack
      <4> QED BY <4>2, <4>3
    <3>4. Len(iu) = Len(lv) + Len(left) /\ iu[1][1] = f  BY <1>1, <1>3, <2>5, <2>7
    <3> QED BY <1>1, <2>7, <3>1, <3>2, <3>3, <3>4 DEF OnStack
  <2>9. PassOne(h, m2, ch2, V2, iu, f, lv, left)
    <3>1. SpansOfFields(h, V2, iu) /\ Threaded(h, m2, ch2, V2, Spans(iu))  BY <1>5, <2>5, <2>6
    <3> QED BY <2>8, <3>1 DEF PassOne
  <2>10. f = FirstField(m[x], x) /\ lv = <<Level(at, PastField(m, m[x], x))>> \o levels
    BY <2>2, <2>3 DEF f, lv
  <2> QED BY <2>9, <2>10 DEF PassOneOn
<1> QED BY <1>4, <1>8, <1>9 DEF m2, x

(* A collection begins with the roots to meet, and nothing met.             *)
LEMMA PassOneBegins ==
  ASSUME NEW h, Collectable(h)
  PROVE  PassOneOn(h, h.mem, Roots[1][1], <<Level(0, Roots[1][2])>>, Tail(Roots))
<1> DEFINE ch == [x \in h.blocks |-> <<>>]
           lv == <<Level(0, Roots[1][2])>>
<1>1. /\ Roots \in Seq(Nat \X Nat) /\ Roots # <<>>
      /\ \A i \in DOMAIN Roots :
           /\ Aligned(Roots[i][1]) /\ Aligned(Roots[i][2]) /\ Roots[i][1] < Roots[i][2]
           /\ \A a \in Roots[i][1] .. Roots[i][2] - 1 : Aligned(a) => a \in Cells
           /\ \A j \in DOMAIN Roots : i # j => Roots[i][2] <= Roots[j][1] \/ Roots[j][2] <= Roots[i][1]
  BY GarbageCollectorAssumption, Zenon
<1>2. DOMAIN Roots = 1 .. Len(Roots) /\ Len(Roots) \in Nat /\ 1 \in 1 .. Len(Roots)  BY <1>1
<1>3. \A i \in 1 .. Len(Roots) : Roots[i][1] \in Nat /\ Roots[i][2] \in Nat
  <2>1. \A i \in 1 .. Len(Roots) : Roots[i] \in Nat \X Nat  BY <1>1
  <2> QED BY <2>1
<1>4. FieldsOf(h, {}) = RootCells  BY DEF FieldsOf
<1>5. Spans(Roots) = RootCells
  <2>1. \A s \in { Roots[i] : i \in DOMAIN Roots } : Span(s) = { a \in Cells : s[1] <= a /\ a < s[2] }
    BY DEF Span
  <2>2. Spans(Roots) = UNION { Span(s) : s \in { Roots[i] : i \in DOMAIN Roots } }
    BY <1>2 DEF Spans
  <2> QED BY <2>1, <2>2 DEF RootCells
<1>6. SpansOfFields(h, {}, Roots)
  <2>1. ASSUME NEW i \in 1 .. Len(Roots), NEW a, Aligned(a), Roots[i][1] <= a, a < Roots[i][2]
        PROVE  a \in FieldsOf(h, {})
    <3>1. a \in Nat  BY <2>1, AlignedArithmetic
    <3>2. a \in Roots[i][1] .. Roots[i][2] - 1  BY <1>3, <2>1, <3>1
    <3>3. a \in Cells  BY <1>1, <1>2, <2>1, <3>2
    <3>4. a \in Spans(Roots)  BY <2>1, <3>3 DEF Spans, Span
    <3> QED BY <1>4, <1>5, <3>4
  <2>2. ASSUME NEW i \in 1 .. Len(Roots), NEW j \in 1 .. Len(Roots), i # j
        PROVE  Span(Roots[i]) \cap Span(Roots[j]) = {}
    <3> SUFFICES ASSUME NEW a \in Cells, Roots[i][1] <= a, a < Roots[i][2],
                        Roots[j][1] <= a, a < Roots[j][2]
                 PROVE  FALSE
      BY DEF Span
    <3>1. a \in Nat  BY CellsAligned
    <3>2. Roots[i][2] <= Roots[j][1] \/ Roots[j][2] <= Roots[i][1]  BY <1>1, <1>2, <2>2
    <3> QED BY <1>3, <3>1, <3>2
  <2>3. \A i \in 1 .. Len(Roots) :
          Aligned(Roots[i][1]) /\ Aligned(Roots[i][2]) /\ Roots[i][1] <= Roots[i][2]
    BY <1>1, <1>2, <1>3
  <2> QED BY <1>1, <2>1, <2>2, <2>3 DEF SpansOfFields
<1>7. OnStack(Roots, Roots[1][1], lv, Tail(Roots))
  <2>1. lv \in Seq([field : Nat, limit : Nat]) /\ lv # <<>> /\ Len(lv) = 1 /\ lv[1].limit = Roots[1][2]
    BY <1>2, <1>3 DEF Level
  <2>2. Tail(Roots) \in Seq(Nat \X Nat) /\ Len(Tail(Roots)) = Len(Roots) - 1
        /\ \A i \in 1 .. Len(Tail(Roots)) : Tail(Roots)[i] = Roots[i + 1]
    BY <1>1
  <2> HIDE DEF lv
  <2>3. \A i \in 1 .. Len(lv) : i = 1  BY <2>1
  <2>4. \A i \in 1 .. Len(Tail(Roots)) : Roots[Len(lv) + i] = Tail(Roots)[i]
    <3>1. \A i \in 1 .. Len(Tail(Roots)) : 1 + i = i + 1  OBVIOUS
    <3> QED BY <2>1, <2>2, <3>1
  <2> QED BY <1>2, <2>1, <2>2, <2>3, <2>4 DEF OnStack
<1>8. Threaded(h, h.mem, ch, {}, Spans(Roots))
  <2>1. ch \in [h.blocks -> Seq(Cells)] /\ \A x \in h.blocks : ch[x] = <<>> /\ Len(ch[x]) = 0
    OBVIOUS
  <2>2. FieldsOf(h, {}) \ Spans(Roots) = {}  BY <1>4, <1>5
  <2> HIDE DEF ch
  <2>3. \A x \in h.blocks : 1 .. Len(ch[x]) = {}  BY <2>1
  <2>4. Chains(h, ch, {}, Spans(Roots))  BY <2>1, <2>2, <2>3 DEF Chains
  <2>5. LinksHold(h, h.mem, ch, AllLinks(h, ch))  BY <2>3 DEF LinksHold
  <2>6. RestKept(h, h.mem, ch, {})  BY DEF RestKept
  <2>7. \A x \in h.blocks : h.mem[x] = EntryIn(h, ch, {}, x)  BY <2>1 DEF EntryIn, Link
  <2>8. h.mem \in [Cells -> Nat]  BY DEF Collectable
  <2> QED BY <2>4, <2>5, <2>6, <2>7, <2>8 DEF Threaded
<1> HIDE DEF ch, lv
<1>9. PassOneOn(h, h.mem, Roots[1][1], lv, Tail(Roots))
  BY <1>6, <1>7, <1>8 DEF PassOneOn, PassOne
<1> QED BY <1>9 DEF lv

(* With nothing left to meet the blocks met are those in use.               *)
LEMMA AllMet ==
  ASSUME NEW h, Collectable(h), UsedIsLeast(h), NEW m, NEW ch, NEW V, Threaded(h, m, ch, V, {})
  PROVE  V = h.used
<1>1. V \subseteq h.used /\ Chains(h, ch, V, {})  BY DEF Threaded
<1>2. ASSUME NEW a \in FieldsOf(h, V), h.mem[a] \in h.bottom .. h.top - 1 PROVE h.mem[a] \in V
  <2>1. a \in LiveFields(h)  BY <1>1 DEF FieldsOf, LiveFields
  <2>2. h.mem[a] \in {0} \cup h.used  BY <2>1 DEF Collectable
  <2>3. h.mem[a] # 0
    <3>1. 0 < h.bottom /\ h.bottom \in Nat /\ h.top \in Nat  BY CollectionNumbers
    <3> QED BY <1>2, <3>1
  <2>4. h.mem[a] \in h.blocks  BY <2>2, <2>3 DEF Collectable
  <2> QED BY <1>1, <2>4 DEF Chains
<1>3. Pointers(h.mem, RootCells, h.bottom, h.top) \subseteq V
  BY <1>2 DEF Pointers, FieldsOf
<1>4. ASSUME NEW x \in V PROVE Pointers(h.mem, FieldCells(h.mem, x), h.bottom, h.top) \subseteq V
  <2>1. FieldCells(h.mem, x) \subseteq FieldsOf(h, V)  BY DEF FieldsOf
  <2> QED BY <1>2, <2>1 DEF Pointers
<1>5. IsClosed(h.mem, h.bottom, h.top, V)  BY <1>3, <1>4 DEF IsClosed
<1> QED BY <1>1, <1>5 DEF UsedIsLeast

(* At the end of a level gbcpf goes back to the level it came from, or to   *)
(* the next segment of roots, or it is done.                                *)
LEMMA PassOnePop ==
  ASSUME NEW h, Collectable(h), UsedIsLeast(h),
         NEW m, NEW ch, NEW V, NEW iv, NEW at, NEW levels, NEW left,
         PassOne(h, m, ch, V, iv, at, levels, left), at = levels[1].limit
  PROVE  /\ Len(levels) > 1 => PassOneOn(h, m, levels[1].field + W, Tail(levels), left)
         /\ ~ (Len(levels) > 1) /\ left # <<>> =>
              PassOneOn(h, m, left[1][1], <<Level(0, left[1][2])>>, Tail(left))
         /\ ~ (Len(levels) > 1) /\ left = <<>> => Threaded(h, m, ch, h.used, {})
<1> DEFINE iw == Tail(iv)
           S  == [field : Nat, limit : Nat]
<1>0. Threaded(h, m, ch, V, Spans(iv)) /\ SpansOfFields(h, V, iv) /\ OnStack(iv, at, levels, left)
  BY DEF PassOne
<1>1. /\ levels \in Seq(S) /\ levels # <<>> /\ left \in Seq(Nat \X Nat) /\ iv \in Seq(Nat \X Nat)
      /\ iv[1][1] = at /\ iv[1][2] = levels[1].limit
      /\ Len(levels) \in Nat /\ Len(left) \in Nat /\ Len(iv) \in Nat /\ 1 \in 1 .. Len(levels)
      /\ Len(iv) = Len(levels) + Len(left)
  <2>1. /\ levels \in Seq(S) /\ levels # <<>> /\ left \in Seq(Nat \X Nat)
        /\ Len(iv) = Len(levels) + Len(left) /\ iv[1][1] = at
        /\ \A i \in 1 .. Len(levels) : iv[i][2] = levels[i].limit
    BY <1>0, Zenon DEF OnStack
  <2>2. iv \in Seq(Nat \X Nat)  BY <1>0, Zenon DEF SpansOfFields
  <2>3. Len(levels) \in Nat /\ Len(left) \in Nat /\ Len(iv) \in Nat /\ 1 \in 1 .. Len(levels)
    <3>1. Len(levels) \in Nat /\ Len(levels) # 0  BY <2>1
    <3>2. 1 \in 1 .. Len(levels)  BY <3>1
    <3>3. Len(left) \in Nat  BY <2>1
    <3>4. Len(iv) \in Nat  BY <2>2
    <3> QED BY <3>1, <3>2, <3>3, <3>4
  <2>4. iv[1][2] = levels[1].limit  BY <2>1, <2>3, Zenon
  <2> QED BY <2>1, <2>2, <2>3, <2>4, Zenon
<1>2. iv # <<>> /\ iv[1][1] = iv[1][2]  BY <1>1
<1>3. /\ SpansOfFields(h, V, iw) /\ Spans(iw) = Spans(iv) /\ Len(iw) = Len(iv) - 1
      /\ \A i \in 1 .. Len(iv) - 1 : iw[i] = iv[i + 1]
  BY <1>0, <1>2, SpansTail
<1> HIDE DEF iw, S
<1>4. /\ Threaded(h, m, ch, V, Spans(iw))
      /\ \A i \in 1 .. Len(levels) :
           iv[i][2] = levels[i].limit /\ (i # 1 => iv[i][1] = levels[i - 1].field + W)
      /\ \A i \in 1 .. Len(left) : iv[Len(levels) + i] = left[i]
  BY <1>0, <1>3 DEF OnStack
<1>num. /\ Len(levels) \in Nat /\ Len(left) \in Nat /\ Len(levels) >= 1
        /\ Len(iv) = Len(levels) + Len(left) /\ Len(iw) = Len(iv) - 1
  BY <1>1, <1>3
<1>5. ASSUME Len(levels) > 1 PROVE PassOneOn(h, m, levels[1].field + W, Tail(levels), left)
  <2> DEFINE lv == Tail(levels)
  <2>1. /\ lv \in Seq(S) /\ Len(lv) = Len(levels) - 1
        /\ \A i \in 1 .. Len(levels) - 1 : lv[i] = levels[i + 1]
    BY <1>1, <1>5
  <2> HIDE DEF lv
  <2>2. lv # <<>>  BY <1>num, <1>5, <2>1
  <2>3. ASSUME NEW i \in 1 .. Len(lv)
        PROVE  iw[i][2] = lv[i].limit /\ (i # 1 => iw[i][1] = lv[i - 1].field + W)
    <3>1. i + 1 \in 1 .. Len(levels) /\ i \in 1 .. Len(iv) - 1 /\ i \in 1 .. Len(levels) - 1
          /\ (i # 1 => i - 1 \in 1 .. Len(levels) - 1 /\ (i - 1) + 1 = i) /\ (i + 1) - 1 = i
          /\ i + 1 # 1
      <4>1. Len(lv) = Len(levels) - 1 /\ i \in 1 .. Len(lv)  BY <2>1
      <4> QED BY <1>num, <4>1
    <3>2. iw[i] = iv[i + 1] /\ lv[i] = levels[i + 1]  BY <1>3, <2>1, <3>1
    <3>3. i # 1 => lv[i - 1] = levels[i]  BY <2>1, <3>1
    <3>4. iv[i + 1][2] = levels[i + 1].limit /\ iv[i + 1][1] = levels[(i + 1) - 1].field + W
      BY <1>4, <3>1
    <3> QED BY <3>1, <3>2, <3>3, <3>4
  <2>4. ASSUME NEW i \in 1 .. Len(left) PROVE iw[Len(lv) + i] = left[i]
    <3>1. Len(lv) + i \in 1 .. Len(iv) - 1 /\ (Len(lv) + i) + 1 = Len(levels) + i
      <4>1. Len(lv) = Len(levels) - 1  BY <2>1
      <4> QED BY <1>num, <4>1
    <3> QED BY <1>3, <1>4, <3>1
  <2>5. iw[1][1] = levels[1].field + W
    <3>1. 1 \in 1 .. Len(iv) - 1 /\ 2 \in 1 .. Len(levels) /\ 1 + 1 = 2 /\ 2 - 1 = 1  BY <1>num, <1>5
    <3>2. iw[1] = iv[2]  BY <1>3, <3>1
    <3>3. iv[2][1] = levels[2 - 1].field + W  BY <1>4, <3>1
    <3> QED BY <3>1, <3>2, <3>3
  <2>6. Len(iw) = Len(lv) + Len(left)  BY <1>num, <2>1
  <2>7. OnStack(iw, levels[1].field + W, lv, left)
    BY <1>1, <2>1, <2>2, <2>3, <2>4, <2>5, <2>6 DEF OnStack, S
  <2> QED BY <1>3, <1>4, <2>7 DEF PassOneOn, PassOne, lv
<1>6. ASSUME ~ (Len(levels) > 1), left # <<>>
      PROVE  PassOneOn(h, m, left[1][1], <<Level(0, left[1][2])>>, Tail(left))
  <2> DEFINE lv == <<Level(0, left[1][2])>>
             lf == Tail(left)
  <2>1. 1 \in 1 .. Len(left) /\ left[1] \in Nat \X Nat /\ Len(levels) = 1
    <3>1. left \in Seq(Nat \X Nat) /\ left # <<>>  BY <1>1, <1>6
    <3>2. 1 \in 1 .. Len(left) /\ left[1] \in Nat \X Nat  BY <3>1
    <3>3. \A k \in Nat : k >= 1 /\ ~ (k > 1) => k = 1  OBVIOUS
    <3>4. Len(levels) = 1  BY <1>num, <1>6, <3>3, Zenon
    <3> QED BY <3>2, <3>4
  <2>2. lf \in Seq(Nat \X Nat) /\ Len(lf) = Len(left) - 1
        /\ \A i \in 1 .. Len(left) - 1 : lf[i] = left[i + 1]
    BY <1>1, <1>6
  <2>3. Level(0, left[1][2]) \in S  BY <2>1 DEF Level, S
  <2>4. lv \in Seq(S) /\ lv # <<>> /\ Len(lv) = 1 /\ lv[1].limit = left[1][2]
    <3>1. lv \in Seq(S) /\ lv # <<>> /\ Len(lv) = 1 /\ lv[1] = Level(0, left[1][2])  BY <2>3
    <3> QED BY <3>1 DEF Level
  <2> HIDE DEF lv, lf
  <2>5. ASSUME NEW i \in 1 .. Len(left) PROVE iw[i] = left[i]
    <3>1. i \in 1 .. Len(iv) - 1 /\ i + 1 = Len(levels) + i  BY <1>num, <2>1
    <3> QED BY <1>3, <1>4, <3>1
  <2>6. ASSUME NEW i \in 1 .. Len(lv)
        PROVE  iw[i][2] = lv[i].limit /\ (i # 1 => iw[i][1] = lv[i - 1].field + W)
    <3>1. i = 1  BY <2>4
    <3> QED BY <2>1, <2>4, <2>5, <3>1
  <2>7. ASSUME NEW i \in 1 .. Len(lf) PROVE iw[Len(lv) + i] = lf[i]
    <3>1. i \in 1 .. Len(left) - 1 /\ i + 1 \in 1 .. Len(left) /\ Len(lv) + i = i + 1
      <4>1. i \in 1 .. Len(lf) /\ Len(lf) = Len(left) - 1 /\ Len(lv) = 1  BY <2>2, <2>4
      <4> QED BY <1>num, <4>1
    <3>2. iw[i + 1] = left[i + 1] /\ lf[i] = left[i + 1]  BY <2>2, <2>5, <3>1
    <3> QED BY <3>1, <3>2
  <2>8. iw[1][1] = left[1][1] /\ Len(iw) = Len(lv) + Len(lf)
    <3>1. Len(iw) = Len(lv) + Len(lf)  BY <1>num, <2>1, <2>2, <2>4
    <3> QED BY <2>1, <2>5, <3>1
  <2>9. OnStack(iw, left[1][1], lv, lf)
    BY <2>2, <2>4, <2>6, <2>7, <2>8 DEF OnStack, S
  <2> QED BY <1>3, <1>4, <2>9 DEF PassOneOn, PassOne, lv, lf
<1>7. ASSUME ~ (Len(levels) > 1), left = <<>> PROVE Threaded(h, m, ch, h.used, {})
  <2>1. Len(iw) = 0
    <3>1. Len(left) = 0 /\ Len(levels) = 1  BY <1>7, <1>num
    <3> QED BY <1>num, <3>1
  <2>2. Spans(iw) = {}
    <3>1. 1 .. Len(iw) = {}  BY <2>1
    <3> QED BY <3>1 DEF Spans
  <2>3. Threaded(h, m, ch, V, {})  BY <1>4, <2>2
  <2> QED BY <2>3, AllMet
<1> QED BY <1>5, <1>6, <1>7

-----------------------------------------------------------------------------
(* The cells that ChainCells meets.                                         *)

(* One step of it, and that it is what so many steps give.                  *)
Linked_(m, S) == S \cup { m[a] : a \in S \cap Cells }

LinksTo(m, x, c, S) ==
  /\ c[0] = {m[x]} /\ S = c[Cardinality(Cells)]
  /\ \A i \in 1 .. Cardinality(Cells) : c[i] = Linked_(m, c[i - 1])

(* Memory has finitely many cells.                                          *)
LEMMA CellsFinite == IsFiniteSet(Cells) /\ Cardinality(Cells) \in Nat
<1>1. IsFiniteSet(Cells)  BY GarbageCollectorAssumption, Zenon
<1> QED BY <1>1, FS_CardinalityType

LEMMA ChainCellsDef ==
  ASSUME NEW x
  PROVE  \E c : LinksTo(mem, x, c, ChainCells(x))
<1> DEFINE n == Cardinality(Cells)
           Good(g, k) == g[0] = {mem[x]} /\ \A i \in 1..k : g[i] = Linked_(mem, g[i - 1])
           K == {k \in Nat : \E g : Good(g, k)}
<1>0. n \in Nat  BY CellsFinite
<1>1. 0 \in K
  <2>1. Good([i \in {0} |-> {mem[x]}], 0)  OBVIOUS
  <2> QED BY <2>1
<1>2. ASSUME NEW k \in Nat, k \in K PROVE k + 1 \in K
  <2>1. PICK g : Good(g, k)  BY <1>2
  <2> DEFINE h == [i \in 0..(k + 1) |-> IF i <= k THEN g[i] ELSE Linked_(mem, g[k])]
  <2>2. \A i \in 0..k : h[i] = g[i]  OBVIOUS
  <2>3. h[k + 1] = Linked_(mem, g[k])  OBVIOUS
  <2> HIDE DEF h
  <2>4. h[0] = {mem[x]}  BY <2>1, <2>2
  <2>5. ASSUME NEW i \in 1..(k + 1) PROVE h[i] = Linked_(mem, h[i - 1])
    <3>1. CASE i = k + 1  BY <2>2, <2>3, <3>1
    <3>2. CASE i # k + 1
      <4>1. i \in 1..k /\ i \in 0..k /\ i - 1 \in 0..k  BY <3>2
      <4> QED BY <2>1, <2>2, <4>1
    <3> QED BY <3>1, <3>2
  <2> QED BY <2>4, <2>5
<1>3. n \in K
  <2> HIDE DEF K, n
  <2> QED BY <1>0, <1>1, <1>2, SetInduction
<1>4. PICK g : Good(g, n)  BY <1>3
<1> DEFINE Solves(h) == h = [i \in 0..n |->
              IF i = 0 THEN {mem[x]} ELSE h[i - 1] \cup { mem[a] : a \in h[i - 1] \cap Cells }]
           f == [i \in 0..n |-> g[i]]
<1>5. Solves(f)
  <2>1. ASSUME NEW i \in 0..n PROVE f[i] = IF i = 0 THEN {mem[x]} ELSE Linked_(mem, f[i - 1])
    <3>1. CASE i = 0  BY <1>4, <3>1
    <3>2. CASE i # 0
      <4>1. i \in 1..n /\ i - 1 \in 0..n  BY <1>0, <3>2
      <4>2. f[i] = g[i] /\ f[i - 1] = g[i - 1]  BY <4>1
      <4>3. g[i] = Linked_(mem, g[i - 1])  BY <1>4, <4>1
      <4> HIDE DEF f
      <4> QED BY <3>2, <4>2, <4>3
    <3> QED BY <3>1, <3>2
  <2>2. f = [i \in 0..n |-> IF i = 0 THEN {mem[x]} ELSE Linked_(mem, f[i - 1])]
    BY <2>1
  <2> HIDE DEF f
  <2> QED BY <2>2 DEF Linked_
<1> DEFINE c == CHOOSE h : Solves(h)
<1>6. ChainCells(x) = c[n]
  BY DEF ChainCells
<1>7. Solves(c)
  <2> HIDE DEF Solves, f
  <2> QED BY <1>5
<1>8. ASSUME NEW h, Solves(h)
      PROVE  h[0] = {mem[x]} /\ \A i \in 1..n : h[i] = Linked_(mem, h[i - 1])
  <2>1. h[0] = {mem[x]}  BY <1>0, <1>8
  <2>2. ASSUME NEW i \in 1..n PROVE h[i] = Linked_(mem, h[i - 1])
    <3>1. i \in 0..n /\ i # 0  OBVIOUS
    <3> QED BY <1>8, <3>1 DEF Linked_
  <2> QED BY <2>1, <2>2
<1> HIDE DEF Solves, c
<1>9. c[0] = {mem[x]} /\ \A i \in 1..n : c[i] = Linked_(mem, c[i - 1])
  BY <1>7, <1>8
<1>10. LinksTo(mem, x, c, ChainCells(x))  BY <1>6, <1>9 DEF LinksTo
<1> QED BY <1>10

(* The chain of a block above the sediment: its entry word, and fields that *)
(* point to it; none that is met and does is missing.                       *)
ChainIs(h, ch, x, S) ==
  /\ h.mem[x] \in S
  /\ \A a \in S \ {h.mem[x]} : OnChain(ch, x, a)
  /\ \A a : OnChain(ch, x, a) => a \in S

LEMMA ChainCellsAre ==
  ASSUME NEW h, Collectable(h), NEW m, NEW ch, NEW V, NEW T, Threaded(h, m, ch, V, T),
         NEW x \in h.blocks, h.sed <= x, NEW c, NEW S, LinksTo(m, x, c, S)
  PROVE  ChainIs(h, ch, x, S)
<1> DEFINE p == ch[x]
           L == Len(p)
           e == h.mem[x]
           n == Cardinality(Cells)
<1>1. /\ c[0] = {m[x]} /\ S = c[n] /\ n \in Nat /\ IsFiniteSet(Cells)
      /\ \A i \in 1 .. n : c[i] = Linked_(m, c[i - 1])
  BY CellsFinite DEF LinksTo
<1>2. Chains(h, ch, V, T) /\ p \in Seq(Cells) /\ L \in Nat
  <2>1. Chains(h, ch, V, T)  BY DEF Threaded
  <2>2. ch \in [h.blocks -> Seq(Cells)]  BY <2>1 DEF Chains
  <2>3. p \in Seq(Cells)  BY <2>2
  <2> QED BY <2>1, <2>3
<1>3. m[x] = Link(p, L, e)  BY DEF Threaded, EntryIn
<1>4. \A i \in 1 .. L : p[i] \in Cells /\ m[p[i]] = Link(p, i - 1, e) /\ OnChain(ch, x, p[i])
  <2> SUFFICES ASSUME NEW i \in 1 .. L
               PROVE  p[i] \in Cells /\ m[p[i]] = Link(p, i - 1, e) /\ OnChain(ch, x, p[i])
    OBVIOUS
  <2>1. i <= AllLinks(h, ch)[x]  BY <1>2 DEF AllLinks
  <2>2. m[p[i]] = Link(p, i - 1, e)  BY <2>1 DEF Threaded, LinksHold
  <2> QED BY <1>2, <2>2 DEF OnChain
<1>5. e \notin Cells
  <2>1. e \in DOMAIN Kind  BY DEF Collectable, IsHeap
  <2>2. ~Even(e)  BY <2>1, KindFacts
  <2> QED BY <2>2, CellsAligned, AlignedEven
<1>6. L <= n
  <2> DEFINE f == [i \in 1 .. L |-> p[i]]
  <2>1. \A i, j \in 1 .. L : p[i] = p[j] => i = j  BY <1>2 DEF Chains
  <2>2. f \in Injection(1 .. L, Cells)
    BY <1>4, <2>1 DEF Injection, IsInjective
  <2>3. Cardinality(1 .. L) <= n  BY <1>1, <2>2, FS_Injection
  <2>4. Cardinality(1 .. L) = L
    <3> HIDE DEF L, p, f
    <3>1. Cardinality(1 .. L) = IF 1 > L THEN 0 ELSE L - 1 + 1  BY <1>2, FS_Interval
    <3> QED BY <1>2, <3>1
  <2> QED BY <1>1, <1>2, <2>3, <2>4
<1> DEFINE Fine(s) == \A a \in s : a = e \/ OnChain(ch, x, a)
           D == {i \in Nat : i <= n => Fine(c[i]) /\ \A k \in Nat : k <= i /\ k <= L => Link(p, L - k, e) \in c[i]}
<1> HIDE DEF p, L, e, n
<1>7. \A k \in Nat : k <= L => LET a == Link(p, k, e) IN a = e \/ OnChain(ch, x, a)
  <2> SUFFICES ASSUME NEW k \in Nat, k <= L, k # 0 PROVE OnChain(ch, x, p[k])
    BY DEF Link
  <2>1. k \in 1 .. L  BY <1>2
  <2> QED BY <1>4, <2>1
<1>8. 0 \in D
  <2>1. Fine(c[0])  BY <1>1, <1>2, <1>3, <1>7
  <2>2. \A k \in Nat : k <= 0 => L - k = L  BY <1>2
  <2>3. \A k \in Nat : k <= 0 /\ k <= L => Link(p, L - k, e) \in c[0]  BY <1>1, <1>3, <2>2
  <2> QED BY <2>1, <2>3
<1>9. ASSUME NEW i \in Nat, i \in D PROVE i + 1 \in D
  <2> SUFFICES ASSUME i + 1 <= n
               PROVE  /\ Fine(c[i + 1])
                      /\ \A k \in Nat : k <= i + 1 /\ k <= L => Link(p, L - k, e) \in c[i + 1]
    OBVIOUS
  <2>1. c[i + 1] = c[i] \cup { m[a] : a \in c[i] \cap Cells }
    <3>1. i + 1 \in 1 .. n /\ (i + 1) - 1 = i  BY <1>1
    <3> QED BY <1>1, <3>1 DEF Linked_
  <2>2. Fine(c[i]) /\ \A k \in Nat : k <= i /\ k <= L => Link(p, L - k, e) \in c[i]
    <3>1. i <= n  BY <1>1
    <3> QED BY <1>9, <3>1
  <2>3. Fine(c[i + 1])
    <3> SUFFICES ASSUME NEW a \in c[i], a \in Cells PROVE m[a] = e \/ OnChain(ch, x, m[a])
      BY <2>1, <2>2
    <3>1. OnChain(ch, x, a)  BY <1>5, <2>2
    <3>2. PICK j \in 1 .. L : p[j] = a  BY <3>1 DEF OnChain, L, p
    <3>3. j - 1 \in Nat /\ j - 1 <= L  BY <1>2
    <3>4. m[a] = Link(p, j - 1, e)  BY <1>4, <3>2
    <3> QED BY <1>7, <3>3, <3>4
  <2>4. ASSUME NEW k \in Nat, k <= i + 1, k <= L PROVE Link(p, L - k, e) \in c[i + 1]
    <3>1. CASE k <= i  BY <2>1, <2>2, <2>4, <3>1
    <3>2. CASE ~ (k <= i)
      <4>1. i <= L /\ k = i + 1 /\ L - i \in 1 .. L /\ (L - i) - 1 = L - k  BY <1>2, <2>4, <3>2
      <4>2. Link(p, L - i, e) \in c[i]  BY <2>2, <4>1
      <4>3. Link(p, L - i, e) = p[L - i]  BY <4>1 DEF Link
      <4>4. p[L - i] \in Cells /\ m[p[L - i]] = Link(p, (L - i) - 1, e)  BY <1>4, <4>1
      <4> QED BY <2>1, <4>1, <4>2, <4>3, <4>4
    <3> QED BY <3>1, <3>2
  <2> QED BY <2>3, <2>4
<1>10. n \in D
  <2> HIDE DEF D
  <2> QED BY <1>1, <1>8, <1>9, SetInduction
<1>11. e \in c[n]
  <2>1. L - L = 0 /\ L <= L  BY <1>2
  <2>2. Link(p, L - L, e) \in c[n]  BY <1>1, <1>2, <1>6, <1>10, <2>1
  <2> QED BY <2>1, <2>2 DEF Link
<1>12. ASSUME NEW a, OnChain(ch, x, a) PROVE a \in c[n]
  <2>1. PICK j \in 1 .. L : p[j] = a  BY <1>12 DEF OnChain, L, p
  <2>2. L - j \in Nat /\ L - j <= L /\ L - (L - j) = j /\ L - j <= n /\ j # 0  BY <1>1, <1>2, <1>6
  <2>3. Link(p, L - (L - j), e) \in c[n]  BY <1>10, <1>1, <2>2
  <2> QED BY <2>1, <2>2, <2>3 DEF Link
<1>13. Fine(c[n])  BY <1>1, <1>10
<1>14. h.mem[x] = e  BY DEF e
<1> QED BY <1>1, <1>11, <1>12, <1>13, <1>14 DEF ChainIs

-----------------------------------------------------------------------------
(* Pass two.                                                                *)

(* The sediment is scanned up to x: below it the entry words are back.      *)
SedimentScanned(h, m, ch, x) ==
  /\ m \in [Cells -> Nat] /\ Chains(h, ch, h.used, {})
  /\ LinksHold(h, m, ch, AllLinks(h, ch)) /\ RestKept(h, m, ch, {})
  /\ x \in h.blocks \cup {h.top} /\ x <= h.sed
  /\ \A y \in h.blocks : m[y] = IF y < x THEN h.mem[y] ELSE EntryIn(h, ch, h.used, y)

(* The words that are free once the blocks above the sediment are passed up *)
(* to x: the head of the runs, and the blocks not in use.                   *)
Free(h, x) ==
  {GbcNm, GbcNs} \cup
  { a \in Cells : \E y \in h.blocks \ h.used : h.sed <= y /\ y < x /\ Within(h.mem, a, y) }

(* The blocks above the sediment are passed up to x: the entry words below  *)
(* it are back, and k links are left in the chains.                         *)
Passed(h, m, ch, x, k) ==
  /\ m \in [Cells -> Nat] /\ Chains(h, ch, h.used, {}) /\ x \in Places(h)
  /\ LinksHold(h, m, ch, k) /\ RestKept(h, m, ch, Free(h, x))
  /\ \A y \in h.blocks :
       /\ x <= y => m[y] = Link(ch[y], Len(ch[y]), h.mem[y])
       /\ y < x /\ (y < h.sed \/ y \in h.used) => m[y] = h.mem[y]

LinksFrom(h, ch, x) == [y \in h.blocks |-> IF x <= y THEN Len(ch[y]) ELSE 0]

(* The runs of blocks in use up to x: run i goes from R[i].from to R[i].to, *)
(* and its descriptor is at R[i].at.  The last one is open while its        *)
(* descriptor holds its start.                                              *)
Run(h, m, R, x, open, i) ==
  /\ R[i].from \in Places(h) /\ R[i].to \in Places(h) /\ R[i].from <= R[i].to /\ R[i].to <= x
  /\ R[i].at = (IF i = 1 THEN GbcNm ELSE R[i].from - 2 * W) /\ (i = 1 => R[i].from = h.sed)
  /\ R[i].at \in Free(h, x) /\ R[i].at + W \in Free(h, x)
  /\ m[R[i].at] = (IF i = Len(R) THEN 0 ELSE R[i + 1].at)
  /\ m[R[i].at + W] = (IF i = Len(R) /\ open THEN R[i].from ELSE R[i].to - R[i].from)
  /\ \A y \in h.blocks :
       /\ R[i].from <= y /\ y < R[i].to => y \in h.used
       /\ i # Len(R) /\ R[i].to <= y /\ y < R[i + 1].from => y \notin h.used
  /\ \A j \in 1 .. Len(R) : i < j => R[i].to + 2 * W <= R[j].from

Runs(h, m, R, x, open) ==
  /\ R \in Seq([at : Nat, from : Nat, to : Nat]) /\ R # <<>>
  /\ \A i \in 1 .. Len(R) : Run(h, m, R, x, open, i)

(* The field of a block in use, and an entry word that counts, are not free.*)
LEMMA NotFree ==
  ASSUME NEW h, Collectable(h), NEW x
  PROVE  /\ \A a \in LiveFields(h) : a \notin Free(h, x)
         /\ \A y \in h.blocks : y < h.sed \/ y \in h.used \/ ~ (y < x) => y \notin Free(h, x)
<1>0. IsHeap(h.mem, h.bottom, h.top, h.blocks) /\ h.used \subseteq h.blocks  BY DEF Collectable
<1>1. h.bottom \in Nat /\ h.sed \in Nat /\ h.bottom <= h.sed
      /\ \A y \in h.blocks : y \in Nat /\ Length(h, y) \in Nat /\ h.bottom <= y /\ y < y + Length(h, y)
  BY CollectionNumbers
<1>2. ASSUME NEW a \in LiveFields(h), a \in Free(h, x) PROVE FALSE
  <2>1. a \in FieldsOf(h, h.used)  BY DEF LiveFields
  <2>2. a \notin {GbcNm, GbcNs} /\ a \in Nat  BY <1>0, <2>1, FieldPlaces
  <2>3. PICK y \in h.blocks \ h.used : h.sed <= y /\ Within(h.mem, a, y)  BY <1>2, <2>2 DEF Free
  <2>4. ~ (a < h.bottom)
    <3>1. y \in Nat /\ h.bottom <= y /\ y <= a  BY <1>1, <2>3 DEF Within
    <3> QED BY <1>1, <2>2, <3>1
  <2>5. PICK z \in h.used : Within(h.mem, a, z)  BY <1>0, <2>1, <2>4, FieldPlaces
  <2>6. z = y  BY <1>0, <2>2, <2>3, <2>5, BlocksApart
  <2> QED BY <2>3, <2>6
<1>3. ASSUME NEW y \in h.blocks, y < h.sed \/ y \in h.used \/ ~ (y < x), y \in Free(h, x) PROVE FALSE
  <2>1. y \notin {GbcNm, GbcNs}
    <3>1. GbcNm < h.bottom /\ GbcNs < h.bottom  BY DEF Collectable
    <3> QED BY <1>1, <3>1, HeadCells
  <2>2. PICK z \in h.blocks \ h.used : h.sed <= z /\ z < x /\ Within(h.mem, y, z)
    BY <1>3, <2>1 DEF Free
  <2>3. Within(h.mem, y, y)  BY <1>1 DEF Within, Length
  <2>4. z = y  BY <1>0, <1>1, <2>2, <2>3, BlocksApart
  <2> QED BY <1>1, <1>3, <2>2, <2>4
<1> QED BY <1>2, <1>3

(* The free words are cells, those of the dynamic area below x; the rest of *)
(* a block that starts at x or above is not free.                           *)
LEMMA FreeCells ==
  ASSUME NEW h, Collectable(h), NEW x \in Places(h)
  PROVE  /\ Free(h, x) \subseteq Cells
         /\ \A a \in Free(h, x) : a \in Nat /\ a < x
         /\ \A z \in Places(h) : x <= z => Free(h, x) \subseteq Free(h, z)
<1>1. x \in Nat /\ h.bottom \in Nat /\ h.sed \in Nat /\ h.bottom <= h.sed /\ h.sed <= x
  BY CollectionNumbers DEF Places
<1>2. Free(h, x) \subseteq Cells  BY HeadCells DEF Free
<1>3. ASSUME NEW a \in Free(h, x) PROVE a \in Nat /\ a < x
  <2>1. a \in Nat  BY <1>2, CellsAligned
  <2>2. CASE a \in {GbcNm, GbcNs}
    <3>1. GbcNm < h.bottom /\ GbcNs < h.bottom  BY DEF Collectable
    <3>2. a < h.bottom  BY <2>2, <3>1
    <3> QED BY <1>1, <2>1, <3>2
  <2>3. CASE a \notin {GbcNm, GbcNs}
    <3>1. PICK y \in h.blocks : y < x /\ Within(h.mem, a, y)  BY <2>3 DEF Free
    <3>2. y \in Nat /\ Length(h, y) \in Nat /\ y + Length(h, y) <= x
      <4>1. y \in Nat /\ Length(h, y) \in Nat  BY CollectionNumbers
      <4>2. x \in h.blocks \cup {h.top}  BY DEF Places
      <4>3. y + Length(h, y) <= x  BY <3>1, <4>2, CollectionNumbers
      <4> QED BY <4>1, <4>3
    <3> QED BY <1>1, <2>1, <3>1, <3>2 DEF Within, Length
  <2> QED BY <2>2, <2>3
<1>4. ASSUME NEW z \in Places(h), x <= z PROVE Free(h, x) \subseteq Free(h, z)
  <2>1. z \in Nat /\ \A y \in h.blocks : y \in Nat  BY CollectionNumbers DEF Places
  <2>2. \A y \in h.blocks : y < x => y < z  BY <1>1, <1>4, <2>1
  <2> QED BY <2>2 DEF Free
<1> QED BY <1>2, <1>3, <1>4

(* The start of a block is a cell.                                          *)
LEMMA BlockIsCell == ASSUME NEW h, Collectable(h), NEW x \in h.blocks PROVE x \in Cells
<1>1. Aligned(x) /\ x \in Nat /\ Length(h, x) \in Nat /\ x < x + Length(h, x)  BY CollectionNumbers
<1>2. Within(h.mem, x, x)  BY <1>1 DEF Within, Length
<1> QED BY <1>1, <1>2, BlockCells

(* The entry word of a block is odd.                                        *)
LEMMA EntryIsOdd ==
  ASSUME NEW h, Collectable(h), NEW x \in h.blocks
  PROVE  h.mem[x] \in Nat /\ ~Even(h.mem[x]) /\ h.mem[x] \in DOMAIN Kind
<1>1. h.mem[x] \in DOMAIN Kind  BY DEF Collectable, IsHeap
<1> QED BY <1>1, KindFacts

(* The fields on the chains are live, and cells; no one is on two.          *)
LEMMA ChainFields ==
  ASSUME NEW h, Collectable(h), NEW ch, NEW V, V \subseteq h.used, NEW T, Chains(h, ch, V, T),
         NEW x \in h.blocks
  PROVE  /\ ch[x] \in Seq(Cells) /\ Len(ch[x]) \in Nat
         /\ \A i \in 1 .. Len(ch[x]) :
              /\ ch[x][i] \in LiveFields(h) /\ ch[x][i] \in Cells /\ ch[x][i] \in Nat /\ Even(ch[x][i])
              /\ ch[x][i] \notin h.blocks /\ ch[x][i] \notin {GbcNm, GbcNs} /\ h.mem[ch[x][i]] = x
<1>1. ch \in [h.blocks -> Seq(Cells)]  BY DEF Chains
<1>2. ch[x] \in Seq(Cells)  BY <1>1
<1>3. ASSUME NEW i \in 1 .. Len(ch[x])
      PROVE  /\ ch[x][i] \in LiveFields(h) /\ ch[x][i] \in Cells /\ ch[x][i] \in Nat /\ Even(ch[x][i])
             /\ ch[x][i] \notin h.blocks /\ ch[x][i] \notin {GbcNm, GbcNs} /\ h.mem[ch[x][i]] = x
  <2>1. ch[x][i] \in FieldsOf(h, V) /\ h.mem[ch[x][i]] = x  BY DEF Chains
  <2>2. ch[x][i] \in LiveFields(h)  BY <2>1 DEF FieldsOf, LiveFields
  <2>3. V \subseteq h.blocks  BY DEF Collectable
  <2>4. /\ ch[x][i] \in Cells /\ ch[x][i] \in Nat /\ Aligned(ch[x][i])
        /\ ch[x][i] \notin h.blocks /\ ch[x][i] \notin {GbcNm, GbcNs}
    BY <2>1, <2>3, FieldPlaces
  <2>5. Even(ch[x][i])  BY <2>4, AlignedEven
  <2> QED BY <2>1, <2>2, <2>4, <2>5
<1> QED BY <1>2, <1>3

(* With all met the scan of the sediment begins.                            *)
LEMMA SedimentBegins ==
  ASSUME NEW h, Collectable(h), NEW m, NEW ch, Threaded(h, m, ch, h.used, {})
  PROVE  SedimentScanned(h, m, ch, h.bottom)
<1>1. h.bottom \in h.blocks \cup {h.top} /\ h.bottom <= h.sed
  <2>1. h.bottom \in h.blocks \cup {h.top}  BY DEF Collectable, IsHeap
  <2> QED BY <2>1, CollectionNumbers
<1>2. \A y \in h.blocks : ~ (y < h.bottom)
  <2>1. h.bottom \in Nat /\ \A y \in h.blocks : y \in Nat /\ h.bottom <= y  BY CollectionNumbers
  <2> QED BY <2>1
<1> QED BY <1>1, <1>2 DEF SedimentScanned, Threaded

(* The entry word of a block of the sediment is put back, so that its       *)
(* length is found.                                                         *)
Unmarked(m, x) == IF Even(m[x]) THEN [m EXCEPT ![x] = m[x] - 1] ELSE m

LEMMA SedimentStep ==
  ASSUME NEW h, Collectable(h), NEW m, NEW ch, NEW x, SedimentScanned(h, m, ch, x), x # h.sed
  PROVE  /\ BlkLn(Unmarked(m, x), Unmarked(m, x)[x], x) = Length(h, x)
         /\ SedimentScanned(h, Unmarked(m, x), ch, x + Length(h, x))
<1> DEFINE m2 == Unmarked(m, x)
           z  == x + Length(h, x)
<1>1. /\ m \in [Cells -> Nat] /\ Chains(h, ch, h.used, {})
      /\ LinksHold(h, m, ch, AllLinks(h, ch)) /\ RestKept(h, m, ch, {})
      /\ x \in h.blocks \cup {h.top} /\ x <= h.sed
      /\ \A y \in h.blocks : m[y] = IF y < x THEN h.mem[y] ELSE EntryIn(h, ch, h.used, y)
  BY DEF SedimentScanned
<1>2. h.sed \in Nat /\ h.top \in Nat /\ h.sed <= h.top /\ h.sed \in h.blocks \cup {h.top}
      /\ x \in h.blocks /\ x \in Nat /\ x < h.sed
  <2>1. h.sed \in Nat /\ h.top \in Nat /\ h.sed <= h.top /\ x \in Nat  BY <1>1, CollectionNumbers
  <2> QED BY <1>1, <2>1 DEF Collectable
<1>3. /\ z \in h.blocks \cup {h.top} /\ z \in Nat /\ x < z /\ z <= h.sed /\ Length(h, x) \in Nat
      /\ \A y \in h.blocks : y \in Nat /\ (x < y => z <= y)
  BY <1>2, CollectionNumbers
<1>4. x \in Cells /\ h.mem[x] \in Nat /\ ~Even(h.mem[x])  BY <1>2, BlockIsCell, EntryIsOdd
<1>5. m[x] = IF x \in h.used THEN h.mem[x] + 1 ELSE h.mem[x]
  <2>1. ~ (x < x) /\ ~ (h.sed <= x)  BY <1>2
  <2> QED BY <1>1, <1>2, <2>1 DEF EntryIn
<1>6. m2 \in [Cells -> Nat] /\ m2[x] = h.mem[x] /\ \A c \in Cells : c # x => m2[c] = m[c]
  <2>1. CASE x \in h.used
    <3>1. m[x] = h.mem[x] + 1  BY <1>5, <2>1
    <3>2. Even(m[x]) /\ m[x] - 1 = h.mem[x]  BY <1>4, <3>1 DEF Even
    <3>3. m2 = [m EXCEPT ![x] = h.mem[x]]  BY <3>2 DEF Unmarked
    <3> HIDE DEF m2
    <3> QED BY <1>1, <1>4, <3>3
  <2>2. CASE x \notin h.used
    <3>1. m2 = m  BY <1>4, <1>5, <2>2 DEF Unmarked
    <3> QED BY <1>1, <1>5, <2>2, <3>1
  <2> QED BY <2>1, <2>2
<1> HIDE DEF m2, z
<1>7. LinksHold(h, m2, ch, AllLinks(h, ch))
  <2> SUFFICES ASSUME NEW y \in h.blocks, NEW i \in 1 .. Len(ch[y])
               PROVE  m2[ch[y][i]] = m[ch[y][i]]
    BY <1>1 DEF LinksHold
  <2>1. ch[y][i] \in Cells /\ ch[y][i] \notin h.blocks  BY <1>1, ChainFields
  <2> QED BY <1>2, <1>6, <2>1
<1>8. RestKept(h, m2, ch, {})
  <2> SUFFICES ASSUME NEW c \in Cells, c \notin h.blocks, \A y \in h.blocks : ~OnChain(ch, y, c)
               PROVE  m2[c] = h.mem[c]
    BY DEF RestKept
  <2>1. m[c] = h.mem[c]  BY <1>1 DEF RestKept
  <2> QED BY <1>2, <1>6, <2>1
<1>9. ASSUME NEW y \in h.blocks PROVE m2[y] = IF y < z THEN h.mem[y] ELSE EntryIn(h, ch, h.used, y)
  <2>1. CASE y = x  BY <1>3, <1>6, <2>1
  <2>2. CASE y # x
    <3>1. m2[y] = m[y]  BY <1>6, <2>2, BlockIsCell
    <3>2. y < z <=> y < x  BY <1>2, <1>3, <2>2
    <3> QED BY <1>1, <3>1, <3>2
  <2> QED BY <2>1, <2>2
<1>10. SedimentScanned(h, m2, ch, z)
  BY <1>1, <1>3, <1>6, <1>7, <1>8, <1>9 DEF SedimentScanned
<1>11. BlkLn(m2, h.mem[x], x) = Length(h, x)
  <2>1. h.used \subseteq h.blocks  BY DEF Collectable
  <2> QED BY <1>1, <1>2, <1>8, <2>1, LengthKept
<1> QED BY <1>6, <1>10, <1>11 DEF m2, z

(* A free word may be written.                                              *)
LEMMA FreeWritten ==
  ASSUME NEW h, Collectable(h), NEW m, NEW ch, NEW x, NEW k, Passed(h, m, ch, x, k),
         NEW d \in Free(h, x), NEW v \in Nat
  PROVE  Passed(h, [m EXCEPT ![d] = v], ch, x, k)
<1> DEFINE m2 == [m EXCEPT ![d] = v]
<1>1. m \in [Cells -> Nat] /\ Chains(h, ch, h.used, {}) /\ x \in Places(h)
      /\ LinksHold(h, m, ch, k) /\ RestKept(h, m, ch, Free(h, x))
  BY DEF Passed
<1>2. m2 \in [Cells -> Nat] /\ \A c \in Cells : c # d => m2[c] = m[c]  BY <1>1
<1> HIDE DEF m2
<1>3. /\ x \in Nat /\ h.sed \in Nat
      /\ \A a \in LiveFields(h) : a # d
      /\ \A y \in h.blocks : y \in Nat /\ (y < h.sed \/ y \in h.used \/ ~ (y < x) => y # d)
  BY <1>1, NotFree, CollectionNumbers DEF Places
<1>4. LinksHold(h, m2, ch, k)
  <2> SUFFICES ASSUME NEW y \in h.blocks, NEW i \in 1 .. Len(ch[y])
               PROVE  m2[ch[y][i]] = m[ch[y][i]]
    BY <1>1 DEF LinksHold
  <2>1. ch[y][i] \in Cells /\ ch[y][i] \in LiveFields(h)  BY <1>1, ChainFields
  <2> QED BY <1>2, <1>3, <2>1
<1>5. RestKept(h, m2, ch, Free(h, x))
  <2> SUFFICES ASSUME NEW c \in Cells \ Free(h, x), c \notin h.blocks, \A y \in h.blocks : ~OnChain(ch, y, c)
               PROVE  m2[c] = h.mem[c]
    BY DEF RestKept
  <2>1. m[c] = h.mem[c]  BY <1>1 DEF RestKept
  <2> QED BY <1>2, <2>1
<1>6. ASSUME NEW y \in h.blocks
      PROVE  /\ x <= y => m2[y] = Link(ch[y], Len(ch[y]), h.mem[y])
             /\ y < x /\ (y < h.sed \/ y \in h.used) => m2[y] = h.mem[y]
  <2>1. /\ x <= y => m[y] = Link(ch[y], Len(ch[y]), h.mem[y])
        /\ y < x /\ (y < h.sed \/ y \in h.used) => m[y] = h.mem[y]
    BY DEF Passed
  <2>2. x <= y => ~ (y < x)  BY <1>3
  <2>3. x <= y \/ y < h.sed \/ y \in h.used => m2[y] = m[y]  BY <1>2, <1>3, <2>2, BlockIsCell
  <2> QED BY <2>1, <2>3
<1>7. Passed(h, m2, ch, x, k)  BY <1>1, <1>2, <1>4, <1>5, <1>6 DEF Passed
<1> QED BY <1>7 DEF m2

(* Past the sediment nothing above it is passed, and no run is begun.       *)
LEMMA SedimentEnds ==
  ASSUME NEW h, Collectable(h), NEW m, NEW ch, SedimentScanned(h, m, ch, h.sed)
  PROVE  Passed(h, m, ch, h.sed, LinksFrom(h, ch, h.sed))
<1> DEFINE k == LinksFrom(h, ch, h.sed)
<1>1. /\ m \in [Cells -> Nat] /\ Chains(h, ch, h.used, {})
      /\ LinksHold(h, m, ch, AllLinks(h, ch)) /\ RestKept(h, m, ch, {})
      /\ \A y \in h.blocks : m[y] = IF y < h.sed THEN h.mem[y] ELSE EntryIn(h, ch, h.used, y)
  BY DEF SedimentScanned
<1>2. h.sed \in Places(h) /\ h.sed \in Nat /\ \A y \in h.blocks : y \in Nat
  BY CollectionNumbers DEF Places, Collectable
<1>3. LinksHold(h, m, ch, k)
  <2> SUFFICES ASSUME NEW y \in h.blocks, NEW i \in 1 .. Len(ch[y]) PROVE k[y] = AllLinks(h, ch)[y]
    BY <1>1 DEF LinksHold
  <2>1. h.sed <= y
    <3> SUFFICES ASSUME y < h.sed PROVE FALSE  BY <1>2
    <3>1. ch[y] = <<>>  BY <1>1 DEF Chains
    <3>2. i \in 1 .. 0  BY <3>1
    <3> QED BY <3>2
  <2> QED BY <2>1 DEF LinksFrom, AllLinks
<1>4. RestKept(h, m, ch, Free(h, h.sed))  BY <1>1 DEF RestKept
<1>5. ASSUME NEW y \in h.blocks
      PROVE  /\ h.sed <= y => m[y] = Link(ch[y], Len(ch[y]), h.mem[y])
             /\ y < h.sed /\ (y < h.sed \/ y \in h.used) => m[y] = h.mem[y]
  <2>1. h.sed <= y => ~ (y < h.sed)  BY <1>2
  <2> QED BY <1>1, <2>1 DEF EntryIn
<1> QED BY <1>1, <1>2, <1>3, <1>4, <1>5 DEF Passed

(* The block at x is in use exactly when its entry word is even; if it is   *)
(* not, that is the word it had.                                            *)
LEMMA PassedEntry ==
  ASSUME NEW h, Collectable(h), NEW m, NEW ch, NEW x, NEW k, Passed(h, m, ch, x, k), x # h.top
  PROVE  /\ x \in h.blocks /\ m[x] = Link(ch[x], Len(ch[x]), h.mem[x])
         /\ Even(m[x]) <=> x \in h.used
         /\ x \notin h.used => m[x] = h.mem[x]
<1>1. Chains(h, ch, h.used, {}) /\ x \in Places(h)  BY DEF Passed
<1>2. x \in h.blocks /\ h.sed <= x /\ x \in Nat  BY <1>1, CollectionNumbers DEF Places
<1>3. m[x] = Link(ch[x], Len(ch[x]), h.mem[x])
  <2>1. x <= x  BY <1>2
  <2> QED BY <1>2, <2>1 DEF Passed
<1>4. x \in h.used <=> ch[x] # <<>>  BY <1>1, <1>2 DEF Chains
<1>5. ch[x] \in Seq(Cells)  BY <1>1, <1>2, ChainFields
<1>6. CASE ch[x] = <<>>
  <2>1. m[x] = h.mem[x]  BY <1>3, <1>6 DEF Link
  <2> QED BY <1>2, <1>3, <1>4, <1>6, <2>1, EntryIsOdd
<1>7. CASE ch[x] # <<>>
  <2>1. Len(ch[x]) \in 1 .. Len(ch[x])  BY <1>5, <1>7
  <2>2. m[x] = ch[x][Len(ch[x])]  BY <1>3, <2>1 DEF Link
  <2>3. Even(m[x])
    <3>1. \A i \in 1 .. Len(ch[x]) : Even(ch[x][i])  BY <1>1, <1>2, ChainFields
    <3> QED BY <2>1, <2>2, <3>1
  <2> QED BY <1>2, <1>3, <1>4, <1>7, <2>3
<1> QED BY <1>6, <1>7

(* With j links left in the chain of the block at x:                        *)
LinksLeft(h, ch, x, j) == [LinksFrom(h, ch, x) EXCEPT ![x] = j]

(* The next link is a field that gets the new address of the block.         *)
LEMMA ChainStep ==
  ASSUME NEW h, Collectable(h), NEW m, NEW ch, NEW x \in h.blocks, NEW j \in 1 .. Len(ch[x]),
         Passed(h, m, ch, x, LinksLeft(h, ch, x, j))
  PROVE  LET a == Link(ch[x], j, h.mem[x]) IN
         /\ a \in Cells /\ a \in LiveFields(h) /\ Even(a) /\ m[a] = Link(ch[x], j - 1, h.mem[x])
         /\ Passed(h, [m EXCEPT ![a] = To(h, x) + h.up], ch, x, LinksLeft(h, ch, x, j - 1))
<1> DEFINE a  == Link(ch[x], j, h.mem[x])
           v  == To(h, x) + h.up
           m2 == [m EXCEPT ![a] = v]
           k  == LinksLeft(h, ch, x, j)
           k2 == LinksLeft(h, ch, x, j - 1)
<1>1. m \in [Cells -> Nat] /\ Chains(h, ch, h.used, {}) /\ x \in Places(h)
      /\ LinksHold(h, m, ch, k) /\ RestKept(h, m, ch, Free(h, x))
  BY DEF Passed
<1>2. ch[x] \in Seq(Cells) /\ Len(ch[x]) \in Nat  BY <1>1, ChainFields
<1>3. a = ch[x][j]  BY <1>2 DEF Link
<1>4. /\ a \in Cells /\ a \in LiveFields(h) /\ Even(a) /\ a \notin h.blocks /\ h.mem[a] = x
  <2> HIDE DEF a
  <2> QED BY <1>1, <1>3, ChainFields
<1>5. v \in Nat  BY <1>1, ToBounds, CollectionNumbers
<1>6. m2 \in [Cells -> Nat] /\ m2[a] = v /\ \A c \in Cells : c # a => m2[c] = m[c]
  <2> HIDE DEF a, v
  <2> QED BY <1>1, <1>4, <1>5
<1>7. /\ k[x] = j /\ k2[x] = j - 1 /\ \A y \in h.blocks : y # x => k2[y] = k[y]
  BY DEF LinksLeft, LinksFrom
<1> HIDE DEF a, m2, k, k2
<1>8. m[a] = Link(ch[x], j - 1, h.mem[x])
  <2>1. j <= k[x]  BY <1>7
  <2> QED BY <1>1, <1>3, <2>1 DEF LinksHold
<1>9. ASSUME NEW y \in h.blocks, NEW i \in 1 .. Len(ch[y])
      PROVE  m2[ch[y][i]] = IF i <= k2[y] THEN Link(ch[y], i - 1, h.mem[y]) ELSE To(h, y) + h.up
  <2>1. ch[y][i] \in Cells /\ h.mem[ch[y][i]] = y
    <3>1. \A n \in 1 .. Len(ch[y]) : ch[y][n] \in Cells /\ h.mem[ch[y][n]] = y
      BY <1>1, ChainFields
    <3> QED BY <3>1
  <2>2. m[ch[y][i]] = IF i <= k[y] THEN Link(ch[y], i - 1, h.mem[y]) ELSE To(h, y) + h.up
    BY <1>1 DEF LinksHold
  <2>3. CASE y # x
    <3>1. m2[ch[y][i]] = m[ch[y][i]]  BY <1>4, <1>6, <2>1, <2>3
    <3> QED BY <1>7, <2>2, <2>3, <3>1
  <2>4. CASE y = x /\ i = j
    <3>1. m2[ch[y][i]] = To(h, y) + h.up  BY <1>3, <1>6, <2>4 DEF v
    <3>2. ~ (i <= k2[y])  BY <1>7, <2>4
    <3> QED BY <3>1, <3>2
  <2>5. CASE y = x /\ i # j
    <3>1. ch[x][i] # ch[x][j]  BY <1>1, <2>5 DEF Chains
    <3>2. m2[ch[y][i]] = m[ch[y][i]]  BY <1>3, <1>6, <2>1, <2>5, <3>1
    <3>3. i <= k2[y] <=> i <= k[y]
      <4>1. i \in Nat /\ j \in Nat /\ i # j  BY <1>2, <2>5
      <4> QED BY <1>7, <2>5, <4>1
    <3> QED BY <2>2, <3>2, <3>3
  <2> QED BY <2>3, <2>4, <2>5
<1>10. RestKept(h, m2, ch, Free(h, x))
  <2> SUFFICES ASSUME NEW c \in Cells \ Free(h, x), c \notin h.blocks, \A y \in h.blocks : ~OnChain(ch, y, c)
               PROVE  m2[c] = h.mem[c]
    BY DEF RestKept
  <2>1. m[c] = h.mem[c]  BY <1>1 DEF RestKept
  <2>2. c # a  BY <1>3 DEF OnChain
  <2> QED BY <1>6, <2>1, <2>2
<1>11. ASSUME NEW y \in h.blocks
       PROVE  /\ x <= y => m2[y] = Link(ch[y], Len(ch[y]), h.mem[y])
              /\ y < x /\ (y < h.sed \/ y \in h.used) => m2[y] = h.mem[y]
  <2>1. m2[y] = m[y]  BY <1>4, <1>6, BlockIsCell
  <2> QED BY <2>1 DEF Passed
<1>12. Passed(h, m2, ch, x, k2)
  <2>1. LinksHold(h, m2, ch, k2)  BY <1>9 DEF LinksHold
  <2> QED BY <1>1, <1>6, <1>10, <1>11, <2>1 DEF Passed
<1>13. /\ a \in Cells /\ a \in LiveFields(h) /\ Even(a) /\ m[a] = Link(ch[x], j - 1, h.mem[x])
       /\ Passed(h, m2, ch, x, k2)
  BY <1>4, <1>8, <1>12
<1> QED BY <1>13 DEF a, m2, k2, v

(* The block at x is passed, and has the words that its length needs.       *)
LEMMA PassedOn ==
  ASSUME NEW h, Collectable(h), NEW m, NEW ch, NEW x \in h.blocks, NEW k, Passed(h, m, ch, x, k),
         k = LinksLeft(h, ch, x, 0) \/ (k = LinksFrom(h, ch, x) /\ x \notin h.used),
         NEW m2, m2 = [m EXCEPT ![x] = h.mem[x]]
  PROVE  /\ BlkLn(m2, h.mem[x], x) = Length(h, x)
         /\ Passed(h, m2, ch, x + Length(h, x), LinksFrom(h, ch, x + Length(h, x)))
<1> DEFINE z  == x + Length(h, x)
           k2 == LinksFrom(h, ch, z)
<1>1. m \in [Cells -> Nat] /\ Chains(h, ch, h.used, {}) /\ x \in Places(h)
      /\ LinksHold(h, m, ch, k) /\ RestKept(h, m, ch, Free(h, x)) /\ h.used \subseteq h.blocks
  BY DEF Passed, Collectable
<1>2. /\ z \in h.blocks \cup {h.top} /\ z \in Nat /\ x \in Nat /\ x < z /\ Length(h, x) \in Nat
      /\ h.sed \in Nat /\ h.sed <= x
      /\ \A y \in h.blocks : y \in Nat /\ (x < y => z <= y)
  BY <1>1, CollectionNumbers DEF Places
<1>3. z \in Places(h)  BY <1>2 DEF Places
<1>4. x \in Cells /\ h.mem[x] \in Nat  BY BlockIsCell, EntryIsOdd
<1>5. m2 \in [Cells -> Nat] /\ m2[x] = h.mem[x] /\ \A c \in Cells : c # x => m2[c] = m[c]
  BY <1>1, <1>4
<1>6. /\ ~ (z <= x) /\ \A y \in h.blocks : y # x => (z <= y <=> x <= y)
  BY <1>2
<1> HIDE DEF z
<1>7. \A y \in h.blocks : y # x => k2[y] = k[y]
  BY <1>6 DEF LinksFrom, LinksLeft
<1>8. k2[x] = 0  BY <1>6 DEF LinksFrom
<1>9. k[x] = 0 \/ ch[x] = <<>>
  <2>1. CASE k = LinksLeft(h, ch, x, 0)  BY <2>1 DEF LinksLeft, LinksFrom
  <2>2. CASE x \notin h.used  BY <1>1, <1>2, <2>2 DEF Chains
  <2> QED BY <2>1, <2>2
<1> HIDE DEF k2
<1>10. LinksHold(h, m2, ch, k2)
  <2> SUFFICES ASSUME NEW y \in h.blocks, NEW i \in 1 .. Len(ch[y])
               PROVE  m2[ch[y][i]] = IF i <= k2[y] THEN Link(ch[y], i - 1, h.mem[y]) ELSE To(h, y) + h.up
    BY DEF LinksHold
  <2>1. ch[y][i] \in Cells /\ ch[y][i] \notin h.blocks  BY <1>1, ChainFields
  <2>2. m2[ch[y][i]] = m[ch[y][i]]  BY <1>5, <2>1
  <2>3. m[ch[y][i]] = IF i <= k[y] THEN Link(ch[y], i - 1, h.mem[y]) ELSE To(h, y) + h.up
    BY <1>1 DEF LinksHold
  <2>4. k2[y] = k[y]
    <3>1. CASE y # x  BY <1>7, <3>1
    <3>2. CASE y = x
      <4>1. ch[x] # <<>>
        <5> SUFFICES ASSUME ch[x] = <<>> PROVE FALSE  OBVIOUS
        <5>1. i \in 1 .. 0  BY <3>2
        <5> QED BY <5>1
      <4> QED BY <1>8, <1>9, <3>2, <4>1
    <3> QED BY <3>1, <3>2
  <2> QED BY <2>2, <2>3, <2>4
<1>11. Free(h, x) \subseteq Free(h, z)  BY <1>1, <1>2, <1>3, FreeCells
<1>12. RestKept(h, m2, ch, Free(h, z))
  <2> SUFFICES ASSUME NEW c \in Cells \ Free(h, z), c \notin h.blocks, \A y \in h.blocks : ~OnChain(ch, y, c)
               PROVE  m2[c] = h.mem[c]
    BY DEF RestKept
  <2>1. m[c] = h.mem[c]  BY <1>1, <1>11 DEF RestKept
  <2> QED BY <1>5, <2>1
<1>13. ASSUME NEW y \in h.blocks
       PROVE  /\ z <= y => m2[y] = Link(ch[y], Len(ch[y]), h.mem[y])
              /\ y < z /\ (y < h.sed \/ y \in h.used) => m2[y] = h.mem[y]
  <2>1. CASE y = x  BY <1>5, <1>6, <2>1
  <2>2. CASE y # x
    <3>1. m2[y] = m[y]  BY <1>5, <2>2, BlockIsCell
    <3>2. (z <= y <=> x <= y) /\ (y < z => y < x)  BY <1>2, <1>6, <2>2
    <3>3. /\ x <= y => m[y] = Link(ch[y], Len(ch[y]), h.mem[y])
          /\ y < x /\ (y < h.sed \/ y \in h.used) => m[y] = h.mem[y]
      BY DEF Passed
    <3> QED BY <3>1, <3>2, <3>3
  <2> QED BY <2>1, <2>2
<1>14. Passed(h, m2, ch, z, k2)  BY <1>1, <1>3, <1>5, <1>10, <1>12, <1>13 DEF Passed
<1>15. BlkLn(m2, h.mem[x], x) = Length(h, x)
  <2>1. x + W \notin Free(h, x)
    <3> SUFFICES ASSUME x + W < x PROVE FALSE  BY <1>1, FreeCells
    <3> QED BY <1>2, WordBytes
  <2>2. RestKept(h, m2, ch, Free(h, x))
    <3> SUFFICES ASSUME NEW c \in Cells \ Free(h, x), c \notin h.blocks, \A y \in h.blocks : ~OnChain(ch, y, c)
                 PROVE  m2[c] = h.mem[c]
      BY DEF RestKept
    <3>1. m[c] = h.mem[c]  BY <1>1 DEF RestKept
    <3> QED BY <1>5, <3>1
  <2> QED BY <1>1, <2>1, <2>2, LengthKept
<1> QED BY <1>14, <1>15 DEF z, k2

-----------------------------------------------------------------------------
(* Pass two: the runs.                                                      *)

(* The runs and the place x depend on memory through free words only.       *)
LEMMA RunsKept ==
  ASSUME NEW h, Collectable(h), NEW m, NEW R, NEW x \in Places(h), NEW open, Runs(h, m, R, x, open),
         NEW m2, \A a \in Free(h, x) : m2[a] = m[a],
         NEW z \in Places(h), x <= z
  PROVE  Runs(h, m2, R, z, open)
<1>1. R \in Seq([at : Nat, from : Nat, to : Nat]) /\ R # <<>>  BY DEF Runs
<1>2. x \in Nat /\ z \in Nat /\ \A p \in Places(h) : p \in Nat  BY CollectionNumbers DEF Places
<1>3. Free(h, x) \subseteq Free(h, z)  BY FreeCells
<1>4. ASSUME NEW i \in 1 .. Len(R) PROVE Run(h, m2, R, z, open, i)
  <2>1. Run(h, m, R, x, open, i)  BY DEF Runs
  <2>2. /\ R[i].from \in Places(h) /\ R[i].to \in Places(h) /\ R[i].from <= R[i].to /\ R[i].to <= x
        /\ R[i].at = (IF i = 1 THEN GbcNm ELSE R[i].from - 2 * W) /\ (i = 1 => R[i].from = h.sed)
        /\ R[i].at \in Free(h, x) /\ R[i].at + W \in Free(h, x)
        /\ m[R[i].at] = (IF i = Len(R) THEN 0 ELSE R[i + 1].at)
        /\ m[R[i].at + W] = (IF i = Len(R) /\ open THEN R[i].from ELSE R[i].to - R[i].from)
    BY <2>1 DEF Run
  <2>3. R[i].to <= z
    <3>1. R[i].to \in Nat /\ R[i].to <= x  BY <1>2, <2>2
    <3> QED BY <1>2, <3>1
  <2>4. m2[R[i].at] = m[R[i].at] /\ m2[R[i].at + W] = m[R[i].at + W]  BY <2>2
  <2> QED BY <1>3, <2>1, <2>2, <2>3, <2>4 DEF Run
<1> QED BY <1>1, <1>4 DEF Runs

(* Numbers of the runs.                                                     *)
LEMMA RunNumbers ==
  ASSUME NEW h, Collectable(h), NEW m, NEW R, NEW x \in Places(h), NEW open, Runs(h, m, R, x, open)
  PROVE  /\ Len(R) \in Nat /\ Len(R) >= 1 /\ Len(R) \in 1 .. Len(R)
         /\ \A i \in 1 .. Len(R) :
              /\ R[i].from \in Nat /\ R[i].to \in Nat /\ R[i].at \in Nat
              /\ Aligned(R[i].from) /\ Aligned(R[i].to) /\ h.sed <= R[i].from /\ R[i].from <= R[i].to
              /\ R[i].at \in Cells /\ R[i].at + W \in Cells
              /\ i = 1 => R[i].at = GbcNm
              /\ i # 1 => R[i].at = R[i].from - 2 * W /\ h.sed <= R[i].at
<1>1. R \in Seq([at : Nat, from : Nat, to : Nat]) /\ R # <<>>  BY DEF Runs
<1>2. Len(R) \in Nat /\ Len(R) >= 1 /\ Len(R) \in 1 .. Len(R)  BY <1>1
<1>3. \A p \in Places(h) : p \in Nat /\ Aligned(p) /\ h.sed <= p  BY CollectionNumbers DEF Places
<1>4. h.sed \in Nat  BY CollectionNumbers
<1>5. ASSUME NEW i \in 1 .. Len(R)
      PROVE  /\ R[i].from \in Nat /\ R[i].to \in Nat /\ R[i].at \in Nat
             /\ Aligned(R[i].from) /\ Aligned(R[i].to) /\ h.sed <= R[i].from /\ R[i].from <= R[i].to
             /\ R[i].at \in Cells /\ R[i].at + W \in Cells
             /\ i = 1 => R[i].at = GbcNm
             /\ i # 1 => R[i].at = R[i].from - 2 * W /\ h.sed <= R[i].at
  <2>1. Run(h, m, R, x, open, i)  BY DEF Runs
  <2>2. R[i].from \in Places(h) /\ R[i].to \in Places(h) /\ R[i].from <= R[i].to
        /\ R[i].at = (IF i = 1 THEN GbcNm ELSE R[i].from - 2 * W)
        /\ R[i].at \in Free(h, x) /\ R[i].at + W \in Free(h, x)
    BY <2>1 DEF Run
  <2>3. R[i].at \in Cells /\ R[i].at + W \in Cells /\ R[i].at \in Nat
    BY <2>2, FreeCells, CellsAligned
  <2>4. ASSUME i # 1 PROVE h.sed <= R[i].at
    <3>1. 1 \in 1 .. Len(R) /\ 1 < i  BY <1>2, <2>4
    <3>2. Run(h, m, R, x, open, 1)  BY <3>1 DEF Runs
    <3>3. R[1].to + 2 * W <= R[i].from /\ R[1].to \in Places(h)  BY <3>1, <3>2 DEF Run
    <3>4. R[1].to \in Nat /\ h.sed <= R[1].to /\ R[i].from \in Nat  BY <1>3, <2>2, <3>3
    <3>5. R[1].to <= R[i].from - 2 * W  BY <3>3, <3>4, WordBytes
    <3> QED BY <1>4, <2>2, <2>3, <2>4, <3>4, <3>5
  <2> QED BY <1>3, <2>2, <2>3, <2>4
<1> QED BY <1>2, <1>5

(* The descriptors do not overlap.                                          *)
LEMMA DescriptorsApart ==
  ASSUME NEW h, Collectable(h), NEW m, NEW R, NEW x \in Places(h), NEW open, Runs(h, m, R, x, open),
         NEW i \in 1 .. Len(R), NEW j \in 1 .. Len(R), i < j
  PROVE  /\ R[i].at + 2 * W <= R[j].at /\ R[i].to <= R[j].at
         /\ R[i].to <= R[j].from
<1>1. Run(h, m, R, x, open, i)  BY DEF Runs
<1>2. R[i].to + 2 * W <= R[j].from  BY <1>1 DEF Run
<1>3. /\ R[i].from \in Nat /\ R[i].to \in Nat /\ R[i].at \in Nat /\ R[j].from \in Nat /\ R[j].at \in Nat
      /\ R[i].from <= R[i].to /\ h.sed <= R[i].from
      /\ i = 1 => R[i].at = GbcNm
      /\ i # 1 => R[i].at = R[i].from - 2 * W
      /\ j # 1 => R[j].at = R[j].from - 2 * W
  BY RunNumbers
<1>4. j # 1  BY <1>1
<1>5. R[i].to <= R[j].at /\ R[i].to <= R[j].from
  <2> DEFINE a == R[j].at
             f == R[j].from
             t == R[i].to
  <2>1. W \in Nat /\ a \in Nat /\ f \in Nat /\ t \in Nat /\ t + 2 * W <= f /\ a = f - 2 * W
    BY <1>2, <1>3, <1>4, WordBytes
  <2> HIDE DEF a, f, t
  <2>2. t <= a /\ t <= f  BY <2>1
  <2> QED BY <2>2 DEF a, f, t
<1>6. R[i].at + 2 * W <= R[i].to
  <2>1. CASE i = 1
    <3>1. GbcNs < h.bottom /\ h.bottom <= h.sed /\ h.sed \in Nat /\ h.bottom \in Nat /\ Aligned(h.bottom)
      BY CollectionNumbers DEF Collectable, IsHeap
    <3>2. GbcNs \in Cells /\ GbcNs = GbcNm + W /\ GbcNs \in Nat /\ GbcNm \in Nat  BY HeadCells
    <3>3. GbcNs + W <= h.bottom  BY <3>1, <3>2, CellsAligned, AlignedArithmetic
    <3> DEFINE a == R[i].at
               f == R[i].from
               t == R[i].to
    <3>4. W \in Nat /\ f \in Nat /\ t \in Nat /\ f <= t /\ h.sed <= f /\ a = GbcNm
      BY <1>3, <2>1, WordBytes
    <3> HIDE DEF a, f, t
    <3>5. a + 2 * W <= t  BY <3>1, <3>2, <3>3, <3>4
    <3> QED BY <3>5 DEF a, t
  <2>2. CASE i # 1  BY <1>3, <2>2, WordBytes
  <2> QED BY <2>1, <2>2
<1> QED BY <1>3, <1>5, <1>6, WordBytes

(* The first run begins at the end of the sediment, with no block in it.    *)
FirstRun(h) == <<[at |-> GbcNm, from |-> h.sed, to |-> h.sed]>>

LEMMA RunsBegin ==
  ASSUME NEW h, Collectable(h), NEW m, m[GbcNm] = 0, m[GbcNs] = h.sed
  PROVE  Runs(h, m, FirstRun(h), h.sed, TRUE)
<1> DEFINE R == FirstRun(h)
           r == [at |-> GbcNm, from |-> h.sed, to |-> h.sed]
<1>1. h.sed \in Places(h) /\ h.sed \in Nat /\ \A y \in h.blocks : y \in Nat
  BY CollectionNumbers DEF Places, Collectable
<1>2. GbcNm \in Nat /\ GbcNs = GbcNm + W /\ GbcNm \in Free(h, h.sed) /\ GbcNs \in Free(h, h.sed)
  BY HeadCells DEF Free
<1>3. r \in [at : Nat, from : Nat, to : Nat]  BY <1>1, <1>2
<1>4. R \in Seq([at : Nat, from : Nat, to : Nat]) /\ R # <<>> /\ Len(R) = 1 /\ R[1] = r
  BY <1>3 DEF FirstRun
<1>5. R[1].at = GbcNm /\ R[1].from = h.sed /\ R[1].to = h.sed  BY <1>4
<1> HIDE DEF R
<1>6. \A y \in h.blocks : ~ (h.sed <= y /\ y < h.sed)  BY <1>1
<1>7. 1 = Len(R) /\ \A j \in 1 .. Len(R) : ~ (1 < j)  BY <1>4
<1>8. Run(h, m, R, h.sed, TRUE, 1)  BY <1>1, <1>2, <1>5, <1>6, <1>7 DEF Run
<1>9. \A i \in 1 .. Len(R) : i = 1  BY <1>4
<1>10. Runs(h, m, R, h.sed, TRUE)  BY <1>4, <1>8, <1>9 DEF Runs
<1> QED BY <1>10 DEF R

(* The block in use at the end of the last run becomes part of it.          *)
Longer(R, z) == [R EXCEPT ![Len(R)] = [at |-> R[Len(R)].at, from |-> R[Len(R)].from, to |-> z]]

GrowsTo(h, R, m, z, Q) ==
  Runs(h, m, Q, z, TRUE) /\ Len(Q) = Len(R) /\ Q[Len(R)].to = z /\ Q[Len(R)].at = R[Len(R)].at

LEMMA RunGrows ==
  ASSUME NEW h, Collectable(h), NEW m, NEW R, NEW x \in h.blocks, x \in h.used, h.sed <= x,
         Runs(h, m, R, x, TRUE), R[Len(R)].to = x,
         NEW m2, \A a \in Free(h, x) : m2[a] = m[a]
  PROVE  GrowsTo(h, R, m2, x + Length(h, x), Longer(R, x + Length(h, x)))
<1> DEFINE z == x + Length(h, x)
           n == Len(R)
           Q == Longer(R, z)
<1>1. /\ z \in h.blocks \cup {h.top} /\ z \in Nat /\ x \in Nat /\ x < z /\ h.sed \in Nat
      /\ \A y \in h.blocks : y \in Nat /\ (x < y => z <= y)
  BY CollectionNumbers
<1>2. x \in Places(h) /\ z \in Places(h) /\ x <= z  BY <1>1 DEF Places
<1> HIDE DEF z
<1>3. Runs(h, m2, R, z, TRUE)  BY <1>2, RunsKept
<1>4. /\ n \in Nat /\ n \in 1 .. n
      /\ \A i \in 1 .. n : R[i].from \in Nat /\ R[i].to \in Nat /\ R[i].at \in Nat /\ R[i].from <= R[i].to
  BY <1>2, <1>3, RunNumbers
<1>5. R \in Seq([at : Nat, from : Nat, to : Nat])  BY <1>3 DEF Runs
<1>6. /\ Q \in Seq([at : Nat, from : Nat, to : Nat]) /\ Len(Q) = n /\ Q # <<>>
      /\ \A i \in 1 .. n : i # n => Q[i] = R[i]
      /\ Q[n] = [at |-> R[n].at, from |-> R[n].from, to |-> z]
  <2> DEFINE S == [at : Nat, from : Nat, to : Nat]
             r == [at |-> R[n].at, from |-> R[n].from, to |-> z]
  <2>1. r \in S /\ R \in Seq(S)  BY <1>1, <1>4, <1>5
  <2>2. Q = [R EXCEPT ![n] = r]  BY DEF Longer
  <2> HIDE DEF S, r, Q
  <2>3. Q \in Seq(S) /\ Len(Q) = n /\ Q # <<>> /\ Q[n] = r /\ \A i \in 1 .. n : i # n => Q[i] = R[i]
    BY <1>4, <2>1, <2>2
  <2> QED BY <2>3 DEF S, r
<1>7. \A i \in 1 .. n : Q[i].from = R[i].from /\ Q[i].at = R[i].at /\ (i # n => Q[i].to = R[i].to)
  BY <1>6
<1>8. Q[n].to = z  BY <1>6
<1> HIDE DEF Q, n
<1>9. ASSUME NEW i \in 1 .. n PROVE Run(h, m2, Q, z, TRUE, i)
  <2>0. Run(h, m2, R, z, TRUE, i)  BY <1>3 DEF Runs, n
  <2>1. i # n => i + 1 \in 1 .. n  BY <1>4
  <2>2. CASE i # n
    <3>1. Q[i].to = R[i].to /\ Q[i].from = R[i].from /\ Q[i].at = R[i].at
          /\ Q[i + 1].from = R[i + 1].from /\ Q[i + 1].at = R[i + 1].at
          /\ \A j \in 1 .. n : Q[j].from = R[j].from
      BY <1>7, <2>1, <2>2
    <3>2. Len(Q) = n /\ Len(R) = n  BY <1>6 DEF n
    <3> QED BY <2>0, <3>1, <3>2 DEF Run
  <2>3. CASE i = n
    <3>1. Q[i].to = z /\ Q[i].from = R[i].from /\ Q[i].at = R[i].at /\ R[i].to = x
          /\ \A j \in 1 .. n : Q[j].from = R[j].from
      BY <1>7, <1>8, <2>3 DEF n
    <3>2. Len(Q) = n /\ Len(R) = n  BY <1>6 DEF n
    <3>3. \A y \in h.blocks : R[i].from <= y /\ y < z => y \in h.used
      <4> SUFFICES ASSUME NEW y \in h.blocks, R[i].from <= y, y < z PROVE y \in h.used
        OBVIOUS
      <4>1. y = x \/ y < x  BY <1>1
      <4>2. CASE y < x  BY <2>0, <3>1, <4>2 DEF Run
      <4> QED BY <4>1, <4>2
    <3>4. R[i].from <= z /\ z <= z
      <4>1. R[i].from \in Nat /\ R[i].from <= x  BY <1>4, <3>1
      <4> QED BY <1>1, <4>1
    <3>5. \A j \in 1 .. n : ~ (i < j)  BY <1>4, <2>3
    <3>6. /\ R[i].from \in Places(h)
          /\ R[i].at = (IF i = 1 THEN GbcNm ELSE R[i].from - 2 * W) /\ (i = 1 => R[i].from = h.sed)
          /\ R[i].at \in Free(h, z) /\ R[i].at + W \in Free(h, z)
          /\ m2[R[i].at] = (IF i = n THEN 0 ELSE R[i + 1].at)
          /\ m2[R[i].at + W] = (IF i = n /\ TRUE THEN R[i].from ELSE R[i].to - R[i].from)
      BY <2>0, <3>2 DEF Run
    <3> QED BY <1>2, <2>3, <3>1, <3>2, <3>3, <3>4, <3>5, <3>6 DEF Run
  <2> QED BY <2>2, <2>3
<1>10. Runs(h, m2, Q, z, TRUE)  BY <1>6, <1>9 DEF Runs
<1>11. Len(Q) = Len(R) /\ Q[Len(R)].to = z /\ Q[Len(R)].at = R[Len(R)].at
  BY <1>4, <1>6, <1>7, <1>8 DEF n
<1>12. GrowsTo(h, R, m2, z, Q)  BY <1>10, <1>11 DEF GrowsTo
<1> QED BY <1>12 DEF Q, z

(* Its descriptor gets its length instead of its start.                     *)
Closed(m, r) == [m EXCEPT ![r.at + W] = r.to - r.from]

ClosesTo(h, m, R, x, r, m2) ==
  /\ m[r.at + W] = r.from /\ r.at + W \in Free(h, x) /\ r.to - r.from \in Nat
  /\ Runs(h, m2, R, x, FALSE)

LEMMA RunCloses ==
  ASSUME NEW h, Collectable(h), NEW m \in [Cells -> Nat], NEW R, NEW x \in Places(h), Runs(h, m, R, x, TRUE)
  PROVE  ClosesTo(h, m, R, x, R[Len(R)], Closed(m, R[Len(R)]))
<1> SUFFICES ASSUME NEW r, r = R[Len(R)], NEW m2, m2 = [m EXCEPT ![r.at + W] = r.to - r.from]
             PROVE  ClosesTo(h, m, R, x, r, m2)
  BY Zenon DEF Closed
<1> DEFINE n == Len(R)
<1>1. /\ n \in Nat /\ n \in 1 .. n /\ r.from \in Nat /\ r.to \in Nat /\ r.from <= r.to
      /\ \A i \in 1 .. n : R[i].at \in Cells /\ R[i].at + W \in Cells /\ R[i].at \in Nat
  BY RunNumbers
<1>2. r.to - r.from \in Nat /\ R \in Seq([at : Nat, from : Nat, to : Nat]) /\ R # <<>>  BY <1>1 DEF Runs
<1>3. m[r.at + W] = r.from /\ r.at + W \in Free(h, x)
  <2>1. Run(h, m, R, x, TRUE, n)  BY <1>1 DEF Runs
  <2> QED BY <2>1 DEF Run
<1>4. /\ m2[r.at + W] = r.to - r.from
      /\ \A c \in Cells : c # r.at + W => m2[c] = m[c]
  BY <1>1
<1> HIDE DEF n
<1>5. ASSUME NEW i \in 1 .. n PROVE Run(h, m2, R, x, FALSE, i)
  <2>1. Run(h, m, R, x, TRUE, i) /\ n = Len(R)  BY DEF Runs, n
  <2>2. R[i].at # r.at + W /\ (i # n => R[i].at + W # r.at + W)
    <3>1. CASE i = n  BY <1>1, <3>1, WordBytes DEF n
    <3>2. CASE i # n
      <4>1. i < n /\ i \in 1 .. Len(R) /\ n \in 1 .. Len(R)  BY <1>1, <3>2 DEF n
      <4>2. R[i].at + 2 * W <= r.at /\ r.at \in Nat /\ R[i].at \in Nat
        <5>1. R[i].at + 2 * W <= R[n].at  BY <4>1, DescriptorsApart
        <5> QED BY <1>1, <5>1 DEF n
      <4> DEFINE a == R[i].at
                 c == r.at
      <4>3. W \in Nat /\ W >= 2 /\ a \in Nat /\ c \in Nat /\ a + 2 * W <= c  BY <4>2, WordBytes
      <4> HIDE DEF a, c
      <4>4. a # c + W /\ a + W # c + W  BY <4>3
      <4> QED BY <4>4 DEF a, c
    <3> QED BY <3>1, <3>2
  <2>3. m2[R[i].at] = m[R[i].at] /\ (i # n => m2[R[i].at + W] = m[R[i].at + W])
    BY <1>1, <1>4, <2>2
  <2>4. i = n => m2[R[i].at + W] = R[i].to - R[i].from  BY <1>4 DEF n
  <2> QED BY <2>1, <2>3, <2>4 DEF Run
<1>6. Runs(h, m2, R, x, FALSE)  BY <1>2, <1>5 DEF Runs, n
<1> QED BY <1>2, <1>3, <1>6 DEF ClosesTo

(* A descriptor lies before its run.                                        *)
LEMMA DescriptorBefore ==
  ASSUME NEW h, Collectable(h), NEW m, NEW R, NEW x \in Places(h), NEW open, Runs(h, m, R, x, open),
         NEW i \in 1 .. Len(R)
  PROVE  R[i].at + 2 * W <= R[i].from
<1>1. /\ R[i].from \in Nat /\ R[i].at \in Nat /\ h.sed <= R[i].from
      /\ i = 1 => R[i].at = GbcNm
      /\ i # 1 => R[i].at = R[i].from - 2 * W
  BY RunNumbers
<1>2. CASE i = 1
  <2>1. GbcNs < h.bottom /\ h.bottom <= h.sed /\ h.sed \in Nat /\ h.bottom \in Nat /\ Aligned(h.bottom)
    BY CollectionNumbers DEF Collectable, IsHeap
  <2>2. GbcNs \in Cells /\ GbcNs = GbcNm + W /\ GbcNs \in Nat /\ GbcNm \in Nat  BY HeadCells
  <2>3. GbcNs + W <= h.bottom  BY <2>1, <2>2, CellsAligned, AlignedArithmetic
  <2> DEFINE a == R[i].at
             f == R[i].from
  <2>4. W \in Nat /\ W >= 2 /\ f \in Nat /\ h.sed <= f /\ a = GbcNm  BY <1>1, <1>2, WordBytes
  <2> HIDE DEF a, f
  <2>5. a + 2 * W <= f  BY <2>1, <2>2, <2>3, <2>4
  <2> QED BY <2>5 DEF a, f
<1>3. CASE i # 1
  <2> DEFINE a == R[i].at
             f == R[i].from
  <2>1. W \in Nat /\ f \in Nat /\ a = f - 2 * W  BY <1>1, <1>3, WordBytes
  <2> HIDE DEF a, f
  <2>2. a + 2 * W <= f  BY <2>1
  <2> QED BY <2>2 DEF a, f
<1> QED BY <1>2, <1>3

(* The first block in use after some that are not begins a run: the two     *)
(* words before it are its descriptor, and the one of the last run links to *)
(* it.                                                                      *)
Opened(m, r, d, x) == [m EXCEPT ![r.at] = d, ![d] = 0, ![x - W] = x]

OpensTo(h, R, x, r, d, m2) ==
  /\ r.at \in Free(h, x) /\ d \in Free(h, x) /\ x - W \in Free(h, x) /\ d \in Nat /\ x \in Nat
  /\ \E Q : /\ Runs(h, m2, Q, x, TRUE)
            /\ Q[Len(Q)].at = d /\ Q[Len(Q)].to = x

LEMMA RunOpens ==
  ASSUME NEW h, Collectable(h), NEW m \in [Cells -> Nat], NEW R, NEW x \in Places(h), Runs(h, m, R, x, FALSE),
         R[Len(R)].to + 2 * W <= x,
         \A y \in h.blocks : R[Len(R)].to <= y /\ y < x => y \notin h.used
  PROVE  OpensTo(h, R, x, R[Len(R)], x - 2 * W, Opened(m, R[Len(R)], x - 2 * W, x))
<1> SUFFICES ASSUME NEW r, r = R[Len(R)], NEW d, d = x - 2 * W,
                    NEW m2, m2 = [m EXCEPT ![r.at] = d, ![d] = 0, ![x - W] = x],
                    NEW Q, Q = Append(R, [at |-> d, from |-> x, to |-> x])
             PROVE  OpensTo(h, R, x, r, d, m2)
  BY Zenon DEF Opened
<1>r. r.to + 2 * W <= x /\ \A y \in h.blocks : r.to <= y /\ y < x => y \notin h.used
  BY Zenon
<1> DEFINE n == Len(R)
           q == [at |-> d, from |-> x, to |-> x]
           S == [at : Nat, from : Nat, to : Nat]
<1>1. /\ n \in Nat /\ n \in 1 .. n /\ r.from \in Nat /\ r.to \in Nat /\ r.from <= r.to /\ h.sed <= r.from
      /\ r.at \in Nat /\ r.at \in Cells
      /\ \A i \in 1 .. n : /\ R[i].at \in Cells /\ R[i].at + W \in Cells /\ R[i].at \in Nat
                           /\ R[i].from \in Nat /\ R[i].to \in Nat /\ R[i].from <= R[i].to
  BY RunNumbers
<1>2. /\ x \in Nat /\ Aligned(x) /\ h.sed \in Nat /\ x # h.sed /\ h.sed <= x
  <2>1. x \in Nat /\ Aligned(x) /\ h.sed \in Nat  BY CollectionNumbers DEF Places
  <2> DEFINE t == r.to
             f == r.from
  <2>2. t \in Nat /\ f \in Nat /\ f <= t /\ h.sed <= f /\ t + 2 * W <= x  BY <1>1, <1>r
  <2>3. W \in Nat /\ W >= 2  BY WordBytes
  <2> HIDE DEF t, f
  <2>4. x # h.sed /\ h.sed <= x  BY <2>1, <2>2, <2>3
  <2> QED BY <2>1, <2>4
<1>3. d \in Nat /\ d + W = x - W /\ x - W \in Nat /\ Aligned(d) /\ Aligned(x - W) /\ r.to <= d
  <2>1. 2 * W <= x /\ W <= x  BY <1>1, <1>2, WordBytes
  <2>2. Aligned(2 * W) /\ Aligned(W)  BY AlignedArithmetic
  <2>3. Aligned(x - 2 * W) /\ Aligned(x - W)  BY <1>2, <2>1, <2>2, AlignedArithmetic
  <2> DEFINE t == r.to
  <2>4. t \in Nat /\ t + 2 * W <= x /\ x \in Nat /\ d = x - 2 * W  BY <1>1, <1>2
  <2>5. W \in Nat /\ W >= 2  BY WordBytes
  <2> HIDE DEF t
  <2>6. d \in Nat /\ d + W = x - W /\ x - W \in Nat /\ t <= d  BY <2>4, <2>5
  <2> QED BY <2>3, <2>4, <2>6 DEF t
<1>4. PICK y \in h.blocks : /\ y + Length(h, y) = x /\ y \in Places(h) /\ y < x
                            /\ y \in Nat /\ Length(h, y) \in Nat
  BY <1>2, PlaceBefore
<1>5. r.to \in Places(h) /\ r.at \in Free(h, x)
  <2>1. Run(h, m, R, x, FALSE, n)  BY <1>1 DEF Runs
  <2> QED BY <2>1 DEF Run
<1>6. y \notin h.used /\ h.sed <= y
  <2>1. ~ (y < r.to)
    <3> SUFFICES ASSUME y < r.to PROVE FALSE  OBVIOUS
    <3>1. r.to \in h.blocks \cup {h.top}  BY <1>5 DEF Places
    <3>2. y + Length(h, y) <= r.to  BY <3>1, CollectionNumbers
    <3> QED BY <1>1, <1>2, <1>4, <3>2, WordBytes
  <2>2. r.to <= y  BY <1>1, <1>4, <2>1
  <2> QED BY <1>4, <2>2 DEF Places
<1>7. d \in Free(h, x) /\ x - W \in Free(h, x) /\ d \in Cells /\ x - W \in Cells
  <2>1. Length(h, y) >= 2 * W  BY CollectionNumbers
  <2>2. Within(h.mem, d, y) /\ Within(h.mem, x - W, y)
    <3> DEFINE l == Length(h, y)
    <3>1. W \in Nat /\ W >= 2  BY WordBytes
    <3>2. y \in Nat /\ l \in Nat /\ l >= 2 * W /\ y + l = x /\ d = x - 2 * W  BY <1>4, <2>1
    <3> HIDE DEF l
    <3>3. y <= d /\ d < y + l /\ y <= x - W /\ x - W < y + l  BY <3>1, <3>2
    <3> QED BY <3>3 DEF Within, Length, l
  <2>3. d \in Cells /\ x - W \in Cells  BY <1>3, <2>2, BlockCells
  <2> QED BY <1>4, <1>6, <2>2, <2>3 DEF Free
<1>8. /\ Q \in Seq(S) /\ Len(Q) = n + 1 /\ Q[n + 1] = q /\ \A i \in 1 .. n : Q[i] = R[i]
  <2>1. q \in S /\ R \in Seq(S)  BY <1>2, <1>3 DEF Runs
  <2>2. Q = Append(R, q)  OBVIOUS
  <2> HIDE DEF q, S
  <2> QED BY <2>1, <2>2
<1>9. \A i \in 1 .. n : R[i].at + 2 * W <= d /\ R[i].to <= d /\ (i # n => R[i].at + 2 * W <= r.at)
  <2> SUFFICES ASSUME NEW i \in 1 .. n
               PROVE  R[i].at + 2 * W <= d /\ R[i].to <= d /\ (i # n => R[i].at + 2 * W <= r.at)
    OBVIOUS
  <2>1. R[i].at + 2 * W <= R[i].from  BY DescriptorBefore
  <2>2. CASE i = n
    <3>1. R[i] = r  BY <2>2
    <3>2. r.at + 2 * W <= r.from  BY <2>1, <3>1, Zenon
    <3>3. r.at + 2 * W <= d  BY <1>1, <1>3, <3>2, WordBytes
    <3> QED BY <1>3, <2>2, <3>1, <3>3, Zenon
  <2>3. CASE i # n
    <3>1. i < n  BY <1>1, <2>3
    <3>2. R[i].at + 2 * W <= R[n].at /\ R[i].to <= R[n].from  BY <1>1, <3>1, DescriptorsApart
    <3>3. R[i].at + 2 * W <= r.at /\ R[i].to <= r.from  BY <3>2
    <3>4. R[i].at \in Nat /\ R[i].from \in Nat /\ R[i].to \in Nat /\ R[i].from <= R[i].to  BY <1>1
    <3> DEFINE a == R[i].at
               f == R[i].from
               t == R[i].to
    <3>5. a \in Nat /\ f \in Nat /\ t \in Nat /\ f <= t /\ a + 2 * W <= f /\ t <= r.from
          /\ a + 2 * W <= r.at
      BY <2>1, <3>3, <3>4
    <3> HIDE DEF a, f, t
    <3>6. a + 2 * W <= d /\ t <= d
      <4> DEFINE u == r.from
                 v == r.to
      <4>1. W \in Nat /\ W >= 2  BY WordBytes
      <4>2. u \in Nat /\ v \in Nat /\ u <= v /\ v <= d /\ d \in Nat  BY <1>1, <1>3
      <4>3. a \in Nat /\ t \in Nat /\ f \in Nat /\ f <= t /\ a + 2 * W <= f /\ t <= u  BY <3>5
      <4> HIDE DEF u, v
      <4> QED BY <4>1, <4>2, <4>3
    <3> QED BY <3>3, <3>6 DEF a, t
  <2> QED BY <2>2, <2>3
<1>10. /\ m2[r.at] = d /\ m2[d] = 0 /\ m2[d + W] = x
       /\ \A c \in Cells : c # r.at /\ c # d /\ c # d + W => m2[c] = m[c]
  <2>1. r.at # d /\ r.at # x - W /\ d # x - W
    <3>1. r.at + 2 * W <= d  BY <1>1, <1>9
    <3> QED BY <1>1, <1>3, <3>1, WordBytes
  <2> QED BY <1>1, <1>3, <1>7, <2>1
<1>q. q.at = d /\ q.from = x /\ q.to = x /\ R[n] = r  OBVIOUS
<1> HIDE DEF n, q, S
<1>11. ASSUME NEW i \in 1 .. n PROVE Run(h, m2, Q, x, TRUE, i)
  <2>1. Run(h, m, R, x, FALSE, i) /\ n = Len(R) /\ Len(Q) = n + 1  BY <1>8 DEF Runs, n
  <2>2. i # n + 1 /\ Q[i] = R[i]  BY <1>1, <1>8
  <2>3. /\ R[i].at # d /\ R[i].at # d + W /\ R[i].at + W # r.at /\ R[i].at + W # d /\ R[i].at + W # d + W
        /\ (i # n => R[i].at # r.at)
    <3>1. R[i].at + 2 * W <= d /\ (i # n => R[i].at + 2 * W <= r.at) /\ R[i].at \in Nat  BY <1>1, <1>9
    <3> DEFINE a == R[i].at
    <3>3. a + 2 * W <= d /\ (i # n => a + 2 * W <= r.at) /\ a \in Nat /\ (i = n => a = r.at)
      BY <1>q, <3>1
    <3> HIDE DEF a
    <3>4. a # d /\ a # d + W /\ a + W # d /\ a + W # d + W  BY <1>3, <3>3, WordBytes
    <3>5. a + W # r.at
      <4>1. CASE i = n  BY <1>1, <3>3, <4>1, WordBytes
      <4>2. CASE i # n  BY <1>1, <3>3, <4>2, WordBytes
      <4> QED BY <4>1, <4>2
    <3>6. i # n => a # r.at  BY <1>1, <3>3, WordBytes
    <3> QED BY <3>4, <3>5, <3>6 DEF a
  <2>4. m2[R[i].at + W] = m[R[i].at + W] /\ (i # n => m2[R[i].at] = m[R[i].at])
    BY <1>1, <1>10, <2>3
  <2>5. m2[R[i].at] = Q[i + 1].at
    <3>1. CASE i = n
      <4>1. Q[i + 1] = q /\ R[i] = r  BY <1>8, <1>q, <3>1
      <4> QED BY <1>10, <1>q, <4>1, Zenon
    <3>2. CASE i # n
      <4>1. i + 1 \in 1 .. n  BY <1>1, <3>2
      <4>2. m[R[i].at] = R[i + 1].at  BY <2>1, <3>2 DEF Run
      <4> QED BY <1>8, <2>4, <3>2, <4>1, <4>2
    <3> QED BY <3>1, <3>2
  <2>6. m2[R[i].at + W] = R[i].to - R[i].from  BY <2>1, <2>4 DEF Run
  <2>7. \A y2 \in h.blocks : R[i].to <= y2 /\ y2 < Q[i + 1].from => y2 \notin h.used
    <3>1. CASE i = n
      <4>1. Q[i + 1].from = x /\ R[i].to = r.to
        <5>1. Q[i + 1] = q /\ R[i] = r  BY <1>8, <1>q, <3>1
        <5> QED BY <1>q, <5>1, Zenon
      <4> QED BY <4>1
    <3>2. CASE i # n
      <4>1. i + 1 \in 1 .. n  BY <1>1, <3>2
      <4>2. Q[i + 1] = R[i + 1]  BY <1>8, <4>1
      <4> QED BY <2>1, <3>2, <4>2 DEF Run
    <3> QED BY <3>1, <3>2
  <2>8. ASSUME NEW j \in 1 .. n + 1, i < j PROVE R[i].to + 2 * W <= Q[j].from
    <3>1. CASE j = n + 1
      <4>1. Q[j].from = x  BY <1>8, <1>q, <3>1
      <4>2. R[i].to <= d /\ R[i].to \in Nat  BY <1>1, <1>9
      <4>3. \A t \in Nat : t <= d => t + 2 * W <= x  BY <1>2, <1>3, WordBytes
      <4> QED BY <4>1, <4>2, <4>3
    <3>2. CASE j # n + 1
      <4>1. j \in 1 .. n  BY <1>1, <3>2
      <4> QED BY <1>8, <2>1, <2>8, <4>1 DEF Run
    <3> QED BY <3>1, <3>2
  <2> QED BY <2>1, <2>2, <2>5, <2>6, <2>7, <2>8 DEF Run
<1>12. Run(h, m2, Q, x, TRUE, n + 1)
  <2>1. /\ Q[n + 1].at = d /\ Q[n + 1].from = x /\ Q[n + 1].to = x /\ n + 1 # 1 /\ Len(Q) = n + 1
    BY <1>1, <1>8 DEF q
  <2>2. x <= x /\ \A j \in 1 .. n + 1 : ~ (n + 1 < j)  BY <1>1, <1>2
  <2>3. \A y2 \in h.blocks : ~ (x <= y2 /\ y2 < x)
    <3>1. \A y2 \in h.blocks : y2 \in Nat  BY CollectionNumbers
    <3> QED BY <1>2, <3>1
  <2>4. d + W \in Free(h, x)  BY <1>3, <1>7
  <2> QED BY <1>7, <1>10, <2>1, <2>2, <2>3, <2>4 DEF Run
<1>13. Runs(h, m2, Q, x, TRUE)
  <2>1. Q # <<>>  BY <1>1, <1>8
  <2>2. \A i \in 1 .. Len(Q) : i \in 1 .. n \/ i = n + 1  BY <1>1, <1>8
  <2> QED BY <1>8, <1>11, <1>12, <2>1, <2>2 DEF Runs, S
<1>14. Q[Len(Q)].at = d /\ Q[Len(Q)].to = x  BY <1>8, <1>q
<1> QED BY <1>2, <1>3, <1>5, <1>7, <1>13, <1>14, Zenon DEF OpensTo

-----------------------------------------------------------------------------
(* Pass three: the runs are moved.                                          *)

(* Blocks in use that follow one another go to places that do.              *)
LEMMA RunTo ==
  ASSUME NEW h, Collectable(h), NEW y \in Places(h), NEW z \in Places(h), y <= z,
         \A x \in h.blocks : y <= x /\ x < z => x \in h.used
  PROVE  To(h, z) = To(h, y) + (z - y)
<1> DEFINE Between(v) == \A x \in h.blocks : y <= x /\ x < v => x \in h.used
           Bad == {v \in Places(h) : y <= v /\ Between(v) /\ ~ (To(h, v) = To(h, y) + (v - y))}
<1> SUFFICES ASSUME Bad # {} PROVE FALSE  OBVIOUS
<1>1. /\ Places(h) \subseteq Nat /\ \A v \in Places(h) : To(h, v) \in Nat
      /\ \A v \in h.blocks : v \in Nat
  BY CollectionNumbers, ToBounds DEF Places
<1>2. PICK v \in Bad : \A u \in Bad : v <= u
  <2>1. Bad \in SUBSET Nat  BY <1>1
  <2> HIDE DEF Bad
  <2> QED BY <2>1, LeastNumber
<1>3. v \in Places(h) /\ y <= v /\ Between(v) /\ ~ (To(h, v) = To(h, y) + (v - y)) /\ v \in Nat /\ y \in Nat
  BY <1>1, <1>2
<1>4. y # v
  <2> SUFFICES ASSUME y = v PROVE FALSE  OBVIOUS
  <2>1. To(h, v) \in Nat /\ To(h, v) = To(h, y)  BY <1>1, <1>3
  <2> HIDE DEF Bad, Between
  <2> QED BY <1>3, <2>1
<1>5. v # h.sed
  <2>1. h.sed <= y /\ h.sed \in Nat  BY CollectionNumbers DEF Places
  <2> QED BY <1>3, <1>4, <2>1
<1>6. PICK x \in h.blocks : /\ x + Length(h, x) = v /\ x \in Places(h) /\ x < v
                            /\ x \in Nat /\ Length(h, x) \in Nat
  BY <1>3, <1>5, PlaceBefore
<1>7. y <= x
  <2> SUFFICES ASSUME x < y PROVE FALSE  BY <1>3, <1>6
  <2>1. y \in h.blocks \cup {h.top}  BY DEF Places
  <2>2. x + Length(h, x) <= y  BY <2>1, CollectionNumbers
  <2> QED BY <1>3, <1>4, <1>6, <2>2
<1>8. x \in h.used /\ Between(x)
  <2>1. x \in h.used  BY <1>3, <1>6, <1>7
  <2>2. \A u \in h.blocks : u < x => u < v  BY <1>1, <1>3, <1>6
  <2> QED BY <1>3, <2>1, <2>2
<1>9. To(h, x) = To(h, y) + (x - y)
  <2>1. x \notin Bad  BY <1>2, <1>3, <1>6
  <2> QED BY <1>6, <1>7, <1>8, <2>1
<1>10. To(h, v) = To(h, x) + Length(h, x)
  <2>1. h.sed <= x  BY <1>6 DEF Places
  <2> QED BY <1>6, <1>8, <2>1, ToStep
<1>11. To(h, y) \in Nat /\ To(h, x) \in Nat  BY <1>1, <1>6
<1> HIDE DEF Bad, Between
<1> QED BY <1>3, <1>6, <1>9, <1>10, <1>11

(* What is free between them makes no difference.                           *)
LEMMA GapTo ==
  ASSUME NEW h, Collectable(h), NEW y \in Places(h), NEW z \in Places(h), y <= z,
         \A x \in h.blocks : y <= x /\ x < z => x \notin h.used
  PROVE  To(h, z) = To(h, y)
<1>1. y \in Nat /\ z \in Nat /\ h.used \subseteq h.blocks /\ \A v \in h.blocks : v \in Nat
  BY CollectionNumbers DEF Places, Collectable
<1>2. UsedBelow(h, z) = UsedBelow(h, y)
  <2>1. \A v \in h.used : v < z <=> v < y  BY <1>1
  <2> QED BY <2>1 DEF UsedBelow
<1> QED BY <1>2 DEF To

(* At the end of pass two every word that is not free is what it is to be.  *)
LEMMA WordsSettled ==
  ASSUME NEW h, Collectable(h), NEW m, NEW ch, Passed(h, m, ch, h.top, LinksFrom(h, ch, h.top)),
         NEW a \in Cells, a \notin Free(h, h.top)
  PROVE  m[a] = NewAt(h, a)
<1>1. /\ h.used \subseteq h.blocks /\ h.top \in Nat /\ h.sed \in Nat /\ h.bottom \in Nat /\ h.up \in Nat
      /\ \A y \in h.blocks : y \in Nat /\ y < h.top /\ ~ (h.top <= y) /\ h.bottom <= y /\ ~ (y = 0)
                             /\ Length(h, y) \in Nat /\ y < y + Length(h, y)
  <2>1. \A y \in h.blocks : y \in Nat /\ y < h.top /\ h.bottom <= y /\ ~ (y = 0)
                            /\ Length(h, y) \in Nat /\ y < y + Length(h, y)
    BY CollectionNumbers
  <2>2. h.top \in Nat /\ h.sed \in Nat /\ h.bottom \in Nat /\ h.up \in Nat  BY CollectionNumbers
  <2>3. \A y \in h.blocks : ~ (h.top <= y)  BY <2>1, <2>2
  <2> QED BY <2>1, <2>2, <2>3 DEF Collectable
<1>2. Chains(h, ch, h.used, {}) /\ LinksHold(h, m, ch, LinksFrom(h, ch, h.top))
      /\ RestKept(h, m, ch, Free(h, h.top))
  BY DEF Passed
<1>3. CASE a \in h.blocks
  <2>1. a < h.sed \/ a \in h.used
    <3> SUFFICES ASSUME ~ (a < h.sed), a \notin h.used PROVE FALSE  OBVIOUS
    <3>1. h.sed <= a  BY <1>1, <1>3
    <3>2. Within(h.mem, a, a)  BY <1>1, <1>3 DEF Within, Length
    <3>3. a \in Free(h, h.top)  BY <1>1, <1>3, <3>1, <3>2 DEF Free
    <3> QED BY <3>3
  <2>2. m[a] = h.mem[a]  BY <1>1, <1>3, <2>1 DEF Passed
  <2>3. a \notin LiveFields(h)  BY <1>1, <1>3, FieldPlaces DEF LiveFields
  <2> QED BY <2>2, <2>3 DEF NewAt
<1>4. CASE \E x \in h.blocks : OnChain(ch, x, a)
  <2>1. PICK x \in h.blocks : OnChain(ch, x, a)  BY <1>4
  <2>2. PICK i \in 1 .. Len(ch[x]) : ch[x][i] = a  BY <2>1 DEF OnChain
  <2>3. a \in LiveFields(h) /\ h.mem[a] = x
    <3>1. h.used \subseteq h.used /\ Chains(h, ch, h.used, {})  BY <1>2
    <3>2. \A j \in 1 .. Len(ch[x]) : ch[x][j] \in LiveFields(h) /\ h.mem[ch[x][j]] = x
      BY <3>1, ChainFields
    <3> QED BY <2>2, <3>2
  <2>4. ch[x] # <<>>  BY <2>2
  <2>5. h.sed <= x /\ x \in h.used /\ ~ (x < h.sed)
    <3>1. ~ (x < h.sed)  BY <1>2, <2>4 DEF Chains
    <3>2. h.sed <= x  BY <1>1, <3>1
    <3>3. x \in h.used  BY <1>2, <2>4, <3>2 DEF Chains
    <3> QED BY <3>1, <3>2, <3>3
  <2>6. m[a] = To(h, x) + h.up
    <3>1. LinksFrom(h, ch, h.top)[x] = 0  BY <1>1 DEF LinksFrom
    <3>2. ~ (i <= 0)  OBVIOUS
    <3> QED BY <1>2, <2>2, <3>1, <3>2 DEF LinksHold
  <2> QED BY <2>3, <2>5, <2>6 DEF NewAt, NewValue, Newly
<1>5. CASE a \notin h.blocks /\ \A x \in h.blocks : ~OnChain(ch, x, a)
  <2>1. m[a] = h.mem[a]  BY <1>2, <1>5 DEF RestKept
  <2>2. CASE a \notin LiveFields(h)  BY <2>1, <2>2 DEF NewAt
  <2>3. CASE a \in LiveFields(h) /\ h.mem[a] \notin h.used
    BY <2>1, <2>3 DEF NewAt, NewValue
  <2>4. CASE a \in LiveFields(h) /\ h.mem[a] \in h.used
    <3>1. h.mem[a] \in h.blocks /\ h.mem[a] \in Nat  BY <1>1, <2>4
    <3>2. ~ (h.sed <= h.mem[a])
      <4>1. a \in FieldsOf(h, h.used) \ {}  BY <2>4 DEF LiveFields
      <4>2. h.sed <= h.mem[a] => OnChain(ch, h.mem[a], a)  BY <1>2, <3>1, <4>1 DEF Chains
      <4> QED BY <1>5, <3>1, <4>2
    <3>3. h.mem[a] < h.sed /\ h.bottom # h.sed  BY <1>1, <3>1, <3>2
    <3>4. h.up = 0  BY <3>3 DEF Collectable
    <3>5. Newly(h, h.mem[a]) = h.mem[a]  BY <3>1, <3>3, <3>4 DEF Newly
    <3> QED BY <2>1, <2>4, <3>5 DEF NewAt, NewValue
  <2> QED BY <2>2, <2>3, <2>4
<1> QED BY <1>3, <1>4, <1>5

(* The runs when pass two is done, in the memory m0: above the last of them *)
(* there is no block in use.                                                *)
RunsSettled(h, m0, R) ==
  /\ Runs(h, m0, R, h.top, FALSE)
  /\ \A y \in h.blocks : R[Len(R)].to <= y => y \notin h.used

(* Where the runs, what follows them and their blocks go.                   *)
LEMMA RunsMap ==
  ASSUME NEW h, Collectable(h), NEW m0, NEW R, RunsSettled(h, m0, R), NEW i \in 1 .. Len(R)
  PROVE  /\ R[i].from \in Places(h) /\ R[i].to \in Places(h) /\ h.top \in Places(h)
         /\ To(h, R[i].to) = To(h, R[i].from) + (R[i].to - R[i].from)
         /\ i # Len(R) => To(h, R[i + 1].from) = To(h, R[i].to)
         /\ i = Len(R) => To(h, h.top) = To(h, R[i].to)
         /\ \A x \in h.blocks : R[i].from <= x /\ x < R[i].to =>
              x \in Places(h) /\ To(h, x) = To(h, R[i].from) + (x - R[i].from)
<1>1. h.top \in Places(h)
  <2>1. h.sed <= h.top  BY CollectionNumbers
  <2> QED BY <2>1 DEF Places
<1>2. Runs(h, m0, R, h.top, FALSE)  BY DEF RunsSettled
<1>3. /\ Len(R) \in Nat /\ R[i].from \in Nat /\ R[i].to \in Nat /\ R[i].from <= R[i].to /\ h.sed <= R[i].from
      /\ h.sed \in Nat /\ \A x \in h.blocks : x \in Nat /\ x < h.top
  <2>1. /\ Len(R) \in Nat /\ R[i].from \in Nat /\ R[i].to \in Nat /\ R[i].from <= R[i].to /\ h.sed <= R[i].from
    BY <1>1, <1>2, RunNumbers
  <2> QED BY <2>1, CollectionNumbers
<1>4. Run(h, m0, R, h.top, FALSE, i)  BY <1>2 DEF Runs
<1>5. R[i].from \in Places(h) /\ R[i].to \in Places(h)  BY <1>4 DEF Run
<1>6. \A x \in h.blocks : R[i].from <= x /\ x < R[i].to => x \in h.used  BY <1>4 DEF Run
<1>7. To(h, R[i].to) = To(h, R[i].from) + (R[i].to - R[i].from)  BY <1>3, <1>5, <1>6, RunTo
<1>8. ASSUME i # Len(R) PROVE To(h, R[i + 1].from) = To(h, R[i].to)
  <2>1. i + 1 \in 1 .. Len(R) /\ i < i + 1  BY <1>3, <1>8
  <2>2. R[i + 1].from \in Places(h)  BY <1>2, <2>1 DEF Runs, Run
  <2>3. R[i].to <= R[i + 1].from  BY <1>1, <1>2, <2>1, DescriptorsApart
  <2>4. \A x \in h.blocks : R[i].to <= x /\ x < R[i + 1].from => x \notin h.used  BY <1>4, <1>8 DEF Run
  <2> QED BY <1>5, <2>2, <2>3, <2>4, GapTo
<1>9. ASSUME i = Len(R) PROVE To(h, h.top) = To(h, R[i].to)
  <2>1. \A x \in h.blocks : R[i].to <= x /\ x < h.top => x \notin h.used  BY <1>9 DEF RunsSettled
  <2>2. R[i].to <= h.top  BY <1>4 DEF Run
  <2> QED BY <1>1, <1>5, <2>1, <2>2, GapTo
<1>10. ASSUME NEW x \in h.blocks, R[i].from <= x, x < R[i].to
       PROVE  x \in Places(h) /\ To(h, x) = To(h, R[i].from) + (x - R[i].from)
  <2>1. x \in Places(h)
    <3>1. \A f \in Nat : h.sed <= f /\ f <= x => h.sed <= x  BY <1>3
    <3>2. h.sed <= x  BY <1>3, <1>10, <3>1
    <3> QED BY <3>2 DEF Places
  <2>2. \A y \in h.blocks : R[i].from <= y /\ y < x => y \in h.used
    <3>1. \A y \in h.blocks, t \in Nat : y < x /\ x < t => y < t  BY <1>3
    <3> QED BY <1>3, <1>6, <1>10, <3>1
  <2> QED BY <1>5, <1>10, <2>1, <2>2, RunTo
<1> QED BY <1>1, <1>5, <1>7, <1>8, <1>9, <1>10

(* The words of a run are not free.                                         *)
LEMMA RunNotFree ==
  ASSUME NEW h, Collectable(h), NEW m0, NEW R, RunsSettled(h, m0, R), NEW i \in 1 .. Len(R),
         NEW a \in Nat, R[i].from <= a, a < R[i].to
  PROVE  a \notin Free(h, h.top) /\ h.sed <= a
<1> DEFINE f == R[i].from
           t == R[i].to
<1>1. f \in Places(h) /\ t \in Places(h) /\ \A x \in h.blocks : f <= x /\ x < t => x \in h.used
  BY DEF RunsSettled, Runs, Run
<1>2. f \in Nat /\ t \in Nat /\ h.sed \in Nat /\ h.sed <= f /\ h.bottom \in Nat /\ h.bottom <= h.sed
  BY <1>1, CollectionNumbers DEF Places
<1>3. f <= a /\ a < t  OBVIOUS
<1> HIDE DEF f, t
<1>4. h.sed <= a /\ h.bottom <= a  BY <1>2, <1>3
<1>5. a \notin {GbcNm, GbcNs}
  <2>1. GbcNm < h.bottom /\ GbcNs < h.bottom  BY DEF Collectable
  <2> QED BY <1>2, <1>4, <2>1, HeadCells
<1>6. ASSUME NEW y \in h.blocks, y \notin h.used, Within(h.mem, a, y) PROVE FALSE
  <2>1. y \in Nat /\ Length(h, y) \in Nat  BY CollectionNumbers
  <2>2. y <= a /\ a < y + Length(h, y)  BY <1>6 DEF Within, Length
  <2>3. y < t  BY <1>2, <1>3, <2>1, <2>2
  <2>4. y < f  BY <1>1, <1>2, <1>6, <2>1, <2>3
  <2>5. y + Length(h, y) <= f
    <3>1. f \in h.blocks \cup {h.top}  BY <1>1 DEF Places
    <3> QED BY <2>4, <3>1, CollectionNumbers
  <2> QED BY <1>2, <1>3, <2>1, <2>2, <2>5
<1>7. a \notin Free(h, h.top)  BY <1>5, <1>6 DEF Free
<1> QED BY <1>4, <1>7

(* The first k runs are moved, and at is past the last of them.             *)
RunsLeft(h, m, R, k) ==
  \A i \in k + 1 .. Len(R) :
    /\ m[R[i].at] = (IF i = Len(R) THEN 0 ELSE R[i + 1].at)
    /\ m[R[i].at + W] = R[i].to - R[i].from
    /\ \A a \in Cells : R[i].from <= a /\ a < R[i].to => m[a] = NewAt(h, a)

InPlace(h, m) == \A a \in Cells : a < h.sed /\ a \notin {GbcNm, GbcNs} => m[a] = NewAt(h, a)

BlocksMoved(h, m, z) ==
  \A x \in h.used : h.sed <= x /\ x < z =>
    \A a \in Cells : Within(h.mem, a, x) => m[(a - x) + To(h, x)] = NewAt(h, a)

Moving(h, m0, m, R, k, at) ==
  /\ RunsSettled(h, m0, R) /\ m \in [Cells -> Nat] /\ k \in 1 .. Len(R) /\ at = To(h, R[k].to)
  /\ m[GbcNm] = (IF k = Len(R) THEN 0 ELSE R[k + 1].at)
  /\ RunsLeft(h, m, R, k) /\ InPlace(h, m) /\ BlocksMoved(h, m, R[k].to)

(* The first run is in its place.                                           *)
LEMMA MovingBegins ==
  ASSUME NEW h, Collectable(h), NEW m, NEW ch, Passed(h, m, ch, h.top, LinksFrom(h, ch, h.top)),
         NEW R, RunsSettled(h, m, R)
  PROVE  h.sed + m[GbcNs] \in Nat /\ Moving(h, m, m, R, 1, h.sed + m[GbcNs])
<1>1. h.top \in Places(h) /\ Runs(h, m, R, h.top, FALSE)
  <2>1. h.sed <= h.top  BY CollectionNumbers
  <2> QED BY <2>1 DEF Places, RunsSettled
<1>2. /\ Len(R) \in Nat /\ 1 \in 1 .. Len(R) /\ R[1].at = GbcNm /\ R[1].from \in Nat /\ R[1].to \in Nat
      /\ R[1].from <= R[1].to
  <2>1. Len(R) \in Nat /\ Len(R) >= 1  BY <1>1, RunNumbers
  <2>2. 1 \in 1 .. Len(R)  BY <2>1
  <2>3. \A i \in 1 .. Len(R) : R[i].from \in Nat /\ R[i].to \in Nat /\ R[i].from <= R[i].to
    BY <1>1, RunNumbers
  <2>4. Run(h, m, R, h.top, FALSE, 1)  BY <1>1, <2>2 DEF Runs
  <2>5. R[1].at = GbcNm  BY <2>4 DEF Run
  <2> QED BY <2>1, <2>2, <2>3, <2>5
<1>3. Run(h, m, R, h.top, FALSE, 1)  BY <1>1, <1>2 DEF Runs
<1>4. R[1].from = h.sed /\ m[GbcNs] = R[1].to - R[1].from /\ m[GbcNm] = (IF 1 = Len(R) THEN 0 ELSE R[1 + 1].at)
  BY <1>2, <1>3, HeadCells DEF Run
<1>5. h.sed \in Nat  BY CollectionNumbers
<1>6. h.sed + m[GbcNs] = R[1].to /\ To(h, R[1].to) = R[1].to
  <2> DEFINE f == R[1].from
             t == R[1].to
  <2>1. To(h, t) = To(h, f) + (t - f)  BY <1>2, RunsMap
  <2>2. To(h, f) = f  BY <1>4, ToSediment
  <2>3. f \in Nat /\ t \in Nat /\ m[GbcNs] = t - f /\ h.sed = f  BY <1>2, <1>4
  <2> HIDE DEF f, t
  <2>4. h.sed + m[GbcNs] = t /\ To(h, t) = t  BY <1>5, <2>1, <2>2, <2>3
  <2> QED BY <2>4 DEF t
<1>7. RunsLeft(h, m, R, 1)
  <2> SUFFICES ASSUME NEW i \in 2 .. Len(R)
               PROVE  /\ m[R[i].at] = (IF i = Len(R) THEN 0 ELSE R[i + 1].at)
                      /\ m[R[i].at + W] = R[i].to - R[i].from
                      /\ \A a \in Cells : R[i].from <= a /\ a < R[i].to => m[a] = NewAt(h, a)
    BY <1>2 DEF RunsLeft
  <2>1. i \in 1 .. Len(R)  BY <1>2
  <2>2. Run(h, m, R, h.top, FALSE, i)  BY <1>1, <2>1 DEF Runs
  <2>3. m[R[i].at] = (IF i = Len(R) THEN 0 ELSE R[i + 1].at) /\ m[R[i].at + W] = R[i].to - R[i].from
    BY <2>2 DEF Run
  <2>4. ASSUME NEW a \in Cells, R[i].from <= a, a < R[i].to PROVE m[a] = NewAt(h, a)
    <3>1. a \in Nat  BY CellsAligned
    <3>2. a \notin Free(h, h.top)  BY <2>1, <2>4, <3>1, RunNotFree
    <3> QED BY <3>2, WordsSettled
  <2> QED BY <2>3, <2>4
<1>8. InPlace(h, m)
  <2> SUFFICES ASSUME NEW a \in Cells, a < h.sed, a \notin {GbcNm, GbcNs} PROVE m[a] = NewAt(h, a)
    BY DEF InPlace
  <2>1. a \notin Free(h, h.top)
    <3> SUFFICES ASSUME a \in Free(h, h.top) PROVE FALSE  OBVIOUS
    <3>1. PICK y \in h.blocks : h.sed <= y /\ Within(h.mem, a, y)  BY DEF Free
    <3>2. y <= a /\ y \in Nat /\ a \in Nat  BY <3>1, CellsAligned, CollectionNumbers DEF Within
    <3> QED BY <1>5, <3>1, <3>2
  <2> QED BY <2>1, WordsSettled
<1>9. BlocksMoved(h, m, R[1].to)
  <2> SUFFICES ASSUME NEW x \in h.used, h.sed <= x, x < R[1].to, NEW a \in Cells, Within(h.mem, a, x)
               PROVE  m[(a - x) + To(h, x)] = NewAt(h, a)
    BY DEF BlocksMoved
  <2>1. x \in h.blocks  BY DEF Collectable
  <2>2. To(h, x) = x
    <3>1. To(h, x) = To(h, R[1].from) + (x - R[1].from)  BY <1>2, <1>4, <2>1, RunsMap
    <3>2. To(h, R[1].from) = h.sed  BY <1>4, ToSediment
    <3>3. x \in Nat  BY <2>1, CollectionNumbers
    <3>4. To(h, x) = h.sed + (x - h.sed)  BY <1>4, <3>1, <3>2
    <3> QED BY <1>5, <3>3, <3>4
  <2>3. x \in Nat /\ a \in Nat /\ Length(h, x) \in Nat  BY <2>1, CellsAligned, CollectionNumbers
  <2>4. (a - x) + To(h, x) = a  BY <2>2, <2>3
  <2>5. a < R[1].to
    <3>1. R[1].to \in h.blocks \cup {h.top}
      <4>1. R[1].to \in Places(h)  BY <1>3 DEF Run
      <4> QED BY <4>1 DEF Places
    <3>2. x + Length(h, x) <= R[1].to  BY <2>1, <3>1, CollectionNumbers
    <3>3. x <= a /\ a < x + Length(h, x)  BY DEF Within, Length
    <3>4. \A t \in Nat : x + Length(h, x) <= t => a < t  BY <2>3, <3>3
    <3> QED BY <1>2, <3>2, <3>4
  <2>6. R[1].from <= a
    <3>1. x <= a  BY DEF Within
    <3>2. h.sed <= a  BY <1>5, <2>3, <3>1
    <3> QED BY <1>4, <3>2
  <2>7. a \notin Free(h, h.top)  BY <1>2, <2>3, <2>5, <2>6, RunNotFree
  <2>8. m[a] = NewAt(h, a)  BY <2>7, WordsSettled
  <2> QED BY <2>4, <2>8
<1>10. m \in [Cells -> Nat]  BY DEF Passed
<1> QED BY <1>2, <1>4, <1>6, <1>7, <1>8, <1>9, <1>10 DEF Moving

(* One run is moved: where it goes and where it is.                         *)
OneMoved(h, m, R, k, at, d, m2) ==
  LET f == R[k + 1].from
      t == R[k + 1].to
      n == m[d + W]
  IN  /\ f \in Nat /\ t \in Nat /\ at \in Nat /\ f <= t /\ h.sed <= at /\ at <= f /\ Aligned(at) /\ Aligned(f)
      /\ d = R[k + 1].at /\ d + 2 * W = f /\ ~ (d = 0) /\ d \in Cells /\ d + W \in Cells
      /\ n = t - f /\ n \in Nat /\ at + n = To(h, t) /\ at = To(h, f) /\ at + n <= t
      /\ \A a \in Cells :
           m2[a] = IF at <= a /\ a < at + n THEN m[(a - at) + f]
                   ELSE IF a = GbcNm THEN m[d] ELSE m[a]
      /\ m2 \in [Cells -> Nat]

LEMMA MoveOne ==
  ASSUME NEW h, Collectable(h), NEW m0, NEW m, NEW R, NEW k, NEW at, Moving(h, m0, m, R, k, at),
         k # Len(R), NEW d, d = m[GbcNm],
         NEW m2, m2 = Moved([m EXCEPT ![GbcNm] = m[d]], d + 2 * W, at, m[d + W])
  PROVE  OneMoved(h, m, R, k, at, d, m2)
<1> DEFINE f == R[k + 1].from
           t == R[k + 1].to
           n == m[d + W]
<1>1. h.top \in Places(h) /\ Runs(h, m0, R, h.top, FALSE) /\ RunsSettled(h, m0, R) /\ k \in 1 .. Len(R)
  <2>1. h.sed <= h.top  BY CollectionNumbers
  <2> QED BY <2>1 DEF Places, Moving, RunsSettled
<1>2. Len(R) \in Nat /\ k + 1 \in 1 .. Len(R) /\ k + 1 # 1
  <2>1. Len(R) \in Nat  BY <1>1, RunNumbers
  <2> QED BY <1>1, <2>1
<1>3. /\ f \in Nat /\ t \in Nat /\ Aligned(f) /\ Aligned(t) /\ f <= t /\ h.sed <= f
      /\ R[k + 1].at \in Nat /\ R[k + 1].at \in Cells /\ R[k + 1].at + W \in Cells
      /\ R[k + 1].at = f - 2 * W /\ h.sed <= R[k + 1].at
  <2> DEFINE i == k + 1
  <2>1. i \in 1 .. Len(R) /\ i # 1  BY <1>2
  <2> HIDE DEF i
  <2>2. /\ R[i].from \in Nat /\ R[i].to \in Nat /\ R[i].at \in Nat
        /\ Aligned(R[i].from) /\ Aligned(R[i].to) /\ h.sed <= R[i].from /\ R[i].from <= R[i].to
        /\ R[i].at \in Cells /\ R[i].at + W \in Cells
    BY <1>1, <2>1, RunNumbers
  <2>3. R[i].at = R[i].from - 2 * W /\ h.sed <= R[i].at
    BY <1>1, <2>1, RunNumbers
  <2> QED BY <2>2, <2>3 DEF i
<1>4. h.sed \in Nat /\ h.bottom \in Nat /\ h.bottom <= h.sed /\ 0 < h.bottom /\ h.top \in Nat /\ h.up \in Nat
  BY CollectionNumbers
<1>5. d = R[k + 1].at /\ m \in [Cells -> Nat] /\ at = To(h, R[k].to)  BY DEF Moving
<1>6. d \in Nat /\ d + 2 * W = f /\ ~ (d = 0)
  <2>1. d \in Nat /\ d = f - 2 * W /\ h.sed <= d  BY <1>3, <1>5
  <2> DEFINE s == h.sed
             b == h.bottom
  <2>2. f \in Nat /\ s \in Nat /\ b \in Nat /\ b <= s /\ 0 < b /\ d \in Nat /\ d = f - 2 * W /\ s <= d
    BY <1>3, <1>4, <2>1
  <2> HIDE DEF f, s, b
  <2>3. ~ (d = 0)  BY <2>2
  <2>4. d + 2 * W = f  BY <2>2, WordBytes
  <2> QED BY <2>2, <2>3, <2>4
<1>7. n = t - f /\ n \in Nat
  <2>1. k + 1 \in k + 1 .. Len(R)  BY <1>2
  <2>2. m[R[k + 1].at + W] = R[k + 1].to - R[k + 1].from  BY <2>1 DEF Moving, RunsLeft
  <2>3. n = t - f  BY <1>5, <2>2
  <2> HIDE DEF n, t, f
  <2> QED BY <1>3, <2>3
<1>8. f \in Places(h) /\ t \in Places(h) /\ To(h, t) = To(h, f) + (t - f)
  BY <1>1, <1>2, RunsMap
<1>9. at = To(h, f)  BY <1>1, <1>5, RunsMap
<1>10. at \in Nat /\ Aligned(at) /\ h.sed <= at /\ at <= f /\ To(h, t) <= t
  BY <1>8, <1>9, ToBounds
<1>11. at + n = To(h, t) /\ at + n <= t
  <2>1. To(h, t) = at + n  BY <1>7, <1>8, <1>9
  <2> HIDE DEF n, t
  <2> QED BY <1>10, <2>1
<1>12. t <= h.top
  <2>1. t \in h.blocks \cup {h.top}  BY <1>8 DEF Places
  <2> HIDE DEF t
  <2> QED BY <2>1, CollectionNumbers
<1> HIDE DEF f, t, n
<1>13. ASSUME NEW a \in Cells, at <= a, a < at + n
       PROVE  (a - at) + f \in Cells /\ (a - at) + f # GbcNm /\ a - at + (d + 2 * W) = (a - at) + f
  <2>1. a \in Nat /\ Aligned(a)  BY CellsAligned
  <2>2. f <= (a - at) + f /\ (a - at) + f < t /\ a - at \in Nat
    BY <1>3, <1>7, <1>10, <1>13, <2>1
  <2>3. Aligned(a - at)  BY <1>10, <1>13, <2>1, AlignedArithmetic
  <2>4. Aligned((a - at) + f)  BY <1>3, <2>3, AlignedArithmetic
  <2>5. h.bottom <= (a - at) + f /\ (a - at) + f < h.top + h.up
    BY <1>3, <1>4, <1>12, <2>2
  <2>6. (a - at) + f \in Cells  BY <2>4, <2>5 DEF Collectable
  <2>7. (a - at) + f # GbcNm
    <3>1. GbcNm < h.bottom /\ GbcNm \in Nat  BY HeadCells DEF Collectable
    <3> QED BY <1>4, <2>1, <2>5, <3>1, <1>3, <2>2
  <2>8. a - at + (d + 2 * W) = (a - at) + f  BY <1>6
  <2> QED BY <2>6, <2>7, <2>8
<1>14. ASSUME NEW a \in Cells
       PROVE  m2[a] = IF at <= a /\ a < at + n THEN m[(a - at) + f]
                      ELSE IF a = GbcNm THEN m[d] ELSE m[a]
  <2> DEFINE m1 == [m EXCEPT ![GbcNm] = m[d]]
  <2>1. m2[a] = IF at <= a /\ a < at + n THEN m1[a - at + (d + 2 * W)] ELSE m1[a]
    BY DEF Moved, n
  <2>2. CASE at <= a /\ a < at + n
    <3>1. (a - at) + f \in Cells /\ (a - at) + f # GbcNm /\ a - at + (d + 2 * W) = (a - at) + f
      BY <1>13, <2>2
    <3>2. m1[(a - at) + f] = m[(a - at) + f]  BY <1>5, <3>1
    <3>3. m2[a] = m1[(a - at) + f]  BY <2>1, <2>2, <3>1, Zenon
    <3> QED BY <2>2, <3>2, <3>3, Zenon
  <2>3. CASE ~ (at <= a /\ a < at + n)
    <3>1. m2[a] = m1[a]  BY <2>1, <2>3, Zenon
    <3>2. m1[a] = IF a = GbcNm THEN m[d] ELSE m[a]  BY <1>5, HeadCells
    <3> QED BY <2>3, <3>1, <3>2, Zenon
  <2> QED BY <2>2, <2>3
<1>15. d \in Cells /\ d + W \in Cells  BY <1>3, <1>5
<1>16. m2 \in [Cells -> Nat]
  <2>1. \A a \in Cells : m2[a] \in Nat
    <3> SUFFICES ASSUME NEW a \in Cells PROVE m2[a] \in Nat  OBVIOUS
    <3>1. CASE at <= a /\ a < at + n
      <4>1. m2[a] = m[(a - at) + f]  BY <1>14, <3>1
      <4>2. (a - at) + f \in Cells  BY <1>13, <3>1
      <4> QED BY <1>5, <4>1, <4>2
    <3>2. CASE ~ (at <= a /\ a < at + n)
      <4>1. m2[a] = IF a = GbcNm THEN m[d] ELSE m[a]  BY <1>14, <3>2
      <4> QED BY <1>5, <1>15, <4>1
    <3> QED BY <3>1, <3>2
  <2> QED BY <2>1 DEF Moved
<1> QED BY <1>3, <1>5, <1>6, <1>7, <1>9, <1>10, <1>11, <1>14, <1>15, <1>16 DEF OneMoved, f, t, n

(* One more run is in its place, and the others are as they were.           *)
LEMMA MoveStep ==
  ASSUME NEW h, Collectable(h), NEW m0, NEW m, NEW R, NEW k, NEW at, Moving(h, m0, m, R, k, at),
         k # Len(R), NEW d, d = m[GbcNm],
         NEW m2, m2 = Moved([m EXCEPT ![GbcNm] = m[d]], d + 2 * W, at, m[d + W])
  PROVE  ~ (d = 0) /\ Moving(h, m0, m2, R, k + 1, at + m[d + W])
<1> DEFINE f == R[k + 1].from
           t == R[k + 1].to
           n == m[d + W]
<1>0. OneMoved(h, m, R, k, at, d, m2)  BY MoveOne
<1>1. /\ f \in Nat /\ t \in Nat /\ at \in Nat /\ f <= t /\ h.sed <= at /\ at <= f /\ Aligned(at) /\ Aligned(f)
      /\ d = R[k + 1].at /\ d + 2 * W = f /\ ~ (d = 0) /\ d \in Cells /\ d + W \in Cells
      /\ n = t - f /\ n \in Nat /\ at + n = To(h, t) /\ at = To(h, f) /\ at + n <= t
      /\ m2 \in [Cells -> Nat]
  BY <1>0 DEF OneMoved
<1>2. \A a \in Cells :
        m2[a] = IF at <= a /\ a < at + n THEN m[(a - at) + f] ELSE IF a = GbcNm THEN m[d] ELSE m[a]
  BY <1>0 DEF OneMoved
<1> HIDE DEF f, t, n
<1>3. h.top \in Places(h) /\ Runs(h, m0, R, h.top, FALSE) /\ RunsSettled(h, m0, R) /\ k \in 1 .. Len(R)
  <2>1. h.sed <= h.top  BY CollectionNumbers
  <2> QED BY <2>1 DEF Places, Moving, RunsSettled
<1>4. Len(R) \in Nat /\ k + 1 \in 1 .. Len(R) /\ k + 1 # 1
  <2>1. Len(R) \in Nat  BY <1>3, RunNumbers
  <2> QED BY <1>3, <2>1
<1>5. h.sed \in Nat /\ h.bottom \in Nat /\ h.bottom <= h.sed /\ 0 < h.bottom
  BY CollectionNumbers
<1>6. GbcNm \in Nat /\ GbcNm \in Cells /\ GbcNm < at
  <2>1. GbcNm < h.bottom /\ GbcNm \in Nat /\ GbcNm \in Cells  BY HeadCells DEF Collectable
  <2> QED BY <1>1, <1>5, <2>1
<1>7. m2[GbcNm] = (IF k + 1 = Len(R) THEN 0 ELSE R[(k + 1) + 1].at)
  <2>1. m2[GbcNm] = m[d]
    <3>1. ~ (at <= GbcNm)  BY <1>1, <1>6
    <3> QED BY <1>2, <1>6, <3>1
  <2>2. k + 1 \in k + 1 .. Len(R)  BY <1>4
  <2>3. m[R[k + 1].at] = (IF k + 1 = Len(R) THEN 0 ELSE R[(k + 1) + 1].at)
    BY <2>2 DEF Moving, RunsLeft
  <2>4. d = R[k + 1].at  BY <1>1
  <2> QED BY <2>1, <2>3, <2>4, Zenon
<1>8. ASSUME NEW i \in (k + 1) + 1 .. Len(R), NEW a \in Cells, R[i].at <= a PROVE m2[a] = m[a]
  <2>1. i \in 1 .. Len(R) /\ k + 1 < i  BY <1>3, <1>4, <1>8
  <2>2. R[k + 1].to <= R[i].at  BY <1>3, <1>4, <2>1, DescriptorsApart
  <2>3. R[i].at \in Nat /\ a \in Nat  BY <1>3, <2>1, RunNumbers, CellsAligned
  <2>4. t <= R[i].at  BY <2>2 DEF t
  <2>5. t <= a
    <3>1. \A e \in Nat : t <= e /\ e <= a => t <= a  BY <1>1, <2>3
    <3> QED BY <1>8, <2>3, <2>4, <3>1
  <2>6. ~ (a < at + n) /\ a # GbcNm
    <3>1. at \in Nat /\ n \in Nat /\ t \in Nat /\ at + n <= t  BY <1>1
    <3>2. GbcNm \in Nat /\ GbcNm < at /\ a \in Nat /\ t <= a  BY <1>6, <2>3, <2>5
    <3> QED BY <3>1, <3>2
  <2> QED BY <1>2, <2>6
<1>9. RunsLeft(h, m2, R, k + 1)
  <2> SUFFICES ASSUME NEW i \in (k + 1) + 1 .. Len(R)
               PROVE  /\ m2[R[i].at] = (IF i = Len(R) THEN 0 ELSE R[i + 1].at)
                      /\ m2[R[i].at + W] = R[i].to - R[i].from
                      /\ \A a \in Cells : R[i].from <= a /\ a < R[i].to => m2[a] = NewAt(h, a)
    BY DEF RunsLeft
  <2>1. i \in 1 .. Len(R) /\ i \in k + 1 .. Len(R)  BY <1>3, <1>4
  <2>2. /\ R[i].at \in Nat /\ R[i].from \in Nat /\ R[i].at \in Cells /\ R[i].at + W \in Cells
    BY <1>3, <2>1, RunNumbers
  <2>3. R[i].at + 2 * W <= R[i].from  BY <1>3, <2>1, DescriptorBefore
  <2>4. /\ m[R[i].at] = (IF i = Len(R) THEN 0 ELSE R[i + 1].at)
        /\ m[R[i].at + W] = R[i].to - R[i].from
        /\ \A a \in Cells : R[i].from <= a /\ a < R[i].to => m[a] = NewAt(h, a)
    BY <2>1 DEF Moving, RunsLeft
  <2>5. R[i].at <= R[i].at /\ R[i].at <= R[i].at + W
        /\ \A a \in Nat : R[i].from <= a => R[i].at <= a
    <3> DEFINE b == R[i].at
               e == R[i].from
    <3>1. b \in Nat /\ e \in Nat /\ b + 2 * W <= e  BY <2>2, <2>3
    <3> HIDE DEF b, e
    <3>2. b <= b /\ b <= b + W /\ \A a \in Nat : e <= a => b <= a  BY <3>1, WordBytes
    <3> QED BY <3>2 DEF b, e
  <2>6. m2[R[i].at] = m[R[i].at] /\ m2[R[i].at + W] = m[R[i].at + W]
    BY <1>8, <2>2, <2>5
  <2>7. ASSUME NEW a \in Cells, R[i].from <= a, a < R[i].to PROVE m2[a] = NewAt(h, a)
    <3>1. R[i].at <= a  BY <2>5, <2>7, CellsAligned
    <3>2. m2[a] = m[a]  BY <1>8, <3>1
    <3>3. m[a] = NewAt(h, a)  BY <2>4, <2>7
    <3> QED BY <3>2, <3>3
  <2> QED BY <2>4, <2>6, <2>7
<1>10. InPlace(h, m2)
  <2> SUFFICES ASSUME NEW a \in Cells, a < h.sed, a \notin {GbcNm, GbcNs} PROVE m2[a] = NewAt(h, a)
    BY DEF InPlace
  <2>1. m[a] = NewAt(h, a)  BY DEF Moving, InPlace
  <2>2. ~ (at <= a)  BY <1>1, <1>5, CellsAligned
  <2>3. m2[a] = m[a]  BY <1>2, <2>2
  <2> QED BY <2>1, <2>3
<1>11. BlocksMoved(h, m2, t)
  <2> SUFFICES ASSUME NEW x \in h.used, h.sed <= x, x < t, NEW a \in Cells, Within(h.mem, a, x)
               PROVE  m2[(a - x) + To(h, x)] = NewAt(h, a)
    BY DEF BlocksMoved
  <2>1. x \in h.blocks /\ x \in Places(h)  BY DEF Collectable, Places
  <2>2. /\ x \in Nat /\ a \in Nat /\ Length(h, x) \in Nat /\ Aligned(x) /\ Aligned(a)
        /\ x <= a /\ a < x + Length(h, x)
    BY <2>1, CellsAligned, CollectionNumbers DEF Within, Length
  <2>3. To(h, x) \in Nat /\ Aligned(To(h, x)) /\ h.sed <= To(h, x) /\ To(h, x) <= x
    BY <2>1, ToBounds
  <2>4. R[k].to \in Places(h) /\ R[k].to \in Nat
    <3>1. R[k].to \in Places(h)  BY <1>3, RunsMap
    <3> QED BY <3>1, CollectionNumbers DEF Places
  <2> DEFINE b == (a - x) + To(h, x)
  <2>5. b \in Cells
    <3>1. a - x \in Nat /\ Aligned(a - x)  BY <2>2, AlignedArithmetic
    <3>2. Aligned(b)  BY <2>3, <3>1, AlignedArithmetic
    <3>3. h.bottom <= b /\ b <= a  BY <1>5, <2>2, <2>3, <3>1
    <3>4. a < h.top /\ h.top \in Nat /\ h.up \in Nat
      <4>1. x + Length(h, x) <= h.top /\ h.top \in Nat /\ h.up \in Nat  BY <2>1, CollectionNumbers
      <4> QED BY <2>2, <4>1
    <3>5. b < h.top + h.up  BY <2>2, <2>3, <3>1, <3>3, <3>4
    <3> HIDE DEF b
    <3> QED BY <3>2, <3>3, <3>5 DEF Collectable
  <2>6. CASE x < R[k].to
    <3>1. m[b] = NewAt(h, a)  BY <2>6 DEF Moving, BlocksMoved
    <3>2. To(h, x) + Length(h, x) <= at
      <4>1. x + Length(h, x) \in Places(h)
        <5>1. x + Length(h, x) \in h.blocks \cup {h.top}  BY <2>1, CollectionNumbers
        <5>2. h.sed <= x + Length(h, x)  BY <1>5, <2>2
        <5> QED BY <5>1, <5>2 DEF Places
      <4>2. x + Length(h, x) <= R[k].to
        <5>1. R[k].to \in h.blocks \cup {h.top}  BY <2>4 DEF Places
        <5> QED BY <2>1, <2>6, <5>1, CollectionNumbers
      <4>3. To(h, x + Length(h, x)) <= To(h, R[k].to)  BY <2>4, <4>1, <4>2, ToMonotone
      <4>4. To(h, x + Length(h, x)) = To(h, x) + Length(h, x)  BY <2>1, ToStep
      <4>5. at = To(h, R[k].to)  BY DEF Moving
      <4> QED BY <4>3, <4>4, <4>5
    <3>3. ~ (at <= b)
      <4> DEFINE c == To(h, x)
                 l == Length(h, x)
      <4>1. at \in Nat /\ x \in Nat /\ a \in Nat /\ l \in Nat /\ c \in Nat /\ a < x + l /\ c + l <= at
        BY <1>1, <2>2, <2>3, <3>2
      <4>2. b = (a - x) + c  OBVIOUS
      <4> HIDE DEF b, c, l
      <4> QED BY <4>1, <4>2
    <3>4. b # GbcNm
      <4>1. GbcNm < h.bottom  BY DEF Collectable
      <4>2. h.bottom <= b  BY <1>5, <2>2, <2>3
      <4> HIDE DEF b
      <4> QED BY <1>5, <1>6, <2>5, <4>1, <4>2, CellsAligned
    <3>5. m2[b] = m[b]
      <4> HIDE DEF b
      <4> QED BY <1>2, <2>5, <3>3, <3>4
    <3> QED BY <3>1, <3>5
  <2>7. CASE ~ (x < R[k].to)
    <3>1. f <= x
      <4> SUFFICES ASSUME ~ (f <= x) PROVE FALSE  OBVIOUS
      <4>1. R[k].to <= x /\ x < f
        <5> DEFINE t2 == R[k].to
        <5>1. f \in Nat /\ x \in Nat /\ t2 \in Nat /\ ~ (x < t2)  BY <1>1, <2>2, <2>4, <2>7
        <5> HIDE DEF t2
        <5>2. t2 <= x /\ x < f  BY <5>1
        <5> QED BY <5>2 DEF t2
      <4>2. Run(h, m0, R, h.top, FALSE, k)  BY <1>3 DEF Runs
      <4>3. x \notin h.used  BY <2>1, <4>1, <4>2 DEF Run, f
      <4> QED BY <4>3
    <3>2. To(h, x) = at + (x - f)
      <4> DEFINE i == k + 1
      <4>1. i \in 1 .. Len(R)  BY <1>4
      <4>2. R[i].from <= x /\ x < R[i].to  BY <3>1 DEF f, t
      <4> HIDE DEF i
      <4>3. To(h, x) = To(h, R[i].from) + (x - R[i].from)  BY <1>3, <2>1, <4>1, <4>2, RunsMap
      <4>4. f = R[i].from  BY DEF f, i
      <4> QED BY <1>1, <4>3, <4>4
    <3>3. a < t
      <4>1. t \in h.blocks \cup {h.top}
        <5>1. t \in Places(h)  BY <1>3, <1>4, RunsMap DEF t
        <5> QED BY <5>1 DEF Places
      <4>2. x + Length(h, x) <= t  BY <2>1, <4>1, CollectionNumbers
      <4> QED BY <1>1, <2>2, <4>2
    <3>4. at <= b /\ b < at + n /\ (b - at) + f = a
      <4> DEFINE c == To(h, x)
      <4>1. at \in Nat /\ n \in Nat /\ f \in Nat /\ t \in Nat /\ n = t - f  BY <1>1
      <4>2. x \in Nat /\ a \in Nat /\ x <= a /\ f <= x /\ a < t /\ c = at + (x - f)
        BY <2>2, <3>1, <3>2, <3>3
      <4>3. b = (a - x) + c  OBVIOUS
      <4> HIDE DEF b, c
      <4> QED BY <4>1, <4>2, <4>3
    <3>5. m2[b] = m[a]
      <4> HIDE DEF b
      <4> QED BY <1>2, <2>5, <3>4
    <3>6. m[a] = NewAt(h, a)
      <4> DEFINE i == k + 1
      <4>1. i \in k + 1 .. Len(R)  BY <1>4
      <4>2. R[i].from <= a /\ a < R[i].to
        <5>1. f <= a /\ a < t  BY <1>1, <2>2, <3>1, <3>3
        <5> QED BY <5>1 DEF f, t
      <4> HIDE DEF i
      <4> QED BY <4>1, <4>2 DEF Moving, RunsLeft
    <3> QED BY <3>5, <3>6
  <2> QED BY <2>6, <2>7
<1>12. at + n = To(h, R[k + 1].to) /\ BlocksMoved(h, m2, R[k + 1].to)  BY <1>1, <1>11 DEF t
<1> QED BY <1>1, <1>3, <1>4, <1>7, <1>9, <1>10, <1>12 DEF Moving, n

(* What is above the sediment once all is moved, which then may be moved up *)
(* as a whole.                                                              *)
AllMoved(h, m) ==
  /\ m \in [Cells -> Nat] /\ InPlace(h, m)
  /\ \A x \in h.used : h.sed <= x =>
       \A a \in Cells : Within(h.mem, a, x) => m[(a - x) + To(h, x)] = NewAt(h, a)

LEMMA MoveEnds ==
  ASSUME NEW h, Collectable(h), NEW m0, NEW m, NEW R, NEW k, NEW at, Moving(h, m0, m, R, k, at)
  PROVE  /\ m[GbcNm] = 0 <=> k = Len(R)
         /\ k = Len(R) => AllMoved(h, m) /\ at = To(h, h.top)
<1>1. k # Len(R) => ~ (m[GbcNm] = 0)  BY MoveStep
<1>2. k = Len(R) => m[GbcNm] = 0  BY DEF Moving
<1>3. ASSUME k = Len(R) PROVE AllMoved(h, m) /\ at = To(h, h.top)
  <2>1. RunsSettled(h, m0, R) /\ k \in 1 .. Len(R) /\ at = To(h, R[k].to)  BY DEF Moving
  <2>2. at = To(h, h.top) /\ R[k].to \in Places(h)  BY <1>3, <2>1, RunsMap
  <2>3. \A x \in h.used : x < R[k].to
    <3>1. R[k].to \in Nat  BY <2>2, CollectionNumbers DEF Places
    <3>2. \A x \in h.used : x \in h.blocks /\ x \in Nat  BY CollectionNumbers DEF Collectable
    <3>3. \A x \in h.used : ~ (R[k].to <= x)  BY <1>3, <2>1, <3>2 DEF RunsSettled
    <3> QED BY <3>1, <3>2, <3>3
  <2>4. InPlace(h, m) /\ BlocksMoved(h, m, R[k].to) /\ m \in [Cells -> Nat]  BY DEF Moving
  <2>5. AllMoved(h, m)  BY <2>3, <2>4 DEF AllMoved, BlocksMoved
  <2> QED BY <2>2, <2>5
<1> QED BY <1>1, <1>2, <1>3

(* What a collection has done when gbcol returns.                           *)
Done(h, m) ==
  /\ m \in [Cells -> Nat]
  /\ \A a \in Cells : a < h.bottom /\ a \notin {GbcNm, GbcNs} => m[a] = NewAt(h, a)
  /\ \A a \in Cells : h.bottom <= a /\ a < h.sed => m[a + h.up] = NewAt(h, a)
  /\ \A x \in h.used : \A a \in Cells : Within(h.mem, a, x) => m[(a - x) + Newly(h, x)] = NewAt(h, a)

LEMMA UpDone ==
  ASSUME NEW h, Collectable(h), NEW m, AllMoved(h, m),
         NEW m2, m2 = IF h.up = 0 THEN m ELSE Moved(m, h.bottom, h.bottom + h.up, To(h, h.top) - h.bottom)
  PROVE  Done(h, m2)
<1>1. /\ h.bottom \in Nat /\ h.sed \in Nat /\ h.top \in Nat /\ h.up \in Nat /\ h.bottom <= h.sed
      /\ Aligned(h.up) /\ h.used \subseteq h.blocks /\ h.top \in Places(h) /\ (h.up # 0 => h.sed = h.bottom)
  <2>1. h.sed <= h.top  BY CollectionNumbers
  <2> QED BY <2>1, CollectionNumbers DEF Collectable, Places
<1>2. To(h, h.top) \in Nat /\ h.sed <= To(h, h.top) /\ To(h, h.top) <= h.top  BY <1>1, ToBounds
<1>3. m \in [Cells -> Nat] /\ InPlace(h, m)  BY DEF AllMoved
<1>4. CASE h.up = 0
  <2>1. m2 = m  BY <1>4
  <2>2. \A a \in Cells : a < h.bottom /\ a \notin {GbcNm, GbcNs} => m2[a] = NewAt(h, a)
    <3>1. \A a \in Cells : a < h.bottom => a < h.sed  BY <1>1, CellsAligned
    <3> QED BY <1>3, <2>1, <3>1 DEF InPlace
  <2>3. ASSUME NEW a \in Cells, h.bottom <= a, a < h.sed PROVE m2[a + h.up] = NewAt(h, a)
    <3>1. a + h.up = a  BY <1>4, CellsAligned
    <3>2. a \notin {GbcNm, GbcNs}
      <4>1. GbcNm < h.bottom /\ GbcNs < h.bottom  BY DEF Collectable
      <4> QED BY <1>1, <2>3, <4>1, HeadCells, CellsAligned
    <3> QED BY <1>3, <2>1, <2>3, <3>1, <3>2 DEF InPlace
  <2>4. ASSUME NEW x \in h.used, NEW a \in Cells, Within(h.mem, a, x)
        PROVE  m2[(a - x) + Newly(h, x)] = NewAt(h, a)
    <3>1. x \in Nat /\ a \in Nat /\ Length(h, x) \in Nat /\ x <= a /\ a < x + Length(h, x) /\ h.bottom <= x
      BY <1>1, <2>4, CellsAligned, CollectionNumbers DEF Within, Length
    <3>2. CASE x < h.sed
      <4>1. (a - x) + Newly(h, x) = a + h.up  BY <1>1, <3>1, <3>2 DEF Newly
      <4>2. a < h.sed
        <5>1. CASE h.sed \in h.blocks
          <6>1. x + Length(h, x) <= h.sed  BY <1>1, <3>2, <5>1, CollectionNumbers
          <6> QED BY <1>1, <3>1, <6>1
        <5>2. CASE h.sed = h.top
          <6>1. x + Length(h, x) <= h.top  BY <1>1, CollectionNumbers
          <6> QED BY <1>1, <3>1, <5>2, <6>1
        <5> QED BY <5>1, <5>2 DEF Collectable
      <4>3. h.bottom <= a  BY <1>1, <3>1
      <4> QED BY <2>3, <4>1, <4>2, <4>3
    <3>3. CASE ~ (x < h.sed)
      <4>1. h.sed <= x /\ x \in Places(h)  BY <1>1, <3>1, <3>3 DEF Places
      <4>2. To(h, x) \in Nat  BY <4>1, ToBounds
      <4>3. (a - x) + Newly(h, x) = (a - x) + To(h, x)  BY <1>4, <3>1, <3>3, <4>2 DEF Newly
      <4>4. m[(a - x) + To(h, x)] = NewAt(h, a)  BY <2>4, <4>1 DEF AllMoved
      <4> QED BY <2>1, <4>3, <4>4
    <3> QED BY <3>2, <3>3
  <2> QED BY <1>3, <2>1, <2>2, <2>3, <2>4 DEF Done
<1>5. CASE h.up # 0
  <2> DEFINE b == h.bottom
             u == h.up
             n == To(h, h.top) - h.bottom
  <2>0. b \in Nat /\ u \in Nat /\ n \in Nat /\ h.sed = b /\ Aligned(b) /\ Aligned(u) /\ b + n = To(h, h.top)
    <3>1. Aligned(h.bottom)  BY DEF Collectable, IsHeap
    <3> QED BY <1>1, <1>2, <1>5, <3>1
  <2>1. m2 = Moved(m, b, b + u, n)  BY <1>5
  <2>2. \A a : Aligned(a) /\ b <= a /\ a < b + n => a \in Cells /\ a + u \in Cells
    <3> SUFFICES ASSUME NEW a, Aligned(a), b <= a, a < b + n PROVE a \in Cells /\ a + u \in Cells
      OBVIOUS
    <3>1. Aligned(a + u) /\ a \in Nat  BY <2>0, AlignedArithmetic
    <3>2. a < h.top + u /\ a + u < h.top + u /\ b <= a + u  BY <1>1, <1>2, <2>0, <3>1
    <3> QED BY <3>1, <3>2 DEF Collectable
  <2> HIDE DEF b, u, n
  <2>3. ASSUME NEW a \in Cells PROVE m2[a] = IF b + u <= a /\ a < b + u + n THEN m[a - (b + u) + b] ELSE m[a]
    BY <2>1 DEF Moved
  <2>4. ASSUME NEW a \in Cells, b <= a, a < b + n PROVE a + u \in Cells /\ m2[a + u] = m[a]
    <3>1. Aligned(a) /\ a \in Nat  BY CellsAligned
    <3>2. a + u \in Cells  BY <2>2, <2>4, <3>1
    <3>3. b + u <= a + u /\ a + u < b + u + n /\ (a + u) - (b + u) + b = a  BY <2>0, <2>4, <3>1
    <3>4. m2[a + u] = m[(a + u) - (b + u) + b]  BY <2>3, <3>2, <3>3
    <3> QED BY <3>2, <3>3, <3>4, Zenon
  <2>5. m2 \in [Cells -> Nat]
    <3>1. \A a \in Cells : b + u <= a /\ a < b + u + n => m[a - (b + u) + b] \in Nat
      <4> SUFFICES ASSUME NEW a \in Cells, b + u <= a, a < b + u + n PROVE m[a - (b + u) + b] \in Nat
        OBVIOUS
      <4>1. a \in Nat /\ Aligned(a)  BY CellsAligned
      <4>2. b + u \in Nat /\ Aligned(b + u)  BY <2>0, AlignedArithmetic
      <4>3. Aligned(a - (b + u))  BY <4>1, <4>2, AlignedArithmetic
      <4>4. Aligned(a - (b + u) + b)  BY <2>0, <4>3, AlignedArithmetic
      <4>5. b <= a - (b + u) + b /\ a - (b + u) + b < b + n  BY <2>0, <4>1
      <4>6. a - (b + u) + b \in Cells  BY <2>2, <4>4, <4>5
      <4> QED BY <1>3, <4>6
    <3>2. \A a \in Cells : m[a] \in Nat  BY <1>3
    <3> QED BY <2>1, <3>1, <3>2 DEF Moved
  <2>6. \A a \in Cells : a < h.bottom /\ a \notin {GbcNm, GbcNs} => m2[a] = NewAt(h, a)
    <3> SUFFICES ASSUME NEW a \in Cells, a < h.bottom, a \notin {GbcNm, GbcNs} PROVE m2[a] = NewAt(h, a)
      OBVIOUS
    <3>1. a < b /\ a \in Nat  BY CellsAligned DEF b
    <3>2. ~ (b + u <= a)  BY <2>0, <3>1
    <3>3. m2[a] = m[a]  BY <2>3, <3>2
    <3>4. a < h.sed  BY <2>0, <3>1
    <3> QED BY <1>3, <3>3, <3>4 DEF InPlace
  <2>7. \A a \in Cells : ~ (h.bottom <= a /\ a < h.sed)
    BY <2>0, CellsAligned DEF b
  <2>8. ASSUME NEW x \in h.used, NEW a \in Cells, Within(h.mem, a, x)
        PROVE  m2[(a - x) + Newly(h, x)] = NewAt(h, a)
    <3>1. /\ x \in h.blocks /\ x \in Nat /\ Length(h, x) \in Nat /\ Aligned(x) /\ h.bottom <= x
          /\ x + Length(h, x) \in h.blocks \cup {h.top} /\ x + Length(h, x) <= h.top
      BY <1>1, CollectionNumbers
    <3>2. a \in Nat /\ Aligned(a) /\ x <= a /\ a < x + Length(h, x)
      BY <2>8, CellsAligned DEF Within, Length
    <3>3. h.sed <= x /\ ~ (x < h.sed) /\ x \in Places(h)  BY <2>0, <3>1 DEF b, Places
    <3>4. To(h, x) \in Nat /\ Aligned(To(h, x)) /\ h.sed <= To(h, x)  BY <3>3, ToBounds
    <3>5. m[(a - x) + To(h, x)] = NewAt(h, a)  BY <2>8, <3>3 DEF AllMoved
    <3>6. To(h, x) + Length(h, x) <= To(h, h.top)
      <4>1. To(h, x + Length(h, x)) = To(h, x) + Length(h, x)  BY <3>1, <3>3, ToStep
      <4>2. x + Length(h, x) \in Places(h)
        <5>1. h.sed <= x + Length(h, x)  BY <1>1, <3>1, <3>3
        <5> QED BY <3>1, <5>1 DEF Places
      <4> QED BY <1>1, <3>1, <4>1, <4>2, ToMonotone
    <3> DEFINE c == (a - x) + To(h, x)
    <3>7. c \in Nat /\ b <= c /\ c < b + n  BY <2>0, <3>1, <3>2, <3>4, <3>6
    <3>8. Aligned(c)
      <4>1. Aligned(a - x)  BY <3>1, <3>2, AlignedArithmetic
      <4> QED BY <3>4, <4>1, AlignedArithmetic
    <3>9. c \in Cells
      <4> HIDE DEF c
      <4> QED BY <2>2, <3>7, <3>8
    <3>10. (a - x) + Newly(h, x) = c + u
      <4>1. Newly(h, x) = To(h, x) + u  BY <3>3 DEF Newly, u
      <4> QED BY <2>0, <3>1, <3>2, <3>4, <4>1
    <3>11. m2[c + u] = m[c]
      <4> HIDE DEF c
      <4> QED BY <2>4, <3>7, <3>9
    <3> QED BY <3>5, <3>10, <3>11
  <2> QED BY <2>5, <2>6, <2>7, <2>8 DEF Done
<1> QED BY <1>4, <1>5

-----------------------------------------------------------------------------
(* The loops of the collector.                                              *)

(* The last run is at the place x and goes on.                              *)
InUsed(h, m, x, c, lm) ==
  \E ch, R : /\ Passed(h, m, ch, x, LinksFrom(h, ch, x)) /\ Runs(h, m, R, x, TRUE)
             /\ R[Len(R)].to = x /\ lm = R[Len(R)].at /\ c = To(h, x) + h.up

(* The chain of the block at x, which is next in it, is at a.               *)
InChain(h, m, x, a, c, lm) ==
  /\ x \in h.blocks /\ x \in h.used
  /\ \E ch, R : \E j \in 0 .. Len(ch[x]) :
       /\ Passed(h, m, ch, x, LinksLeft(h, ch, x, j)) /\ Runs(h, m, R, x, TRUE)
       /\ R[Len(R)].to = x /\ lm = R[Len(R)].at /\ c = To(h, x) + h.up
       /\ a = Link(ch[x], j, h.mem[x])

(* No block from the last run to the place x is in use.                     *)
InUnused(h, m, x, c, lm) ==
  \E ch, R : /\ Passed(h, m, ch, x, LinksFrom(h, ch, x)) /\ Runs(h, m, R, x, FALSE)
             /\ lm = R[Len(R)].at /\ c = To(h, x) + h.up
             /\ \A y \in h.blocks : R[Len(R)].to <= y /\ y < x => y \notin h.used
             /\ R[Len(R)].to = x => x \notin h.used
             /\ R[Len(R)].to = x \/ R[Len(R)].to + 2 * W <= x

InMove(h, m, x) == \E m0, R, k : Moving(h, m0, m, R, k, x)

Phases == {"fields", "sediment", "used", "chain", "unused", "move", "up", "exit"}

(* What each loop of the collection h may rely on; the arguments are named  *)
(* for the variables.                                                       *)
Phase(h, pc, m, b, t, sd, x, a, c, lv, sg, lm) ==
  /\ Collectable(h) /\ UsedIsLeast(h) /\ pc \in Phases
  /\ pc # "exit" => sd = h.sed /\ b = h.bottom
  /\ pc # "exit" /\ pc # "up" => t = h.top
  /\ pc = "fields" => PassOneOn(h, m, x, lv, sg)
  /\ pc = "sediment" => \E ch : SedimentScanned(h, m, ch, x)
  /\ pc = "used" => InUsed(h, m, x, c, lm)
  /\ pc = "chain" => InChain(h, m, x, a, c, lm)
  /\ pc = "unused" => InUnused(h, m, x, c, lm)
  /\ pc = "move" => InMove(h, m, x)
  /\ pc = "up" => AllMoved(h, m) /\ t = To(h, h.top)
  /\ pc = "exit" => Done(h, m) /\ b = h.bottom + h.up /\ t = To(h, h.top) + h.up

CollectorInv ==
  gpc = "out" \/ Phase(Collection, gpc, mem, dnamb, dnamp, gbcsd, xr, wa, wc, stk, segs, gbclm)

(* A step changes neither what the collection started from nor what it is   *)
(* to do.                                                                   *)
LEMMA CollectionKept == ASSUME UNCHANGED <<before, up>> PROVE Collection' = Collection /\ Collection.up = up
BY DEF Collection, SedimentEnd, OldBlocks, InUse

(* A word is a pointer into the dynamic area when it points to a block in   *)
(* use.                                                                     *)
LEMMA PointsInto ==
  ASSUME NEW h, Collectable(h), dnamb = h.bottom, dnamp = h.top, NEW x \in {0} \cup h.used
  PROVE  /\ InDynamic(x) <=> x \in h.used
         /\ x \in h.used <=> x \in h.blocks
         /\ x \in h.used => x \in Nat
<1>1. h.used \subseteq h.blocks  BY DEF Collectable
<1>2. /\ h.bottom \in Nat /\ 0 < h.bottom /\ h.top \in Nat
      /\ \A y \in h.blocks : y \in Nat /\ h.bottom <= y /\ y < h.top /\ ~ (y = 0)
  BY CollectionNumbers
<1>3. CASE x \in h.used  BY <1>1, <1>2, <1>3 DEF InDynamic
<1>4. CASE x = 0  BY <1>1, <1>2, <1>4 DEF InDynamic
<1> QED BY <1>3, <1>4

(* A field of pass one.                                                     *)
LEMMA FieldStep == ASSUME CollectorInv, Field PROVE CollectorInv'
<1> DEFINE h == Collection
           x == mem[xr]
           w == mem[x]
<1>0. gpc = "fields" /\ gpc' = gpc /\ Collection' = h /\ xr # stk[1].limit
      /\ UNCHANGED <<dnamb, dnamp, wa, wc, segs, gbcsd, gbclm>>
  BY CollectionKept DEF Field
<1>1. Phase(h, gpc, mem, dnamb, dnamp, gbcsd, xr, wa, wc, stk, segs, gbclm)  BY <1>0 DEF CollectorInv
<1>2. /\ IF ~InDynamic(x) THEN mem' = mem /\ xr' = xr + W /\ stk' = stk
         ELSE IF Even(w) THEN mem' = Linked(x, w) /\ xr' = xr + W /\ stk' = stk
         ELSE /\ mem' = Marked(x, w)
              /\ IF HasFields(w)
                   THEN /\ stk' = <<Level(xr, PastField(mem, w, x))>> \o stk
                        /\ xr' = FirstField(w, x)
                   ELSE stk' = stk /\ xr' = xr + W
  BY DEF Field
<1> HIDE DEF h
<1>3. Collectable(h) /\ gbcsd = h.sed /\ dnamb = h.bottom /\ dnamp = h.top /\ PassOneOn(h, mem, xr, stk, segs)
  BY <1>0, <1>1 DEF Phase
<1>4. PICK ch, V, iv : PassOne(h, mem, ch, V, iv, xr, stk, segs)  BY <1>3 DEF PassOneOn
<1>5. /\ x \in {0} \cup h.used /\ xr \in Nat
      /\ ~Descends(h, mem, xr) => PassOneOn(h, AfterMeeting(h, mem, xr), xr + W, stk, segs)
      /\ Descends(h, mem, xr) =>
              PassOneOn(h, AfterMeeting(h, mem, xr), FirstField(w, x),
                        <<Level(xr, PastField(mem, w, x))>> \o stk, segs)
  BY <1>0, <1>3, <1>4, PassOneField
<1> HIDE DEF x, w
<1>6. (InDynamic(x) <=> x \in h.used) /\ (x \in h.used <=> x \in h.blocks) /\ (x \in h.used => x \in Nat)
  BY <1>3, <1>5, PointsInto
<1>7. h.sed \in Nat  BY <1>3, CollectionNumbers
<1>8. PassOneOn(h, mem', xr', stk', segs)
  <2>1. CASE x \notin h.blocks
    <3>1. mem' = mem /\ xr' = xr + W /\ stk' = stk  BY <1>2, <1>6, <2>1
    <3>2. AfterMeeting(h, mem, xr) = mem  BY <2>1 DEF AfterMeeting, x
    <3>3. ~Descends(h, mem, xr)  BY <2>1 DEF Descends, x
    <3> QED BY <1>5, <3>1, <3>2, <3>3
  <2>2. CASE x \in h.blocks /\ Even(w)
    <3>1. mem' = Linked(x, w) /\ xr' = xr + W /\ stk' = stk  BY <1>2, <1>6, <2>2
    <3>2. AfterMeeting(h, mem, xr) = Linked(x, w)
      <4>1. CASE h.sed <= x
        <5>1. x >= gbcsd  BY <1>3, <1>6, <1>7, <2>2, <4>1
        <5> QED BY <2>2, <4>1, <5>1 DEF AfterMeeting, Linked, x, w
      <4>2. CASE ~ (h.sed <= x)
        <5>1. ~ (x >= gbcsd)  BY <1>3, <1>6, <1>7, <2>2, <4>2
        <5> QED BY <2>2, <4>2, <5>1 DEF AfterMeeting, Linked, x, w
      <4> QED BY <4>1, <4>2
    <3>3. ~Descends(h, mem, xr)  BY <2>2 DEF Descends, x, w
    <3> QED BY <1>5, <3>1, <3>2, <3>3
  <2>3. CASE x \in h.blocks /\ ~Even(w)
    <3>1. mem' = Marked(x, w)  BY <1>2, <1>6, <2>3
    <3>2. AfterMeeting(h, mem, xr) = Marked(x, w)
      <4>1. CASE h.sed <= x
        <5>1. x >= gbcsd /\ ~ (x < gbcsd)  BY <1>3, <1>6, <1>7, <2>3, <4>1
        <5> QED BY <2>3, <4>1, <5>1 DEF AfterMeeting, Marked, Linked, x, w
      <4>2. CASE ~ (h.sed <= x)
        <5>1. x < gbcsd  BY <1>3, <1>6, <1>7, <2>3, <4>2
        <5> QED BY <2>3, <4>2, <5>1 DEF AfterMeeting, Marked, x, w
      <4> QED BY <4>1, <4>2
    <3>3. CASE HasFields(w)
      <4>1. Descends(h, mem, xr)  BY <2>3, <3>3 DEF Descends, x, w
      <4>2. stk' = <<Level(xr, PastField(mem, w, x))>> \o stk /\ xr' = FirstField(w, x)
        BY <1>2, <1>6, <2>3, <3>3
      <4> QED BY <1>5, <3>1, <3>2, <4>1, <4>2
    <3>4. CASE ~HasFields(w)
      <4>1. ~Descends(h, mem, xr)  BY <3>4 DEF Descends, x, w
      <4>2. stk' = stk /\ xr' = xr + W  BY <1>2, <1>6, <2>3, <3>4
      <4> QED BY <1>5, <3>1, <3>2, <4>1, <4>2
    <3> QED BY <3>3, <3>4
  <2> QED BY <2>1, <2>2, <2>3
<1>9. Phase(h, gpc', mem', dnamb', dnamp', gbcsd', xr', wa', wc', stk', segs', gbclm')
  BY <1>0, <1>1, <1>8 DEF Phase
<1> QED BY <1>0, <1>9 DEF CollectorInv

(* The end of a level of pass one, and of pass one.                         *)
LEMMA PopStep == ASSUME CollectorInv, Pop PROVE CollectorInv'
<1> DEFINE h == Collection
<1>0. gpc = "fields" /\ Collection' = h /\ xr = stk[1].limit
      /\ UNCHANGED <<mem, dnamb, dnamp, wa, wc, gbcsd, gbclm>>
  BY CollectionKept DEF Pop
<1>1. Phase(h, gpc, mem, dnamb, dnamp, gbcsd, xr, wa, wc, stk, segs, gbclm)  BY <1>0 DEF CollectorInv
<1>2. IF Len(stk) > 1
        THEN xr' = stk[1].field + W /\ stk' = Tail(stk) /\ UNCHANGED <<segs, gpc>>
      ELSE IF segs # <<>>
        THEN xr' = segs[1][1] /\ stk' = <<Level(0, segs[1][2])>> /\ segs' = Tail(segs) /\ UNCHANGED gpc
      ELSE xr' = dnamb /\ gpc' = "sediment"
  BY DEF Pop
<1> HIDE DEF h
<1>3. Collectable(h) /\ UsedIsLeast(h) /\ dnamb = h.bottom /\ PassOneOn(h, mem, xr, stk, segs)
  BY <1>0, <1>1 DEF Phase
<1>4. PICK ch, V, iv : PassOne(h, mem, ch, V, iv, xr, stk, segs)  BY <1>3 DEF PassOneOn
<1>5. /\ Len(stk) > 1 => PassOneOn(h, mem, stk[1].field + W, Tail(stk), segs)
      /\ ~ (Len(stk) > 1) /\ segs # <<>> =>
              PassOneOn(h, mem, segs[1][1], <<Level(0, segs[1][2])>>, Tail(segs))
      /\ ~ (Len(stk) > 1) /\ segs = <<>> => Threaded(h, mem, ch, h.used, {})
  BY <1>0, <1>3, <1>4, PassOnePop
<1>6. CASE Len(stk) > 1 \/ segs # <<>>
  <2>1. PassOneOn(h, mem', xr', stk', segs') /\ gpc' = gpc  BY <1>0, <1>2, <1>5, <1>6
  <2>2. Phase(h, gpc', mem', dnamb', dnamp', gbcsd', xr', wa', wc', stk', segs', gbclm')
    BY <1>0, <1>1, <2>1 DEF Phase
  <2> QED BY <1>0, <2>2 DEF CollectorInv
<1>7. CASE ~ (Len(stk) > 1) /\ segs = <<>>
  <2>1. Threaded(h, mem, ch, h.used, {}) /\ xr' = h.bottom /\ gpc' = "sediment"
    BY <1>2, <1>3, <1>5, <1>7
  <2>2. SedimentScanned(h, mem', ch, xr')  BY <1>0, <1>3, <2>1, SedimentBegins
  <2>3. Phase(h, gpc', mem', dnamb', dnamp', gbcsd', xr', wa', wc', stk', segs', gbclm')
    BY <1>0, <1>1, <2>1, <2>2 DEF Phase, Phases
  <2> QED BY <1>0, <2>3 DEF CollectorInv
<1> QED BY <1>6, <1>7

(* A block of the sediment, or the end of it.                               *)
LEMMA SedimentPhase == ASSUME CollectorInv, Sediment PROVE CollectorInv'
<1> DEFINE h == Collection
<1>0. gpc = "sediment" /\ Collection' = h /\ h.up = up
      /\ UNCHANGED <<dnamb, dnamp, wa, stk, segs, gbcsd>>
  BY CollectionKept DEF Sediment
<1>1. Phase(h, gpc, mem, dnamb, dnamp, gbcsd, xr, wa, wc, stk, segs, gbclm)  BY <1>0 DEF CollectorInv
<1>2. /\ xr # gbcsd => /\ mem' = IF Even(mem[xr]) THEN [mem EXCEPT ![xr] = mem[xr] - 1] ELSE mem
                       /\ xr' = xr + BlkLn(mem', mem'[xr], xr) /\ UNCHANGED <<gpc, wc, gbclm>>
      /\ xr = gbcsd => /\ gpc' = "used" /\ wc' = xr + up /\ gbclm' = GbcNm
                       /\ mem' = [mem EXCEPT ![GbcNm] = 0, ![GbcNs] = xr] /\ xr' = xr
  BY DEF Sediment
<1> HIDE DEF h
<1>3. Collectable(h) /\ gbcsd = h.sed /\ \E ch : SedimentScanned(h, mem, ch, xr)
  BY <1>0, <1>1 DEF Phase
<1>4. PICK ch : SedimentScanned(h, mem, ch, xr)  BY <1>3
<1>5. CASE xr # gbcsd
  <2>1. mem' = Unmarked(mem, xr)  BY <1>2, <1>5 DEF Unmarked
  <2>2. /\ BlkLn(Unmarked(mem, xr), Unmarked(mem, xr)[xr], xr) = Length(h, xr)
        /\ SedimentScanned(h, Unmarked(mem, xr), ch, xr + Length(h, xr))
    BY <1>3, <1>4, <1>5, SedimentStep
  <2>3. SedimentScanned(h, mem', ch, xr')  BY <1>2, <1>5, <2>1, <2>2
  <2>4. Phase(h, gpc', mem', dnamb', dnamp', gbcsd', xr', wa', wc', stk', segs', gbclm')
    BY <1>0, <1>1, <1>2, <1>5, <2>3 DEF Phase
  <2> QED BY <1>0, <2>4 DEF CollectorInv
<1>6. CASE xr = gbcsd
  <2>1. xr = h.sed /\ xr' = h.sed /\ gpc' = "used" /\ wc' = h.sed + h.up /\ gbclm' = GbcNm
        /\ mem' = [mem EXCEPT ![GbcNm] = 0, ![GbcNs] = h.sed]
    BY <1>0, <1>2, <1>3, <1>6
  <2>2. Passed(h, mem, ch, h.sed, LinksFrom(h, ch, h.sed))  BY <1>3, <1>4, <2>1, SedimentEnds
  <2> DEFINE m1 == [mem EXCEPT ![GbcNm] = 0]
             m2 == [m1 EXCEPT ![GbcNs] = h.sed]
  <2>3. mem' = m2  BY <2>1
  <2>4. GbcNm \in Free(h, h.sed) /\ GbcNs \in Free(h, h.sed) /\ h.sed \in Nat /\ 0 \in Nat
    BY <1>3, CollectionNumbers DEF Free
  <2>5. Passed(h, m1, ch, h.sed, LinksFrom(h, ch, h.sed))  BY <1>3, <2>2, <2>4, FreeWritten
  <2>6. Passed(h, m2, ch, h.sed, LinksFrom(h, ch, h.sed))
    <3> HIDE DEF m1
    <3> QED BY <1>3, <2>4, <2>5, FreeWritten
  <2>7. m2[GbcNm] = 0 /\ m2[GbcNs] = h.sed
    <3>1. mem \in [Cells -> Nat]  BY <2>2 DEF Passed
    <3> QED BY <3>1, HeadCells
  <2> HIDE DEF m1, m2
  <2>8. Runs(h, m2, FirstRun(h), h.sed, TRUE)  BY <1>3, <2>7, RunsBegin
  <2>9. /\ FirstRun(h)[Len(FirstRun(h))].to = h.sed /\ FirstRun(h)[Len(FirstRun(h))].at = GbcNm
    BY DEF FirstRun
  <2>10. To(h, h.sed) = h.sed  BY <1>3, ToSediment
  <2>11. InUsed(h, mem', xr', wc', gbclm')
    BY <2>1, <2>3, <2>6, <2>8, <2>9, <2>10, Zenon DEF InUsed
  <2>12. Phase(h, gpc', mem', dnamb', dnamp', gbcsd', xr', wa', wc', stk', segs', gbclm')
    BY <1>0, <1>1, <2>1, <2>11 DEF Phase, Phases
  <2> QED BY <1>0, <2>12 DEF CollectorInv
<1> QED BY <1>5, <1>6

(* The next block of a run, or the end of the run.                          *)
LEMMA UsedPhase == ASSUME CollectorInv, Used PROVE CollectorInv'
<1> DEFINE h == Collection
           r == mem[gbclm + W]
<1>0. gpc = "used" /\ Collection' = h /\ h.up = up
      /\ UNCHANGED <<dnamb, dnamp, xr, wc, stk, segs, gbcsd, gbclm>>
  BY CollectionKept DEF Used
<1>1. Phase(h, gpc, mem, dnamb, dnamp, gbcsd, xr, wa, wc, stk, segs, gbclm)  BY <1>0 DEF CollectorInv
<1>2. /\ xr # dnamp /\ Even(mem[xr]) => gpc' = "chain" /\ wa' = mem[xr] /\ mem' = mem
      /\ ~ (xr # dnamp /\ Even(mem[xr])) =>
           gpc' = "unused" /\ mem' = [mem EXCEPT ![gbclm + W] = xr - mem[gbclm + W]]
  BY DEF Used, RunLength
<1> HIDE DEF h
<1>3. Collectable(h) /\ dnamp = h.top /\ InUsed(h, mem, xr, wc, gbclm)
  BY <1>0, <1>1 DEF Phase
<1>4. PICK ch, R : /\ Passed(h, mem, ch, xr, LinksFrom(h, ch, xr)) /\ Runs(h, mem, R, xr, TRUE)
                   /\ R[Len(R)].to = xr /\ gbclm = R[Len(R)].at /\ wc = To(h, xr) + h.up
  BY <1>3 DEF InUsed
<1>5. xr \in Places(h) /\ mem \in [Cells -> Nat]  BY <1>4 DEF Passed
<1>6. CASE xr # dnamp /\ Even(mem[xr])
  <2>1. /\ xr \in h.blocks /\ mem[xr] = Link(ch[xr], Len(ch[xr]), h.mem[xr])
        /\ Even(mem[xr]) <=> xr \in h.used
    BY <1>3, <1>4, <1>6, PassedEntry
  <2>2. xr \in h.used /\ Len(ch[xr]) \in Nat /\ xr \in Nat
    <3>1. h.used \subseteq h.used /\ Chains(h, ch, h.used, {})  BY <1>4 DEF Passed
    <3>2. Len(ch[xr]) \in Nat  BY <1>3, <2>1, <3>1, ChainFields
    <3> QED BY <1>3, <1>6, <2>1, <3>2, CollectionNumbers
  <2>3. LinksLeft(h, ch, xr, Len(ch[xr])) = LinksFrom(h, ch, xr)
    <3>1. LinksFrom(h, ch, xr)[xr] = Len(ch[xr])  BY <2>1, <2>2 DEF LinksFrom
    <3> QED BY <3>1 DEF LinksLeft, LinksFrom
  <2>4. Len(ch[xr]) \in 0 .. Len(ch[xr])  BY <2>2
  <2>5. gpc' = "chain" /\ wa' = Link(ch[xr], Len(ch[xr]), h.mem[xr]) /\ mem' = mem /\ xr' = xr
        /\ wc' = wc /\ gbclm' = gbclm
    BY <1>0, <1>2, <1>6, <2>1
  <2>6. InChain(h, mem, xr, Link(ch[xr], Len(ch[xr]), h.mem[xr]), wc, gbclm)
    BY <1>4, <2>1, <2>2, <2>3, <2>4, Zenon DEF InChain
  <2>7. InChain(h, mem', xr', wa', wc', gbclm')  BY <2>5, <2>6
  <2>8. Phase(h, gpc', mem', dnamb', dnamp', gbcsd', xr', wa', wc', stk', segs', gbclm')
    BY <1>0, <1>1, <2>5, <2>7 DEF Phase, Phases
  <2> QED BY <1>0, <2>8 DEF CollectorInv
<1>7. CASE ~ (xr # dnamp /\ Even(mem[xr]))
  <2>1. xr \notin h.used
    <3>1. CASE xr = dnamp
      <4>1. \A y \in h.blocks : ~ (y = h.top)
        <5>1. h.top \in Nat /\ \A y \in h.blocks : y < h.top /\ y \in Nat  BY <1>3, CollectionNumbers
        <5> QED BY <5>1
      <4> QED BY <1>3, <3>1, <4>1 DEF Collectable
    <3>2. CASE xr # dnamp
      <4>1. Even(mem[xr]) <=> xr \in h.used  BY <1>3, <1>4, <3>2, PassedEntry
      <4> QED BY <1>7, <3>2, <4>1
    <3> QED BY <3>1, <3>2
  <2> DEFINE e == R[Len(R)]
             m2 == [mem EXCEPT ![e.at + W] = e.to - e.from]
  <2>2. /\ mem[e.at + W] = e.from /\ e.at + W \in Free(h, xr) /\ e.to - e.from \in Nat
        /\ Runs(h, m2, R, xr, FALSE)
    <3>1. Collectable(h) /\ Runs(h, mem, R, xr, TRUE) /\ mem \in [Cells -> Nat] /\ xr \in Places(h)
      BY <1>3, <1>4, <1>5
    <3>2. ClosesTo(h, mem, R, xr, e, Closed(mem, e))  BY <3>1, RunCloses
    <3>3. Closed(mem, e) = m2  BY Zenon DEF Closed
    <3> QED BY <3>2, <3>3, Zenon DEF ClosesTo
  <2>3. mem' = m2 /\ gpc' = "unused"
    <3>1. gbclm = e.at /\ e.to = xr  BY <1>4
    <3>2. xr - mem[gbclm + W] = e.to - e.from  BY <2>2, <3>1, Zenon
    <3>3. gpc' = "unused" /\ mem' = [mem EXCEPT ![gbclm + W] = xr - mem[gbclm + W]]  BY <1>2, <1>7
    <3> QED BY <3>1, <3>2, <3>3, Zenon
  <2>4. Passed(h, m2, ch, xr, LinksFrom(h, ch, xr))  BY <1>3, <1>4, <2>2, FreeWritten
  <2>5. \A y \in h.blocks : ~ (R[Len(R)].to <= y /\ y < xr)
    <3>1. \A y \in h.blocks : y \in Nat  BY <1>3, CollectionNumbers
    <3>2. xr \in Nat  BY <1>3, <1>5, CollectionNumbers DEF Places
    <3>3. \A y \in h.blocks : ~ (xr <= y /\ y < xr)  BY <3>1, <3>2
    <3> QED BY <1>4, <3>3, Zenon
  <2> HIDE DEF m2
  <2>6. InUnused(h, m2, xr, wc, gbclm)
    BY <1>4, <2>1, <2>2, <2>4, <2>5, Zenon DEF InUnused
  <2>7. InUnused(h, mem', xr', wc', gbclm')  BY <1>0, <2>3, <2>6
  <2>8. Phase(h, gpc', mem', dnamb', dnamp', gbcsd', xr', wa', wc', stk', segs', gbclm')
    BY <1>0, <1>1, <2>3, <2>7 DEF Phase, Phases
  <2> QED BY <1>0, <2>8 DEF CollectorInv
<1> QED BY <1>6, <1>7

(* A field of a chain, or its end.                                          *)
LEMMA ChainPhase == ASSUME CollectorInv, Chain PROVE CollectorInv'
<1> DEFINE h == Collection
<1>0. gpc = "chain" /\ Collection' = h /\ h.up = up
      /\ UNCHANGED <<dnamb, dnamp, stk, segs, gbcsd, gbclm>>
  BY CollectionKept DEF Chain
<1>1. Phase(h, gpc, mem, dnamb, dnamp, gbcsd, xr, wa, wc, stk, segs, gbclm)  BY <1>0 DEF CollectorInv
<1>2. /\ Even(wa) => mem' = [mem EXCEPT ![wa] = wc] /\ wa' = mem[wa] /\ UNCHANGED <<gpc, xr, wc>>
      /\ ~Even(wa) => /\ mem' = [mem EXCEPT ![xr] = wa] /\ gpc' = "used"
                      /\ xr' = xr + BlkLn(mem', wa, xr) /\ wc' = wc + BlkLn(mem', wa, xr)
  BY DEF Chain
<1> HIDE DEF h
<1>3. Collectable(h) /\ InChain(h, mem, xr, wa, wc, gbclm)  BY <1>0, <1>1 DEF Phase
<1>4. xr \in h.blocks /\ xr \in h.used  BY <1>3 DEF InChain
<1>5. PICK ch, R : \E j \in 0 .. Len(ch[xr]) :
        /\ Passed(h, mem, ch, xr, LinksLeft(h, ch, xr, j)) /\ Runs(h, mem, R, xr, TRUE)
        /\ R[Len(R)].to = xr /\ gbclm = R[Len(R)].at /\ wc = To(h, xr) + h.up
        /\ wa = Link(ch[xr], j, h.mem[xr])
  BY <1>3 DEF InChain
<1>6. PICK j \in 0 .. Len(ch[xr]) :
        /\ Passed(h, mem, ch, xr, LinksLeft(h, ch, xr, j)) /\ Runs(h, mem, R, xr, TRUE)
        /\ R[Len(R)].to = xr /\ gbclm = R[Len(R)].at /\ wc = To(h, xr) + h.up
        /\ wa = Link(ch[xr], j, h.mem[xr])
  BY <1>5
<1>7. xr \in Places(h) /\ mem \in [Cells -> Nat] /\ Chains(h, ch, h.used, {})  BY <1>6 DEF Passed
<1>8. h.sed <= xr /\ xr \in Nat /\ xr \in Cells
  BY <1>3, <1>4, <1>7, CollectionNumbers, BlockIsCell DEF Places
<1>9. Len(ch[xr]) \in Nat
  <2>1. h.used \subseteq h.used  OBVIOUS
  <2> QED BY <1>3, <1>4, <1>7, <2>1, ChainFields
<1>10. CASE Even(wa)
  <2>1. j # 0
    <3>1. ~Even(h.mem[xr])  BY <1>3, <1>4, EntryIsOdd
    <3> QED BY <1>6, <1>10, <3>1 DEF Link
  <2>2. j \in 1 .. Len(ch[xr]) /\ j - 1 \in 0 .. Len(ch[xr])  BY <1>9, <2>1
  <2>3. /\ wa \in Cells /\ wa \in LiveFields(h) /\ mem[wa] = Link(ch[xr], j - 1, h.mem[xr])
        /\ Passed(h, [mem EXCEPT ![wa] = To(h, xr) + h.up], ch, xr, LinksLeft(h, ch, xr, j - 1))
    <3>1. Passed(h, mem, ch, xr, LinksLeft(h, ch, xr, j)) /\ wa = Link(ch[xr], j, h.mem[xr])  BY <1>6
    <3>2. LET a == Link(ch[xr], j, h.mem[xr]) IN
          /\ a \in Cells /\ a \in LiveFields(h) /\ Even(a) /\ mem[a] = Link(ch[xr], j - 1, h.mem[xr])
          /\ Passed(h, [mem EXCEPT ![a] = To(h, xr) + h.up], ch, xr, LinksLeft(h, ch, xr, j - 1))
      BY <1>3, <1>4, <2>2, <3>1, ChainStep
    <3> QED BY <3>1, <3>2, Zenon
  <2> DEFINE m2 == [mem EXCEPT ![wa] = wc]
  <2>4. Passed(h, m2, ch, xr, LinksLeft(h, ch, xr, j - 1))  BY <1>6, <2>3
  <2>5. \A a \in Free(h, xr) : m2[a] = mem[a]
    <3>1. wa \notin Free(h, xr)  BY <1>3, <2>3, NotFree
    <3>2. Free(h, xr) \subseteq Cells  BY <1>3, <1>7, FreeCells
    <3> QED BY <1>7, <3>1, <3>2
  <2>6. mem' = m2 /\ wa' = Link(ch[xr], j - 1, h.mem[xr]) /\ xr' = xr /\ wc' = wc /\ gpc' = gpc
    BY <1>2, <1>10, <2>3
  <2> HIDE DEF m2
  <2>7. Runs(h, m2, R, xr, TRUE)
    <3>1. xr <= xr  BY <1>8
    <3> QED BY <1>3, <1>6, <1>7, <2>5, <3>1, RunsKept
  <2>8. InChain(h, m2, xr, Link(ch[xr], j - 1, h.mem[xr]), wc, gbclm)
    BY <1>4, <1>6, <2>2, <2>4, <2>7, Zenon DEF InChain
  <2>9. InChain(h, mem', xr', wa', wc', gbclm')  BY <1>0, <2>6, <2>8
  <2>10. Phase(h, gpc', mem', dnamb', dnamp', gbcsd', xr', wa', wc', stk', segs', gbclm')
    BY <1>0, <1>1, <2>6, <2>9 DEF Phase
  <2> QED BY <1>0, <2>10 DEF CollectorInv
<1>11. CASE ~Even(wa)
  <2>1. j = 0
    <3> SUFFICES ASSUME j # 0 PROVE FALSE  OBVIOUS
    <3>1. j \in 1 .. Len(ch[xr])  BY <1>9
    <3>2. Even(wa)  BY <1>3, <1>4, <1>6, <3>1, ChainStep
    <3> QED BY <1>11, <3>2
  <2>2. wa = h.mem[xr]  BY <1>6, <2>1 DEF Link
  <2> DEFINE m2 == [mem EXCEPT ![xr] = h.mem[xr]]
             z == xr + Length(h, xr)
  <2>3. BlkLn(m2, h.mem[xr], xr) = Length(h, xr) /\ Passed(h, m2, ch, z, LinksFrom(h, ch, z))
    <3>1. LinksLeft(h, ch, xr, j) = LinksLeft(h, ch, xr, 0)  BY <2>1
    <3>2. Passed(h, mem, ch, xr, LinksLeft(h, ch, xr, 0))  BY <1>6, <3>1
    <3> QED BY <1>3, <1>4, <3>2, PassedOn
  <2>4. mem' = m2 /\ gpc' = "used" /\ xr' = z /\ wc' = wc + Length(h, xr)
    BY <1>2, <1>11, <2>2, <2>3
  <2>5. \A a \in Free(h, xr) : m2[a] = mem[a]
    <3>1. xr \notin Free(h, xr)  BY <1>3, <1>4, NotFree
    <3>2. Free(h, xr) \subseteq Cells  BY <1>3, <1>7, FreeCells
    <3> QED BY <1>7, <3>1, <3>2
  <2> HIDE DEF m2
  <2> DEFINE Q == Longer(R, z)
  <2>6. /\ Runs(h, m2, Q, z, TRUE) /\ Len(Q) = Len(R) /\ Q[Len(R)].to = z
        /\ Q[Len(R)].at = R[Len(R)].at
    <3>1. Collectable(h) /\ xr \in h.blocks /\ xr \in h.used /\ h.sed <= xr  BY <1>3, <1>4, <1>8
    <3>2. Runs(h, mem, R, xr, TRUE) /\ R[Len(R)].to = xr  BY <1>6
    <3>3. GrowsTo(h, R, m2, z, Q)  BY <2>5, <3>1, <3>2, RunGrows
    <3> QED BY <3>3 DEF GrowsTo
  <2>7. wc + Length(h, xr) = To(h, z) + h.up
    <3>1. To(h, z) = To(h, xr) + Length(h, xr)  BY <1>3, <1>4, <1>8, ToStep
    <3>2. To(h, xr) \in Nat /\ Length(h, xr) \in Nat /\ h.up \in Nat
      BY <1>3, <1>4, <1>7, ToBounds, CollectionNumbers
    <3> HIDE DEF z
    <3> QED BY <1>6, <3>1, <3>2
  <2> HIDE DEF Q, z
  <2>8. Q[Len(Q)].to = z /\ gbclm = Q[Len(Q)].at  BY <1>6, <2>6
  <2>9. InUsed(h, m2, z, wc + Length(h, xr), gbclm)
    BY <2>3, <2>6, <2>7, <2>8, Zenon DEF InUsed
  <2>10. InUsed(h, mem', xr', wc', gbclm')  BY <1>0, <2>4, <2>9
  <2>11. Phase(h, gpc', mem', dnamb', dnamp', gbcsd', xr', wa', wc', stk', segs', gbclm')
    BY <1>0, <1>1, <2>4, <2>10 DEF Phase, Phases
  <2> QED BY <1>0, <2>11 DEF CollectorInv
<1> QED BY <1>10, <1>11

(* A block that is not in use, the first that is, or the end of pass two.   *)
LEMMA UnusedPhase == ASSUME CollectorInv, Unused PROVE CollectorInv'
<1> DEFINE h == Collection
<1>0. gpc = "unused" /\ Collection' = h /\ h.up = up
      /\ UNCHANGED <<dnamb, dnamp, wc, stk, segs, gbcsd>>
  BY CollectionKept DEF Unused
<1>1. Phase(h, gpc, mem, dnamb, dnamp, gbcsd, xr, wa, wc, stk, segs, gbclm)  BY <1>0 DEF CollectorInv
<1>2. /\ xr = dnamp => gpc' = "move" /\ xr' = gbcsd + mem[GbcNs] /\ mem' = mem
      /\ xr # dnamp /\ Even(mem[xr]) =>
           /\ gpc' = "chain" /\ wa' = mem[xr] /\ gbclm' = xr - 2 * W /\ xr' = xr
           /\ mem' = [mem EXCEPT ![gbclm] = xr - 2 * W, ![xr - 2 * W] = 0, ![xr - W] = xr]
      /\ xr # dnamp /\ ~Even(mem[xr]) =>
           xr' = xr + BlkLn(mem, mem[xr], xr) /\ UNCHANGED <<gpc, mem, gbclm>>
  BY DEF Unused, FirstGap
<1> HIDE DEF h
<1>3. Collectable(h) /\ gbcsd = h.sed /\ dnamp = h.top /\ InUnused(h, mem, xr, wc, gbclm)
  BY <1>0, <1>1 DEF Phase
<1>4. PICK ch, R :
        /\ Passed(h, mem, ch, xr, LinksFrom(h, ch, xr)) /\ Runs(h, mem, R, xr, FALSE)
        /\ gbclm = R[Len(R)].at /\ wc = To(h, xr) + h.up
        /\ \A y \in h.blocks : R[Len(R)].to <= y /\ y < xr => y \notin h.used
        /\ R[Len(R)].to = xr => xr \notin h.used
        /\ R[Len(R)].to = xr \/ R[Len(R)].to + 2 * W <= xr
  BY <1>3 DEF InUnused
<1>5. xr \in Places(h) /\ mem \in [Cells -> Nat] /\ Chains(h, ch, h.used, {})  BY <1>4 DEF Passed
<1>6. h.sed <= xr /\ xr \in Nat  BY <1>3, <1>5, CollectionNumbers DEF Places
<1>7. CASE xr = dnamp
  <2>1. xr = h.top /\ gpc' = "move" /\ xr' = h.sed + mem[GbcNs] /\ mem' = mem  BY <1>2, <1>3, <1>7
  <2>2. RunsSettled(h, mem, R)
    <3>1. \A y \in h.blocks : y < h.top  BY <1>3, CollectionNumbers
    <3>2. \A y \in h.blocks : R[Len(R)].to <= y => y \notin h.used  BY <1>4, <2>1, <3>1
    <3>3. Runs(h, mem, R, h.top, FALSE)  BY <1>4, <2>1
    <3> QED BY <3>2, <3>3 DEF RunsSettled
  <2>3. Passed(h, mem, ch, h.top, LinksFrom(h, ch, h.top))  BY <1>4, <2>1
  <2>4. Moving(h, mem, mem, R, 1, h.sed + mem[GbcNs])  BY <1>3, <2>2, <2>3, MovingBegins
  <2>5. InMove(h, mem', xr')  BY <2>1, <2>4 DEF InMove
  <2>6. Phase(h, gpc', mem', dnamb', dnamp', gbcsd', xr', wa', wc', stk', segs', gbclm')
    BY <1>0, <1>1, <2>1, <2>5 DEF Phase, Phases
  <2> QED BY <1>0, <2>6 DEF CollectorInv
<1>8. CASE xr # dnamp /\ Even(mem[xr])
  <2>1. /\ xr \in h.blocks /\ mem[xr] = Link(ch[xr], Len(ch[xr]), h.mem[xr])
        /\ xr \in h.used
    <3>1. /\ xr \in h.blocks /\ mem[xr] = Link(ch[xr], Len(ch[xr]), h.mem[xr])
          /\ Even(mem[xr]) <=> xr \in h.used
      BY <1>3, <1>4, <1>8, PassedEntry
    <3> QED BY <1>8, <3>1
  <2>2. Len(ch[xr]) \in Nat
    <3>1. h.used \subseteq h.used  OBVIOUS
    <3> QED BY <1>3, <1>5, <2>1, <3>1, ChainFields
  <2>3. LinksLeft(h, ch, xr, Len(ch[xr])) = LinksFrom(h, ch, xr)
    <3>1. LinksFrom(h, ch, xr)[xr] = Len(ch[xr])  BY <1>6, <2>1 DEF LinksFrom
    <3> QED BY <3>1 DEF LinksLeft, LinksFrom
  <2>4. Len(ch[xr]) \in 0 .. Len(ch[xr])  BY <2>2
  <2>5. R[Len(R)].to + 2 * W <= xr  BY <1>4, <2>1
  <2> DEFINE r == R[Len(R)]
             d == xr - 2 * W
             m2 == Opened(mem, r, d, xr)
  <2>6. OpensTo(h, R, xr, r, d, m2)
    <3>1. \A y \in h.blocks : R[Len(R)].to <= y /\ y < xr => y \notin h.used  BY <1>4
    <3>2. Collectable(h) /\ mem \in [Cells -> Nat] /\ xr \in Places(h) /\ Runs(h, mem, R, xr, FALSE)
      BY <1>3, <1>4, <1>5
    <3> QED BY <2>5, <3>1, <3>2, RunOpens
  <2>7. mem' = m2 /\ gpc' = "chain" /\ xr' = xr /\ gbclm' = d
        /\ wa' = Link(ch[xr], Len(ch[xr]), h.mem[xr])
    <3>1. gbclm = r.at  BY <1>4
    <3> QED BY <1>2, <1>8, <2>1, <3>1 DEF Opened
  <2> HIDE DEF r, d
  <2>8. r.at \in Free(h, xr) /\ d \in Free(h, xr) /\ xr - W \in Free(h, xr) /\ d \in Nat /\ 0 \in Nat
    BY <2>6 DEF OpensTo
  <2>9. Passed(h, m2, ch, xr, LinksFrom(h, ch, xr))
    <3> DEFINE p == [mem EXCEPT ![r.at] = d]
               q == [p EXCEPT ![d] = 0]
               s == [q EXCEPT ![xr - W] = xr]
    <3>1. Passed(h, p, ch, xr, LinksFrom(h, ch, xr))  BY <1>3, <1>4, <2>8, FreeWritten
    <3> HIDE DEF p
    <3>2. Passed(h, q, ch, xr, LinksFrom(h, ch, xr))  BY <1>3, <2>8, <3>1, FreeWritten
    <3> HIDE DEF q
    <3>3. Passed(h, s, ch, xr, LinksFrom(h, ch, xr))  BY <1>3, <1>6, <2>8, <3>2, FreeWritten
    <3>4. m2 = s  BY DEF Opened, p, q
    <3> QED BY <3>3, <3>4
  <2>10. PICK Q : Runs(h, m2, Q, xr, TRUE) /\ Q[Len(Q)].at = d /\ Q[Len(Q)].to = xr
    BY <2>6 DEF OpensTo
  <2> HIDE DEF m2
  <2>11. InChain(h, m2, xr, Link(ch[xr], Len(ch[xr]), h.mem[xr]), wc, d)
    <3>1. wc = To(h, xr) + h.up /\ d = Q[Len(Q)].at  BY <1>4, <2>10
    <3> QED BY <2>1, <2>3, <2>4, <2>9, <2>10, <3>1, Zenon DEF InChain
  <2>12. InChain(h, mem', xr', wa', wc', gbclm')  BY <1>0, <2>7, <2>11
  <2>13. Phase(h, gpc', mem', dnamb', dnamp', gbcsd', xr', wa', wc', stk', segs', gbclm')
    BY <1>0, <1>1, <2>7, <2>12 DEF Phase, Phases
  <2> QED BY <1>0, <2>13 DEF CollectorInv
<1>9. CASE xr # dnamp /\ ~Even(mem[xr])
  <2>1. xr \in h.blocks /\ xr \notin h.used /\ mem[xr] = h.mem[xr]
    <3>1. /\ xr \in h.blocks /\ (Even(mem[xr]) <=> xr \in h.used)
          /\ xr \notin h.used => mem[xr] = h.mem[xr]
      BY <1>3, <1>4, <1>9, PassedEntry
    <3> QED BY <1>9, <3>1
  <2> DEFINE m2 == [mem EXCEPT ![xr] = h.mem[xr]]
             z == xr + Length(h, xr)
  <2>2. m2 = mem  BY <1>5, <2>1
  <2>3. BlkLn(m2, h.mem[xr], xr) = Length(h, xr) /\ Passed(h, m2, ch, z, LinksFrom(h, ch, z))
    <3>1. \E k : k = LinksFrom(h, ch, xr) /\ Passed(h, mem, ch, xr, k)  BY <1>4
    <3>2. PICK k : k = LinksFrom(h, ch, xr) /\ Passed(h, mem, ch, xr, k)  BY <3>1
    <3> HIDE DEF z
    <3>3. BlkLn(m2, h.mem[xr], xr) = Length(h, xr)  BY <1>3, <2>1, <3>2, PassedOn
    <3>4. Passed(h, m2, ch, xr + Length(h, xr), LinksFrom(h, ch, xr + Length(h, xr)))
      BY <1>3, <2>1, <3>2, PassedOn
    <3> QED BY <3>3, <3>4 DEF z
  <2>4. mem' = mem /\ gpc' = gpc /\ xr' = z /\ gbclm' = gbclm
    BY <1>2, <1>9, <2>1, <2>2, <2>3
  <2>5. BlkLn(mem, mem[xr], xr) = Length(h, xr) /\ Passed(h, mem, ch, z, LinksFrom(h, ch, z))
    BY <2>1, <2>2, <2>3
  <2>6. Length(h, xr) \in Nat /\ Length(h, xr) >= 2 * W /\ xr < z /\ z \in Nat
        /\ \A y \in h.blocks : y \in Nat /\ (y < z => y <= xr)
    <3>1. Length(h, xr) \in Nat /\ Length(h, xr) >= 2 * W /\ xr < z  BY <1>3, <2>1, CollectionNumbers
    <3>2. ASSUME NEW y \in h.blocks PROVE y \in Nat /\ (y < z => y <= xr)
      <4>1. y \in Nat  BY <1>3, CollectionNumbers
      <4>2. xr < y => z <= y  BY <1>3, <2>1, CollectionNumbers
      <4> QED BY <1>6, <3>1, <4>1, <4>2
    <3> QED BY <1>6, <3>1, <3>2
  <2>7. z \in Places(h)  BY <2>5 DEF Passed
  <2> HIDE DEF z
  <2>8. Runs(h, mem, R, z, FALSE)
    <3>1. xr <= z /\ \A a \in Free(h, xr) : mem[a] = mem[a]  BY <1>6, <2>6
    <3> QED BY <1>3, <1>4, <1>5, <2>7, <3>1, RunsKept
  <2>9. \A y \in h.blocks : R[Len(R)].to <= y /\ y < z => y \notin h.used
    <3> SUFFICES ASSUME NEW y \in h.blocks, R[Len(R)].to <= y, y < z PROVE y \notin h.used
      OBVIOUS
    <3>1. y <= xr /\ y \in Nat  BY <2>6
    <3>2. CASE y = xr  BY <2>1, <3>2
    <3>3. CASE y < xr  BY <1>4, <3>3
    <3> QED BY <1>6, <3>1, <3>2, <3>3
  <2>10. R[Len(R)].to + 2 * W <= z /\ R[Len(R)].to # z
    <3>1. R[Len(R)].to \in Nat
      <4>1. Len(R) \in 1 .. Len(R)  BY <1>3, <1>4, <1>5, RunNumbers
      <4> QED BY <1>3, <1>4, <1>5, <4>1, RunNumbers
    <3> DEFINE t == R[Len(R)].to
    <3>2. t \in Nat /\ (t = xr \/ t + 2 * W <= xr)  BY <1>4, <3>1
    <3> HIDE DEF t
    <3>3. z = xr + Length(h, xr)  BY DEF z
    <3>4. t + 2 * W <= z /\ t # z  BY <1>6, <2>6, <3>2, <3>3, WordBytes
    <3> QED BY <3>4 DEF t
  <2>11. wc = To(h, z) + h.up
    <3>1. To(h, z) = To(h, xr)  BY <1>3, <1>6, <2>1, ToStep DEF z
    <3> QED BY <1>4, <3>1
  <2>12. InUnused(h, mem, z, wc, gbclm)
    BY <1>4, <2>5, <2>8, <2>9, <2>10, <2>11, Zenon DEF InUnused
  <2>13. InUnused(h, mem', xr', wc', gbclm')  BY <1>0, <2>4, <2>12
  <2>14. Phase(h, gpc', mem', dnamb', dnamp', gbcsd', xr', wa', wc', stk', segs', gbclm')
    BY <1>0, <1>1, <2>4, <2>13 DEF Phase
  <2> QED BY <1>0, <2>14 DEF CollectorInv
<1> QED BY <1>7, <1>8, <1>9

(* A run is moved, or all of them are.                                      *)
LEMMA MovePhase == ASSUME CollectorInv, Move PROVE CollectorInv'
<1> DEFINE h == Collection
           d == mem[GbcNm]
<1>0. gpc = "move" /\ Collection' = h /\ h.up = up
      /\ UNCHANGED <<dnamb, wa, wc, stk, segs, gbcsd, gbclm>>
  BY CollectionKept DEF Move
<1>1. Phase(h, gpc, mem, dnamb, dnamp, gbcsd, xr, wa, wc, stk, segs, gbclm)  BY <1>0 DEF CollectorInv
<1>2. /\ d = 0 => gpc' = "up" /\ dnamp' = xr /\ mem' = mem
      /\ d # 0 => /\ mem' = Moved([mem EXCEPT ![GbcNm] = mem[d]], d + 2 * W, xr, mem[d + W])
                  /\ xr' = xr + mem[d + W] /\ UNCHANGED <<gpc, dnamp>>
  BY DEF Move
<1> HIDE DEF h
<1>3. Collectable(h) /\ InMove(h, mem, xr)  BY <1>0, <1>1 DEF Phase
<1>4. PICK m0, R, k : Moving(h, m0, mem, R, k, xr)  BY <1>3 DEF InMove
<1>5. (d = 0 <=> k = Len(R)) /\ (k = Len(R) => AllMoved(h, mem) /\ xr = To(h, h.top))
  BY <1>3, <1>4, MoveEnds
<1>6. CASE d = 0
  <2>1. AllMoved(h, mem') /\ dnamp' = To(h, h.top) /\ gpc' = "up"  BY <1>2, <1>5, <1>6
  <2>2. Phase(h, gpc', mem', dnamb', dnamp', gbcsd', xr', wa', wc', stk', segs', gbclm')
    BY <1>0, <1>1, <2>1 DEF Phase, Phases
  <2> QED BY <1>0, <2>2 DEF CollectorInv
<1>7. CASE d # 0
  <2> DEFINE m2 == Moved([mem EXCEPT ![GbcNm] = mem[d]], d + 2 * W, xr, mem[d + W])
  <2>1. k # Len(R)  BY <1>5, <1>7
  <2>2. \E e, m : e = d /\ m = m2 /\ Moving(h, m0, m, R, k + 1, xr + mem[e + W])
    <3>1. \E e : e = mem[GbcNm]  OBVIOUS
    <3>2. PICK e : e = mem[GbcNm]  BY <3>1
    <3>3. \E m : m = Moved([mem EXCEPT ![GbcNm] = mem[e]], e + 2 * W, xr, mem[e + W])  OBVIOUS
    <3>4. PICK m : m = Moved([mem EXCEPT ![GbcNm] = mem[e]], e + 2 * W, xr, mem[e + W])  BY <3>3
    <3>5. Moving(h, m0, m, R, k + 1, xr + mem[e + W])  BY <1>3, <1>4, <2>1, <3>2, <3>4, MoveStep
    <3> QED BY <3>2, <3>4, <3>5
  <2>3. Moving(h, m0, m2, R, k + 1, xr + mem[d + W])  BY <2>2
  <2>4. mem' = m2 /\ xr' = xr + mem[d + W] /\ gpc' = gpc /\ dnamp' = dnamp  BY <1>2, <1>7
  <2> HIDE DEF m2
  <2>5. InMove(h, mem', xr')  BY <2>3, <2>4 DEF InMove
  <2>6. Phase(h, gpc', mem', dnamb', dnamp', gbcsd', xr', wa', wc', stk', segs', gbclm')
    BY <1>0, <1>1, <2>4, <2>5 DEF Phase
  <2> QED BY <1>0, <2>6 DEF CollectorInv
<1> QED BY <1>6, <1>7

(* The whole area is moved up, and gbcol is done.                           *)
LEMMA UpPhase == ASSUME CollectorInv, Up PROVE CollectorInv'
<1> DEFINE h == Collection
<1>0. gpc = "up" /\ gpc' = "exit" /\ Collection' = h /\ h.up = up
      /\ mem' = (IF up = 0 THEN mem ELSE Moved(mem, dnamb, dnamb + up, dnamp - dnamb))
      /\ dnamb' = dnamb + up /\ dnamp' = dnamp + up
  BY CollectionKept DEF Up
<1>1. Phase(h, gpc, mem, dnamb, dnamp, gbcsd, xr, wa, wc, stk, segs, gbclm)  BY <1>0 DEF CollectorInv
<1> HIDE DEF h
<1>2. Collectable(h) /\ dnamb = h.bottom /\ AllMoved(h, mem) /\ dnamp = To(h, h.top)
  BY <1>0, <1>1 DEF Phase
<1>3. mem' = IF h.up = 0 THEN mem ELSE Moved(mem, h.bottom, h.bottom + h.up, To(h, h.top) - h.bottom)
  BY <1>0, <1>2
<1>4. Done(h, mem')  BY <1>2, <1>3, UpDone
<1>5. Phase(h, gpc', mem', dnamb', dnamp', gbcsd', xr', wa', wc', stk', segs', gbclm')
  BY <1>0, <1>1, <1>2, <1>4 DEF Phase, Phases
<1> QED BY <1>0, <1>5 DEF CollectorInv

(* Every step of the collector does what the next relies on.                *)
LEMMA CollectPhase == ASSUME CollectorInv, Collect PROVE CollectorInv'
BY FieldStep, PopStep, SedimentPhase, UsedPhase, ChainPhase, UnusedPhase, MovePhase, UpPhase DEF Collect

(* The collection that begins with the memory m and an area from b to t, of *)
(* which s bytes are sediment, to move the area up by n.                    *)
Begun(m, b, t, s, n) ==
  [mem |-> m, bottom |-> b, top |-> t, sed |-> b + s, up |-> n,
   blocks |-> Starts(m, b, t) \ {t}, used |-> Reachable(m, b, t)]

(* gbcol is entered.                                                        *)
LEMMA EnterPhase ==
  ASSUME NEW n, NEW s, EnterAt(n, s), Collectable(Begun(mem, dnamb, dnamp, s, n)),
         UsedIsLeast(Begun(mem, dnamb, dnamp, s, n))
  PROVE  CollectorInv' /\ Collection' = Begun(mem, dnamb, dnamp, s, n)
<1> DEFINE h == Begun(mem, dnamb, dnamp, s, n)
<1>1. /\ gpc' = "fields" /\ up' = n /\ dnams' = s /\ gbcsd' = dnamb + s
      /\ segs' = Tail(Roots) /\ xr' = Roots[1][1] /\ stk' = <<Level(0, Roots[1][2])>>
      /\ before' = [mem |-> mem, dnamb |-> dnamb, dnamp |-> dnamp, dnams |-> s]
      /\ UNCHANGED <<mem, dnamb, dnamp, wa, wc, gbclm>>
  BY DEF EnterAt
<1>2. Collection' = h  BY <1>1 DEF Collection, SedimentEnd, OldBlocks, InUse, Begun
<1>3. h.mem = mem /\ h.bottom = dnamb /\ h.top = dnamp /\ h.sed = dnamb + s  BY DEF Begun
<1>4. Collectable(h) /\ UsedIsLeast(h)  OBVIOUS
<1> HIDE DEF h
<1>5. PassOneOn(h, h.mem, Roots[1][1], <<Level(0, Roots[1][2])>>, Tail(Roots))  BY <1>4, PassOneBegins
<1>6. Phase(h, gpc', mem', dnamb', dnamp', gbcsd', xr', wa', wc', stk', segs', gbclm')
  BY <1>1, <1>3, <1>4, <1>5 DEF Phase, Phases
<1>7. CollectorInv'  BY <1>2, <1>6 DEF CollectorInv
<1> QED BY <1>2, <1>7 DEF h

(* The variables of a collection hold values of their types; dnamp stays    *)
(* within what the move up may use.                                         *)
LEMMA CollectorTypes ==
  ASSUME CollectorInv, gpc # "out"
  PROVE  /\ mem \in [Cells -> Nat] /\ dnamb \in Nat /\ dnamp \in Nat /\ gpc \in Phases
         /\ Collection.top \in Nat /\ Collection.up \in Nat /\ dnamp <= Collection.top + Collection.up
<1> DEFINE h == Collection
<1>1. Phase(h, gpc, mem, dnamb, dnamp, gbcsd, xr, wa, wc, stk, segs, gbclm)  BY DEF CollectorInv
<1> HIDE DEF h
<1>2. Collectable(h) /\ gpc \in Phases  BY <1>1 DEF Phase
<1>3. h.bottom \in Nat /\ h.top \in Nat /\ h.up \in Nat /\ h.sed <= h.top  BY <1>2, CollectionNumbers
<1>4. To(h, h.top) \in Nat /\ To(h, h.top) <= h.top
  <2>1. h.top \in Places(h)  BY <1>3 DEF Places
  <2> QED BY <1>2, <2>1, ToBounds
<1>5. dnamb \in Nat /\ dnamp \in Nat /\ dnamp <= h.top + h.up
  <2>1. CASE gpc = "exit"
    <3>1. dnamb = h.bottom + h.up /\ dnamp = To(h, h.top) + h.up  BY <1>1, <2>1 DEF Phase
    <3> QED BY <1>3, <1>4, <3>1
  <2>2. CASE gpc = "up"
    <3>1. dnamb = h.bottom /\ dnamp = To(h, h.top)  BY <1>1, <2>2 DEF Phase
    <3> QED BY <1>3, <1>4, <3>1
  <2>3. CASE gpc # "exit" /\ gpc # "up"
    <3>1. dnamb = h.bottom /\ dnamp = h.top  BY <1>1, <2>3 DEF Phase
    <3> QED BY <1>3, <3>1
  <2> QED BY <2>1, <2>2, <2>3
<1>6. mem \in [Cells -> Nat]
  <2>1. CASE gpc = "fields"
    <3>1. PassOneOn(h, mem, xr, stk, segs)  BY <1>1, <2>1 DEF Phase
    <3> QED BY <3>1 DEF PassOneOn, PassOne, Threaded
  <2>2. CASE gpc = "sediment"
    <3>1. \E ch : SedimentScanned(h, mem, ch, xr)  BY <1>1, <2>2 DEF Phase
    <3> QED BY <3>1 DEF SedimentScanned
  <2>3. CASE gpc = "used"
    <3>1. InUsed(h, mem, xr, wc, gbclm)  BY <1>1, <2>3 DEF Phase
    <3> QED BY <3>1 DEF InUsed, Passed
  <2>4. CASE gpc = "chain"
    <3>1. InChain(h, mem, xr, wa, wc, gbclm)  BY <1>1, <2>4 DEF Phase
    <3> QED BY <3>1 DEF InChain, Passed
  <2>5. CASE gpc = "unused"
    <3>1. InUnused(h, mem, xr, wc, gbclm)  BY <1>1, <2>5 DEF Phase
    <3> QED BY <3>1 DEF InUnused, Passed
  <2>6. CASE gpc = "move"
    <3>1. InMove(h, mem, xr)  BY <1>1, <2>6 DEF Phase
    <3> QED BY <3>1 DEF InMove, Moving
  <2>7. CASE gpc = "up"
    <3>1. AllMoved(h, mem)  BY <1>1, <2>7 DEF Phase
    <3> QED BY <3>1 DEF AllMoved
  <2>8. CASE gpc = "exit"
    <3>1. Done(h, mem)  BY <1>1, <2>8 DEF Phase
    <3> QED BY <3>1 DEF Done
  <2> QED BY <1>2, <2>1, <2>2, <2>3, <2>4, <2>5, <2>6, <2>7, <2>8 DEF Phases
<1> QED BY <1>2, <1>3, <1>5, <1>6 DEF h

-----------------------------------------------------------------------------
(* What the collector promises.                                             *)

(* The words of a block are those of its length.                            *)
LEMMA BlockWords ==
  ASSUME NEW h, Collectable(h), NEW x \in h.blocks, NEW i \in 0 .. (Length(h, x) \div W) - 1
  PROVE  /\ i * W \in Nat /\ x + i * W \in Cells /\ Within(h.mem, x + i * W, x)
         /\ (x + i * W) - x = i * W
<1> DEFINE n == Length(h, x)
           k == n \div W
           b == i * W
<1>1. x \in Nat /\ Aligned(x) /\ n \in Nat /\ Aligned(n)  BY CollectionNumbers
<1>2. PICK j \in Nat : n = j * W  BY <1>1, AlignedIs
<1>3. k = j  BY <1>2, WordsArithmetic
<1>4. i \in Nat /\ i < j  BY <1>2, <1>3
<1>5. b \in Nat /\ b + W <= n /\ Aligned(b)  BY <1>2, <1>4, WordsArithmetic, AlignedArithmetic
<1> HIDE DEF b, n
<1>6. x <= x + b /\ x + b < x + n /\ (x + b) - x = b /\ Aligned(x + b)
  <2>1. Aligned(x + b)  BY <1>1, <1>5, AlignedArithmetic
  <2>2. W \in Nat /\ W >= 2  BY WordBytes
  <2>3. x \in Nat /\ n \in Nat /\ b \in Nat /\ b + W <= n  BY <1>1, <1>5
  <2>4. x <= x + b /\ x + b < x + n /\ (x + b) - x = b  BY <2>2, <2>3
  <2> QED BY <2>1, <2>4
<1>7. Within(h.mem, x + b, x)  BY <1>6 DEF Within, n, Length
<1>8. x + b \in Cells  BY <1>6, <1>7, BlockCells
<1> QED BY <1>5, <1>6, <1>7, <1>8 DEF b

(* A word of a block in use is a field that counts when it is one of that   *)
(* block.                                                                   *)
LEMMA OwnField ==
  ASSUME NEW h, Collectable(h), NEW x \in h.used, NEW a \in Cells, Within(h.mem, a, x)
  PROVE  a \in LiveFields(h) <=> a \in FieldCells(h.mem, x)
<1>1. h.used \subseteq h.blocks /\ IsHeap(h.mem, h.bottom, h.top, h.blocks)  BY DEF Collectable
<1>2. a \in FieldCells(h.mem, x) => a \in LiveFields(h)  BY DEF LiveFields, FieldsOf
<1>3. ASSUME a \in LiveFields(h) PROVE a \in FieldCells(h.mem, x)
  <2>1. a \in FieldsOf(h, h.used)  BY <1>3 DEF LiveFields
  <2>2. ~ (a < h.bottom) /\ a \in Nat
    <3>1. x \in Nat /\ h.bottom \in Nat /\ h.bottom <= x /\ a \in Nat /\ x <= a
      BY <1>1, CollectionNumbers, CellsAligned DEF Within
    <3> QED BY <3>1
  <2>3. PICK y \in h.used : a \in FieldCells(h.mem, y) /\ Within(h.mem, a, y)
    BY <1>1, <2>1, <2>2, FieldPlaces
  <2>4. x = y  BY <1>1, <2>2, <2>3, BlocksApart
  <2> QED BY <2>3, <2>4
<1> QED BY <1>2, <1>3

(* The new address and the new value of the model, in terms of these.       *)
LEMMA NewAddressIs ==
  /\ \A x : NewAddress(x) = Newly(Collection, x)
  /\ \A w : NewWord(w) = NewValue(Collection, w)
<1>1. \A x : NewAddress(x) = Newly(Collection, x)
  BY Zenon DEF NewAddress, Newly, To, UsedBelow, Collection
<1>2. \A w : NewWord(w) = NewValue(Collection, w)
  BY <1>1, Zenon DEF NewWord, NewValue, Collection
<1> QED BY <1>1, <1>2

(* When gbcol returns, all is as Compacted says.                            *)
LEMMA CompactedThen == CollectorInv => Compacted
<1> SUFFICES ASSUME CollectorInv, gpc = "exit" PROVE Compacted  BY DEF Compacted
<1> DEFINE h == Collection
<1>1. Phase(h, gpc, mem, dnamb, dnamp, gbcsd, xr, wa, wc, stk, segs, gbclm)  BY DEF CollectorInv
<1>2. /\ h.mem = before.mem /\ h.bottom = before.dnamb /\ h.top = before.dnamp /\ h.sed = SedimentEnd
      /\ h.up = up /\ h.blocks = OldBlocks /\ h.used = InUse
  BY DEF Collection
<1> HIDE DEF h
<1>3. Collectable(h) /\ Done(h, mem) /\ dnamb = h.bottom + h.up /\ dnamp = To(h, h.top) + h.up
  BY <1>1 DEF Phase
<1>4. h.used \subseteq h.blocks /\ h.bottom \in Nat /\ h.top \in Nat /\ h.sed \in Nat
  BY <1>3, CollectionNumbers DEF Collectable
<1>5. /\ \A x : NewAddress(x) = Newly(h, x)
      /\ \A w : NewWord(w) = NewValue(h, w)
      /\ \A x : OldLen(x) = Length(h, x)
  BY <1>2, NewAddressIs, Zenon DEF h, OldLen, Length, LenAt
<1>6. ASSUME NEW x \in h.used, NEW i \in 0 .. (Length(h, x) \div W) - 1
      PROVE  mem[Newly(h, x) + i * W] = IF x + i * W \in FieldCells(h.mem, x)
                                        THEN NewValue(h, h.mem[x + i * W]) ELSE h.mem[x + i * W]
  <2> DEFINE b == i * W
             a == x + b
  <2>1. x \in h.blocks /\ x \in Nat  BY <1>3, <1>4, CollectionNumbers
  <2>2. b \in Nat /\ a \in Cells /\ Within(h.mem, a, x) /\ a - x = b  BY <1>3, <2>1, BlockWords
  <2>3. Newly(h, x) \in Nat
    <3>1. h.up \in Nat  BY <1>3, CollectionNumbers
    <3>2. CASE x < h.sed  BY <2>1, <3>1, <3>2 DEF Newly
    <3>3. CASE ~ (x < h.sed)
      <4>1. x \in Places(h)  BY <1>4, <2>1, <3>3 DEF Places
      <4>2. To(h, x) \in Nat  BY <1>3, <4>1, ToBounds
      <4> QED BY <3>1, <3>3, <4>2 DEF Newly
    <3> QED BY <3>2, <3>3
  <2> HIDE DEF b, a
  <2>4. mem[(a - x) + Newly(h, x)] = NewAt(h, a)  BY <1>3, <2>2 DEF Done
  <2>5. (a - x) + Newly(h, x) = Newly(h, x) + b  BY <2>2, <2>3
  <2>6. a \in LiveFields(h) <=> a \in FieldCells(h.mem, x)  BY <1>3, <2>2, OwnField
  <2>7. mem[Newly(h, x) + b] = IF a \in FieldCells(h.mem, x) THEN NewValue(h, h.mem[a]) ELSE h.mem[a]
    BY <2>4, <2>5, <2>6 DEF NewAt
  <2> QED BY <2>7 DEF a, b
<1>7. ASSUME NEW a \in RootCells PROVE mem[a] = NewValue(h, h.mem[a])
  <2>1. a \in Cells /\ a \notin {GbcNm, GbcNs} /\ a < h.bottom  BY <1>3, HeadCells DEF Collectable
  <2>2. mem[a] = NewAt(h, a)  BY <1>3, <2>1 DEF Done
  <2>3. a \in LiveFields(h)  BY DEF LiveFields, FieldsOf
  <2> QED BY <2>2, <2>3 DEF NewAt
<1>8. dnamp = h.sed + SumLen(h.mem, { x \in h.used : h.sed <= x }) + h.up
  <2>1. \A x \in h.used : x < h.top  BY <1>3, <1>4, CollectionNumbers
  <2>2. UsedBelow(h, h.top) = { x \in h.used : h.sed <= x }  BY <2>1 DEF UsedBelow
  <2> QED BY <1>3, <2>2 DEF To
<1>9. ASSUME NEW x \in h.blocks, x < h.sed PROVE mem[x + h.up] = h.mem[x]
  <2>1. x \in Cells /\ h.bottom <= x  BY <1>3, BlockIsCell, CollectionNumbers
  <2>2. mem[x + h.up] = NewAt(h, x)  BY <1>3, <1>9, <2>1 DEF Done
  <2>3. x \notin LiveFields(h)  BY <1>3, <1>4, FieldPlaces DEF LiveFields
  <2> QED BY <2>2, <2>3 DEF NewAt
<1>10. dnamb = h.bottom + h.up  BY <1>3
<1> QED BY <1>2, <1>5, <1>6, <1>7, <1>8, <1>9, <1>10 DEF Compacted

(* In pass one the chains are as ChainsWellFormed says.                     *)
LEMMA ChainsThen == CollectorInv => ChainsWellFormed
<1> SUFFICES ASSUME CollectorInv, gpc = "fields" PROVE ChainsWellFormed  BY DEF ChainsWellFormed
<1> DEFINE h == Collection
<1>1. Phase(h, gpc, mem, dnamb, dnamp, gbcsd, xr, wa, wc, stk, segs, gbclm)  BY DEF CollectorInv
<1>2. /\ h.mem = before.mem /\ h.sed = SedimentEnd /\ h.blocks = OldBlocks /\ h.used = InUse
      /\ LiveFields(h) = RootCells \cup UNION { FieldCells(before.mem, x) : x \in InUse }
  BY DEF Collection, LiveFields, FieldsOf
<1> HIDE DEF h
<1>3. Collectable(h) /\ PassOneOn(h, mem, xr, stk, segs)  BY <1>1 DEF Phase
<1>4. PICK ch, V, iv : Threaded(h, mem, ch, V, Spans(iv))  BY <1>3 DEF PassOneOn, PassOne
<1>5. Chains(h, ch, V, Spans(iv)) /\ RestKept(h, mem, ch, {}) /\ V \subseteq h.used
  BY <1>4 DEF Threaded
<1>6. h.sed \in Nat /\ \A x \in h.blocks : x \in Nat /\ (x >= h.sed <=> h.sed <= x)
  BY <1>3, CollectionNumbers
<1>7. ASSUME NEW x \in h.blocks, h.sed <= x PROVE ChainIs(h, ch, x, ChainCells(x))
  <2>1. PICK c : LinksTo(mem, x, c, ChainCells(x))  BY ChainCellsDef
  <2> QED BY <1>3, <1>4, <1>7, <2>1, ChainCellsAre
<1>8. ASSUME NEW x \in h.blocks, NEW a, OnChain(ch, x, a) PROVE a \in LiveFields(h) /\ h.mem[a] = x /\ h.sed <= x
  <2>1. PICK i \in 1 .. Len(ch[x]) : ch[x][i] = a  BY <1>8 DEF OnChain
  <2>2. a \in LiveFields(h) /\ h.mem[a] = x  BY <1>3, <1>5, <2>1, ChainFields
  <2>3. ch[x] # <<>>  BY <2>1
  <2>4. ~ (x < h.sed)  BY <1>5, <2>3 DEF Chains
  <2> QED BY <1>6, <2>2, <2>4
<1>9. ASSUME NEW x \in h.blocks, h.sed <= x
      PROVE  /\ h.mem[x] \in ChainCells(x)
             /\ \A a \in ChainCells(x) \ {h.mem[x]} : a \in LiveFields(h) /\ h.mem[a] = x
  BY <1>7, <1>8, <1>9 DEF ChainIs
<1>10. ASSUME NEW a \in LiveFields(h)
       PROVE  mem[a] = h.mem[a] \/ \E x \in h.blocks : h.sed <= x /\ a \in ChainCells(x)
  <2>1. CASE \E x \in h.blocks : OnChain(ch, x, a)
    <3>1. PICK x \in h.blocks : OnChain(ch, x, a)  BY <2>1
    <3>2. h.sed <= x  BY <1>8, <3>1
    <3>3. a \in ChainCells(x)  BY <1>7, <3>1, <3>2 DEF ChainIs
    <3> QED BY <3>2, <3>3
  <2>2. CASE \A x \in h.blocks : ~OnChain(ch, x, a)
    <3>1. h.used \subseteq h.blocks  BY <1>3 DEF Collectable
    <3>2. a \in Cells /\ a \notin h.blocks  BY <1>3, <3>1, FieldPlaces DEF LiveFields
    <3>3. a \in Cells \ {}  BY <3>2
    <3> QED BY <1>5, <2>2, <3>2, <3>3 DEF RestKept
  <2> QED BY <2>1, <2>2
<1>11. ASSUME NEW a \in Cells, a \notin LiveFields(h), a \notin h.blocks PROVE mem[a] = h.mem[a]
  <2>1. \A x \in h.blocks : ~OnChain(ch, x, a)  BY <1>8, <1>11
  <2>2. a \in Cells \ {}  OBVIOUS
  <2> QED BY <1>5, <1>11, <2>1, <2>2 DEF RestKept
<1> DEFINE above   == { x \in OldBlocks : x >= SedimentEnd }
           onChain == [x \in above |-> ChainCells(x)]
           fields  == RootCells \cup UNION { FieldCells(before.mem, x) : x \in InUse }
<1>12. /\ \A x : x \in above <=> x \in h.blocks /\ h.sed <= x
       /\ \A x \in above : onChain[x] = ChainCells(x)
       /\ fields = LiveFields(h) /\ h.mem = before.mem /\ h.blocks = OldBlocks
  BY <1>2, <1>6
<1>13. /\ \A x \in above :
            /\ before.mem[x] \in onChain[x]
            /\ \A a \in onChain[x] \ {before.mem[x]} : a \in fields /\ before.mem[a] = x
       /\ \A a \in fields : mem[a] = before.mem[a] \/ \E x \in above : a \in onChain[x]
       /\ \A a \in Cells \ (fields \cup OldBlocks) : mem[a] = before.mem[a]
  <2> HIDE DEF above, onChain, fields
  <2> QED BY <1>9, <1>10, <1>11, <1>12
<1> QED BY <1>13 DEF ChainsWellFormed

-----------------------------------------------------------------------------

(* The constants, as the proofs use them.                                   *)
LEMMA StorageConstants ==
  /\ Aligned(Bottom) /\ Bottom \in Nat /\ 0 < Bottom /\ MaxName \in Nat /\ FirstName \in Nat
  /\ Bottom <= FirstName /\ FirstName <= MaxName
  /\ \A a \in Nat : Aligned(a) /\ Bottom <= a /\ a <= MaxName - W => a \in Cells
  /\ \A a \in RootCells \cup {GbcNm, GbcNs} : a < Bottom
  /\ Grants \subseteq Nat /\ (\A n \in Chunks : Aligned(n)) /\ Aligned(ESts) /\ RsMem \in Nat
  /\ \A s \in Shapes : s.size \in Nat /\ s.entry \in DOMAIN Kind
<1>1. Aligned(Bottom) /\ MaxName \in Nat /\ FirstName \in Nat /\ Static \in Nat /\ Static < Bottom
      /\ Bottom <= FirstName /\ FirstName <= MaxName
  BY StorageAssumption, Zenon
<1>2. \A a \in Bottom .. MaxName - W : Aligned(a) => a \in Cells  BY StorageAssumption, Zenon
<1>3. \A a \in RootCells \cup {GbcNm, GbcNs} : a < Bottom  BY StorageAssumption, Zenon
<1>4. Grants \subseteq Nat /\ (\A n \in Chunks : Aligned(n)) /\ Aligned(ESts) /\ RsMem \in Nat
  BY StorageAssumption, Zenon
<1>5. \A s \in Shapes : s.size \in Nat /\ s.entry \in DOMAIN Kind  BY StorageAssumption, Zenon
<1>6. Bottom \in Nat /\ 0 < Bottom
  <2>1. Bottom \in Nat  BY <1>1, AlignedArithmetic
  <2> QED BY <1>1, <2>1
<1>7. \A a \in Nat : Bottom <= a /\ a <= MaxName - W => a \in Bottom .. MaxName - W
  BY <1>1, <1>6, WordBytes
<1> QED BY <1>1, <1>2, <1>3, <1>4, <1>5, <1>6, <1>7

(* The areas' ends are numbers, the static area ends below the dynamic one, *)
(* and what the calls under way ask for or move by is not negative.         *)
AreasInv ==
  /\ dnamb \in Nat /\ state \in Nat /\ state < dnamb
  /\ up \in Nat /\ want \in Nat /\ need \in Nat

(* The areas at first.                                                      *)
LEMMA InitAreas == Init => AreasInv
<1>1. Static \in Nat /\ Static < Bottom  BY StorageAssumption, Zenon
<1>2. Bottom \in Nat  BY StorageConstants
<1> QED BY <1>1, <1>2 DEF Init, GcInit, AreasInv

(* The collector moves the start of the dynamic area only in Up. *)
LEMMA CollectorAreas == ASSUME AreasInv, Collector PROVE AreasInv'
<1>1. dnamb' = dnamb \/ dnamb' = dnamb + up
  BY DEF Collector, Collect, Field, Pop, Sediment, Used, Chain, Unused, Move, Up
<1>2. up' = up
  BY DEF Collector, Collect, Field, Pop, Sediment, Used, Chain, Unused, Move, Up
<1>3. UNCHANGED <<state, want, need>>
  BY DEF Collector, allocVars
<1> QED BY <1>1, <1>2, <1>3 DEF AreasInv

(* The program leaves the areas in order.                                   *)
LEMMA ProgramAreas == ASSUME AreasInv, Program PROVE AreasInv'
<1>1. CASE \E s \in Shapes : Request(s)
  <2>1. PICK s \in Shapes : Request(s)  BY <1>1
  <2>2. want' = s.size * W /\ UNCHANGED <<dnamb, up, state, need>>
    BY <2>1 DEF Request, gcVars
  <2>3. s.size * W \in Nat  BY StorageConstants, WordsArithmetic
  <2> QED BY <2>2, <2>3 DEF AreasInv
<1>2. CASE \E n \in Chunks : RequestStatic(n)
  <2>1. PICK n \in Chunks : RequestStatic(n)  BY <1>2
  <2>2. n \in Nat  BY StorageConstants, AlignedArithmetic
  <2> QED BY <2>1, <2>2 DEF RequestStatic, gcVars, AreasInv
<1>3. CASE RequestCollection
  BY <1>3 DEF RequestCollection, Enter, EnterAt, AreasInv
<1>4. CASE Forget \/ Load \/ Store
  BY <1>4 DEF Forget, Load, Store, SetCell, allocVars, AreasInv
<1> QED BY <1>1, <1>2, <1>3, <1>4 DEF Program

(* The only action of the allocator that moves an end of an area is Extend, *)
(* and alst1's test is what the invariant asks of it.                       *)
LEMMA AllocatorAreas == ASSUME AreasInv, Allocator PROVE AreasInv'
<1>1. CASE Extend
  BY <1>1 DEF Extend, gcVars, AreasInv
<1>2. CASE MakeRoom
  <2>1. ESts \in Nat  BY StorageConstants, AlignedArithmetic
  <2> QED BY <1>2, <2>1 DEF MakeRoom, gcVars, AreasInv
<1>3. CASE Build
  BY <1>3 DEF Build, AreasInv
<1>4. CASE NoRoom \/ CollectSediment
  BY <1>4 DEF NoRoom, CollectSediment, Enter, EnterAt, AreasInv
<1>5. CASE MoveUp
  BY <1>5 DEF MoveUp, Enter, EnterAt, AreasInv
<1>6. CASE Retry \/ More \/ Overflow
  BY <1>6 DEF Retry, More, Overflow, gcVars, AreasInv
<1>7. CASE Settle
  BY <1>7 DEF Settle, AreasInv
<1>8. CASE GcReturns
  BY <1>8 DEF GcReturns, AreasInv
<1> QED BY <1>1, <1>2, <1>3, <1>4, <1>5, <1>6, <1>7, <1>8 DEF Allocator

(* Whatever the program asks for and however much memory sysmm supplies,    *)
(* alost never lets the static area reach the dynamic area: the fact by     *)
(* which the runtime tells a static variable name.                          *)
THEOREM StaticAlwaysBelow == Spec => []StaticBelowDynamic
<1>1. AreasInv /\ [Next]_vars => AreasInv'
  <2> SUFFICES ASSUME AreasInv, [Next]_vars PROVE AreasInv'
    OBVIOUS
  <2>1. CASE Next
    BY <2>1, CollectorAreas, ProgramAreas, AllocatorAreas DEF Next
  <2>2. CASE UNCHANGED vars
    BY <2>2 DEF vars, gcVars, allocVars, AreasInv
  <2> QED BY <2>1, <2>2
<1>2. AreasInv => StaticBelowDynamic
  BY DEF AreasInv, StaticBelowDynamic
<1> QED BY <1>1, <1>2, InitAreas, PTL DEF Spec

-----------------------------------------------------------------------------
(* Heaps.                                                                   *)

(* The area from b to t of the memory m is blocks from one end to the other,*)
(* and the roots and the fields of the blocks that can be reached point to  *)
(* such blocks.                                                             *)
Blocks(m, b, t) == Starts(m, b, t) \ {t}

Heap(m, b, t) ==
  /\ IsHeap(m, b, t, Blocks(m, b, t)) /\ Reachable(m, b, t) \subseteq Blocks(m, b, t)
  /\ \A a \in RootCells : m[a] \in {0} \cup Reachable(m, b, t)
  /\ \A x \in Reachable(m, b, t) : \A a \in FieldCells(m, x) : m[a] \in {0} \cup Reachable(m, b, t)

(* The blocks of a heap are the places that IsHeap asks for.                *)
LEMMA BlocksAre == ASSUME NEW m, NEW b, NEW t, NEW B, IsHeap(m, b, t, B) PROVE Blocks(m, b, t) = B
<1>1. Starts(m, b, t) = B \cup {t}  BY StartsOfHeap
<1>2. t \notin B
  <2>1. \A x \in B : x \in Nat /\ x < t  BY HeapNumbers
  <2> QED BY <2>1
<1> QED BY <1>1, <1>2 DEF Blocks

(* The places B make a heap when the roots and the fields of some of them   *)
(* point to some of them.                                                   *)
PointTo(m, B, U) ==
  /\ U \subseteq B
  /\ \A a \in RootCells : m[a] \in {0} \cup U
  /\ \A x \in U : \A a \in FieldCells(m, x) : m[a] \in {0} \cup U

LEMMA HeapFrom ==
  ASSUME NEW m, NEW b, NEW t, NEW B, NEW U, IsHeap(m, b, t, B), PointTo(m, B, U), 0 < b
  PROVE  Heap(m, b, t)
<1> DEFINE R == Reachable(m, b, t)
<1>1. /\ b \in Nat /\ t \in Nat /\ ~ (b <= 0)
      /\ \A x \in B : x \in Nat /\ b <= x /\ x < t
  BY HeapNumbers
<1>2. \A x \in U : x \in b .. t - 1  BY <1>1 DEF PointTo
<1>3. 0 \notin b .. t - 1  BY <1>1
<1>4. IsClosed(m, b, t, U)
  <2>1. Pointers(m, RootCells, b, t) \subseteq U  BY <1>3 DEF Pointers, PointTo
  <2>2. \A x \in U : Pointers(m, FieldCells(m, x), b, t) \subseteq U  BY <1>3 DEF Pointers, PointTo
  <2> QED BY <2>1, <2>2 DEF IsClosed
<1>5. R \subseteq U
  <2>1. (t - b) \div W \in Nat  BY HeapFinite
  <2> QED BY <1>4, <2>1, ReachableLeast
<1>6. R \subseteq B  BY <1>5 DEF PointTo
<1>7. IsClosed(m, b, t, R)  BY <1>6, ReachableClosed
<1> HIDE DEF R
<1>8. ASSUME NEW a \in RootCells PROVE m[a] \in {0} \cup R
  <2>1. m[a] \in {0} \cup U  BY DEF PointTo
  <2>2. m[a] \in U => m[a] \in Pointers(m, RootCells, b, t)  BY <1>2 DEF Pointers
  <2> QED BY <1>7, <2>1, <2>2 DEF IsClosed
<1>9. ASSUME NEW x \in R, NEW a \in FieldCells(m, x) PROVE m[a] \in {0} \cup R
  <2>1. m[a] \in {0} \cup U  BY <1>5 DEF PointTo
  <2>2. m[a] \in U => m[a] \in Pointers(m, FieldCells(m, x), b, t)  BY <1>2 DEF Pointers
  <2>3. Pointers(m, FieldCells(m, x), b, t) \subseteq R  BY <1>7 DEF IsClosed
  <2> QED BY <2>1, <2>2, <2>3
<1>10. Blocks(m, b, t) = B  BY BlocksAre
<1> QED BY <1>6, <1>8, <1>9, <1>10 DEF Heap, R

(* The blocks of a heap together take all of it.                            *)
LEMMA HeapSum == ASSUME NEW m, NEW b, NEW t, NEW B, IsHeap(m, b, t, B) PROVE SumLen(m, B) = t - b
<1> DEFINE S(y) == {x \in B : x < y}
           Bad == {y \in B \cup {t} : SumLen(m, S(y)) # y - b}
<1>1. /\ b \in Nat /\ t \in Nat /\ b <= t
      /\ \A x \in B \cup {t} : x \in Nat /\ b <= x /\ x <= t
      /\ \A x \in B : /\ LenAt(m, x) \in Nat /\ x < t /\ x < x + LenAt(m, x)
                     /\ x + LenAt(m, x) \in B \cup {t}
  BY HeapNumbers
<1>2. IsFiniteSet(B)  BY HeapFinite
<1>3. ASSUME NEW y PROVE IsFiniteSet(S(y)) /\ \A x \in S(y) : LenAt(m, x) \in Nat
  <2>1. S(y) \in SUBSET B  OBVIOUS
  <2> QED BY <1>1, <1>2, <2>1, FS_Subset
<1>4. Bad = {}
  <2> SUFFICES ASSUME Bad # {} PROVE FALSE  OBVIOUS
  <2>1. PICK y \in Bad : \A v \in Bad : y <= v
    <3>1. Bad \in SUBSET Nat  BY <1>1
    <3> HIDE DEF Bad
    <3> QED BY <3>1, LeastNumber
  <2>2. y \in B \cup {t} /\ y \in Nat /\ b <= y /\ SumLen(m, S(y)) # y - b  BY <1>1
  <2>3. y # b
    <3> SUFFICES ASSUME y = b PROVE FALSE  OBVIOUS
    <3>1. S(b) = {}
      <4>1. \A x \in B : x \in Nat /\ b <= x  BY <1>1
      <4>2. \A x \in B : ~ (x < b)  BY <1>1, <4>1
      <4> QED BY <4>2
    <3>2. SumLen(m, S(b)) = 0  BY <1>3, <3>1, SumFacts
    <3> HIDE DEF S, Bad
    <3> QED BY <1>1, <2>2, <3>2
  <2>4. PICK x \in B : x + LenAt(m, x) = y
    <3>1. y \in B \cup {t} /\ y # b  BY <2>2, <2>3
    <3> HIDE DEF Bad, S
    <3> QED BY <3>1, BlockBefore
  <2>5. x \in Nat /\ LenAt(m, x) \in Nat /\ x < y /\ x \in B \cup {t}  BY <1>1, <2>4
  <2>6. S(y) = S(x) \cup {x} /\ x \notin S(x)
    <3>1. \A v \in B : v \in Nat /\ (x < v => x + LenAt(m, x) <= v)  BY <1>1 DEF IsHeap
    <3>2. \A v \in B : v < y <=> v < x \/ v = x
      <4> HIDE DEF Bad, S
      <4> QED BY <2>2, <2>4, <2>5, <3>1
    <3>3. ~ (x < x)  BY <2>5
    <3> QED BY <3>2, <3>3
  <2>7. SumLen(m, S(x)) = x - b
    <3>1. x \notin Bad  BY <2>1, <2>2, <2>5
    <3> QED BY <2>5, <3>1
  <2>8. SumLen(m, S(y)) = LenAt(m, x) + SumLen(m, S(x))
    <3>1. x \in S(y) /\ S(y) \ {x} = S(x)  BY <2>6
    <3>2. SumLen(m, S(y)) = LenAt(m, x) + SumLen(m, S(y) \ {x})  BY <1>3, <3>1, SumFacts
    <3> QED BY <3>1, <3>2
  <2> HIDE DEF S, Bad
  <2> QED BY <1>1, <2>2, <2>4, <2>5, <2>7, <2>8
<1>5. S(t) = B  BY <1>1
<1>6. SumLen(m, S(t)) = t - b  BY <1>4
<1> QED BY <1>5, <1>6

-----------------------------------------------------------------------------
(* One block and its copy elsewhere, or after another word was changed.     *)

(* The block at x of m has the entry word and the length word of that at y  *)
(* of m2.                                                                   *)
SameHead(m, x, m2, y) == m2[y] = m[x] /\ (Kind[m[x]].len = 0 => m2[y + W] = m[x + W])

SameShape(m, x, m2, y) ==
  /\ LenAt(m2, y) = LenAt(m, x) /\ m2[y] = m[x]
  /\ HasFields(m[x]) => FirstField(m2[y], y) - y = FirstField(m[x], x) - x
                        /\ PastField(m2, m2[y], y) - y = PastField(m, m[x], x) - x
  /\ \A a \in Cells : a \in FieldCells(m2, y) /\ (a - y) + x \in Cells => (a - y) + x \in FieldCells(m, x)
  /\ \A a \in FieldCells(m, x) : (a - x) + y \in Cells => (a - x) + y \in FieldCells(m2, y)

(* So they have the same length and their fields at the same distance.      *)
LEMMA ShapeKept ==
  ASSUME NEW m, NEW b, NEW t, NEW B, IsHeap(m, b, t, B), NEW x \in B, NEW m2, NEW y \in Nat,
         SameHead(m, x, m2, y)
  PROVE  SameShape(m, x, m2, y)
<1> DEFINE e == m[x]
           k == Kind[e]
           f == FirstField(e, x)
           p == PastField(m, e, x)
           f2 == FirstField(e, y)
           p2 == PastField(m2, e, y)
<1>1. x \in Nat /\ e \in DOMAIN Kind /\ LenAt(m, x) \in Nat  BY HeapNumbers DEF IsHeap
<1>2. k.len \in Nat /\ k.from \in Nat /\ k.to \in Nat  BY <1>1, KindFacts
<1>3. k.from * W \in Nat /\ k.to * W \in Nat  BY <1>2, WordsArithmetic
<1>4. m2[y] = e /\ (k.len = 0 => m2[y + W] = m[x + W])  BY DEF SameHead
<1>5. LenAt(m2, y) = LenAt(m, x)  BY <1>4 DEF LenAt, BlkLn
<1>6. k.len = 0 => m[x + W] = LenAt(m, x)  BY DEF LenAt, BlkLn
<1>7. /\ f = x + (k.from * W) /\ f2 = y + (k.from * W)
      /\ p = IF k.len = 0 THEN x + LenAt(m, x) ELSE x + (k.to * W)
      /\ p2 = IF k.len = 0 THEN y + LenAt(m, x) ELSE y + (k.to * W)
  BY <1>4, <1>6, Zenon DEF FirstField, PastField
<1> HIDE DEF f, p, f2, p2, k
<1>8. f \in Nat /\ p \in Nat /\ f2 \in Nat /\ p2 \in Nat /\ f2 - y = f - x /\ p2 - y = p - x
  BY <1>1, <1>3, <1>7
<1> HIDE DEF e
<1>9. ASSUME NEW a \in Cells, a \in FieldCells(m2, y), (a - y) + x \in Cells
      PROVE  (a - y) + x \in FieldCells(m, x)
  <2>1. HasFields(e) /\ f2 <= a /\ a < p2  BY <1>4, <1>9 DEF FieldCells, f2, p2
  <2>2. a \in Nat  BY CellsAligned
  <2>3. f <= (a - y) + x /\ (a - y) + x < p  BY <1>1, <1>8, <2>1, <2>2
  <2> QED BY <1>9, <2>1, <2>3 DEF FieldCells, f, p, e
<1>10. ASSUME NEW a \in FieldCells(m, x), (a - x) + y \in Cells
       PROVE  (a - x) + y \in FieldCells(m2, y)
  <2>1. HasFields(e) /\ f <= a /\ a < p /\ a \in Cells  BY DEF FieldCells, f, p, e
  <2>2. a \in Nat  BY <2>1, CellsAligned
  <2>3. f2 <= (a - x) + y /\ (a - x) + y < p2  BY <1>1, <1>8, <2>1, <2>2
  <2> QED BY <1>4, <1>10, <2>1, <2>3 DEF FieldCells, f2, p2
<1>11. FirstField(m2[y], y) - y = FirstField(m[x], x) - x /\ PastField(m2, m2[y], y) - y = PastField(m, m[x], x) - x
  BY <1>4, <1>8, Zenon DEF f, p, f2, p2, e
<1>12. m2[y] = m[x]  BY <1>4 DEF e
<1> QED BY <1>5, <1>9, <1>10, <1>11, <1>12 DEF SameShape

-----------------------------------------------------------------------------
(* What a collection leaves is a heap.                                      *)

(* What is at a place, or the next block in use above it, goes there.       *)
LEMMA NextTo ==
  ASSUME NEW h, Collectable(h), NEW z \in Places(h)
  PROVE  To(h, z) = To(h, h.top) \/ \E x \in h.used : h.sed <= x /\ To(h, x) = To(h, z)
<1> DEFINE T == {x \in h.used : z <= x}
<1>1. /\ Places(h) \subseteq Nat /\ h.sed \in Nat /\ h.sed <= z /\ h.used \subseteq h.blocks
      /\ \A x \in h.blocks : x \in Nat /\ x <= h.top
      /\ h.top \in Nat /\ h.sed <= h.top /\ z <= h.top
  BY CollectionNumbers DEF Places, Collectable
<1>2. h.top \in Places(h)  BY <1>1 DEF Places
<1>3. CASE T = {}
  <2>1. \A x \in h.blocks : z <= x /\ x < h.top => x \notin h.used  BY <1>3
  <2>2. To(h, h.top) = To(h, z)
    <3> HIDE DEF T
    <3> QED BY <1>1, <1>2, <2>1, GapTo
  <2> QED BY <2>2
<1>4. CASE T # {}
  <2>1. PICK x \in T : \A y \in T : x <= y
    <3>1. T \in SUBSET Nat  BY <1>1
    <3> HIDE DEF T
    <3> QED BY <1>4, <3>1, LeastNumber
  <2>2. x \in h.used /\ x \in h.blocks /\ z <= x /\ x \in Nat  BY <1>1
  <2>3. h.sed <= x
    <3>1. z \in Nat  BY <1>1
    <3> QED BY <1>1, <2>2, <3>1
  <2>4. x \in Places(h)  BY <2>2, <2>3 DEF Places
  <2>5. \A y \in h.blocks : z <= y /\ y < x => y \notin h.used
    <3>1. \A y \in T : y \in Nat /\ ~ (y < x)  BY <1>1, <2>1, <2>2
    <3> QED BY <3>1
  <2>6. To(h, x) = To(h, z)
    <3> HIDE DEF T
    <3> QED BY <2>2, <2>4, <2>5, GapTo
  <2> QED BY <2>2, <2>3, <2>6
<1> QED BY <1>3, <1>4

(* The blocks a collection leaves, and the area they then fill.             *)
Stay(h)      == { x \in h.blocks : x < h.sed \/ x \in h.used }
NewBottom(h) == h.bottom + h.up
NewTop(h)    == To(h, h.top) + h.up
NewBlocks(h) == { Newly(h, x) : x \in Stay(h) }

RoomOf(h, x) ==
  /\ Newly(h, x) \in Nat /\ Aligned(Newly(h, x)) /\ NewBottom(h) <= Newly(h, x)
  /\ Newly(h, x) + Length(h, x) <= NewTop(h)
  /\ x < h.sed => Newly(h, x) + Length(h, x) <= h.sed + h.up
  /\ h.sed <= x => h.sed + h.up <= Newly(h, x)

(* Each of them has its room in that area, ...                              *)
LEMMA StayRoom ==
  ASSUME NEW h, Collectable(h), NEW x \in Stay(h)
  PROVE  RoomOf(h, x)
<1>1. /\ h.bottom \in Nat /\ h.top \in Nat /\ h.sed \in Nat /\ h.up \in Nat /\ Aligned(h.up)
      /\ h.bottom <= h.sed /\ h.sed <= h.top /\ h.sed \in h.blocks \cup {h.top}
      /\ x \in h.blocks /\ x \in Nat /\ Aligned(x) /\ h.bottom <= x
      /\ Length(h, x) \in Nat /\ x + Length(h, x) \in h.blocks \cup {h.top} /\ x + Length(h, x) <= h.top
      /\ \A y \in h.blocks : x < y => x + Length(h, x) <= y
  BY CollectionNumbers DEF Stay, Collectable
<1>2. h.top \in Places(h)  BY <1>1 DEF Places
<1>3. To(h, h.top) \in Nat /\ h.sed <= To(h, h.top)  BY <1>2, ToBounds
<1>4. CASE x < h.sed
  <2>1. Newly(h, x) = x + h.up  BY <1>4 DEF Newly
  <2>2. x + Length(h, x) <= h.sed
    <3>1. CASE h.sed \in h.blocks  BY <1>1, <1>4, <3>1
    <3>2. CASE h.sed = h.top  BY <1>1, <3>2
    <3> QED BY <1>1, <3>1, <3>2
  <2>3. Aligned(x + h.up)  BY <1>1, AlignedArithmetic
  <2>4. ~ (h.sed <= x)  BY <1>1, <1>4
  <2> QED BY <1>1, <1>3, <2>1, <2>2, <2>3, <2>4 DEF RoomOf, NewBottom, NewTop
<1>5. CASE ~ (x < h.sed)
  <2>1. Newly(h, x) = To(h, x) + h.up /\ x \in h.used /\ h.sed <= x  BY <1>1, <1>5 DEF Newly, Stay
  <2>2. x \in Places(h)  BY <1>1, <2>1 DEF Places
  <2>3. To(h, x) \in Nat /\ Aligned(To(h, x)) /\ h.sed <= To(h, x)  BY <2>2, ToBounds
  <2>4. x + Length(h, x) \in Places(h)  BY <1>1, <2>1 DEF Places
  <2>5. To(h, x + Length(h, x)) = To(h, x) + Length(h, x)  BY <1>1, <2>1, ToStep
  <2>6. To(h, x + Length(h, x)) <= To(h, h.top)
    <3> DEFINE z == x + Length(h, x)
    <3>1. z \in Places(h) /\ z <= h.top  BY <1>1, <2>4
    <3> HIDE DEF z
    <3>2. To(h, z) <= To(h, h.top)  BY <1>2, <3>1, ToMonotone
    <3> QED BY <3>2 DEF z
  <2>7. Aligned(To(h, x) + h.up)  BY <1>1, <2>3, AlignedArithmetic
  <2> QED BY <1>1, <1>3, <1>5, <2>1, <2>3, <2>5, <2>6, <2>7 DEF RoomOf, NewBottom, NewTop
<1> QED BY <1>4, <1>5

(* ... after those that were below it.                                      *)
LEMMA StayOrder ==
  ASSUME NEW h, Collectable(h), NEW x \in Stay(h), NEW y \in Stay(h), x < y
  PROVE  Newly(h, x) + Length(h, x) <= Newly(h, y)
<1>1. /\ h.sed \in Nat /\ h.up \in Nat
      /\ x \in h.blocks /\ x \in Nat /\ y \in h.blocks /\ y \in Nat
      /\ Length(h, x) \in Nat /\ x + Length(h, x) <= y /\ x + Length(h, x) \in h.blocks \cup {h.top}
  BY CollectionNumbers DEF Stay
<1>2. RoomOf(h, x) /\ RoomOf(h, y)  BY StayRoom
<1>3. CASE y < h.sed
  <2>1. x < h.sed  BY <1>1, <1>3
  <2>2. Newly(h, x) = x + h.up /\ Newly(h, y) = y + h.up  BY <1>3, <2>1 DEF Newly
  <2> QED BY <1>1, <2>2
<1>4. CASE ~ (y < h.sed) /\ x < h.sed
  <2>1. h.sed <= y  BY <1>1, <1>4
  <2>2. /\ Newly(h, x) \in Nat /\ Newly(h, y) \in Nat
        /\ Newly(h, x) + Length(h, x) <= h.sed + h.up /\ h.sed + h.up <= Newly(h, y)
    BY <1>2, <1>4, <2>1 DEF RoomOf
  <2> QED BY <1>1, <2>2
<1>5. CASE ~ (x < h.sed)
  <2>1. h.sed <= x /\ h.sed <= y /\ ~ (y < h.sed) /\ x \in h.used  BY <1>1, <1>5 DEF Stay
  <2>2. Newly(h, x) = To(h, x) + h.up /\ Newly(h, y) = To(h, y) + h.up  BY <1>5, <2>1 DEF Newly
  <2> DEFINE z == x + Length(h, x)
  <2>3. z \in Places(h) /\ y \in Places(h) /\ x \in Places(h)  BY <1>1, <2>1 DEF Places
  <2>4. To(h, z) = To(h, x) + Length(h, x)  BY <1>1, <2>1, ToStep
  <2>5. z <= y  BY <1>1
  <2> HIDE DEF z
  <2>6. To(h, z) <= To(h, y)  BY <2>3, <2>5, ToMonotone
  <2>7. To(h, x) \in Nat /\ To(h, y) \in Nat  BY <2>3, ToBounds
  <2> QED BY <1>1, <2>2, <2>4, <2>6, <2>7
<1> QED BY <1>3, <1>4, <1>5

(* A place that stays, or the sediment's end, goes to a block or the top.   *)
LEMMA GoesToBlock ==
  ASSUME NEW h, Collectable(h), NEW z \in Places(h)
  PROVE  To(h, z) + h.up \in NewBlocks(h) \cup {NewTop(h)}
<1>1. To(h, z) = To(h, h.top) \/ \E x \in h.used : h.sed <= x /\ To(h, x) = To(h, z)  BY NextTo
<1>2. CASE To(h, z) = To(h, h.top)  BY <1>2 DEF NewTop
<1>3. CASE \E x \in h.used : h.sed <= x /\ To(h, x) = To(h, z)
  <2>1. PICK x \in h.used : h.sed <= x /\ To(h, x) = To(h, z)  BY <1>3
  <2>2. x \in h.blocks /\ ~ (x < h.sed)
    <3>1. x \in h.blocks  BY DEF Collectable
    <3>2. x \in Nat /\ h.sed \in Nat  BY <3>1, CollectionNumbers
    <3> QED BY <2>1, <3>1, <3>2
  <2>3. Newly(h, x) = To(h, z) + h.up  BY <2>1, <2>2 DEF Newly
  <2>4. x \in Stay(h)  BY <2>2 DEF Stay
  <2> QED BY <2>3, <2>4 DEF NewBlocks
<1> QED BY <1>1, <1>2, <1>3

(* So does every block of the sediment.                                     *)
LEMMA SedimentGoes ==
  ASSUME NEW h, Collectable(h), NEW z \in h.blocks \cup {h.top}, z <= h.sed
  PROVE  z + h.up \in NewBlocks(h) \cup {NewTop(h)}
<1>1. z \in Nat /\ h.sed \in Nat /\ h.sed \in h.blocks \cup {h.top} /\ h.sed <= h.top /\ h.top \in Nat
  BY CollectionNumbers DEF Collectable
<1>2. CASE z = h.sed
  <2>1. z \in Places(h)  BY <1>1, <1>2 DEF Places
  <2>2. To(h, z) = z  BY <1>2, ToSediment
  <2>3. To(h, z) + h.up \in NewBlocks(h) \cup {NewTop(h)}  BY <2>1, GoesToBlock
  <2> QED BY <2>2, <2>3
<1>3. CASE z # h.sed
  <2>1. z < h.sed /\ z # h.top  BY <1>1, <1>3
  <2>2. z \in Stay(h)  BY <2>1 DEF Stay
  <2>3. Newly(h, z) = z + h.up  BY <2>1 DEF Newly
  <2> QED BY <2>2, <2>3 DEF NewBlocks
<1> QED BY <1>2, <1>3

(* The words of the blocks that stay are at the new places, and the fields  *)
(* and the roots have their new values.                                     *)
CollectedTo(h, m2) ==
  /\ m2 \in [Cells -> Nat]
  /\ \A a \in RootCells : m2[a] = NewAt(h, a)
  /\ \A x \in Stay(h) : \A a \in Cells : Within(h.mem, a, x) =>
       /\ (a - x) + Newly(h, x) \in Cells
       /\ m2[(a - x) + Newly(h, x)] = NewAt(h, a)

(* What is outside the area and the roots may be cleared.                   *)
SameArea(h, m, m2) ==
  /\ m2 \in [Cells -> Nat]
  /\ \A a \in RootCells : m2[a] = m[a]
  /\ \A a \in Cells : NewBottom(h) <= a /\ a < NewTop(h) => m2[a] = m[a]

LEMMA CollectedWords ==
  ASSUME NEW h, Collectable(h), NEW m, Done(h, m), NEW m2, SameArea(h, m, m2)
  PROVE  CollectedTo(h, m2)
<1>1. ASSUME NEW a \in RootCells PROVE m2[a] = NewAt(h, a)
  <2>1. a \in Cells /\ a < h.bottom /\ a \notin {GbcNm, GbcNs}  BY HeadCells DEF Collectable
  <2> QED BY <2>1 DEF Done, SameArea
<1>2. ASSUME NEW x \in Stay(h), NEW a \in Cells, Within(h.mem, a, x)
      PROVE  (a - x) + Newly(h, x) \in Cells /\ m2[(a - x) + Newly(h, x)] = NewAt(h, a)
  <2> DEFINE c == (a - x) + Newly(h, x)
  <2>1. /\ x \in h.blocks /\ x \in Nat /\ Aligned(x) /\ Length(h, x) \in Nat /\ h.up \in Nat /\ h.bottom \in Nat
        /\ h.top \in Nat /\ h.bottom <= x /\ h.sed \in Nat /\ h.sed <= h.top
    BY CollectionNumbers DEF Stay
  <2>2. a \in Nat /\ Aligned(a) /\ x <= a /\ a < x + Length(h, x)  BY <1>2, CellsAligned DEF Within, Length
  <2>3. /\ Newly(h, x) \in Nat /\ Aligned(Newly(h, x)) /\ NewBottom(h) <= Newly(h, x)
        /\ Newly(h, x) + Length(h, x) <= NewTop(h) /\ (x < h.sed => Newly(h, x) + Length(h, x) <= h.sed + h.up)
    BY StayRoom DEF RoomOf
  <2>4. h.top \in Places(h)  BY <2>1 DEF Places
  <2>5. To(h, h.top) \in Nat /\ To(h, h.top) <= h.top  BY <2>4, ToBounds
  <2>6. NewBottom(h) = h.bottom + h.up /\ NewTop(h) = To(h, h.top) + h.up  BY DEF NewBottom, NewTop
  <2>7. c \in Nat /\ NewBottom(h) <= c /\ c < NewTop(h) /\ c < h.top + h.up /\ h.bottom <= c
    BY <2>1, <2>2, <2>3, <2>5, <2>6
  <2>8. Aligned(c)
    <3>1. Aligned(a - x)  BY <2>1, <2>2, AlignedArithmetic
    <3> QED BY <2>3, <3>1, AlignedArithmetic
  <2>9. m[c] = NewAt(h, a)
    <3>1. CASE x < h.sed
      <4>1. Newly(h, x) = x + h.up  BY <3>1 DEF Newly
      <4>2. c = a + h.up /\ h.bottom <= a /\ a < h.sed  BY <2>1, <2>2, <2>3, <3>1, <4>1
      <4> HIDE DEF c
      <4> QED BY <4>2 DEF Done
    <3>2. CASE ~ (x < h.sed)
      <4>1. x \in h.used  BY <3>2 DEF Stay
      <4> QED BY <1>2, <4>1 DEF Done
    <3> QED BY <3>1, <3>2
  <2> HIDE DEF c
  <2>10. c \in Cells  BY <2>7, <2>8 DEF Collectable
  <2>11. m2[c] = NewAt(h, a)  BY <2>7, <2>9, <2>10 DEF SameArea
  <2> QED BY <2>10, <2>11 DEF c
<1> QED BY <1>1, <1>2 DEF CollectedTo, SameArea

(* The entry word and the length word of a block are no fields that count.  *)
LEMMA HeadWords ==
  ASSUME NEW h, Collectable(h), NEW x \in h.blocks
  PROVE  /\ x \in Cells /\ Within(h.mem, x, x) /\ x \notin LiveFields(h)
         /\ x + W \in Cells /\ Within(h.mem, x + W, x)
         /\ Kind[h.mem[x]].len = 0 => x + W \notin LiveFields(h)
<1>1. IsHeap(h.mem, h.bottom, h.top, h.blocks) /\ h.used \subseteq h.blocks  BY DEF Collectable
<1>2. /\ x \in Nat /\ Aligned(x) /\ LenAt(h.mem, x) \in Nat /\ LenAt(h.mem, x) >= 2 * W
      /\ h.bottom \in Nat /\ h.bottom <= x
  BY CollectionNumbers DEF Length
<1>3. Aligned(x + W)  BY <1>2, AlignedArithmetic
<1>4. Within(h.mem, x, x) /\ Within(h.mem, x + W, x)  BY <1>2, WordBytes DEF Within
<1>5. x \in Cells /\ x + W \in Cells  BY <1>2, <1>3, <1>4, BlockCells
<1>6. x \notin LiveFields(h)  BY <1>1, FieldPlaces DEF LiveFields
<1>7. ASSUME Kind[h.mem[x]].len = 0, x + W \in LiveFields(h) PROVE FALSE
  <2>1. x + W \in Nat /\ ~ (x + W < h.bottom)  BY <1>2, WordBytes
  <2>2. x + W \in FieldsOf(h, h.used)  BY <1>7 DEF LiveFields
  <2>3. PICK y \in h.used : x + W \in FieldCells(h.mem, y) /\ Within(h.mem, x + W, y)
    BY <1>1, <2>1, <2>2, FieldPlaces
  <2>4. x = y  BY <1>1, <1>4, <2>1, <2>3, BlocksApart
  <2>5. FieldsWithin(h.mem, x)  BY <1>1, FieldFacts
  <2> QED BY <1>7, <2>3, <2>4, <2>5 DEF FieldsWithin
<1> QED BY <1>4, <1>5, <1>6, <1>7

(* So a block that stays keeps its shape.                                   *)
LEMMA StayShape ==
  ASSUME NEW h, Collectable(h), NEW m2, CollectedTo(h, m2), NEW x \in Stay(h)
  PROVE  SameShape(h.mem, x, m2, Newly(h, x))
<1> DEFINE y == Newly(h, x)
<1>1. x \in h.blocks /\ x \in Nat  BY CollectionNumbers DEF Stay
<1>2. y \in Nat  BY StayRoom DEF RoomOf
<1>3. /\ x \in Cells /\ Within(h.mem, x, x) /\ x \notin LiveFields(h)
      /\ x + W \in Cells /\ Within(h.mem, x + W, x)
      /\ Kind[h.mem[x]].len = 0 => x + W \notin LiveFields(h)
  BY <1>1, HeadWords
<1>4. m2[y] = h.mem[x]
  <2>1. m2[(x - x) + y] = NewAt(h, x)  BY <1>3 DEF CollectedTo
  <2>2. (x - x) + y = y  BY <1>1, <1>2
  <2>3. m2[y] = NewAt(h, x)  BY <2>1, <2>2
  <2> QED BY <1>3, <2>3 DEF NewAt
<1>5. ASSUME Kind[h.mem[x]].len = 0 PROVE m2[y + W] = h.mem[x + W]
  <2>1. m2[((x + W) - x) + y] = NewAt(h, x + W)  BY <1>3 DEF CollectedTo
  <2>2. ((x + W) - x) + y = y + W  BY <1>1, <1>2, WordBytes
  <2>3. m2[y + W] = NewAt(h, x + W)  BY <2>1, <2>2
  <2> QED BY <1>3, <1>5, <2>3 DEF NewAt
<1>6. SameHead(h.mem, x, m2, y)  BY <1>4, <1>5 DEF SameHead
<1>7. IsHeap(h.mem, h.bottom, h.top, h.blocks)  BY DEF Collectable
<1> HIDE DEF y
<1>8. SameShape(h.mem, x, m2, y)  BY <1>1, <1>2, <1>6, <1>7, ShapeKept
<1> QED BY <1>8 DEF y

(* The blocks that stay fill the area.                                      *)
LEMMA StayHeap ==
  ASSUME NEW h, Collectable(h), NEW m2, CollectedTo(h, m2)
  PROVE  IsHeap(m2, NewBottom(h), NewTop(h), NewBlocks(h))
<1> DEFINE b == NewBottom(h)
           t == NewTop(h)
           B == NewBlocks(h)
<1>0. IsHeap(h.mem, h.bottom, h.top, h.blocks)  BY DEF Collectable
<1>1. /\ h.bottom \in Nat /\ h.top \in Nat /\ h.sed \in Nat /\ h.up \in Nat /\ Aligned(h.up) /\ Aligned(h.bottom)
      /\ h.bottom <= h.sed /\ h.sed <= h.top /\ h.bottom \in h.blocks \cup {h.top}
  BY <1>0, CollectionNumbers DEF IsHeap, Collectable
<1>2. h.top \in Places(h)  BY <1>1 DEF Places
<1>3. To(h, h.top) \in Nat /\ Aligned(To(h, h.top)) /\ h.sed <= To(h, h.top)  BY <1>2, ToBounds
<1>4. Aligned(b) /\ Aligned(t) /\ b <= t
  <2>1. b = h.bottom + h.up /\ t = To(h, h.top) + h.up  BY DEF NewBottom, NewTop
  <2>2. Aligned(h.bottom + h.up) /\ Aligned(To(h, h.top) + h.up)  BY <1>1, <1>3, AlignedArithmetic
  <2>3. h.bottom + h.up <= To(h, h.top) + h.up  BY <1>1, <1>3
  <2> QED BY <2>1, <2>2, <2>3
<1>5. b \in B \cup {t}  BY <1>1, SedimentGoes DEF NewBottom
<1>6. ASSUME NEW x \in Stay(h)
      PROVE  LET y == Newly(h, x) IN
             /\ Aligned(y) /\ b <= y /\ y < t /\ m2[y] \in DOMAIN Kind
             /\ Aligned(LenAt(m2, y)) /\ LenAt(m2, y) >= 2 * W /\ y + LenAt(m2, y) \in B \cup {t}
             /\ HasFields(m2[y]) => FirstField(m2[y], y) < PastField(m2, m2[y], y)
  <2> DEFINE y == Newly(h, x)
             l == Length(h, x)
  <2>1. /\ x \in h.blocks /\ x \in Nat /\ l \in Nat /\ Aligned(l) /\ l >= 2 * W
        /\ x + l \in h.blocks \cup {h.top} /\ (x < h.sed => x + l <= h.sed)
    <3>1. /\ x \in h.blocks /\ x \in Nat /\ l \in Nat /\ Aligned(l) /\ l >= 2 * W /\ x + l \in h.blocks \cup {h.top}
      BY CollectionNumbers DEF Stay
    <3>2. Newly(h, x) \in Nat /\ (x < h.sed => Newly(h, x) + l <= h.sed + h.up)  BY StayRoom DEF RoomOf
    <3>3. x < h.sed => Newly(h, x) = x + h.up  BY DEF Newly
    <3> HIDE DEF l
    <3> QED BY <1>1, <3>1, <3>2, <3>3
  <2>2. /\ y \in Nat /\ Aligned(y) /\ b <= y /\ y + l <= t  BY StayRoom DEF RoomOf
  <2>3. /\ LenAt(m2, y) = l /\ m2[y] = h.mem[x]
        /\ HasFields(h.mem[x]) => FirstField(m2[y], y) - y = FirstField(h.mem[x], x) - x
                                  /\ PastField(m2, m2[y], y) - y = PastField(h.mem, h.mem[x], x) - x
    BY StayShape DEF SameShape, Length
  <2>4. m2[y] \in DOMAIN Kind  BY <1>0, <2>1, <2>3 DEF IsHeap
  <2>5. y < t
    <3>1. t \in Nat  BY <1>4, AlignedArithmetic
    <3> HIDE DEF y, l, t
    <3> QED BY <2>1, <2>2, <3>1, WordBytes
  <2>6. y + l \in B \cup {t}
    <3>1. CASE x < h.sed
      <4>1. y = x + h.up  BY <3>1 DEF Newly
      <4>2. (x + l) + h.up \in B \cup {t}
        <5> DEFINE z == x + l
        <5>1. z \in h.blocks \cup {h.top} /\ z <= h.sed  BY <2>1, <3>1
        <5> HIDE DEF z
        <5>2. z + h.up \in B \cup {t}  BY <5>1, SedimentGoes
        <5> QED BY <5>2 DEF z
      <4>3. (x + l) + h.up = y + l  BY <1>1, <2>1, <4>1
      <4> QED BY <4>2, <4>3
    <3>2. CASE ~ (x < h.sed)
      <4>1. y = To(h, x) + h.up /\ x \in h.used /\ h.sed <= x  BY <1>1, <2>1, <3>2 DEF Newly, Stay
      <4>2. To(h, x + l) = To(h, x) + l  BY <2>1, <4>1, ToStep
      <4>3. x + l \in Places(h) /\ x \in Places(h)  BY <1>1, <2>1, <4>1 DEF Places
      <4>4. To(h, x + l) + h.up \in B \cup {t}
        <5> DEFINE z == x + l
        <5>1. z \in Places(h)  BY <4>3
        <5> HIDE DEF z
        <5>2. To(h, z) + h.up \in B \cup {t}  BY <5>1, GoesToBlock
        <5> QED BY <5>2 DEF z
      <4>5. To(h, x) \in Nat  BY <4>3, ToBounds
      <4>6. To(h, x + l) + h.up = y + l  BY <1>1, <2>1, <4>1, <4>2, <4>5
      <4> QED BY <4>4, <4>6
    <3> QED BY <3>1, <3>2
  <2>7. HasFields(m2[y]) => FirstField(m2[y], y) < PastField(m2, m2[y], y)
    <3> SUFFICES ASSUME HasFields(m2[y]) PROVE FirstField(m2[y], y) < PastField(m2, m2[y], y)
      OBVIOUS
    <3>1. HasFields(h.mem[x])  BY <2>3
    <3>2. FieldsWithin(h.mem, x)  BY <1>0, <2>1, FieldFacts
    <3>3. /\ Aligned(FirstField(h.mem[x], x)) /\ Aligned(PastField(h.mem, h.mem[x], x))
          /\ FirstField(h.mem[x], x) < PastField(h.mem, h.mem[x], x)
      BY <3>1, <3>2 DEF FieldsWithin
    <3>4. FirstField(h.mem[x], x) \in Nat /\ PastField(h.mem, h.mem[x], x) \in Nat
      BY <3>3, AlignedArithmetic
    <3>5. m2[y] \in DOMAIN Kind  BY <2>4
    <3>6. FirstField(m2[y], y) \in Nat /\ PastField(m2, m2[y], y) \in Nat
      <4> DEFINE k == Kind[m2[y]]
      <4>1. k.from \in Nat /\ k.to \in Nat /\ k.len \in Nat  BY <3>5, KindFacts
      <4>2. k.from * W \in Nat /\ k.to * W \in Nat  BY <4>1, WordsArithmetic
      <4>3. k.len = 0 => m2[y + W] = l  BY <2>3 DEF LenAt, BlkLn
      <4> HIDE DEF y, l
      <4> QED BY <2>1, <2>2, <4>2, <4>3 DEF FirstField, PastField
    <3> DEFINE f  == FirstField(h.mem[x], x)
               p  == PastField(h.mem, h.mem[x], x)
               f2 == FirstField(m2[y], y)
               p2 == PastField(m2, m2[y], y)
    <3>7. f \in Nat /\ p \in Nat /\ f2 \in Nat /\ p2 \in Nat /\ f < p /\ f2 - y = f - x /\ p2 - y = p - x
      BY <2>3, <3>1, <3>3, <3>4, <3>6
    <3> HIDE DEF f, p, f2, p2, y
    <3>8. f2 < p2  BY <2>1, <2>2, <3>7
    <3> QED BY <3>8 DEF f2, p2
  <2> QED BY <2>1, <2>2, <2>3, <2>4, <2>5, <2>6, <2>7
<1>7. ASSUME NEW x \in Stay(h), NEW z \in Stay(h), Newly(h, x) < Newly(h, z)
      PROVE  Newly(h, x) + LenAt(m2, Newly(h, x)) <= Newly(h, z)
  <2>1. LenAt(m2, Newly(h, x)) = Length(h, x)  BY StayShape DEF SameShape, Length
  <2>2. /\ x \in Nat /\ z \in Nat /\ Length(h, z) \in Nat /\ Newly(h, x) \in Nat /\ Newly(h, z) \in Nat
    BY CollectionNumbers, StayRoom DEF Stay, RoomOf
  <2>3. ~ (z < x)
    <3> SUFFICES ASSUME z < x PROVE FALSE  OBVIOUS
    <3>1. Newly(h, z) + Length(h, z) <= Newly(h, x)  BY StayOrder
    <3> QED BY <1>7, <2>2, <3>1
  <2>4. x # z  BY <1>7, <2>2
  <2>5. x < z  BY <2>2, <2>3, <2>4
  <2>6. Newly(h, x) + Length(h, x) <= Newly(h, z)  BY <2>5, StayOrder
  <2> QED BY <2>1, <2>6
<1> HIDE DEF b, t
<1>8. \A y \in B : /\ Aligned(y) /\ b <= y /\ y < t /\ m2[y] \in DOMAIN Kind
                   /\ Aligned(LenAt(m2, y)) /\ LenAt(m2, y) >= 2 * W /\ y + LenAt(m2, y) \in B \cup {t}
                   /\ HasFields(m2[y]) => FirstField(m2[y], y) < PastField(m2, m2[y], y)
  BY <1>6 DEF NewBlocks
<1>9. \A y, z \in B : y < z => y + LenAt(m2, y) <= z  BY <1>7 DEF NewBlocks
<1> HIDE DEF B
<1>10. IsHeap(m2, b, t, B)  BY <1>4, <1>5, <1>8, <1>9 DEF IsHeap
<1> QED BY <1>10 DEF b, t, B

(* A field of a block in use is that field of it where it now is, with its  *)
(* new value.                                                               *)
MovedField(h, x, a, m2, c) ==
  a \in FieldCells(h.mem, x) /\ c = (a - x) + Newly(h, x) /\ m2[c] = NewValue(h, h.mem[a])

LEMMA StayFields ==
  ASSUME NEW h, Collectable(h), NEW m2, CollectedTo(h, m2), NEW x \in h.used,
         NEW c \in FieldCells(m2, Newly(h, x))
  PROVE  \E a : MovedField(h, x, a, m2, c)
<1> DEFINE y == Newly(h, x)
           a == (c - y) + x
<1>0. IsHeap(m2, NewBottom(h), NewTop(h), NewBlocks(h))  BY StayHeap
<1>1. x \in h.blocks /\ x \in Stay(h)  BY DEF Collectable, Stay
<1>2. x \in Nat /\ Aligned(x) /\ Length(h, x) \in Nat  BY <1>1, CollectionNumbers
<1>3. y \in Nat /\ Aligned(y)  BY <1>1, StayRoom DEF RoomOf
<1>4. SameShape(h.mem, x, m2, y)  BY <1>1, StayShape
<1>5. c \in Nat /\ Aligned(c) /\ c \in Cells /\ y <= c /\ c < y + LenAt(m2, y)
  <2>1. y \in NewBlocks(h)  BY <1>1 DEF NewBlocks
  <2>2. FieldsWithin(m2, y)  BY <1>0, <2>1, FieldFacts
  <2> QED BY <2>2 DEF FieldsWithin, Within
<1>6. LenAt(m2, y) = Length(h, x)  BY <1>4 DEF SameShape, Length
<1>7. a \in Nat /\ x <= a /\ a < x + Length(h, x) /\ (a - x) + y = c
  <2> HIDE DEF y
  <2> QED BY <1>2, <1>3, <1>5, <1>6
<1>8. Aligned(a)
  <2>1. Aligned(c - y)  BY <1>3, <1>5, AlignedArithmetic
  <2> QED BY <1>2, <2>1, AlignedArithmetic
<1>9. Within(h.mem, a, x)  BY <1>7 DEF Within, Length
<1> HIDE DEF a
<1>10. a \in Cells  BY <1>1, <1>8, <1>9, BlockCells
<1>11. a \in FieldCells(h.mem, x)  BY <1>4, <1>5, <1>10 DEF SameShape, a
<1>12. a \in LiveFields(h)  BY <1>11 DEF LiveFields, FieldsOf
<1>13. m2[(a - x) + y] = NewAt(h, a)  BY <1>1, <1>9, <1>10 DEF CollectedTo
<1>14. m2[c] = NewValue(h, h.mem[a])  BY <1>7, <1>12, <1>13 DEF NewAt
<1> QED BY <1>7, <1>11, <1>14 DEF MovedField

(* And the other way about.                                                 *)
LEMMA FieldsStay ==
  ASSUME NEW h, Collectable(h), NEW m2, CollectedTo(h, m2), NEW x \in h.used, NEW a \in FieldCells(h.mem, x)
  PROVE  /\ (a - x) + Newly(h, x) \in FieldCells(m2, Newly(h, x))
         /\ m2[(a - x) + Newly(h, x)] = NewValue(h, h.mem[a])
         /\ h.mem[a] \in {0} \cup h.used
<1>0. IsHeap(h.mem, h.bottom, h.top, h.blocks)  BY DEF Collectable
<1>1. x \in h.blocks /\ x \in Stay(h)  BY DEF Collectable, Stay
<1>2. FieldsWithin(h.mem, x)  BY <1>0, <1>1, FieldFacts
<1>3. a \in Cells /\ Within(h.mem, a, x)  BY <1>2 DEF FieldsWithin
<1>4. (a - x) + Newly(h, x) \in Cells /\ m2[(a - x) + Newly(h, x)] = NewAt(h, a)
  BY <1>1, <1>3 DEF CollectedTo
<1>5. a \in LiveFields(h)  BY DEF LiveFields, FieldsOf
<1>6. SameShape(h.mem, x, m2, Newly(h, x))  BY <1>1, StayShape
<1>7. (a - x) + Newly(h, x) \in FieldCells(m2, Newly(h, x))  BY <1>4, <1>6 DEF SameShape
<1>8. h.mem[a] \in {0} \cup h.used  BY <1>5 DEF Collectable
<1> QED BY <1>4, <1>5, <1>7, <1>8 DEF NewAt

(* So roots and fields point to blocks that were in use.                    *)
NewUsed(h) == { Newly(h, x) : x \in h.used }

LEMMA StayPoints ==
  ASSUME NEW h, Collectable(h), NEW m2, CollectedTo(h, m2)
  PROVE  PointTo(m2, NewBlocks(h), NewUsed(h))
<1>1. \A w \in {0} \cup h.used : NewValue(h, w) \in {0} \cup NewUsed(h)  BY DEF NewValue, NewUsed
<1>2. NewUsed(h) \subseteq NewBlocks(h)
  <2>1. h.used \subseteq Stay(h)  BY DEF Collectable, Stay
  <2> QED BY <2>1 DEF NewUsed, NewBlocks
<1>3. ASSUME NEW a \in RootCells PROVE m2[a] \in {0} \cup NewUsed(h)
  <2>1. a \in LiveFields(h)  BY DEF LiveFields, FieldsOf
  <2>2. h.mem[a] \in {0} \cup h.used  BY <2>1 DEF Collectable
  <2>3. m2[a] = NewValue(h, h.mem[a])  BY <2>1 DEF CollectedTo, NewAt
  <2> QED BY <1>1, <2>2, <2>3
<1>4. ASSUME NEW y \in NewUsed(h), NEW c \in FieldCells(m2, y) PROVE m2[c] \in {0} \cup NewUsed(h)
  <2>1. PICK x \in h.used : y = Newly(h, x)  BY DEF NewUsed
  <2>2. PICK a : MovedField(h, x, a, m2, c)  BY <2>1, StayFields
  <2>3. a \in FieldCells(h.mem, x) /\ m2[c] = NewValue(h, h.mem[a])  BY <2>2 DEF MovedField
  <2>4. h.mem[a] \in {0} \cup h.used  BY <2>3, FieldsStay
  <2> QED BY <1>1, <2>3, <2>4
<1> QED BY <1>2, <1>3, <1>4 DEF PointTo

(* What was reachable still is.                                             *)
LEMMA StillReached ==
  ASSUME NEW h, Collectable(h), UsedIsLeast(h), NEW m2, CollectedTo(h, m2),
         Heap(m2, NewBottom(h), NewTop(h))
  PROVE  NewUsed(h) \subseteq Reachable(m2, NewBottom(h), NewTop(h))
<1> DEFINE R == Reachable(m2, NewBottom(h), NewTop(h))
           S == { x \in h.used : Newly(h, x) \in R }
<1>1. IsHeap(m2, NewBottom(h), NewTop(h), NewBlocks(h))  BY StayHeap
<1>2. 0 \notin NewUsed(h)
  <2> SUFFICES ASSUME NEW x \in h.used, Newly(h, x) = 0 PROVE FALSE  BY DEF NewUsed
  <2>1. x \in Stay(h)  BY DEF Collectable, Stay
  <2>2. NewBottom(h) <= Newly(h, x)  BY <2>1, StayRoom DEF RoomOf
  <2>3. h.bottom \in Nat /\ h.up \in Nat /\ 0 < h.bottom  BY CollectionNumbers
  <2> QED BY <2>2, <2>3 DEF NewBottom
<1>3. \A x \in h.used : NewValue(h, x) = Newly(h, x) /\ Newly(h, x) \in NewUsed(h) /\ Newly(h, x) # 0
  BY <1>2 DEF NewValue, NewUsed
<1>4. 0 \notin h.bottom .. h.top - 1
  <2>1. 0 < h.bottom /\ h.bottom \in Nat /\ h.top \in Nat  BY CollectionNumbers
  <2> QED BY <2>1
<1>5. ASSUME NEW p \in Pointers(h.mem, RootCells, h.bottom, h.top) PROVE p \in S
  <2>1. PICK a \in RootCells : p = h.mem[a]  BY DEF Pointers
  <2>2. a \in LiveFields(h)  BY DEF LiveFields, FieldsOf
  <2>3. p \in {0} \cup h.used /\ p # 0  BY <1>4, <2>1, <2>2 DEF Collectable, Pointers
  <2>4. m2[a] = NewValue(h, p)  BY <2>1, <2>2 DEF CollectedTo, NewAt
  <2>5. m2[a] \in {0} \cup R  BY DEF Heap
  <2> QED BY <1>3, <2>3, <2>4, <2>5
<1>6. ASSUME NEW x \in S, NEW p \in Pointers(h.mem, FieldCells(h.mem, x), h.bottom, h.top) PROVE p \in S
  <2>1. PICK a \in FieldCells(h.mem, x) : p = h.mem[a]  BY DEF Pointers
  <2>2. x \in h.used /\ Newly(h, x) \in R  OBVIOUS
  <2>3. /\ (a - x) + Newly(h, x) \in FieldCells(m2, Newly(h, x))
        /\ m2[(a - x) + Newly(h, x)] = NewValue(h, p)
        /\ p \in {0} \cup h.used
    BY <2>1, <2>2, FieldsStay
  <2>4. p # 0  BY <1>4 DEF Pointers
  <2>5. m2[(a - x) + Newly(h, x)] \in {0} \cup R  BY <2>2, <2>3 DEF Heap
  <2> QED BY <1>3, <2>3, <2>4, <2>5
<1>7. IsClosed(h.mem, h.bottom, h.top, S)
  <2> HIDE DEF S
  <2> QED BY <1>5, <1>6 DEF IsClosed
<1>8. h.used \subseteq S
  <2> HIDE DEF S
  <2> QED BY <1>7 DEF UsedIsLeast
<1> QED BY <1>8 DEF NewUsed

(* A collection leaves a heap, and without a sediment every block of it can *)
(* be reached.                                                              *)
LeavesHeap(h, m2, b, t) ==
  /\ Heap(m2, b, t) /\ b \in Nat /\ t \in Nat
  /\ h.sed = h.bottom => Blocks(m2, b, t) = Reachable(m2, b, t)

LEMMA CollectionLeaves ==
  ASSUME NEW h, Collectable(h), UsedIsLeast(h), NEW m2, CollectedTo(h, m2)
  PROVE  LeavesHeap(h, m2, NewBottom(h), NewTop(h))
<1> DEFINE b == NewBottom(h)
           t == NewTop(h)
<1>1. IsHeap(m2, b, t, NewBlocks(h))  BY StayHeap
<1>2. PointTo(m2, NewBlocks(h), NewUsed(h))  BY StayPoints
<1>3. 0 < b
  <2>1. h.bottom \in Nat /\ h.up \in Nat /\ 0 < h.bottom  BY CollectionNumbers
  <2> QED BY <2>1 DEF NewBottom
<1>4. Heap(m2, b, t)
  <2> HIDE DEF b, t
  <2> QED BY <1>1, <1>2, <1>3, HeapFrom
<1>5. b \in Nat /\ t \in Nat
  <2> HIDE DEF b, t
  <2> QED BY <1>1, HeapNumbers
<1>6. ASSUME h.sed = h.bottom PROVE Blocks(m2, b, t) = Reachable(m2, b, t)
  <2>1. Blocks(m2, b, t) = NewBlocks(h)
    <3> HIDE DEF b, t
    <3> QED BY <1>1, BlocksAre
  <2>2. NewBlocks(h) \subseteq NewUsed(h)
    <3>1. \A x \in h.blocks : ~ (x < h.sed)
      <4>1. \A x \in h.blocks : x \in Nat /\ h.bottom <= x /\ h.bottom \in Nat  BY CollectionNumbers
      <4> QED BY <1>6, <4>1
    <3>2. Stay(h) \subseteq h.used  BY <3>1 DEF Stay
    <3> QED BY <3>2 DEF NewBlocks, NewUsed
  <2>3. NewUsed(h) \subseteq Reachable(m2, b, t)  BY <1>4, StillReached
  <2>4. Reachable(m2, b, t) \subseteq Blocks(m2, b, t)  BY <1>4 DEF Heap
  <2> QED BY <2>1, <2>2, <2>3, <2>4
<1> QED BY <1>4, <1>5, <1>6 DEF LeavesHeap

-----------------------------------------------------------------------------
(* What the program does to a heap.                                         *)

(* m2 has the entry words and the length words of the blocks B of m.        *)
AsBefore(m, m2, b, t, B) ==
  /\ IsHeap(m2, b, t, B)
  /\ \A x \in B : LenAt(m2, x) = LenAt(m, x) /\ FieldCells(m2, x) = FieldCells(m, x)

LEMMA SameHeap ==
  ASSUME NEW m, NEW m2, NEW b, NEW t, NEW B, IsHeap(m, b, t, B), \A x \in B : SameHead(m, x, m2, x)
  PROVE  AsBefore(m, m2, b, t, B)
<1>1. ASSUME NEW x \in B
      PROVE  /\ m2[x] = m[x] /\ LenAt(m2, x) = LenAt(m, x)
             /\ PastField(m2, m2[x], x) = PastField(m, m[x], x)
             /\ FieldCells(m2, x) = FieldCells(m, x)
  <2>1. m2[x] = m[x] /\ (Kind[m[x]].len = 0 => m2[x + W] = m[x + W])  BY DEF SameHead
  <2>2. PastField(m2, m2[x], x) = PastField(m, m[x], x)  BY <2>1, Zenon DEF PastField
  <2>3. LenAt(m2, x) = LenAt(m, x)  BY <2>1, Zenon DEF LenAt, BlkLn
  <2> QED BY <2>1, <2>2, <2>3 DEF FieldCells
<1>2. IsHeap(m2, b, t, B)
  <2>1. /\ Aligned(b) /\ Aligned(t) /\ b <= t /\ b \in B \cup {t}
        /\ \A x \in B :
             /\ Aligned(x) /\ b <= x /\ x < t /\ m[x] \in DOMAIN Kind
             /\ Aligned(LenAt(m, x)) /\ LenAt(m, x) >= 2 * W /\ x + LenAt(m, x) \in B \cup {t}
             /\ HasFields(m[x]) => FirstField(m[x], x) < PastField(m, m[x], x)
        /\ \A x, y \in B : x < y => x + LenAt(m, x) <= y
    BY DEF IsHeap
  <2> QED BY <1>1, <2>1 DEF IsHeap
<1> QED BY <1>1, <1>2 DEF AsBefore

(* A pointer is stored in a root, or in a field of a block that can be      *)
(* reached.                                                                 *)
Written(m, a, w) == [m EXCEPT ![a] = w]

HeapKept(m, m2, b, t) == Heap(m2, b, t) /\ Blocks(m2, b, t) = Blocks(m, b, t)

LEMMA HeapWritten ==
  ASSUME NEW m \in [Cells -> Nat], NEW b, NEW t, Heap(m, b, t), 0 < b, \A r \in RootCells : r < b,
         \A c : Aligned(c) /\ b <= c /\ c < t => c \in Cells,
         NEW a, a \in RootCells \/ \E x \in Reachable(m, b, t) : a \in FieldCells(m, x),
         NEW w \in {0} \cup Reachable(m, b, t)
  PROVE  HeapKept(m, Written(m, a, w), b, t)
<1> DEFINE m2 == Written(m, a, w)
           B == Blocks(m, b, t)
           R == Reachable(m, b, t)
<1>1. IsHeap(m, b, t, B) /\ R \subseteq B  BY DEF Heap
<1>2. \A c \in Cells : m2[c] = IF c = a THEN w ELSE m[c]  BY DEF Written
<1>3. a \in Cells /\ a \in Nat
  <2>1. CASE a \in RootCells  BY <2>1, HeadCells, CellsAligned
  <2>2. CASE \E x \in R : a \in FieldCells(m, x)
    <3>1. a \in Cells  BY <2>2 DEF FieldCells
    <3> QED BY <3>1, CellsAligned
  <2> QED BY <2>1, <2>2
<1>4. ASSUME NEW x \in B PROVE a # x /\ (Kind[m[x]].len = 0 => a # x + W)
  <2>0. x \in Nat /\ b \in Nat /\ b <= x /\ LenAt(m, x) \in Nat /\ LenAt(m, x) >= 2 * W  BY <1>1, HeapNumbers
  <2>1. CASE a \in RootCells
    <3>1. a < b  BY <2>1
    <3> QED BY <1>3, <2>0, <3>1, WordBytes
  <2>2. CASE \E y \in R : a \in FieldCells(m, y)
    <3>1. PICK y \in R : a \in FieldCells(m, y)  BY <2>2
    <3>2. FieldsWithin(m, y)  BY <1>1, FieldFacts
    <3>3. y < a /\ Within(m, a, y) /\ (Kind[m[y]].len = 0 => a # y + W)  BY <3>1, <3>2 DEF FieldsWithin
    <3>4. ASSUME Within(m, a, x) PROVE y = x  BY <1>1, <1>3, <3>3, <3>4, BlocksApart
    <3>5. ASSUME a = x PROVE FALSE
      <4>1. Within(m, a, x)  BY <2>0, <3>5, WordBytes DEF Within
      <4> QED BY <1>3, <3>3, <3>4, <3>5, <4>1
    <3>6. ASSUME Kind[m[x]].len = 0, a = x + W PROVE FALSE
      <4>1. Within(m, a, x)  BY <2>0, <3>6, WordBytes DEF Within
      <4> QED BY <3>3, <3>4, <3>6, <4>1
    <3> QED BY <3>5, <3>6
  <2> QED BY <2>1, <2>2
<1>c. ASSUME NEW x \in B PROVE x \in Cells /\ x + W \in Cells
  <2> DEFINE l == LenAt(m, x)
  <2>1. x \in Nat /\ Aligned(x) /\ b \in Nat /\ t \in Nat /\ b <= x /\ l \in Nat /\ l >= 2 * W /\ x + l <= t
    BY <1>1, HeapNumbers
  <2>2. Aligned(x + W)  BY <2>1, AlignedArithmetic
  <2> HIDE DEF l
  <2>3. x < t /\ b <= x + W /\ x + W < t  BY <2>1, WordBytes
  <2> QED BY <2>1, <2>2, <2>3
<1>5. \A x \in B : SameHead(m, x, m2, x)
  <2> HIDE DEF m2, B
  <2> QED BY <1>2, <1>4, <1>c DEF SameHead
<1> HIDE DEF m2
<1>6. AsBefore(m, m2, b, t, B)
  <2> HIDE DEF B
  <2> QED BY <1>1, <1>5, SameHeap
<1>7. PointTo(m2, B, R)
  <2>1. \A r \in RootCells : m2[r] \in {0} \cup R
    <3>1. RootCells \subseteq Cells  BY HeadCells
    <3> QED BY <1>2, <3>1 DEF Heap
  <2>2. ASSUME NEW x \in R, NEW c \in FieldCells(m2, x) PROVE m2[c] \in {0} \cup R
    <3>1. c \in FieldCells(m, x)  BY <1>1, <1>6 DEF AsBefore
    <3>2. c \in Cells /\ m[c] \in {0} \cup R  BY <3>1 DEF FieldCells, Heap
    <3> QED BY <1>2, <3>2
  <2> QED BY <1>1, <2>1, <2>2 DEF PointTo
<1>8. IsHeap(m2, b, t, B)  BY <1>6 DEF AsBefore
<1>9. Heap(m2, b, t) /\ Blocks(m2, b, t) = B
  <2> HIDE DEF B, R
  <2>1. Heap(m2, b, t)  BY <1>7, <1>8, HeapFrom
  <2>2. Blocks(m2, b, t) = B  BY <1>8, BlocksAre
  <2> QED BY <2>1, <2>2
<1> QED BY <1>9 DEF HeapKept, m2

(* m2 is m with a block of n words at t, whose fields hold w, and to which  *)
(* the root r points.                                                       *)
BuiltAt(m, m2, b, t, n, w, r) ==
  /\ r \in RootCells /\ m2[r] = t /\ \A c \in RootCells : c # r => m2[c] = m[c]
  /\ \A c \in Cells : b <= c /\ c < t => m2[c] = m[c]
  /\ m2[t] \in DOMAIN Kind /\ LenAt(m2, t) = n * W
  /\ HasFields(m2[t]) => FirstField(m2[t], t) < PastField(m2, m2[t], t)
  /\ \A c \in FieldCells(m2, t) : m2[c] = w

HeapGrown(m, m2, b, t, n) ==
  Heap(m2, b, t + n * W) /\ Blocks(m2, b, t + n * W) = Blocks(m, b, t) \cup {t}

LEMMA HeapBuilt ==
  ASSUME NEW m, NEW b, NEW t, Heap(m, b, t), 0 < b,
         \A c : Aligned(c) /\ b <= c /\ c < t => c \in Cells,
         NEW n \in Nat, n >= 2, NEW w \in {0} \cup Reachable(m, b, t), NEW r,
         NEW m2, BuiltAt(m, m2, b, t, n, w, r)
  PROVE  HeapGrown(m, m2, b, t, n)
<1> DEFINE B == Blocks(m, b, t)
           R == Reachable(m, b, t)
           l == n * W
           B2 == B \cup {t}
           R2 == R \cup {t}
<1>1. IsHeap(m, b, t, B) /\ R \subseteq B  BY DEF Heap
<1>2. l \in Nat /\ Aligned(l) /\ l >= 2 * W  BY WordsArithmetic, AlignedArithmetic
<1>3. /\ b \in Nat /\ t \in Nat /\ b <= t /\ Aligned(t) /\ Aligned(b) /\ b \in B2
      /\ \A x \in B : /\ Aligned(x) /\ x \in Nat /\ b <= x /\ x < t /\ LenAt(m, x) \in Nat /\ LenAt(m, x) >= 2 * W
                      /\ x + LenAt(m, x) \in B2 /\ x + LenAt(m, x) <= t
  <2>1. Aligned(b) /\ Aligned(t) /\ b \in B2  BY <1>1 DEF IsHeap
  <2>2. b \in Nat /\ t \in Nat /\ b <= t
    <3> HIDE DEF B
    <3> QED BY <1>1, HeapNumbers
  <2>3. \A x \in B : /\ Aligned(x) /\ x \in Nat /\ b <= x /\ x < t /\ LenAt(m, x) \in Nat /\ LenAt(m, x) >= 2 * W
                      /\ x + LenAt(m, x) \in B2 /\ x + LenAt(m, x) <= t
    <3> HIDE DEF B
    <3> QED BY <1>1, HeapNumbers
  <2> QED BY <2>1, <2>2, <2>3
<1>4. ASSUME NEW x \in B PROVE x \in Cells /\ x + W \in Cells /\ x + W < t
  <2> DEFINE k == LenAt(m, x)
  <2>1. x \in Nat /\ Aligned(x) /\ b <= x /\ k \in Nat /\ k >= 2 * W /\ x + k <= t  BY <1>3
  <2>2. Aligned(x + W)  BY <2>1, AlignedArithmetic
  <2> HIDE DEF k
  <2>3. x < t /\ b <= x + W /\ x + W < t  BY <1>3, <2>1, WordBytes
  <2> QED BY <2>1, <2>2, <2>3
<1>5. \A x \in B : SameHead(m, x, m2, x)
  <2> SUFFICES ASSUME NEW x \in B PROVE SameHead(m, x, m2, x)  OBVIOUS
  <2>1. x \in Cells /\ x + W \in Cells /\ x + W < t /\ b <= x /\ x < t /\ x \in Nat  BY <1>3, <1>4
  <2>2. b <= x + W  BY <1>3, <2>1, WordBytes
  <2> HIDE DEF B
  <2> QED BY <2>1, <2>2 DEF SameHead, BuiltAt
<1>6. AsBefore(m, m2, b, t, B)
  <2> HIDE DEF B
  <2> QED BY <1>1, <1>5, SameHeap
<1>7. /\ IsHeap(m2, b, t, B)
      /\ \A x \in B : LenAt(m2, x) = LenAt(m, x) /\ FieldCells(m2, x) = FieldCells(m, x)
  BY <1>6 DEF AsBefore
<1>8. m2[t] \in DOMAIN Kind /\ LenAt(m2, t) = l
      /\ (HasFields(m2[t]) => FirstField(m2[t], t) < PastField(m2, m2[t], t))
  BY DEF BuiltAt
<1> HIDE DEF B, R
<1>9. t + l \in Nat /\ t < t + l /\ Aligned(t + l)
  <2>1. Aligned(t + l)  BY <1>2, <1>3, AlignedArithmetic
  <2> HIDE DEF l
  <2> QED BY <1>2, <1>3, <2>1, WordBytes
<1> HIDE DEF l
<1>10. IsHeap(m2, b, t + l, B2)
  <2>1. \A x \in B :
          /\ Aligned(x) /\ b <= x /\ x < t + l /\ m2[x] \in DOMAIN Kind
          /\ Aligned(LenAt(m2, x)) /\ LenAt(m2, x) >= 2 * W /\ x + LenAt(m2, x) \in B2 \cup {t + l}
          /\ HasFields(m2[x]) => FirstField(m2[x], x) < PastField(m2, m2[x], x)
    <3>1. \A x \in B : x < t + l  BY <1>3, <1>9
    <3>2. \A x \in B :
            /\ Aligned(x) /\ b <= x /\ m2[x] \in DOMAIN Kind
            /\ Aligned(LenAt(m2, x)) /\ LenAt(m2, x) >= 2 * W /\ x + LenAt(m2, x) \in B \cup {t}
            /\ HasFields(m2[x]) => FirstField(m2[x], x) < PastField(m2, m2[x], x)
      BY <1>7 DEF IsHeap
    <3> QED BY <3>1, <3>2
  <2>2. /\ Aligned(t) /\ b <= t /\ t < t + l /\ m2[t] \in DOMAIN Kind
        /\ Aligned(LenAt(m2, t)) /\ LenAt(m2, t) >= 2 * W /\ t + LenAt(m2, t) \in B2 \cup {t + l}
        /\ HasFields(m2[t]) => FirstField(m2[t], t) < PastField(m2, m2[t], t)
    BY <1>2, <1>3, <1>8, <1>9
  <2>3. ASSUME NEW x \in B2, NEW y \in B2, x < y PROVE x + LenAt(m2, x) <= y
    <3>1. x \in B
      <4>1. \A z \in B2 : z \in Nat /\ z <= t  BY <1>3
      <4> QED BY <1>3, <2>3, <4>1
    <3>2. CASE y \in B  BY <1>7, <2>3, <3>1, <3>2 DEF IsHeap
    <3>3. CASE y = t  BY <1>3, <1>7, <3>1, <3>3
    <3> QED BY <3>2, <3>3
  <2>4. b <= t + l /\ b \in B2 \cup {t + l}  BY <1>3, <1>9
  <2>5. \A x \in B2 :
          /\ Aligned(x) /\ b <= x /\ x < t + l /\ m2[x] \in DOMAIN Kind
          /\ Aligned(LenAt(m2, x)) /\ LenAt(m2, x) >= 2 * W /\ x + LenAt(m2, x) \in B2 \cup {t + l}
          /\ HasFields(m2[x]) => FirstField(m2[x], x) < PastField(m2, m2[x], x)
    BY <2>1, <2>2, Zenon
  <2>6. \A x, y \in B2 : x < y => x + LenAt(m2, x) <= y  BY <2>3
  <2> HIDE DEF B2
  <2> QED BY <1>3, <1>9, <2>4, <2>5, <2>6 DEF IsHeap
<1>11. PointTo(m2, B2, R2)
  <2>1. \A c \in RootCells : m2[c] \in {0} \cup R2
    <3>1. \A c \in RootCells : m[c] \in {0} \cup R  BY DEF Heap, R
    <3> QED BY <3>1 DEF BuiltAt
  <2>2. ASSUME NEW x \in R, NEW c \in FieldCells(m2, x) PROVE m2[c] \in {0} \cup R2
    <3>0. x \in B  BY <1>1
    <3>1. c \in FieldCells(m, x)  BY <1>7, <3>0
    <3>2. FieldsWithin(m, x)  BY <1>1, <3>0, FieldFacts
    <3>3. c \in Cells /\ c \in Nat /\ x < c /\ Within(m, c, x)  BY <3>1, <3>2 DEF FieldsWithin
    <3> DEFINE k == LenAt(m, x)
    <3>4. x \in Nat /\ b <= x /\ k \in Nat /\ x + k <= t /\ c < x + k  BY <1>3, <3>0, <3>3 DEF Within
    <3> HIDE DEF k
    <3>5. b <= c /\ c < t  BY <1>3, <3>3, <3>4
    <3>6. m2[c] = m[c]  BY <3>3, <3>5 DEF BuiltAt
    <3>7. m[c] \in {0} \cup R  BY <3>1 DEF Heap, R
    <3> QED BY <3>6, <3>7
  <2>3. ASSUME NEW c \in FieldCells(m2, t) PROVE m2[c] \in {0} \cup R2
    <3>1. m2[c] = w  BY DEF BuiltAt
    <3>2. w \in {0} \cup R  BY DEF R
    <3> QED BY <3>1, <3>2
  <2>4. R2 \subseteq B2  BY <1>1
  <2> QED BY <2>1, <2>2, <2>3, <2>4 DEF PointTo
<1>12. Heap(m2, b, t + l) /\ Blocks(m2, b, t + l) = B2
  <2> HIDE DEF B2, R2
  <2>1. Heap(m2, b, t + l)  BY <1>10, <1>11, HeapFrom
  <2>2. Blocks(m2, b, t + l) = B2  BY <1>10, BlocksAre
  <2> QED BY <2>1, <2>2
<1> QED BY <1>12 DEF HeapGrown, l, B

-----------------------------------------------------------------------------
(* The invariant of storage.                                                *)

(* Where the call under way is, and what it asked for.                      *)
ControlInv ==
  /\ gpc \in {"out"} \cup Phases
  /\ apc \in {"idle", "alloc1", "static1", "collecting", "alloc3", "sysmm", "alloc4", "overflow"}
  /\ caller \in {"none", "alloc", "alost", "collect"}
  /\ apc = "idle" <=> caller = "none"
  /\ apc = "collecting" <=> gpc # "out"
  /\ caller = "alloc" => shape \in Shapes /\ want = shape.size * W
  /\ apc = "static1" => caller = "alost"
  /\ gpc # "out" /\ up # 0 => caller = "alost"
  /\ Aligned(want) /\ Aligned(need)

(* The dynamic area, with what it is to be moved up by, is in the memory    *)
(* there is.                                                                *)
SpaceInv ==
  /\ mem \in [Cells -> Nat]
  /\ dnamp \in Nat /\ dname \in Nat /\ dnams \in Nat /\ newsed \in Nat
  /\ gpc = "out" => dnamp <= dname /\ Bottom <= dnamb
  /\ gpc # "out" => Bottom <= Collection.bottom /\ Collection.top + Collection.up <= dname
  /\ apc # "overflow" => dname <= MaxName

(* Between collections the area is a heap, the sediment ends between two    *)
(* blocks, and after a collection without sediment nothing in it is free.   *)
HeapInv ==
  gpc = "out" =>
    /\ Heap(mem, dnamb, dnamp)
    /\ apc \in {"idle", "alloc1", "static1"} => dnamb + dnams \in Blocks(mem, dnamb, dnamp) \cup {dnamp}
    /\ apc \in {"alloc3", "sysmm", "alloc4"} => dnamb + newsed \in Blocks(mem, dnamb, dnamp) \cup {dnamp}
    /\ apc \in {"alloc3", "sysmm", "overflow"} /\ dnams = 0 =>
         Blocks(mem, dnamb, dnamp) = Reachable(mem, dnamb, dnamp)
    /\ apc = "sysmm" => dnamp + want >= dname
    /\ apc = "overflow" => dnams = 0 /\ dnamp + want >= dname - RsMem

(* During one the collector's invariant holds.                              *)
CollectInv ==
  /\ CollectorInv
  /\ gpc # "out" => before.dnams = dnams
  /\ gpc = "exit" => xr \in {0, dnamp - dnamb}

(* gbcpf's stack holds cells and limits.                                    *)
StackInv == stk \in Seq([field : Cells \cup {0}, limit : Nat])

RestInv == ControlInv /\ SpaceInv /\ HeapInv /\ CollectInv /\ StackInv

StorageInv == AreasInv /\ RestInv

(* The addresses of an area within memory are cells.                        *)
LEMMA AreaCells ==
  ASSUME NEW b \in Nat, NEW t \in Nat, Bottom <= b, t <= MaxName, Aligned(t),
         NEW a, Aligned(a), b <= a, a < t
  PROVE  a \in Cells
<1>1. a \in Nat /\ a + W <= t  BY AlignedArithmetic
<1>2. Bottom \in Nat /\ MaxName \in Nat  BY StorageConstants
<1>3. Bottom <= a /\ a <= MaxName - W  BY <1>1, <1>2, WordBytes
<1> QED BY <1>1, <1>3, StorageConstants

(* An empty area is a heap.                                                 *)
LEMMA EmptyHeap ==
  ASSUME NEW m, NEW b, Aligned(b), 0 < b, \A a \in RootCells : m[a] = 0
  PROVE  Heap(m, b, b) /\ Blocks(m, b, b) = {}
<1>1. b \in Nat  BY AlignedArithmetic
<1>2. IsHeap(m, b, b, {})  BY <1>1 DEF IsHeap
<1>3. PointTo(m, {}, {})  BY DEF PointTo
<1> QED BY <1>2, <1>3, HeapFrom, BlocksAre

(* Storage at first.                                                        *)
LEMMA InitStorage == Init => StorageInv
<1> SUFFICES ASSUME Init PROVE StorageInv  OBVIOUS
<1>1. /\ mem = [a \in Cells |-> 0]
      /\ dnamb = Bottom /\ dnamp = Bottom /\ dnams = 0 /\ dname = FirstName
      /\ gpc = "out" /\ stk = <<>>
      /\ apc = "idle" /\ caller = "none" /\ want = 0 /\ need = 0 /\ newsed = 0
  BY DEF Init, GcInit
<1>2. AreasInv  BY InitAreas
<1>3. Aligned(0)  BY AlignedArithmetic
<1>4. ControlInv  BY <1>1, <1>3 DEF ControlInv
<1>5. SpaceInv  BY <1>1, StorageConstants DEF SpaceInv
<1>6. Heap(mem, dnamb, dnamp)
  <2>1. \A a \in RootCells : mem[a] = 0  BY <1>1, HeadCells
  <2>2. Aligned(Bottom) /\ 0 < Bottom  BY StorageConstants
  <2>3. Heap(mem, Bottom, Bottom)  BY <2>1, <2>2, EmptyHeap
  <2> QED BY <1>1, <2>3
<1>7. dnamb + dnams = dnamp  BY <1>1, StorageConstants
<1>8. HeapInv  BY <1>1, <1>6, <1>7 DEF HeapInv
<1>9. CollectInv  BY <1>1 DEF CollectInv, CollectorInv
<1>10. StackInv  BY <1>1 DEF StackInv
<1> QED BY <1>2, <1>4, <1>5, <1>8, <1>9, <1>10 DEF StorageInv, RestInv

(* A step between collections that leaves memory, the area and the stack as *)
(* they are.                                                                *)
Quiet == gpc = "out" /\ UNCHANGED <<mem, dnamb, dnamp, gpc, stk>>

LEMMA QuietCollect == ASSUME StorageInv, Quiet PROVE CollectInv' /\ StackInv'
<1>1. gpc' = "out" /\ stk' = stk  BY DEF Quiet
<1>2. CollectInv'  BY <1>1 DEF CollectInv, CollectorInv
<1>3. StackInv'  BY <1>1 DEF StorageInv, RestInv, StackInv
<1> QED BY <1>2, <1>3

(* The program asks for something.                                          *)
LEMMA RequestRest == ASSUME StorageInv, NEW s \in Shapes, Request(s) PROVE RestInv'
<1>1. /\ apc = "idle" /\ apc' = "alloc1" /\ caller' = "alloc" /\ want' = s.size * W /\ shape' = s
      /\ UNCHANGED <<mem, dnamb, dnamp, dnams, gpc, stk, dname, need, newsed>>
  BY DEF Request, gcVars
<1>2. ControlInv /\ SpaceInv /\ HeapInv  BY DEF StorageInv, RestInv
<1>3. gpc = "out"  BY <1>1, <1>2 DEF ControlInv
<1>4. Aligned(s.size * W)  BY StorageConstants, AlignedArithmetic
<1>5. ControlInv'  BY <1>1, <1>2, <1>3, <1>4 DEF ControlInv
<1>6. SpaceInv'  BY <1>1, <1>2, <1>3 DEF SpaceInv
<1>7. HeapInv'  BY <1>1, <1>2, <1>3 DEF HeapInv
<1>8. Quiet  BY <1>1, <1>3 DEF Quiet
<1>9. CollectInv' /\ StackInv'  BY <1>8, QuietCollect
<1> QED BY <1>5, <1>6, <1>7, <1>9 DEF RestInv

(* Static storage is asked for.                                            *)
LEMMA RequestStaticRest == ASSUME StorageInv, NEW n \in Chunks, RequestStatic(n) PROVE RestInv'
<1>1. /\ apc = "idle" /\ apc' = "static1" /\ caller' = "alost" /\ need' = n
      /\ UNCHANGED <<mem, dnamb, dnamp, dnams, gpc, stk, dname, want, shape, newsed>>
  BY DEF RequestStatic, gcVars
<1>2. ControlInv /\ SpaceInv /\ HeapInv  BY DEF StorageInv, RestInv
<1>3. gpc = "out"  BY <1>1, <1>2 DEF ControlInv
<1>4. Aligned(n)  BY StorageConstants
<1>5. ControlInv'  BY <1>1, <1>2, <1>3, <1>4 DEF ControlInv
<1>6. SpaceInv'  BY <1>1, <1>2, <1>3 DEF SpaceInv
<1>7. HeapInv'  BY <1>1, <1>2, <1>3 DEF HeapInv
<1>8. Quiet  BY <1>1, <1>3 DEF Quiet
<1>9. CollectInv' /\ StackInv'  BY <1>8, QuietCollect
<1> QED BY <1>5, <1>6, <1>7, <1>9 DEF RestInv

(* The steps of a call in which no block moves: ...                         *)
LEMMA RetryRest == ASSUME StorageInv, Retry PROVE RestInv'
<1>1. /\ apc = "alloc3" /\ apc' = (IF dnamp + want < dname THEN "alloc4" ELSE "sysmm")
      /\ UNCHANGED <<mem, dnamb, dnamp, dnams, gpc, stk, dname, caller, want, shape, need, newsed>>
  BY DEF Retry, gcVars
<1>2. ControlInv /\ SpaceInv /\ HeapInv /\ want \in Nat  BY DEF StorageInv, RestInv, AreasInv
<1>3. gpc = "out"  BY <1>1, <1>2 DEF ControlInv
<1>4. apc' = "sysmm" => dnamp + want >= dname
  <2>1. dnamp \in Nat /\ dname \in Nat /\ want \in Nat  BY <1>2 DEF SpaceInv
  <2> QED BY <1>1, <2>1
<1>5. ControlInv'  BY <1>1, <1>2, <1>3 DEF ControlInv
<1>6. SpaceInv'  BY <1>1, <1>2, <1>3 DEF SpaceInv
<1>7. HeapInv'  BY <1>1, <1>2, <1>3, <1>4 DEF HeapInv
<1>8. Quiet  BY <1>1, <1>3 DEF Quiet
<1>9. CollectInv' /\ StackInv'  BY <1>8, QuietCollect
<1> QED BY <1>5, <1>6, <1>7, <1>9 DEF RestInv

(* ... memory is supplied, ...                                             *)
LEMMA MoreRest == ASSUME StorageInv, More PROVE RestInv'
<1>1. /\ apc = "sysmm" /\ apc' = "alloc3" /\ \E n \in Grants : Obtained(n) /\ dname' = dname + n
      /\ UNCHANGED <<mem, dnamb, dnamp, dnams, gpc, stk, caller, want, shape, need, newsed>>
  BY DEF More, gcVars
<1>2. ControlInv /\ SpaceInv /\ HeapInv  BY DEF StorageInv, RestInv
<1>3. gpc = "out" /\ dnamp \in Nat /\ dname \in Nat  BY <1>1, <1>2 DEF ControlInv, SpaceInv
<1>4. dname' \in Nat /\ dname <= dname' /\ dname' <= MaxName
  <2>1. PICK n \in Grants : Obtained(n) /\ dname' = dname + n  BY <1>1
  <2>2. n \in Nat /\ dname + n <= MaxName  BY <2>1, StorageConstants DEF Obtained, Sbrk
  <2> QED BY <1>3, <2>1, <2>2
<1>5. ControlInv'  BY <1>1, <1>2, <1>3 DEF ControlInv
<1>6. SpaceInv'  BY <1>1, <1>2, <1>3, <1>4 DEF SpaceInv
<1>7. HeapInv'  BY <1>1, <1>2, <1>3 DEF HeapInv
<1>8. Quiet  BY <1>1, <1>3 DEF Quiet
<1>9. CollectInv' /\ StackInv'  BY <1>8, QuietCollect
<1> QED BY <1>5, <1>6, <1>7, <1>9 DEF RestInv

(* ... or none is left, ...                                                *)
LEMMA OverflowRest == ASSUME StorageInv, Overflow PROVE RestInv'
<1>1. /\ apc = "sysmm" /\ dnams = 0 /\ apc' = "overflow" /\ dname' = dname + RsMem
      /\ UNCHANGED <<mem, dnamb, dnamp, dnams, gpc, stk, caller, want, shape, need, newsed>>
  BY DEF Overflow, gcVars
<1>2. ControlInv /\ SpaceInv /\ HeapInv /\ want \in Nat  BY DEF StorageInv, RestInv, AreasInv
<1>3. gpc = "out" /\ dnamp \in Nat /\ dname \in Nat  BY <1>1, <1>2 DEF ControlInv, SpaceInv
<1>4. dname' \in Nat /\ dname <= dname' /\ dname' - RsMem = dname  BY <1>1, <1>3, StorageConstants
<1>5. ControlInv'  BY <1>1, <1>2, <1>3 DEF ControlInv
<1>6. SpaceInv'  BY <1>1, <1>2, <1>3, <1>4 DEF SpaceInv
<1>7. HeapInv'  BY <1>1, <1>2, <1>3, <1>4 DEF HeapInv
<1>8. Quiet  BY <1>1, <1>3 DEF Quiet
<1>9. CollectInv' /\ StackInv'  BY <1>8, QuietCollect
<1> QED BY <1>5, <1>6, <1>7, <1>9 DEF RestInv

(* ... the sediment is recorded, ...                                       *)
LEMMA SettleRest == ASSUME StorageInv, Settle PROVE RestInv'
<1>1. /\ apc = "alloc4" /\ apc' = "alloc1" /\ dnams' = newsed /\ newsed' = 0
      /\ (dname' = dname \/ \E n \in Grants \cup {0} : (n = 0 \/ Obtained(n)) /\ dname' = dname + n)
      /\ UNCHANGED <<mem, dnamb, dnamp, gpc, stk, caller, want, shape, need>>
  BY DEF Settle
<1>2. ControlInv /\ SpaceInv /\ HeapInv  BY DEF StorageInv, RestInv
<1>3. gpc = "out" /\ dnamp \in Nat /\ dname \in Nat /\ dname <= MaxName
  BY <1>1, <1>2 DEF ControlInv, SpaceInv
<1>4. dname' \in Nat /\ dname <= dname' /\ dname' <= MaxName
  <2>1. CASE dname' = dname  BY <1>3, <2>1
  <2>2. CASE \E n \in Grants \cup {0} : (n = 0 \/ Obtained(n)) /\ dname' = dname + n
    <3>1. PICK n \in Grants \cup {0} : (n = 0 \/ Obtained(n)) /\ dname' = dname + n  BY <2>2
    <3>2. n \in Nat
      <4>1. Grants \subseteq Nat  BY StorageConstants
      <4> QED BY <3>1, <4>1
    <3>3. CASE n = 0  BY <1>3, <3>1, <3>3
    <3>4. CASE Obtained(n)
      <4>1. dname + n <= MaxName  BY <3>4 DEF Obtained, Sbrk
      <4> QED BY <1>3, <3>1, <3>2, <4>1
    <3> QED BY <3>1, <3>3, <3>4
  <2> QED BY <1>1, <2>1, <2>2
<1>5. ControlInv'  BY <1>1, <1>2, <1>3 DEF ControlInv
<1>6. SpaceInv'  BY <1>1, <1>2, <1>3, <1>4 DEF SpaceInv
<1>7. HeapInv'  BY <1>1, <1>2, <1>3 DEF HeapInv
<1>8. Quiet  BY <1>1, <1>3 DEF Quiet
<1>9. CollectInv' /\ StackInv'  BY <1>8, QuietCollect
<1> QED BY <1>5, <1>6, <1>7, <1>9 DEF RestInv

(* ... the static area grows, ...                                          *)
LEMMA ExtendRest == ASSUME StorageInv, Extend PROVE RestInv'
<1>1. /\ apc = "static1" /\ apc' = "idle" /\ caller' = "none" /\ need' = 0 /\ want' = 0
      /\ UNCHANGED <<mem, dnamb, dnamp, dnams, gpc, stk, dname, shape, newsed>>
  BY DEF Extend, gcVars
<1>2. ControlInv /\ SpaceInv /\ HeapInv  BY DEF StorageInv, RestInv
<1>3. gpc = "out"  BY <1>1, <1>2 DEF ControlInv
<1>4. Aligned(0)  BY AlignedArithmetic
<1>5. ControlInv'  BY <1>1, <1>2, <1>3, <1>4 DEF ControlInv
<1>6. SpaceInv'  BY <1>1, <1>2, <1>3 DEF SpaceInv
<1>7. HeapInv'  BY <1>1, <1>2, <1>3 DEF HeapInv
<1>8. Quiet  BY <1>1, <1>3 DEF Quiet
<1>9. CollectInv' /\ StackInv'  BY <1>8, QuietCollect
<1> QED BY <1>5, <1>6, <1>7, <1>9 DEF RestInv

(* ... or room for it is asked for.                                        *)
LEMMA MakeRoomRest == ASSUME StorageInv, MakeRoom PROVE RestInv'
<1>1. /\ apc = "static1" /\ apc' = "alloc1" /\ (want' = need \/ want' = ESts)
      /\ UNCHANGED <<mem, dnamb, dnamp, dnams, gpc, stk, dname, caller, shape, need, newsed>>
  BY DEF MakeRoom, gcVars
<1>2. ControlInv /\ SpaceInv /\ HeapInv  BY DEF StorageInv, RestInv
<1>3. gpc = "out"  BY <1>1, <1>2 DEF ControlInv
<1>4. Aligned(want')  BY <1>1, <1>2, StorageConstants DEF ControlInv
<1>5. caller # "alloc"
  BY <1>1, <1>2 DEF ControlInv
<1>6. ControlInv'  BY <1>1, <1>2, <1>3, <1>4, <1>5 DEF ControlInv
<1>7. SpaceInv'  BY <1>1, <1>2, <1>3 DEF SpaceInv
<1>8. HeapInv'  BY <1>1, <1>2, <1>3 DEF HeapInv
<1>9. Quiet  BY <1>1, <1>3 DEF Quiet
<1>10. CollectInv' /\ StackInv'  BY <1>9, QuietCollect
<1> QED BY <1>6, <1>7, <1>8, <1>10 DEF RestInv

-----------------------------------------------------------------------------
(* The collector is entered.                                                *)

(* Between calls the area is as the collector needs it.                     *)
LEMMA ReadyToCollect ==
  ASSUME NEW m \in [Cells -> Nat], NEW b, NEW t, Heap(m, b, t), Bottom <= b,
         NEW s \in Nat, b + s \in Blocks(m, b, t) \cup {t},
         NEW n, Aligned(n), n # 0 => s = 0, t + n <= MaxName
  PROVE  Collectable(Begun(m, b, t, s, n)) /\ UsedIsLeast(Begun(m, b, t, s, n))
<1> DEFINE h == Begun(m, b, t, s, n)
           B == Blocks(m, b, t)
           R == Reachable(m, b, t)
<1>1. h.mem = m /\ h.bottom = b /\ h.top = t /\ h.sed = b + s /\ h.up = n /\ h.blocks = B /\ h.used = R
  BY DEF Begun, Blocks
<1>2. IsHeap(m, b, t, B) /\ R \subseteq B  BY DEF Heap
<1>3. b \in Nat /\ t \in Nat /\ b <= t /\ Aligned(t)
  <2> HIDE DEF B
  <2>1. b \in Nat /\ t \in Nat /\ b <= t  BY <1>2, HeapNumbers
  <2>2. Aligned(t)  BY <1>2 DEF IsHeap
  <2> QED BY <2>1, <2>2
<1>4. \A a \in FieldsOf(h, R) : m[a] \in {0} \cup R  BY <1>1 DEF FieldsOf, Heap
<1>5. ASSUME NEW a, Aligned(a), b <= a, a < t + n PROVE a \in Cells
  <2>1. n \in Nat /\ Aligned(t + n)  BY <1>3, AlignedArithmetic
  <2> DEFINE e == t + n
  <2>2. e \in Nat /\ Aligned(e) /\ e <= MaxName /\ a < e  BY <1>3, <1>5, <2>1
  <2> HIDE DEF e
  <2> QED BY <1>3, <1>5, <2>2, AreaCells
<1>6. ASSUME NEW a \in RootCells \cup {GbcNm, GbcNs} PROVE a < b
  <2>1. a \in Nat  BY HeadCells, CellsAligned
  <2>2. a < Bottom /\ Bottom \in Nat  BY StorageConstants
  <2> QED BY <1>3, <2>1, <2>2
<1>7. n # 0 => b + s = b  BY <1>3
<1>8. Collectable(h)
  <2> HIDE DEF h, B, R
  <2> QED BY <1>1, <1>2, <1>4, <1>5, <1>6, <1>7 DEF Collectable, LiveFields, B, R
<1>9. (t - b) \div W \in Nat
  <2> HIDE DEF B
  <2> QED BY <1>2, HeapFinite
<1>10. UsedIsLeast(h)
  <2> SUFFICES ASSUME NEW S, IsClosed(m, b, t, S) PROVE R \subseteq S
    BY <1>1 DEF UsedIsLeast
  <2> QED BY <1>9, ReachableLeast
<1> QED BY <1>8, <1>10 DEF h

(* A call of gbcol, to move the area up by n bytes with a sediment of s.    *)
EntersFor(n, s) ==
  /\ EnterAt(n, s) /\ Aligned(n) /\ (n # 0 => s = 0) /\ s \in Nat
  /\ dnamb + s \in Blocks(mem, dnamb, dnamp) \cup {dnamp}
  /\ dnamp + n <= dname /\ dname <= MaxName
  /\ apc' = "collecting" /\ caller' \in {"alloc", "alost", "collect"}
  /\ (caller' = "alloc" => shape \in Shapes /\ want = shape.size * W) /\ (n # 0 => caller' = "alost")
  /\ UNCHANGED <<dname, want, shape, need, newsed>>

LEMMA EnterRest == ASSUME StorageInv, NEW n, NEW s, EntersFor(n, s) PROVE RestInv'
<1> DEFINE h == Begun(mem, dnamb, dnamp, s, n)
<1>1. /\ gpc = "out" /\ gpc' = "fields" /\ up' = n /\ dnams' = s
      /\ xr' = Roots[1][1] /\ stk' = <<Level(0, Roots[1][2])>>
      /\ before'.dnams = s
      /\ UNCHANGED <<mem, dnamb, dnamp>>
  BY DEF EntersFor, EnterAt
<1>2. ControlInv /\ SpaceInv /\ HeapInv /\ dnamb \in Nat  BY DEF StorageInv, RestInv, AreasInv
<1>3. /\ EnterAt(n, s) /\ Aligned(n) /\ (n # 0 => s = 0) /\ s \in Nat
      /\ dnamb + s \in Blocks(mem, dnamb, dnamp) \cup {dnamp}
      /\ dnamp + n <= dname /\ dname <= MaxName
  BY DEF EntersFor
<1>4. /\ mem \in [Cells -> Nat] /\ Heap(mem, dnamb, dnamp) /\ Bottom <= dnamb
      /\ dnamp \in Nat /\ dname \in Nat /\ n \in Nat /\ MaxName \in Nat
  BY <1>1, <1>2, <1>3, AlignedArithmetic, StorageConstants DEF SpaceInv, HeapInv
<1>5. dnamp + n <= MaxName  BY <1>3, <1>4
<1>6. Collectable(h) /\ UsedIsLeast(h)  BY <1>3, <1>4, <1>5, ReadyToCollect
<1>7. CollectorInv' /\ Collection' = h  BY <1>3, <1>6, EnterPhase
<1>8. h.bottom = dnamb /\ h.top = dnamp /\ h.up = n  BY DEF Begun
<1> HIDE DEF h
<1>9. ControlInv'
  <2>1. /\ apc' = "collecting" /\ caller' \in {"alloc", "alost", "collect"}
        /\ (caller' = "alloc" => shape \in Shapes /\ want = shape.size * W) /\ (n # 0 => caller' = "alost")
        /\ UNCHANGED <<want, shape, need>>
    BY DEF EntersFor
  <2> QED BY <1>1, <1>2, <2>1 DEF ControlInv, Phases
<1>10. SpaceInv'
  <2>1. apc' = "collecting" /\ dname' = dname /\ newsed' = newsed  BY DEF EntersFor
  <2>2. Bottom <= (Collection').bottom /\ (Collection').top + (Collection').up <= dname
    BY <1>3, <1>4, <1>7, <1>8
  <2> QED BY <1>1, <1>2, <1>3, <1>4, <2>1, <2>2 DEF SpaceInv
<1>11. HeapInv'  BY <1>1 DEF HeapInv
<1>12. CollectInv'  BY <1>1, <1>7 DEF CollectInv
<1>13. StackInv'
  <2>1. Roots \in Seq(Nat \X Nat) /\ Roots # <<>>  BY GarbageCollectorAssumption, Zenon
  <2>2. Roots[1] \in Nat \X Nat  BY <2>1
  <2>3. Level(0, Roots[1][2]) \in [field : Cells \cup {0}, limit : Nat]  BY <2>2 DEF Level
  <2> DEFINE L == Level(0, Roots[1][2])
  <2> HIDE DEF L
  <2>4. L \in [field : Cells \cup {0}, limit : Nat]  BY <2>3 DEF L
  <2>5. <<L>> \in Seq([field : Cells \cup {0}, limit : Nat])  BY <2>4
  <2>6. stk' = <<L>>  BY <1>1 DEF L
  <2> QED BY <2>5, <2>6 DEF StackInv
<1> QED BY <1>9, <1>10, <1>11, <1>12, <1>13 DEF RestInv

(* The program collects, ...                                                *)
LEMMA RequestCollectionRest == ASSUME StorageInv, RequestCollection PROVE RestInv'
<1>1. /\ apc = "idle" /\ EnterAt(0, 0) /\ apc' = "collecting" /\ caller' = "collect"
      /\ UNCHANGED <<dname, want, shape, need, newsed>>
  BY DEF RequestCollection, Enter
<1>2. ControlInv /\ SpaceInv /\ HeapInv /\ dnamb \in Nat  BY DEF StorageInv, RestInv, AreasInv
<1>3. gpc = "out"  BY <1>1, <1>2 DEF ControlInv
<1>4. Heap(mem, dnamb, dnamp) /\ dnamp <= dname /\ dnamp \in Nat /\ dname <= MaxName
  BY <1>1, <1>2, <1>3 DEF HeapInv, SpaceInv
<1>5. dnamb + 0 \in Blocks(mem, dnamb, dnamp) \cup {dnamp}  BY <1>2, <1>4 DEF Heap, IsHeap
<1>6. Aligned(0)  BY AlignedArithmetic
<1>7. dnamp + 0 <= dname  BY <1>4
<1>8. EntersFor(0, 0)  BY <1>1, <1>4, <1>5, <1>6, <1>7 DEF EntersFor
<1> QED BY <1>8, EnterRest

(* ... alloc finds no room, ...                                             *)
LEMMA NoRoomRest == ASSUME StorageInv, NoRoom PROVE RestInv'
<1>1. /\ apc = "alloc1" /\ EnterAt(0, dnams) /\ apc' = "collecting"
      /\ UNCHANGED <<dname, caller, want, shape, need, newsed>>
  BY DEF NoRoom, Enter
<1>2. ControlInv /\ SpaceInv /\ HeapInv  BY DEF StorageInv, RestInv
<1>3. gpc = "out"  BY <1>1, <1>2 DEF ControlInv
<1>4. dnamp <= dname /\ dnamp \in Nat /\ dname <= MaxName /\ dnams \in Nat  BY <1>1, <1>2, <1>3 DEF SpaceInv
<1>5. dnamb + dnams \in Blocks(mem, dnamb, dnamp) \cup {dnamp}  BY <1>1, <1>2, <1>3 DEF HeapInv
<1>6. Aligned(0)  BY AlignedArithmetic
<1>7. dnamp + 0 <= dname  BY <1>4
<1>8. /\ caller' \in {"alloc", "alost", "collect"}
      /\ (caller' = "alloc" => shape \in Shapes /\ want = shape.size * W)
  BY <1>1, <1>2 DEF ControlInv
<1>9. EntersFor(0, dnams)  BY <1>1, <1>4, <1>5, <1>6, <1>7, <1>8 DEF EntersFor
<1> QED BY <1>9, EnterRest

(* ... and no memory is left, so that the sediment is collected, ...        *)
LEMMA CollectSedimentRest == ASSUME StorageInv, CollectSediment PROVE RestInv'
<1>1. /\ apc = "sysmm" /\ EnterAt(0, 0) /\ apc' = "collecting"
      /\ UNCHANGED <<dname, caller, want, shape, need, newsed>>
  BY DEF CollectSediment, Enter
<1>2. ControlInv /\ SpaceInv /\ HeapInv /\ dnamb \in Nat  BY DEF StorageInv, RestInv, AreasInv
<1>3. gpc = "out"  BY <1>1, <1>2 DEF ControlInv
<1>4. Heap(mem, dnamb, dnamp) /\ dnamp <= dname /\ dnamp \in Nat /\ dname <= MaxName
  BY <1>1, <1>2, <1>3 DEF HeapInv, SpaceInv
<1>5. dnamb + 0 \in Blocks(mem, dnamb, dnamp) \cup {dnamp}  BY <1>2, <1>4 DEF Heap, IsHeap
<1>6. Aligned(0)  BY AlignedArithmetic
<1>7. dnamp + 0 <= dname  BY <1>4
<1>8. /\ caller' \in {"alloc", "alost", "collect"}
      /\ (caller' = "alloc" => shape \in Shapes /\ want = shape.size * W)
  BY <1>1, <1>2 DEF ControlInv
<1>9. EntersFor(0, 0)  BY <1>1, <1>4, <1>5, <1>6, <1>7, <1>8 DEF EntersFor
<1> QED BY <1>9, EnterRest

(* ... and the area is to be moved up.                                      *)
LEMMA MoveUpRest == ASSUME StorageInv, MoveUp PROVE RestInv'
<1> DEFINE s == IF want = 0 THEN dnams ELSE 0
<1>1. /\ apc = "alloc1" /\ caller = "alost" /\ EnterAt(want, s) /\ apc' = "collecting" /\ dnamp + want <= dname
      /\ UNCHANGED <<dname, caller, want, shape, need, newsed>>
  BY DEF MoveUp, Enter
<1>2. ControlInv /\ SpaceInv /\ HeapInv /\ dnamb \in Nat  BY DEF StorageInv, RestInv, AreasInv
<1>3. gpc = "out"  BY <1>1, <1>2 DEF ControlInv
<1>4. Heap(mem, dnamb, dnamp) /\ dname <= MaxName /\ dnams \in Nat
  BY <1>1, <1>2, <1>3 DEF HeapInv, SpaceInv
<1>5. dnamb + 0 \in Blocks(mem, dnamb, dnamp) \cup {dnamp}  BY <1>2, <1>4 DEF Heap, IsHeap
<1>6. dnamb + dnams \in Blocks(mem, dnamb, dnamp) \cup {dnamp}  BY <1>1, <1>2, <1>3 DEF HeapInv
<1>7. s \in Nat /\ (want # 0 => s = 0) /\ dnamb + s \in Blocks(mem, dnamb, dnamp) \cup {dnamp}
  BY <1>4, <1>5, <1>6
<1>8. Aligned(want)  BY <1>2 DEF ControlInv
<1> HIDE DEF s
<1>9. EntersFor(want, s)  BY <1>1, <1>4, <1>7, <1>8 DEF EntersFor
<1> QED BY <1>9, EnterRest

-----------------------------------------------------------------------------
(* The program moves pointers.                                              *)

(* A root, or a field of a block that can be reached, gets a pointer to such*)
(* a block or none.                                                         *)
LEMMA SetCellRest ==
  ASSUME StorageInv, NEW a, NEW w, SetCell(a, w),
         a \in RootCells \/ \E x \in Reachable(mem, dnamb, dnamp) : a \in FieldCells(mem, x),
         w \in {0} \cup Reachable(mem, dnamb, dnamp)
  PROVE  RestInv'
<1>1. /\ apc = "idle" /\ mem' = Written(mem, a, w)
      /\ UNCHANGED <<dnamb, dnamp, dnams, gpc, stk, dname, apc, caller, want, shape, need, newsed>>
  BY DEF SetCell, allocVars, Written
<1>2. ControlInv /\ SpaceInv /\ HeapInv /\ dnamb \in Nat  BY DEF StorageInv, RestInv, AreasInv
<1>3. gpc = "out"  BY <1>1, <1>2 DEF ControlInv
<1>4. /\ mem \in [Cells -> Nat] /\ Heap(mem, dnamb, dnamp) /\ Bottom <= dnamb /\ dnamp \in Nat
      /\ dnamp <= dname /\ dname \in Nat /\ dname <= MaxName
  BY <1>1, <1>2, <1>3 DEF SpaceInv, HeapInv
<1>5. /\ Bottom \in Nat /\ 0 < Bottom /\ MaxName \in Nat
      /\ \A r \in RootCells : r < Bottom /\ r \in Nat
  BY StorageConstants, HeadCells, CellsAligned
<1>6. 0 < dnamb /\ dnamp <= MaxName /\ \A r \in RootCells : r < dnamb  BY <1>2, <1>4, <1>5
<1>7. Aligned(dnamp)  BY <1>4 DEF Heap, IsHeap
<1>8. \A c : Aligned(c) /\ dnamb <= c /\ c < dnamp => c \in Cells
  BY <1>2, <1>4, <1>6, <1>7, AreaCells
<1>9. HeapKept(mem, mem', dnamb, dnamp)
  <2>1. HeapKept(mem, Written(mem, a, w), dnamb, dnamp)  BY <1>4, <1>6, <1>8, HeapWritten
  <2> QED BY <1>1, <2>1
<1>10. mem' \in [Cells -> Nat]
  <2>1. w \in Nat
    <3> DEFINE B == Blocks(mem, dnamb, dnamp)
    <3>1. IsHeap(mem, dnamb, dnamp, B) /\ Reachable(mem, dnamb, dnamp) \subseteq B  BY <1>4 DEF Heap
    <3>2. \A x \in B : x \in Nat
      <4> HIDE DEF B
      <4> QED BY <3>1, HeapNumbers
    <3> QED BY <3>1, <3>2
  <2> QED BY <1>1, <1>4, <2>1 DEF Written
<1>11. ControlInv'  BY <1>1, <1>2, <1>3 DEF ControlInv
<1>12. SpaceInv'  BY <1>1, <1>2, <1>3, <1>10 DEF SpaceInv
<1>13. HeapInv'  BY <1>1, <1>2, <1>3, <1>9 DEF HeapInv, HeapKept
<1>14. CollectInv'  BY <1>1, <1>3 DEF CollectInv, CollectorInv
<1>15. StackInv'  BY <1>1 DEF StorageInv, RestInv, StackInv
<1> QED BY <1>11, <1>12, <1>13, <1>14, <1>15 DEF RestInv

(* A pointer that the program has is to a block that can be reached.        *)
LEMMA RootsReach ==
  ASSUME NEW m, NEW b, NEW t, Heap(m, b, t)
  PROVE  /\ \A a \in RootCells : m[a] \in {0} \cup Reachable(m, b, t)
         /\ \A x \in { m[a] : a \in RootCells } \ {0} :
              x \in Reachable(m, b, t) /\ \A c \in FieldCells(m, x) : m[c] \in {0} \cup Reachable(m, b, t)
BY DEF Heap

(* It drops a pointer, reads one out of a block or stores one into a block. *)
LEMMA PointersRest == ASSUME StorageInv, Forget \/ Load \/ Store PROVE RestInv'
<1>1. ControlInv /\ HeapInv  BY DEF StorageInv, RestInv
<1>2. apc = "idle"  BY DEF Forget, Load, Store, SetCell
<1>3. Heap(mem, dnamb, dnamp)  BY <1>1, <1>2 DEF ControlInv, HeapInv
<1> DEFINE R == Reachable(mem, dnamb, dnamp)
<1>4. /\ \A a \in RootCells : mem[a] \in {0} \cup R
      /\ \A x \in RootPointers : x \in R /\ \A c \in FieldCells(mem, x) : mem[c] \in {0} \cup R
  BY <1>3, RootsReach DEF RootPointers
<1>5. CASE Forget
  <2>1. PICK a \in RootCells : SetCell(a, 0)  BY <1>5 DEF Forget
  <2> HIDE DEF R
  <2>2. 0 \in {0} \cup R  OBVIOUS
  <2> QED BY <2>1, <2>2, SetCellRest DEF R
<1>6. CASE Load
  <2>1. PICK a \in RootCells, x \in RootPointers : \E c \in FieldCells(mem, x) : SetCell(a, mem[c])
    BY <1>6 DEF Load
  <2>2. PICK c \in FieldCells(mem, x) : SetCell(a, mem[c])  BY <2>1
  <2>3. mem[c] \in {0} \cup R  BY <1>4
  <2> QED BY <2>2, <2>3, SetCellRest
<1>7. CASE Store
  <2>1. PICK a \in RootCells, x \in RootPointers : \E c \in FieldCells(mem, x) : SetCell(c, mem[a])
    BY <1>7 DEF Store
  <2>2. PICK c \in FieldCells(mem, x) : SetCell(c, mem[a])  BY <2>1
  <2>3. mem[a] \in {0} \cup R  BY <1>4
  <2>4. x \in R  BY <1>4
  <2>5. \E y \in R : c \in FieldCells(mem, y)  BY <2>4
  <2> QED BY <2>2, <2>3, <2>5, SetCellRest
<1> QED BY <1>5, <1>6, <1>7

-----------------------------------------------------------------------------
(* A block is built.                                                        *)

(* What is built is a block: of the length that was asked for or, of a kind *)
(* without fields, of fewer words.                                          *)
LEMMA KeptWords ==
  ASSUME NEW s \in Shapes, NEW n \in Kept(s)
  PROVE  /\ n \in Nat /\ n <= s.size /\ s.size \in Nat /\ s.entry \in DOMAIN Kind /\ s.entry \in Nat
         /\ n # 0 => n >= 2 /\ (Kind[s.entry].len # 0 => Kind[s.entry].len = n)
                     /\ (HasFields(s.entry) => n > Kind[s.entry].from)
<1> DEFINE k == Kind[s.entry]
<1>1. /\ s.size \in Nat /\ s.entry \in DOMAIN Kind /\ (k.len = 0 \/ k.len = s.size)
      /\ (k.len = 0 => s.size > k.from /\ s.size > 1)
  BY StorageAssumption
<1>2. /\ s.entry \in Nat /\ k.len \in Nat \ {1} /\ k.from \in Nat /\ k.to \in Nat
      /\ (k.from # 0 /\ k.len # 0 => k.from < k.to /\ k.to <= k.len)
  BY <1>1, KindFacts
<1>3. HasFields(s.entry) <=> k.from # 0  BY DEF HasFields
<1> HIDE DEF k
<1>4. CASE k.len = 0 /\ ~HasFields(s.entry)
  <2>1. n \in {0} \cup (2 .. s.size)  BY <1>4 DEF Kept, k
  <2> QED BY <1>1, <1>2, <1>4, <2>1 DEF k
<1>5. CASE ~ (k.len = 0 /\ ~HasFields(s.entry))
  <2>1. n = s.size  BY <1>5 DEF Kept, k
  <2>2. CASE k.len = 0
    <3>1. n \in Nat /\ n > k.from /\ n >= 2  BY <1>1, <2>1, <2>2
    <3> QED BY <1>1, <1>2, <2>1, <2>2, <3>1 DEF k
  <2>3. CASE k.len # 0
    <3>1. k.len = n  BY <1>1, <2>1, <2>3
    <3>2. (n \in Nat /\ n >= 2) \/ n = 0  BY <1>1, <1>2, <2>1, <3>1
    <3>3. HasFields(s.entry) => n > k.from  BY <1>2, <1>3, <2>3, <3>1
    <3> QED BY <1>1, <1>2, <2>1, <2>3, <3>1, <3>2, <3>3 DEF k
  <2> QED BY <2>2, <2>3
<1> QED BY <1>4, <1>5

(* More words are more bytes.                                               *)
LEMMA WordsOrder ==
  ASSUME NEW j \in Nat, NEW k \in Nat
  PROVE  (j < k => j * W < k * W) /\ (j <= k => j * W <= k * W)
<1> DEFINE a == j * W
           b == k * W
<1>1. a \in Nat /\ b \in Nat /\ W \in Nat /\ W >= 2  BY WordsArithmetic, WordBytes
<1>2. j < k => a + W <= b  BY WordsArithmetic
<1>3. j = k => a = b  OBVIOUS
<1> HIDE DEF a, b
<1>4. j < k => a < b  BY <1>1, <1>2
<1>5. j <= k => a <= b  BY <1>1, <1>3, <1>4
<1> QED BY <1>4, <1>5 DEF a, b

(* The block that is built, and what is left as it was.                     *)
BlockBuilt(m2, n, w, a) ==
  /\ m2 \in [Cells -> Nat]
  /\ BuiltAt(mem, m2, dnamb, dnamp, n, w, a)

LEMMA FreshIsBlock ==
  ASSUME mem \in [Cells -> Nat], NEW a \in RootCells, NEW w \in Nat, NEW n \in Nat, n >= 2,
         dnamb \in Nat, dnamp \in Nat, dnamb <= dnamp, Aligned(dnamp), \A r \in RootCells : r < dnamb,
         \A c : Aligned(c) /\ dnamb <= c /\ c < dnamp + n * W => c \in Cells,
         shape.entry \in DOMAIN Kind, Kind[shape.entry].len # 0 => Kind[shape.entry].len = n,
         HasFields(shape.entry) => n > Kind[shape.entry].from
  PROVE  BlockBuilt([Fresh(dnamp, n, w) EXCEPT ![a] = dnamp], n, w, a)
<1> DEFINE t  == dnamp
           e  == shape.entry
           k  == Kind[e]
           l  == n * W
           f  == Fresh(t, n, w)
           m2 == [f EXCEPT ![a] = t]
<1>1. /\ e \in Nat /\ k.len \in Nat \ {1} /\ k.from \in Nat /\ k.to \in Nat
      /\ (k.from # 0 /\ k.len # 0 => k.from < k.to /\ k.to <= k.len)
      /\ (k.from # 0 /\ k.len = 0 => k.from >= 2)
  BY KindFacts
<1>2. /\ k.from * W \in Nat /\ k.to * W \in Nat /\ l \in Nat /\ Aligned(l) /\ l >= 2 * W
      /\ W \in Nat /\ W >= 2
  BY <1>1, WordsArithmetic, AlignedArithmetic, WordBytes
<1>3. HasFields(e) <=> k.from # 0  BY DEF HasFields
<1>4. /\ k.len = 0 /\ HasFields(e) => 2 * W <= k.from * W /\ k.from * W < l
      /\ k.len # 0 /\ HasFields(e) => k.from * W < k.to * W /\ k.to * W <= l
  <2>1. k.len = 0 /\ HasFields(e) => k.from >= 2 /\ n > k.from  BY <1>1, <1>3
  <2>2. k.len # 0 /\ HasFields(e) => k.from < k.to /\ k.to <= n  BY <1>1, <1>3
  <2>3. 2 \in Nat  OBVIOUS
  <2> DEFINE f0 == k.from
             p0 == k.to
  <2>4. f0 \in Nat /\ p0 \in Nat  BY <1>1
  <2>5. k.len = 0 /\ HasFields(e) => 2 <= f0 /\ f0 < n  BY <1>1, <2>1
  <2>6. k.len # 0 /\ HasFields(e) => f0 < p0 /\ p0 <= n  BY <2>2
  <2>7. (2 <= f0 => 2 * W <= f0 * W) /\ (f0 < n => f0 * W < n * W)
        /\ (f0 < p0 => f0 * W < p0 * W) /\ (p0 <= n => p0 * W <= n * W)
    <3> HIDE DEF f0, p0
    <3>1. 2 <= f0 => 2 * W <= f0 * W  BY <2>3, <2>4, WordsOrder
    <3>2. f0 < n => f0 * W < n * W  BY <2>4, WordsOrder
    <3>3. f0 < p0 => f0 * W < p0 * W  BY <2>4, WordsOrder
    <3>4. p0 <= n => p0 * W <= n * W  BY <2>4, WordsOrder
    <3> QED BY <3>1, <3>2, <3>3, <3>4
  <2> QED BY <2>5, <2>6, <2>7
<1>5. ASSUME NEW c \in Cells
      PROVE  f[c] = IF c = t THEN e
                    ELSE IF c = t + W /\ k.len = 0 THEN l
                    ELSE IF t < c /\ c < t + l
                      THEN IF HasFields(e) /\ c >= t + k.from * W /\ (k.len = 0 \/ c < t + k.to * W) THEN w ELSE 0
                    ELSE mem[c]
  BY DEF Fresh, FirstField
<1>6. ASSUME NEW c \in Cells PROVE m2[c] = IF c = a THEN t ELSE f[c]
  BY DEF Fresh
<1>7. DOMAIN m2 = Cells /\ m2 = [c \in Cells |-> m2[c]]  BY DEF Fresh
<1> HIDE DEF m2, f, k, l
<1>8. a \in Cells /\ a \in Nat /\ a < t /\ a < dnamb
  <2>1. a \in Cells /\ a \in Nat  BY HeadCells, CellsAligned
  <2>2. a < dnamb  OBVIOUS
  <2> QED BY <2>1, <2>2
<1>9. t \in Cells /\ t + W \in Cells
  <2>1. Aligned(t) /\ Aligned(t + W)  BY AlignedArithmetic
  <2>2. t < t + l /\ t + W < t + l /\ dnamb <= t + W  BY <1>2
  <2> QED BY <2>1, <2>2 DEF l
<1>10. m2[t] = e  BY <1>5, <1>6, <1>8, <1>9
<1>11. k.len = 0 => m2[t + W] = l  BY <1>2, <1>5, <1>6, <1>8, <1>9
<1>12. ASSUME NEW c \in Cells, c < t, c # a PROVE m2[c] = mem[c]
  <2>1. c \in Nat  BY CellsAligned
  <2>2. c # t /\ c # t + W /\ ~ (t < c)  BY <1>2, <1>12, <2>1
  <2> QED BY <1>5, <1>6, <1>12, <2>2
<1>13. m2 \in [Cells -> Nat]
  <2>1. ASSUME NEW c \in Cells PROVE m2[c] \in Nat
    <3>1. f[c] \in Nat  BY <1>1, <1>2, <1>5
    <3> QED BY <1>6, <3>1
  <2> QED BY <1>7, <2>1
<1>14. m2[a] = t  BY <1>6, <1>8
<1>15. ASSUME NEW c \in RootCells, c # a PROVE m2[c] = mem[c]
  <2>1. c \in Cells /\ c \in Nat  BY HeadCells, CellsAligned
  <2> QED BY <1>12, <1>15, <2>1
<1>16. ASSUME NEW c \in Cells, dnamb <= c, c < t PROVE m2[c] = mem[c]
  <2>1. c # a  BY <1>8, <1>16
  <2> QED BY <1>12, <1>16, <2>1
<1>17. LenAt(m2, t) = l
  <2>1. LenAt(m2, t) = IF k.len = 0 THEN m2[t + W] ELSE k.len * W  BY <1>10, Zenon DEF LenAt, BlkLn, k
  <2>2. k.len # 0 => k.len = n  BY DEF k
  <2> QED BY <1>11, <2>1, <2>2 DEF l
<1>18. FirstField(m2[t], t) = t + k.from * W  BY <1>10 DEF FirstField, k
<1>19. PastField(m2, m2[t], t) = IF k.len = 0 THEN t + l ELSE t + k.to * W
  <2>1. PastField(m2, m2[t], t) = IF k.len = 0 THEN t + m2[t + W] ELSE t + k.to * W
    BY <1>10, Zenon DEF PastField, k
  <2> QED BY <1>11, <2>1
<1>20. HasFields(m2[t]) => FirstField(m2[t], t) < PastField(m2, m2[t], t)
  BY <1>1, <1>2, <1>4, <1>10, <1>18, <1>19
<1>21. ASSUME NEW c \in FieldCells(m2, t) PROVE m2[c] = w
  <2>1. c \in Cells /\ HasFields(e) /\ FirstField(m2[t], t) <= c /\ c < PastField(m2, m2[t], t)
    BY <1>10 DEF FieldCells
  <2>2. c \in Nat  BY <2>1, CellsAligned
  <2>3. t < c /\ c < t + l /\ c >= t + k.from * W /\ (k.len = 0 \/ c < t + k.to * W)
        /\ (k.len = 0 => c # t + W)
    <3>0. k.from * W > 0
      <4>1. k.from >= 1  BY <1>1, <1>3, <2>1
      <4>2. k.from * W \in Nat /\ 1 * W = W  BY <1>2
      <4> QED BY <1>1, <1>2, <4>1, <4>2, WordsArithmetic
    <3>1. CASE k.len = 0  BY <1>2, <1>4, <1>18, <1>19, <2>1, <2>2, <3>0, <3>1
    <3>2. CASE k.len # 0  BY <1>2, <1>4, <1>18, <1>19, <2>1, <2>2, <3>0, <3>2
    <3> QED BY <3>1, <3>2
  <2>4. c # a /\ c # t  BY <1>8, <2>2, <2>3
  <2> QED BY <1>5, <1>6, <2>1, <2>3, <2>4
<1>22. m2[t] \in DOMAIN Kind  BY <1>10
<1>23. BuiltAt(mem, m2, dnamb, dnamp, n, w, a)
  BY <1>14, <1>15, <1>16, <1>17, <1>20, <1>21, <1>22 DEF BuiltAt, l
<1>24. BlockBuilt(m2, n, w, a)  BY <1>13, <1>23 DEF BlockBuilt
<1> QED BY <1>24 DEF m2, f

(* aloc1: the block is built, or cut down to nothing.                       *)
LEMMA BuildRest == ASSUME StorageInv, Build PROVE RestInv'
<1>1. /\ apc = "alloc1" /\ caller = "alloc" /\ dnamp + want <= dname
      /\ apc' = "idle" /\ caller' = "none" /\ want' = 0 /\ shape' = NoShape
      /\ UNCHANGED <<dnamb, dnams, gpc, stk, dname, need, newsed>>
      /\ \E a \in RootCells, w \in RootPointers \cup {0}, n \in Kept(shape) :
           /\ mem' = IF n = 0 THEN mem ELSE [Fresh(dnamp, n, w) EXCEPT ![a] = dnamp]
           /\ dnamp' = dnamp + n * W
  BY DEF Build
<1>2. ControlInv /\ SpaceInv /\ HeapInv /\ dnamb \in Nat  BY DEF StorageInv, RestInv, AreasInv
<1>3. gpc = "out" /\ shape \in Shapes /\ want = shape.size * W  BY <1>1, <1>2 DEF ControlInv
<1>4. /\ mem \in [Cells -> Nat] /\ Heap(mem, dnamb, dnamp) /\ Bottom <= dnamb /\ dnamp \in Nat
      /\ dname \in Nat /\ dname <= MaxName /\ dnams \in Nat
      /\ dnamb + dnams \in Blocks(mem, dnamb, dnamp) \cup {dnamp}
  BY <1>1, <1>2, <1>3 DEF SpaceInv, HeapInv
<1>5. PICK a \in RootCells, w \in RootPointers \cup {0}, n \in Kept(shape) :
           /\ mem' = IF n = 0 THEN mem ELSE [Fresh(dnamp, n, w) EXCEPT ![a] = dnamp]
           /\ dnamp' = dnamp + n * W
  BY <1>1
<1>6. /\ n \in Nat /\ n <= shape.size /\ shape.size \in Nat /\ shape.entry \in DOMAIN Kind
      /\ n # 0 => n >= 2 /\ (Kind[shape.entry].len # 0 => Kind[shape.entry].len = n)
                  /\ (HasFields(shape.entry) => n > Kind[shape.entry].from)
  BY <1>3, KeptWords
<1> DEFINE l == n * W
           B == Blocks(mem, dnamb, dnamp)
           R == Reachable(mem, dnamb, dnamp)
<1>7. l \in Nat /\ Aligned(l) /\ l <= want /\ want \in Nat
  <2>1. l \in Nat /\ Aligned(l) /\ shape.size * W \in Nat  BY <1>6, WordsArithmetic, AlignedArithmetic
  <2>2. l <= shape.size * W
    <3> DEFINE z == shape.size
    <3>1. n \in Nat /\ z \in Nat /\ n <= z  BY <1>6
    <3> HIDE DEF z
    <3>2. n * W <= z * W  BY <3>1, WordsOrder
    <3> QED BY <3>2 DEF z
  <2> QED BY <1>3, <2>1, <2>2
<1>8. /\ Bottom \in Nat /\ 0 < Bottom /\ MaxName \in Nat
      /\ \A r \in RootCells : r < Bottom /\ r \in Nat
  BY StorageConstants, HeadCells, CellsAligned
<1>9. 0 < dnamb /\ \A r \in RootCells : r < dnamb  BY <1>2, <1>4, <1>8
<1>10. IsHeap(mem, dnamb, dnamp, B) /\ R \subseteq B /\ \A x \in RootPointers : x \in R
  BY <1>4, RootsReach DEF Heap, RootPointers
<1>11. Aligned(dnamp) /\ dnamb <= dnamp  BY <1>10 DEF IsHeap
<1> HIDE DEF l
<1>12. dnamp' = dnamp + l /\ dnamp' \in Nat /\ dnamp' <= dname
  <2>1. dnamp' = dnamp + l  BY <1>5 DEF l
  <2> QED BY <1>1, <1>4, <1>7, <2>1
<1>13. mem' \in [Cells -> Nat] /\ Heap(mem', dnamb, dnamp')
       /\ dnamb + dnams \in Blocks(mem', dnamb, dnamp') \cup {dnamp'}
  <2>1. CASE n = 0
    <3>1. l = 0  BY <2>1, WordBytes DEF l
    <3>2. mem' = mem /\ dnamp' = dnamp  BY <1>4, <1>5, <1>12, <2>1, <3>1
    <3> QED BY <1>4, <3>2
  <2>2. CASE n # 0
    <3>1. mem' = [Fresh(dnamp, n, w) EXCEPT ![a] = dnamp]  BY <1>5, <2>2
    <3>2. w \in {0} \cup R  BY <1>10
    <3>3. w \in Nat
      <4>1. \A x \in B : x \in Nat
        <5> HIDE DEF B
        <5> QED BY <1>10, HeapNumbers
      <4> QED BY <1>10, <3>2, <4>1
    <3>4. ASSUME NEW c, Aligned(c), dnamb <= c, c < dnamp + l PROVE c \in Cells
      <4> DEFINE u == dnamp + l
      <4>1. u \in Nat /\ Aligned(u) /\ u <= MaxName /\ c < u
        <5>1. Aligned(u)  BY <1>7, <1>11, AlignedArithmetic
        <5> QED BY <1>4, <1>7, <1>8, <1>12, <3>4, <5>1
      <4> HIDE DEF u
      <4> QED BY <1>2, <1>4, <3>4, <4>1, AreaCells
    <3>5. BlockBuilt(mem', n, w, a)
      <4>1. \A c : Aligned(c) /\ dnamb <= c /\ c < dnamp + n * W => c \in Cells  BY <3>4 DEF l
      <4>2. n \in Nat /\ n >= 2 /\ shape.entry \in DOMAIN Kind
            /\ (Kind[shape.entry].len # 0 => Kind[shape.entry].len = n)
            /\ (HasFields(shape.entry) => n > Kind[shape.entry].from)
        BY <1>6, <2>2
      <4>3. BlockBuilt([Fresh(dnamp, n, w) EXCEPT ![a] = dnamp], n, w, a)
        BY <1>2, <1>4, <1>9, <1>11, <3>3, <4>1, <4>2, FreshIsBlock
      <4> QED BY <3>1, <4>3
    <3>6. HeapGrown(mem, mem', dnamb, dnamp, n)
      <4>1. \A c : Aligned(c) /\ dnamb <= c /\ c < dnamp => c \in Cells
        <5>1. ASSUME NEW c, Aligned(c), dnamb <= c, c < dnamp PROVE c \in Cells
          <6>1. c \in Nat  BY <5>1, AlignedArithmetic
          <6>2. c < dnamp + l  BY <1>4, <1>7, <5>1, <6>1
          <6> QED BY <3>4, <5>1, <6>2
        <5> QED BY <5>1
      <4>2. BuiltAt(mem, mem', dnamb, dnamp, n, w, a)  BY <3>5 DEF BlockBuilt
      <4>3. n \in Nat /\ n >= 2  BY <1>6, <2>2
      <4> QED BY <1>4, <1>9, <3>2, <4>1, <4>2, <4>3, HeapBuilt
    <3>7. Heap(mem', dnamb, dnamp') /\ Blocks(mem', dnamb, dnamp') = B \cup {dnamp}
      BY <1>12, <3>6 DEF HeapGrown, l
    <3>8. mem' \in [Cells -> Nat]  BY <3>5 DEF BlockBuilt
    <3> QED BY <1>4, <3>7, <3>8
  <2> QED BY <2>1, <2>2
<1>14. ControlInv'
  <2>1. Aligned(0)  BY AlignedArithmetic
  <2> QED BY <1>1, <1>2, <1>3, <2>1 DEF ControlInv
<1>15. SpaceInv'  BY <1>1, <1>2, <1>3, <1>12, <1>13 DEF SpaceInv
<1>16. HeapInv'  BY <1>1, <1>3, <1>13 DEF HeapInv
<1>17. CollectInv'  BY <1>1, <1>3 DEF CollectInv, CollectorInv
<1>18. StackInv'  BY <1>1 DEF StorageInv, RestInv, StackInv
<1> QED BY <1>14, <1>15, <1>16, <1>17, <1>18 DEF RestInv

-----------------------------------------------------------------------------
(* A collection, and its return.                                            *)

(* The words of the heap that a collection leaves outlive its return.       *)
LEMMA ReturnsHeap ==
  ASSUME CollectorInv, gpc = "exit", NEW m2, m2 = [a \in Cells |-> IF a \in RootCells \/ InDynamic(a) THEN mem[a] ELSE 0]
  PROVE  LeavesHeap(Collection, m2, dnamb, dnamp) /\ m2 \in [Cells -> Nat]
         /\ Collection.bottom <= dnamb /\ Collection.bottom \in Nat
<1> DEFINE h == Collection
<1>1. Phase(h, gpc, mem, dnamb, dnamp, gbcsd, xr, wa, wc, stk, segs, gbclm)  BY DEF CollectorInv
<1> HIDE DEF h
<1>2. Collectable(h) /\ UsedIsLeast(h) /\ Done(h, mem) /\ dnamb = NewBottom(h) /\ dnamp = NewTop(h)
  BY <1>1 DEF Phase, NewBottom, NewTop
<1>3. mem \in [Cells -> Nat]  BY <1>2 DEF Done
<1>4. m2 \in [Cells -> Nat]  BY <1>3
<1>5. SameArea(h, mem, m2)
  <2>1. \A a \in RootCells : m2[a] = mem[a]  BY HeadCells
  <2>2. \A a \in Cells : dnamb <= a /\ a < dnamp => m2[a] = mem[a]  BY DEF InDynamic
  <2> QED BY <1>2, <1>4, <2>1, <2>2 DEF SameArea
<1>6. CollectedTo(h, m2)  BY <1>2, <1>5, CollectedWords
<1>7. LeavesHeap(h, m2, NewBottom(h), NewTop(h))  BY <1>2, <1>6, CollectionLeaves
<1>8. h.bottom \in Nat /\ h.up \in Nat  BY <1>2, CollectionNumbers
<1>9. h.bottom <= dnamb  BY <1>2, <1>8 DEF NewBottom
<1> QED BY <1>2, <1>4, <1>7, <1>8, <1>9 DEF h

(* What gbcol suggests is the end of the area, or its start.                *)
LEMMA GcReturnsRest == ASSUME StorageInv, GcReturns PROVE RestInv'
<1>1. /\ gpc = "exit" /\ gpc' = "out"
      /\ mem' = [a \in Cells |-> IF a \in RootCells \/ InDynamic(a) THEN mem[a] ELSE 0]
      /\ UNCHANGED <<dnamb, dnamp, stk, dname, want, shape, need>>
      /\ \/ up > 0 /\ dnams' = xr /\ apc' = "static1" /\ newsed' = newsed /\ caller' = caller
         \/ ~ (up > 0) /\ caller = "collect" /\ dnams' = xr /\ apc' = "idle" /\ newsed' = newsed /\ caller' = "none"
         \/ ~ (up > 0) /\ caller # "collect" /\ newsed' = xr /\ apc' = "alloc3" /\ dnams' = dnams /\ caller' = caller
  BY DEF GcReturns
<1>2. ControlInv /\ SpaceInv /\ CollectInv /\ dnamb \in Nat /\ up \in Nat  BY DEF StorageInv, RestInv, AreasInv
<1>3. CollectorInv /\ before.dnams = dnams /\ xr \in {0, dnamp - dnamb}  BY <1>1, <1>2 DEF CollectInv
<1>4. /\ LeavesHeap(Collection, mem', dnamb, dnamp) /\ mem' \in [Cells -> Nat]
      /\ Collection.bottom <= dnamb /\ Collection.bottom \in Nat
  BY <1>1, <1>3, ReturnsHeap
<1>5. Heap(mem', dnamb, dnamp) /\ dnamp \in Nat  BY <1>4 DEF LeavesHeap
<1> DEFINE B2 == Blocks(mem', dnamb, dnamp)
<1>6. dnamb \in B2 \cup {dnamp} /\ dnamb <= dnamp  BY <1>5 DEF Heap, IsHeap
<1>7. dnamb + xr \in B2 \cup {dnamp} /\ xr \in Nat
  <2>1. CASE xr = 0  BY <1>2, <1>6, <2>1
  <2>2. CASE xr = dnamp - dnamb
    <3>1. dnamb + xr = dnamp /\ xr \in Nat  BY <1>2, <1>5, <1>6, <2>2
    <3> QED BY <3>1
  <2> QED BY <1>3, <2>1, <2>2
<1>8. dnams = 0 => B2 = Reachable(mem', dnamb, dnamp)
  <2>1. SUFFICES ASSUME dnams = 0 PROVE B2 = Reachable(mem', dnamb, dnamp)  OBVIOUS
  <2>2. Collection.sed = before.dnamb + before.dnams /\ Collection.bottom = before.dnamb
    BY DEF Collection, SedimentEnd
  <2>3. Collection.sed = Collection.bottom
    <3>1. Collection.bottom + 0 = Collection.bottom  BY <1>4
    <3> QED BY <1>3, <2>1, <2>2, <3>1
  <2> QED BY <1>4, <2>3 DEF LeavesHeap
<1>9. dnamp <= dname /\ Bottom <= dnamb
  <2>1. gpc # "out"  BY <1>1
  <2>2. Collection.top \in Nat /\ Collection.up \in Nat /\ dnamp <= Collection.top + Collection.up
    BY <1>3, <2>1, CollectorTypes
  <2>3. Bottom <= Collection.bottom /\ Collection.top + Collection.up <= dname /\ dname \in Nat
    BY <1>2, <2>1 DEF SpaceInv
  <2>4. Bottom \in Nat  BY StorageConstants
  <2>5. dnamp <= dname
    <3> DEFINE q == Collection.top + Collection.up
    <3>1. q \in Nat /\ dnamp <= q /\ q <= dname  BY <2>2, <2>3
    <3> HIDE DEF q
    <3> QED BY <1>5, <2>3, <3>1
  <2>6. Bottom <= dnamb
    <3> DEFINE q == Collection.bottom
    <3>1. q \in Nat /\ q <= dnamb /\ Bottom <= q  BY <1>4, <2>3
    <3> HIDE DEF q
    <3> QED BY <1>2, <2>4, <3>1
  <2> QED BY <2>5, <2>6
<1>10. up > 0 => caller = "alost"  BY <1>1, <1>2 DEF ControlInv
<1>11. caller \in {"alloc", "alost", "collect"} /\ apc = "collecting"  BY <1>1, <1>2 DEF ControlInv
<1>12. ControlInv'
  <2>1. /\ (apc' = "idle" <=> caller' = "none") /\ apc' \in {"idle", "static1", "alloc3"}
        /\ (apc' = "static1" => caller' = "alost") /\ (caller' = "alloc" => caller = "alloc")
        /\ caller' \in {"none", "alloc", "alost", "collect"}
    BY <1>1, <1>10, <1>11
  <2> QED BY <1>1, <1>2, <2>1 DEF ControlInv
<1>13. SpaceInv'
  <2>1. dnams' \in Nat /\ newsed' \in Nat  BY <1>1, <1>2, <1>7 DEF SpaceInv
  <2>2. dname \in Nat /\ dname <= MaxName  BY <1>2, <1>11 DEF SpaceInv
  <2> QED BY <1>1, <1>4, <1>5, <1>9, <2>1, <2>2 DEF SpaceInv
<1>14. HeapInv'
  <2> HIDE DEF B2
  <2>1. apc' \in {"idle", "alloc1", "static1"} => dnamb + dnams' \in B2 \cup {dnamp}  BY <1>1, <1>7
  <2>2. apc' \in {"alloc3", "sysmm", "alloc4"} => dnamb + newsed' \in B2 \cup {dnamp}  BY <1>1, <1>7
  <2>3. apc' \in {"alloc3", "sysmm", "overflow"} /\ dnams' = 0 => B2 = Reachable(mem', dnamb, dnamp)  BY <1>1, <1>8
  <2>4. apc' # "sysmm" /\ apc' # "overflow"  BY <1>1
  <2> QED BY <1>1, <1>5, <2>1, <2>2, <2>3, <2>4 DEF HeapInv, B2
<1>15. CollectInv'  BY <1>1 DEF CollectInv, CollectorInv
<1>16. StackInv'  BY <1>1 DEF StorageInv, RestInv, StackInv
<1> QED BY <1>12, <1>13, <1>14, <1>15, <1>16 DEF RestInv

(* gbcpf's stack keeps its shape.                                           *)
LEMMA StackKept == ASSUME StackInv, CollectorInv, CollectorInv', Collect PROVE StackInv'
<1> DEFINE E == [field : Cells \cup {0}, limit : Nat]
           h == Collection
<1>1. stk \in Seq(E)  BY DEF StackInv
<1>2. CASE gpc = "fields"
  <2>1. PassOneOn(h, mem, xr, stk, segs) /\ Collectable(h)
    <3>1. Phase(h, gpc, mem, dnamb, dnamp, gbcsd, xr, wa, wc, stk, segs, gbclm)  BY <1>2 DEF CollectorInv
    <3> HIDE DEF h
    <3> QED BY <1>2, <3>1 DEF Phase
  <2> HIDE DEF h
  <2>2. PICK ch, V, iv : PassOne(h, mem, ch, V, iv, xr, stk, segs)  BY <2>1 DEF PassOneOn
  <2>3. /\ segs \in Seq(Nat \X Nat) /\ stk # <<>> /\ iv[1][1] = xr
        /\ Len(iv) = Len(stk) + Len(segs) /\ SpansOfFields(h, V, iv) /\ V \subseteq h.blocks
        /\ iv[1][2] = stk[1].limit
    <3>1. OnStack(iv, xr, stk, segs) /\ SpansOfFields(h, V, iv) /\ Threaded(h, mem, ch, V, Spans(iv))
      BY <2>2 DEF PassOne
    <3>2. stk # <<>> /\ stk \in Seq([field : Nat, limit : Nat])  BY <3>1 DEF OnStack
    <3>3. 1 \in 1 .. Len(stk)  BY <3>2
    <3>4. V \subseteq h.blocks  BY <2>1, <3>1 DEF Threaded, Collectable
    <3> QED BY <3>1, <3>2, <3>3, <3>4 DEF OnStack
  <2>4. CASE Field
    <3>1. xr # stk[1].limit  BY <2>4 DEF Field
    <3>2. iv # <<>>
      <4>1. Len(iv) # 0  BY <1>1, <2>3
      <4> QED BY <4>1
    <3>3. xr \in FieldsOf(h, V)  BY <2>1, <2>3, <3>1, <3>2, SpansAdvance
    <3>4. xr \in Cells  BY <2>1, <2>3, <3>3, FieldPlaces
    <3>5. CASE stk' = stk  BY <1>1, <3>5 DEF StackInv
    <3>6. CASE stk' # stk
      <4> DEFINE l == PastField(mem, mem[mem[xr]], mem[xr])
                 L == Level(xr, l)
      <4>1. stk' = <<L>> \o stk /\ gpc' = "fields"  BY <1>2, <2>4, <3>6 DEF Field
      <4>2. L.limit \in Nat
        <5>1. PassOneOn(Collection', mem', xr', stk', segs')
          <6>1. Phase(Collection', gpc', mem', dnamb', dnamp', gbcsd', xr', wa', wc', stk', segs', gbclm')
            BY <4>1 DEF CollectorInv
          <6> QED BY <4>1, <6>1 DEF Phase
        <5>2. stk' \in Seq([field : Nat, limit : Nat]) /\ stk' # <<>>
          BY <5>1 DEF PassOneOn, PassOne, OnStack
        <5>3. stk'[1].limit \in Nat
          <6>1. 1 \in 1 .. Len(stk')  BY <5>2
          <6> DEFINE T == [field : Nat, limit : Nat]
          <6>2. stk' \in Seq(T)  BY <5>2
          <6>3. \A e \in T : e.limit \in Nat  OBVIOUS
          <6>4. stk'[1] \in T
            <7> HIDE DEF T
            <7> QED BY <6>1, <6>2
          <6> QED BY <6>3, <6>4
        <5>4. stk'[1] = L
          <6> HIDE DEF L
          <6> QED BY <1>1, <4>1
        <5> QED BY <5>3, <5>4
      <4>3. L \in E
        <5>1. L = [field |-> xr, limit |-> l]  BY DEF Level
        <5>2. l \in Nat  BY <4>2, <5>1
        <5> HIDE DEF l, L
        <5> QED BY <3>4, <5>1, <5>2
      <4> HIDE DEF L, E
      <4>4. <<L>> \in Seq(E)  BY <4>3
      <4>5. <<L>> \o stk \in Seq(E)  BY <1>1, <4>4
      <4> QED BY <4>1, <4>5 DEF StackInv, E
    <3> QED BY <3>5, <3>6
  <2>5. CASE Pop
    <3>1. \/ Len(stk) > 1 /\ stk' = Tail(stk)
          \/ segs # <<>> /\ stk' = <<Level(0, segs[1][2])>>
          \/ stk' = <<>>
      BY <2>5 DEF Pop
    <3>2. CASE Len(stk) > 1 /\ stk' = Tail(stk)
      <4> HIDE DEF E
      <4>1. stk # <<>>  BY <2>3
      <4>2. Tail(stk) \in Seq(E)  BY <1>1, <4>1
      <4> QED BY <3>2, <4>2 DEF StackInv, E
    <3>3. CASE segs # <<>> /\ stk' = <<Level(0, segs[1][2])>>
      <4> DEFINE L == Level(0, segs[1][2])
      <4>1. segs[1] \in Nat \X Nat  BY <2>3, <3>3
      <4>2. L \in E  BY <4>1 DEF Level
      <4> HIDE DEF L, E
      <4>3. <<L>> \in Seq(E)  BY <4>2
      <4> QED BY <3>3, <4>3 DEF StackInv, E, L
    <3>4. CASE stk' = <<>>  BY <3>4 DEF StackInv
    <3> QED BY <3>1, <3>2, <3>3, <3>4
  <2>6. CASE ~ (Field \/ Pop)
    <3>1. gpc # "fields"  BY <2>6 DEF Collect, Sediment, Used, Chain, Unused, Move, Up
    <3> QED BY <1>2, <3>1
  <2> QED BY <2>4, <2>5, <2>6
<1>3. CASE gpc # "fields"
  <2>1. ~Field /\ ~Pop  BY <1>3 DEF Field, Pop
  <2>2. stk' = stk  BY <2>1 DEF Collect, Sediment, Used, Chain, Unused, Move, Up
  <2> QED BY <1>1, <2>2 DEF StackInv
<1> QED BY <1>2, <1>3

(* What the collector's invariant says of the types holds after a step too. *)
CollectorTyped == mem \in [Cells -> Nat] /\ dnamb \in Nat /\ dnamp \in Nat /\ gpc \in Phases

LEMMA CollectorTypesThen == CollectorInv /\ gpc # "out" => CollectorTyped
BY CollectorTypes DEF CollectorTyped

LEMMA CollectorTypesNext == (CollectorInv /\ gpc # "out" => CollectorTyped)'
BY CollectorTypesThen, PTL

(* A step of the collector.                                                 *)
LEMMA CollectorRest == ASSUME StorageInv, Collector PROVE RestInv'
<1>1. Collect /\ UNCHANGED <<dname, apc, caller, want, shape, need, newsed>>  BY DEF Collector, allocVars
<1>2. ControlInv /\ SpaceInv /\ HeapInv /\ CollectInv /\ StackInv /\ dnamb \in Nat
  BY DEF StorageInv, RestInv, AreasInv
<1>3. CollectorInv  BY <1>2 DEF CollectInv
<1>4. CollectorInv'  BY <1>1, <1>3, CollectPhase
<1>5. gpc # "out" /\ gpc' # "out" /\ UNCHANGED <<before, up, dnams>>
  BY <1>1 DEF Collect, Field, Pop, Sediment, Used, Chain, Unused, Move, Up
<1>6. Collection' = Collection  BY <1>5, CollectionKept
<1>7. /\ mem' \in [Cells -> Nat] /\ dnamb' \in Nat /\ dnamp' \in Nat /\ gpc' \in Phases
  BY <1>4, <1>5, CollectorTypesNext DEF CollectorTyped
<1>8. gpc' = "exit" => xr' \in {0, dnamp' - dnamb'}
  <2>1. SUFFICES ASSUME gpc' = "exit" PROVE xr' \in {0, dnamp' - dnamb'}  OBVIOUS
  <2>2. Up  BY <1>1, <2>1 DEF Collect, Field, Pop, Sediment, Used, Chain, Unused, Move
  <2>3. xr' = Suggested(dnamp', dnamb')  BY <2>2 DEF Up
  <2> QED BY <2>3 DEF Suggested
<1>9. ControlInv'  BY <1>1, <1>2, <1>5, <1>7 DEF ControlInv
<1>10. SpaceInv'  BY <1>1, <1>2, <1>5, <1>6, <1>7 DEF SpaceInv
<1>11. HeapInv'  BY <1>5 DEF HeapInv
<1>12. CollectInv'  BY <1>2, <1>4, <1>5, <1>8 DEF CollectInv
<1>13. StackInv'  BY <1>1, <1>2, <1>3, <1>4, StackKept
<1> QED BY <1>9, <1>10, <1>11, <1>12, <1>13 DEF RestInv

(* Every step keeps the invariant of storage, and so does none.             *)
LEMMA StorageStep == StorageInv /\ [Next]_vars => StorageInv'
<1> SUFFICES ASSUME StorageInv, [Next]_vars PROVE StorageInv'  OBVIOUS
<1>0. AreasInv  BY DEF StorageInv
<1>1. CASE Collector
  <2>1. AreasInv'  BY <1>0, <1>1, CollectorAreas
  <2>2. RestInv'  BY <1>1, CollectorRest
  <2> QED BY <2>1, <2>2 DEF StorageInv
<1>2. CASE Program
  <2>1. AreasInv'  BY <1>0, <1>2, ProgramAreas
  <2>2. RestInv'
    <3>1. CASE \E s \in Shapes : Request(s)  BY <3>1, RequestRest
    <3>2. CASE \E n \in Chunks : RequestStatic(n)  BY <3>2, RequestStaticRest
    <3>3. CASE RequestCollection  BY <3>3, RequestCollectionRest
    <3>4. CASE Forget \/ Load \/ Store  BY <3>4, PointersRest
    <3> QED BY <1>2, <3>1, <3>2, <3>3, <3>4 DEF Program
  <2> QED BY <2>1, <2>2 DEF StorageInv
<1>3. CASE Allocator
  <2>1. AreasInv'  BY <1>0, <1>3, AllocatorAreas
  <2>2. RestInv'
    BY <1>3, BuildRest, NoRoomRest, RetryRest, MoreRest, CollectSedimentRest, OverflowRest, SettleRest,
       ExtendRest, MakeRoomRest, MoveUpRest, GcReturnsRest DEF Allocator
  <2> QED BY <2>1, <2>2 DEF StorageInv
<1>4. CASE UNCHANGED vars
  <2>1. /\ UNCHANGED <<mem, dnamb, dnamp, dnams, gpc, xr, wa, wc, stk, segs, gbcsd, gbcsf, gbclm, up, before>>
        /\ UNCHANGED <<dname, state, apc, caller, want, shape, need, newsed>>
    BY <1>4 DEF vars, gcVars, allocVars
  <2>2. Collection' = Collection  BY <2>1, CollectionKept
  <2>3. AreasInv' /\ ControlInv' /\ StackInv'
    BY <2>1 DEF StorageInv, RestInv, AreasInv, ControlInv, StackInv
  <2>4. SpaceInv'  BY <2>1, <2>2 DEF StorageInv, RestInv, SpaceInv
  <2>5. HeapInv'  BY <2>1 DEF StorageInv, RestInv, HeapInv
  <2>6. CollectInv'  BY <2>1, <2>2 DEF StorageInv, RestInv, CollectInv, CollectorInv
  <2> QED BY <2>3, <2>4, <2>5, <2>6 DEF StorageInv, RestInv
<1> QED BY <1>1, <1>2, <1>3, <1>4 DEF Next

(* The invariant of storage always holds, whatever the program builds, links*)
(* and forgets: between two calls of the allocator the dynamic area is      *)
(* blocks from end to end, and within a collection each loop of gbcol has   *)
(* done its part.                                                           *)
THEOREM StorageAlways == Spec => []StorageInv
BY InitStorage, StorageStep, PTL DEF Spec

-----------------------------------------------------------------------------
(* What follows.                                                            *)

(* The variables of the allocator and of the collector hold values of their *)
(* types.                                                                   *)
THEOREM StorageTypes == Spec => []TypeOK
<1>1. StorageInv => TypeOK
  <2> SUFFICES ASSUME StorageInv PROVE TypeOK  OBVIOUS
  <2>1. ControlInv /\ SpaceInv /\ StackInv /\ AreasInv  BY DEF StorageInv, RestInv
  <2>2. /\ gpc \in {"out", "fields", "sediment", "used", "chain", "unused", "move", "up", "exit"}
        /\ apc \in {"idle", "alloc1", "static1", "collecting", "alloc3", "sysmm", "alloc4", "overflow"}
        /\ caller \in {"none", "alloc", "alost", "collect"}
    BY <2>1 DEF ControlInv, Phases
  <2>3. (apc = "idle") = (caller = "none")  BY <2>1 DEF ControlInv
  <2>4. (apc = "collecting") = (gpc # "out")  BY <2>1 DEF ControlInv
  <2>5. \A i \in 1 .. Len(stk) : stk[i].field \in Cells \cup {0} /\ stk[i].limit \in Nat
    <3> DEFINE E == [field : Cells \cup {0}, limit : Nat]
    <3>1. stk \in Seq(E)  BY <2>1 DEF StackInv
    <3>2. \A e \in E : e.field \in Cells \cup {0} /\ e.limit \in Nat  OBVIOUS
    <3> HIDE DEF E
    <3>3. \A i \in 1 .. Len(stk) : stk[i] \in E  BY <3>1
    <3> QED BY <3>2, <3>3
  <2>6. /\ mem \in [Cells -> Nat]
        /\ dnamb \in Nat /\ dnamp \in Nat /\ dnams \in Nat /\ dname \in Nat /\ state \in Nat
    BY <2>1 DEF SpaceInv, AreasInv
  <2> QED BY <2>2, <2>3, <2>4, <2>5, <2>6 DEF TypeOK
<1> QED BY <1>1, StorageAlways, PTL

(* No block that alloc hands out, and no area that alost moves up, goes past*)
(* the memory that sysmm has supplied; a collection never grows the area by *)
(* more than it was asked to move it.                                       *)
THEOREM AllocationWithinMemory == Spec => []WithinMemory
<1>1. StorageInv => WithinMemory
  <2> SUFFICES ASSUME StorageInv PROVE dnamp <= dname  BY DEF WithinMemory
  <2>1. SpaceInv /\ CollectInv  BY DEF StorageInv, RestInv
  <2>2. CASE gpc = "out"  BY <2>1, <2>2 DEF SpaceInv
  <2>3. CASE gpc # "out"
    <3>1. CollectorInv  BY <2>1 DEF CollectInv
    <3> DEFINE q == Collection.top + Collection.up
    <3>2. dnamp \in Nat /\ q \in Nat /\ dnamp <= q
      <4>1. /\ dnamp \in Nat /\ Collection.top \in Nat /\ Collection.up \in Nat
            /\ dnamp <= Collection.top + Collection.up
        BY <2>3, <3>1, CollectorTypes
      <4> QED BY <4>1
    <3>3. q <= dname /\ dname \in Nat  BY <2>1, <2>3 DEF SpaceInv
    <3> HIDE DEF q
    <3> QED BY <3>2, <3>3
  <2> QED BY <2>2, <2>3
<1> QED BY <1>1, StorageAlways, PTL

(* Between two calls the dynamic area can be scanned from block to block up *)
(* to dnamp, the sediment ends between two blocks, and every pointer in a   *)
(* root or in a block that can be reached is to a block: no collection, no  *)
(* trimmed block and no store breaks the chain of lengths blkln follows.    *)
THEOREM HeapAlwaysBlocks == Spec => []HeapIsBlocks
<1>1. StorageInv => HeapIsBlocks
  <2> SUFFICES ASSUME StorageInv, apc = "idle"
               PROVE  /\ dnamp \in Starts(mem, dnamb, dnamp) /\ \A x \in Starts(mem, dnamb, dnamp) : x <= dnamp
                      /\ dnamb + dnams \in Starts(mem, dnamb, dnamp)
                      /\ Reachable(mem, dnamb, dnamp) \subseteq Starts(mem, dnamb, dnamp) \ {dnamp}
                      /\ \A a \in RootCells : mem[a] \in {0} \cup Reachable(mem, dnamb, dnamp)
    BY DEF HeapIsBlocks
  <2>1. ControlInv /\ HeapInv  BY DEF StorageInv, RestInv
  <2>2. gpc = "out"  BY <2>1 DEF ControlInv
  <2>3. Heap(mem, dnamb, dnamp) /\ dnamb + dnams \in Blocks(mem, dnamb, dnamp) \cup {dnamp}
    BY <2>1, <2>2 DEF HeapInv
  <2> DEFINE B == Blocks(mem, dnamb, dnamp)
  <2>4. IsHeap(mem, dnamb, dnamp, B) /\ Reachable(mem, dnamb, dnamp) \subseteq B
        /\ \A a \in RootCells : mem[a] \in {0} \cup Reachable(mem, dnamb, dnamp)
    BY <2>3 DEF Heap
  <2>5. dnamb + dnams \in B \cup {dnamp}  BY <2>3
  <2>6. B = Starts(mem, dnamb, dnamp) \ {dnamp}  BY DEF Blocks
  <2> HIDE DEF B
  <2>7. Starts(mem, dnamb, dnamp) = B \cup {dnamp}  BY <2>4, StartsOfHeap
  <2>8. \A x \in B \cup {dnamp} : x <= dnamp  BY <2>4, HeapNumbers
  <2> QED BY <2>4, <2>5, <2>6, <2>7, <2>8
<1> QED BY <1>1, StorageAlways, PTL

(* Error 204 means what it says: when memory overflows, the blocks that can *)
(* be reached leave too little room for what was asked, in all the memory   *)
(* that sysmm supplied; nothing that is free has been overlooked.           *)
THEOREM OverflowMeansFull == Spec => []OverflowOnlyWhenFull
<1>1. StorageInv => OverflowOnlyWhenFull
  <2> SUFFICES ASSUME StorageInv, apc = "overflow"
               PROVE  SumLen(mem, Reachable(mem, dnamb, dnamp)) + want >= dname - RsMem - dnamb
    BY DEF OverflowOnlyWhenFull
  <2>1. ControlInv /\ HeapInv /\ SpaceInv /\ AreasInv  BY DEF StorageInv, RestInv
  <2>2. gpc = "out"  BY <2>1 DEF ControlInv
  <2> DEFINE B == Blocks(mem, dnamb, dnamp)
  <2>3. /\ Heap(mem, dnamb, dnamp) /\ B = Reachable(mem, dnamb, dnamp)
        /\ dnamp + want >= dname - RsMem
    BY <2>1, <2>2 DEF HeapInv
  <2>4. IsHeap(mem, dnamb, dnamp, B)  BY <2>3 DEF Heap
  <2> HIDE DEF B
  <2>5. SumLen(mem, B) = dnamp - dnamb  BY <2>4, HeapSum
  <2>6. dnamp \in Nat /\ dnamb \in Nat /\ dname \in Nat /\ want \in Nat /\ RsMem \in Nat
    BY <2>1, StorageConstants DEF SpaceInv, AreasInv
  <2>7. SumLen(mem, Reachable(mem, dnamb, dnamp)) = dnamp - dnamb  BY <2>3, <2>5
  <2> DEFINE q == SumLen(mem, Reachable(mem, dnamb, dnamp))
  <2>8. q = dnamp - dnamb  BY <2>7
  <2> HIDE DEF q
  <2>9. q + want >= dname - RsMem - dnamb  BY <2>3, <2>6, <2>8
  <2> QED BY <2>9 DEF q
<1> QED BY <1>1, StorageAlways, PTL

(* When gbcol returns, every block in use is at its new address with the    *)
(* words it had, and every pointer to it has followed it: for every layout  *)
(* of blocks, every graph of pointers, every sediment and every move up.    *)
THEOREM CollectionCompacts == Spec => []Compacted
<1>1. StorageInv => CollectorInv  BY DEF StorageInv, RestInv, CollectInv
<1> QED BY <1>1, CompactedThen, StorageAlways, PTL

(* In pass one every chain goes through the fields that pointed to its block*)
(* and ends in the block's entry word, every field is on the chain of its   *)
(* block or as it was, and nothing else is written.                         *)
THEOREM ChainsAlwaysWellFormed == Spec => []ChainsWellFormed
<1>1. StorageInv => CollectorInv  BY DEF StorageInv, RestInv, CollectInv
<1> QED BY <1>1, ChainsThen, StorageAlways, PTL

=============================================================================
