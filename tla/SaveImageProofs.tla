-------------------------- MODULE SaveImageProofs --------------------------
(* Save files come back whole: theorems about Compress and SaveImage.       *)
(* The first part is the coder and the decoder: whatever the section, the   *)
(* width of a code and the number of characters, each code that compress    *)
(* puts out makes expand store exactly the characters it stands for.  The   *)
(* second is the files, their names and the steps of a save and of a load.  *)
EXTENDS SaveImage, FiniteSetTheorems, SequenceTheorems, WellFoundedInduction, TLAPS

-----------------------------------------------------------------------------
(* Induction, in the form the provers can use: with a set for the predicate.*)
LEMMA LeastNumber ==
  ASSUME NEW T \in SUBSET Nat, T # {}
  PROVE  \E x \in T : \A y \in T : x <= y
<1>1. IsWellFoundedOn(OpToRel(<, Nat), Nat)  BY NatLessThanWellFounded
<1>2. PICK x \in T : \A y \in T : ~ (<<y, x>> \in OpToRel(<, Nat))
  BY <1>1, WFMin
<1>3. \A y \in T : ~ (y < x)  BY <1>2 DEF OpToRel
<1> QED BY <1>3

(* A set with 0 and with the successor of each of its numbers has them all. *)
LEMMA SetInduction ==
  ASSUME NEW S, 0 \in S, \A n \in Nat : n \in S => n + 1 \in S
  PROVE  Nat \subseteq S
<1> SUFFICES ASSUME Nat \ S # {} PROVE FALSE  OBVIOUS
<1>1. PICK x \in Nat \ S : \A y \in Nat \ S : x <= y  BY LeastNumber
<1>2. x # 0 /\ x - 1 \in Nat /\ x - 1 \notin Nat \ S  BY <1>1
<1> QED BY <1>1, <1>2

(* One step of decode_string.                                               *)
Follow(table, c) == IF c < FirstCode THEN c ELSE table[c].prefix

(* The recursion of decode_string is well defined: there is a function that *)
(* satisfies its equations up to each number of steps.                      *)
LEMMA PrefixesDef ==
  ASSUME NEW table, NEW code, NEW limit \in Nat
  PROVE  /\ Prefixes(table, code, limit)[0] = code
         /\ \A n \in 1..limit :
              Prefixes(table, code, limit)[n] = Follow(table, Prefixes(table, code, limit)[n - 1])
<1> DEFINE Good(g, m) == g[0] = code /\ \A n \in 1..m : g[n] = Follow(table, g[n - 1])
           S == {m \in Nat : \E g : Good(g, m)}
<1>1. 0 \in S
  <2>1. Good([i \in {0} |-> code], 0)  OBVIOUS
  <2> QED BY <2>1
<1>2. ASSUME NEW m \in Nat, m \in S PROVE m + 1 \in S
  <2>1. PICK g : Good(g, m)  BY <1>2
  <2> DEFINE h == [i \in 0..(m + 1) |-> IF i <= m THEN g[i] ELSE Follow(table, g[m])]
  <2>2. \A i \in 0..m : h[i] = g[i]  OBVIOUS
  <2>3. h[m + 1] = Follow(table, g[m])  OBVIOUS
  <2> HIDE DEF h
  <2>4. h[0] = code  BY <2>1, <2>2
  <2>5. ASSUME NEW n \in 1..(m + 1) PROVE h[n] = Follow(table, h[n - 1])
    <3>1. CASE n = m + 1  BY <2>2, <2>3, <3>1
    <3>2. CASE n # m + 1
      <4>1. n \in 1..m /\ n \in 0..m /\ n - 1 \in 0..m  BY <3>2
      <4> QED BY <2>1, <2>2, <4>1
    <3> QED BY <3>1, <3>2
  <2> QED BY <2>4, <2>5
<1>3. limit \in S
  <2> HIDE DEF S
  <2> QED BY <1>1, <1>2, SetInduction
<1>4. PICK g : Good(g, limit)  BY <1>3
<1> DEFINE Solves(h) == h = [n \in 0..limit |->
                               IF n = 0 THEN code
                               ELSE LET c == h[n - 1]
                                    IN  IF c < FirstCode THEN c ELSE table[c].prefix]
           k == [n \in 0..limit |-> g[n]]
<1>5. Solves(k)
  <2>1. \A n \in 0..limit : k[n] = IF n = 0 THEN code ELSE Follow(table, k[n - 1])
    BY <1>4
  <2> QED BY <2>1 DEF Follow
<1>6. Prefixes(table, code, limit) = CHOOSE h : Solves(h)
  BY DEF Prefixes
<1>7. Solves(Prefixes(table, code, limit))
  <2> HIDE DEF Solves, k
  <2> QED BY <1>5, <1>6
<1>8. ASSUME NEW h, Solves(h)
      PROVE  h[0] = code /\ \A n \in 1..limit : h[n] = Follow(table, h[n - 1])
  <2>1. h[0] = code  BY <1>8
  <2>2. ASSUME NEW n \in 1..limit PROVE h[n] = Follow(table, h[n - 1])
    <3>1. n \in 0..limit /\ n # 0  OBVIOUS
    <3> QED BY <1>8, <3>1 DEF Follow
  <2> QED BY <2>1, <2>2
<1> HIDE DEF Solves
<1> QED BY <1>7, <1>8

-----------------------------------------------------------------------------
(* The codes of a table, and what they stand for: M gives each code of the  *)
(* table its string, a character its own, an entry that of its prefix with  *)
(* one character more.                                                      *)
Codes(table) == 0 .. NextCode(table) - 1

Means(M, table) ==
  /\ M \in [Codes(table) -> Seq(Character)]
  /\ \A c \in Character : M[c] = <<c>>
  /\ \A k \in DOMAIN table :
       /\ table[k].prefix \in 0 .. FirstCode + k - 2
       /\ M[FirstCode + k - 1] = Append(M[table[k].prefix], table[k].append)
       /\ Len(M[FirstCode + k - 1]) \in 2 .. k + 1

(* The decoder's table has the first n entries of the coder's.              *)
Agrees(dtable, table, n) ==
  \A k \in 1..n : dtable[FirstCode + k - 1] = table[k]

(* Numbers: a character is a code, and so is every code of a table that is  *)
(* not full.                                                                *)
LEMMA CodeNumbers ==
  /\ FirstCode \in Nat \ {0} /\ MaxValue \in Nat /\ MaxCode \in Nat
  /\ FirstCode < MaxCode /\ MaxCode < MaxValue /\ MaxCode = MaxValue - 1
  /\ 0 \in Character /\ Character \subseteq Code
<1>1. 2 ^ LzwBits \in Nat  BY CompressAssumption
<1> QED BY <1>1, CompressAssumption DEF MaxCode, MaxValue, Character, Code

(* What an empty table holds are entries.                                   *)
LEMMA NoEntryIsEntry == NoEntry \in Entry
BY CodeNumbers DEF NoEntry, Entry, Code, Character

(* What decode_string stores after m steps: the characters from last to     *)
(* first on the way.                                                        *)
Collected(dtable, rest, m) ==
  [k \in 1..(m + 1) |-> IF k = 1 THEN rest[m] ELSE dtable[rest[m + 1 - k]].append]

(* decode_string stops at the first character it meets.                     *)
LEMMA DecodeSteps ==
  ASSUME NEW dtable, NEW code, NEW limit \in Nat, NEW m \in 0..limit,
         NEW rest, rest = Prefixes(dtable, code, limit),
         \A k \in 0..limit : rest[k] \in Int,
         rest[m] < FirstCode, \A k \in 0..(m - 1) : rest[k] >= FirstCode
  PROVE  DecodeString(dtable, code, limit) = Collected(dtable, rest, m)
<1> DEFINE First(n) == rest[n] < FirstCode /\ \A k \in 0..(n - 1) : rest[k] >= FirstCode
           steps == CHOOSE n \in 0..limit : First(n)
<1>1. steps = m
  <2>1. First(m)  OBVIOUS
  <2>2. steps \in 0..limit /\ First(steps)  BY <2>1
  <2> HIDE DEF steps
  <2>3. ~ (steps < m)
    <3>1. steps < m => steps \in 0..(m - 1)  BY <2>2
    <3> QED BY <2>1, <2>2, <3>1, CodeNumbers
  <2>4. ~ (m < steps)
    <3>1. m < steps => m \in 0..(steps - 1)  BY <2>2
    <3> QED BY <2>1, <2>2, <3>1, CodeNumbers
  <2> QED BY <2>2, <2>3, <2>4
<1>2. DecodeString(dtable, code, limit) =
        [k \in 1..(steps + 1) |-> IF k = 1 THEN rest[steps]
                                  ELSE dtable[rest[steps + 1 - k]].append]
  BY DEF DecodeString
<1> HIDE DEF steps
<1> QED BY <1>1, <1>2 DEF Collected

(* Once it has met a character it keeps it.                                 *)
LEMMA DecodableFrom ==
  ASSUME NEW dtable, NEW code, NEW limit \in Nat, NEW m \in 0..limit,
         Prefixes(dtable, code, limit)[m] < FirstCode
  PROVE  Decodable(dtable, code, limit)
<1> DEFINE rest == Prefixes(dtable, code, limit)
           S == {j \in Nat : m + j <= limit => rest[m + j] < FirstCode}
<1>1. 0 \in S  OBVIOUS
<1>2. ASSUME NEW j \in Nat, j \in S PROVE j + 1 \in S
  <2> SUFFICES ASSUME m + (j + 1) <= limit PROVE rest[m + (j + 1)] < FirstCode  OBVIOUS
  <2>1. m + j <= limit /\ m + (j + 1) \in 1..limit /\ m + (j + 1) - 1 = m + j  OBVIOUS
  <2>2. rest[m + (j + 1)] = Follow(dtable, rest[m + (j + 1) - 1])  BY <2>1, PrefixesDef
  <2>3. rest[m + j] < FirstCode  BY <1>2, <2>1
  <2> HIDE DEF rest
  <2> QED BY <2>1, <2>2, <2>3 DEF Follow
<1>3. limit - m \in S
  <2> HIDE DEF S
  <2> QED BY <1>1, <1>2, SetInduction
<1>4. rest[limit] < FirstCode
  <2>1. m + (limit - m) = limit  OBVIOUS
  <2> HIDE DEF rest
  <2> QED BY <1>3, <2>1
<1> QED BY <1>4 DEF Decodable

(* What decode_string gives is a string of characters, not an empty one,    *)
(* whatever the table and the code are.                                     *)
LEMMA DecodeStringType ==
  ASSUME NEW dtable \in [FirstCode..MaxValue -> Entry], NEW code \in Code,
         NEW limit \in Nat, Decodable(dtable, code, limit)
  PROVE  DecodeString(dtable, code, limit) \in Seq(Character) \ {<<>>}
<1> DEFINE rest == Prefixes(dtable, code, limit)
           S == {j \in Nat : j <= limit => rest[j] \in Code}
<1>1. 0 \in S  BY PrefixesDef
<1>2. ASSUME NEW j \in Nat, j \in S PROVE j + 1 \in S
  <2> SUFFICES ASSUME j + 1 <= limit PROVE rest[j + 1] \in Code  OBVIOUS
  <2>1. rest[j + 1] = Follow(dtable, rest[j])
    <3>1. j + 1 \in 1..limit /\ (j + 1) - 1 = j  OBVIOUS
    <3>2. rest[j + 1] = Follow(dtable, rest[(j + 1) - 1])  BY <3>1, PrefixesDef
    <3> QED BY <3>1, <3>2
  <2>2. rest[j] \in Code  BY <1>2
  <2> HIDE DEF rest
  <2>3. CASE rest[j] < FirstCode  BY <2>1, <2>2, <2>3 DEF Follow
  <2>4. CASE ~ (rest[j] < FirstCode)
    <3>1. rest[j] \in FirstCode..MaxValue  BY <2>2, <2>4, CodeNumbers DEF Code
    <3>2. dtable[rest[j]] \in Entry  BY <3>1
    <3> QED BY <2>1, <2>4, <3>2 DEF Follow, Entry
  <2> QED BY <2>3, <2>4
<1>3. \A j \in 0..limit : rest[j] \in Code
  <2> HIDE DEF S
  <2>1. Nat \subseteq S  BY <1>1, <1>2, SetInduction
  <2> QED BY <2>1 DEF S
<1>4. PICK m \in 0..limit : rest[m] < FirstCode /\ \A k \in 0..(m - 1) : rest[k] >= FirstCode
  <2> DEFINE T == {m \in 0..limit : rest[m] < FirstCode}
  <2>1. limit \in T  BY DEF Decodable
  <2>2. T \in SUBSET Nat  OBVIOUS
  <2> HIDE DEF T
  <2>4. \E m \in T : \A y \in T : m <= y  BY <2>1, <2>2, LeastNumber
  <2>5. PICK m \in T : \A y \in T : m <= y  BY <2>4
  <2> USE DEF T
  <2>3. ASSUME NEW k \in 0..(m - 1) PROVE rest[k] >= FirstCode
    <3>1. k \in 0..limit /\ k \notin T  BY <2>5
    <3> HIDE DEF rest
    <3> QED BY <1>3, <3>1, CodeNumbers DEF Code
  <2> QED BY <2>5, <2>3
<1>5. rest[m] \in Character
  <2> HIDE DEF rest
  <2> QED BY <1>3, <1>4, CodeNumbers DEF Code, Character
<1>6. ASSUME NEW k \in 2..(m + 1) PROVE dtable[rest[m + 1 - k]].append \in Character
  <2>1. m + 1 - k \in 0..(m - 1) /\ m + 1 - k \in 0..limit  OBVIOUS
  <2> HIDE DEF rest
  <2>2. rest[m + 1 - k] \in FirstCode..MaxValue  BY <1>3, <1>4, <2>1, CodeNumbers DEF Code
  <2> QED BY <2>2 DEF Entry
<1>7. DecodeString(dtable, code, limit) = Collected(dtable, rest, m)
  <2>1. \A j \in 0..limit : rest[j] \in Int  BY <1>3, CodeNumbers DEF Code
  <2>2. rest[m] < FirstCode /\ \A k \in 0..(m - 1) : rest[k] >= FirstCode  BY <1>4
  <2>3. rest = Prefixes(dtable, code, limit)  OBVIOUS
  <2> HIDE DEF rest
  <2> QED BY <2>1, <2>2, <2>3, DecodeSteps
<1> HIDE DEF rest
<1>8. \A k \in 1..(m + 1) :
        (IF k = 1 THEN rest[m] ELSE dtable[rest[m + 1 - k]].append) \in Character
  BY <1>5, <1>6
<1>9. DecodeString(dtable, code, limit) \in Seq(Character)
  BY <1>7, <1>8, SeqDef DEF Collected
<1>10. Len(DecodeString(dtable, code, limit)) = m + 1  BY <1>7 DEF Collected
<1> QED BY <1>9, <1>10

-----------------------------------------------------------------------------
(* Entry k of the table stands for the string of its prefix with one        *)
(* character more; only characters stand for one character.                 *)
LEMMA MeansEntry ==
  ASSUME NEW M, NEW table \in Seq(Entry), Means(M, table), NEW k \in 1..Len(table)
  PROVE  /\ table[k] \in Entry /\ table[k].prefix \in Codes(table)
         /\ M[table[k].prefix] \in Seq(Character) /\ M[FirstCode + k - 1] \in Seq(Character)
         /\ Len(M[FirstCode + k - 1]) = Len(M[table[k].prefix]) + 1
         /\ Len(M[FirstCode + k - 1]) \in 2 .. k + 1
         /\ \A i \in 1..Len(M[table[k].prefix]) :
              M[FirstCode + k - 1][i] = M[table[k].prefix][i]
         /\ M[FirstCode + k - 1][Len(M[FirstCode + k - 1])] = table[k].append
<1>1. table[k] \in Entry /\ Len(table) \in Nat  OBVIOUS
<1>2. table[k].prefix \in 0 .. FirstCode + k - 2  BY DEF Means
<1>3. table[k].prefix \in Codes(table) /\ FirstCode + k - 1 \in Codes(table)
  BY <1>1, <1>2, CodeNumbers, SMTT(30) DEF Codes, NextCode
<1>4. M[table[k].prefix] \in Seq(Character) /\ M[FirstCode + k - 1] \in Seq(Character)
  BY <1>3 DEF Means
<1>5. table[k].append \in Character  BY <1>1 DEF Entry
<1>6. /\ M[FirstCode + k - 1] = Append(M[table[k].prefix], table[k].append)
      /\ Len(M[FirstCode + k - 1]) \in 2 .. k + 1
  <2>1. k \in DOMAIN table  OBVIOUS
  <2> QED BY <2>1 DEF Means
<1> QED BY <1>1, <1>3, <1>4, <1>5, <1>6

(* The decoder's table is one entry short of the coder's at most; any code  *)
(* of the part they share is decoded to the string it stands for, within    *)
(* as many steps as that part is long.                                      *)
LEMMA DecodeStringIs ==
  ASSUME NEW M, NEW table \in Seq(Entry), Means(M, table),
         NEW n \in 0..Len(table), NEW dtable, Agrees(dtable, table, n),
         NEW code \in 0 .. FirstCode + n - 1, NEW limit \in Nat, n <= limit
  PROVE  /\ Decodable(dtable, code, limit)
         /\ DecodeString(dtable, code, limit) = M[code]
<1> DEFINE rest == Prefixes(dtable, code, limit)
           L == Len(M[code])
<1>1. Len(table) \in Nat /\ n \in Nat /\ n <= Len(table)  OBVIOUS
<1>2. \A c \in 0 .. FirstCode + n - 1 :
        /\ c \in Codes(table) /\ M[c] \in Seq(Character)
        /\ \/ c \in Character
           \/ \E k \in 1..n : c = FirstCode + k - 1
  <2> TAKE c \in 0 .. FirstCode + n - 1
  <2>1. c \in Codes(table)  BY <1>1, CodeNumbers DEF Codes, NextCode
  <2>2. M[c] \in Seq(Character)  BY <2>1 DEF Means
  <2>3. c \in Character \/ c - FirstCode + 1 \in 1..n  BY <1>1, CodeNumbers DEF Character
  <2>4. c = FirstCode + (c - FirstCode + 1) - 1  BY CodeNumbers
  <2> QED BY <2>1, <2>2, <2>3, <2>4
<1>3. \A c \in Character : M[c] = <<c>> /\ Len(M[c]) = 1
  <2>1. \A c \in Character : M[c] = <<c>>  BY DEF Means
  <2>2. \A c \in Character : Len(<<c>>) = 1  OBVIOUS
  <2> QED BY <2>1, <2>2
<1>4. L \in Nat /\ 1 <= L /\ L <= n + 1
  <2>1. CASE code \in Character
    <3>1. L = 1  BY <1>3, <2>1
    <3> QED BY <1>1, <3>1
  <2>2. CASE \E k \in 1..n : code = FirstCode + k - 1
    <3>1. PICK k \in 1..n : code = FirstCode + k - 1  BY <2>2
    <3>2. k \in 1..Len(table)  BY <1>1
    <3>3. Len(M[FirstCode + k - 1]) \in 2 .. k + 1  BY <3>2, MeansEntry
    <3> QED BY <3>1, <3>3
  <2>3. code \in Character \/ \E k \in 1..n : code = FirstCode + k - 1  BY <1>2
  <2> QED BY <2>1, <2>2, <2>3
<1> HIDE DEF L
<1>5. rest[0] = code /\ \A j \in 1..limit : rest[j] = Follow(dtable, rest[j - 1])
  BY PrefixesDef
<1> DEFINE Claim(j) == /\ rest[j] \in 0 .. FirstCode + n - 1
                       /\ Len(M[rest[j]]) = L - j
                       /\ \A i \in 1 .. L - j : M[rest[j]][i] = M[code][i]
           S == {j \in Nat : j <= L - 1 => Claim(j)}
<1> HIDE DEF rest
<1>6. 0 \in S  BY <1>4, <1>5 DEF L
<1>7. ASSUME NEW j \in Nat, j \in S PROVE j + 1 \in S
  <2> SUFFICES ASSUME j + 1 <= L - 1 PROVE Claim(j + 1)  OBVIOUS
  <2>1. Claim(j)  BY <1>4, <1>7
  <2>2. PICK k \in 1..n : rest[j] = FirstCode + k - 1
    <3>1. Len(M[rest[j]]) # 1
      <4>1. Len(M[rest[j]]) = L - j  BY <2>1
      <4> QED BY <1>4, <4>1
    <3>2. rest[j] \notin Character  BY <1>3, <3>1
    <3> QED BY <1>2, <2>1, <3>2
  <2>3. k \in 1..Len(table)  BY <1>1
  <2>4. dtable[FirstCode + k - 1] = table[k]  BY DEF Agrees
  <2>5. rest[j + 1] = table[k].prefix
    <3>1. j + 1 \in 1..limit /\ (j + 1) - 1 = j  BY <1>1, <1>4
    <3>2. rest[j + 1] = Follow(dtable, rest[(j + 1) - 1])  BY <1>5, <3>1
    <3>3. ~ (rest[j] < FirstCode)  BY <2>2, CodeNumbers
    <3> QED BY <2>2, <2>4, <3>1, <3>2, <3>3 DEF Follow
  <2>6. table[k].prefix \in 0 .. FirstCode + n - 1
    <3>1. table[k].prefix \in 0 .. FirstCode + k - 2  BY <2>3 DEF Means
    <3> QED BY <3>1, <1>1, CodeNumbers
  <2>7. /\ Len(M[FirstCode + k - 1]) = Len(M[table[k].prefix]) + 1
        /\ \A i \in 1..Len(M[table[k].prefix]) :
             M[FirstCode + k - 1][i] = M[table[k].prefix][i]
    BY <2>3, MeansEntry
  <2>8. Len(M[table[k].prefix]) = L - (j + 1)
    <3>1. M[table[k].prefix] \in Seq(Character)  BY <1>2, <2>6
    <3>2. Len(M[table[k].prefix]) \in Nat  BY <3>1
    <3>3. Len(M[rest[j]]) = L - j  BY <2>1
    <3>4. Len(M[rest[j]]) = Len(M[table[k].prefix]) + 1  BY <2>2, <2>7
    <3> DEFINE x == Len(M[table[k].prefix])
    <3>5. x \in Nat /\ L - j = x + 1  BY <3>2, <3>3, <3>4
    <3> HIDE DEF x
    <3>6. x = L - (j + 1)  BY <1>4, <3>5
    <3> QED BY <3>6 DEF x
  <2>9. ASSUME NEW i \in 1 .. L - (j + 1) PROVE M[rest[j + 1]][i] = M[code][i]
    <3>1. i \in 1 .. L - j  BY <1>4
    <3>2. M[rest[j]][i] = M[code][i]  BY <2>1, <3>1
    <3>3. M[FirstCode + k - 1][i] = M[table[k].prefix][i]  BY <2>7, <2>8
    <3> QED BY <2>2, <2>5, <3>2, <3>3
  <2> QED BY <2>5, <2>6, <2>8, <2>9
<1>8. \A j \in 0 .. L - 1 : Claim(j)
  <2> HIDE DEF S
  <2>1. Nat \subseteq S  BY <1>6, <1>7, SetInduction
  <2> QED BY <2>1, <1>4 DEF S
<1>9. rest[L - 1] \in Character /\ rest[L - 1] = M[code][1]
  <2>1. Claim(L - 1)
    <3>1. L - 1 \in 0 .. L - 1  BY <1>4
    <3> QED BY <1>8, <3>1
  <2>2. Len(M[rest[L - 1]]) = 1 /\ M[rest[L - 1]][1] = M[code][1]  BY <1>4, <2>1
  <2>3. rest[L - 1] \in Character
    <3>1. ASSUME NEW k \in 1..n, rest[L - 1] = FirstCode + k - 1 PROVE FALSE
      <4>1. k \in 1..Len(table)  BY <1>1
      <4>2. Len(M[FirstCode + k - 1]) \in 2 .. k + 1  BY <4>1, MeansEntry
      <4>3. Len(M[FirstCode + k - 1]) = 1  BY <2>2, <3>1
      <4> QED BY <4>2, <4>3
    <3> QED BY <1>2, <2>1, <3>1
  <2>4. M[rest[L - 1]] = <<rest[L - 1]>>  BY <1>3, <2>3
  <2> QED BY <2>2, <2>3, <2>4
<1>10. ASSUME NEW j \in 0 .. L - 2
       PROVE  rest[j] >= FirstCode /\ dtable[rest[j]].append = M[code][L - j]
  <2>1. j \in 0 .. L - 1 /\ L - j >= 2 /\ L - j \in 1 .. L - j  BY <1>4
  <2>2. Claim(j)  BY <1>8, <2>1
  <2>3. PICK k \in 1..n : rest[j] = FirstCode + k - 1
    <3>1. rest[j] \notin Character  BY <1>3, <2>1, <2>2
    <3> QED BY <1>2, <2>2, <3>1
  <2>4. k \in 1..Len(table)  BY <1>1
  <2>5. dtable[FirstCode + k - 1] = table[k]  BY DEF Agrees
  <2>6. M[FirstCode + k - 1][Len(M[FirstCode + k - 1])] = table[k].append
    BY <2>4, MeansEntry
  <2>7. M[rest[j]][L - j] = M[code][L - j] /\ Len(M[rest[j]]) = L - j  BY <2>1, <2>2
  <2> QED BY <2>3, <2>5, <2>6, <2>7, CodeNumbers
<1>11. L - 1 \in 0..limit  BY <1>1, <1>4
<1>12. Decodable(dtable, code, limit)
  <2>1. rest[L - 1] < FirstCode  BY <1>9, CodeNumbers DEF Character
  <2> QED BY <1>11, <2>1, DecodableFrom DEF rest
<1>13. \A j \in 0..limit : rest[j] \in Int
  <2> DEFINE T == {j \in Nat : L - 1 + j <= limit => rest[L - 1 + j] = rest[L - 1]}
  <2>1. 0 \in T  BY <1>4
  <2>2. ASSUME NEW j \in Nat, j \in T PROVE j + 1 \in T
    <3> SUFFICES ASSUME L - 1 + (j + 1) <= limit
                 PROVE  rest[L - 1 + (j + 1)] = rest[L - 1]
      OBVIOUS
    <3>1. L - 1 + (j + 1) \in 1..limit /\ L - 1 + (j + 1) - 1 = L - 1 + j  BY <1>4
    <3>2. \A i \in 1..limit : rest[i] = Follow(dtable, rest[i - 1])  BY <1>5
    <3>5. rest[L - 1 + (j + 1)] = Follow(dtable, rest[L - 1 + j])
      <4> DEFINE i == L - 1 + (j + 1)
      <4>1. i \in 1..limit /\ i - 1 = L - 1 + j  BY <1>4, <3>1
      <4> HIDE DEF i
      <4>2. rest[i] = Follow(dtable, rest[i - 1])  BY <3>2, <4>1
      <4> QED BY <4>1, <4>2 DEF i
    <3>3. rest[L - 1 + j] = rest[L - 1]  BY <2>2, <1>4
    <3>4. rest[L - 1] < FirstCode  BY <1>9, CodeNumbers DEF Character
    <3> QED BY <3>3, <3>4, <3>5 DEF Follow
  <2>3. Nat \subseteq T
    <3> HIDE DEF T
    <3> QED BY <2>1, <2>2, SetInduction
  <2>4. ASSUME NEW j \in 0..limit PROVE rest[j] \in Int
    <3>1. CASE j <= L - 1
      <4>1. Claim(j)  BY <1>4, <1>8, <3>1
      <4> QED BY <1>1, <4>1, CodeNumbers
    <3>2. CASE j > L - 1
      <4>1. j - (L - 1) \in Nat /\ L - 1 + (j - (L - 1)) = j  BY <1>4, <3>2
      <4>2. j - (L - 1) \in T  BY <2>3, <4>1
      <4>3. rest[j] = rest[L - 1]  BY <4>1, <4>2
      <4> QED BY <1>9, <4>3, CodeNumbers DEF Character
    <3> QED BY <1>4, <3>1, <3>2
  <2> QED BY <2>4
<1>14. DecodeString(dtable, code, limit) = Collected(dtable, rest, L - 1)
  <2>1. \A k \in 0 .. (L - 1) - 1 : rest[k] >= FirstCode  BY <1>4, <1>10
  <2>2. rest[L - 1] < FirstCode  BY <1>9, CodeNumbers DEF Character
  <2>3. rest = Prefixes(dtable, code, limit)  BY DEF rest
  <2> QED BY <1>11, <1>13, <2>1, <2>2, <2>3, DecodeSteps
<1>15. Collected(dtable, rest, L - 1) = M[code]
  <2> DEFINE d == Collected(dtable, rest, L - 1)
  <2>1. d = [k \in 1..L |-> IF k = 1 THEN rest[L - 1] ELSE dtable[rest[L - k]].append]
    <3>1. L - 1 + 1 = L /\ \A k \in 1..L : L - 1 + 1 - k = L - k  BY <1>4
    <3> QED BY <3>1 DEF Collected
  <2>2. \A k \in 1..L : d[k] = M[code][k]
    <3> TAKE k \in 1..L
    <3>1. CASE k = 1  BY <1>9, <2>1, <3>1
    <3>2. CASE k # 1
      <4>1. L - k \in 0 .. L - 2 /\ L - (L - k) = k  BY <1>4, <3>2
      <4>2. dtable[rest[L - k]].append = M[code][L - (L - k)]  BY <1>10, <4>1
      <4> QED BY <2>1, <3>2, <4>1, <4>2
    <3> QED BY <3>1, <3>2
  <2>3. M[code] \in Seq(Character) /\ DOMAIN M[code] = 1..L  BY <1>2 DEF L
  <2>4. M[code] = [k \in DOMAIN M[code] |-> M[code][k]]
    <3>1. PICK m \in Nat : M[code] \in [1..m -> Character]  BY <2>3, SeqDef
    <3> QED BY <3>1
  <2> HIDE DEF d
  <2>5. d = [k \in 1..L |-> d[k]]  BY <2>1
  <2> QED BY <2>2, <2>3, <2>4, <2>5 DEF d
<1> QED BY <1>12, <1>14, <1>15

-----------------------------------------------------------------------------
(* A part of one character.                                                 *)
LEMMA OnePart ==
  ASSUME NEW T, NEW S \in Seq(T), NEW i \in 1 .. Len(S)
  PROVE  SubSeq(S, i, i) = <<S[i]>>
<1>1. i \in i .. Len(S) /\ S[i] \in T  OBVIOUS
<1>2. SubSeq(S, i, i) = <<S[i]>> \o SubSeq(S, i + 1, i)  BY <1>1, SubSeqRecursiveFirst
<1>3. SubSeq(S, i + 1, i) = <<>>  BY SubSeqEmpty
<1>4. <<S[i]>> \in Seq(T)  BY <1>1
<1>5. <<S[i]>> \o <<>> = <<S[i]>>  BY <1>4, ConcatEmptySeq
<1> QED BY <1>2, <1>3, <1>5

(* A part of a section, one character longer, and the whole before it.      *)
LEMMA Parts ==
  ASSUME NEW T, NEW S \in Seq(T), NEW p \in Nat, NEW i \in Nat, 1 <= p, p < i, i <= Len(S) + 1
  PROVE  /\ SubSeq(S, p, i - 1) \in Seq(T) /\ Len(SubSeq(S, p, i - 1)) = i - p
         /\ SubSeq(S, p, i - 1)[1] = S[p] /\ S[p] \in T
         /\ SubSeq(S, 1, p - 1) \in Seq(T)
         /\ SubSeq(S, 1, p - 1) \o SubSeq(S, p, i - 1) = SubSeq(S, 1, i - 1)
         /\ i <= Len(S) => /\ S[i] \in T
                           /\ Append(SubSeq(S, p, i - 1), S[i]) = SubSeq(S, p, i)
                           /\ SubSeq(S, i, i) = <<S[i]>>
<1>1. Len(S) \in Nat  OBVIOUS
<1>2. \A k \in p .. i - 1 : S[k] \in T  BY <1>1
<1>3. /\ SubSeq(S, p, i - 1) \in Seq(T) /\ Len(SubSeq(S, p, i - 1)) = i - p
      /\ SubSeq(S, p, i - 1)[1] = S[p]
  <2>1. /\ SubSeq(S, p, i - 1) \in Seq(T)
        /\ Len(SubSeq(S, p, i - 1)) = IF p <= i - 1 THEN (i - 1) - p + 1 ELSE 0
        /\ \A k \in 1 .. (i - 1) - p + 1 : SubSeq(S, p, i - 1)[k] = S[p + k - 1]
    BY <1>2, SubSeqProperties
  <2>2. 1 \in 1 .. (i - 1) - p + 1 /\ p + 1 - 1 = p  OBVIOUS
  <2>3. SubSeq(S, p, i - 1)[1] = S[p + 1 - 1]  BY <2>1, <2>2
  <2> QED BY <2>1, <2>2, <2>3
<1>4. SubSeq(S, 1, p - 1) \in Seq(T)
  <2>1. \A k \in 1 .. p - 1 : S[k] \in T  BY <1>1
  <2> QED BY <2>1, SubSeqProperties
<1>5. SubSeq(S, 1, p - 1) \o SubSeq(S, p, i - 1) = SubSeq(S, 1, i - 1)
  <2>1. /\ 1 \in 1 .. Len(S) + 1 /\ p - 1 \in 1 - 1 .. Len(S) /\ i - 1 \in p - 1 .. Len(S)
        /\ (p - 1) + 1 = p
    BY <1>1
  <2>2. SubSeq(S, 1, p - 1) \o SubSeq(S, (p - 1) + 1, i - 1) = SubSeq(S, 1, i - 1)
    BY <2>1, ConcatAdjacentSubSeq
  <2> QED BY <2>1, <2>2
<1>6. ASSUME i <= Len(S)
      PROVE  /\ S[i] \in T /\ Append(SubSeq(S, p, i - 1), S[i]) = SubSeq(S, p, i)
             /\ SubSeq(S, i, i) = <<S[i]>>
  <2>1. i \in 1 .. Len(S) /\ i \in p .. Len(S) /\ p \in 1 .. Len(S)  BY <1>1, <1>6
  <2>2. S[i] \in T  BY <2>1
  <2>3. SubSeq(S, p, i) = SubSeq(S, p, i - 1) \o <<S[i]>>  BY <2>1, SubSeqRecursiveSecond
  <2>4. Append(SubSeq(S, p, i - 1), S[i]) = SubSeq(S, p, i - 1) \o <<S[i]>>
    BY <1>3, <2>2, AppendIsConcat
  <2>5. SubSeq(S, i, i) = <<S[i]>>  BY <2>1, OnePart
  <2> QED BY <2>2, <2>3, <2>4, <2>5
<1>7. S[p] \in T  BY <1>1
<1> QED BY <1>3, <1>4, <1>5, <1>6, <1>7

-----------------------------------------------------------------------------
(* What the coder is about to put out: its string is a code of a table that *)
(* is not full and stands for the characters from p to before i.            *)
Pending(M, S, p, i, coder) ==
  /\ S \in Seq(Character) /\ p \in Nat /\ i \in Nat /\ 1 <= p /\ p < i /\ i <= Len(S) + 1
  /\ coder \in Coder /\ NextCode(coder.table) <= MaxCode
  /\ Means(M, coder.table) /\ coder.string \in Codes(coder.table)
  /\ M[coder.string] = SubSeq(S, p, i - 1)
  /\ p = 1 => coder.table = <<>>

(* The decoder that has read the codes up to p lacks the coder's last entry *)
(* and knows how it begins.                                                 *)
Behind(M, S, p, coder, decoder) ==
  /\ decoder \in Decoder
  /\ coder.table = <<>> => decoder.next = MaxCode
  /\ coder.table # <<>> =>
       /\ decoder.next = FirstCode + Len(coder.table) - 1
       /\ Agrees(decoder.table, coder.table, Len(coder.table) - 1)
       /\ coder.table[Len(coder.table)] = [prefix |-> decoder.old, append |-> S[p]]
       /\ decoder.char = M[decoder.old][1]

(* Coder and decoder are in step: the decoder has read what is out.         *)
Synced(S, p, i, coder, decoder) ==
  \E M : /\ Pending(M, S, p, i, coder)
         /\ p > 1 => Behind(M, S, p, coder, decoder)

(* With an empty table each character stands for itself.                    *)
LEMMA MeansNothing == Means([c \in Character |-> <<c>>], <<>>)
<1>1. Codes(<<>>) = Character  BY CodeNumbers DEF Codes, NextCode, Character
<1>2. [c \in Character |-> <<c>>] \in [Character -> Seq(Character)]  OBVIOUS
<1> QED BY <1>1, <1>2 DEF Means

(* compress starts a section with one character pending.                    *)
LEMMA SyncStart ==
  ASSUME NEW S \in Seq(Character), S # <<>>, NEW decoder
  PROVE  Synced(S, 1, 2, Started(S[1]), decoder)
<1> DEFINE M == [c \in Character |-> <<c>>]
<1>1. Len(S) \in Nat /\ Len(S) >= 1 /\ S[1] \in Character  OBVIOUS
<1>2. Started(S[1]) \in Coder /\ Started(S[1]).table = <<>> /\ Started(S[1]).string = S[1]
  BY <1>1, CodeNumbers DEF Started, Coder
<1>3. NextCode(<<>>) <= MaxCode /\ Codes(<<>>) = Character
  BY CodeNumbers DEF NextCode, Codes, Character
<1>4. M[S[1]] = SubSeq(S, 1, 2 - 1)
  <2>1. 1 \in 1 .. Len(S)  BY <1>1
  <2>2. SubSeq(S, 1, 1) = <<S[1]>>  BY <2>1, OnePart
  <2> QED BY <1>1, <2>2
<1>5. Means(M, <<>>)  BY MeansNothing
<1> HIDE DEF M
<1>6. Pending(M, S, 1, 2, Started(S[1]))
  BY <1>1, <1>2, <1>3, <1>4, <1>5 DEF Pending
<1> QED BY <1>6 DEF Synced

(* compress reads on: the longer string is in the table.                    *)
LEMMA SyncLonger ==
  ASSUME NEW S, NEW p, NEW i, NEW coder, NEW decoder, Synced(S, p, i, coder, decoder),
         i <= Len(S), Extends(coder, S[i])
  PROVE  Synced(S, p, i + 1, Longer(coder, S[i]), decoder)
<1>1. PICK M : /\ Pending(M, S, p, i, coder)
               /\ p > 1 => Behind(M, S, p, coder, decoder)
  BY DEF Synced
<1> DEFINE k == CHOOSE k \in Matches(coder.table, coder.string, S[i]) : TRUE
           c == Longer(coder, S[i])
<1>2. k \in Matches(coder.table, coder.string, S[i])  BY DEF Extends
<1> HIDE DEF k
<1>3. k \in DOMAIN coder.table /\ coder.table[k] = [prefix |-> coder.string, append |-> S[i]]
  BY <1>2 DEF Matches
<1>4. c = [coder EXCEPT !.string = FirstCode - 1 + k]  BY DEF Longer, k
<1>5. coder \in Coder /\ coder.table \in Seq(Entry) /\ Len(coder.table) \in Nat
      /\ k \in 1 .. Len(coder.table)
  BY <1>1, <1>3 DEF Pending, Coder
<1>6. FirstCode - 1 + k = FirstCode + k - 1 /\ FirstCode + k - 1 \in Codes(coder.table)
      /\ FirstCode - 1 + k \in Code
  BY <1>1, <1>5, CodeNumbers DEF Pending, Codes, NextCode, Code
<1>7. c \in Coder /\ c.table = coder.table /\ c.string = FirstCode + k - 1
  BY <1>4, <1>5, <1>6 DEF Coder
<1>8. M[c.string] = SubSeq(S, p, (i + 1) - 1)
  <2>1. M[FirstCode + k - 1] = Append(M[coder.string], S[i])
    <3>1. Means(M, coder.table)  BY <1>1 DEF Pending
    <3>2. M[FirstCode + k - 1] = Append(M[coder.table[k].prefix], coder.table[k].append)
      BY <1>3, <3>1 DEF Means
    <3>3. coder.table[k].prefix = coder.string /\ coder.table[k].append = S[i]  BY <1>3
    <3> QED BY <3>2, <3>3
  <2>2. M[coder.string] = SubSeq(S, p, i - 1)  BY <1>1 DEF Pending
  <2>3. Append(SubSeq(S, p, i - 1), S[i]) = SubSeq(S, p, i)  BY <1>1, Parts DEF Pending
  <2>4. (i + 1) - 1 = i  BY <1>1 DEF Pending
  <2> QED BY <1>7, <2>1, <2>2, <2>3, <2>4
<1> HIDE DEF c
<1>9. Pending(M, S, p, i + 1, c)
  <2>1. i + 1 \in Nat /\ p < i + 1 /\ i + 1 <= Len(S) + 1  BY <1>1 DEF Pending
  <2> QED BY <1>1, <1>6, <1>7, <1>8, <2>1 DEF Pending
<1>10. p > 1 => Behind(M, S, p, c, decoder)  BY <1>1, <1>7 DEF Behind
<1> QED BY <1>9, <1>10 DEF Synced, c

(* The code that goes out stands for the characters from p on, and is never *)
(* the one that ends a section.  The first code is a character.             *)
Emits(S, p, i, code, decoder, limit) ==
  /\ code \in Code /\ code # MaxValue
  /\ p = 1 => code \in Character /\ <<code % FirstCode>> = SubSeq(S, 1, i - 1)
  /\ p > 1 => /\ Decodable(decoder.table, Looked(decoder, code), limit)
              /\ Decoded(decoder, code, limit) = SubSeq(S, p, i - 1)

(* The decoder makes of the code what the coder's string stands for.        *)
LEMMA SyncEmit ==
  ASSUME NEW S, NEW p, NEW i, NEW coder, NEW decoder, Synced(S, p, i, coder, decoder),
         NEW limit \in Nat, MaxCode - FirstCode <= limit
  PROVE  Emits(S, p, i, coder.string, decoder, limit)
<1>1. PICK M : /\ Pending(M, S, p, i, coder)
               /\ p > 1 => Behind(M, S, p, coder, decoder)
  BY DEF Synced
<1> DEFINE table == coder.table
           code == coder.string
           L == Len(table)
<1>2. table \in Seq(Entry) /\ L \in Nat /\ FirstCode + L <= MaxCode
      /\ code \in 0 .. FirstCode + L - 1 /\ Means(M, table) /\ M[code] = SubSeq(S, p, i - 1)
  <2>1. coder \in Coder  BY <1>1 DEF Pending
  <2>2. table \in Seq(Entry)  BY <2>1 DEF Coder
  <2> QED BY <1>1, <2>2, CodeNumbers DEF Pending, Codes, NextCode
<1> HIDE DEF table, code, L
<1>3. code \in Code /\ code # MaxValue  BY <1>2, CodeNumbers DEF Code
<1>4. ASSUME p = 1 PROVE code \in Character /\ <<code % FirstCode>> = SubSeq(S, 1, i - 1)
  <2>1. L = 0  BY <1>1, <1>4 DEF Pending, table, L
  <2>2. code \in Character /\ code % FirstCode = code
    BY <1>2, <2>1, CodeNumbers DEF Character
  <2>3. M[code] = <<code>>  BY <1>2, <2>2 DEF Means
  <2> QED BY <1>2, <1>4, <2>2, <2>3
<1>5. ASSUME p > 1
      PROVE  /\ Decodable(decoder.table, Looked(decoder, code), limit)
             /\ Decoded(decoder, code, limit) = SubSeq(S, p, i - 1)
  <2>1. Behind(M, S, p, coder, decoder)  BY <1>1, <1>5
  <2>2. CASE table = <<>>
    <3>1. L = 0  BY <2>2 DEF L
    <3>2. decoder.next = MaxCode  BY <2>1, <2>2 DEF Behind, table
    <3>3. Known(decoder, code)  BY <1>2, <3>1, <3>2, CodeNumbers DEF Known
    <3>4. Agrees(decoder.table, table, 0)  BY DEF Agrees
    <3>5. /\ Decodable(decoder.table, code, limit)
          /\ DecodeString(decoder.table, code, limit) = M[code]
      <4>1. 0 \in 0 .. Len(table) /\ code \in 0 .. FirstCode + 0 - 1 /\ 0 <= limit
        BY <1>2, <3>1, CodeNumbers DEF L
      <4> QED BY <1>2, <3>4, <4>1, DecodeStringIs
    <3> QED BY <1>2, <3>3, <3>5 DEF Looked, Decoded
  <2>3. CASE table # <<>>
    <3>1. L >= 1  BY <1>2, <2>3 DEF L
    <3>2. /\ decoder.next = FirstCode + L - 1
          /\ Agrees(decoder.table, table, L - 1)
          /\ table[L] = [prefix |-> decoder.old, append |-> S[p]]
          /\ decoder.char = M[decoder.old][1]
      BY <2>1, <2>3 DEF Behind, table, L
    <3>3. L - 1 \in 0 .. Len(table) /\ L - 1 <= limit /\ L \in 1 .. Len(table)
      BY <1>2, <3>1, CodeNumbers DEF L
    <3>4. \A c \in 0 .. FirstCode + (L - 1) - 1 :
            /\ Decodable(decoder.table, c, limit)
            /\ DecodeString(decoder.table, c, limit) = M[c]
      BY <1>2, <3>2, <3>3, DecodeStringIs
    <3>5. CASE Known(decoder, code)
      <4>1. code \in 0 .. FirstCode + (L - 1) - 1  BY <1>2, <3>2, <3>5, CodeNumbers DEF Known
      <4> QED BY <1>2, <3>4, <3>5, <4>1 DEF Looked, Decoded
    <3>6. CASE ~ Known(decoder, code)
      <4>1. code = FirstCode + L - 1  BY <1>2, <3>2, <3>6, CodeNumbers DEF Known
      <4>2. table[L].prefix = decoder.old /\ table[L].append = S[p]  BY <3>2
      <4>3. decoder.old \in 0 .. FirstCode + L - 2
        <5>1. L \in DOMAIN table  BY <3>3, <1>2
        <5>2. table[L].prefix \in 0 .. FirstCode + L - 2  BY <1>2, <5>1 DEF Means
        <5> QED BY <4>2, <5>2
      <4>4. decoder.old \in 0 .. FirstCode + (L - 1) - 1  BY <1>2, <4>3, CodeNumbers
      <4>5. M[code] = Append(M[decoder.old], S[p])
        <5>1. L \in DOMAIN table  BY <3>3, <1>2
        <5>2. M[FirstCode + L - 1] = Append(M[table[L].prefix], table[L].append)
          BY <1>2, <5>1 DEF Means
        <5> QED BY <4>1, <4>2, <5>2
      <4>6. S[p] = M[decoder.old][1]
        <5>1. M[code][1] = S[p]
          <6>1. SubSeq(S, p, i - 1)[1] = S[p]  BY <1>1, Parts DEF Pending
          <6> QED BY <1>2, <6>1
        <5>2. /\ Len(M[FirstCode + L - 1]) \in 2 .. L + 1
              /\ Len(M[FirstCode + L - 1]) = Len(M[table[L].prefix]) + 1
              /\ M[table[L].prefix] \in Seq(Character)
              /\ \A j \in 1 .. Len(M[table[L].prefix]) :
                   M[FirstCode + L - 1][j] = M[table[L].prefix][j]
          BY <1>2, <3>3, MeansEntry
        <5>3. Len(M[decoder.old]) \in Nat /\ Len(M[decoder.old]) + 1 \in 2 .. L + 1
          BY <4>2, <5>2
        <5>4. 1 \in 1 .. Len(M[decoder.old])  BY <1>2, <5>3
        <5> QED BY <4>1, <4>2, <5>1, <5>2, <5>4
      <4>7. Decodable(decoder.table, decoder.old, limit)
            /\ DecodeString(decoder.table, decoder.old, limit) = M[decoder.old]
        BY <3>4, <4>4
      <4> QED BY <1>2, <3>2, <3>6, <4>5, <4>6, <4>7 DEF Looked, Decoded
    <3> QED BY <3>5, <3>6
  <2> QED BY <2>2, <2>3
<1> QED BY <1>3, <1>4, <1>5 DEF code, Emits

-----------------------------------------------------------------------------
(* Types of the two sides' steps.                                           *)
LEMMA FirstReadType ==
  ASSUME NEW code \in Code
  PROVE  /\ FirstRead(code) \in Decoder /\ code % FirstCode \in Character
         /\ FirstRead(code).old = code /\ FirstRead(code).char = code % FirstCode
         /\ FirstRead(code).next = FirstCode
<1>1. code \in Nat  BY CodeNumbers DEF Code
<1>2. code % FirstCode \in Character  BY <1>1, CodeNumbers DEF Character
<1>3. FirstCode \in FirstCode..MaxCode  BY CodeNumbers
<1>4. [k \in FirstCode..MaxValue |-> NoEntry] \in [FirstCode..MaxValue -> Entry]
  BY NoEntryIsEntry
<1> QED BY <1>2, <1>3, <1>4 DEF FirstRead, Decoder

(* A decoder stays a decoder.                                               *)
LEMMA ReadType ==
  ASSUME NEW decoder \in Decoder, NEW code \in Code, NEW string \in Seq(Character) \ {<<>>}
  PROVE  Read(decoder, code, string) \in Decoder
<1>1. Head(string) = string[1] /\ string[1] \in Character  BY HeadTailProperties
<1>2. /\ decoder.old \in Code /\ decoder.next \in FirstCode..MaxCode
      /\ decoder.table \in [FirstCode..MaxValue -> Entry]
  BY DEF Decoder
<1>3. decoder.next <= MaxCode /\ decoder.next \in FirstCode..MaxValue /\ decoder.next \in Nat
  BY <1>2, CodeNumbers
<1> DEFINE entry == [prefix |-> decoder.old, append |-> Head(string)]
           table == [decoder.table EXCEPT ![decoder.next] = entry]
           next == IF decoder.next + 1 > MaxCode THEN FirstCode ELSE decoder.next + 1
<1>4. entry \in Entry  BY <1>1, <1>2 DEF Entry
<1>5. table \in [FirstCode..MaxValue -> Entry]  BY <1>2, <1>4
<1>6. next \in FirstCode..MaxCode  BY <1>3, CodeNumbers, <1>2
<1>7. Read(decoder, code, string) =
        [old |-> code, char |-> Head(string), table |-> table, next |-> next]
  BY <1>3 DEF Read
<1> HIDE DEF table, next
<1> QED BY <1>1, <1>5, <1>6, <1>7 DEF Decoder

(* A coder that restarts has one entry more, or none.                       *)
LEMMA RestartedIs ==
  ASSUME NEW coder \in Coder, NextCode(coder.table) <= MaxCode, NEW c \in Character
  PROVE  LET table == Append(coder.table, [prefix |-> coder.string, append |-> c]) IN
         /\ table \in Seq(Entry) /\ Len(table) = Len(coder.table) + 1
         /\ Restarted(coder, c).string = c
         /\ Restarted(coder, c).table = IF NextCode(table) > MaxCode THEN <<>> ELSE table
         /\ Restarted(coder, c) \in Coder /\ NextCode(Restarted(coder, c).table) <= MaxCode
<1> DEFINE entry == [prefix |-> coder.string, append |-> c]
           table == Append(coder.table, entry)
           after == IF NextCode(table) > MaxCode THEN <<>> ELSE table
<1>1. coder.table \in Seq(Entry) /\ coder.string \in Code  BY DEF Coder
<1>2. entry \in Entry  BY <1>1 DEF Entry
<1>3. table \in Seq(Entry) /\ Len(table) = Len(coder.table) + 1  BY <1>1, <1>2
<1>4. Added(coder, c) = table  BY DEF Added
<1>5. Restarted(coder, c) = [string |-> c, table |-> after]  BY <1>4 DEF Restarted
<1>6. after \in Seq(Entry) /\ NextCode(after) <= MaxCode
  <2>1. NextCode(<<>>) <= MaxCode  BY CodeNumbers DEF NextCode
  <2>2. NextCode(table) \in Int /\ <<>> \in Seq(Entry)  BY <1>1, <1>3, CodeNumbers DEF NextCode
  <2> HIDE DEF table
  <2> QED BY <1>3, <2>1, <2>2, CodeNumbers
<1>7. c \in Code  BY CodeNumbers
<1> HIDE DEF after
<1>8. Restarted(coder, c) \in Coder  BY <1>5, <1>6, <1>7 DEF Coder
<1> QED BY <1>3, <1>5, <1>6, <1>8 DEF after

(* The code is out and read: both sides have restarted with the character   *)
(* at i, and are in step again, whether the table was full or not.          *)
LEMMA SyncRestart ==
  ASSUME NEW S, NEW p, NEW i, NEW coder, NEW decoder, Synced(S, p, i, coder, decoder),
         i <= Len(S), NEW limit \in Nat, MaxCode - FirstCode <= limit,
         NEW after,
         p = 1 => after = FirstRead(coder.string),
         p > 1 => after = Read(decoder, coder.string, Decoded(decoder, coder.string, limit))
  PROVE  Synced(S, i, i + 1, Restarted(coder, S[i]), after)
<1>0. Emits(S, p, i, coder.string, decoder, limit)  BY SyncEmit
<1>1. PICK M : /\ Pending(M, S, p, i, coder)
               /\ p > 1 => Behind(M, S, p, coder, decoder)
  BY DEF Synced
<1> DEFINE L == Len(coder.table)
           entry == [prefix |-> coder.string, append |-> S[i]]
           table == Append(coder.table, entry)
           next == Restarted(coder, S[i])
           piece == SubSeq(S, p, i - 1)
<1>2. /\ S[i] \in Character /\ Append(piece, S[i]) = SubSeq(S, p, i)
      /\ SubSeq(S, i, i) = <<S[i]>>
      /\ piece \in Seq(Character) /\ Len(piece) = i - p /\ piece[1] = S[p]
  BY <1>1, Parts DEF Pending
<1>3. /\ p \in Nat /\ i \in Nat /\ 1 <= p /\ p < i /\ S \in Seq(Character)
      /\ i + 1 \in Nat /\ 1 <= i /\ i < i + 1 /\ i + 1 <= Len(S) + 1 /\ i # 1 /\ i > 1
      /\ (i + 1) - 1 = i
  BY <1>1 DEF Pending
<1>4. /\ coder \in Coder /\ coder.table \in Seq(Entry) /\ L \in Nat
      /\ FirstCode + L <= MaxCode /\ NextCode(coder.table) <= MaxCode
      /\ coder.string \in 0 .. FirstCode + L - 1
      /\ Means(M, coder.table) /\ M[coder.string] = piece
  <2>1. coder \in Coder  BY <1>1 DEF Pending
  <2>2. coder.table \in Seq(Entry)  BY <2>1 DEF Coder
  <2> QED BY <1>1, <2>1, <2>2, CodeNumbers, SMTT(30) DEF Pending, Codes, NextCode
<1>5. /\ table \in Seq(Entry) /\ Len(table) = L + 1
      /\ next.string = S[i]
      /\ next.table = IF NextCode(table) > MaxCode THEN <<>> ELSE table
      /\ next \in Coder /\ NextCode(next.table) <= MaxCode
  BY <1>2, <1>4, RestartedIs
<1>6. entry.prefix = coder.string /\ entry.append = S[i]  OBVIOUS
<1>7. /\ Len(table) = L + 1 /\ \A k \in 1 .. L : table[k] = coder.table[k]
      /\ table[L + 1] = entry
  BY <1>4, <1>5
<1> HIDE DEF table, entry, next, piece, L
(* What the decoder is after reading the code: it has all of the old table. *)
<1>8. /\ after \in Decoder /\ after.old = coder.string /\ after.char = S[p]
      /\ after.next = FirstCode + L /\ Agrees(after.table, coder.table, L)
  <2>1. CASE p = 1
    <3>1. L = 0  BY <1>1, <2>1 DEF Pending, L
    <3>2. coder.string \in Code /\ coder.string % FirstCode = coder.string
      BY <1>4, <3>1, CodeNumbers DEF Code
    <3>3. <<coder.string % FirstCode>> = piece  BY <1>0, <2>1 DEF piece, Emits
    <3>4. coder.string = S[p]  BY <1>2, <3>2, <3>3
    <3>5. /\ after = FirstRead(coder.string) /\ after \in Decoder /\ after.old = coder.string
          /\ after.char = coder.string % FirstCode /\ after.next = FirstCode
      BY <2>1, <3>2, FirstReadType
    <3> QED BY <3>1, <3>2, <3>4, <3>5, CodeNumbers DEF Agrees
  <2>2. CASE p > 1
    <3> DEFINE string == Decoded(decoder, coder.string, limit)
               old == [prefix |-> decoder.old, append |-> Head(string)]
    <3>1. string = piece /\ coder.string \in Code
      BY <1>0, <2>2, Zenon DEF piece, string, Emits
    <3>2. string \in Seq(Character) \ {<<>>} /\ Head(string) = S[p]
      <4>1. Len(piece) # 0  BY <1>2, <1>3
      <4>2. piece # <<>>  BY <4>1
      <4>3. Head(piece) = piece[1]  BY <1>2, <4>2
      <4> QED BY <1>2, <3>1, <4>2, <4>3
    <3>3. Behind(M, S, p, coder, decoder)  BY <1>1, <2>2
    <3>4. decoder \in Decoder  BY <3>3 DEF Behind
    <3> HIDE DEF string
    <3>5. after = Read(decoder, coder.string, string)  BY <2>2 DEF string
    <3>6. after \in Decoder  BY <3>1, <3>2, <3>4, <3>5, ReadType
    <3>7. decoder.next <= MaxCode /\ decoder.next \in FirstCode..MaxValue
          /\ decoder.next \in Nat /\ decoder.table \in [FirstCode..MaxValue -> Entry]
      <4>1. decoder.next \in FirstCode..MaxCode  BY <3>4 DEF Decoder
      <4>2. decoder.table \in [FirstCode..MaxValue -> Entry]  BY <3>4 DEF Decoder
      <4> QED BY <4>1, <4>2, CodeNumbers
    <3>8. /\ after.old = coder.string /\ after.char = Head(string)
          /\ after.table = [decoder.table EXCEPT ![decoder.next] = old]
          /\ after.next = IF decoder.next + 1 > MaxCode THEN FirstCode ELSE decoder.next + 1
      BY <3>5, <3>7 DEF Read
    <3>9. CASE L = 0
      <4>1. coder.table = <<>>  BY <1>4, <3>9 DEF L
      <4>2. decoder.next = MaxCode  BY <3>3, <4>1 DEF Behind
      <4>3. after.next = FirstCode + L  BY <3>8, <3>9, <4>2, CodeNumbers
      <4>4. Agrees(after.table, coder.table, L)  BY <3>9 DEF Agrees
      <4> QED BY <3>2, <3>6, <3>8, <4>3, <4>4
    <3>10. CASE L # 0
      <4>1. coder.table # <<>>  BY <3>10 DEF L
      <4>2. /\ decoder.next = FirstCode + L - 1
            /\ Agrees(decoder.table, coder.table, L - 1)
            /\ coder.table[L] = [prefix |-> decoder.old, append |-> S[p]]
        BY <3>3, <4>1 DEF Behind, L
      <4>3. after.next = FirstCode + L  BY <1>4, <3>8, <3>10, <4>2, CodeNumbers
      <4>4. ASSUME NEW k \in 1 .. L PROVE after.table[FirstCode + k - 1] = coder.table[k]
        <5>1. FirstCode + k - 1 \in FirstCode..MaxValue  BY <1>4, CodeNumbers
        <5>2. CASE k = L  BY <3>2, <3>7, <3>8, <4>2, <5>2
        <5>3. CASE k # L
          <6>1. k \in 1 .. L - 1 /\ FirstCode + k - 1 # decoder.next
            BY <1>4, <4>2, <5>3, CodeNumbers
          <6>2. decoder.table[FirstCode + k - 1] = coder.table[k]  BY <4>2, <6>1 DEF Agrees
          <6> QED BY <3>7, <3>8, <5>1, <6>1, <6>2
        <5> QED BY <5>2, <5>3
      <4> QED BY <3>2, <3>6, <3>8, <4>3, <4>4 DEF Agrees
    <3> QED BY <3>9, <3>10
  <2> QED BY <1>3, <2>1, <2>2
(* A table that is full is cleared, here at once, there with the next code. *)
<1>9. CASE NextCode(table) > MaxCode
  <2> DEFINE N == [c \in Character |-> <<c>>]
  <2>1. next.table = <<>> /\ FirstCode + L = MaxCode
    <3>1. next.table = <<>>  BY <1>5, <1>9, Zenon
    <3>2. Len(table) = L + 1 /\ L \in Nat /\ FirstCode + L <= MaxCode  BY <1>4, <1>5, Zenon
    <3>3. FirstCode + Len(table) > MaxCode  BY <1>9, Zenon DEF NextCode
    <3>4. FirstCode \in Nat /\ MaxCode \in Nat  BY CodeNumbers, Zenon
    <3>5. FirstCode + L = MaxCode
      <4> HIDE <1>9
      <4> QED BY <3>2, <3>3, <3>4
    <3> QED BY <3>1, <3>5
  <2>2. Means(N, next.table)  BY <2>1, MeansNothing
  <2>3. N[S[i]] = SubSeq(S, i, (i + 1) - 1)  BY <1>2, <1>3
  <2>4. S[i] \in Codes(<<>>)  BY <1>2, CodeNumbers DEF Codes, NextCode, Character
  <2> HIDE DEF N
  <2>5. Pending(N, S, i, i + 1, next)
    BY <1>3, <1>5, <2>1, <2>2, <2>3, <2>4 DEF Pending
  <2>6. Behind(N, S, i, next, after)  BY <1>8, <2>1 DEF Behind
  <2> QED BY <2>5, <2>6 DEF Synced, next
(* Otherwise the new entry stands for the piece and the character after it. *)
<1>10. CASE ~ (NextCode(table) > MaxCode)
  <2> DEFINE N == [x \in Codes(table) |->
                     IF x = FirstCode + L THEN Append(piece, S[i]) ELSE M[x]]
  <2>1. next.table = table /\ Codes(table) = 0 .. FirstCode + L
    BY <1>4, <1>5, <1>10, CodeNumbers DEF NextCode, Codes
  <2>2. \A x \in 0 .. FirstCode + L - 1 :
          /\ x \in Codes(table) /\ x \in Codes(coder.table) /\ N[x] = M[x]
          /\ M[x] \in Seq(Character)
    <3> TAKE x \in 0 .. FirstCode + L - 1
    <3>1. x \in Codes(table) /\ x # FirstCode + L  BY <1>4, <2>1, CodeNumbers
    <3>2. x \in Codes(coder.table)  BY <1>4, CodeNumbers DEF Codes, NextCode, L
    <3>3. M[x] \in Seq(Character)  BY <1>4, <3>2 DEF Means
    <3> QED BY <3>1, <3>2, <3>3
  <2>3. FirstCode + L \in Codes(table) /\ N[FirstCode + L] = Append(piece, S[i])
    <3>1. FirstCode + L \in Codes(table)  BY <1>4, <2>1, CodeNumbers
    <3> QED BY <3>1
  <2>4. N \in [Codes(table) -> Seq(Character)]
    <3>1. Append(piece, S[i]) \in Seq(Character)  BY <1>2, AppendProperties
    <3>2. \A x \in Codes(table) : x # FirstCode + L => M[x] \in Seq(Character)
      <4> TAKE x \in Codes(table)
      <4> HAVE x # FirstCode + L
      <4>1. x \in 0 .. FirstCode + L - 1  BY <1>4, <2>1, CodeNumbers
      <4> QED BY <2>2, <4>1
    <3> QED BY <3>1, <3>2
  <2>5. Len(piece) \in 1 .. L + 1
    <3>1. CASE coder.string \in Character
      <4>1. M[coder.string] = <<coder.string>>  BY <1>4, <3>1 DEF Means
      <4>2. Len(piece) = 1  BY <1>4, <4>1
      <4> QED BY <1>4, <4>2
    <3>2. CASE coder.string \notin Character
      <4> DEFINE k == coder.string - FirstCode + 1
      <4>1. k \in 1 .. L /\ FirstCode + k - 1 = coder.string
        BY <1>4, <3>2, CodeNumbers DEF Character
      <4> HIDE DEF k
      <4>2. k \in 1 .. Len(coder.table)  BY <4>1 DEF L
      <4>3. Len(M[FirstCode + k - 1]) \in 2 .. k + 1  BY <1>4, <4>2, MeansEntry
      <4>4. Len(piece) \in 2 .. k + 1  BY <1>4, <4>1, <4>3
      <4> QED BY <1>4, <4>1, <4>4
    <3> QED BY <3>1, <3>2
  <2> HIDE DEF N
  <2>6. Means(N, table)
    <3>1. ASSUME NEW c \in Character PROVE N[c] = <<c>>
      <4>1. c \in 0 .. FirstCode + L - 1  BY <1>4, CodeNumbers DEF Character
      <4>2. M[c] = <<c>>  BY <1>4 DEF Means
      <4> QED BY <2>2, <4>1, <4>2
    <3>2. ASSUME NEW k \in DOMAIN table
          PROVE  /\ table[k].prefix \in 0 .. FirstCode + k - 2
                 /\ N[FirstCode + k - 1] = Append(N[table[k].prefix], table[k].append)
                 /\ Len(N[FirstCode + k - 1]) \in 2 .. k + 1
      <4>1. k \in 1 .. L + 1  BY <1>5
      <4>2. CASE k = L + 1
        <5>1. table[k].prefix = coder.string /\ table[k].append = S[i]
          BY <1>6, <1>7, <4>2
        <5>2. FirstCode + k - 1 = FirstCode + L /\ FirstCode + k - 2 = FirstCode + L - 1
          BY <1>4, <4>2, CodeNumbers
        <5>3. N[coder.string] = piece  BY <1>4, <2>2
        <5>4. Len(Append(piece, S[i])) = Len(piece) + 1  BY <1>2, AppendProperties
        <5>5. Len(Append(piece, S[i])) \in 2 .. k + 1  BY <1>4, <2>5, <4>2, <5>4
        <5> QED BY <1>4, <2>3, <5>1, <5>2, <5>3, <5>5
      <4>3. CASE k # L + 1
        <5>1. k \in 1 .. L /\ k \in DOMAIN coder.table  BY <1>4, <4>1, <4>3 DEF L
        <5>2. table[k] = coder.table[k]  BY <1>7, <5>1
        <5>3. /\ coder.table[k].prefix \in 0 .. FirstCode + k - 2
              /\ M[FirstCode + k - 1] = Append(M[coder.table[k].prefix], coder.table[k].append)
              /\ Len(M[FirstCode + k - 1]) \in 2 .. k + 1
          BY <1>4, <5>1 DEF Means
        <5>4. FirstCode + k - 1 \in 0 .. FirstCode + L - 1
              /\ \A x \in 0 .. FirstCode + k - 2 : x \in 0 .. FirstCode + L - 1
          BY <1>4, <5>1, CodeNumbers, SMTT(30)
        <5> QED BY <2>2, <5>2, <5>3, <5>4
      <4> QED BY <4>2, <4>3
    <3> QED BY <2>4, <3>1, <3>2 DEF Means
  <2>7. N[S[i]] = SubSeq(S, i, (i + 1) - 1) /\ S[i] \in Codes(table)
    <3>1. S[i] \in 0 .. FirstCode + L - 1  BY <1>2, <1>4, CodeNumbers, SMTT(30) DEF Character
    <3>2. M[S[i]] = <<S[i]>>  BY <1>2, <1>4 DEF Means
    <3> QED BY <1>2, <1>3, <2>2, <3>1, <3>2
  <2>8. Pending(N, S, i, i + 1, next)
    BY <1>3, <1>5, <2>1, <2>6, <2>7 DEF Pending
  <2>9. Behind(N, S, i, next, after)
    <3>1. table # <<>> /\ Len(table) = L + 1 /\ L + 1 - 1 = L  BY <1>4, <1>5
    <3>2. Agrees(after.table, table, L)  BY <1>4, <1>7, <1>8 DEF Agrees
    <3>3. entry = [prefix |-> after.old, append |-> S[i]]  BY <1>8 DEF entry
    <3>4. after.char = N[after.old][1]
      <4>1. N[coder.string] = piece  BY <1>4, <2>2
      <4> QED BY <1>2, <1>8, <4>1
    <3>5. after.next = FirstCode + (L + 1) - 1  BY <1>4, <1>8, CodeNumbers
    <3>6. next.table # <<>> /\ Len(next.table) = L + 1 /\ Len(next.table) - 1 = L
      <4>1. next.table # <<>> /\ Len(next.table) = L + 1  BY <2>1, <3>1
      <4> QED BY <1>4, <4>1
    <3>7. next.table[Len(next.table)] = [prefix |-> after.old, append |-> S[i]]
      BY <1>7, <2>1, <3>3, <3>6
    <3>8. Agrees(after.table, next.table, Len(next.table) - 1)  BY <2>1, <3>2, <3>6
    <3> QED BY <1>8, <3>4, <3>5, <3>6, <3>7, <3>8 DEF Behind
  <2> QED BY <2>8, <2>9 DEF Synced, next
<1> QED BY <1>9, <1>10

-----------------------------------------------------------------------------
(* The steps of a save, of a load, and of some parts of them.               *)
SaveSteps == {"open", "tables", "header", "section", "char", "end", "drain",
              "rereloc", "unlink", "rename", "discard", "saved"}
WithTemp  == SaveSteps \ {"open"}
Packing   == {"char", "end", "drain"}
LoadSteps == {"peek", "memory", "expansion", "load", "codes", "restart", "failed"}
Checked   == {"memory", "expansion", "load", "codes", "restart"}

(* The last steps of closeaout, and the reads that input_code makes.        *)
Unlinking    == \E ok \in BOOLEAN : Unlink(ok)
Renaming     == Rename \/ RenameFails
ReadingFirst == \E ok \in BOOLEAN, heap \in Heaps : ReadFirst(ok, heap)
ReadingEnd   == \E ok \in BOOLEAN : ReadEnd(ok)

(* What the call in progress has in its hands.                              *)
Hands ==
  /\ job.temp # Null <=> job.at \in WithTemp
  /\ job.fd \in {Null, job.temp}
  /\ job.at \in WithTemp \ {"saved"} => /\ job.fd = Null => job.err
                                        /\ job.fd # Null => disk[job.fd] # Null
  /\ job.at \in {"unlink", "rename"} => ~job.err
  /\ job.comp => job.at \in Packing \cup {"header", "section"}
  /\ job.at \in Packing => job.comp
  /\ ~job.comp => job.buf = <<>>
  /\ job.at \in {"char", "end"} => /\ job.sec <= Len(SectionsOf(memory)) /\ Section # <<>>
  /\ NextCode(job.coder.table) <= MaxCode

(* What a process that loads a file knows of it.                            *)
Loading ==
  /\ job.at \in LoadSteps => disk[Target] # Null
  /\ job.at \in Checked => Header # Null /\ Header.build = build
  /\ job.at \in {"peek", "memory", "expansion"} =>
       job.sec = 1 /\ job.i = 1 /\ job.out = <<>> /\ job.decoder = FirstRead(0)
  /\ job.at = "load" => Len(job.out) = job.sec - 1
  /\ job.at = "codes" => Len(job.out) = job.sec /\ job.sec <= Len(Header.sizes)
  /\ job.at = "restart" => job.sec > Len(Header.sizes) /\ Saving.of.functions = 0

(* Where the pointers are offsets, the heap extended and channels open.     *)
Restored ==
  /\ job.at \in {"running", "open", "tables", "unlink", "rename", "discard", "saved"} =>
       ~memory.relative
  /\ job.at \in {"header", "section", "char", "end", "drain", "rereloc"} => memory.relative
  /\ job.at \in {"running", "rereloc", "unlink", "rename", "discard", "saved"} => memory.extra = 0
  /\ job.at \in {"header", "section"} /\ ~job.comp => memory.extra = 0
  /\ job.at \in SaveSteps => memory.channels = "closed"

(* What is on disk under the two names.                                     *)
SizesOf(sections) == [k \in 1..Len(sections) |-> Len(sections[k])]

Stored ==
  /\ disk[Target] # Null => /\ disk[Target].of # Null /\ disk[Target].of.relative
                            /\ disk[Target].of.channels = "closed"
                            /\ disk[Target].header # Null
  /\ job.at \in Packing \cup {"section", "rereloc", "unlink", "rename"} /\ ~job.err =>
       /\ disk[job.temp].header # Null
       /\ disk[job.temp].of # Null /\ disk[job.temp].of.relative
       /\ disk[job.temp].of.channels = "closed"
       /\ disk[job.temp].of.sections = memory.sections
       /\ disk[job.temp].of.functions = memory.functions
       /\ disk[job.temp].header.sizes = SizesOf(memory.sections)

(* A file that is not compressed holds characters.                          *)
Plain ==
  /\ disk[Target] # Null => disk[Target].header.comp \/ disk[Target].units \in Seq(Character)
  /\ job.at \in {"tables", "header"} /\ ~job.err =>
       disk[job.temp].units = <<>> /\ ~disk[job.temp].lost
  /\ job.at \in Packing \cup {"section", "rereloc", "unlink", "rename"} /\ ~job.err =>
       disk[job.temp].header.comp \/ disk[job.temp].units \in Seq(Character)
  /\ job.at \in Packing \cup {"section"} /\ ~job.err =>
       (disk[job.temp].header.comp <=> job.comp)

(* The old file stays until the new one is complete.                        *)
Copies ==
  /\ job.old # Null => job.at \in SaveSteps
  /\ job.at \in SaveSteps \ {"rename", "discard", "saved"} => disk[Target] = job.old
  /\ job.at = "rename" => disk[Target] \in {job.old, Null}
  /\ job.at = "discard" => \/ disk[Target] = job.old
                           \/ disk[Target] = Null /\ job.cause = "rename"
  /\ job.at = "saved" => disk[job.temp] = Null /\ NewFile(Target)

(* The temporary files this program made, but for the one in hand, are      *)
(* those that crashes have left.                                            *)
Own(d) == {t \in Temps : d[t] \notin {Null, Foreign}}

Removed ==
  /\ IsFiniteSet(Own(disk))
  /\ Cardinality(Own(disk) \ {job.temp}) <= crashes

-----------------------------------------------------------------------------
(* Types of what the steps put together.                                    *)
LEMMA Names ==
  /\ Target \in Files /\ Temps \subseteq Files /\ Target \notin Temps
  /\ Null \notin Temps /\ Null # Target /\ Null \notin Contents /\ Null \notin Headers
  /\ Null \notin Memories
  /\ BuffSize \in Nat \ {0} /\ DecodeLimit \in Nat /\ MaxCode - FirstCode <= DecodeLimit
  /\ MaxFaults \in Nat /\ MaxSaves \in Nat /\ MaxCrashes \in Nat
  /\ Heaps \subseteq [FirstCode..MaxValue -> Entry]
BY SaveImageAssumption DEF Files

(* compress starts with an empty table.                                     *)
LEMMA StartedType ==
  ASSUME NEW c \in Character
  PROVE  /\ Started(c) \in Coder /\ Started(c).table = <<>>
         /\ NextCode(Started(c).table) <= MaxCode
BY CodeNumbers DEF Started, Coder, NextCode

(* A process with no call in progress.                                      *)
LEMMA QuietType ==
  ASSUME NEW at \in Steps
  PROVE  Quiet(at) \in Jobs
<1>1. Started(0) \in Coder /\ FirstRead(0) \in Decoder
  BY StartedType, FirstReadType, CodeNumbers
<1>2. <<>> \in Seq(Code) /\ <<>> \in Seq(Seq(Character)) /\ 1 \in Nat \ {0}  OBVIOUS
<1>3. /\ "none" \in Causes /\ FALSE \in BOOLEAN
      /\ Null \in Temps \cup {Null} /\ Null \in Contents \cup {Null}
  BY DEF Causes
<1> QED BY <1>1, <1>2, <1>3, Zenon DEF Quiet, Jobs

(* The sections of the file: those of the memory first.                     *)
LEMMA SectionsType ==
  ASSUME NEW m \in Memories
  PROVE  /\ m.sections \in Seq(Seq(Character)) /\ Len(m.sections) \in Nat
         /\ SectionsOf(m) \in Seq(Seq(Character)) /\ Len(SectionsOf(m)) \in Nat
         /\ Len(SectionsOf(m)) >= Len(m.sections)
         /\ \A k \in 1..Len(m.sections) : SectionsOf(m)[k] = m.sections[k]
<1>1. m.sections \in Seq(Seq(Character)) /\ m.functions \in 0..1  BY DEF Memories
<1> DEFINE more == [k \in 1..m.functions |-> <<0>>]
<1>2. <<0>> \in Seq(Character)  BY CodeNumbers
<1>3. more \in [1..m.functions -> Seq(Character)] /\ m.functions \in Nat  BY <1>1, <1>2
<1>5. SectionsOf(m) = m.sections \o more  BY DEF SectionsOf
<1> HIDE DEF more
<1>4. more \in Seq(Seq(Character))  BY <1>3, SeqDef
<1>6. /\ SectionsOf(m) \in Seq(Seq(Character))
      /\ Len(SectionsOf(m)) = Len(m.sections) + Len(more)
      /\ \A k \in 1 .. Len(m.sections) + Len(more) :
           SectionsOf(m)[k] = IF k <= Len(m.sections) THEN m.sections[k]
                              ELSE more[k - Len(m.sections)]
  BY <1>1, <1>4, <1>5, ConcatProperties
<1>7. Len(m.sections) \in Nat /\ Len(more) \in Nat  BY <1>1, <1>4
<1>8. ASSUME NEW k \in 1 .. Len(m.sections) PROVE SectionsOf(m)[k] = m.sections[k]
  <2>1. k \in 1 .. Len(m.sections) + Len(more) /\ k <= Len(m.sections)  BY <1>7
  <2> QED BY <1>6, <2>1
<1>9. Len(SectionsOf(m)) \in Nat /\ Len(SectionsOf(m)) >= Len(m.sections)  BY <1>6, <1>7
<1> QED BY <1>1, <1>6, <1>7, <1>8, <1>9

(* A file with more in it.                                                  *)
LEMMA WrittenType ==
  ASSUME TypeOK, NEW fd \in Files, disk[fd] # Null, NEW units \in Seq(Code)
  PROVE  /\ Written(fd, units) \in [Files -> Contents \cup {Null}]
         /\ \A f \in Files \ {fd} : Written(fd, units)[f] = disk[f]
         /\ Written(fd, units)[fd] # Null
         /\ Written(fd, units)[fd].header = disk[fd].header
         /\ Written(fd, units)[fd].lost = disk[fd].lost
         /\ Written(fd, units)[fd].units = disk[fd].units \o units
         /\ Written(fd, units)[fd].of = memory
<1> DEFINE file == [disk[fd] EXCEPT !.units = @ \o units, !.of = memory]
<1>1. disk \in [Files -> Contents \cup {Null}] /\ memory \in Memories  BY DEF TypeOK
<1>2. disk[fd] \in Contents  BY <1>1
<1>3. disk[fd].units \in Seq(Code)  BY <1>2 DEF Contents
<1>4. disk[fd].units \o units \in Seq(Code)  BY <1>3
<1>5. file \in Contents /\ file.units = disk[fd].units \o units /\ file.of = memory
      /\ file.header = disk[fd].header /\ file.lost = disk[fd].lost
  BY <1>1, <1>2, <1>4 DEF Contents
<1>6. Written(fd, units) = [disk EXCEPT ![fd] = file]  BY <1>1 DEF Written
<1> HIDE DEF file
<1> QED BY <1>1, <1>5, <1>6, Names

(* A file that lacks a buffer nobody missed.                                *)
Lossy(fd) == [disk EXCEPT ![fd].lost = TRUE]

(* The file stays what it was, but for the loss.                            *)
LEMMA LostType ==
  ASSUME TypeOK, NEW fd \in Files, disk[fd] # Null
  PROVE  /\ Lossy(fd) \in [Files -> Contents \cup {Null}]
         /\ \A f \in Files \ {fd} : Lossy(fd)[f] = disk[f]
         /\ Lossy(fd)[fd] # Null /\ Lossy(fd)[fd].lost
         /\ Lossy(fd)[fd].header = disk[fd].header
         /\ Lossy(fd)[fd].units = disk[fd].units
         /\ Lossy(fd)[fd].of = disk[fd].of
<1> DEFINE file == [disk[fd] EXCEPT !.lost = TRUE]
<1>1. disk \in [Files -> Contents \cup {Null}]  BY DEF TypeOK
<1>2. disk[fd] \in Contents  BY <1>1
<1>3. file \in Contents /\ file.lost = TRUE /\ file.header = disk[fd].header
      /\ file.units = disk[fd].units /\ file.of = disk[fd].of
  BY <1>2 DEF Contents
<1>4. Lossy(fd) = [disk EXCEPT ![fd] = file]  BY <1>1 DEF Lossy
<1> HIDE DEF file
<1> QED BY <1>1, <1>3, <1>4, Names

(* expand begins with a decoder, whatever it takes for the first character. *)
LEMMA FirstDecoderType ==
  ASSUME NEW code \in Code, NEW heap \in Heaps
  PROVE  FirstDecoder(code, heap) \in Decoder
<1>1. FirstRead(code) \in Decoder  BY FirstReadType
<1>2. heap \in [FirstCode..MaxValue -> Entry]  BY Names
<1>3. [FirstRead(code) EXCEPT !.table = heap] \in Decoder  BY <1>1, <1>2 DEF Decoder
<1> QED BY <1>1, <1>3 DEF FirstDecoder

(* Sequences of codes can be put together in any order.                     *)
LEMMA CodesConcat ==
  \A s, t, u \in Seq(Code) : (s \o t) \o u = s \o (t \o u)
BY ConcatAssociative

(* The faults stay within their bound.                                      *)
LEMMA OutcomeType ==
  ASSUME TypeOK, NEW ok \in BOOLEAN, Outcome(ok)
  PROVE  faults' \in 0..MaxFaults
<1>1. faults \in 0..MaxFaults /\ MaxFaults \in Nat  BY Names DEF TypeOK
<1>2. CASE ok  BY <1>1, <1>2 DEF Outcome
<1>3. CASE ~ok  BY <1>1, <1>3 DEF Outcome
<1> QED BY <1>2, <1>3

(* What output_code does: the code is behind what is on disk and in the     *)
(* buffer, unless the file has lost a part; the file's header stays.        *)
LEMMA OutputCodeStep ==
  ASSUME TypeOK, Hands, job.at \in WithTemp \ {"saved"},
         NEW code \in Code, NEW ok \in BOOLEAN, NEW next \in Jobs, OutputCode(code, ok, next)
  PROVE  /\ TypeOK'
         /\ job' = [next EXCEPT !.buf = job'.buf]
         /\ UNCHANGED <<memory, build, saves, crashes>>
         /\ \A f \in Files \ {job.fd} : disk'[f] = disk[f]
         /\ job.fd # Null =>
              /\ disk'[job.fd] # Null /\ disk'[job.fd].header = disk[job.fd].header
              /\ disk'[job.fd].of = disk[job.fd].of \/ disk'[job.fd].of = memory
              /\ ~disk'[job.fd].lost =>
                   /\ ~disk[job.fd].lost
                   /\ disk'[job.fd].units \o job'.buf = (disk[job.fd].units \o job.buf) \o <<code>>
<1> DEFINE buf == IF Flushes THEN <<code>> ELSE Append(job.buf, code)
           fd == job.fd
<1>1. /\ job \in Jobs /\ job.buf \in Seq(Code) /\ Len(job.buf) \in Nat /\ Len(job.buf) <= BuffSize
      /\ disk \in [Files -> Contents \cup {Null}] /\ BuffSize \in Nat \ {0}
      /\ fd \in Temps \cup {Null} /\ (fd # Null => fd \in Files /\ disk[fd] # Null)
  <2>1. job \in Jobs  BY DEF TypeOK
  <2>2. job.buf \in Seq(Code) /\ fd \in Temps \cup {Null}  BY <2>1 DEF Jobs
  <2>3. fd # Null => fd \in Files /\ disk[fd] # Null  BY <2>2, Names DEF Hands
  <2> QED BY <2>1, <2>2, <2>3, Names DEF TypeOK
<1>2. buf \in Seq(Code) /\ Len(buf) <= BuffSize
  <2>1. CASE Flushes  BY <1>1, <2>1
  <2>2. CASE ~Flushes
    <3>1. Len(Append(job.buf, code)) = Len(job.buf) + 1 /\ Append(job.buf, code) \in Seq(Code)
      BY <1>1, AppendProperties
    <3> QED BY <1>1, <2>2, <3>1 DEF Flushes
  <2> QED BY <2>1, <2>2
<1>3. job' = [next EXCEPT !.buf = buf]  BY DEF OutputCode
<1> HIDE DEF buf
<1>4. job' \in Jobs /\ job'.buf = buf  BY <1>2, <1>3 DEF Jobs
<1>5. UNCHANGED <<memory, build, saves, crashes>>  BY DEF OutputCode
<1>6. faults' \in 0..MaxFaults  BY OutcomeType DEF OutputCode
<1>7. /\ disk' \in [Files -> Contents \cup {Null}]
      /\ \A f \in Files \ {fd} : disk'[f] = disk[f]
      /\ fd # Null =>
           /\ disk'[fd] # Null /\ disk'[fd].header = disk[fd].header
           /\ disk'[fd].of = disk[fd].of \/ disk'[fd].of = memory
           /\ ~disk'[fd].lost =>
                /\ ~disk[fd].lost
                /\ disk'[fd].units \o buf = (disk[fd].units \o job.buf) \o <<code>>
  <2>1. CASE ~Flushes \/ fd = Null
    <3>1. disk' = disk  BY <2>1 DEF OutputCode
    <3>2. ASSUME fd # Null PROVE disk[fd].units \o buf = (disk[fd].units \o job.buf) \o <<code>>
      <4>1. disk[fd] \in Contents  BY <1>1, <3>2
      <4>2. disk[fd].units \in Seq(Code) /\ <<code>> \in Seq(Code)  BY <4>1 DEF Contents
      <4>3. buf = Append(job.buf, code)  BY <2>1, <3>2 DEF buf
      <4>4. buf = job.buf \o <<code>>  BY <1>1, <4>3, AppendIsConcat
      <4>5. (disk[fd].units \o job.buf) \o <<code>> = disk[fd].units \o (job.buf \o <<code>>)
        <5>1. job.buf \in Seq(Code)  BY <1>1
        <5>2. disk[fd].units \in Seq(Code)  BY <4>2
        <5>3. <<code>> \in Seq(Code)  BY <4>2
        <5> QED BY <5>1, <5>2, <5>3, CodesConcat
      <4> QED BY <4>4, <4>5
    <3> QED BY <1>1, <3>1, <3>2
  <2>2. CASE Flushes /\ fd # Null /\ ok
    <3>1. disk' = Written(fd, job.buf)  BY <2>2 DEF OutputCode
    <3>2. buf = <<code>>  BY <2>2 DEF buf
    <3>3. fd \in Files /\ disk[fd] # Null /\ job.buf \in Seq(Code)  BY <1>1, <2>2
    <3>4. /\ disk' \in [Files -> Contents \cup {Null}]
          /\ \A f \in Files \ {fd} : disk'[f] = disk[f]
          /\ disk'[fd] # Null /\ disk'[fd].header = disk[fd].header
          /\ disk'[fd].lost = disk[fd].lost /\ disk'[fd].of = memory
          /\ disk'[fd].units = disk[fd].units \o job.buf
      BY <3>1, <3>3, WrittenType
    <3> QED BY <3>2, <3>4
  <2>3. CASE Flushes /\ fd # Null /\ ~ok
    <3>1. disk' = Lossy(fd)  BY <2>3 DEF OutputCode, Lossy
    <3>2. fd \in Files /\ disk[fd] # Null  BY <1>1, <2>3
    <3>3. /\ disk' \in [Files -> Contents \cup {Null}]
          /\ \A f \in Files \ {fd} : disk'[f] = disk[f]
          /\ disk'[fd] # Null /\ disk'[fd].lost /\ disk'[fd].header = disk[fd].header
          /\ disk'[fd].of = disk[fd].of
      BY <3>1, <3>2, LostType
    <3>4. disk'[fd].lost  BY <3>3
    <3>5. ~disk'[fd].lost =>
            /\ ~disk[fd].lost
            /\ disk'[fd].units \o buf = (disk[fd].units \o job.buf) \o <<code>>
      BY <3>4, Zenon
    <3> QED BY <3>3, <3>5, Zenon
  <2> QED BY <2>1, <2>2, <2>3
<1>8. TypeOK'
  <2>1. Len(job'.buf) <= BuffSize  BY <1>2, <1>4
  <2> QED BY <1>4, <1>5, <1>6, <1>7, <2>1 DEF TypeOK
<1> QED BY <1>3, <1>4, <1>5, <1>7, <1>8

(* The fields of a call whose step alone changes.                           *)
LEMMA GotoType ==
  ASSUME TypeOK, NEW step \in Steps, Goto(step)
  PROVE  job' \in Jobs /\ Len(job'.buf) <= BuffSize /\ job'.buf = job.buf
<1>1. job \in Jobs /\ Len(job.buf) <= BuffSize  BY DEF TypeOK
<1>2. job' = [job EXCEPT !.at = step]  BY DEF Goto
<1>3. job' \in Jobs /\ job'.buf = job.buf  BY <1>1, <1>2 DEF Jobs
<1> QED BY <1>1, <1>3

(* A load that fails keeps what it has in hand.                             *)
LEMMA FailType ==
  ASSUME TypeOK, NEW cause \in Causes, Fail(cause)
  PROVE  job' \in Jobs /\ Len(job'.buf) <= BuffSize /\ job'.buf = job.buf
<1>1. job \in Jobs /\ Len(job.buf) <= BuffSize  BY DEF TypeOK
<1>2. job' = [job EXCEPT !.at = "failed", !.cause = cause]  BY DEF Fail
<1>3. "failed" \in Steps  BY DEF Steps
<1>4. job' \in Jobs /\ job'.buf = job.buf  BY <1>1, <1>2, <1>3 DEF Jobs
<1> QED BY <1>1, <1>4

(* A call that ends leaves nothing in hand.                                 *)
LEMMA QuietJob ==
  ASSUME NEW at \in Steps, job' = Quiet(at)
  PROVE  job' \in Jobs /\ Len(job'.buf) <= BuffSize
<1>1. job' \in Jobs  BY QuietType
<1>2. job'.buf = <<>>  BY DEF Quiet
<1> QED BY <1>1, <1>2, Names

(* The program and its memory.                                              *)
LEMMA BlankType == Blank \in Memories
BY DEF Blank, Memories

(* The steps of the program itself keep the type.                           *)
LEMMA TypeProgram ==
  ASSUME TypeOK, Loading, Stored,
         \/ \E s \in Edits, f \in 0..1 : Run(s, f)
         \/ \E stay \in BOOLEAN : BeginSave(stay)
         \/ \E ok \in BOOLEAN : Chain(ok)
         \/ EndProgram \/ Crash \/ \E b \in Builds : Start(b)
         \/ Saved \/ Restart \/ LoadFailed
  PROVE  TypeOK'
<1>1. /\ memory \in Memories /\ disk \in [Files -> Contents \cup {Null}] /\ job \in Jobs
      /\ Len(job.buf) <= BuffSize
      /\ build \in Builds /\ faults \in 0..MaxFaults
      /\ saves \in 0..MaxSaves /\ crashes \in 0..MaxCrashes
  BY DEF TypeOK
<1>2. "running" \in Steps /\ "stopped" \in Steps /\ "peek" \in Steps /\ "open" \in Steps
  BY DEF Steps
<1>3. CASE \E s \in Edits, f \in 0..1 : Run(s, f)
  <2>1. PICK s \in Edits, f \in 0..1 : Run(s, f)  BY <1>3
  <2>2. s \in Seq(Seq(Character))  BY SaveImageAssumption
  <2>3. memory' = [memory EXCEPT !.sections = s, !.functions = f, !.channels = "open"]
    BY <2>1 DEF Run
  <2>4. memory' \in Memories  BY <1>1, <2>2, <2>3 DEF Memories
  <2> QED BY <1>1, <2>1, <2>4 DEF Run, TypeOK
<1>4. CASE \E stay \in BOOLEAN : BeginSave(stay)
  <2>1. PICK stay \in BOOLEAN : BeginSave(stay)  BY <1>4
  <2>2. memory' = [memory EXCEPT !.channels = "closed"]  BY <2>1 DEF BeginSave
  <2>3. memory' \in Memories  BY <1>1, <2>2 DEF Memories
  <2>4. job' = [Quiet("open") EXCEPT !.stay = stay, !.old = disk[Target]]
    BY <2>1 DEF BeginSave
  <2>5. disk[Target] \in Contents \cup {Null}  BY <1>1, Names
  <2>6. job' \in Jobs /\ job'.buf = Quiet("open").buf
    <3>1. Quiet("open") \in Jobs  BY <1>2, QuietType
    <3> QED BY <2>4, <2>5, <3>1 DEF Jobs
  <2>7. Len(job'.buf) <= BuffSize  BY <2>6, Names DEF Quiet
  <2>8. saves' \in 0..MaxSaves
    <3>1. saves < MaxSaves /\ saves' = saves + 1  BY <2>1 DEF BeginSave
    <3> QED BY <1>1, <3>1, Names
  <2> QED BY <1>1, <2>1, <2>3, <2>6, <2>7, <2>8 DEF BeginSave, TypeOK
<1>5. CASE \E ok \in BOOLEAN : Chain(ok)
  <2>1. PICK ok \in BOOLEAN : Chain(ok)  BY <1>5
  <2>2. memory' = [memory EXCEPT !.channels = "closed"]  BY <2>1 DEF Chain
  <2>3. memory' \in Memories  BY <1>1, <2>2 DEF Memories
  <2>4. job' = Quiet("running") \/ job' = Quiet("stopped")  BY <2>1 DEF Chain, DoExec
  <2>5. job' \in Jobs /\ Len(job'.buf) <= BuffSize  BY <1>2, <2>4, QuietJob
  <2>6. faults' \in 0..MaxFaults  BY <2>1, OutcomeType DEF Chain
  <2> QED BY <1>1, <2>1, <2>3, <2>5, <2>6 DEF Chain, TypeOK
<1>6. CASE EndProgram \/ Crash \/ Saved \/ LoadFailed
  <2>1. job' = Quiet("running") \/ job' = Quiet("stopped")
    BY <1>6 DEF EndProgram, Crash, Saved, LoadFailed
  <2>2. job' \in Jobs /\ Len(job'.buf) <= BuffSize  BY <1>2, <2>1, QuietJob
  <2>3. crashes' \in 0..MaxCrashes
    BY <1>1, <1>6, Names DEF EndProgram, Crash, Saved, LoadFailed
  <2> QED BY <1>1, <1>6, <2>2, <2>3 DEF EndProgram, Crash, Saved, LoadFailed, TypeOK
<1>7. CASE \E b \in Builds : Start(b)
  <2>1. PICK b \in Builds : Start(b)  BY <1>7
  <2>2. job' = Quiet("running") \/ job' = Quiet("peek")  BY <2>1 DEF Start
  <2>3. job' \in Jobs /\ Len(job'.buf) <= BuffSize  BY <1>2, <2>2, QuietJob
  <2> QED BY <1>1, <2>1, <2>3, BlankType DEF Start, TypeOK
<1>8. CASE Restart
  <2>1. job' \in Jobs /\ Len(job'.buf) <= BuffSize  BY <1>2, <1>8, QuietJob DEF Restart
  <2>2. memory' = [Blank EXCEPT !.sections = job.out, !.relative = ~Saving.of.relative,
                                !.channels = Saving.of.channels]
    BY <1>8 DEF Restart
  <2>3. job.out \in Seq(Seq(Character))  BY <1>1 DEF Jobs
  <2>4. Saving.of \in Memories
    <3>1. disk[Target] # Null  BY <1>8 DEF Restart, At, Loading, LoadSteps
    <3>2. disk[Target] \in Contents /\ disk[Target].of # Null
      BY <1>1, <3>1, Names DEF Stored
    <3> QED BY <3>2 DEF Contents, Saving
  <2>5. Saving.of.channels \in {"open", "closed"} /\ (~Saving.of.relative) \in BOOLEAN
    BY <2>4 DEF Memories
  <2>6. memory' \in Memories  BY <2>2, <2>3, <2>4, <2>5, BlankType DEF Memories
  <2> QED BY <1>1, <1>8, <2>1, <2>6 DEF Restart, TypeOK
<1> QED BY <1>3, <1>4, <1>5, <1>6, <1>7, <1>8

(* The section in hand.                                                     *)
LEMMA SectionType ==
  ASSUME TypeOK, ~LastSection
  PROVE  /\ Section \in Seq(Character) /\ Len(Section) \in Nat /\ job.sec \in Nat \ {0}
         /\ \A i \in 1..Len(Section) : Section[i] \in Character
         /\ Section \in Seq(Code)
<1>1. memory \in Memories /\ job.sec \in Nat \ {0}  BY DEF TypeOK, Jobs
<1>2. SectionsOf(memory) \in Seq(Seq(Character)) /\ Len(SectionsOf(memory)) \in Nat
  BY <1>1, SectionsType
<1>3. job.sec \in 1 .. Len(SectionsOf(memory))  BY <1>1, <1>2 DEF LastSection
<1>4. Section \in Seq(Character)  BY <1>2, <1>3, ElementOfSeq DEF Section
<1>5. Section \in Seq(Code)  BY <1>4, CodeNumbers, SeqMonotonic
<1> QED BY <1>1, <1>4, <1>5

(* The steps that put codes out keep the type.                              *)
LEMMA TypePacking ==
  ASSUME TypeOK, Hands,
         \/ FirstChar \/ CharMatched \/ NotCompressed
         \/ \E ok \in BOOLEAN : \/ CharUnmatched(ok) \/ LastCode(ok) \/ EndCode(ok) \/ Pad(ok)
                               \/ Drain(ok)
  PROVE  TypeOK'
<1>1. /\ memory \in Memories /\ disk \in [Files -> Contents \cup {Null}] /\ job \in Jobs
      /\ Len(job.buf) <= BuffSize /\ job.buf \in Seq(Code)
      /\ build \in Builds /\ faults \in 0..MaxFaults
      /\ saves \in 0..MaxSaves /\ crashes \in 0..MaxCrashes
      /\ job.sec \in Nat \ {0} /\ job.i \in Nat \ {0}
      /\ job.coder \in Coder /\ job.coder.string \in Code
      /\ NextCode(job.coder.table) <= MaxCode
      /\ job.sec + 1 \in Nat \ {0} /\ job.i + 1 \in Nat \ {0} /\ 2 \in Nat \ {0}
      /\ 1 \in Nat \ {0} /\ <<>> \in Seq(Code) /\ FALSE \in BOOLEAN /\ 0 \in 0..1
  <2>1. job \in Jobs  BY DEF TypeOK
  <2>2. /\ job.coder \in Coder /\ job.buf \in Seq(Code)
        /\ job.sec \in Nat \ {0} /\ job.i \in Nat \ {0}
    BY <2>1 DEF Jobs
  <2>3. job.coder.string \in Code  BY <2>2 DEF Coder
  <2> QED BY <2>1, <2>2, <2>3 DEF TypeOK, Hands
<1>2. "section" \in Steps /\ "char" \in Steps /\ "end" \in Steps /\ "drain" \in Steps
      /\ "rereloc" \in Steps
  BY DEF Steps
<1>3. At("char") => ~LastSection /\ job.at \in WithTemp \ {"saved"}
  <2>1. At("char") => job.sec <= Len(SectionsOf(memory))  BY DEF Hands, At
  <2>2. Len(SectionsOf(memory)) \in Nat  BY <1>1, SectionsType
  <2> QED BY <1>1, <2>1, <2>2 DEF LastSection, At, WithTemp, SaveSteps
<1>4. CASE FirstChar
  <2>1. CASE Section = <<>>
    <3>1. job' = [job EXCEPT !.sec = @ + 1]  BY <1>4, <2>1 DEF FirstChar
    <3>2. job' \in Jobs /\ job'.buf = job.buf  BY <1>1, <3>1 DEF Jobs
    <3> QED BY <1>1, <1>4, <3>2 DEF FirstChar, TypeOK
  <2>2. CASE Section # <<>>
    <3>1. job' = [job EXCEPT !.at = "char", !.i = 2, !.coder = Started(Section[1])]
      BY <1>4, <2>2 DEF FirstChar
    <3>2. Section[1] \in Character
      <4>1. ~LastSection  BY <1>4 DEF FirstChar
      <4>2. Section \in Seq(Character)  BY <4>1, SectionType
      <4> QED BY <2>2, <4>2
    <3>3. Started(Section[1]) \in Coder  BY <3>2, StartedType
    <3>4. job' \in Jobs /\ job'.buf = job.buf  BY <1>1, <1>2, <3>1, <3>3 DEF Jobs
    <3> QED BY <1>1, <1>4, <3>4 DEF FirstChar, TypeOK
  <2> QED BY <2>1, <2>2
<1>5. CASE CharMatched
  <2>1. Longer(job.coder, Section[job.i]) \in Coder
    <3> DEFINE c == Section[job.i]
               k == CHOOSE k \in Matches(job.coder.table, job.coder.string, c) : TRUE
    <3>1. k \in Matches(job.coder.table, job.coder.string, c)
      BY <1>5 DEF CharMatched, Extends
    <3> HIDE DEF k
    <3>2. job.coder.table \in Seq(Entry)  BY <1>1 DEF Coder
    <3>3. k \in 1 .. Len(job.coder.table) /\ Len(job.coder.table) \in Nat
      BY <3>1, <3>2 DEF Matches
    <3>4. FirstCode - 1 + k \in Code
      BY <1>1, <3>3, CodeNumbers DEF NextCode, Code
    <3>5. Longer(job.coder, c) = [job.coder EXCEPT !.string = FirstCode - 1 + k]
      BY DEF Longer, k
    <3> QED BY <1>1, <3>4, <3>5 DEF Coder
  <2>2. job' = [job EXCEPT !.i = @ + 1, !.coder = Longer(@, Section[job.i])]
    BY <1>5 DEF CharMatched
  <2>3. job' \in Jobs /\ job'.buf = job.buf  BY <1>1, <2>1, <2>2 DEF Jobs
  <2> QED BY <1>1, <1>5, <2>3 DEF CharMatched, TypeOK
<1>6. CASE NotCompressed
  <2>1. job' \in Jobs /\ Len(job'.buf) <= BuffSize  BY <1>2, <1>6, GotoType DEF NotCompressed
  <2> QED BY <1>1, <1>6, <2>1 DEF NotCompressed, TypeOK
<1>7. ASSUME NEW ok \in BOOLEAN, CharUnmatched(ok) PROVE TypeOK'
  <2> DEFINE next == [job EXCEPT !.i = @ + 1, !.coder = Restarted(@, Section[job.i])]
  <2>1. At("char") /\ job.i <= Len(Section)  BY <1>7 DEF CharUnmatched
  <2>2. Section[job.i] \in Character
    <3>1. ~LastSection  BY <1>3, <2>1
    <3>2. Len(Section) \in Nat /\ \A i \in 1..Len(Section) : Section[i] \in Character
      BY <3>1, SectionType
    <3> QED BY <1>1, <2>1, <3>2
  <2>3. Restarted(job.coder, Section[job.i]) \in Coder  BY <1>1, <2>2, RestartedIs
  <2>4. next \in Jobs  BY <1>1, <2>3 DEF Jobs
  <2>5. OutputCode(job.coder.string, ok, next)  BY <1>7 DEF CharUnmatched
  <2> HIDE DEF next
  <2> QED BY <1>1, <1>3, <2>1, <2>4, <2>5, OutputCodeStep
<1>8. ASSUME NEW ok \in BOOLEAN, LastCode(ok) PROVE TypeOK'
  <2> DEFINE next == [job EXCEPT !.at = "end"]
  <2>1. At("char")  BY <1>8 DEF LastCode
  <2>2. next \in Jobs  BY <1>1, <1>2 DEF Jobs
  <2>3. OutputCode(job.coder.string, ok, next)  BY <1>8 DEF LastCode
  <2> HIDE DEF next
  <2> QED BY <1>1, <1>3, <2>1, <2>2, <2>3, OutputCodeStep
<1>9. ASSUME NEW ok \in BOOLEAN, EndCode(ok) PROVE TypeOK'
  <2> DEFINE next == [job EXCEPT !.at = "section", !.sec = @ + 1, !.coder = Started(0), !.i = 1]
  <2>1. job.at \in WithTemp \ {"saved"}  BY <1>9 DEF EndCode, At, WithTemp, SaveSteps
  <2>2. Started(0) \in Coder /\ MaxValue \in Code  BY StartedType, CodeNumbers DEF Code
  <2>3. next \in Jobs  BY <1>1, <1>2, <2>2 DEF Jobs
  <2>4. OutputCode(MaxValue, ok, next)  BY <1>9 DEF EndCode
  <2> HIDE DEF next
  <2> QED BY <2>1, <2>2, <2>3, <2>4, OutputCodeStep
<1>10. ASSUME NEW ok \in BOOLEAN, Pad(ok) PROVE TypeOK'
  <2> DEFINE next == [job EXCEPT !.at = "drain"]
  <2>1. job.at \in WithTemp \ {"saved"}  BY <1>10 DEF Pad, At, WithTemp, SaveSteps
  <2>2. next \in Jobs /\ 0 \in Code  BY <1>1, <1>2, CodeNumbers DEF Jobs
  <2>3. OutputCode(0, ok, next)  BY <1>10 DEF Pad
  <2> HIDE DEF next
  <2> QED BY <2>1, <2>2, <2>3, OutputCodeStep
<1>11. ASSUME NEW ok \in BOOLEAN, Drain(ok) PROVE TypeOK'
  <2>1. job' = [job EXCEPT !.at = "rereloc", !.buf = <<>>, !.comp = FALSE]
    BY <1>11 DEF Drain
  <2>2. job' \in Jobs /\ job'.buf = <<>>  BY <1>1, <1>2, <2>1 DEF Jobs
  <2>3. memory' \in Memories
    <3>1. memory' = [memory EXCEPT !.extra = 0]  BY <1>11 DEF Drain
    <3> QED BY <1>1, <3>1 DEF Memories
  <2>4. faults' \in 0..MaxFaults  BY <1>11, OutcomeType DEF Drain
  <2>5. disk' \in [Files -> Contents \cup {Null}]
    <3>1. disk' \in {disk, Written(job.fd, job.buf), Lossy(job.fd)} /\ (job.fd = Null => disk' = disk)
      BY <1>11 DEF Drain, Lossy
    <3>2. ASSUME job.fd # Null PROVE job.fd \in Files /\ disk[job.fd] # Null
      <4>1. job.fd \in Temps  BY <1>1, <3>2 DEF Jobs
      <4>2. job.at \in WithTemp \ {"saved"}  BY <1>11 DEF Drain, At, WithTemp, SaveSteps
      <4> QED BY <3>2, <4>1, <4>2, Names DEF Hands
    <3> QED BY <1>1, <3>1, <3>2, WrittenType, LostType
  <2> QED BY <1>1, <1>11, <2>2, <2>3, <2>4, <2>5, Names DEF Drain, TypeOK
<1> QED BY <1>4, <1>5, <1>6, <1>7, <1>8, <1>9, <1>10, <1>11

(* The other steps of a save keep the type.                                 *)
LEMMA TypeSaving ==
  ASSUME TypeOK, Hands,
         \/ \E t \in Temps : NoTempName(t) \/ \E ok \in BOOLEAN : OpenTemp(t, ok)
         \/ \E room \in {"free", "extended", "none"} : Tables(room)
         \/ \E ok \in BOOLEAN : WriteHeader(ok) \/ WriteSection(ok)
         \/ Rereloc \/ Unlinking \/ Renaming \/ Discard
  PROVE  TypeOK'
<1>1. /\ memory \in Memories /\ disk \in [Files -> Contents \cup {Null}] /\ job \in Jobs
      /\ Len(job.buf) <= BuffSize /\ job.buf \in Seq(Code)
      /\ build \in Builds /\ faults \in 0..MaxFaults
      /\ saves \in 0..MaxSaves /\ crashes \in 0..MaxCrashes
      /\ job.sec \in Nat \ {0} /\ job.sec + 1 \in Nat \ {0}
      /\ TRUE \in BOOLEAN /\ FALSE \in BOOLEAN /\ 0 \in 0..1 /\ 1 \in 0..1
      /\ "rename" \in Causes
  <2>1. job \in Jobs  BY DEF TypeOK
  <2>2. job.buf \in Seq(Code) /\ job.sec \in Nat \ {0}  BY <2>1 DEF Jobs
  <2> QED BY <2>1, <2>2 DEF TypeOK, Causes
<1>2. /\ "tables" \in Steps /\ "header" \in Steps /\ "section" \in Steps
      /\ "discard" \in Steps /\ "unlink" \in Steps /\ "rename" \in Steps
      /\ "saved" \in Steps /\ "running" \in Steps
  BY DEF Steps
<1>3. ASSUME job.fd # Null, job.at \in {"header", "section"}
      PROVE  job.fd \in Files /\ disk[job.fd] # Null
  <2>1. job.fd \in Temps  BY <1>1, <1>3 DEF Jobs
  <2>2. job.at \in WithTemp \ {"saved"}  BY <1>3 DEF WithTemp, SaveSteps
  <2> QED BY <1>3, <2>1, <2>2, Names DEF Hands
<1>4. ASSUME NEW t \in Temps, NoTempName(t) PROVE TypeOK'
  <2>1. job' = [job EXCEPT !.at = "tables", !.temp = t, !.err = TRUE]
    BY <1>4 DEF NoTempName
  <2>2. t \in Temps \cup {Null}  OBVIOUS
  <2>3. job' \in Jobs /\ job'.buf = job.buf  BY <1>1, <1>2, <2>1, <2>2 DEF Jobs
  <2> QED BY <1>1, <1>4, <2>3 DEF NoTempName, TypeOK
<1>5. ASSUME NEW t \in Temps, NEW ok \in BOOLEAN, OpenTemp(t, ok) PROVE TypeOK'
  <2> DEFINE fd == IF ok THEN t ELSE Null
             file == [header |-> Null, units |-> <<>>, of |-> memory, lost |-> FALSE]
  <2>1. job' = [job EXCEPT !.at = "tables", !.temp = t, !.err = ~ok, !.fd = fd]
    BY <1>5 DEF OpenTemp
  <2>2. t \in Temps \cup {Null} /\ fd \in Temps \cup {Null} /\ (~ok) \in BOOLEAN  OBVIOUS
  <2> HIDE DEF fd
  <2>3. job' \in Jobs /\ job'.buf = job.buf  BY <1>1, <1>2, <2>1, <2>2 DEF Jobs
  <2>4. file \in Contents
    <3>1. <<>> \in Seq(Code)  OBVIOUS
    <3> QED BY <1>1, <3>1 DEF Contents
  <2> HIDE DEF file
  <2>5. disk' = [disk EXCEPT ![t] = file] \/ disk' = disk  BY <1>5 DEF OpenTemp, file
  <2>6. disk' \in [Files -> Contents \cup {Null}]  BY <1>1, <2>4, <2>5
  <2>7. faults' \in 0..MaxFaults  BY <1>5, OutcomeType DEF OpenTemp
  <2>8. UNCHANGED <<memory, build, saves, crashes>>  BY <1>5 DEF OpenTemp
  <2> QED BY <1>1, <2>3, <2>6, <2>7, <2>8 DEF TypeOK
<1>6. ASSUME NEW room \in {"free", "extended", "none"}, Tables(room) PROVE TypeOK'
  <2> DEFINE extra == IF room = "extended" THEN 1 ELSE 0
  <2>1. memory' = [memory EXCEPT !.relative = TRUE, !.extra = extra]  BY <1>6 DEF Tables
  <2>2. extra \in 0..1  OBVIOUS
  <2> HIDE DEF extra
  <2>3. memory' \in Memories  BY <1>1, <2>1, <2>2 DEF Memories
  <2> DEFINE comp == room # "none"
  <2>4. job' = [job EXCEPT !.at = "header", !.comp = comp]  BY <1>6 DEF Tables
  <2>5. comp \in BOOLEAN  OBVIOUS
  <2> HIDE DEF comp
  <2>6. job' \in Jobs /\ job'.buf = job.buf  BY <1>1, <1>2, <2>4, <2>5 DEF Jobs
  <2> QED BY <1>1, <1>6, <2>3, <2>6 DEF Tables, TypeOK
<1>7. ASSUME NEW ok \in BOOLEAN, WriteHeader(ok) PROVE TypeOK'
  <2>1. job' = [job EXCEPT !.at = "section"] \/ job' = [job EXCEPT !.at = "section", !.err = TRUE]
    BY <1>7 DEF WriteHeader
  <2>2. job' \in Jobs /\ job'.buf = job.buf  BY <1>1, <1>2, <2>1 DEF Jobs
  <2>3. faults' \in 0..MaxFaults  BY <1>7, OutcomeType DEF WriteHeader
  <2>4. disk' \in [Files -> Contents \cup {Null}]
    <3>1. CASE ok /\ job.fd # Null
      <4> DEFINE sizes == [k \in 1..Len(memory.sections) |-> Len(memory.sections[k])]
                 header == [comp |-> job.comp, build |-> build, sizes |-> sizes]
                 file == [disk[job.fd] EXCEPT !.header = header, !.of = memory]
      <4>1. job.fd \in Files /\ disk[job.fd] # Null
        <5>1. job.at \in {"header", "section"}  BY <1>7 DEF WriteHeader, At
        <5> QED BY <1>3, <3>1, <5>1
      <4>2. disk[job.fd] \in Contents  BY <1>1, <4>1
      <4>3. sizes \in Seq(Nat)
        <5>1. memory.sections \in Seq(Seq(Character)) /\ Len(memory.sections) \in Nat
          BY <1>1, SectionsType
        <5>2. \A k \in 1..Len(memory.sections) : Len(memory.sections[k]) \in Nat  BY <5>1
        <5>3. sizes \in [1..Len(memory.sections) -> Nat]  BY <5>2
        <5> DEFINE n == Len(memory.sections)
        <5>4. n \in Nat /\ sizes \in [1..n -> Nat]  BY <5>1, <5>3
        <5> HIDE DEF sizes, n
        <5> QED BY <5>4, SeqDef
      <4> HIDE DEF sizes
      <4>4. header \in Headers
        <5>1. job.comp \in BOOLEAN  BY <1>1 DEF Jobs
        <5> QED BY <1>1, <4>3, <5>1 DEF Headers
      <4> HIDE DEF header
      <4>5. file \in Contents  BY <1>1, <4>2, <4>4 DEF Contents
      <4>6. disk' = [disk EXCEPT ![job.fd] = file]
        BY <1>1, <1>7, <3>1, <4>1 DEF WriteHeader, header, sizes
      <4> HIDE DEF file
      <4> QED BY <1>1, <4>1, <4>5, <4>6
    <3>2. CASE ~(ok /\ job.fd # Null)  BY <1>1, <1>7, <3>2 DEF WriteHeader
    <3> QED BY <3>1, <3>2
  <2>5. UNCHANGED <<memory, build, saves, crashes>>  BY <1>7 DEF WriteHeader
  <2> QED BY <1>1, <2>2, <2>3, <2>4, <2>5 DEF TypeOK
<1>8. ASSUME NEW ok \in BOOLEAN, WriteSection(ok) PROVE TypeOK'
  <2>1. job' = [job EXCEPT !.sec = @ + 1] \/ job' = [job EXCEPT !.sec = @ + 1, !.err = TRUE]
    BY <1>8 DEF WriteSection
  <2>2. job' \in Jobs /\ job'.buf = job.buf  BY <1>1, <1>2, <2>1 DEF Jobs
  <2>3. faults' \in 0..MaxFaults  BY <1>8, OutcomeType DEF WriteSection
  <2>4. disk' \in [Files -> Contents \cup {Null}]
    <3>1. CASE ok /\ job.fd # Null
      <4>1. job.at \in {"header", "section"} /\ ~LastSection  BY <1>8 DEF WriteSection, At
      <4>2. job.fd \in Files /\ disk[job.fd] # Null  BY <1>3, <3>1, <4>1
      <4>3. Section \in Seq(Code)  BY <4>1, SectionType
      <4>4. disk' = Written(job.fd, Section)  BY <1>8, <3>1 DEF WriteSection
      <4> QED BY <4>2, <4>3, <4>4, WrittenType
    <3>2. CASE ~(ok /\ job.fd # Null)  BY <1>1, <1>8, <3>2 DEF WriteSection
    <3> QED BY <3>1, <3>2
  <2>5. UNCHANGED <<memory, build, saves, crashes>>  BY <1>8 DEF WriteSection
  <2> QED BY <1>1, <2>2, <2>3, <2>4, <2>5 DEF TypeOK
<1>9. ASSUME Renaming PROVE TypeOK'
  <2>1. job' = [job EXCEPT !.at = "saved"]
        \/ job' = [job EXCEPT !.at = "discard", !.err = TRUE, !.cause = "rename"]
    BY <1>9 DEF Renaming, Rename, RenameFails, Goto
  <2>2. job' \in Jobs /\ job'.buf = job.buf  BY <1>1, <1>2, <2>1 DEF Jobs
  <2>3. faults' \in 0..MaxFaults  BY <1>1, <1>9, Names DEF Renaming, Rename, RenameFails
  <2>4. job.temp \in Files
    <3>1. job.temp \in Temps \cup {Null}  BY <1>1 DEF Jobs
    <3>2. job.temp # Null  BY <1>9 DEF Renaming, Rename, RenameFails, At, Hands, WithTemp, SaveSteps
    <3> QED BY <3>1, <3>2, Names
  <2>5. disk' = [disk EXCEPT ![Target] = disk[job.temp], ![job.temp] = Null] \/ disk' = disk
    BY <1>9 DEF Renaming, Rename, RenameFails
  <2>6. disk' \in [Files -> Contents \cup {Null}]  BY <1>1, <2>4, <2>5
  <2>7. UNCHANGED <<memory, build, saves, crashes>>  BY <1>9 DEF Renaming, Rename, RenameFails
  <2> QED BY <1>1, <2>2, <2>3, <2>6, <2>7 DEF TypeOK
<1>10. CASE Rereloc
  <2>1. Goto("discard") \/ Goto("unlink")  BY <1>10 DEF Rereloc
  <2>2. job' \in Jobs /\ Len(job'.buf) <= BuffSize  BY <1>2, <2>1, GotoType
  <2>3. memory' = [memory EXCEPT !.relative = FALSE]  BY <1>10 DEF Rereloc
  <2>4. memory' \in Memories  BY <1>1, <2>3 DEF Memories
  <2> QED BY <1>1, <1>10, <2>2, <2>4 DEF Rereloc, TypeOK
<1>11. CASE Unlinking
  <2>1. job' \in Jobs /\ Len(job'.buf) <= BuffSize  BY <1>2, <1>11, GotoType DEF Unlinking, Unlink
  <2>2. disk' \in [Files -> Contents \cup {Null}]  BY <1>1, <1>11 DEF Unlinking, Unlink
  <2>3. faults' \in 0..MaxFaults  BY <1>11, OutcomeType DEF Unlinking, Unlink
  <2>4. UNCHANGED <<memory, build, saves, crashes>>  BY <1>11 DEF Unlinking, Unlink
  <2> QED BY <1>1, <2>1, <2>2, <2>3, <2>4 DEF TypeOK
<1>12. CASE Discard
  <2>1. job' \in Jobs /\ Len(job'.buf) <= BuffSize  BY <1>2, <1>12, QuietJob DEF Discard
  <2>2. disk' \in [Files -> Contents \cup {Null}]  BY <1>1, <1>12 DEF Discard
  <2> QED BY <1>1, <1>12, <2>1, <2>2 DEF Discard, TypeOK
<1> QED BY <1>4, <1>5, <1>6, <1>7, <1>8, <1>9, <1>10, <1>11, <1>12

(* The steps of a load keep the type.                                       *)
LEMMA TypeLoading ==
  ASSUME TypeOK, Loading, Stored, Plain,
         \/ \E ok \in BOOLEAN : \/ CheckHeader(ok) \/ GetMemory(ok) \/ ReadSection(ok)
                               \/ \E extended \in BOOLEAN : Expansion(extended, ok)
         \/ ReadingFirst \/ ReadCode \/ ReadingEnd \/ FindFunctions
  PROVE  TypeOK'
<1>1. /\ memory \in Memories /\ disk \in [Files -> Contents \cup {Null}] /\ job \in Jobs
      /\ Len(job.buf) <= BuffSize
      /\ build \in Builds /\ faults \in 0..MaxFaults
      /\ saves \in 0..MaxSaves /\ crashes \in 0..MaxCrashes
      /\ job.sec \in Nat \ {0} /\ job.sec + 1 \in Nat \ {0}
      /\ job.i \in Nat \ {0} /\ job.i + 1 \in Nat \ {0}
      /\ job.out \in Seq(Seq(Character)) /\ job.decoder \in Decoder
      /\ 0 \in 0..1 /\ 1 \in 0..1
  <2>1. job \in Jobs  BY DEF TypeOK
  <2>2. /\ job.sec \in Nat \ {0} /\ job.i \in Nat \ {0}
        /\ job.out \in Seq(Seq(Character)) /\ job.decoder \in Decoder
    BY <2>1 DEF Jobs
  <2> QED BY <2>1, <2>2 DEF TypeOK
<1>2. /\ "memory" \in Steps /\ "expansion" \in Steps /\ "load" \in Steps
      /\ "codes" \in Steps /\ "restart" \in Steps
  BY DEF Steps
<1>3. /\ "fault" \in Causes /\ "not a save file" \in Causes /\ "version" \in Causes
      /\ "read" \in Causes /\ "overrun" \in Causes /\ "fatal" \in Causes
      /\ "functions" \in Causes
  BY DEF Causes
<1>4. ASSUME job.at \in Checked
      PROVE  /\ Saving \in Contents /\ Saving.units \in Seq(Code) /\ Len(Saving.units) \in Nat
             /\ Header.sizes \in Seq(Nat) /\ Len(Header.sizes) \in Nat
             /\ \A i \in Nat \ {0} : Unit(i) \in Code
  <2>1. Saving # Null /\ Header # Null
    BY <1>4 DEF Loading, Checked, LoadSteps, Saving
  <2>2. Saving \in Contents  BY <1>1, <2>1, Names DEF Saving
  <2>3. Header \in Headers /\ Saving.units \in Seq(Code)
    BY <2>1, <2>2 DEF Contents, Header
  <2>4. Header.sizes \in Seq(Nat)  BY <2>3 DEF Headers
  <2>5. ASSUME NEW i \in Nat \ {0} PROVE Unit(i) \in Code
    <3>1. 0 \in Code  BY CodeNumbers
    <3> QED BY <2>3, <3>1 DEF Unit
  <2> QED BY <2>2, <2>3, <2>4, <2>5
<1>5. ASSUME NEW ok \in BOOLEAN, CheckHeader(ok) PROVE TypeOK'
  <2>1. Goto("memory") \/ \E cause \in Causes : Fail(cause)
    BY <1>3, <1>5 DEF CheckHeader
  <2>2. job' \in Jobs /\ Len(job'.buf) <= BuffSize  BY <1>2, <2>1, GotoType, FailType
  <2>3. faults' \in 0..MaxFaults  BY <1>5, OutcomeType DEF CheckHeader
  <2> QED BY <1>1, <1>5, <2>2, <2>3 DEF CheckHeader, TypeOK
<1>6. ASSUME NEW ok \in BOOLEAN, GetMemory(ok) PROVE TypeOK'
  <2>1. Goto("expansion") \/ \E cause \in Causes : Fail(cause)
    BY <1>3, <1>6 DEF GetMemory
  <2>2. job' \in Jobs /\ Len(job'.buf) <= BuffSize  BY <1>2, <2>1, GotoType, FailType
  <2>3. faults' \in 0..MaxFaults  BY <1>6, OutcomeType DEF GetMemory
  <2> QED BY <1>1, <1>6, <2>2, <2>3 DEF GetMemory, TypeOK
<1>7. ASSUME NEW ok \in BOOLEAN, NEW extended \in BOOLEAN, Expansion(extended, ok) PROVE TypeOK'
  <2>1. Goto("load") \/ \E cause \in Causes : Fail(cause)
    BY <1>3, <1>7 DEF Expansion
  <2>2. job' \in Jobs /\ Len(job'.buf) <= BuffSize  BY <1>2, <2>1, GotoType, FailType
  <2>3. faults' \in 0..MaxFaults  BY <1>7, OutcomeType DEF Expansion
  <2>4. memory' \in Memories
    <3> DEFINE extra == IF extended /\ ok THEN 1 ELSE 0
    <3>1. memory' = [memory EXCEPT !.extra = extra]  BY <1>7 DEF Expansion
    <3>2. extra \in 0..1  OBVIOUS
    <3> HIDE DEF extra
    <3> QED BY <1>1, <3>1, <3>2 DEF Memories
  <2>5. UNCHANGED <<disk, build, saves, crashes>>  BY <1>7 DEF Expansion
  <2> QED BY <1>1, <2>2, <2>3, <2>4, <2>5 DEF TypeOK
<1>8. ASSUME NEW ok \in BOOLEAN, ReadSection(ok) PROVE TypeOK'
  <2> DEFINE part == SubSeq(Saving.units, job.i, job.i + Wanted - 1)
             step == [job EXCEPT !.sec = @ + 1, !.i = @ + Wanted, !.out = Append(@, part)]
  <2>1. /\ job.at \in Checked /\ ~AllLoaded /\ (~Header.comp \/ Wanted = 0)
        /\ \/ \E cause \in Causes : Fail(cause)
           \/ job.i + Wanted - 1 <= Len(Saving.units) /\ job' = step
    <3>1. job.at \in Checked /\ ~AllLoaded /\ (~Header.comp \/ Wanted = 0)
      BY <1>8 DEF ReadSection, At, Checked
    <3>2. Wanted \in Nat
      <4>1. job.sec \in 1 .. Len(Header.sizes)  BY <1>1, <1>4, <3>1 DEF AllLoaded
      <4> QED BY <1>4, <3>1, <4>1 DEF Wanted
    <3>3. Len(Saving.units) \in Nat  BY <1>4, <3>1
    <3>4. CASE ~ok  BY <1>3, <1>8, <3>1, <3>4 DEF ReadSection
    <3>5. CASE ok /\ job.i + Wanted - 1 > Len(Saving.units)
      BY <1>3, <1>8, <3>1, <3>5 DEF ReadSection
    <3>6. CASE ok /\ ~(job.i + Wanted - 1 > Len(Saving.units))
      <4>1. job' = step  BY <1>8, <3>6 DEF ReadSection
      <4>2. job.i + Wanted - 1 <= Len(Saving.units)  BY <1>1, <3>2, <3>3, <3>6
      <4> QED BY <3>1, <4>1, <4>2
    <3> QED BY <3>4, <3>5, <3>6
  <2>2. job' \in Jobs /\ Len(job'.buf) <= BuffSize
    <3>1. CASE \E cause \in Causes : Fail(cause)  BY <3>1, FailType
    <3>2. CASE job.i + Wanted - 1 <= Len(Saving.units) /\ job' = step
      <4>1. Wanted \in Nat
        <5>1. job.sec \in 1 .. Len(Header.sizes)  BY <1>1, <1>4, <2>1 DEF AllLoaded
        <5> QED BY <1>4, <2>1, <5>1 DEF Wanted
      <4>2. part \in Seq(Character)
        <5>1. CASE Wanted = 0
          <6>1. part = <<>>  BY <1>1, <5>1, SubSeqEmpty
          <6>2. <<>> \in Seq(Character)  OBVIOUS
          <6> HIDE DEF part
          <6> QED BY <6>1, <6>2
        <5>2. CASE Wanted # 0
          <6>1. ~Header.comp  BY <2>1, <5>2
          <6>2. Saving.units \in Seq(Character)
            BY <2>1, <6>1 DEF Plain, Loading, Checked, LoadSteps, Saving, Header
          <6>3. \A k \in job.i .. job.i + Wanted - 1 : Saving.units[k] \in Character
            <7> TAKE k \in job.i .. job.i + Wanted - 1
            <7>1. k \in 1 .. Len(Saving.units)  BY <1>1, <1>4, <2>1, <3>2, <4>1, SMTT(30)
            <7> QED BY <6>2, <7>1, ElementOfSeq
          <6> DEFINE units == Saving.units
                     last == job.i + Wanted - 1
          <6>4. job.i \in Int /\ last \in Int  BY <1>1, <4>1
          <6>5. \A k \in job.i .. last : units[k] \in Character  BY <6>3
          <6> HIDE DEF units, last
          <6>6. SubSeq(units, job.i, last) \in Seq(Character)
            BY <6>4, <6>5, SubSeqProperties
          <6> QED BY <6>6 DEF units, last
        <5> QED BY <5>1, <5>2
      <4>3. job.i + Wanted \in Nat \ {0}  BY <1>1, <4>1
      <4> HIDE DEF part
      <4>4. Append(job.out, part) \in Seq(Seq(Character))  BY <1>1, <4>2, AppendProperties
      <4>5. job' = [job EXCEPT !.sec = @ + 1, !.i = @ + Wanted, !.out = Append(@, part)]
        BY <3>2 DEF part
      <4>6. job' \in Jobs /\ job'.buf = job.buf  BY <1>1, <4>3, <4>4, <4>5 DEF Jobs
      <4> QED BY <1>1, <4>6
    <3> QED BY <2>1, <3>1, <3>2
  <2>3. faults' \in 0..MaxFaults  BY <1>8, OutcomeType DEF ReadSection
  <2>4. UNCHANGED <<memory, disk, build, saves, crashes>>  BY <1>8 DEF ReadSection
  <2> QED BY <1>1, <2>2, <2>3, <2>4 DEF TypeOK
<1>9. CASE ReadingFirst
  <2>1. PICK ok \in BOOLEAN, heap \in Heaps : ReadFirst(ok, heap)  BY <1>9 DEF ReadingFirst
  <2> DEFINE code == InputCode(ok)
             first == <<code % FirstCode>>
             place == InputPlace(ok)
             misread == job.misread \/ ~ok
  <2>2. job.at \in Checked  BY <2>1 DEF ReadFirst, At, Checked
  <2>3. code \in Code /\ place \in Nat \ {0} /\ misread \in BOOLEAN
    <3>1. code \in Code  BY <1>1, <1>4, <2>2, CodeNumbers DEF InputCode, Code
    <3>2. place \in Nat \ {0}  BY <1>1 DEF InputPlace
    <3> QED BY <3>1, <3>2
  <2>4. code % FirstCode \in Character  BY <2>3, FirstReadType
  <2>5. FirstDecoder(code, heap) \in Decoder  BY <2>3, FirstDecoderType
  <2>6. first \in Seq(Character)  BY <2>4
  <2>7. Append(job.out, first) \in Seq(Seq(Character))  BY <1>1, <2>6, AppendProperties
  <2>8. job' = [job EXCEPT !.at = "codes", !.i = place, !.decoder = FirstDecoder(code, heap),
                           !.out = Append(@, first), !.misread = misread]
    BY <2>1 DEF ReadFirst
  <2>9. faults' \in 0..MaxFaults  BY <2>1, OutcomeType DEF ReadFirst
  <2>10. UNCHANGED <<memory, disk, build, saves, crashes>>  BY <2>1 DEF ReadFirst
  <2> HIDE DEF code, first, place, misread
  <2>11. job' \in Jobs /\ job'.buf = job.buf
    BY <1>1, <1>2, <2>3, <2>5, <2>7, <2>8 DEF Jobs
  <2> QED BY <1>1, <2>9, <2>10, <2>11 DEF TypeOK
<1>10. CASE ReadCode
  <2> DEFINE code == Unit(job.i)
             string == Decoded(job.decoder, code, DecodeLimit)
             step == [job EXCEPT !.i = @ + 1, !.decoder = Read(@, code, string),
                                 !.out[job.sec] = @ \o string]
  <2>1. job.at \in Checked /\ At("codes")  BY <1>10 DEF ReadCode, At, Checked
  <2>2. code \in Code  BY <1>1, <1>4, <2>1
  <2>3. \/ \E cause \in Causes : Fail(cause)
        \/ /\ Decodable(job.decoder.table, Looked(job.decoder, code), DecodeLimit)
           /\ job' = step
    BY <1>3, <1>10 DEF ReadCode
  <2> HIDE DEF code
  <2>4. CASE \E cause \in Causes : Fail(cause)
    <3>1. job' \in Jobs /\ Len(job'.buf) <= BuffSize  BY <2>4, FailType
    <3> QED BY <1>1, <1>10, <3>1 DEF ReadCode, TypeOK
  <2>5. CASE /\ Decodable(job.decoder.table, Looked(job.decoder, code), DecodeLimit)
             /\ job' = step
    <3>1. /\ job.decoder.table \in [FirstCode..MaxValue -> Entry]
          /\ job.decoder.old \in Code /\ job.decoder.char \in Character
      BY <1>1 DEF Decoder
    <3>2. Looked(job.decoder, code) \in Code  BY <2>2, <3>1 DEF Looked
    <3>3. DecodeString(job.decoder.table, Looked(job.decoder, code), DecodeLimit)
            \in Seq(Character) \ {<<>>}
      BY <2>5, <3>1, <3>2, Names, DecodeStringType
    <3>4. string \in Seq(Character) \ {<<>>}
      <4> DEFINE s == DecodeString(job.decoder.table, Looked(job.decoder, code), DecodeLimit)
      <4>1. s \in Seq(Character) \ {<<>>}  BY <3>3
      <4>2. Append(s, job.decoder.char) \in Seq(Character) \ {<<>>}
        <5> HIDE DEF s
        <5> QED BY <3>1, <4>1, AppendProperties
      <4>3. string = s \/ string = Append(s, job.decoder.char)  BY DEF Decoded
      <4> QED BY <4>1, <4>2, <4>3
    <3> HIDE DEF string
    <3>5. Read(job.decoder, code, string) \in Decoder  BY <1>1, <2>2, <3>4, ReadType
    <3> DEFINE out == [job.out EXCEPT ![job.sec] = @ \o string]
    <3>6. job.sec \in 1 .. Len(job.out)  BY <1>1, <2>1 DEF Loading, At
    <3>7. out \in Seq(Seq(Character))
      <4>1. job.out[job.sec] \in Seq(Character)  BY <1>1, <3>6, ElementOfSeq
      <4>2. job.out[job.sec] \o string \in Seq(Character)  BY <3>4, <4>1, ConcatProperties
      <4> QED BY <1>1, <3>6, <4>2, ExceptSeq
    <3>8. job' = [job EXCEPT !.i = @ + 1, !.decoder = Read(@, code, string), !.out = out]
      <4>1. job.out \in Seq(Seq(Character))  BY <1>1
      <4> QED BY <1>1, <2>5 DEF Jobs
    <3> HIDE DEF out
    <3>9. job' \in Jobs /\ job'.buf = job.buf  BY <1>1, <3>5, <3>7, <3>8 DEF Jobs
    <3> QED BY <1>1, <1>10, <3>9 DEF ReadCode, TypeOK
  <2> QED BY <2>3, <2>4, <2>5
<1>11. CASE ReadingEnd
  <2>1. PICK ok \in BOOLEAN : ReadEnd(ok)  BY <1>11 DEF ReadingEnd
  <2> DEFINE place == InputPlace(ok)
             misread == job.misread \/ ~ok
  <2>2. \/ \E cause \in Causes : Fail(cause)
        \/ job' = [job EXCEPT !.at = "load", !.i = place, !.sec = @ + 1, !.misread = misread]
    BY <1>3, <2>1 DEF ReadEnd
  <2>3. place \in Nat \ {0} /\ misread \in BOOLEAN  BY <1>1 DEF InputPlace
  <2>4. faults' \in 0..MaxFaults  BY <2>1, OutcomeType DEF ReadEnd
  <2>5. UNCHANGED <<memory, disk, build, saves, crashes>>  BY <2>1 DEF ReadEnd
  <2> HIDE DEF place, misread
  <2>6. job' \in Jobs /\ Len(job'.buf) <= BuffSize
    <3>1. CASE \E cause \in Causes : Fail(cause)  BY <3>1, FailType
    <3>2. CASE job' = [job EXCEPT !.at = "load", !.i = place, !.sec = @ + 1,
                                  !.misread = misread]
      <4>1. job' \in Jobs /\ job'.buf = job.buf  BY <1>1, <1>2, <2>3, <3>2 DEF Jobs
      <4> QED BY <1>1, <4>1
    <3> QED BY <2>2, <3>1, <3>2
  <2> QED BY <1>1, <2>4, <2>5, <2>6 DEF TypeOK
<1>12. CASE FindFunctions
  <2>1. Goto("restart") \/ \E cause \in Causes : Fail(cause)
    BY <1>3, <1>12 DEF FindFunctions
  <2>2. job' \in Jobs /\ Len(job'.buf) <= BuffSize  BY <1>2, <2>1, GotoType, FailType
  <2>3. memory' = [memory EXCEPT !.extra = 0]  BY <1>12 DEF FindFunctions
  <2>4. memory' \in Memories  BY <1>1, <2>3 DEF Memories
  <2> QED BY <1>1, <1>12, <2>2, <2>4 DEF FindFunctions, TypeOK
<1> QED BY <1>5, <1>6, <1>7, <1>8, <1>9, <1>10, <1>11, <1>12

(* Every step keeps the type.                                               *)
LEMMA TypeStep ==
  ASSUME TypeOK, Hands, Loading, Stored, Plain, [Next]_vars
  PROVE  TypeOK'
<1>1. CASE UNCHANGED vars  BY <1>1 DEF vars, TypeOK
<1>2. CASE \/ \E s \in Edits, f \in 0..1 : Run(s, f)
           \/ \E stay \in BOOLEAN : BeginSave(stay)
           \/ \E ok \in BOOLEAN : Chain(ok)
           \/ EndProgram \/ Crash \/ \E b \in Builds : Start(b)
           \/ Saved \/ Restart \/ LoadFailed
  BY <1>2, TypeProgram
<1>3. CASE \/ FirstChar \/ CharMatched \/ NotCompressed
           \/ \E ok \in BOOLEAN : \/ CharUnmatched(ok) \/ LastCode(ok) \/ EndCode(ok)
                                 \/ Pad(ok) \/ Drain(ok)
  BY <1>3, TypePacking
<1>4. CASE \/ \E t \in Temps : NoTempName(t) \/ \E ok \in BOOLEAN : OpenTemp(t, ok)
           \/ \E room \in {"free", "extended", "none"} : Tables(room)
           \/ \E ok \in BOOLEAN : WriteHeader(ok) \/ WriteSection(ok)
           \/ Rereloc \/ Unlinking \/ Renaming \/ Discard
  BY <1>4, TypeSaving
<1>5. CASE \/ \E ok \in BOOLEAN : \/ CheckHeader(ok) \/ GetMemory(ok) \/ ReadSection(ok)
                                 \/ \E extended \in BOOLEAN : Expansion(extended, ok)
           \/ ReadingFirst \/ ReadCode \/ ReadingEnd \/ FindFunctions
  BY <1>5, TypeLoading
<1> QED BY <1>1, <1>2, <1>3, <1>4, <1>5
        DEF Next, Unlinking, Renaming, ReadingFirst, ReadingEnd

-----------------------------------------------------------------------------
(* What a step that puts a code out does to the rest of the call and to the *)
(* disk.                                                                    *)
Held ==
  /\ job'.fd = job.fd /\ job'.temp = job.temp /\ job'.err = job.err /\ job'.comp = job.comp
  /\ job'.old = job.old /\ job'.cause = job.cause /\ job'.stay = job.stay
  /\ job'.out = job.out /\ job'.decoder = job.decoder

Packed(code) ==
  /\ UNCHANGED <<memory, build, saves, crashes>>
  /\ \A f \in Files \ {job.fd} : disk'[f] = disk[f]
  /\ job.fd # Null =>
       /\ disk'[job.fd] # Null /\ disk'[job.fd].header = disk[job.fd].header
       /\ disk'[job.fd].of = disk[job.fd].of \/ disk'[job.fd].of = memory
       /\ ~disk'[job.fd].lost =>
            /\ ~disk[job.fd].lost
            /\ disk'[job.fd].units \o job'.buf = (disk[job.fd].units \o job.buf) \o <<code>>

(* compress puts out the code of the string and restarts.                   *)
LEMMA CharUnmatchedStep ==
  ASSUME TypeOK, Hands, NEW ok \in BOOLEAN, CharUnmatched(ok)
  PROVE  /\ job.at = "char" /\ ~LastSection /\ job.i <= Len(Section)
         /\ job.coder.string \in Code /\ Section[job.i] \in Character
         /\ job'.at = "char" /\ job'.sec = job.sec /\ job'.i = job.i + 1
         /\ job'.coder = Restarted(job.coder, Section[job.i])
         /\ NextCode(job'.coder.table) <= MaxCode
         /\ Held /\ Packed(job.coder.string)
<1> DEFINE next == [job EXCEPT !.i = @ + 1, !.coder = Restarted(@, Section[job.i])]
<1>1. /\ job \in Jobs /\ job.coder \in Coder /\ NextCode(job.coder.table) <= MaxCode
      /\ job.i \in Nat \ {0} /\ job.i + 1 \in Nat \ {0} /\ job.sec \in Nat
      /\ memory \in Memories
  <2>1. job \in Jobs  BY DEF TypeOK
  <2>2. job.coder \in Coder /\ job.i \in Nat \ {0} /\ job.sec \in Nat  BY <2>1 DEF Jobs
  <2> QED BY <2>1, <2>2 DEF Hands, TypeOK
<1>2. job.at = "char" /\ job.i <= Len(Section) /\ OutputCode(job.coder.string, ok, next)
  BY DEF CharUnmatched, At
<1>3. ~LastSection
  <2>1. job.sec <= Len(SectionsOf(memory))  BY <1>2 DEF Hands
  <2>2. Len(SectionsOf(memory)) \in Nat  BY <1>1, SectionsType
  <2> QED BY <1>1, <2>1, <2>2 DEF LastSection
<1>4. Section[job.i] \in Character
  <2>1. Len(Section) \in Nat /\ \A i \in 1..Len(Section) : Section[i] \in Character
    BY <1>3, SectionType
  <2> QED BY <1>1, <1>2, <2>1
<1>5. /\ Restarted(job.coder, Section[job.i]) \in Coder
      /\ NextCode(Restarted(job.coder, Section[job.i]).table) <= MaxCode
  BY <1>1, <1>4, RestartedIs
<1>6. next \in Jobs  BY <1>1, <1>5 DEF Jobs
<1>7. job.coder.string \in Code  BY <1>1 DEF Coder
<1>8. /\ next.at = "char" /\ next.sec = job.sec /\ next.i = job.i + 1
      /\ next.coder = Restarted(job.coder, Section[job.i])
      /\ next.fd = job.fd /\ next.temp = job.temp /\ next.err = job.err /\ next.comp = job.comp
      /\ next.old = job.old /\ next.cause = job.cause /\ next.stay = job.stay
      /\ next.out = job.out /\ next.decoder = job.decoder
  BY <1>1, <1>2 DEF Jobs
<1> HIDE DEF next
<1>9. /\ job' = [next EXCEPT !.buf = job'.buf] /\ Packed(job.coder.string)
  <2>1. job.at \in WithTemp \ {"saved"}  BY <1>2 DEF WithTemp, SaveSteps
  <2> QED BY <1>2, <1>6, <1>7, <2>1, OutputCodeStep, ZenonT(60) DEF Packed
<1>10. /\ job'.at = next.at /\ job'.sec = next.sec /\ job'.i = next.i
       /\ job'.coder = next.coder
       /\ job'.fd = next.fd /\ job'.temp = next.temp /\ job'.err = next.err
       /\ job'.comp = next.comp
       /\ job'.old = next.old /\ job'.cause = next.cause /\ job'.stay = next.stay
       /\ job'.out = next.out /\ job'.decoder = next.decoder
  BY <1>6, <1>9 DEF Jobs
<1> QED BY <1>2, <1>3, <1>4, <1>5, <1>7, <1>8, <1>9, <1>10 DEF Held

(* compress puts out the last code of a section.                            *)
LEMMA LastCodeStep ==
  ASSUME TypeOK, Hands, NEW ok \in BOOLEAN, LastCode(ok)
  PROVE  /\ job.at = "char" /\ job.i > Len(Section) /\ job.coder.string \in Code
         /\ job'.at = "end" /\ job'.sec = job.sec
         /\ NextCode(job'.coder.table) <= MaxCode
         /\ Held /\ Packed(job.coder.string)
<1> DEFINE next == [job EXCEPT !.at = "end"]
<1>1. /\ job \in Jobs /\ job.coder \in Coder /\ NextCode(job.coder.table) <= MaxCode
      /\ job.coder.string \in Code /\ job.sec \in Nat /\ job.sec + 1 \in Nat \ {0}
      /\ 1 \in Nat \ {0} /\ Started(0) \in Coder /\ NextCode(Started(0).table) <= MaxCode
      /\ "section" \in Steps /\ "end" \in Steps /\ "drain" \in Steps
  <2>1. job \in Jobs  BY DEF TypeOK
  <2>2. job.coder \in Coder /\ job.sec \in Nat \ {0}  BY <2>1 DEF Jobs
  <2>3. job.coder.string \in Code  BY <2>2 DEF Coder
  <2>4. Started(0) \in Coder /\ NextCode(Started(0).table) <= MaxCode
    BY StartedType, CodeNumbers
  <2> QED BY <2>1, <2>2, <2>3, <2>4 DEF Hands, Steps
<1>2. job.at = "char" /\ OutputCode(job.coder.string, ok, next)
  BY DEF LastCode, At
<1>3. job.coder.string \in Code  BY <1>1, CodeNumbers DEF Code
<1>4. next \in Jobs  BY <1>1 DEF Jobs
<1>5. /\ next.at = "end" /\ next.sec = job.sec /\ next.coder = job.coder
      /\ next.fd = job.fd /\ next.temp = job.temp /\ next.err = job.err /\ next.comp = job.comp
      /\ next.old = job.old /\ next.cause = job.cause /\ next.stay = job.stay
      /\ next.out = job.out /\ next.decoder = job.decoder
  BY <1>1, <1>2 DEF Jobs
<1> HIDE DEF next
<1>6. /\ job' = [next EXCEPT !.buf = job'.buf] /\ Packed(job.coder.string)
  <2>1. job.at \in WithTemp \ {"saved"}  BY <1>2 DEF WithTemp, SaveSteps
  <2> QED BY <1>2, <1>3, <1>4, <2>1, OutputCodeStep, ZenonT(60) DEF Packed
<1>7. /\ job'.at = next.at /\ job'.sec = next.sec /\ job'.i = next.i
      /\ job'.coder = next.coder
      /\ job'.fd = next.fd /\ job'.temp = next.temp /\ job'.err = next.err
      /\ job'.comp = next.comp
      /\ job'.old = next.old /\ job'.cause = next.cause /\ job'.stay = next.stay
      /\ job'.out = next.out /\ job'.decoder = next.decoder
  BY <1>4, <1>6 DEF Jobs
<1> QED BY <1>1, <1>2, <1>3, <1>5, <1>6, <1>7 DEF Held, LastCode

(* compress ends a section.                                                 *)
LEMMA EndCodeStep ==
  ASSUME TypeOK, Hands, NEW ok \in BOOLEAN, EndCode(ok)
  PROVE  /\ job.at = "end"
         /\ job'.at = "section" /\ job'.sec = job.sec + 1
         /\ NextCode(job'.coder.table) <= MaxCode
         /\ Held /\ Packed(MaxValue)
<1> DEFINE next == [job EXCEPT !.at = "section", !.sec = @ + 1, !.coder = Started(0), !.i = 1]
<1>1. /\ job \in Jobs /\ job.coder \in Coder /\ NextCode(job.coder.table) <= MaxCode
      /\ job.coder.string \in Code /\ job.sec \in Nat /\ job.sec + 1 \in Nat \ {0}
      /\ 1 \in Nat \ {0} /\ Started(0) \in Coder /\ NextCode(Started(0).table) <= MaxCode
      /\ "section" \in Steps /\ "end" \in Steps /\ "drain" \in Steps
  <2>1. job \in Jobs  BY DEF TypeOK
  <2>2. job.coder \in Coder /\ job.sec \in Nat \ {0}  BY <2>1 DEF Jobs
  <2>3. job.coder.string \in Code  BY <2>2 DEF Coder
  <2>4. Started(0) \in Coder /\ NextCode(Started(0).table) <= MaxCode
    BY StartedType, CodeNumbers
  <2> QED BY <2>1, <2>2, <2>3, <2>4 DEF Hands, Steps
<1>2. job.at = "end" /\ OutputCode(MaxValue, ok, next)
  BY DEF EndCode, At
<1>3. MaxValue \in Code  BY <1>1, CodeNumbers DEF Code
<1>4. next \in Jobs  BY <1>1 DEF Jobs
<1>5. /\ next.at = "section" /\ next.sec = job.sec + 1 /\ next.coder = Started(0)
      /\ next.fd = job.fd /\ next.temp = job.temp /\ next.err = job.err /\ next.comp = job.comp
      /\ next.old = job.old /\ next.cause = job.cause /\ next.stay = job.stay
      /\ next.out = job.out /\ next.decoder = job.decoder
  BY <1>1, <1>2 DEF Jobs
<1> HIDE DEF next
<1>6. /\ job' = [next EXCEPT !.buf = job'.buf] /\ Packed(MaxValue)
  <2>1. job.at \in WithTemp \ {"saved"}  BY <1>2 DEF WithTemp, SaveSteps
  <2> QED BY <1>2, <1>3, <1>4, <2>1, OutputCodeStep, ZenonT(60) DEF Packed
<1>7. /\ job'.at = next.at /\ job'.sec = next.sec /\ job'.i = next.i
      /\ job'.coder = next.coder
      /\ job'.fd = next.fd /\ job'.temp = next.temp /\ job'.err = next.err
      /\ job'.comp = next.comp
      /\ job'.old = next.old /\ job'.cause = next.cause /\ job'.stay = next.stay
      /\ job'.out = next.out /\ job'.decoder = next.decoder
  BY <1>4, <1>6 DEF Jobs
<1> QED BY <1>1, <1>2, <1>3, <1>5, <1>6, <1>7 DEF Held

(* docompress pushes the last bits out.                                     *)
LEMMA PadStep ==
  ASSUME TypeOK, Hands, NEW ok \in BOOLEAN, Pad(ok)
  PROVE  /\ job.at = "section" /\ LastSection /\ job.comp
         /\ job'.at = "drain" /\ job'.sec = job.sec
         /\ NextCode(job'.coder.table) <= MaxCode
         /\ Held /\ Packed(0)
<1> DEFINE next == [job EXCEPT !.at = "drain"]
<1>1. /\ job \in Jobs /\ job.coder \in Coder /\ NextCode(job.coder.table) <= MaxCode
      /\ job.coder.string \in Code /\ job.sec \in Nat /\ job.sec + 1 \in Nat \ {0}
      /\ 1 \in Nat \ {0} /\ Started(0) \in Coder /\ NextCode(Started(0).table) <= MaxCode
      /\ "section" \in Steps /\ "end" \in Steps /\ "drain" \in Steps
  <2>1. job \in Jobs  BY DEF TypeOK
  <2>2. job.coder \in Coder /\ job.sec \in Nat \ {0}  BY <2>1 DEF Jobs
  <2>3. job.coder.string \in Code  BY <2>2 DEF Coder
  <2>4. Started(0) \in Coder /\ NextCode(Started(0).table) <= MaxCode
    BY StartedType, CodeNumbers
  <2> QED BY <2>1, <2>2, <2>3, <2>4 DEF Hands, Steps
<1>2. job.at = "section" /\ OutputCode(0, ok, next)
  BY DEF Pad, At
<1>3. 0 \in Code  BY <1>1, CodeNumbers DEF Code
<1>4. next \in Jobs  BY <1>1 DEF Jobs
<1>5. /\ next.at = "drain" /\ next.sec = job.sec /\ next.coder = job.coder
      /\ next.fd = job.fd /\ next.temp = job.temp /\ next.err = job.err /\ next.comp = job.comp
      /\ next.old = job.old /\ next.cause = job.cause /\ next.stay = job.stay
      /\ next.out = job.out /\ next.decoder = job.decoder
  BY <1>1, <1>2 DEF Jobs
<1> HIDE DEF next
<1>6. /\ job' = [next EXCEPT !.buf = job'.buf] /\ Packed(0)
  <2>1. job.at \in WithTemp \ {"saved"}  BY <1>2 DEF WithTemp, SaveSteps
  <2> QED BY <1>2, <1>3, <1>4, <2>1, OutputCodeStep, ZenonT(60) DEF Packed
<1>7. /\ job'.at = next.at /\ job'.sec = next.sec /\ job'.i = next.i
      /\ job'.coder = next.coder
      /\ job'.fd = next.fd /\ job'.temp = next.temp /\ job'.err = next.err
      /\ job'.comp = next.comp
      /\ job'.old = next.old /\ job'.cause = next.cause /\ job'.stay = next.stay
      /\ job'.out = next.out /\ job'.decoder = next.decoder
  BY <1>4, <1>6 DEF Jobs
<1> QED BY <1>1, <1>2, <1>3, <1>5, <1>6, <1>7 DEF Held, Pad

(* The same for the other steps that write.                                 *)
LEMMA DrainStep ==
  ASSUME TypeOK, Hands, NEW ok \in BOOLEAN, Drain(ok)
  PROVE  /\ job.at = "drain" /\ job'.at = "rereloc" /\ job'.buf = <<>> /\ job'.comp = FALSE
         /\ job'.fd = job.fd /\ job'.temp = job.temp /\ job'.err = job.err
         /\ job'.sec = job.sec /\ job'.coder = job.coder
         /\ job'.old = job.old /\ job'.cause = job.cause
         /\ memory' = [memory EXCEPT !.extra = 0]
         /\ UNCHANGED <<build, saves, crashes>>
         /\ \A f \in Files \ {job.fd} : disk'[f] = disk[f]
         /\ job.fd # Null =>
              /\ disk'[job.fd] # Null /\ disk'[job.fd].header = disk[job.fd].header
              /\ disk'[job.fd].of = disk[job.fd].of \/ disk'[job.fd].of = memory
              /\ ~disk'[job.fd].lost =>
                   /\ ~disk[job.fd].lost
                   /\ disk'[job.fd].units = disk[job.fd].units \o job.buf
<1> DEFINE fd == job.fd
<1>1. job \in Jobs /\ job.buf \in Seq(Code) /\ disk \in [Files -> Contents \cup {Null}]
  <2>1. job \in Jobs  BY DEF TypeOK
  <2> QED BY <2>1 DEF Jobs, TypeOK
<1>2. job.at = "drain"  BY DEF Drain, At
<1>3. fd # Null => fd \in Files /\ disk[fd] # Null
  <2>1. fd \in Temps \cup {Null}  BY <1>1 DEF Jobs
  <2>2. job.at \in WithTemp \ {"saved"}  BY <1>2 DEF WithTemp, SaveSteps
  <2> QED BY <2>1, <2>2, Names DEF Hands
<1>4. job' = [job EXCEPT !.at = "rereloc", !.buf = <<>>, !.comp = FALSE]  BY DEF Drain
<1>5. /\ job'.at = "rereloc" /\ job'.buf = <<>> /\ job'.comp = FALSE
      /\ job'.fd = job.fd /\ job'.temp = job.temp /\ job'.err = job.err
      /\ job'.sec = job.sec /\ job'.coder = job.coder
      /\ job'.old = job.old /\ job'.cause = job.cause
  BY <1>1, <1>4 DEF Jobs
<1>6. memory' = [memory EXCEPT !.extra = 0] /\ UNCHANGED <<build, saves, crashes>>
  BY DEF Drain
<1>7. CASE fd = Null
  <2>1. disk' = disk  BY <1>7 DEF Drain
  <2> QED BY <1>2, <1>5, <1>6, <1>7, <2>1, Zenon
<1>8. CASE fd # Null /\ ok
  <2>1. disk' = Written(fd, job.buf)  BY <1>8 DEF Drain
  <2>2. fd \in Files /\ disk[fd] # Null  BY <1>3, <1>8
  <2>3. /\ \A f \in Files \ {fd} : disk'[f] = disk[f]
        /\ disk'[fd] # Null /\ disk'[fd].header = disk[fd].header
        /\ disk'[fd].lost = disk[fd].lost /\ disk'[fd].of = memory
        /\ disk'[fd].units = disk[fd].units \o job.buf
    BY <1>1, <2>1, <2>2, WrittenType
  <2> QED BY <1>2, <1>5, <1>6, <2>3
<1>9. CASE fd # Null /\ ~ok
  <2>1. disk' = Lossy(fd)  BY <1>9 DEF Drain, Lossy
  <2>2. fd \in Files /\ disk[fd] # Null  BY <1>3, <1>9
  <2>3. /\ \A f \in Files \ {fd} : disk'[f] = disk[f]
        /\ disk'[fd] # Null /\ disk'[fd].header = disk[fd].header
        /\ disk'[fd].of = disk[fd].of
    BY <2>1, <2>2, LostType
  <2>4. disk'[fd].lost  BY <2>1, <2>2, LostType
  <2> QED BY <1>2, <1>5, <1>6, <2>3, <2>4, Zenon
<1> QED BY <1>7, <1>8, <1>9

(* putsave writes the header.                                               *)
LEMMA WriteHeaderStep ==
  ASSUME TypeOK, Hands, NEW ok \in BOOLEAN, WriteHeader(ok)
  PROVE  /\ job.at = "header" /\ job'.at = "section"
         /\ job'.fd = job.fd /\ job'.temp = job.temp /\ job'.comp = job.comp
         /\ job'.sec = job.sec /\ job'.coder = job.coder /\ job'.buf = job.buf
         /\ job'.old = job.old /\ job'.cause = job.cause
         /\ UNCHANGED <<memory, build, saves, crashes>>
         /\ job.err => job'.err
         /\ \A f \in Files \ {job.fd} : disk'[f] = disk[f]
         /\ job.fd # Null =>
              /\ disk'[job.fd] # Null /\ disk'[job.fd].lost = disk[job.fd].lost
              /\ disk'[job.fd].units = disk[job.fd].units
         /\ ~job'.err =>
              /\ job.fd # Null
              /\ disk'[job.fd].header =
                   [comp |-> job.comp, build |-> build,
                    sizes |-> [k \in 1..Len(memory.sections) |-> Len(memory.sections[k])]]
              /\ disk'[job.fd].header # Null
              /\ disk'[job.fd].of = memory
<1> DEFINE fd == job.fd
           sizes == [k \in 1..Len(memory.sections) |-> Len(memory.sections[k])]
           header == [comp |-> job.comp, build |-> build, sizes |-> sizes]
           file == [disk[fd] EXCEPT !.header = header, !.of = memory]
<1>1. job \in Jobs /\ disk \in [Files -> Contents \cup {Null}] /\ job.comp \in BOOLEAN
      /\ memory \in Memories /\ build \in Builds
  <2>1. job \in Jobs  BY DEF TypeOK
  <2> QED BY <2>1 DEF Jobs, TypeOK
<1>2. job.at = "header" /\ UNCHANGED <<memory, build, saves, crashes>>  BY DEF WriteHeader, At
<1>3. fd # Null => fd \in Files /\ disk[fd] # Null /\ disk[fd] \in Contents
  <2>1. fd \in Temps \cup {Null}  BY <1>1 DEF Jobs
  <2>2. job.at \in WithTemp \ {"saved"}  BY <1>2 DEF WithTemp, SaveSteps
  <2> QED BY <1>1, <2>1, <2>2, Names DEF Hands
<1>4. CASE ok /\ fd # Null
  <2>1. job' = [job EXCEPT !.at = "section"]  BY <1>4 DEF WriteHeader
  <2>2. /\ job'.at = "section" /\ job'.fd = job.fd /\ job'.temp = job.temp
        /\ job'.comp = job.comp /\ job'.err = job.err
        /\ job'.sec = job.sec /\ job'.coder = job.coder /\ job'.buf = job.buf
        /\ job'.old = job.old /\ job'.cause = job.cause
    BY <1>1, <2>1 DEF Jobs
  <2>3. sizes \in Seq(Nat)
    <3> DEFINE n == Len(memory.sections)
    <3>1. memory.sections \in Seq(Seq(Character)) /\ n \in Nat  BY <1>1, SectionsType
    <3>2. \A k \in 1..n : Len(memory.sections[k]) \in Nat  BY <3>1
    <3>3. sizes \in [1..n -> Nat]  BY <3>2
    <3> HIDE DEF sizes, n
    <3> QED BY <3>1, <3>3, SeqDef
  <2> HIDE DEF sizes
  <2>4. header \in Headers  BY <1>1, <2>3 DEF Headers
  <2>5. disk' = [disk EXCEPT ![fd] = file]
    <3>1. disk' = [disk EXCEPT ![fd].header = header, ![fd].of = memory]
      BY <1>4 DEF WriteHeader, sizes
    <3> HIDE DEF header
    <3> QED BY <1>1, <1>3, <1>4, <3>1
  <2> HIDE DEF header
  <2>6. /\ file.header = header /\ file.of = memory /\ file.lost = disk[fd].lost
        /\ file.units = disk[fd].units /\ file \in Contents
    BY <1>1, <1>3, <1>4, <2>4 DEF Contents
  <2> HIDE DEF file
  <2>7. disk'[fd] = file /\ \A f \in Files \ {fd} : disk'[f] = disk[f]
    BY <1>1, <1>3, <1>4, <2>5
  <2>8. disk'[fd] # Null /\ header # Null  BY <2>4, <2>6, <2>7, Names
  <2> QED BY <1>2, <1>4, <2>2, <2>6, <2>7, <2>8 DEF header, sizes
<1>5. CASE ~(ok /\ fd # Null)
  <2>1. job' = [job EXCEPT !.at = "section", !.err = TRUE] /\ disk' = disk
    BY <1>5 DEF WriteHeader
  <2>2. /\ job'.at = "section" /\ job'.fd = job.fd /\ job'.temp = job.temp
        /\ job'.comp = job.comp /\ job'.err = TRUE
        /\ job'.sec = job.sec /\ job'.coder = job.coder /\ job'.buf = job.buf
        /\ job'.old = job.old /\ job'.cause = job.cause
    BY <1>1, <2>1 DEF Jobs
  <2> QED BY <1>2, <1>3, <2>1, <2>2
<1> QED BY <1>4, <1>5

(* putsave writes a section as it is.                                       *)
LEMMA WriteSectionStep ==
  ASSUME TypeOK, Hands, NEW ok \in BOOLEAN, WriteSection(ok)
  PROVE  /\ job.at = "section" /\ job'.at = "section" /\ ~job.comp /\ ~LastSection
         /\ job'.fd = job.fd /\ job'.temp = job.temp /\ job'.comp = job.comp
         /\ job'.sec = job.sec + 1 /\ job'.coder = job.coder /\ job'.buf = job.buf
         /\ job'.old = job.old /\ job'.cause = job.cause
         /\ UNCHANGED <<memory, build, saves, crashes>>
         /\ job.err => job'.err
         /\ \A f \in Files \ {job.fd} : disk'[f] = disk[f]
         /\ job.fd # Null =>
              /\ disk'[job.fd] # Null /\ disk'[job.fd].lost = disk[job.fd].lost
              /\ disk'[job.fd].header = disk[job.fd].header
              /\ disk'[job.fd].of = disk[job.fd].of \/ disk'[job.fd].of = memory
         /\ ~job'.err =>
              /\ job.fd # Null
              /\ disk'[job.fd].units = disk[job.fd].units \o Section
<1> DEFINE fd == job.fd
<1>1. job \in Jobs /\ disk \in [Files -> Contents \cup {Null}] /\ job.sec + 1 \in Nat \ {0}
  <2>1. job \in Jobs  BY DEF TypeOK
  <2>2. job.sec \in Nat  BY <2>1 DEF Jobs
  <2> QED BY <2>1, <2>2 DEF TypeOK
<1>2. job.at = "section" /\ UNCHANGED <<memory, build, saves, crashes>> /\ ~job.comp
      /\ ~LastSection
  BY DEF WriteSection, At
<1>3. fd # Null => fd \in Files /\ disk[fd] # Null
  <2>1. fd \in Temps \cup {Null}  BY <1>1 DEF Jobs
  <2>2. job.at \in WithTemp \ {"saved"}  BY <1>2 DEF WithTemp, SaveSteps
  <2> QED BY <1>1, <2>1, <2>2, Names DEF Hands
<1>4. CASE ok /\ fd # Null
  <2>1. job' = [job EXCEPT !.sec = @ + 1]  BY <1>4 DEF WriteSection
  <2>2. /\ job'.at = "section" /\ job'.fd = job.fd /\ job'.temp = job.temp
        /\ job'.comp = job.comp /\ job'.err = job.err
        /\ job'.sec = job.sec + 1 /\ job'.coder = job.coder /\ job'.buf = job.buf
        /\ job'.old = job.old /\ job'.cause = job.cause
    BY <1>1, <1>2, <2>1 DEF Jobs
  <2>3. Section \in Seq(Code)  BY <1>2, SectionType
  <2>4. disk' = Written(fd, Section)  BY <1>4 DEF WriteSection
  <2>5. fd \in Files /\ disk[fd] # Null  BY <1>3, <1>4
  <2>6. /\ \A f \in Files \ {fd} : disk'[f] = disk[f]
        /\ disk'[fd] # Null /\ disk'[fd].header = disk[fd].header
        /\ disk'[fd].lost = disk[fd].lost /\ disk'[fd].of = memory
        /\ disk'[fd].units = disk[fd].units \o Section
    BY <2>3, <2>4, <2>5, WrittenType
  <2> QED BY <1>2, <1>4, <2>2, <2>6
<1>5. CASE ~(ok /\ fd # Null)
  <2>1. job' = [job EXCEPT !.sec = @ + 1, !.err = TRUE] /\ disk' = disk
    BY <1>5 DEF WriteSection
  <2>2. /\ job'.at = "section" /\ job'.fd = job.fd /\ job'.temp = job.temp
        /\ job'.comp = job.comp /\ job'.err = TRUE
        /\ job'.sec = job.sec + 1 /\ job'.coder = job.coder /\ job'.buf = job.buf
        /\ job'.old = job.old /\ job'.cause = job.cause
    BY <1>1, <1>2, <2>1 DEF Jobs
  <2> QED BY <1>2, <1>3, <2>1, <2>2
<1> QED BY <1>4, <1>5

(* Steps that change little of the call.                                    *)
LEMMA GotoStep ==
  ASSUME TypeOK, NEW step \in Steps, Goto(step)
  PROVE  /\ job'.at = step /\ job'.fd = job.fd /\ job'.temp = job.temp /\ job'.err = job.err
         /\ job'.comp = job.comp /\ job'.sec = job.sec /\ job'.i = job.i
         /\ job'.coder = job.coder /\ job'.buf = job.buf /\ job'.out = job.out
         /\ job'.decoder = job.decoder /\ job'.cause = job.cause /\ job'.old = job.old
<1>1. job \in Jobs /\ job' = [job EXCEPT !.at = step]  BY DEF TypeOK, Goto
<1> QED BY <1>1 DEF Jobs

(* What a load that fails has in hand.                                      *)
LEMMA FailStep ==
  ASSUME TypeOK, NEW cause \in Causes, Fail(cause)
  PROVE  /\ job'.at = "failed" /\ job'.cause = cause
         /\ job'.fd = job.fd /\ job'.temp = job.temp /\ job'.err = job.err
         /\ job'.comp = job.comp /\ job'.coder = job.coder /\ job'.buf = job.buf
         /\ job'.old = job.old
<1>1. job \in Jobs /\ job' = [job EXCEPT !.at = "failed", !.cause = cause]
  BY DEF TypeOK, Fail
<1> QED BY <1>1 DEF Jobs

(* zysxi begins a save.                                                     *)
LEMMA BeginStep ==
  ASSUME TypeOK, NEW stay \in BOOLEAN, BeginSave(stay)
  PROVE  /\ job.at = "running" /\ job'.at = "open" /\ job'.fd = Null /\ job'.temp = Null
         /\ job'.comp = FALSE /\ job'.buf = <<>> /\ job'.coder = Started(0)
         /\ job'.err = FALSE /\ job'.sec = 1
         /\ job'.cause = "none" /\ job'.old = disk[Target]
         /\ memory' = [memory EXCEPT !.channels = "closed"]
         /\ UNCHANGED <<disk, build, crashes>>
<1> DEFINE quiet == Quiet("open")
           old == disk[Target]
<1>1. job' = [quiet EXCEPT !.stay = stay, !.old = old]  BY DEF BeginSave
<1>2. quiet \in Jobs  BY QuietType DEF Steps
<1>3. /\ quiet.at = "open" /\ quiet.fd = Null /\ quiet.temp = Null /\ quiet.comp = FALSE
      /\ quiet.buf = <<>> /\ quiet.coder = Started(0) /\ quiet.cause = "none"
      /\ quiet.err = FALSE /\ quiet.sec = 1
  BY DEF Quiet
<1> HIDE DEF quiet, old
<1>4. /\ job'.at = "open" /\ job'.fd = Null /\ job'.temp = Null
      /\ job'.comp = FALSE /\ job'.buf = <<>> /\ job'.coder = Started(0)
      /\ job'.err = FALSE /\ job'.sec = 1
      /\ job'.cause = "none" /\ job'.old = old
  BY <1>1, <1>2, <1>3 DEF Jobs
<1> QED BY <1>4 DEF BeginSave, At, old

(* openaout, with a name or without one.                                    *)
LEMMA OpenStep ==
  ASSUME TypeOK, NEW t \in Temps, NEW ok \in BOOLEAN, OpenTemp(t, ok) \/ NoTempName(t)
  PROVE  /\ job.at = "open" /\ job'.at = "tables" /\ job'.temp = t
         /\ job'.comp = job.comp /\ job'.coder = job.coder /\ job'.buf = job.buf
         /\ job'.sec = job.sec
         /\ job'.cause = job.cause /\ job'.old = job.old
         /\ UNCHANGED <<memory, build, saves, crashes>>
         /\ \A f \in Files \ {t} : disk'[f] = disk[f]
         /\ \/ /\ job'.fd = t /\ disk'[t] # Null
               /\ disk'[t].units = <<>> /\ disk'[t].lost = FALSE
            \/ job'.fd = job.fd /\ job'.err = TRUE /\ disk' = disk
            \/ job'.fd = Null /\ job'.err = TRUE /\ disk' = disk
<1> DEFINE file == [header |-> Null, units |-> <<>>, of |-> memory, lost |-> FALSE]
<1>1. job \in Jobs /\ disk \in [Files -> Contents \cup {Null}] /\ memory \in Memories
      /\ t \in Files
  BY Names DEF TypeOK
<1>2. CASE NoTempName(t)
  <2>1. job' = [job EXCEPT !.at = "tables", !.temp = t, !.err = TRUE] /\ disk' = disk
    BY <1>2 DEF NoTempName
  <2>2. /\ job'.at = "tables" /\ job'.temp = t /\ job'.fd = job.fd /\ job'.err = TRUE
        /\ job'.comp = job.comp /\ job'.coder = job.coder /\ job'.buf = job.buf
        /\ job'.sec = job.sec
        /\ job'.cause = job.cause /\ job'.old = job.old
    BY <1>1, <2>1 DEF Jobs
  <2> QED BY <1>2, <2>1, <2>2 DEF NoTempName, At
<1>3. CASE OpenTemp(t, ok) /\ ok
  <2>1. /\ job' = [job EXCEPT !.at = "tables", !.temp = t, !.err = ~ok, !.fd = t]
        /\ disk' = [disk EXCEPT ![t] = file]
    BY <1>3 DEF OpenTemp
  <2>2. /\ job'.at = "tables" /\ job'.temp = t /\ job'.fd = t
        /\ job'.comp = job.comp /\ job'.coder = job.coder /\ job'.buf = job.buf
        /\ job'.sec = job.sec
        /\ job'.cause = job.cause /\ job'.old = job.old
    BY <1>1, <2>1 DEF Jobs
  <2>3. file \in Contents /\ file.units = <<>> /\ file.lost = FALSE
    <3>1. <<>> \in Seq(Code)  OBVIOUS
    <3> QED BY <1>1, <3>1 DEF Contents
  <2> HIDE DEF file
  <2>4. disk'[t] = file /\ \A f \in Files \ {t} : disk'[f] = disk[f]  BY <1>1, <2>1
  <2>5. disk'[t] # Null  BY <2>3, <2>4, Names
  <2> QED BY <1>3, <2>2, <2>3, <2>4, <2>5 DEF OpenTemp, At
<1>4. CASE OpenTemp(t, ok) /\ ~ok
  <2>1. /\ job' = [job EXCEPT !.at = "tables", !.temp = t, !.err = ~ok, !.fd = Null]
        /\ disk' = disk
    BY <1>4 DEF OpenTemp
  <2>2. /\ job'.at = "tables" /\ job'.temp = t /\ job'.fd = Null
        /\ job'.comp = job.comp /\ job'.coder = job.coder /\ job'.buf = job.buf
        /\ job'.sec = job.sec
        /\ job'.cause = job.cause /\ job'.old = job.old
    BY <1>1, <2>1 DEF Jobs
  <2>3. job'.err = ~ok /\ (~ok) = TRUE  BY <1>1, <1>4, <2>1 DEF Jobs
  <2> QED BY <1>4, <2>1, <2>2, <2>3 DEF OpenTemp, At
<1> QED BY <1>2, <1>3, <1>4

(* docompress looks for room.                                               *)
LEMMA TablesStep ==
  ASSUME TypeOK, NEW room \in {"free", "extended", "none"}, Tables(room)
  PROVE  /\ job.at = "tables" /\ job'.at = "header"
         /\ job'.comp \in BOOLEAN /\ (~job'.comp => memory'.extra = 0)
         /\ job'.fd = job.fd /\ job'.temp = job.temp /\ job'.err = job.err
         /\ job'.coder = job.coder /\ job'.buf = job.buf /\ job'.sec = job.sec
         /\ job'.cause = job.cause /\ job'.old = job.old
         /\ memory'.relative = TRUE /\ memory'.channels = memory.channels
         /\ UNCHANGED <<disk, build, saves, crashes>>
<1> DEFINE comp == room # "none"
<1>1. job \in Jobs /\ memory \in Memories  BY DEF TypeOK
<1>2. job' = [job EXCEPT !.at = "header", !.comp = comp]  BY DEF Tables
<1>3. comp \in BOOLEAN  OBVIOUS
<1>4. memory' = [memory EXCEPT !.relative = TRUE,
                               !.extra = IF room = "extended" THEN 1 ELSE 0]
  BY DEF Tables
<1>5. /\ memory'.relative = TRUE /\ memory'.channels = memory.channels
      /\ memory'.extra = IF room = "extended" THEN 1 ELSE 0
  BY <1>1, <1>4 DEF Memories
<1>6. ~comp => memory'.extra = 0  BY <1>5
<1> HIDE DEF comp
<1>7. /\ job'.at = "header" /\ job'.comp = comp
      /\ job'.fd = job.fd /\ job'.temp = job.temp /\ job'.err = job.err
      /\ job'.coder = job.coder /\ job'.buf = job.buf /\ job'.sec = job.sec
      /\ job'.cause = job.cause /\ job'.old = job.old
  BY <1>1, <1>2 DEF Jobs
<1>8. job.at = "tables" /\ UNCHANGED <<disk, build, saves, crashes>>  BY DEF Tables, At
<1>9. ~job'.comp => memory'.extra = 0  BY <1>6, <1>7, Zenon
<1>10. job'.comp \in BOOLEAN  BY <1>3, <1>7, Zenon
<1> QED BY <1>5, <1>7, <1>8, <1>9, <1>10

(* compress begins a section.                                               *)
LEMMA FirstCharStep ==
  ASSUME TypeOK, FirstChar
  PROVE  /\ job.at = "section" /\ ~LastSection /\ job.comp
         /\ job'.fd = job.fd /\ job'.temp = job.temp /\ job'.err = job.err
         /\ job'.comp = job.comp /\ job'.buf = job.buf
         /\ job'.cause = job.cause /\ job'.old = job.old
         /\ UNCHANGED <<memory, disk, build, faults, saves, crashes>>
         /\ \/ /\ Section = <<>> /\ job'.at = "section" /\ job'.sec = job.sec + 1
               /\ job'.coder = job.coder
            \/ /\ Section # <<>> /\ job'.at = "char" /\ job'.sec = job.sec /\ job'.i = 2
               /\ job'.coder = Started(Section[1]) /\ Section[1] \in Character
<1>1. job \in Jobs  BY DEF TypeOK
<1>2. job.at = "section" /\ ~LastSection /\ job.comp
      /\ UNCHANGED <<memory, disk, build, faults, saves, crashes>>
  BY DEF FirstChar, At
<1>3. CASE Section = <<>>
  <2>1. job' = [job EXCEPT !.sec = @ + 1]  BY <1>3 DEF FirstChar
  <2>2. /\ job'.fd = job.fd /\ job'.temp = job.temp /\ job'.err = job.err
        /\ job'.comp = job.comp /\ job'.buf = job.buf
        /\ job'.cause = job.cause /\ job'.old = job.old
        /\ job'.at = job.at /\ job'.sec = job.sec + 1 /\ job'.coder = job.coder
    BY <1>1, <2>1 DEF Jobs
  <2> QED BY <1>2, <1>3, <2>2
<1>4. CASE Section # <<>>
  <2>1. job' = [job EXCEPT !.at = "char", !.i = 2, !.coder = Started(Section[1])]
    BY <1>4 DEF FirstChar
  <2>2. /\ job'.fd = job.fd /\ job'.temp = job.temp /\ job'.err = job.err
        /\ job'.comp = job.comp /\ job'.buf = job.buf
        /\ job'.cause = job.cause /\ job'.old = job.old
        /\ job'.at = "char" /\ job'.sec = job.sec /\ job'.i = 2
        /\ job'.coder = Started(Section[1])
    BY <1>1, <2>1 DEF Jobs
  <2>3. Section[1] \in Character
    <3>1. Section \in Seq(Character)  BY <1>2, SectionType
    <3> QED BY <1>4, <3>1
  <2> QED BY <1>2, <1>4, <2>2, <2>3
<1> QED BY <1>3, <1>4

(* compress reads on.                                                       *)
LEMMA CharMatchedStep ==
  ASSUME TypeOK, CharMatched
  PROVE  /\ job.at = "char" /\ job'.at = "char" /\ job.i <= Len(Section)
         /\ Extends(job.coder, Section[job.i]) /\ job'.sec = job.sec
         /\ job'.i = job.i + 1 /\ job'.coder = Longer(job.coder, Section[job.i])
         /\ job'.fd = job.fd /\ job'.temp = job.temp /\ job'.err = job.err
         /\ job'.comp = job.comp /\ job'.buf = job.buf
         /\ job'.cause = job.cause /\ job'.old = job.old
         /\ job'.coder.table = job.coder.table
         /\ UNCHANGED <<memory, disk, build, faults, saves, crashes>>
<1>1. job \in Jobs /\ job.coder \in Coder
  <2>1. job \in Jobs  BY DEF TypeOK
  <2> QED BY <2>1 DEF Jobs
<1> DEFINE longer == Longer(job.coder, Section[job.i])
<1>2. longer.table = job.coder.table  BY <1>1 DEF Longer, Coder
<1>3. job' = [job EXCEPT !.i = @ + 1, !.coder = longer]  BY DEF CharMatched
<1>4. job.at = "char" /\ job.i <= Len(Section) /\ Extends(job.coder, Section[job.i])
      /\ UNCHANGED <<memory, disk, build, faults, saves, crashes>>
  BY DEF CharMatched, At
<1> HIDE DEF longer
<1>5. /\ job'.at = job.at /\ job'.sec = job.sec /\ job'.i = job.i + 1 /\ job'.coder = longer
      /\ job'.fd = job.fd /\ job'.temp = job.temp /\ job'.err = job.err
      /\ job'.comp = job.comp /\ job'.buf = job.buf
      /\ job'.cause = job.cause /\ job'.old = job.old
  BY <1>1, <1>3 DEF Jobs
<1> QED BY <1>2, <1>4, <1>5 DEF longer

(* closeaout unlinks the old file, or cannot.                               *)
LEMMA UnlinkStep ==
  ASSUME TypeOK, Unlinking
  PROVE  /\ job.at = "unlink" /\ Goto("rename") /\ "rename" \in Steps
         /\ UNCHANGED <<memory, build, saves, crashes>>
         /\ disk'[Target] = Null \/ disk'[Target] = disk[Target]
         /\ \A f \in Files \ {Target} : disk'[f] = disk[f]
<1>1. disk \in [Files -> Contents \cup {Null}]  BY DEF TypeOK
<1>2. PICK ok \in BOOLEAN : Unlink(ok)  BY DEF Unlinking
<1>3. /\ job.at = "unlink" /\ Goto("rename") /\ "rename" \in Steps
      /\ UNCHANGED <<memory, build, saves, crashes>>
  BY <1>2 DEF Unlink, At, Steps
<1>4. disk' = [disk EXCEPT ![Target] = Null] \/ disk' = disk  BY <1>2 DEF Unlink
<1> QED BY <1>1, <1>3, <1>4, Names

(* closeaout renames the file, or cannot.                                   *)
LEMMA RenameStep ==
  ASSUME TypeOK, Hands, Renaming
  PROVE  /\ job.at = "rename" /\ job.temp \in Temps /\ disk[job.temp] # Null
         /\ job'.fd = job.fd /\ job'.temp = job.temp
         /\ job'.comp = job.comp /\ job'.buf = job.buf /\ job'.coder = job.coder
         /\ job'.old = job.old
         /\ UNCHANGED <<memory, build, saves, crashes>>
         /\ \/ /\ job'.at = "saved" /\ job'.err = job.err /\ job'.cause = job.cause
               /\ disk'[Target] = disk[job.temp] /\ disk'[job.temp] = Null
               /\ \A f \in Files \ {Target, job.temp} : disk'[f] = disk[f]
            \/ /\ job'.at = "discard" /\ job'.err = TRUE /\ job'.cause = "rename"
               /\ disk' = disk
<1>1. job \in Jobs /\ disk \in [Files -> Contents \cup {Null}]  BY DEF TypeOK
<1>2. job.at = "rename" /\ UNCHANGED <<memory, build, saves, crashes>>
  BY DEF Renaming, Rename, RenameFails, At
<1>3. job.temp \in Temps /\ disk[job.temp] # Null /\ job.temp # Target
  <2>1. job.temp \in Temps \cup {Null}  BY <1>1 DEF Jobs
  <2>2. job.temp # Null /\ job.fd # Null /\ disk[job.fd] # Null /\ job.fd = job.temp
    BY <1>2 DEF Hands, WithTemp, SaveSteps
  <2> QED BY <2>1, <2>2, Names
<1>4. CASE Rename
  <2>1. /\ job' = [job EXCEPT !.at = "saved"]
        /\ disk' = [disk EXCEPT ![Target] = disk[job.temp], ![job.temp] = Null]
    BY <1>4 DEF Rename, Goto
  <2>2. /\ job'.at = "saved" /\ job'.err = job.err /\ job'.cause = job.cause
        /\ job'.fd = job.fd /\ job'.temp = job.temp
        /\ job'.comp = job.comp /\ job'.buf = job.buf /\ job'.coder = job.coder
        /\ job'.old = job.old
    BY <1>1, <2>1 DEF Jobs
  <2>3. /\ disk'[Target] = disk[job.temp] /\ disk'[job.temp] = Null
        /\ \A f \in Files \ {Target, job.temp} : disk'[f] = disk[f]
    BY <1>1, <1>3, <2>1, Names
  <2> QED BY <1>2, <1>3, <2>2, <2>3
<1>5. CASE RenameFails
  <2>1. /\ job' = [job EXCEPT !.at = "discard", !.err = TRUE, !.cause = "rename"]
        /\ disk' = disk
    BY <1>5 DEF RenameFails
  <2>2. /\ job'.at = "discard" /\ job'.err = TRUE /\ job'.cause = "rename"
        /\ job'.fd = job.fd /\ job'.temp = job.temp
        /\ job'.comp = job.comp /\ job'.buf = job.buf /\ job'.coder = job.coder
        /\ job'.old = job.old
    BY <1>1, <2>1 DEF Jobs
  <2> QED BY <1>2, <1>3, <2>1, <2>2
<1>6. Rename \/ RenameFails  BY DEF Renaming
<1> QED BY <1>4, <1>5, <1>6, Zenon

-----------------------------------------------------------------------------
(* The steps after which no call is in progress, or one that only begins to *)
(* look for a save file.                                                    *)
Closing ==
  \/ \E ok \in BOOLEAN : Chain(ok)
  \/ EndProgram \/ Crash \/ Saved \/ Restart \/ LoadFailed \/ Discard
  \/ \E b \in Builds : Start(b)

(* What a process has in hand after them: nothing.                          *)
LEMMA ClosingStep ==
  ASSUME Closing
  PROVE  /\ job'.at \in {"running", "stopped", "peek"}
         /\ job'.fd = Null /\ job'.temp = Null /\ job'.err = FALSE /\ job'.comp = FALSE
         /\ job'.sec = 1 /\ job'.i = 1 /\ job'.coder = Started(0) /\ job'.buf = <<>>
         /\ job'.out = <<>> /\ job'.decoder = FirstRead(0)
         /\ job'.cause = "none" /\ job'.old = Null
<1>1. PICK at \in {"running", "stopped", "peek"} : job' = Quiet(at)
  BY DEF Closing, Chain, DoExec, EndProgram, Crash, Saved, Restart, LoadFailed, Discard, Start
<1> QED BY <1>1 DEF Quiet

(* The steps of a process that loads a save file.                           *)
LoadingOf ==
  \/ \E ok \in BOOLEAN : \/ CheckHeader(ok) \/ GetMemory(ok) \/ ReadSection(ok)
                        \/ \E extended \in BOOLEAN : Expansion(extended, ok)
  \/ ReadingFirst \/ ReadCode \/ ReadingEnd \/ FindFunctions

(* A load touches neither the disk nor the files in hand.                   *)
LEMMA LoadingStep ==
  ASSUME TypeOK, LoadingOf
  PROVE  /\ job.at \in LoadSteps /\ job'.at \in LoadSteps
         /\ job'.fd = job.fd /\ job'.temp = job.temp /\ job'.err = job.err
         /\ job'.comp = job.comp /\ job'.coder = job.coder /\ job'.buf = job.buf
         /\ job'.old = job.old
         /\ UNCHANGED <<disk, build, saves, crashes>>
<1>1. job \in Jobs  BY DEF TypeOK
<1>2. job.at \in LoadSteps /\ UNCHANGED <<disk, build, saves, crashes>>
  BY DEF LoadingOf, CheckHeader, GetMemory, ReadSection, Expansion, ReadingFirst, ReadFirst,
         ReadCode, ReadingEnd, ReadEnd, FindFunctions, At, LoadSteps
<1>3. CASE \/ \E cause \in Causes : Fail(cause)
           \/ \E step \in {"memory", "expansion", "load", "restart"} : Goto(step)
  <2>1. \/ job'.at = "failed"
        \/ job'.at \in {"memory", "expansion", "load", "restart"}
    BY <1>1, <1>3 DEF Fail, Goto, Jobs
  <2>2. /\ job'.fd = job.fd /\ job'.temp = job.temp /\ job'.err = job.err
        /\ job'.comp = job.comp /\ job'.coder = job.coder /\ job'.buf = job.buf
        /\ job'.old = job.old
    BY <1>1, <1>3 DEF Fail, Goto, Jobs
  <2> QED BY <1>2, <2>1, <2>2 DEF LoadSteps
<1>4. CASE \E ok \in BOOLEAN : \/ CheckHeader(ok) \/ GetMemory(ok)
                              \/ \E extended \in BOOLEAN : Expansion(extended, ok)
  <2>1. \/ \E cause \in Causes : Fail(cause)
        \/ \E step \in {"memory", "expansion", "load", "restart"} : Goto(step)
    BY <1>4 DEF CheckHeader, GetMemory, Expansion, Causes
  <2> QED BY <1>3, <2>1
<1>5. CASE FindFunctions  BY <1>3, <1>5 DEF FindFunctions, Causes
<1>6. CASE \E ok \in BOOLEAN : ReadSection(ok)
  <2> DEFINE out == Append(job.out, SubSeq(Saving.units, job.i, job.i + Wanted - 1))
  <2>1. \/ \E cause \in Causes : Fail(cause)
        \/ job' = [job EXCEPT !.sec = @ + 1, !.i = @ + Wanted, !.out = out]
    BY <1>6 DEF ReadSection, Causes
  <2>2. job.at = "load"  BY <1>6 DEF ReadSection, At
  <2> HIDE DEF out
  <2>3. CASE job' = [job EXCEPT !.sec = @ + 1, !.i = @ + Wanted, !.out = out]
    <3>1. /\ job'.at = job.at
          /\ job'.fd = job.fd /\ job'.temp = job.temp /\ job'.err = job.err
          /\ job'.comp = job.comp /\ job'.coder = job.coder /\ job'.buf = job.buf
          /\ job'.old = job.old
      BY <1>1, <2>3 DEF Jobs
    <3> QED BY <1>2, <3>1
  <2> QED BY <1>3, <2>1, <2>3
<1>7. CASE ReadingFirst
  <2>1. PICK ok \in BOOLEAN, heap \in Heaps : ReadFirst(ok, heap)  BY <1>7 DEF ReadingFirst
  <2> DEFINE out == Append(job.out, <<InputCode(ok) % FirstCode>>)
             decoder == FirstDecoder(InputCode(ok), heap)
             place == InputPlace(ok)
             misread == job.misread \/ ~ok
  <2>2. job' = [job EXCEPT !.at = "codes", !.i = place, !.decoder = decoder, !.out = out,
                           !.misread = misread]
    BY <2>1 DEF ReadFirst
  <2> HIDE DEF out, decoder, place, misread
  <2>3. /\ job'.at = "codes"
        /\ job'.fd = job.fd /\ job'.temp = job.temp /\ job'.err = job.err
        /\ job'.comp = job.comp /\ job'.coder = job.coder /\ job'.buf = job.buf
        /\ job'.old = job.old
    BY <1>1, <2>2 DEF Jobs
  <2> QED BY <1>2, <2>3 DEF LoadSteps
<1>8. CASE ReadCode
  <2> DEFINE string == Decoded(job.decoder, Unit(job.i), DecodeLimit)
             out == [job.out EXCEPT ![job.sec] = @ \o string]
             decoder == Read(job.decoder, Unit(job.i), string)
  <2>1. \/ \E cause \in Causes : Fail(cause)
        \/ job' = [job EXCEPT !.i = @ + 1, !.decoder = decoder, !.out[job.sec] = @ \o string]
    BY <1>8 DEF ReadCode, Causes
  <2>2. job.at = "codes"  BY <1>8 DEF ReadCode, At
  <2> HIDE DEF decoder, string
  <2>3. CASE job' = [job EXCEPT !.i = @ + 1, !.decoder = decoder, !.out[job.sec] = @ \o string]
    <3>1. /\ job'.at = job.at
          /\ job'.fd = job.fd /\ job'.temp = job.temp /\ job'.err = job.err
          /\ job'.comp = job.comp /\ job'.coder = job.coder /\ job'.buf = job.buf
          /\ job'.old = job.old
      BY <1>1, <2>3 DEF Jobs
    <3> QED BY <1>2, <3>1
  <2> QED BY <1>3, <2>1, <2>3
<1>9. CASE ReadingEnd
  <2>1. PICK ok \in BOOLEAN : ReadEnd(ok)  BY <1>9 DEF ReadingEnd
  <2> DEFINE place == InputPlace(ok)
             misread == job.misread \/ ~ok
             step == [job EXCEPT !.at = "load", !.i = place, !.sec = @ + 1, !.misread = misread]
  <2>2. \/ \E cause \in Causes : Fail(cause)
        \/ job' = step
    BY <2>1 DEF ReadEnd, Causes
  <2> HIDE DEF place, misread
  <2>3. CASE job' = step
    <3>1. /\ job'.at = "load"
          /\ job'.fd = job.fd /\ job'.temp = job.temp /\ job'.err = job.err
          /\ job'.comp = job.comp /\ job'.coder = job.coder /\ job'.buf = job.buf
          /\ job'.old = job.old
      BY <1>1, <2>3 DEF Jobs
    <3> QED BY <1>2, <3>1 DEF LoadSteps
  <2> QED BY <1>3, <2>2, <2>3
<1> QED BY <1>4, <1>5, <1>6, <1>7, <1>8, <1>9 DEF LoadingOf

(* An error of a read is not forgotten before the load is over.             *)
LEMMA MisreadStays ==
  ASSUME TypeOK, LoadingOf, job.misread
  PROVE  job'.misread
<1>1. job \in Jobs  BY DEF TypeOK
<1>2. CASE ReadingFirst
  <2>1. PICK ok \in BOOLEAN, heap \in Heaps : ReadFirst(ok, heap)  BY <1>2 DEF ReadingFirst
  <2> DEFINE out == Append(job.out, <<InputCode(ok) % FirstCode>>)
             decoder == FirstDecoder(InputCode(ok), heap)
             place == InputPlace(ok)
             misread == job.misread \/ ~ok
  <2>2. job' = [job EXCEPT !.at = "codes", !.i = place, !.decoder = decoder, !.out = out,
                           !.misread = misread]
    BY <2>1 DEF ReadFirst
  <2>3. misread  OBVIOUS
  <2> HIDE DEF out, decoder, place, misread
  <2>4. job'.misread = misread  BY <1>1, <2>2 DEF Jobs
  <2> QED BY <2>3, <2>4, Zenon
<1>3. CASE ReadingEnd
  <2>1. PICK ok \in BOOLEAN : ReadEnd(ok)  BY <1>3 DEF ReadingEnd
  <2> DEFINE place == InputPlace(ok)
             misread == job.misread \/ ~ok
  <2>2. \/ \E cause \in Causes : Fail(cause)
        \/ job' = [job EXCEPT !.at = "load", !.i = place, !.sec = @ + 1, !.misread = misread]
    BY <2>1 DEF ReadEnd, Causes
  <2>3. misread  OBVIOUS
  <2> HIDE DEF place, misread
  <2>4. job'.misread = misread \/ job'.misread = job.misread  BY <1>1, <2>2 DEF Fail, Jobs
  <2> QED BY <2>3, <2>4, Zenon
<1>4. CASE ReadCode
  <2> DEFINE string == Decoded(job.decoder, Unit(job.i), DecodeLimit)
             decoder == Read(job.decoder, Unit(job.i), string)
  <2>1. \/ \E cause \in Causes : Fail(cause)
        \/ job' = [job EXCEPT !.i = @ + 1, !.decoder = decoder, !.out[job.sec] = @ \o string]
    BY <1>4 DEF ReadCode, Causes
  <2> HIDE DEF decoder, string
  <2>2. job'.misread = job.misread  BY <1>1, <2>1 DEF Fail, Jobs
  <2> QED BY <2>2, Zenon
<1>5. CASE \E ok \in BOOLEAN : ReadSection(ok)
  <2> DEFINE out == Append(job.out, SubSeq(Saving.units, job.i, job.i + Wanted - 1))
  <2>1. \/ \E cause \in Causes : Fail(cause)
        \/ job' = [job EXCEPT !.sec = @ + 1, !.i = @ + Wanted, !.out = out]
    BY <1>5 DEF ReadSection, Causes
  <2> HIDE DEF out
  <2>2. job'.misread = job.misread  BY <1>1, <2>1 DEF Fail, Jobs
  <2> QED BY <2>2, Zenon
<1>6. CASE \/ FindFunctions
           \/ \E ok \in BOOLEAN : \/ CheckHeader(ok) \/ GetMemory(ok)
                                 \/ \E extended \in BOOLEAN : Expansion(extended, ok)
  <2>1. \/ \E cause \in Causes : Fail(cause)
        \/ \E step \in {"memory", "expansion", "load", "restart"} : Goto(step)
    BY <1>6 DEF CheckHeader, GetMemory, Expansion, FindFunctions, Causes
  <2>2. job'.misread = job.misread  BY <1>1, <2>1 DEF Fail, Goto, Jobs
  <2> QED BY <2>2, Zenon
<1> QED BY <1>2, <1>3, <1>4, <1>5, <1>6 DEF LoadingOf

(* The steps of a save but the last ones.                                   *)
Storing ==
  \/ \E ok \in BOOLEAN : \/ WriteSection(ok) \/ CharUnmatched(ok) \/ LastCode(ok)
                        \/ EndCode(ok) \/ Pad(ok) \/ Drain(ok)
  \/ FirstChar \/ CharMatched \/ NotCompressed

Leading ==
  \/ \E t \in Temps : NoTempName(t) \/ \E ok \in BOOLEAN : OpenTemp(t, ok)
  \/ \E room \in {"free", "extended", "none"} : Tables(room)
  \/ \E ok \in BOOLEAN : WriteHeader(ok)

(* Every step is one of these.                                              *)
LEMMA StepCases ==
  ASSUME [Next]_vars
  PROVE  \/ UNCHANGED vars
         \/ \E s \in Edits, f \in 0..1 : Run(s, f)
         \/ Closing
         \/ \E stay \in BOOLEAN : BeginSave(stay)
         \/ Leading
         \/ Storing
         \/ Rereloc \/ Unlinking \/ Renaming
         \/ LoadingOf
BY DEF Next, Closing, Leading, Storing, LoadingOf, Unlinking, Renaming, ReadingFirst, ReadingEnd

(* What the call has in its hands stays consistent.                         *)
LEMMA HandsClosing ==
  ASSUME Closing
  PROVE  Hands'
<1>1. /\ job'.at \in {"running", "stopped", "peek"}
      /\ job'.fd = Null /\ job'.temp = Null /\ job'.comp = FALSE
      /\ job'.coder = Started(0) /\ job'.buf = <<>>
  BY ClosingStep
<1>2. NextCode(job'.coder.table) <= MaxCode  BY <1>1, StartedType, CodeNumbers
<1>3. /\ ~job'.comp
      /\ job'.at \notin WithTemp /\ job'.at \notin Packing /\ job'.at \notin {"unlink", "rename"}
      /\ job'.at \notin {"char", "end"}
  BY <1>1, Zenon DEF WithTemp, SaveSteps, Packing
<1> QED BY <1>1, <1>2, <1>3, Zenon DEF Hands

(* The first steps of a save keep Hands.                                    *)
LEMMA HandsLeading ==
  ASSUME TypeOK, Hands,
         (\E stay \in BOOLEAN : BeginSave(stay)) \/ Leading
  PROVE  Hands'
<1>1. ASSUME NEW stay \in BOOLEAN, BeginSave(stay) PROVE Hands'
  <2>1. job'.at = "open" /\ job'.fd = Null /\ job'.temp = Null
        /\ job'.comp = FALSE /\ job'.buf = <<>> /\ job'.coder = Started(0)
    BY <1>1, BeginStep
  <2>2. NextCode(job'.coder.table) <= MaxCode  BY <2>1, StartedType, CodeNumbers
  <2> QED BY <2>1, <2>2, Zenon DEF Hands, WithTemp, SaveSteps, Packing
<1>2. ASSUME NEW t \in Temps, NEW ok \in BOOLEAN, OpenTemp(t, ok) \/ NoTempName(t)
      PROVE  Hands'
  <2>1. /\ job.at = "open" /\ job'.at = "tables" /\ job'.temp = t
        /\ job'.comp = job.comp /\ job'.coder = job.coder /\ job'.buf = job.buf
        /\ \/ job'.fd = t /\ disk'[t] # Null
           \/ job'.fd = job.fd /\ job'.err = TRUE
           \/ job'.fd = Null /\ job'.err = TRUE
    BY <1>2, OpenStep
  <2>2. job.temp = Null /\ job.fd = Null /\ ~job.comp
    BY <2>1, Zenon DEF Hands, WithTemp, SaveSteps, Packing
  <2>3. /\ job'.fd \in {Null, job'.temp}
        /\ job'.fd = Null => job'.err
        /\ job'.fd # Null => disk'[job'.fd] # Null
        /\ job'.temp # Null /\ ~job'.comp /\ job'.buf = <<>>
    BY <2>1, <2>2, Names, Zenon DEF Hands
  <2>4. NextCode(job'.coder.table) <= MaxCode  BY <2>1 DEF Hands
  <2> QED BY <2>1, <2>3, <2>4, Zenon DEF Hands, WithTemp, SaveSteps, Packing
<1>3. ASSUME NEW room \in {"free", "extended", "none"}, Tables(room) PROVE Hands'
  <2>1. /\ job.at = "tables" /\ job'.at = "header"
        /\ job'.fd = job.fd /\ job'.temp = job.temp /\ job'.err = job.err
        /\ job'.coder = job.coder /\ job'.buf = job.buf
        /\ disk' = disk
    BY <1>3, TablesStep
  <2>2. job.temp # Null /\ ~job.comp /\ job.buf = <<>>
        /\ (job.fd = Null => job.err) /\ (job.fd # Null => disk[job.fd] # Null)
        /\ job.fd \in {Null, job.temp}
    BY <2>1, Zenon DEF Hands, WithTemp, SaveSteps, Packing
  <2>4. NextCode(job'.coder.table) <= MaxCode  BY <2>1 DEF Hands
  <2> QED BY <2>1, <2>2, <2>4, Zenon DEF Hands, WithTemp, SaveSteps, Packing
<1>4. ASSUME NEW ok \in BOOLEAN, WriteHeader(ok) PROVE Hands'
  <2>1. /\ job.at = "header" /\ job'.at = "section"
        /\ job'.fd = job.fd /\ job'.temp = job.temp /\ (job.err => job'.err)
        /\ job'.coder = job.coder /\ job'.buf = job.buf /\ job'.comp = job.comp
        /\ (job.fd # Null => disk'[job.fd] # Null)
    BY <1>4, WriteHeaderStep
  <2>2. job.temp # Null /\ (~job.comp => job.buf = <<>>)
        /\ (job.fd = Null => job.err) /\ job.fd \in {Null, job.temp}
    BY <2>1, Zenon DEF Hands, WithTemp, SaveSteps, Packing
  <2>4. NextCode(job'.coder.table) <= MaxCode  BY <2>1 DEF Hands
  <2> QED BY <2>1, <2>2, <2>4, Zenon DEF Hands, WithTemp, SaveSteps, Packing
<1> QED BY <1>1, <1>2, <1>3, <1>4 DEF Leading

(* The steps that write sections keep Hands.                                *)
LEMMA HandsStoring ==
  ASSUME TypeOK, Hands, Storing
  PROVE  Hands'
<1>1. ASSUME job.at \in {"section", "char", "end", "drain"},
             job'.at \in {"section", "char", "end", "drain"},
             job'.fd = job.fd, job'.temp = job.temp, job.err => job'.err, job'.comp = job.comp,
             job.fd # Null => disk'[job.fd] # Null,
             job'.at \in Packing => job.comp,
             ~job.comp => job'.buf = <<>>,
             job'.at \in {"char", "end"} =>
               job'.sec <= Len(SectionsOf(memory)) /\ Section' # <<>>,
             memory' = memory,
             NextCode(job'.coder.table) <= MaxCode
      PROVE  Hands'
  <2>1. job.at \in WithTemp \ {"saved"} /\ job'.at \in WithTemp \ {"saved"}
        /\ job'.at \notin {"unlink", "rename"} /\ job'.at \in Packing \cup {"header", "section"}
    BY <1>1, Zenon DEF WithTemp, SaveSteps, Packing
  <2>2. job.temp # Null /\ (job.fd = Null => job.err) /\ job.fd \in {Null, job.temp}
    BY <2>1, Zenon DEF Hands
  <2>3. job'.temp # Null /\ job'.fd \in {Null, job'.temp} /\ (job'.fd = Null => job'.err)
        /\ (job'.fd # Null => disk'[job'.fd] # Null)
    BY <1>1, <2>2, Zenon
  <2>4. job'.at \in {"char", "end"} =>
               job'.sec <= Len(SectionsOf(memory')) /\ Section' # <<>>
    BY <1>1, Zenon
  <2>5. (job'.at \in Packing => job'.comp) /\ (~job'.comp => job'.buf = <<>>)
    BY <1>1, Zenon
  <2> QED BY <1>1, <2>1, <2>3, <2>4, <2>5, Zenon DEF Hands
<1>2. ASSUME job.at \in {"section", "char", "end", "drain"}
      PROVE  /\ job.temp # Null /\ (job.fd = Null => job.err) /\ job.fd \in {Null, job.temp}
             /\ job.fd # Null => disk[job.fd] # Null
             /\ job.at # "section" => job.comp
             /\ job.at \in {"char", "end"} =>
                  job.sec <= Len(SectionsOf(memory)) /\ Section # <<>>
             /\ ~job.comp => job.buf = <<>>
             /\ NextCode(job.coder.table) <= MaxCode
  <2>1. job.at \in WithTemp \ {"saved"} /\ (job.at # "section" => job.at \in Packing)
    BY <1>2, Zenon DEF WithTemp, SaveSteps, Packing
  <2> QED BY <2>1, Zenon DEF Hands
<1>3. ASSUME NEW ok \in BOOLEAN, WriteSection(ok) PROVE Hands'
  <2>1. /\ job.at = "section" /\ job'.at = "section" /\ ~job.comp
        /\ job'.fd = job.fd /\ job'.temp = job.temp /\ job'.comp = job.comp
        /\ job'.coder = job.coder /\ job'.buf = job.buf
        /\ memory' = memory /\ (job.err => job'.err)
        /\ job.fd # Null => disk'[job.fd] # Null
    BY <1>3, WriteSectionStep
  <2>2. job'.buf = <<>> /\ NextCode(job'.coder.table) <= MaxCode /\ job'.at \notin Packing
        /\ job'.at \notin {"char", "end"}
    BY <1>2, <2>1, Zenon DEF Packing
  <2> QED BY <1>1, <2>1, <2>2, Zenon
<1>4. ASSUME NEW ok \in BOOLEAN, CharUnmatched(ok) PROVE Hands'
  <2>1. /\ job.at = "char" /\ job'.at = "char" /\ job'.sec = job.sec
        /\ NextCode(job'.coder.table) <= MaxCode
        /\ job'.fd = job.fd /\ job'.temp = job.temp /\ job'.err = job.err /\ job'.comp = job.comp
        /\ memory' = memory /\ (job.fd # Null => disk'[job.fd] # Null)
    BY <1>4, CharUnmatchedStep DEF Held, Packed
  <2>2. Section' = Section  BY <2>1 DEF Section, SectionsOf
  <2> QED BY <1>1, <1>2, <2>1, <2>2, Zenon
<1>5. ASSUME NEW ok \in BOOLEAN, LastCode(ok) PROVE Hands'
  <2>1. /\ job.at = "char" /\ job'.at = "end" /\ job'.sec = job.sec
        /\ NextCode(job'.coder.table) <= MaxCode
        /\ job'.fd = job.fd /\ job'.temp = job.temp /\ job'.err = job.err /\ job'.comp = job.comp
        /\ memory' = memory /\ (job.fd # Null => disk'[job.fd] # Null)
    BY <1>5, LastCodeStep DEF Held, Packed
  <2>2. Section' = Section  BY <2>1 DEF Section, SectionsOf
  <2> QED BY <1>1, <1>2, <2>1, <2>2, Zenon
<1>6. ASSUME NEW ok \in BOOLEAN, EndCode(ok) PROVE Hands'
  <2>1. /\ job.at = "end" /\ job'.at = "section"
        /\ NextCode(job'.coder.table) <= MaxCode
        /\ job'.fd = job.fd /\ job'.temp = job.temp /\ job'.err = job.err /\ job'.comp = job.comp
        /\ memory' = memory /\ (job.fd # Null => disk'[job.fd] # Null)
    BY <1>6, EndCodeStep DEF Held, Packed
  <2> QED BY <1>1, <1>2, <2>1, Zenon
<1>7. ASSUME NEW ok \in BOOLEAN, Pad(ok) PROVE Hands'
  <2>1. /\ job.at = "section" /\ job.comp /\ job'.at = "drain"
        /\ NextCode(job'.coder.table) <= MaxCode
        /\ job'.fd = job.fd /\ job'.temp = job.temp /\ job'.err = job.err /\ job'.comp = job.comp
        /\ memory' = memory /\ (job.fd # Null => disk'[job.fd] # Null)
    BY <1>7, PadStep DEF Held, Packed
  <2> QED BY <1>1, <1>2, <2>1, Zenon
<1>8. ASSUME NEW ok \in BOOLEAN, Drain(ok) PROVE Hands'
  <2>1. /\ job.at = "drain" /\ job'.at = "rereloc" /\ job'.buf = <<>> /\ job'.comp = FALSE
        /\ job'.fd = job.fd /\ job'.temp = job.temp /\ job'.err = job.err
        /\ job'.coder = job.coder
        /\ (job.fd # Null => disk'[job.fd] # Null)
    BY <1>8, DrainStep
  <2>2. NextCode(job'.coder.table) <= MaxCode  BY <1>2, <2>1, Zenon
  <2>3. job'.temp # Null /\ job'.fd \in {Null, job'.temp} /\ (job'.fd = Null => job'.err)
        /\ (job'.fd # Null => disk'[job'.fd] # Null)
    BY <1>2, <2>1, Zenon
  <2> QED BY <2>1, <2>2, <2>3, Zenon DEF Hands, WithTemp, SaveSteps, Packing
<1>9. CASE NotCompressed
  <2>1. job.at = "section" /\ ~job.comp /\ Goto("rereloc") /\ disk' = disk /\ "rereloc" \in Steps
    BY <1>9 DEF NotCompressed, At, Steps
  <2>2. /\ job'.at = "rereloc" /\ job'.buf = job.buf /\ job'.comp = job.comp
        /\ job'.fd = job.fd /\ job'.temp = job.temp /\ job'.err = job.err
        /\ job'.coder = job.coder
    BY <2>1, GotoStep
  <2>3. job'.temp # Null /\ job'.fd \in {Null, job'.temp} /\ (job'.fd = Null => job'.err)
        /\ (job'.fd # Null => disk'[job'.fd] # Null) /\ job'.buf = <<>>
        /\ NextCode(job'.coder.table) <= MaxCode
    BY <1>2, <2>1, <2>2, Zenon
  <2> QED BY <2>1, <2>2, <2>3, Zenon DEF Hands, WithTemp, SaveSteps, Packing
<1>10. CASE FirstChar
  <2>1. /\ job.at = "section" /\ ~LastSection /\ job.comp
        /\ job'.fd = job.fd /\ job'.temp = job.temp /\ job'.err = job.err
        /\ job'.comp = job.comp /\ job'.buf = job.buf
        /\ disk' = disk /\ memory' = memory
        /\ \/ job'.at = "section" /\ job'.coder = job.coder
           \/ /\ Section # <<>> /\ job'.at = "char" /\ job'.sec = job.sec
              /\ job'.coder = Started(Section[1]) /\ Section[1] \in Character
    BY <1>10, FirstCharStep
  <2>2. NextCode(job'.coder.table) <= MaxCode  BY <1>2, <2>1, StartedType
  <2>3. job'.at \in {"char", "end"} => job'.sec <= Len(SectionsOf(memory)) /\ Section' # <<>>
    <3>1. ASSUME job'.at = "char" PROVE job'.sec <= Len(SectionsOf(memory)) /\ Section' # <<>>
      <4>1. job'.sec = job.sec /\ Section # <<>>  BY <2>1, <3>1, Zenon
      <4>2. Section' = Section  BY <2>1, <4>1 DEF Section, SectionsOf
      <4>3. memory \in Memories /\ job \in Jobs  BY DEF TypeOK
      <4>4. Len(SectionsOf(memory)) \in Nat /\ job.sec \in Nat  BY <4>3, SectionsType DEF Jobs
      <4> QED BY <2>1, <4>1, <4>2, <4>4 DEF LastSection
    <3> QED BY <2>1, <3>1, Zenon
  <2> QED BY <1>1, <1>2, <2>1, <2>2, <2>3, Zenon
<1>11. CASE CharMatched
  <2>1. /\ job.at = "char" /\ job'.at = "char" /\ job'.sec = job.sec
        /\ job'.fd = job.fd /\ job'.temp = job.temp /\ job'.err = job.err
        /\ job'.comp = job.comp /\ job'.buf = job.buf
        /\ job'.coder.table = job.coder.table
        /\ disk' = disk /\ memory' = memory
    BY <1>11, CharMatchedStep
  <2>2. Section' = Section  BY <2>1 DEF Section, SectionsOf
  <2> QED BY <1>1, <1>2, <2>1, <2>2, Zenon
<1> QED BY <1>3, <1>4, <1>5, <1>6, <1>7, <1>8, <1>9, <1>10, <1>11 DEF Storing

(* Every step keeps Hands.                                                  *)
LEMMA HandsStep ==
  ASSUME TypeOK, Hands, [Next]_vars
  PROVE  Hands'
<1>1. CASE UNCHANGED vars  BY <1>1 DEF vars, Hands, Section, SectionsOf
<1>2. ASSUME NEW s \in Edits, NEW f \in 0..1, Run(s, f) PROVE Hands'
  <2>1. job' = job /\ disk' = disk /\ job.at = "running"  BY <1>2 DEF Run, At
  <2> QED BY <2>1, Zenon DEF Hands, WithTemp, SaveSteps, Packing
<1>3. CASE Closing  BY <1>3, HandsClosing
<1>4. CASE (\E stay \in BOOLEAN : BeginSave(stay)) \/ Leading  BY <1>4, HandsLeading
<1>5. CASE Storing  BY <1>5, HandsStoring
<1>6. CASE Rereloc
  <2>1. /\ job.at = "rereloc" /\ disk' = disk
        /\ \/ job.err /\ Goto("discard")
           \/ ~job.err /\ Goto("unlink")
        /\ "discard" \in Steps /\ "unlink" \in Steps
    BY <1>6, Zenon DEF Rereloc, At, Steps
  <2>2. /\ job'.buf = job.buf /\ job'.comp = job.comp
        /\ job'.fd = job.fd /\ job'.temp = job.temp /\ job'.err = job.err
        /\ job'.coder = job.coder
        /\ \/ job'.at = "discard"
           \/ ~job.err /\ job'.at = "unlink"
    BY <2>1, GotoStep
  <2>3. /\ job.temp # Null /\ (job.fd = Null => job.err) /\ job.fd \in {Null, job.temp}
        /\ job.fd # Null => disk[job.fd] # Null
        /\ ~job.comp /\ job.buf = <<>> /\ NextCode(job.coder.table) <= MaxCode
    BY <2>1, Zenon DEF Hands, WithTemp, SaveSteps, Packing
  <2> QED BY <2>1, <2>2, <2>3, Zenon DEF Hands, WithTemp, SaveSteps, Packing
<1>7. CASE Unlinking
  <2>1. /\ job.at = "unlink" /\ Goto("rename") /\ "rename" \in Steps
        /\ \A f \in Files \ {Target} : disk'[f] = disk[f]
    BY <1>7, UnlinkStep
  <2>2. /\ job'.buf = job.buf /\ job'.comp = job.comp
        /\ job'.fd = job.fd /\ job'.temp = job.temp /\ job'.err = job.err
        /\ job'.coder = job.coder /\ job'.at = "rename"
    BY <2>1, GotoStep
  <2>3. /\ job.temp # Null /\ (job.fd = Null => job.err) /\ job.fd \in {Null, job.temp}
        /\ job.fd # Null => disk[job.fd] # Null
        /\ ~job.comp /\ job.buf = <<>> /\ NextCode(job.coder.table) <= MaxCode /\ ~job.err
    BY <2>1, Zenon DEF Hands, WithTemp, SaveSteps, Packing
  <2>4. job.fd # Null => disk'[job.fd] = disk[job.fd]
    <3>1. job \in Jobs /\ disk \in [Files -> Contents \cup {Null}]  BY DEF TypeOK
    <3>2. job.fd \in Temps \cup {Null}  BY <3>1 DEF Jobs
    <3> QED BY <2>1, <3>1, <3>2, Names
  <2> QED BY <2>1, <2>2, <2>3, <2>4, Zenon DEF Hands, WithTemp, SaveSteps, Packing
<1>8. ASSUME Renaming PROVE Hands'
  <2>1. /\ job.at = "rename"
        /\ job'.fd = job.fd /\ job'.temp = job.temp
        /\ job'.comp = job.comp /\ job'.buf = job.buf /\ job'.coder = job.coder
        /\ \/ job'.at = "saved"
           \/ job'.at = "discard" /\ job'.err = TRUE /\ disk' = disk
    BY <1>8, RenameStep
  <2>2. /\ job.temp # Null /\ (job.fd = Null => job.err) /\ job.fd \in {Null, job.temp}
        /\ job.fd # Null => disk[job.fd] # Null
        /\ ~job.comp /\ job.buf = <<>> /\ NextCode(job.coder.table) <= MaxCode
    BY <2>1, Zenon DEF Hands, WithTemp, SaveSteps, Packing
  <2> QED BY <2>1, <2>2, Zenon DEF Hands, WithTemp, SaveSteps, Packing
<1>9. CASE LoadingOf
  <2>1. /\ job.at \in LoadSteps /\ job'.at \in LoadSteps
        /\ job'.fd = job.fd /\ job'.temp = job.temp /\ job'.err = job.err
        /\ job'.comp = job.comp /\ job'.coder = job.coder /\ job'.buf = job.buf
        /\ disk' = disk
    BY <1>9, LoadingStep
  <2>2. \A at \in LoadSteps : /\ at \notin WithTemp /\ at \notin Packing
                              /\ at \notin {"char", "end", "unlink", "rename"}
                              /\ at \notin Packing \cup {"header", "section"}
    BY DEF LoadSteps, WithTemp, SaveSteps, Packing
  <2>3. /\ job.temp = Null /\ job.fd \in {Null, job.temp} /\ ~job.comp /\ job.buf = <<>>
        /\ NextCode(job.coder.table) <= MaxCode
    BY <2>1, <2>2, Zenon DEF Hands
  <2> QED BY <2>1, <2>2, <2>3, Zenon DEF Hands
<1> QED BY <1>1, <1>2, <1>3, <1>4, <1>5, <1>6, <1>7, <1>8, <1>9, StepCases

(* What the steps that read the file do.                                    *)
LEMMA ReadSectionStep ==
  ASSUME TypeOK, NEW ok \in BOOLEAN, ReadSection(ok)
  PROVE  /\ job.at = "load" /\ ~AllLoaded /\ (~Header.comp \/ Wanted = 0)
         /\ \/ job'.at = "failed" /\ job'.cause = "fault"
            \/ /\ job'.at = "failed" /\ job'.cause = "read"
               /\ job.i + Wanted - 1 > Len(Saving.units)
            \/ /\ job'.at = "load" /\ job'.sec = job.sec + 1 /\ job'.i = job.i + Wanted
               /\ job'.out = Append(job.out, SubSeq(Saving.units, job.i, job.i + Wanted - 1))
               /\ job'.decoder = job.decoder
               /\ ~(job.i + Wanted - 1 > Len(Saving.units))
<1> DEFINE out == Append(job.out, SubSeq(Saving.units, job.i, job.i + Wanted - 1))
<1>1. job.at = "load" /\ ~AllLoaded /\ (~Header.comp \/ Wanted = 0)
  BY DEF ReadSection, At
<1>2. job \in Jobs  BY DEF TypeOK
<1>3. CASE ~ok
  <2>1. Fail("fault") /\ "fault" \in Causes  BY <1>3 DEF ReadSection, Causes
  <2> QED BY <1>1, <2>1, FailStep
<1>4. CASE ok /\ job.i + Wanted - 1 > Len(Saving.units)
  <2>1. Fail("read") /\ "read" \in Causes  BY <1>4 DEF ReadSection, Causes
  <2> QED BY <1>1, <1>4, <2>1, FailStep
<1>5. CASE ok /\ ~(job.i + Wanted - 1 > Len(Saving.units))
  <2>1. job' = [job EXCEPT !.sec = @ + 1, !.i = @ + Wanted, !.out = out]
    BY <1>5 DEF ReadSection
  <2> HIDE DEF out
  <2>2. /\ job'.at = job.at /\ job'.sec = job.sec + 1 /\ job'.i = job.i + Wanted
        /\ job'.out = out /\ job'.decoder = job.decoder
    BY <1>2, <2>1 DEF Jobs
  <2> QED BY <1>1, <1>5, <2>2 DEF out
<1> QED BY <1>3, <1>4, <1>5

(* expand reads the first code of a section, or fails to.                   *)
LEMMA ReadFirstStep ==
  ASSUME TypeOK, NEW ok \in BOOLEAN, NEW heap \in Heaps, ReadFirst(ok, heap)
  PROVE  /\ job.at = "load" /\ ~AllLoaded /\ Header.comp /\ Wanted > 0
         /\ job'.at = "codes" /\ job'.sec = job.sec
         /\ job'.out = Append(job.out, <<InputCode(ok) % FirstCode>>)
         /\ ~ok => job'.misread
         /\ ok /\ Unit(job.i) < FirstCode =>
              /\ job'.i = job.i + 1 /\ job'.decoder = FirstRead(Unit(job.i))
              /\ job'.out = Append(job.out, <<Unit(job.i) % FirstCode>>)
<1> DEFINE out == Append(job.out, <<InputCode(ok) % FirstCode>>)
           decoder == FirstDecoder(InputCode(ok), heap)
           place == InputPlace(ok)
           misread == job.misread \/ ~ok
<1>1. job.at = "load" /\ ~AllLoaded /\ Header.comp /\ Wanted > 0
  BY DEF ReadFirst, At
<1>2. job \in Jobs  BY DEF TypeOK
<1>3. job' = [job EXCEPT !.at = "codes", !.i = place, !.decoder = decoder, !.out = out,
                         !.misread = misread]
  BY DEF ReadFirst
<1>4. /\ ok => place = job.i + 1 /\ InputCode(ok) = Unit(job.i)
      /\ ok /\ Unit(job.i) < FirstCode => decoder = FirstRead(Unit(job.i))
  BY DEF InputPlace, InputCode, FirstDecoder
<1>5. ~ok => misread  OBVIOUS
<1> HIDE DEF out, decoder, place, misread
<1>6. /\ job'.at = "codes" /\ job'.sec = job.sec /\ job'.i = place
      /\ job'.out = out /\ job'.decoder = decoder /\ job'.misread = misread
  BY <1>2, <1>3 DEF Jobs
<1>7. ~ok => job'.misread  BY <1>5, <1>6, Zenon
<1>8. job'.out = Append(job.out, <<InputCode(ok) % FirstCode>>)  BY <1>6 DEF out
<1>9. ASSUME ok, Unit(job.i) < FirstCode
      PROVE  /\ job'.i = job.i + 1 /\ job'.decoder = FirstRead(Unit(job.i))
             /\ job'.out = Append(job.out, <<Unit(job.i) % FirstCode>>)
  BY <1>4, <1>6, <1>8, <1>9
<1> QED BY <1>1, <1>6, <1>7, <1>8, <1>9, Zenon

(* expand reads another code.                                               *)
LEMMA ReadCodeStep ==
  ASSUME TypeOK, Loading, ReadCode
  PROVE  /\ job.at = "codes" /\ Unit(job.i) # MaxValue
         /\ \/ job'.at = "failed" /\ job.i > Len(Saving.units)
            \/ /\ job'.at = "failed"
               /\ ~Decodable(job.decoder.table, Looked(job.decoder, Unit(job.i)), DecodeLimit)
            \/ /\ job'.at = "codes" /\ job'.sec = job.sec /\ job'.i = job.i + 1
               /\ Decodable(job.decoder.table, Looked(job.decoder, Unit(job.i)), DecodeLimit)
               /\ job'.decoder = Read(job.decoder, Unit(job.i),
                                      Decoded(job.decoder, Unit(job.i), DecodeLimit))
               /\ job'.out = [job.out EXCEPT ![job.sec] =
                                @ \o Decoded(job.decoder, Unit(job.i), DecodeLimit)]
<1> DEFINE string == Decoded(job.decoder, Unit(job.i), DecodeLimit)
           out == [job.out EXCEPT ![job.sec] = @ \o string]
           decoder == Read(job.decoder, Unit(job.i), string)
           fits == Decodable(job.decoder.table, Looked(job.decoder, Unit(job.i)), DecodeLimit)
<1>1. job.at = "codes" /\ Unit(job.i) # MaxValue
  BY DEF ReadCode, At
<1>2. job \in Jobs  BY DEF TypeOK
<1> DEFINE past == job.i > Len(Saving.units) /\ Len(job.out[job.sec]) >= Wanted
<1>3. CASE past
  <2>1. Fail("overrun") /\ "overrun" \in Causes  BY <1>3 DEF ReadCode, Causes
  <2> QED BY <1>1, <1>3, <2>1, FailStep
<1>4. CASE ~past /\ ~fits
  <2>1. Fail("fatal") /\ "fatal" \in Causes  BY <1>4 DEF ReadCode, Causes
  <2> QED BY <1>1, <1>4, <2>1, FailStep
<1>5. CASE ~past /\ fits
  <2>1. job' = [job EXCEPT !.i = @ + 1, !.decoder = decoder, !.out[job.sec] = @ \o string]
    BY <1>5 DEF ReadCode
  <2> HIDE DEF decoder, string
  <2>2. job' = [job EXCEPT !.i = @ + 1, !.decoder = decoder, !.out = out]
    BY <1>2, <2>1 DEF Jobs
  <2> HIDE DEF out
  <2>3. /\ job'.at = job.at /\ job'.sec = job.sec /\ job'.i = job.i + 1
        /\ job'.out = out /\ job'.decoder = decoder
    BY <1>2, <2>2 DEF Jobs
  <2> QED BY <1>1, <1>5, <2>3 DEF out, decoder, string
<1> QED BY <1>3, <1>4, <1>5

(* expand reads the code that ends a section, or fails to read.             *)
LEMMA ReadEndStep ==
  ASSUME TypeOK, NEW ok \in BOOLEAN, ReadEnd(ok)
  PROVE  /\ job.at = "codes" /\ (ok => Unit(job.i) = MaxValue)
         /\ \/ /\ job'.at = "failed" /\ Len(job.out[job.sec]) # Wanted
               /\ ~ok => job'.cause = "fault"
            \/ /\ job'.at = "load" /\ job'.sec = job.sec + 1
               /\ job'.out = job.out /\ job'.decoder = job.decoder
               /\ ok => job'.i = job.i + 1
               /\ ~ok => job'.misread
<1>1. job.at = "codes" /\ (ok => Unit(job.i) = MaxValue)  BY DEF ReadEnd, InputCode, At
<1>2. job \in Jobs  BY DEF TypeOK
<1>3. CASE Len(job.out[job.sec]) # Wanted
  <2> DEFINE cause == IF ok THEN "read" ELSE "fault"
  <2>1. Fail(cause) /\ cause \in Causes  BY <1>3 DEF ReadEnd, Causes
  <2>2. ~ok => cause = "fault"  OBVIOUS
  <2> HIDE DEF cause
  <2> QED BY <1>1, <1>3, <2>1, <2>2, FailStep
<1>4. CASE Len(job.out[job.sec]) = Wanted
  <2> DEFINE place == InputPlace(ok)
             misread == job.misread \/ ~ok
  <2>1. job' = [job EXCEPT !.at = "load", !.i = place, !.sec = @ + 1, !.misread = misread]
    BY <1>4 DEF ReadEnd
  <2>2. ok => place = job.i + 1  BY DEF InputPlace
  <2>3. ~ok => misread  OBVIOUS
  <2> HIDE DEF place, misread
  <2>4. /\ job'.at = "load" /\ job'.sec = job.sec + 1 /\ job'.i = place
        /\ job'.out = job.out /\ job'.decoder = job.decoder /\ job'.misread = misread
    BY <1>2, <2>1 DEF Jobs
  <2>5. ~ok => job'.misread  BY <2>3, <2>4, Zenon
  <2>6. ok => job'.i = job.i + 1  BY <2>2, <2>4
  <2> QED BY <1>1, <2>4, <2>5, <2>6, Zenon
<1> QED BY <1>3, <1>4

(* A step of a save leaves a save in progress.                              *)
LEMMA SavingStep ==
  ASSUME TypeOK, Hands,
         \/ (\E stay \in BOOLEAN : BeginSave(stay)) \/ Leading \/ Storing
         \/ Rereloc \/ Unlinking \/ Renaming
  PROVE  job'.at \in SaveSteps
<1>1. ASSUME NEW stay \in BOOLEAN, BeginSave(stay) PROVE job'.at \in SaveSteps
  BY <1>1, BeginStep DEF SaveSteps
<1>2. ASSUME NEW t \in Temps, NEW ok \in BOOLEAN, OpenTemp(t, ok) \/ NoTempName(t)
      PROVE  job'.at \in SaveSteps
  <2>1. job'.at = "tables"  BY <1>2, OpenStep
  <2> QED BY <2>1 DEF SaveSteps
<1>3. ASSUME NEW room \in {"free", "extended", "none"}, Tables(room)
      PROVE  job'.at \in SaveSteps
  BY <1>3, TablesStep DEF SaveSteps
<1>4. ASSUME NEW ok \in BOOLEAN, WriteHeader(ok) PROVE job'.at \in SaveSteps
  BY <1>4, WriteHeaderStep DEF SaveSteps
<1>5. ASSUME NEW ok \in BOOLEAN,
             \/ WriteSection(ok) \/ CharUnmatched(ok) \/ LastCode(ok) \/ EndCode(ok) \/ Pad(ok)
             \/ Drain(ok)
      PROVE  job'.at \in SaveSteps
  <2>1. job'.at \in {"section", "char", "end", "drain", "rereloc"}
    BY <1>5, WriteSectionStep, CharUnmatchedStep, LastCodeStep, EndCodeStep, PadStep, DrainStep
  <2> QED BY <2>1 DEF SaveSteps
<1>6. CASE FirstChar \/ CharMatched
  <2>1. job'.at \in {"section", "char"}  BY <1>6, FirstCharStep, CharMatchedStep
  <2> QED BY <2>1 DEF SaveSteps
<1>7. CASE NotCompressed \/ Rereloc \/ Unlinking
  <2>1. \E step \in {"rereloc", "discard", "unlink", "rename"} : Goto(step)
    BY <1>7 DEF NotCompressed, Rereloc, Unlinking, Unlink
  <2>2. {"rereloc", "discard", "unlink", "rename"} \subseteq Steps \cap SaveSteps
    BY DEF Steps, SaveSteps
  <2> QED BY <2>1, <2>2, GotoStep
<1>8. ASSUME Renaming PROVE job'.at \in SaveSteps
  <2>1. job'.at = "saved" \/ job'.at = "discard"  BY <1>8, RenameStep
  <2> QED BY <2>1 DEF SaveSteps
<1> QED BY <1>1, <1>2, <1>3, <1>4, <1>5, <1>6, <1>7, <1>8 DEF Leading, Storing

(* A load knows what it did.                                                *)
LEMMA LoadingKept ==
  ASSUME TypeOK, Hands, Loading, Stored, [Next]_vars
  PROVE  Loading'
<1>1. CASE UNCHANGED vars  BY <1>1 DEF vars, Loading, Header, Saving
<1>2. ASSUME NEW s \in Edits, NEW f \in 0..1, Run(s, f) PROVE Loading'
  <2>1. job'.at = "running"  BY <1>2 DEF Run, At
  <2> QED BY <2>1, Zenon DEF Loading, LoadSteps, Checked
<1>3. CASE Closing
  <2>1. /\ job'.at \in {"running", "stopped", "peek"}
        /\ job'.sec = 1 /\ job'.i = 1 /\ job'.out = <<>> /\ job'.decoder = FirstRead(0)
    BY <1>3, ClosingStep
  <2>2. job'.at = "peek" => disk'[Target] # Null
    <3>1. CASE \E b \in Builds : Start(b)
      <4>1. disk' = disk /\ job'.at = IF disk[Target] = Null THEN "running" ELSE "peek"
        BY <3>1 DEF Start, Quiet
      <4> QED BY <4>1
    <3>2. CASE ~\E b \in Builds : Start(b)
      <4>1. \/ \E ok \in BOOLEAN : Chain(ok)
            \/ EndProgram \/ Crash \/ Saved \/ Restart \/ LoadFailed \/ Discard
        BY <1>3, <3>2 DEF Closing
      <4>2. job' = Quiet("running") \/ job' = Quiet("stopped")
        BY <4>1 DEF Chain, DoExec, EndProgram, Crash, Saved, Restart, LoadFailed, Discard
      <4> QED BY <4>2 DEF Quiet
    <3> QED BY <3>1, <3>2
  <2> QED BY <2>1, <2>2, Zenon DEF Loading, LoadSteps, Checked
<1>4. CASE \/ (\E stay \in BOOLEAN : BeginSave(stay)) \/ Leading \/ Storing
           \/ Rereloc \/ Unlinking \/ Renaming
  <2>1. job'.at \in SaveSteps  BY <1>4, SavingStep
  <2>2. /\ job'.at \notin LoadSteps /\ job'.at \notin Checked
        /\ job'.at \notin {"peek", "memory", "expansion"}
        /\ job'.at # "load" /\ job'.at # "codes" /\ job'.at # "restart"
    BY <2>1 DEF SaveSteps, LoadSteps, Checked
  <2> QED BY <2>2, Zenon DEF Loading
<1>5. CASE LoadingOf
  <2>1. job.at \in LoadSteps /\ job'.at \in LoadSteps /\ disk' = disk /\ build' = build
        /\ disk'[Target] # Null /\ Header' = Header /\ Saving' = Saving /\ job \in Jobs
    <3>1. job.at \in LoadSteps /\ job'.at \in LoadSteps /\ disk' = disk /\ build' = build
      BY <1>5, LoadingStep
    <3> QED BY <3>1 DEF Loading, Header, Saving, TypeOK
  <2>2. ASSUME job'.at = "failed" PROVE Loading'
    BY <2>1, <2>2, Zenon DEF Loading, Checked
  <2>3. ASSUME NEW ok \in BOOLEAN, CheckHeader(ok) PROVE Loading'
    <3>1. job.at = "peek"  BY <2>3 DEF CheckHeader, At
    <3>2. \/ \E cause \in Causes : Fail(cause)
          \/ Goto("memory") /\ Header # Null /\ Header.build = build
      BY <2>3 DEF CheckHeader, Causes
    <3>3. CASE \E cause \in Causes : Fail(cause)  BY <2>2, <3>3, FailStep
    <3>4. CASE Goto("memory") /\ Header # Null /\ Header.build = build
      <4>1. /\ job'.at = "memory" /\ job'.sec = job.sec /\ job'.i = job.i
            /\ job'.out = job.out /\ job'.decoder = job.decoder
        BY <3>4, GotoStep DEF Steps
      <4> QED BY <2>1, <3>1, <3>4, <4>1, Zenon DEF Loading, Checked
    <3> QED BY <3>2, <3>3, <3>4
  <2>4. ASSUME NEW ok \in BOOLEAN, GetMemory(ok) PROVE Loading'
    <3>1. job.at = "memory" /\ Header # Null /\ Header.build = build
      BY <2>4 DEF GetMemory, At, Loading, Checked
    <3>2. Fail("fault") \/ Goto("expansion")  BY <2>4 DEF GetMemory
    <3>3. CASE Fail("fault")  BY <2>2, <3>3, FailStep DEF Causes
    <3>4. CASE Goto("expansion")
      <4>1. /\ job'.at = "expansion" /\ job'.sec = job.sec /\ job'.i = job.i
            /\ job'.out = job.out /\ job'.decoder = job.decoder
        BY <3>4, GotoStep DEF Steps
      <4> QED BY <2>1, <3>1, <4>1, Zenon DEF Loading, Checked
    <3> QED BY <3>2, <3>3, <3>4
  <2>5. ASSUME NEW ok \in BOOLEAN, NEW extended \in BOOLEAN, Expansion(extended, ok)
        PROVE  Loading'
    <3>1. job.at = "expansion" /\ Header # Null /\ Header.build = build
          /\ job.sec = 1 /\ job.out = <<>>
      BY <2>5 DEF Expansion, At, Loading, Checked
    <3>2. Fail("fault") \/ Goto("load")  BY <2>5 DEF Expansion
    <3>3. CASE Fail("fault")  BY <2>2, <3>3, FailStep DEF Causes
    <3>4. CASE Goto("load")
      <4>1. job'.at = "load" /\ job'.sec = job.sec /\ job'.out = job.out
        BY <3>4, GotoStep DEF Steps
      <4>2. Len(job'.out) = job'.sec - 1  BY <3>1, <4>1
      <4> QED BY <2>1, <3>1, <4>1, <4>2, Zenon DEF Loading, Checked
    <3> QED BY <3>2, <3>3, <3>4
  <2>6. job.sec \in Nat /\ Len(job.out) \in Nat /\ job.out \in Seq(Seq(Character))
    BY <2>1 DEF Jobs
  <2>7. ASSUME NEW ok \in BOOLEAN, ReadSection(ok) PROVE Loading'
    <3>1. /\ job.at = "load"
          /\ \/ job'.at = "failed"
             \/ /\ job'.at = "load" /\ job'.sec = job.sec + 1
                /\ job'.out = Append(job.out, SubSeq(Saving.units, job.i, job.i + Wanted - 1))
      BY <2>7, ReadSectionStep
    <3>2. Header # Null /\ Header.build = build /\ Len(job.out) = job.sec - 1
      BY <3>1 DEF Loading, Checked
    <3>3. CASE job'.at = "load" /\ job'.sec = job.sec + 1
               /\ job'.out = Append(job.out, SubSeq(Saving.units, job.i, job.i + Wanted - 1))
      <4> DEFINE part == SubSeq(Saving.units, job.i, job.i + Wanted - 1)
      <4>1. job'.out = Append(job.out, part)  BY <3>3
      <4> HIDE DEF part
      <4>2. Len(job'.out) = Len(job.out) + 1  BY <2>6, <4>1
      <4>3. Len(job'.out) = job'.sec - 1  BY <2>6, <3>2, <3>3, <4>2
      <4> QED BY <2>1, <3>2, <3>3, <4>3, Zenon DEF Loading
    <3> QED BY <2>2, <3>1, <3>3
  <2>8. CASE ReadingFirst
    <3> PICK ok \in BOOLEAN, heap \in Heaps : ReadFirst(ok, heap)  BY <2>8 DEF ReadingFirst
    <3>1. /\ job.at = "load" /\ ~AllLoaded /\ job'.at = "codes" /\ job'.sec = job.sec
          /\ job'.out = Append(job.out, <<InputCode(ok) % FirstCode>>)
      BY ReadFirstStep
    <3>2. Header # Null /\ Header.build = build /\ Len(job.out) = job.sec - 1
      BY <3>1 DEF Loading, Checked
    <3> DEFINE part == <<InputCode(ok) % FirstCode>>
    <3>3. job'.out = Append(job.out, part)  BY <3>1
    <3> HIDE DEF part
    <3>4. Len(job'.out) = Len(job.out) + 1  BY <2>6, <3>3
    <3>5. Len(job'.out) = job'.sec  BY <2>6, <3>1, <3>2, <3>4
    <3>6. job'.sec <= Len(Header.sizes)
      <4>1. disk[Target] \in Contents  BY <2>1, Names DEF TypeOK
      <4>2. Header \in Headers  BY <3>2, <4>1 DEF Contents, Header, Saving
      <4>3. Len(Header.sizes) \in Nat  BY <4>2 DEF Headers
      <4> QED BY <2>6, <3>1, <4>3 DEF AllLoaded
    <3> QED BY <2>1, <3>1, <3>2, <3>5, <3>6, Zenon DEF Loading
  <2>9. CASE ReadCode
    <3>1. /\ job.at = "codes"
          /\ \/ job'.at = "failed"
             \/ /\ job'.at = "codes" /\ job'.sec = job.sec
                /\ job'.out = [job.out EXCEPT ![job.sec] =
                                @ \o Decoded(job.decoder, Unit(job.i), DecodeLimit)]
      BY <2>9, ReadCodeStep
    <3>2. Header # Null /\ Header.build = build /\ Len(job.out) = job.sec
          /\ job.sec <= Len(Header.sizes)
      BY <3>1 DEF Loading, Checked
    <3>3. CASE job'.at = "codes" /\ job'.sec = job.sec
               /\ job'.out = [job.out EXCEPT ![job.sec] =
                                @ \o Decoded(job.decoder, Unit(job.i), DecodeLimit)]
      <4> DEFINE part == job.out[job.sec] \o Decoded(job.decoder, Unit(job.i), DecodeLimit)
      <4>1. job'.out = [job.out EXCEPT ![job.sec] = part]  BY <3>3
      <4> HIDE DEF part
      <4>2. Len(job'.out) = Len(job.out)  BY <2>6, <4>1
      <4>3. Len(job'.out) = job'.sec  BY <2>6, <3>2, <3>3, <4>2
      <4> QED BY <2>1, <3>2, <3>3, <4>3, Zenon DEF Loading
    <3> QED BY <2>2, <3>1, <3>3
  <2>10. CASE ReadingEnd
    <3> PICK ok \in BOOLEAN : ReadEnd(ok)  BY <2>10 DEF ReadingEnd
    <3>1. /\ job.at = "codes"
          /\ \/ job'.at = "failed"
             \/ job'.at = "load" /\ job'.sec = job.sec + 1 /\ job'.out = job.out
      BY ReadEndStep
    <3>2. Header # Null /\ Header.build = build /\ Len(job.out) = job.sec
      BY <3>1 DEF Loading, Checked
    <3>3. CASE job'.at = "load" /\ job'.sec = job.sec + 1 /\ job'.out = job.out
      <4>1. Len(job'.out) = job'.sec - 1  BY <2>6, <3>2, <3>3
      <4> QED BY <2>1, <3>2, <3>3, <4>1, Zenon DEF Loading
    <3> QED BY <2>2, <3>1, <3>3
  <2>11. CASE FindFunctions
    <3>1. /\ job.at = "load" /\ AllLoaded
          /\ \/ Fail("functions")
             \/ Goto("restart") /\ ~(Saving.of.functions > 0)
      BY <2>11 DEF FindFunctions, At
    <3>2. Header # Null /\ Header.build = build  BY <3>1 DEF Loading, Checked
    <3>3. CASE Fail("functions")  BY <2>2, <3>3, FailStep DEF Causes
    <3>4. CASE Goto("restart") /\ ~(Saving.of.functions > 0)
      <4>1. job'.at = "restart" /\ job'.sec = job.sec  BY <3>4, GotoStep DEF Steps
      <4>2. Saving.of.functions = 0
        <5>1. disk[Target] \in Contents /\ Saving.of # Null
          BY <2>1, Names DEF TypeOK, Stored, Saving
        <5>2. Saving.of \in Memories  BY <5>1 DEF Contents, Saving
        <5>3. Saving.of.functions \in 0..1  BY <5>2 DEF Memories
        <5> QED BY <3>4, <5>3
      <4> QED BY <2>1, <3>1, <3>2, <4>1, <4>2, Zenon DEF Loading, AllLoaded
    <3> QED BY <3>1, <3>3, <3>4
  <2> QED BY <1>5, <2>3, <2>4, <2>5, <2>7, <2>8, <2>9, <2>10, <2>11 DEF LoadingOf
<1> QED BY <1>1, <1>2, <1>3, <1>4, <1>5, StepCases

(* The pointers and the heap are as the step of the call requires.          *)
LEMMA RestoredClosing ==
  ASSUME TypeOK, Restored, Stored, Loading, Closing
  PROVE  Restored'
<1>1. memory \in Memories  BY DEF TypeOK
<1>2. job'.at \in {"running", "stopped", "peek"}  BY ClosingStep
<1>3. ASSUME ~memory'.relative, memory'.extra = 0 PROVE Restored'
  BY <1>2, <1>3, Zenon DEF Restored, SaveSteps
<1>4. ASSUME job'.at = "stopped" PROVE Restored'
  BY <1>4, Zenon DEF Restored, SaveSteps
<1>5. ASSUME NEW ok \in BOOLEAN, Chain(ok) PROVE Restored'
  <2>1. ~memory.relative /\ memory.extra = 0  BY <1>5 DEF Chain, At, Restored
  <2>2. memory' = [memory EXCEPT !.channels = "closed"]  BY <1>5 DEF Chain
  <2>3. memory'.relative = memory.relative /\ memory'.extra = memory.extra
    BY <1>1, <2>2 DEF Memories
  <2>4. ~memory'.relative  BY <2>1, <2>3, Zenon
  <2>5. memory'.extra = 0  BY <2>1, <2>3
  <2> QED BY <1>3, <2>4, <2>5
<1>6. CASE EndProgram \/ Crash \/ LoadFailed
  BY <1>4, <1>6 DEF EndProgram, Crash, LoadFailed, Quiet
<1>7. CASE Saved \/ Discard
  <2>1. (job.at = "saved" \/ job.at = "discard") /\ memory' = memory
    BY <1>7 DEF Saved, Discard, At
  <2> QED BY <1>3, <2>1, Zenon DEF Restored
<1>8. CASE Restart
  <2>1. job.at = "restart"  BY <1>8 DEF Restart, At
  <2>2. disk[Target] # Null  BY <2>1 DEF Loading, LoadSteps
  <2>3. Saving.of.relative  BY <2>2 DEF Stored, Saving
  <2> DEFINE relative == ~Saving.of.relative
             channels == Saving.of.channels
  <2>4. memory' = [Blank EXCEPT !.sections = job.out, !.relative = relative,
                                !.channels = channels]
    BY <1>8 DEF Restart
  <2>5. relative = FALSE  BY <2>3, Zenon
  <2> HIDE DEF relative, channels
  <2>6. memory'.relative = relative /\ memory'.extra = 0  BY <2>4 DEF Blank
  <2> QED BY <1>3, <2>5, <2>6
<1>9. CASE \E b \in Builds : Start(b)
  <2>1. memory' = Blank  BY <1>9 DEF Start
  <2> QED BY <1>3, <2>1 DEF Blank
<1> QED BY <1>5, <1>6, <1>7, <1>8, <1>9 DEF Closing

(* The steps of a save keep Restored.                                       *)
LEMMA RestoredSaving ==
  ASSUME TypeOK, Hands, Restored,
         \/ (\E stay \in BOOLEAN : BeginSave(stay)) \/ Leading \/ Storing
         \/ Rereloc \/ Unlinking \/ Renaming
  PROVE  Restored'
<1>1. memory \in Memories  BY DEF TypeOK
<1>2. ASSUME NEW stay \in BOOLEAN, BeginSave(stay) PROVE Restored'
  <2>1. /\ job.at = "running" /\ job'.at = "open"
        /\ memory' = [memory EXCEPT !.channels = "closed"]
    BY <1>2, BeginStep
  <2>2. /\ memory'.relative = memory.relative /\ memory'.extra = memory.extra
        /\ memory'.channels = "closed"
    BY <1>1, <2>1 DEF Memories
  <2> QED BY <2>1, <2>2, Zenon DEF Restored, SaveSteps
<1>3. ASSUME NEW t \in Temps, NEW ok \in BOOLEAN, OpenTemp(t, ok) \/ NoTempName(t)
      PROVE  Restored'
  <2>1. job.at = "open" /\ job'.at = "tables" /\ memory' = memory  BY <1>3, OpenStep
  <2> QED BY <2>1, Zenon DEF Restored, SaveSteps
<1>4. ASSUME NEW room \in {"free", "extended", "none"}, Tables(room) PROVE Restored'
  <2>1. /\ job.at = "tables" /\ job'.at = "header"
        /\ (~job'.comp => memory'.extra = 0)
        /\ memory'.relative = TRUE /\ memory'.channels = memory.channels
    BY <1>4, TablesStep
  <2> QED BY <2>1, Zenon DEF Restored, SaveSteps
<1>5. ASSUME NEW ok \in BOOLEAN, WriteHeader(ok) PROVE Restored'
  <2>1. job.at = "header" /\ job'.at = "section" /\ memory' = memory /\ job'.comp = job.comp
    BY <1>5, WriteHeaderStep
  <2> QED BY <2>1, Zenon DEF Restored, SaveSteps
<1>6. ASSUME job.at \in {"section", "char", "end"}, job'.at \in {"section", "char", "end", "drain"},
             memory' = memory, job'.comp = job.comp
      PROVE  Restored'
  <2>1. memory.relative /\ memory.channels = "closed"
    BY <1>6, Zenon DEF Restored, SaveSteps
  <2>2. job.at \in {"header", "section"} /\ ~job.comp => memory.extra = 0
    BY Zenon DEF Restored
  <2>3. job.at # "section" => job.comp  BY <1>6, Zenon DEF Hands, Packing
  <2>4. ~job'.comp => memory'.extra = 0  BY <1>6, <2>2, <2>3, Zenon
  <2> QED BY <1>6, <2>1, <2>4, Zenon DEF Restored, SaveSteps
<1>7. ASSUME NEW ok \in BOOLEAN, WriteSection(ok) PROVE Restored'
  <2>1. job.at = "section" /\ job'.at = "section" /\ memory' = memory /\ job'.comp = job.comp
    BY <1>7, WriteSectionStep
  <2> QED BY <1>6, <2>1
<1>8. ASSUME NEW ok \in BOOLEAN, CharUnmatched(ok) PROVE Restored'
  <2>1. job.at = "char" /\ job'.at = "char" /\ memory' = memory /\ job'.comp = job.comp
    BY <1>8, CharUnmatchedStep DEF Held, Packed
  <2> QED BY <1>6, <2>1
<1>9. ASSUME NEW ok \in BOOLEAN, LastCode(ok) PROVE Restored'
  <2>1. job.at = "char" /\ job'.at = "end" /\ memory' = memory /\ job'.comp = job.comp
    BY <1>9, LastCodeStep DEF Held, Packed
  <2> QED BY <1>6, <2>1
<1>10. ASSUME NEW ok \in BOOLEAN, EndCode(ok) PROVE Restored'
  <2>1. job.at = "end" /\ job'.at = "section" /\ memory' = memory /\ job'.comp = job.comp
    BY <1>10, EndCodeStep DEF Held, Packed
  <2> QED BY <1>6, <2>1
<1>11. ASSUME NEW ok \in BOOLEAN, Pad(ok) PROVE Restored'
  <2>1. job.at = "section" /\ job'.at = "drain" /\ memory' = memory /\ job'.comp = job.comp
    BY <1>11, PadStep DEF Held, Packed
  <2> QED BY <1>6, <2>1
<1>12. CASE FirstChar \/ CharMatched
  <2>1. job.at \in {"section", "char"} /\ job'.at \in {"section", "char"}
        /\ memory' = memory /\ job'.comp = job.comp
    BY <1>12, FirstCharStep, CharMatchedStep
  <2> QED BY <1>6, <2>1
<1>13. ASSUME NEW ok \in BOOLEAN, Drain(ok) PROVE Restored'
  <2>1. job.at = "drain" /\ job'.at = "rereloc" /\ memory' = [memory EXCEPT !.extra = 0]
    BY <1>13, DrainStep
  <2>2. /\ memory'.relative = memory.relative /\ memory'.extra = 0
        /\ memory'.channels = memory.channels
    BY <1>1, <2>1 DEF Memories
  <2> QED BY <2>1, <2>2, Zenon DEF Restored, SaveSteps
<1>14. CASE NotCompressed
  <2>1. job.at = "section" /\ ~job.comp /\ memory' = memory /\ Goto("rereloc")
    BY <1>14 DEF NotCompressed, At
  <2>2. job'.at = "rereloc"  BY <2>1, GotoStep DEF Steps
  <2> QED BY <2>1, <2>2, Zenon DEF Restored, SaveSteps
<1>15. CASE Rereloc
  <2>1. /\ job.at = "rereloc" /\ memory' = [memory EXCEPT !.relative = FALSE]
        /\ Goto("discard") \/ Goto("unlink")
    BY <1>15 DEF Rereloc, At
  <2>2. job'.at = "discard" \/ job'.at = "unlink"  BY <2>1, GotoStep DEF Steps
  <2>3. /\ memory'.relative = FALSE /\ memory'.extra = memory.extra
        /\ memory'.channels = memory.channels
    BY <1>1, <2>1 DEF Memories
  <2> QED BY <2>1, <2>2, <2>3, Zenon DEF Restored, SaveSteps
<1>16. CASE Unlinking
  <2>1. job.at = "unlink" /\ memory' = memory /\ Goto("rename")  BY <1>16, UnlinkStep
  <2>2. job'.at = "rename"  BY <2>1, GotoStep DEF Steps
  <2> QED BY <2>1, <2>2, Zenon DEF Restored, SaveSteps
<1>17. ASSUME Renaming PROVE Restored'
  <2>1. job.at = "rename" /\ memory' = memory /\ job'.at \in {"saved", "discard"}
    BY <1>17, RenameStep
  <2> QED BY <2>1, Zenon DEF Restored, SaveSteps
<1> QED BY <1>2, <1>3, <1>4, <1>5, <1>7, <1>8, <1>9, <1>10, <1>11, <1>12, <1>13, <1>14, <1>15,
           <1>16, <1>17 DEF Leading, Storing

(* Every step keeps Restored.                                               *)
LEMMA RestoredStep ==
  ASSUME TypeOK, Hands, Loading, Restored, Stored, [Next]_vars
  PROVE  Restored'
<1>1. CASE UNCHANGED vars  BY <1>1 DEF vars, Restored
<1>2. ASSUME NEW s \in Edits, NEW f \in 0..1, Run(s, f) PROVE Restored'
  <2>1. job' = job /\ job.at = "running"  BY <1>2 DEF Run, At
  <2>2. memory' = [memory EXCEPT !.sections = s, !.functions = f, !.channels = "open"]
        /\ memory \in Memories
    BY <1>2 DEF Run, TypeOK
  <2>3. memory'.relative = memory.relative /\ memory'.extra = memory.extra
    BY <2>2 DEF Memories
  <2> QED BY <2>1, <2>3, Zenon DEF Restored, SaveSteps
<1>3. CASE Closing  BY <1>3, RestoredClosing
<1>4. CASE \/ (\E stay \in BOOLEAN : BeginSave(stay)) \/ Leading \/ Storing
           \/ Rereloc \/ Unlinking \/ Renaming
  BY <1>4, RestoredSaving
<1>5. CASE LoadingOf
  <2>1. job'.at \in LoadSteps  BY <1>5, LoadingStep
  <2>2. /\ job'.at \notin SaveSteps
        /\ job'.at \notin {"running", "open", "tables", "unlink", "rename", "discard", "saved"}
        /\ job'.at \notin {"header", "section", "char", "end", "drain", "rereloc"}
        /\ job'.at \notin {"running", "rereloc", "unlink", "rename", "discard", "saved"}
        /\ job'.at \notin {"header", "section"}
    BY <2>1 DEF SaveSteps, LoadSteps
  <2> QED BY <2>2, Zenon DEF Restored
<1> QED BY <1>1, <1>2, <1>3, <1>4, <1>5, StepCases

(* The old file stays until the new one is complete.                        *)
LEMMA CopiesStep ==
  ASSUME TypeOK, Hands, Stored, Copies, [Next]_vars
  PROVE  Copies'
<1>1. /\ job \in Jobs /\ disk \in [Files -> Contents \cup {Null}]
      /\ job.fd \in Temps \cup {Null} /\ job.temp \in Temps \cup {Null}
      /\ Target \in Files \ {job.fd} /\ Target # job.temp /\ Target \notin Temps
  <2>1. job \in Jobs  BY DEF TypeOK
  <2>2. job.fd \in Temps \cup {Null} /\ job.temp \in Temps \cup {Null}  BY <2>1 DEF Jobs
  <2> QED BY <2>1, <2>2, Names DEF TypeOK
<1>2. CASE UNCHANGED vars  BY <1>2 DEF vars, Copies, NewFile
<1>3. ASSUME NEW s \in Edits, NEW f \in 0..1, Run(s, f) PROVE Copies'
  <2>1. job.at = "running" /\ job' = job  BY <1>3 DEF Run, At
  <2> QED BY <2>1, Zenon DEF Copies, SaveSteps
<1>4. CASE Closing
  <2>1. job'.at \in {"running", "stopped", "peek"} /\ job'.old = Null
    BY <1>4, ClosingStep
  <2> QED BY <2>1, Zenon DEF Copies, SaveSteps
<1>5. ASSUME NEW stay \in BOOLEAN, BeginSave(stay) PROVE Copies'
  <2>1. job'.at = "open" /\ job'.old = disk[Target] /\ disk' = disk  BY <1>5, BeginStep
  <2> QED BY <2>1, Zenon DEF Copies, SaveSteps
<1>6. ASSUME job.at \in SaveSteps \ {"rename", "discard", "saved"},
             job'.at \in SaveSteps \ {"discard", "rename", "saved"},
             disk'[Target] = disk[Target], job'.old = job.old
      PROVE  Copies'
  <2>1. disk'[Target] = job'.old  BY <1>6, Zenon DEF Copies
  <2> QED BY <1>6, <2>1, Zenon DEF Copies, SaveSteps
<1>7. CASE Leading
  <2>1. ASSUME NEW t \in Temps, NEW ok \in BOOLEAN, OpenTemp(t, ok) \/ NoTempName(t)
        PROVE  Copies'
    <3>1. /\ job.at = "open" /\ job'.at = "tables" /\ job'.old = job.old
          /\ \A f \in Files \ {t} : disk'[f] = disk[f]
      BY <2>1, OpenStep
    <3>2. disk'[Target] = disk[Target]  BY <1>1, <3>1
    <3> QED BY <1>6, <3>1, <3>2 DEF SaveSteps
  <2>2. ASSUME NEW room \in {"free", "extended", "none"}, Tables(room) PROVE Copies'
    <3>1. job.at = "tables" /\ job'.at = "header" /\ job'.old = job.old /\ disk' = disk
      BY <2>2, TablesStep
    <3> QED BY <1>6, <3>1 DEF SaveSteps
  <2>3. ASSUME NEW ok \in BOOLEAN, WriteHeader(ok) PROVE Copies'
    <3>1. /\ job.at = "header" /\ job'.at = "section" /\ job'.old = job.old
          /\ \A f \in Files \ {job.fd} : disk'[f] = disk[f]
      BY <2>3, WriteHeaderStep
    <3>2. disk'[Target] = disk[Target]  BY <1>1, <3>1
    <3> QED BY <1>6, <3>1, <3>2 DEF SaveSteps
  <2> QED BY <1>7, <2>1, <2>2, <2>3 DEF Leading
<1>8. CASE Storing
  <2>1. /\ job.at \in {"section", "char", "end", "drain"}
        /\ job'.at \in {"section", "char", "end", "drain", "rereloc"}
        /\ job'.old = job.old /\ disk'[Target] = disk[Target]
    <3>1. ASSUME NEW ok \in BOOLEAN,
                 CharUnmatched(ok) \/ LastCode(ok) \/ EndCode(ok) \/ Pad(ok)
          PROVE  /\ job.at \in {"section", "char", "end", "drain"}
                 /\ job'.at \in {"section", "char", "end", "drain"}
                 /\ job'.old = job.old /\ \A f \in Files \ {job.fd} : disk'[f] = disk[f]
      BY <3>1, CharUnmatchedStep, LastCodeStep, EndCodeStep, PadStep DEF Held, Packed
    <3>2. ASSUME NEW ok \in BOOLEAN, WriteSection(ok) \/ Drain(ok)
          PROVE  /\ job.at \in {"section", "drain"} /\ job'.at \in {"section", "rereloc"}
                 /\ job'.old = job.old /\ \A f \in Files \ {job.fd} : disk'[f] = disk[f]
      BY <3>2, WriteSectionStep, DrainStep
    <3>3. CASE FirstChar \/ CharMatched
      BY <3>3, FirstCharStep, CharMatchedStep
    <3>4. CASE NotCompressed
      <4>1. job.at = "section" /\ Goto("rereloc") /\ disk' = disk
        BY <3>4 DEF NotCompressed, At
      <4> QED BY <4>1, GotoStep DEF Steps
    <3> QED BY <1>1, <1>8, <3>1, <3>2, <3>3, <3>4 DEF Storing
  <2> QED BY <1>6, <2>1 DEF SaveSteps
<1>9. CASE Rereloc
  <2>1. /\ job.at = "rereloc" /\ disk' = disk
        /\ Goto("discard") \/ Goto("unlink")
    BY <1>9 DEF Rereloc, At
  <2>2. job'.at \in {"discard", "unlink"} /\ job'.old = job.old  BY <2>1, GotoStep DEF Steps
  <2> QED BY <2>1, <2>2, Zenon DEF Copies, SaveSteps
<1>10. CASE Unlinking
  <2>1. /\ job.at = "unlink" /\ Goto("rename")
        /\ disk'[Target] = Null \/ disk'[Target] = disk[Target]
    BY <1>10, UnlinkStep
  <2>2. job'.at = "rename" /\ job'.old = job.old  BY <2>1, GotoStep DEF Steps
  <2>3. disk[Target] = job.old  BY <2>1, Zenon DEF Copies, SaveSteps
  <2>4. disk'[Target] \in {job'.old, Null}  BY <2>1, <2>2, <2>3
  <2> QED BY <2>2, <2>4, Zenon DEF Copies, SaveSteps
<1>11. ASSUME Renaming PROVE Copies'
  <2>1. /\ job.at = "rename" /\ job.temp \in Temps /\ disk[job.temp] # Null
        /\ job'.old = job.old /\ job'.temp = job.temp /\ memory' = memory
        /\ \/ /\ job'.at = "saved" /\ disk'[Target] = disk[job.temp] /\ disk'[job.temp] = Null
           \/ /\ job'.at = "discard" /\ job'.cause = "rename" /\ disk' = disk
    BY <1>11, RenameStep
  <2>2. disk[Target] \in {job.old, Null}  BY <2>1, Zenon DEF Copies
  <2>3. /\ disk[job.temp].header # Null /\ disk[job.temp].of # Null
        /\ disk[job.temp].of.sections = memory.sections
    <3>1. ~job.err  BY <2>1, Zenon DEF Hands
    <3> QED BY <2>1, <3>1, Zenon DEF Stored
  <2>4. CASE job'.at = "saved"
    <3>1. disk'[Target] = disk[job.temp] /\ disk'[job'.temp] = Null /\ Target # Null
      BY <2>1, <2>4, Names
    <3>2. NewFile(Target)'  BY <2>1, <2>3, <3>1 DEF NewFile
    <3> QED BY <2>4, <3>1, <3>2, Zenon DEF Copies, SaveSteps
  <2>5. CASE job'.at = "discard"
    <3>1. /\ job'.cause = "rename" /\ job.at = "rename" /\ job'.old = job.old
          /\ disk' = disk
      BY <2>1, <2>5
    <3>2. disk'[Target] = job'.old \/ disk'[Target] = Null  BY <2>2, <3>1
    <3> QED BY <2>5, <3>1, <3>2, Zenon DEF Copies, SaveSteps
  <2> QED BY <2>1, <2>4, <2>5
<1>12. CASE LoadingOf
  <2>1. job'.at \in LoadSteps /\ job.at \in LoadSteps /\ job'.old = job.old
    BY <1>12, LoadingStep
  <2>2. \A at \in LoadSteps : /\ at \notin SaveSteps
                             /\ at # "rename" /\ at # "discard" /\ at # "saved"
    BY DEF LoadSteps, SaveSteps
  <2>3. job.old = Null  BY <2>1, <2>2, Zenon DEF Copies
  <2> QED BY <2>1, <2>2, <2>3, Zenon DEF Copies
<1> QED BY <1>2, <1>3, <1>4, <1>5, <1>7, <1>8, <1>9, <1>10, <1>11, <1>12, StepCases

(* One temporary file is in hand at a time.                                 *)
LEMMA OwnStays ==
  ASSUME Removed, \A t \in Temps \ {job.temp} : disk'[t] = disk[t],
         job'.temp = job.temp, crashes' = crashes
  PROVE  Removed'
<1> DEFINE rest == Own(disk) \ {job.temp}
<1>1. Own(disk') \ {job.temp} = rest /\ Own(disk') \subseteq rest \cup {job.temp}  BY DEF Own
<1>2. IsFiniteSet(Own(disk))  BY DEF Removed
<1>3. IsFiniteSet(rest)  BY <1>2, FS_RemoveElement
<1>4. IsFiniteSet(rest \cup {job.temp})  BY <1>3, FS_AddElement
<1>5. IsFiniteSet(Own(disk'))  BY <1>1, <1>4, FS_Subset
<1>6. Cardinality(rest) <= crashes  BY DEF Removed
<1> QED BY <1>1, <1>5, <1>6 DEF Removed

(* A file that is removed is one less.                                      *)
LEMMA OwnGoes ==
  ASSUME TypeOK, Removed, Null \notin Temps, job'.temp = Null, crashes' = crashes,
         \A t \in Temps : disk'[t] = disk[t] \/ disk'[t] = Null,
         job.temp \in Temps => disk'[job.temp] = Null
  PROVE  Removed'
<1>1. Own(disk') \subseteq Own(disk) \ {job.temp} /\ Own(disk') \ {Null} = Own(disk')
  BY DEF Own
<1>2. IsFiniteSet(Own(disk))  BY DEF Removed
<1>3. IsFiniteSet(Own(disk) \ {job.temp})  BY <1>2, FS_RemoveElement
<1>4. /\ IsFiniteSet(Own(disk'))
      /\ Cardinality(Own(disk')) <= Cardinality(Own(disk) \ {job.temp})
  BY <1>1, <1>3, FS_Subset
<1>5. Cardinality(Own(disk) \ {job.temp}) \in Nat /\ Cardinality(Own(disk')) \in Nat
  BY <1>3, <1>4, FS_CardinalityType
<1>6. Cardinality(Own(disk) \ {job.temp}) <= crashes /\ crashes \in Nat
  BY DEF Removed, TypeOK
<1>7. Cardinality(Own(disk')) <= crashes'  BY <1>4, <1>5, <1>6
<1> QED BY <1>1, <1>4, <1>7 DEF Removed

(* Every step keeps Removed: a crash leaves one file more at most.          *)
LEMMA RemovedStep ==
  ASSUME TypeOK, Hands, Copies, Removed, [Next]_vars
  PROVE  Removed'
<1>1. /\ job \in Jobs /\ disk \in [Files -> Contents \cup {Null}]
      /\ job.fd \in {Null, job.temp} /\ job.temp \in Temps \cup {Null}
      /\ Temps \subseteq Files /\ Null \notin Temps /\ Target \notin Temps
      /\ job.temp # Null <=> job.at \in WithTemp
  <2>1. job \in Jobs  BY DEF TypeOK
  <2>2. job.temp \in Temps \cup {Null}  BY <2>1 DEF Jobs
  <2> QED BY <2>1, <2>2, Names DEF TypeOK, Hands
<1>2. CASE UNCHANGED vars  BY <1>2 DEF vars, Removed, Own
<1>3. ASSUME NEW s \in Edits, NEW f \in 0..1, Run(s, f) PROVE Removed'
  BY <1>3, OwnStays DEF Run
<1>4. ASSUME job.temp = Null, disk' = disk, job'.temp = Null, crashes' = crashes
      PROVE  Removed'
  BY <1>4, OwnStays
<1>5. CASE Closing
  <2>1. job'.temp = Null  BY <1>5, ClosingStep
  <2>2. ASSUME job.at \notin WithTemp, disk' = disk, crashes' = crashes PROVE Removed'
    BY <1>1, <1>4, <2>1, <2>2
  <2>3. CASE \E ok \in BOOLEAN : Chain(ok)
    <3>1. job.at = "running" /\ disk' = disk /\ crashes' = crashes  BY <2>3 DEF Chain, At
    <3> QED BY <2>2, <3>1 DEF WithTemp, SaveSteps
  <2>4. CASE EndProgram \/ Restart \/ LoadFailed \/ \E b \in Builds : Start(b)
    <3>1. job.at \in {"running", "restart", "failed", "stopped"} /\ disk' = disk
          /\ crashes' = crashes
      BY <2>4 DEF EndProgram, Restart, LoadFailed, Start, At
    <3> QED BY <2>2, <3>1 DEF WithTemp, SaveSteps
  <2>5. CASE Saved
    <3>1. job.at = "saved" /\ disk' = disk /\ crashes' = crashes  BY <2>5 DEF Saved, At
    <3>2. disk[job.temp] = Null  BY <3>1 DEF Copies
    <3> QED BY <1>1, <2>1, <3>1, <3>2, OwnGoes
  <2>6. CASE Discard
    <3>1. job.at = "discard" /\ disk' = [disk EXCEPT ![job.temp] = Null] /\ crashes' = crashes
      BY <2>6 DEF Discard, At
    <3> QED BY <1>1, <2>1, <3>1, OwnGoes
  <2>7. CASE Crash
    <3>1. disk' = disk /\ crashes' = crashes + 1 /\ crashes \in Nat  BY <2>7 DEF Crash, TypeOK
    <3> DEFINE rest == Own(disk) \ {job.temp}
    <3>2. IsFiniteSet(Own(disk)) /\ Cardinality(rest) <= crashes  BY DEF Removed
    <3>3. IsFiniteSet(rest) /\ Cardinality(rest) \in Nat
      BY <3>2, FS_RemoveElement, FS_CardinalityType
    <3>4. /\ IsFiniteSet(rest \cup {job.temp})
          /\ \/ Cardinality(rest \cup {job.temp}) = Cardinality(rest)
             \/ Cardinality(rest \cup {job.temp}) = Cardinality(rest) + 1
      BY <3>3, FS_AddElement
    <3>5. Own(disk) \ {Null} \subseteq rest \cup {job.temp}  OBVIOUS
    <3>6. Cardinality(Own(disk) \ {Null}) <= Cardinality(rest \cup {job.temp})
      BY <3>4, <3>5, FS_Subset
    <3>7. Cardinality(Own(disk) \ {Null}) \in Nat
      BY <3>2, FS_RemoveElement, FS_CardinalityType
    <3> HIDE DEF rest
    <3>8. Cardinality(Own(disk) \ {Null}) <= crashes + 1
      BY <3>1, <3>2, <3>3, <3>4, <3>6, <3>7
    <3> QED BY <2>1, <3>1, <3>2, <3>8 DEF Removed
  <2> QED BY <1>5, <2>3, <2>4, <2>5, <2>6, <2>7 DEF Closing
<1>6. ASSUME NEW stay \in BOOLEAN, BeginSave(stay) PROVE Removed'
  <2>1. job.at = "running" /\ job'.temp = Null /\ disk' = disk /\ crashes' = crashes
    BY <1>6, BeginStep
  <2>2. job.temp = Null  BY <1>1, <2>1 DEF WithTemp, SaveSteps
  <2> QED BY <1>4, <2>1, <2>2
<1>7. ASSUME job'.temp = job.temp, crashes' = crashes,
             \A f \in Files \ {job.fd} : disk'[f] = disk[f]
      PROVE  Removed'
  BY <1>1, <1>7, OwnStays
<1>8. CASE Leading
  <2>1. ASSUME NEW t \in Temps, NEW ok \in BOOLEAN, OpenTemp(t, ok) \/ NoTempName(t)
        PROVE  Removed'
    <3>1. /\ job.at = "open" /\ job'.temp = t /\ crashes' = crashes
          /\ \A f \in Files \ {t} : disk'[f] = disk[f]
      BY <2>1, OpenStep
    <3>2. job.temp = Null  BY <1>1, <3>1 DEF WithTemp, SaveSteps
    <3>3. IsFiniteSet(Own(disk)) /\ Cardinality(Own(disk) \ {Null}) <= crashes
      BY <3>2 DEF Removed
    <3>4. Own(disk) \ {Null} = Own(disk)  BY <1>1 DEF Own
    <3>5. Own(disk') \ {t} \subseteq Own(disk) /\ Own(disk') \subseteq Own(disk) \cup {t}
      BY <1>1, <3>1 DEF Own
    <3>6. /\ IsFiniteSet(Own(disk') \ {t}) /\ Cardinality(Own(disk')\ {t}) <= Cardinality(Own(disk))
      BY <3>3, <3>5, FS_Subset
    <3>7. IsFiniteSet(Own(disk) \cup {t})  BY <3>3, FS_AddElement
    <3>8. IsFiniteSet(Own(disk'))  BY <3>5, <3>7, FS_Subset
    <3>9. Cardinality(Own(disk)) \in Nat /\ Cardinality(Own(disk') \ {t}) \in Nat
          /\ crashes \in Nat
      BY <3>3, <3>6, FS_CardinalityType DEF TypeOK
    <3>10. Cardinality(Own(disk') \ {t}) <= crashes
      BY <3>3, <3>4, <3>6, <3>9
    <3> QED BY <3>1, <3>8, <3>10 DEF Removed
  <2>2. ASSUME NEW room \in {"free", "extended", "none"}, Tables(room) PROVE Removed'
    <3>1. job'.temp = job.temp /\ disk' = disk /\ crashes' = crashes  BY <2>2, TablesStep
    <3> QED BY <1>7, <3>1
  <2>3. ASSUME NEW ok \in BOOLEAN, WriteHeader(ok) PROVE Removed'
    BY <1>7, <2>3, WriteHeaderStep
  <2> QED BY <1>8, <2>1, <2>2, <2>3 DEF Leading
<1>9. CASE Storing
  <2>1. ASSUME NEW ok \in BOOLEAN,
               CharUnmatched(ok) \/ LastCode(ok) \/ EndCode(ok) \/ Pad(ok)
        PROVE  Removed'
    <3>1. /\ job'.temp = job.temp /\ crashes' = crashes
          /\ \A f \in Files \ {job.fd} : disk'[f] = disk[f]
      BY <2>1, CharUnmatchedStep, LastCodeStep, EndCodeStep, PadStep DEF Held, Packed
    <3> QED BY <1>7, <3>1
  <2>2. ASSUME NEW ok \in BOOLEAN, WriteSection(ok) \/ Drain(ok) PROVE Removed'
    <3>1. /\ job'.temp = job.temp /\ crashes' = crashes
          /\ \A f \in Files \ {job.fd} : disk'[f] = disk[f]
      BY <2>2, WriteSectionStep, DrainStep
    <3> QED BY <1>7, <3>1
  <2>3. CASE FirstChar \/ CharMatched
    <3>1. job'.temp = job.temp /\ crashes' = crashes /\ disk' = disk
      BY <2>3, FirstCharStep, CharMatchedStep
    <3> QED BY <1>7, <3>1
  <2>4. CASE NotCompressed
    <3>1. Goto("rereloc") /\ disk' = disk /\ crashes' = crashes  BY <2>4 DEF NotCompressed
    <3>2. job'.temp = job.temp  BY <3>1, GotoStep DEF Steps
    <3> QED BY <1>7, <3>1, <3>2
  <2> QED BY <1>9, <2>1, <2>2, <2>3, <2>4 DEF Storing
<1>10. CASE Rereloc
  <2>1. disk' = disk /\ crashes' = crashes /\ (Goto("discard") \/ Goto("unlink"))
    BY <1>10 DEF Rereloc
  <2>2. job'.temp = job.temp  BY <2>1, GotoStep DEF Steps
  <2> QED BY <1>7, <2>1, <2>2
<1>11. CASE Unlinking
  <2>1. /\ \A f \in Files \ {Target} : disk'[f] = disk[f]
        /\ crashes' = crashes /\ Goto("rename")
    BY <1>11, UnlinkStep
  <2>2. job'.temp = job.temp  BY <2>1, GotoStep DEF Steps
  <2> QED BY <1>1, <2>1, <2>2, OwnStays
<1>12. ASSUME Renaming PROVE Removed'
  <2>1. /\ job'.temp = job.temp /\ crashes' = crashes /\ job.temp \in Temps
        /\ \/ \A f \in Files \ {Target, job.temp} : disk'[f] = disk[f]
           \/ disk' = disk
    BY <1>12, RenameStep
  <2> QED BY <1>1, <2>1, OwnStays
<1>13. CASE LoadingOf
  <2>1. job'.temp = job.temp /\ disk' = disk /\ crashes' = crashes  BY <1>13, LoadingStep
  <2> QED BY <1>7, <2>1
<1> QED BY <1>2, <1>3, <1>5, <1>6, <1>8, <1>9, <1>10, <1>11, <1>12, <1>13, StepCases

(* What is on disk stays what a save leaves there.                          *)
LEMMA Untouched ==
  ASSUME TypeOK, NEW fd \in {job.fd, job.temp}, \A f \in Files \ {fd} : disk'[f] = disk[f]
  PROVE  disk'[Target] = disk[Target]
<1>1. job \in Jobs  BY DEF TypeOK
<1>2. fd \in Temps \cup {Null}  BY <1>1 DEF Jobs
<1> QED BY <1>2, Names

(* While there is no error the temporary file is open.                      *)
LEMMA TempIsOpen ==
  ASSUME TypeOK, Hands, ~job.err, job.at \in WithTemp \ {"saved"}
  PROVE  /\ job.fd # Null /\ job.fd = job.temp /\ job.temp \in Temps /\ job.temp \in Files
         /\ job.temp # Target /\ disk[job.temp] # Null
<1>1. job \in Jobs  BY DEF TypeOK
<1>2. job.temp \in Temps \cup {Null}  BY <1>1 DEF Jobs
<1>3. job.fd # Null /\ job.fd = job.temp /\ disk[job.fd] # Null  BY Zenon DEF Hands
<1> QED BY <1>2, <1>3, Names

(* What a step that writes sections does to the files.                      *)
LEMMA StoringEffect ==
  ASSUME TypeOK, Hands, Storing
  PROVE  /\ job.at \in Packing \cup {"section"}
         /\ job'.at \in Packing \cup {"section", "rereloc"}
         /\ job'.at # "rereloc" => job'.comp = job.comp
         /\ job'.temp = job.temp /\ job'.fd = job.fd /\ (job.err => job'.err)
         /\ memory'.sections = memory.sections /\ memory'.functions = memory.functions
         /\ memory'.relative = memory.relative /\ memory'.channels = memory.channels
         /\ disk'[Target] = disk[Target]
         /\ job.fd # Null => /\ disk'[job.fd].header = disk[job.fd].header
                             /\ disk'[job.fd].of = disk[job.fd].of \/ disk'[job.fd].of = memory
<1>1. "section" \in Packing \cup {"section"} /\ "char" \in Packing /\ "end" \in Packing
      /\ "drain" \in Packing
  BY DEF Packing
<1>2. ASSUME NEW ok \in BOOLEAN,
             CharUnmatched(ok) \/ LastCode(ok) \/ EndCode(ok) \/ Pad(ok)
      PROVE  /\ job.at \in {"section", "char", "end", "drain"}
             /\ job'.at \in {"section", "char", "end", "drain"}
             /\ Held /\ memory' = memory /\ \A f \in Files \ {job.fd} : disk'[f] = disk[f]
             /\ job.fd # Null => /\ disk'[job.fd].header = disk[job.fd].header
                                 /\ \/ disk'[job.fd].of = disk[job.fd].of
                                    \/ disk'[job.fd].of = memory
  BY <1>2, CharUnmatchedStep, LastCodeStep, EndCodeStep, PadStep DEF Packed
<1>3. ASSUME NEW ok \in BOOLEAN,
             CharUnmatched(ok) \/ LastCode(ok) \/ EndCode(ok) \/ Pad(ok)
      PROVE  /\ job.at \in Packing \cup {"section"}
             /\ job'.at \in Packing \cup {"section", "rereloc"}
             /\ job'.comp = job.comp
             /\ job'.temp = job.temp /\ job'.fd = job.fd /\ job'.err = job.err
             /\ memory' = memory
             /\ disk'[Target] = disk[Target]
             /\ job.fd # Null => /\ disk'[job.fd].header = disk[job.fd].header
                                 /\ \/ disk'[job.fd].of = disk[job.fd].of
                                    \/ disk'[job.fd].of = memory
  <2>1. disk'[Target] = disk[Target]  BY <1>2, <1>3, Untouched
  <2> QED BY <1>1, <1>2, <1>3, <2>1 DEF Held
<1>4. ASSUME NEW ok \in BOOLEAN, WriteSection(ok)
      PROVE  /\ job.at = "section" /\ job'.at = "section" /\ job'.comp = job.comp
             /\ job'.temp = job.temp /\ job'.fd = job.fd /\ (job.err => job'.err)
             /\ memory' = memory
             /\ disk'[Target] = disk[Target]
             /\ job.fd # Null => /\ disk'[job.fd].header = disk[job.fd].header
                                 /\ \/ disk'[job.fd].of = disk[job.fd].of
                                    \/ disk'[job.fd].of = memory
  <2>1. \A f \in Files \ {job.fd} : disk'[f] = disk[f]  BY <1>4, WriteSectionStep
  <2>2. disk'[Target] = disk[Target]  BY <2>1, Untouched
  <2> QED BY <1>4, <2>2, WriteSectionStep
<1>5. ASSUME NEW ok \in BOOLEAN, Drain(ok)
      PROVE  /\ job.at = "drain" /\ job'.at = "rereloc"
             /\ job'.temp = job.temp /\ job'.fd = job.fd /\ job'.err = job.err
             /\ memory'.sections = memory.sections /\ memory'.functions = memory.functions
             /\ memory'.relative = memory.relative /\ memory'.channels = memory.channels
             /\ disk'[Target] = disk[Target]
             /\ job.fd # Null => /\ disk'[job.fd].header = disk[job.fd].header
                                 /\ \/ disk'[job.fd].of = disk[job.fd].of
                                    \/ disk'[job.fd].of = memory
  <2>1. \A f \in Files \ {job.fd} : disk'[f] = disk[f]  BY <1>5, DrainStep
  <2>2. disk'[Target] = disk[Target]  BY <2>1, Untouched
  <2>3. memory' = [memory EXCEPT !.extra = 0] /\ memory \in Memories
    BY <1>5, DrainStep DEF TypeOK
  <2>4. /\ memory'.sections = memory.sections /\ memory'.functions = memory.functions
        /\ memory'.relative = memory.relative /\ memory'.channels = memory.channels
    BY <2>3 DEF Memories
  <2> QED BY <1>5, <2>2, <2>4, DrainStep
<1>6. CASE FirstChar \/ CharMatched
  <2>1. /\ job.at \in {"section", "char"} /\ job'.at \in {"section", "char"}
        /\ job'.comp = job.comp /\ job'.temp = job.temp /\ job'.fd = job.fd
        /\ job'.err = job.err /\ memory' = memory /\ disk' = disk
    BY <1>6, FirstCharStep, CharMatchedStep
  <2> QED BY <1>1, <2>1
<1>7. CASE NotCompressed
  <2>1. job.at = "section" /\ Goto("rereloc") /\ disk' = disk /\ memory' = memory
    BY <1>7 DEF NotCompressed, At
  <2>2. job'.at = "rereloc" /\ job'.temp = job.temp /\ job'.fd = job.fd /\ job'.err = job.err
    BY <2>1, GotoStep DEF Steps
  <2> QED BY <1>1, <2>1, <2>2
<1>8. CASE \E ok \in BOOLEAN : CharUnmatched(ok) \/ LastCode(ok) \/ EndCode(ok) \/ Pad(ok)
  BY <1>3, <1>8
<1>9. CASE \E ok \in BOOLEAN : WriteSection(ok)  BY <1>1, <1>4, <1>9
<1>10. CASE \E ok \in BOOLEAN : Drain(ok)
  <2>1. PICK ok \in BOOLEAN : Drain(ok)  BY <1>10
  <2> QED BY <1>1, <1>5, <2>1
<1> QED BY <1>6, <1>7, <1>8, <1>9, <1>10 DEF Storing

(* Every step keeps Stored.                                                 *)
LEMMA StoredStep ==
  ASSUME TypeOK, Hands, Restored, Stored, [Next]_vars
  PROVE  Stored'
<1>1. /\ job \in Jobs /\ disk \in [Files -> Contents \cup {Null}] /\ memory \in Memories
      /\ job.temp \in Temps \cup {Null} /\ Target \in Files /\ Target # job.temp
      /\ Target \notin Temps
  <2>1. job \in Jobs  BY DEF TypeOK
  <2>2. job.temp \in Temps \cup {Null}  BY <2>1 DEF Jobs
  <2> QED BY <2>1, <2>2, Names DEF TypeOK
<1>2. CASE UNCHANGED vars  BY <1>2 DEF vars, Stored
<1>3. ASSUME disk'[Target] = disk[Target],
             job'.at \notin Packing \cup {"section", "rereloc", "unlink", "rename"}
      PROVE  Stored'
  BY <1>3, Zenon DEF Stored
<1>4. ASSUME NEW s \in Edits, NEW f \in 0..1, Run(s, f) PROVE Stored'
  BY <1>3, <1>4 DEF Run, At, Packing
<1>5. CASE Closing
  <2>1. job'.at \in {"running", "stopped", "peek"}  BY <1>5, ClosingStep
  <2>2. disk' = disk \/ disk' = [disk EXCEPT ![job.temp] = Null]
    BY <1>5 DEF Closing, Chain, EndProgram, Crash, Saved, Restart, LoadFailed, Discard, Start
  <2>3. disk'[Target] = disk[Target]  BY <1>1, <2>2
  <2> QED BY <1>3, <2>1, <2>3 DEF Packing
<1>6. ASSUME NEW stay \in BOOLEAN, BeginSave(stay) PROVE Stored'
  BY <1>3, <1>6, BeginStep DEF Packing
<1>7. CASE Leading
  <2>1. ASSUME NEW t \in Temps, NEW ok \in BOOLEAN, OpenTemp(t, ok) \/ NoTempName(t)
        PROVE  Stored'
    <3>1. job'.at = "tables" /\ \A f \in Files \ {t} : disk'[f] = disk[f]
      BY <2>1, OpenStep
    <3> QED BY <1>1, <1>3, <3>1 DEF Packing
  <2>2. ASSUME NEW room \in {"free", "extended", "none"}, Tables(room) PROVE Stored'
    BY <1>3, <2>2, TablesStep DEF Packing
  <2>3. ASSUME NEW ok \in BOOLEAN, WriteHeader(ok) PROVE Stored'
    <3>1. /\ job.at = "header" /\ job'.at = "section"
          /\ job'.temp = job.temp /\ memory' = memory /\ (job.err => job'.err)
          /\ \A f \in Files \ {job.fd} : disk'[f] = disk[f]
          /\ ~job'.err => /\ disk'[job.fd].header =
                               [comp |-> job.comp, build |-> build,
                                sizes |-> SizesOf(memory.sections)]
                          /\ disk'[job.fd].header # Null
                          /\ disk'[job.fd].of = memory
      BY <2>3, WriteHeaderStep DEF SizesOf
    <3>2. disk'[Target] = disk[Target]  BY <3>1, Untouched
    <3>3. memory.relative /\ memory.channels = "closed"
      BY <3>1, Zenon DEF Restored, SaveSteps
    <3>4. memory # Null
      <4>1. memory.relative \in BOOLEAN  BY <1>1 DEF Memories
      <4> QED BY <1>1, Names
    <3>5. ASSUME ~job'.err
          PROVE  /\ disk'[job'.temp].header # Null
                 /\ disk'[job'.temp].of = memory
                 /\ disk'[job'.temp].header.sizes = SizesOf(memory'.sections)
      <4>1. ~job.err  BY <3>1, <3>5, Zenon
      <4>2. job.fd = job.temp  BY <3>1, <4>1, TempIsOpen DEF WithTemp, SaveSteps
      <4> QED BY <3>1, <3>5, <4>2
    <3>6. ASSUME ~job'.err
          PROVE  /\ disk'[job'.temp].header # Null
                 /\ disk'[job'.temp].of # Null /\ disk'[job'.temp].of.relative
                 /\ disk'[job'.temp].of.channels = "closed"
                 /\ disk'[job'.temp].of.sections = memory'.sections
                 /\ disk'[job'.temp].of.functions = memory'.functions
                 /\ disk'[job'.temp].header.sizes = SizesOf(memory'.sections)
      BY <3>1, <3>3, <3>4, <3>5, <3>6, Zenon
    <3> QED BY <3>2, <3>6, Zenon DEF Stored
  <2> QED BY <1>7, <2>1, <2>2, <2>3 DEF Leading
<1>8. CASE Storing
  <2>1. /\ job.at \in Packing \cup {"section"}
        /\ job'.at \in Packing \cup {"section", "rereloc"}
        /\ job'.temp = job.temp /\ (job.err => job'.err)
        /\ memory'.sections = memory.sections /\ memory'.functions = memory.functions
        /\ disk'[Target] = disk[Target]
        /\ job.fd # Null => /\ disk'[job.fd].header = disk[job.fd].header
                            /\ disk'[job.fd].of = disk[job.fd].of \/ disk'[job.fd].of = memory
    BY <1>8, StoringEffect
  <2>2. memory.relative /\ memory.channels = "closed" /\ memory # Null
    <3>1. memory.relative /\ memory.channels = "closed"
      BY <2>1, Zenon DEF Restored, SaveSteps, Packing
    <3> QED BY <1>1, <3>1, Names
  <2>3. ASSUME ~job'.err
        PROVE  /\ disk'[job'.temp].header # Null
               /\ disk'[job'.temp].of # Null /\ disk'[job'.temp].of.relative
               /\ disk'[job'.temp].of.channels = "closed"
               /\ disk'[job'.temp].of.sections = memory'.sections
               /\ disk'[job'.temp].of.functions = memory'.functions
               /\ disk'[job'.temp].header.sizes = SizesOf(memory'.sections)
    <3>1. ~job.err  BY <2>1, <2>3, Zenon
    <3>2. job.fd # Null /\ job.fd = job.temp
      BY <2>1, <3>1, TempIsOpen DEF WithTemp, SaveSteps, Packing
    <3>3. /\ disk[job.temp].header # Null
          /\ disk[job.temp].of # Null /\ disk[job.temp].of.relative
          /\ disk[job.temp].of.channels = "closed"
          /\ disk[job.temp].of.sections = memory.sections
          /\ disk[job.temp].of.functions = memory.functions
          /\ disk[job.temp].header.sizes = SizesOf(memory.sections)
      BY <2>1, <3>1, Zenon DEF Stored
    <3>4. SizesOf(memory'.sections) = SizesOf(memory.sections)  BY <2>1, Zenon
    <3> QED BY <2>1, <2>2, <3>2, <3>3, <3>4, Zenon
  <2> QED BY <2>1, <2>3, Zenon DEF Stored
<1>9. CASE Rereloc
  <2>1. /\ job.at = "rereloc" /\ disk' = disk /\ memory' = [memory EXCEPT !.relative = FALSE]
        /\ Goto("discard") \/ Goto("unlink")
    BY <1>9 DEF Rereloc, At
  <2>2. /\ job'.at \in {"discard", "unlink"} /\ job'.temp = job.temp /\ job'.err = job.err
    BY <2>1, GotoStep DEF Steps
  <2>3. memory'.sections = memory.sections /\ memory'.functions = memory.functions
    BY <1>1, <2>1 DEF Memories
  <2>4. SizesOf(memory'.sections) = SizesOf(memory.sections)  BY <2>3, Zenon
  <2> QED BY <2>1, <2>2, <2>3, <2>4, Zenon DEF Stored, Packing
<1>10. CASE Unlinking
  <2>1. /\ job.at = "unlink" /\ Goto("rename") /\ memory' = memory
        /\ disk'[Target] = Null \/ disk'[Target] = disk[Target]
        /\ \A f \in Files \ {Target} : disk'[f] = disk[f]
    BY <1>10, UnlinkStep
  <2>2. job'.at = "rename" /\ job'.temp = job.temp /\ job'.err = job.err
    BY <2>1, GotoStep DEF Steps
  <2>3. ~job.err  BY <2>1, Zenon DEF Hands
  <2>4. disk'[job.temp] = disk[job.temp]
    <3>1. job.temp \in Files  BY <2>1, <2>3, TempIsOpen DEF WithTemp, SaveSteps
    <3> QED BY <1>1, <2>1, <3>1
  <2> QED BY <2>1, <2>2, <2>4, Zenon DEF Stored
<1>11. ASSUME Renaming PROVE Stored'
  <2>1. /\ job.at = "rename" /\ job'.at \in {"saved", "discard"}
        /\ disk'[Target] = disk[job.temp] \/ disk' = disk
    BY <1>11, RenameStep
  <2>2. ~job.err  BY <2>1, Zenon DEF Hands
  <2>3. /\ disk[job.temp].of # Null /\ disk[job.temp].of.relative
        /\ disk[job.temp].of.channels = "closed" /\ disk[job.temp].header # Null
    BY <2>1, <2>2, Zenon DEF Stored
  <2>4. job'.at \notin Packing \cup {"section", "rereloc", "unlink", "rename"}
    BY <2>1 DEF Packing
  <2> QED BY <2>1, <2>3, <2>4, Zenon DEF Stored
<1>12. CASE LoadingOf
  <2>1. job'.at \in LoadSteps /\ disk' = disk  BY <1>12, LoadingStep
  <2> QED BY <1>3, <2>1 DEF LoadSteps, Packing
<1> QED BY <1>2, <1>4, <1>5, <1>6, <1>7, <1>8, <1>9, <1>10, <1>11, <1>12, StepCases

(* A file that is not compressed goes on holding characters.                *)
LEMMA PlainStep ==
  ASSUME TypeOK, Hands, Stored, Plain, [Next]_vars
  PROVE  Plain'
<1>1. /\ job \in Jobs /\ disk \in [Files -> Contents \cup {Null}]
      /\ job.temp \in Temps \cup {Null} /\ Target \in Files /\ Target # job.temp
      /\ Target \notin Temps
  <2>1. job \in Jobs  BY DEF TypeOK
  <2>2. job.temp \in Temps \cup {Null}  BY <2>1 DEF Jobs
  <2> QED BY <2>1, <2>2, Names DEF TypeOK
<1>2. CASE UNCHANGED vars  BY <1>2 DEF vars, Plain
<1>3. ASSUME disk'[Target] = disk[Target],
             job'.at \notin Packing \cup {"tables", "header", "section", "rereloc", "unlink",
                                          "rename"}
      PROVE  Plain'
  BY <1>3, Zenon DEF Plain
<1>4. ASSUME NEW s \in Edits, NEW f \in 0..1, Run(s, f) PROVE Plain'
  BY <1>3, <1>4 DEF Run, At, Packing
<1>5. CASE Closing
  <2>1. job'.at \in {"running", "stopped", "peek"}  BY <1>5, ClosingStep
  <2>2. disk' = disk \/ disk' = [disk EXCEPT ![job.temp] = Null]
    BY <1>5 DEF Closing, Chain, EndProgram, Crash, Saved, Restart, LoadFailed, Discard, Start
  <2>3. disk'[Target] = disk[Target]  BY <1>1, <2>2
  <2> QED BY <1>3, <2>1, <2>3 DEF Packing
<1>6. ASSUME NEW stay \in BOOLEAN, BeginSave(stay) PROVE Plain'
  BY <1>3, <1>6, BeginStep DEF Packing
<1>7. CASE Leading
  <2>1. ASSUME NEW t \in Temps, NEW ok \in BOOLEAN, OpenTemp(t, ok) \/ NoTempName(t)
        PROVE  Plain'
    <3>1. /\ job'.at = "tables" /\ job'.temp = t /\ \A f \in Files \ {t} : disk'[f] = disk[f]
          /\ \/ disk'[t].units = <<>> /\ disk'[t].lost = FALSE
             \/ job'.err = TRUE
      BY <2>1, OpenStep
    <3>2. disk'[Target] = disk[Target]  BY <1>1, <3>1
    <3> QED BY <3>1, <3>2, Zenon DEF Plain, Packing
  <2>2. ASSUME NEW room \in {"free", "extended", "none"}, Tables(room) PROVE Plain'
    <3>1. /\ job.at = "tables" /\ job'.at = "header" /\ job'.temp = job.temp /\ disk' = disk
          /\ job'.err = job.err
      BY <2>2, TablesStep
    <3> QED BY <3>1, Zenon DEF Plain, Packing
  <2>3. ASSUME NEW ok \in BOOLEAN, WriteHeader(ok) PROVE Plain'
    <3>1. /\ job.at = "header" /\ job'.at = "section"
          /\ job'.temp = job.temp /\ (job.err => job'.err) /\ job'.comp = job.comp
          /\ \A f \in Files \ {job.fd} : disk'[f] = disk[f]
          /\ (job.fd # Null => disk'[job.fd].units = disk[job.fd].units)
      BY <2>3, WriteHeaderStep
    <3>2. disk'[Target] = disk[Target]  BY <3>1, Untouched
    <3>3. ASSUME ~job'.err
          PROVE  /\ disk'[job'.temp].units = <<>>
                 /\ disk'[job'.temp].header.comp = job'.comp
      <4>1. ~job.err  BY <3>1, <3>3, Zenon
      <4>2. job.fd = job.temp /\ job.fd # Null
        BY <3>1, <4>1, TempIsOpen DEF WithTemp, SaveSteps
      <4>3. disk[job.temp].units = <<>>  BY <3>1, <4>1, Zenon DEF Plain
      <4>4. disk'[job.fd].header = [comp |-> job.comp, build |-> build,
                                    sizes |-> SizesOf(memory.sections)]
        BY <2>3, <3>3, WriteHeaderStep DEF SizesOf
      <4> QED BY <3>1, <4>2, <4>3, <4>4
    <3>4. <<>> \in Seq(Character)  OBVIOUS
    <3>5. ~job'.err =>
            /\ disk'[job'.temp].header.comp \/ disk'[job'.temp].units \in Seq(Character)
            /\ disk'[job'.temp].header.comp <=> job'.comp
      BY <3>3, <3>4, Zenon
    <3> QED BY <3>1, <3>2, <3>5, Zenon DEF Plain
  <2> QED BY <1>7, <2>1, <2>2, <2>3 DEF Leading
<1>8. CASE Storing
  <2>1. /\ job.at \in Packing \cup {"section"}
        /\ job'.at \in Packing \cup {"section", "rereloc"}
        /\ job'.at # "rereloc" => job'.comp = job.comp
        /\ job'.temp = job.temp /\ (job.err => job'.err)
        /\ disk'[Target] = disk[Target]
        /\ job.fd # Null => disk'[job.fd].header = disk[job.fd].header
    BY <1>8, StoringEffect
  <2>2. ASSUME ~job'.err
        PROVE  /\ disk'[job'.temp].header.comp \/ disk'[job'.temp].units \in Seq(Character)
               /\ job'.at # "rereloc" => (disk'[job'.temp].header.comp <=> job'.comp)
    <3>1. ~job.err  BY <2>1, <2>2, Zenon
    <3>2. job.fd # Null /\ job.fd = job.temp
      BY <2>1, <3>1, TempIsOpen DEF WithTemp, SaveSteps, Packing
    <3>3. /\ disk[job.temp].header.comp \/ disk[job.temp].units \in Seq(Character)
          /\ disk[job.temp].header.comp <=> job.comp
      BY <2>1, <3>1, Zenon DEF Plain
    <3>4. disk'[job'.temp].header = disk[job.temp].header  BY <2>1, <3>2
    <3>5. job'.at # "rereloc" => (disk'[job'.temp].header.comp <=> job'.comp)
      BY <2>1, <3>3, <3>4, Zenon
    <3>6. CASE job.comp
      BY <3>3, <3>4, <3>5, <3>6, Zenon
    <3>7. CASE ~job.comp
      <4>1. disk[job.temp].units \in Seq(Character)  BY <3>3, <3>7, Zenon
      <4>2. job.at = "section"  BY <2>1, <3>7, Zenon DEF Hands
      <4>3. (\E ok \in BOOLEAN : WriteSection(ok)) \/ NotCompressed
        <5>1. ~FirstChar  BY <3>7, Zenon DEF FirstChar
        <5>2. ~CharMatched  BY <4>2 DEF CharMatched, At
        <5>3. ASSUME NEW ok \in BOOLEAN
              PROVE  ~CharUnmatched(ok) /\ ~LastCode(ok) /\ ~EndCode(ok) /\ ~Drain(ok)
          BY <4>2 DEF CharUnmatched, LastCode, EndCode, Drain, At
        <5>4. ASSUME NEW ok \in BOOLEAN PROVE ~Pad(ok)  BY <3>7, Zenon DEF Pad
        <5> QED BY <1>8, <5>1, <5>2, <5>3, <5>4, Zenon DEF Storing
      <4>4. CASE NotCompressed
        <5>1. disk' = disk  BY <4>4 DEF NotCompressed
        <5> QED BY <2>1, <3>5, <4>1, <5>1, Zenon
      <4>5. CASE \E ok \in BOOLEAN : WriteSection(ok)
        <5>1. PICK ok \in BOOLEAN : WriteSection(ok)  BY <4>5
        <5>2. disk'[job.fd].units = disk[job.fd].units \o Section /\ ~LastSection
          BY <2>2, <5>1, WriteSectionStep
        <5>3. Section \in Seq(Character)  BY <5>2, SectionType
        <5>4. disk[job.fd].units \o Section \in Seq(Character)
          BY <3>2, <4>1, <5>3, ConcatProperties
        <5>5. disk'[job'.temp].units \in Seq(Character)  BY <2>1, <3>2, <5>2, <5>4
        <5> QED BY <3>5, <5>5, Zenon
      <4> QED BY <4>3, <4>4, <4>5
    <3> QED BY <3>6, <3>7
  <2> QED BY <2>1, <2>2, Zenon DEF Plain, Packing
<1>9. CASE Rereloc
  <2>1. /\ job.at = "rereloc" /\ disk' = disk
        /\ Goto("discard") \/ Goto("unlink")
    BY <1>9 DEF Rereloc, At
  <2>2. /\ job'.at \in {"discard", "unlink"} /\ job'.temp = job.temp /\ job'.err = job.err
    BY <2>1, GotoStep DEF Steps
  <2> QED BY <2>1, <2>2, Zenon DEF Plain, Packing
<1>10. CASE Unlinking
  <2>1. /\ job.at = "unlink" /\ Goto("rename") /\ memory' = memory
        /\ disk'[Target] = Null \/ disk'[Target] = disk[Target]
        /\ \A f \in Files \ {Target} : disk'[f] = disk[f]
    BY <1>10, UnlinkStep
  <2>2. job'.at = "rename" /\ job'.temp = job.temp /\ job'.err = job.err
    BY <2>1, GotoStep DEF Steps
  <2>3. ~job.err  BY <2>1, Zenon DEF Hands
  <2>4. disk'[job.temp] = disk[job.temp]
    <3>1. job.temp \in Files  BY <2>1, <2>3, TempIsOpen DEF WithTemp, SaveSteps
    <3> QED BY <1>1, <2>1, <3>1
  <2> QED BY <2>1, <2>2, <2>4, Zenon DEF Plain, Packing
<1>11. ASSUME Renaming PROVE Plain'
  <2>1. /\ job.at = "rename" /\ job'.at \in {"saved", "discard"}
        /\ disk'[Target] = disk[job.temp] \/ disk' = disk
    BY <1>11, RenameStep
  <2>2. ~job.err  BY <2>1, Zenon DEF Hands
  <2>3. disk[job.temp].header.comp \/ disk[job.temp].units \in Seq(Character)
    BY <2>1, <2>2, Zenon DEF Plain
  <2> QED BY <2>1, <2>3, Zenon DEF Plain, Packing
<1>12. CASE LoadingOf
  <2>1. job'.at \in LoadSteps /\ disk' = disk  BY <1>12, LoadingStep
  <2> QED BY <1>3, <2>1 DEF LoadSteps, Packing
<1> QED BY <1>2, <1>4, <1>5, <1>6, <1>7, <1>8, <1>9, <1>10, <1>11, <1>12, StepCases

-----------------------------------------------------------------------------
(* The inductive invariant, but for what the files say.                     *)
Consistent ==
  /\ TypeOK /\ Hands /\ Loading /\ Restored /\ Stored /\ Plain /\ Copies /\ Removed

(* It holds at first.                                                       *)
LEMMA Initially ==
  ASSUME Init
  PROVE  Consistent
<1>1. PICK s \in Images : memory = [Blank EXCEPT !.sections = s, !.channels = "open"]
  BY DEF Init
<1>2. PICK taken \in {{}, Temps} : disk = [f \in Files |-> IF f \in taken THEN Foreign ELSE Null]
  BY DEF Init
<1>3. job = Quiet("running") /\ build \in Builds /\ faults = 0 /\ saves = 0 /\ crashes = 0
  BY DEF Init
<1>4. memory \in Memories /\ ~memory.relative /\ memory.extra = 0
  <2>1. s \in Seq(Seq(Character))  BY SaveImageAssumption
  <2>2. memory \in Memories  BY <1>1, <2>1, BlankType DEF Memories
  <2>3. memory.relative = FALSE /\ memory.extra = 0  BY <1>1 DEF Blank
  <2> QED BY <2>2, <2>3
<1>5. disk \in [Files -> Contents \cup {Null}] /\ disk[Target] = Null /\ Own(disk) = {}
  <2>1. Foreign \in Contents
    <3>1. <<>> \in Seq(Code)  OBVIOUS
    <3> QED BY <3>1 DEF Foreign, Contents
  <2>2. Target \notin taken  BY Names
  <2> QED BY <1>2, <2>1, <2>2, Names DEF Own
<1>6. /\ job.at = "running" /\ job.fd = Null /\ job.temp = Null /\ job.comp = FALSE
      /\ job.coder = Started(0) /\ job.buf = <<>> /\ job.old = Null
  BY <1>3 DEF Quiet
<1>7. job \in Jobs /\ Len(job.buf) <= BuffSize
  BY <1>3, <1>6, QuietType, Names DEF Steps
<1>8. TypeOK  BY <1>3, <1>4, <1>5, <1>7, Names DEF TypeOK
<1>9. Hands
  <2>1. NextCode(job.coder.table) <= MaxCode  BY <1>6, StartedType, CodeNumbers
  <2> QED BY <1>6, <2>1, Zenon DEF Hands, WithTemp, SaveSteps, Packing
<1>10. Loading  BY <1>6, Zenon DEF Loading, LoadSteps, Checked
<1>11. Restored  BY <1>4, <1>6, Zenon DEF Restored, SaveSteps
<1>12. Stored /\ Plain  BY <1>5, <1>6, Zenon DEF Stored, Plain, Packing
<1>13. Copies  BY <1>6, Zenon DEF Copies, SaveSteps
<1>14. Removed
  <2>1. Own(disk) \ {job.temp} = {}  BY <1>5
  <2> QED BY <1>3, <1>5, <2>1, FS_EmptySet DEF Removed
<1> QED BY <1>8, <1>9, <1>10, <1>11, <1>12, <1>13, <1>14 DEF Consistent

(* Every step keeps it.                                                     *)
LEMMA ConsistentStep ==
  ASSUME Consistent, [Next]_vars
  PROVE  Consistent'
BY TypeStep, HandsStep, LoadingKept, RestoredStep, StoredStep, PlainStep, CopiesStep,
   RemovedStep DEF Consistent

(* Every state of a program that saves and is restarted is consistent.      *)
THEOREM AlwaysConsistent == Spec => []Consistent
<1>1. Init => Consistent  BY Initially
<1>2. Consistent /\ [Next]_vars => Consistent'  BY ConsistentStep
<1> QED BY <1>1, <1>2, PTL DEF Spec

(* The state has its type.                                                  *)
THEOREM TypeCorrect == Spec => []TypeOK
<1>1. Consistent => TypeOK  BY DEF Consistent
<1> QED BY <1>1, AlwaysConsistent, PTL

(* The program never runs with offsets for pointers or an extended heap,    *)
(* and no save file holds pointers or open channels: putsave undoes unreloc *)
(* whatever the writes did, and zysxi closes the channels first.            *)
THEOREM PointersComeBack == Spec => []PointersRestored
<1>1. Consistent => PointersRestored
  <2>1. ASSUME Restored, Stored PROVE PointersRestored
    BY <2>1, Zenon DEF PointersRestored, At, Restored, Stored
  <2> QED BY <2>1 DEF Consistent
<1> QED BY <1>1, AlwaysConsistent, PTL

(* Every temporary file that outlives its save was left by a crash:         *)
(* closeaout removes the file of a save that failed.                        *)
THEOREM TempsGo == Spec => []TempsRemoved
<1>1. Consistent => TempsRemoved
  <2>1. ASSUME TypeOK, Hands, Removed, job.at \in {"running", "stopped"}
        PROVE  Cardinality({t \in Temps : disk[t] \notin {Null, Foreign}}) <= crashes
    <3>1. job.temp = Null  BY <2>1 DEF Hands, WithTemp, SaveSteps
    <3>2. Own(disk) \ {job.temp} = Own(disk)  BY <3>1, Names DEF Own
    <3> QED BY <2>1, <3>2 DEF Removed, Own
  <2> QED BY <2>1 DEF Consistent, TempsRemoved
<1> QED BY <1>1, AlwaysConsistent, PTL

-----------------------------------------------------------------------------
(* A load of a file with these units, when no system call fails: what the   *)
(* reader is at, and its next step.                                         *)
Readers == [at : {"load", "codes"}, sec : Nat \ {0}, i : Nat \ {0}, decoder : Decoder,
            out : Seq(Seq(Character))]

Beginning == [at |-> "load", sec |-> 1, i |-> 1, decoder |-> FirstRead(0), out |-> <<>>]

ReadsSection(units, sizes, comp, s, t) ==
  /\ s.at = "load" /\ s.sec <= Len(sizes) /\ (~comp \/ sizes[s.sec] = 0)
  /\ s.i + sizes[s.sec] - 1 <= Len(units)
  /\ t = [at |-> "load", sec |-> s.sec + 1, i |-> s.i + sizes[s.sec], decoder |-> s.decoder,
          out |-> Append(s.out, SubSeq(units, s.i, s.i + sizes[s.sec] - 1))]

ReadsFirst(units, sizes, comp, s, t) ==
  /\ s.at = "load" /\ s.sec <= Len(sizes) /\ comp /\ sizes[s.sec] > 0
  /\ s.i <= Len(units) /\ units[s.i] < FirstCode
  /\ t = [at |-> "codes", sec |-> s.sec, i |-> s.i + 1, decoder |-> FirstRead(units[s.i]),
          out |-> Append(s.out, <<units[s.i] % FirstCode>>)]

ReadsCode(units, s, t) ==
  /\ s.at = "codes" /\ s.i <= Len(units) /\ units[s.i] # MaxValue
  /\ Decodable(s.decoder.table, Looked(s.decoder, units[s.i]), DecodeLimit)
  /\ t = [at |-> "codes", sec |-> s.sec, i |-> s.i + 1,
          decoder |-> Read(s.decoder, units[s.i], Decoded(s.decoder, units[s.i], DecodeLimit)),
          out |-> [s.out EXCEPT ![s.sec] = @ \o Decoded(s.decoder, units[s.i], DecodeLimit)]]

ReadsEnd(units, sizes, s, t) ==
  /\ s.at = "codes" /\ s.i <= Len(units) /\ units[s.i] = MaxValue
  /\ Len(s.out[s.sec]) = sizes[s.sec]
  /\ t = [at |-> "load", sec |-> s.sec + 1, i |-> s.i + 1, decoder |-> s.decoder,
          out |-> s.out]

Reads(units, sizes, comp, s, t) ==
  \/ ReadsSection(units, sizes, comp, s, t) \/ ReadsFirst(units, sizes, comp, s, t)
  \/ ReadsCode(units, s, t) \/ ReadsEnd(units, sizes, s, t)

(* The steps of a reader that gets as far as f.                             *)
Reaches(G, units, sizes, comp, f) ==
  /\ G \subseteq Readers /\ Beginning \in G /\ f \in G
  /\ \A s \in G : s = f \/ \E t \in G : Reads(units, sizes, comp, s, t)

(* A reader that has read all sections.                                     *)
Finished(f, sections) ==
  f.at = "load" /\ f.sec = Len(sections) + 1 /\ f.out = sections

(* What is in the front part of a file stays readable when more is written. *)
LEMMA ReadsMore ==
  ASSUME NEW units \in Seq(Code), NEW more \in Seq(Code), NEW sizes, NEW comp,
         NEW s \in Readers, s.at = "load" /\ s.sec <= Len(sizes) => sizes[s.sec] \in Nat,
         NEW t, Reads(units, sizes, comp, s, t)
  PROVE  Reads(units \o more, sizes, comp, s, t)
<1> DEFINE all == units \o more
<1>1. /\ Len(units) \in Nat /\ Len(all) \in Nat /\ Len(units) <= Len(all)
      /\ all \in Seq(Code)
      /\ \A k \in 1..Len(units) : all[k] = units[k]
  <2>1. /\ all \in Seq(Code) /\ Len(all) = Len(units) + Len(more)
        /\ \A k \in 1 .. Len(units) + Len(more) :
             all[k] = IF k <= Len(units) THEN units[k] ELSE more[k - Len(units)]
    BY ConcatProperties
  <2>2. Len(units) \in Nat /\ Len(more) \in Nat  OBVIOUS
  <2>3. \A k \in 1..Len(units) : k \in 1 .. Len(units) + Len(more) /\ k <= Len(units)  BY <2>2
  <2> HIDE DEF all
  <2> QED BY <2>1, <2>2, <2>3
<1>2. s.i \in Nat \ {0} /\ s.sec \in Nat \ {0}  BY DEF Readers
<1>3. ASSUME s.i <= Len(units) PROVE s.i <= Len(all) /\ all[s.i] = units[s.i]
  <2>1. s.i \in 1..Len(units)  BY <1>1, <1>2, <1>3
  <2> HIDE DEF all
  <2> QED BY <1>1, <1>2, <1>3, <2>1
<1>4. CASE ReadsSection(units, sizes, comp, s, t)
  <2> DEFINE last == s.i + sizes[s.sec] - 1
  <2>1. sizes[s.sec] \in Nat /\ last <= Len(units) /\ last \in Int
    BY <1>2, <1>4 DEF ReadsSection
  <2>2. SubSeq(all, s.i, last) = SubSeq(units, s.i, last)
    <3>1. CASE sizes[s.sec] = 0
      <4>1. last < s.i  BY <1>2, <3>1
      <4> HIDE DEF last, all
      <4> QED BY <1>2, <2>1, <4>1, SubSeqEmpty
    <3>2. CASE sizes[s.sec] # 0
      <4>1. s.i \in 1..Len(units) /\ last \in 1..Len(units)  BY <1>1, <1>2, <2>1, <3>2
      <4> HIDE DEF last
      <4> QED BY <4>1, SubSeqOfConcat1
    <3> QED BY <3>1, <3>2
  <2>3. last <= Len(all)
    <3> HIDE DEF last, all
    <3> QED BY <1>1, <2>1
  <2> HIDE DEF all
  <2>4. ReadsSection(all, sizes, comp, s, t)
    <3>1. s.i + sizes[s.sec] - 1 <= Len(all)  BY <2>3
    <3>2. t = [at |-> "load", sec |-> s.sec + 1, i |-> s.i + sizes[s.sec], decoder |-> s.decoder,
               out |-> Append(s.out, SubSeq(all, s.i, s.i + sizes[s.sec] - 1))]
      BY <1>4, <2>2 DEF ReadsSection
    <3>3. s.at = "load" /\ s.sec <= Len(sizes) /\ (~comp \/ sizes[s.sec] = 0)
      BY <1>4, Zenon DEF ReadsSection
    <3> QED BY <3>1, <3>2, <3>3, Zenon DEF ReadsSection
  <2> QED BY <2>4 DEF Reads, all
<1>5. CASE ReadsFirst(units, sizes, comp, s, t)
  <2>1. s.i <= Len(all) /\ all[s.i] = units[s.i]  BY <1>3, <1>5 DEF ReadsFirst
  <2> HIDE DEF all
  <2>2. ReadsFirst(all, sizes, comp, s, t)  BY <1>5, <2>1, Zenon DEF ReadsFirst
  <2> QED BY <2>2 DEF Reads, all
<1>6. CASE ReadsCode(units, s, t)
  <2>1. s.i <= Len(all) /\ all[s.i] = units[s.i]  BY <1>3, <1>6 DEF ReadsCode
  <2> HIDE DEF all
  <2>2. ReadsCode(all, s, t)  BY <1>6, <2>1, Zenon DEF ReadsCode
  <2> QED BY <2>2 DEF Reads, all
<1>7. CASE ReadsEnd(units, sizes, s, t)
  <2>1. s.i <= Len(all) /\ all[s.i] = units[s.i]  BY <1>3, <1>7 DEF ReadsEnd
  <2> HIDE DEF all
  <2>2. ReadsEnd(all, sizes, s, t)  BY <1>7, <2>1, Zenon DEF ReadsEnd
  <2> QED BY <2>2 DEF Reads, all
<1> QED BY <1>4, <1>5, <1>6, <1>7 DEF Reads

(* A reader gets as far when more is written.                               *)
LEMMA ReachesMore ==
  ASSUME NEW units \in Seq(Code), NEW more \in Seq(Code), NEW sizes \in Seq(Nat), NEW comp,
         NEW G, NEW f, Reaches(G, units, sizes, comp, f)
  PROVE  Reaches(G, units \o more, sizes, comp, f)
<1>1. \A s \in G : s.at = "load" /\ s.sec <= Len(sizes) => sizes[s.sec] \in Nat
  <2> TAKE s \in G
  <2> SUFFICES ASSUME s.sec <= Len(sizes) PROVE sizes[s.sec] \in Nat  OBVIOUS
  <2>1. s.sec \in Nat \ {0}  BY DEF Reaches, Readers
  <2>2. s.sec \in 1..Len(sizes)  BY <2>1
  <2> QED BY <2>2, ElementOfSeq
<1>2. ASSUME NEW s \in G, NEW t \in G, Reads(units, sizes, comp, s, t)
      PROVE  Reads(units \o more, sizes, comp, s, t)
  <2>1. s \in Readers  BY DEF Reaches
  <2>2. s.at = "load" /\ s.sec <= Len(sizes) => sizes[s.sec] \in Nat  BY <1>1
  <2> QED BY <1>2, <2>1, <2>2, ReadsMore
<1> QED BY <1>2, Zenon DEF Reaches

(* One step more.                                                           *)
LEMMA ReachesNext ==
  ASSUME NEW units \in Seq(Code), NEW more \in Seq(Code), NEW sizes \in Seq(Nat), NEW comp,
         NEW G, NEW f, Reaches(G, units, sizes, comp, f),
         NEW t \in Readers, Reads(units \o more, sizes, comp, f, t)
  PROVE  Reaches(G \cup {t}, units \o more, sizes, comp, t)
<1>1. Reaches(G, units \o more, sizes, comp, f)  BY ReachesMore
<1> DEFINE all == units \o more
<1> HIDE DEF all
<1>2. Reaches(G, all, sizes, comp, f) /\ Reads(all, sizes, comp, f, t)  BY <1>1 DEF all
<1>3. Reaches(G \cup {t}, all, sizes, comp, t)  BY <1>2, Zenon DEF Reaches
<1> QED BY <1>3 DEF all

-----------------------------------------------------------------------------
(* Where the reader of what is written so far is when the writer is at this *)
(* step, section, character and coder.                                      *)
Position(f, at, sec, i, coder, sections, next) ==
  /\ sec > Len(sections) => Finished(f, sections)
  /\ sec <= Len(sections) =>
       /\ f.sec = sec /\ f.i = next
       /\ at = "section" => f.at = "load" /\ f.out = SubSeq(sections, 1, sec - 1)
       /\ at = "char" =>
            \E p : /\ Synced(sections[sec], p, i, coder, f.decoder)
                   /\ p = 1 => f.at = "load" /\ f.out = SubSeq(sections, 1, sec - 1)
                   /\ p > 1 => /\ f.at = "codes"
                               /\ f.out = Append(SubSeq(sections, 1, sec - 1),
                                                 SubSeq(sections[sec], 1, p - 1))
       /\ at = "end" => f.at = "codes" /\ f.out = SubSeq(sections, 1, sec)

Ready(units, comp, sections, at, sec, i, coder) ==
  \E G, f : /\ Reaches(G, units, SizesOf(sections), comp, f)
            /\ Position(f, at, sec, i, coder, sections, Len(units) + 1)

Readable(units, comp, sections) ==
  \E G, f : Reaches(G, units, SizesOf(sections), comp, f) /\ Finished(f, sections)

(* The header has the length of each section.                               *)
LEMMA SizesAre ==
  ASSUME NEW sections \in Seq(Seq(Character))
  PROVE  /\ SizesOf(sections) \in Seq(Nat) /\ Len(SizesOf(sections)) = Len(sections)
         /\ \A k \in 1..Len(sections) : SizesOf(sections)[k] = Len(sections[k])
<1> DEFINE n == Len(sections)
           sizes == [k \in 1..n |-> Len(sections[k])]
<1>1. n \in Nat  OBVIOUS
<1>2. \A k \in 1..n : Len(sections[k]) \in Nat  OBVIOUS
<1>3. sizes \in [1..n -> Nat]  BY <1>2
<1>4. /\ SizesOf(sections) = sizes /\ \A k \in 1..n : sizes[k] = Len(sections[k])
      /\ DOMAIN sizes = 1..n
  BY DEF SizesOf
<1>5. \A k \in 1..n : SizesOf(sections)[k] = Len(sections[k])  BY <1>4
<1> HIDE DEF sizes, n
<1>6. sizes \in Seq(Nat)  BY <1>1, <1>3, SeqDef
<1>7. Len(sizes) = n  BY <1>1, <1>4, <1>6
<1> QED BY <1>4, <1>5, <1>6, <1>7 DEF n

(* One unit, at the end of the file.                                        *)
LEMMA OneMore ==
  ASSUME NEW units \in Seq(Code), NEW code \in Code
  PROVE  /\ <<code>> \in Seq(Code) /\ units \o <<code>> \in Seq(Code)
         /\ Len(units \o <<code>>) = Len(units) + 1 /\ Len(units) \in Nat
         /\ (units \o <<code>>)[Len(units) + 1] = code
<1>1. units \o <<code>> = Append(units, code)  BY AppendIsConcat
<1>2. /\ Append(units, code) \in Seq(Code) /\ Len(Append(units, code)) = Len(units) + 1
      /\ Append(units, code)[Len(units) + 1] = code
  BY AppendProperties
<1> QED BY <1>1, <1>2

(* The sections before one of them, and with it.                            *)
LEMMA Before ==
  ASSUME NEW sections \in Seq(Seq(Character)), NEW sec \in 1..Len(sections)
  PROVE  /\ SubSeq(sections, 1, sec - 1) \in Seq(Seq(Character))
         /\ Len(SubSeq(sections, 1, sec - 1)) = sec - 1
         /\ Append(SubSeq(sections, 1, sec - 1), sections[sec]) = SubSeq(sections, 1, sec)
         /\ sections[sec] \in Seq(Character) /\ Len(sections[sec]) \in Nat
         /\ SubSeq(sections, 1, sec) \in Seq(Seq(Character))
         /\ SubSeq(sections, 1, sec)[sec] = sections[sec]
         /\ sec \in Nat \ {0} /\ sec + 1 \in Nat \ {0} /\ (sec + 1) - 1 = sec
         /\ sec + 1 > Len(sections) => sec = Len(sections) /\ SubSeq(sections, 1, sec) = sections
<1> DEFINE T == Seq(Character)
<1> HIDE DEF T
<1>1. sections \in Seq(T) /\ Len(sections) \in Nat /\ sec \in 1..Len(sections) /\ sec \in Nat
  BY DEF T
<1>2. \A k \in 1 .. sec - 1 : sections[k] \in T  BY <1>1
<1>3. /\ SubSeq(sections, 1, sec - 1) \in Seq(T)
      /\ Len(SubSeq(sections, 1, sec - 1)) = IF 1 <= sec - 1 THEN (sec - 1) - 1 + 1 ELSE 0
  BY <1>1, <1>2, SubSeqProperties
<1>4. Len(SubSeq(sections, 1, sec - 1)) = sec - 1  BY <1>1, <1>3
<1>5. sections[sec] \in T  BY <1>1
<1>6. SubSeq(sections, 1, sec) = SubSeq(sections, 1, sec - 1) \o <<sections[sec]>>
  <2>1. 1 \in 1..Len(sections) /\ sec \in 1..Len(sections)  BY <1>1
  <2> QED BY <1>1, <2>1, SubSeqRecursiveSecond
<1>7. Append(SubSeq(sections, 1, sec - 1), sections[sec])
        = SubSeq(sections, 1, sec - 1) \o <<sections[sec]>>
  BY <1>3, <1>5, AppendIsConcat
<1>8. /\ Append(SubSeq(sections, 1, sec - 1), sections[sec]) \in Seq(T)
      /\ Append(SubSeq(sections, 1, sec - 1), sections[sec])[(sec - 1) + 1] = sections[sec]
  BY <1>3, <1>4, <1>5, AppendProperties
<1>9. SubSeq(sections, 1, Len(sections)) = sections  BY <1>1, SubSeqFull
<1>10. (sec - 1) + 1 = sec /\ (sec + 1) - 1 = sec /\ sec \in Nat \ {0} /\ sec + 1 \in Nat \ {0}
       /\ (sec + 1 > Len(sections) => sec = Len(sections))
  BY <1>1
<1>11. Len(sections[sec]) \in Nat  BY <1>5 DEF T
<1> QED BY <1>3, <1>4, <1>5, <1>6, <1>7, <1>8, <1>9, <1>10, <1>11 DEF T

(* The reader has a whole section more.                                     *)
LEMMA NextPosition ==
  ASSUME NEW sections \in Seq(Seq(Character)), NEW sec \in 1..Len(sections), NEW f,
         f.at = "load", f.sec = sec + 1, f.out = SubSeq(sections, 1, sec),
         NEW i, NEW coder, NEW next, f.i = next
  PROVE  Position(f, "section", sec + 1, i, coder, sections, next)
<1>1. CASE sec + 1 > Len(sections)
  <2>1. sec = Len(sections) /\ f.out = sections  BY <1>1, Before
  <2>2. ~(sec + 1 <= Len(sections))  BY <1>1
  <2> QED BY <2>1, <2>2 DEF Position, Finished
<1>2. CASE ~(sec + 1 > Len(sections))
  <2>1. (sec + 1) - 1 = sec  BY Before
  <2> QED BY <1>2, <2>1 DEF Position
<1> QED BY <1>1, <1>2

(* An empty file, before the first section.                                 *)
LEMMA ReadyBegins ==
  ASSUME NEW sections \in Seq(Seq(Character)), NEW comp, NEW i, NEW coder
  PROVE  Ready(<<>>, comp, sections, "section", 1, i, coder)
<1>1. Beginning \in Readers
  <2>1. FirstRead(0) \in Decoder  BY FirstReadType, CodeNumbers
  <2>2. <<>> \in Seq(Seq(Character)) /\ 1 \in Nat \ {0}  OBVIOUS
  <2> QED BY <2>1, <2>2 DEF Beginning, Readers
<1>2. Reaches({Beginning}, <<>>, SizesOf(sections), comp, Beginning)
  BY <1>1, Zenon DEF Reaches
<1>3. Len(<<>>) + 1 = 1 /\ Len(sections) \in Nat  OBVIOUS
<1>4. Position(Beginning, "section", 1, i, coder, sections, 1)
  <2>1. /\ Beginning.at = "load" /\ Beginning.sec = 1 /\ Beginning.i = 1
        /\ Beginning.out = <<>>
    BY DEF Beginning
  <2>2. SubSeq(sections, 1, 1 - 1) = <<>>  BY SubSeqEmpty
  <2>3. CASE 1 > Len(sections)
    <3>1. Len(sections) = 0 /\ sections = <<>>  BY <1>3, <2>3
    <3> QED BY <2>1, <3>1 DEF Position, Finished
  <2>4. CASE ~(1 > Len(sections))
    BY <2>1, <2>2, <2>4 DEF Position
  <2> QED BY <2>3, <2>4
<1> QED BY <1>2, <1>3, <1>4, Zenon DEF Ready

(* Past the sections more units change nothing.                             *)
LEMMA ReadyBeyond ==
  ASSUME NEW sections \in Seq(Seq(Character)), NEW comp, NEW units \in Seq(Code),
         NEW more \in Seq(Code), NEW sec \in Nat, sec > Len(sections), NEW at, NEW i, NEW coder,
         Ready(units, comp, sections, at, sec, i, coder),
         NEW sec2 \in Nat, sec2 > Len(sections), NEW at2, NEW i2, NEW coder2
  PROVE  /\ Ready(units \o more, comp, sections, at2, sec2, i2, coder2)
         /\ Readable(units \o more, comp, sections)
<1>1. PICK G, f : /\ Reaches(G, units, SizesOf(sections), comp, f)
                  /\ Position(f, at, sec, i, coder, sections, Len(units) + 1)
  BY DEF Ready
<1>2. Reaches(G, units \o more, SizesOf(sections), comp, f)
  BY <1>1, SizesAre, ReachesMore
<1>3. Finished(f, sections)  BY <1>1 DEF Position
<1>4. Len(sections) \in Nat /\ ~(sec2 <= Len(sections))  OBVIOUS
<1>5. Position(f, at2, sec2, i2, coder2, sections, Len(units \o more) + 1)
  BY <1>3, <1>4 DEF Position
<1> QED BY <1>2, <1>3, <1>5, Zenon DEF Ready, Readable

(* A section that is written as it is.                                      *)
LEMMA ReadySection ==
  ASSUME NEW sections \in Seq(Seq(Character)), NEW comp, NEW units \in Seq(Code),
         NEW sec \in 1..Len(sections), NEW i, NEW coder,
         Ready(units, comp, sections, "section", sec, i, coder),
         ~comp \/ sections[sec] = <<>>, NEW i2, NEW coder2
  PROVE  Ready(units \o sections[sec], comp, sections, "section", sec + 1, i2, coder2)
<1> DEFINE S == sections[sec]
           sizes == SizesOf(sections)
           all == units \o S
<1>1. PICK G, f : /\ Reaches(G, units, sizes, comp, f)
                  /\ Position(f, "section", sec, i, coder, sections, Len(units) + 1)
  BY DEF Ready
<1>2. /\ S \in Seq(Character) /\ Len(S) \in Nat /\ sec \in Nat \ {0} /\ sec + 1 \in Nat \ {0}
      /\ (sec + 1) - 1 = sec /\ sec <= Len(sections)
      /\ Append(SubSeq(sections, 1, sec - 1), S) = SubSeq(sections, 1, sec)
  BY Before
<1>3. sizes \in Seq(Nat) /\ sizes[sec] = Len(S) /\ sec <= Len(sizes)  BY <1>2, SizesAre
<1>4. S \in Seq(Code)  BY <1>2, CodeNumbers, ElementOfSeq
<1> HIDE DEF S, sizes
<1>5. /\ f.at = "load" /\ f.sec = sec /\ f.i = Len(units) + 1
      /\ f.out = SubSeq(sections, 1, sec - 1)
  BY <1>1, <1>2 DEF Position
<1>6. f \in Readers  BY <1>1 DEF Reaches
<1>7. /\ all \in Seq(Code) /\ Len(all) = Len(units) + Len(S) /\ Len(units) \in Nat
      /\ SubSeq(all, Len(units) + 1, Len(units) + Len(S)) = S
  <2>1. all \in Seq(Code) /\ Len(all) = Len(units) + Len(S)  BY <1>4, ConcatProperties
  <2>2. CASE S = <<>>
    <3>1. Len(units) + Len(S) < Len(units) + 1  BY <2>2
    <3>2. SubSeq(all, Len(units) + 1, Len(units) + Len(S)) = <<>>  BY <1>2, <3>1, SubSeqEmpty
    <3> QED BY <2>1, <2>2, <3>2
  <2>3. CASE S # <<>>
    <3>1. Len(S) >= 1  BY <1>2, <1>4, <2>3
    <3>2. /\ Len(units) + 1 \in Len(units) + 1 .. Len(units) + Len(S)
          /\ Len(units) + Len(S) \in Len(units) + 1 .. Len(units) + Len(S)
          /\ (Len(units) + 1) - Len(units) = 1
          /\ (Len(units) + Len(S)) - Len(units) = Len(S)
      BY <1>2, <3>1
    <3>3. SubSeq(all, Len(units) + 1, Len(units) + Len(S))
            = SubSeq(S, (Len(units) + 1) - Len(units), (Len(units) + Len(S)) - Len(units))
      BY <1>4, <3>2, SubSeqOfConcat2
    <3>4. SubSeq(S, 1, Len(S)) = S  BY <1>4, SubSeqFull
    <3> QED BY <2>1, <3>2, <3>3, <3>4
  <2> QED BY <2>2, <2>3
<1> HIDE DEF all
<1> DEFINE t == [at |-> "load", sec |-> sec + 1, i |-> f.i + Len(S), decoder |-> f.decoder,
                 out |-> SubSeq(sections, 1, sec)]
<1>8. t \in Readers
  <2>1. f.decoder \in Decoder /\ f.i \in Nat \ {0}  BY <1>6 DEF Readers
  <2>2. f.i + Len(S) \in Nat \ {0}  BY <1>2, <2>1
  <2>3. SubSeq(sections, 1, sec) \in Seq(Seq(Character))  BY Before
  <2> QED BY <1>2, <2>1, <2>2, <2>3 DEF Readers
<1>9. ReadsSection(all, sizes, comp, f, t)
  <2>1. f.i + sizes[f.sec] - 1 = Len(units) + Len(S)  BY <1>2, <1>3, <1>5, <1>7
  <2>2. SubSeq(all, f.i, f.i + sizes[f.sec] - 1) = S  BY <1>5, <1>7, <2>1
  <2>3. Append(f.out, SubSeq(all, f.i, f.i + sizes[f.sec] - 1)) = SubSeq(sections, 1, sec)
    BY <1>2, <1>5, <2>2
  <2>4. t = [at |-> "load", sec |-> f.sec + 1, i |-> f.i + sizes[f.sec], decoder |-> f.decoder,
             out |-> Append(f.out, SubSeq(all, f.i, f.i + sizes[f.sec] - 1))]
    BY <1>3, <1>5, <2>3
  <2>5. f.i + sizes[f.sec] - 1 <= Len(all)  BY <1>2, <1>7, <2>1
  <2>6. ~comp \/ sizes[f.sec] = 0
    <3>1. S = <<>> => Len(S) = 0  OBVIOUS
    <3> QED BY <1>3, <1>5, <3>1, Zenon DEF S
  <2> HIDE DEF t
  <2> QED BY <1>3, <1>5, <2>4, <2>5, <2>6, Zenon DEF ReadsSection
<1>10. t.at = "load" /\ t.sec = sec + 1 /\ t.out = SubSeq(sections, 1, sec)
       /\ t.i = Len(all) + 1
  BY <1>2, <1>5, <1>7
<1> HIDE DEF t
<1>11. Reaches(G \cup {t}, all, sizes, comp, t)
  <2>1. Reads(all, sizes, comp, f, t)  BY <1>9 DEF Reads
  <2> QED BY <1>1, <1>3, <1>4, <1>8, <2>1, ReachesNext DEF all
<1>12. Position(t, "section", sec + 1, i2, coder2, sections, Len(all) + 1)
  BY <1>10, NextPosition
<1> QED BY <1>11, <1>12, Zenon DEF Ready, all, sizes, S

(* compress takes the first character.                                      *)
LEMMA ReadyStarts ==
  ASSUME NEW sections \in Seq(Seq(Character)), NEW comp, NEW units \in Seq(Code),
         NEW sec \in 1..Len(sections), NEW i, NEW coder,
         Ready(units, comp, sections, "section", sec, i, coder), sections[sec] # <<>>
  PROVE  Ready(units, comp, sections, "char", sec, 2, Started(sections[sec][1]))
<1>1. PICK G, f : /\ Reaches(G, units, SizesOf(sections), comp, f)
                  /\ Position(f, "section", sec, i, coder, sections, Len(units) + 1)
  BY DEF Ready
<1>2. sections[sec] \in Seq(Character) /\ sec <= Len(sections) /\ ~(sec > Len(sections))
  BY Before
<1>3. Synced(sections[sec], 1, 2, Started(sections[sec][1]), f.decoder)  BY <1>2, SyncStart
<1>4. Position(f, "char", sec, 2, Started(sections[sec][1]), sections, Len(units) + 1)
  <2>1. /\ f.at = "load" /\ f.sec = sec /\ f.i = Len(units) + 1
        /\ f.out = SubSeq(sections, 1, sec - 1)
    BY <1>1, <1>2 DEF Position
  <2>2. ~(1 > 1)  OBVIOUS
  <2> QED BY <1>2, <1>3, <2>1, <2>2 DEF Position
<1> QED BY <1>1, <1>4, Zenon DEF Ready

(* compress reads on.                                                       *)
LEMMA ReadyLonger ==
  ASSUME NEW sections \in Seq(Seq(Character)), NEW comp, NEW units \in Seq(Code),
         NEW sec \in 1..Len(sections), NEW i, NEW coder,
         Ready(units, comp, sections, "char", sec, i, coder),
         i <= Len(sections[sec]), Extends(coder, sections[sec][i])
  PROVE  Ready(units, comp, sections, "char", sec, i + 1, Longer(coder, sections[sec][i]))
<1>1. PICK G, f : /\ Reaches(G, units, SizesOf(sections), comp, f)
                  /\ Position(f, "char", sec, i, coder, sections, Len(units) + 1)
  BY DEF Ready
<1>2. sec <= Len(sections) /\ ~(sec > Len(sections))  BY Before
<1>3. /\ f.sec = sec /\ f.i = Len(units) + 1
      /\ \E p : /\ Synced(sections[sec], p, i, coder, f.decoder)
                /\ p = 1 => f.at = "load" /\ f.out = SubSeq(sections, 1, sec - 1)
                /\ p > 1 => /\ f.at = "codes"
                            /\ f.out = Append(SubSeq(sections, 1, sec - 1),
                                              SubSeq(sections[sec], 1, p - 1))
  BY <1>1, <1>2 DEF Position
<1>4. PICK p : /\ Synced(sections[sec], p, i, coder, f.decoder)
               /\ p = 1 => f.at = "load" /\ f.out = SubSeq(sections, 1, sec - 1)
               /\ p > 1 => /\ f.at = "codes"
                           /\ f.out = Append(SubSeq(sections, 1, sec - 1),
                                             SubSeq(sections[sec], 1, p - 1))
  BY <1>3
<1>5. Synced(sections[sec], p, i + 1, Longer(coder, sections[sec][i]), f.decoder)
  BY <1>4, SyncLonger
<1>6. Position(f, "char", sec, i + 1, Longer(coder, sections[sec][i]), sections, Len(units) + 1)
  BY <1>2, <1>3, <1>4, <1>5 DEF Position
<1> QED BY <1>1, <1>6, Zenon DEF Ready

(* The last of some sections, longer.                                       *)
Stretched(out, n, y) == [out EXCEPT ![n] = @ \o y]

(* It is the section before and what is added.                              *)
LEMMA LastLonger ==
  ASSUME NEW T, NEW B \in Seq(Seq(T)), NEW x \in Seq(T), NEW y \in Seq(T), NEW n,
         n = Len(B) + 1
  PROVE  Stretched(Append(B, x), n, y) = Append(B, x \o y)
<1> DEFINE U == Seq(T)
           A == Append(B, x)
           C == Append(B, x \o y)
           R == [A EXCEPT ![n] = @ \o y]
<1>1. x \o y \in U /\ x \in U  OBVIOUS
<1> HIDE DEF U
<1>2. B \in Seq(U) /\ Len(B) \in Nat /\ n \in Nat /\ n >= 1  BY DEF U
<1>3. /\ A \in Seq(U) /\ Len(A) = n /\ A[n] = x /\ \A k \in 1 .. Len(B) : A[k] = B[k]
  BY <1>1, <1>2, AppendProperties
<1>4. /\ C \in Seq(U) /\ Len(C) = n /\ C[n] = x \o y /\ \A k \in 1 .. Len(B) : C[k] = B[k]
  BY <1>1, <1>2, AppendProperties
<1> HIDE DEF A, C
<1>5. R \in Seq(U)
  <2>1. n \in 1 .. Len(A)  BY <1>2, <1>3
  <2> QED BY <1>1, <1>3, <2>1
<1>6. Len(R) = Len(C) /\ \A k \in 1 .. Len(R) : R[k] = C[k]
  <2>1. DOMAIN A = 1 .. n /\ DOMAIN R = DOMAIN A  BY <1>2, <1>3
  <2>2. Len(R) = n  BY <1>2, <1>5, <2>1
  <2>3. ASSUME NEW k \in 1 .. n PROVE R[k] = C[k]
    <3>1. CASE k = n  BY <1>3, <1>4, <2>1, <3>1
    <3>2. CASE k # n
      <4>1. k \in 1 .. Len(B)  BY <1>2, <3>2
      <4> QED BY <1>3, <1>4, <2>1, <3>2, <4>1
    <3> QED BY <3>1, <3>2
  <2> QED BY <1>4, <2>2, <2>3
<1> HIDE DEF R
<1>7. R = C  BY <1>4, <1>5, <1>6, SeqEqual
<1> QED BY <1>7 DEF R, A, C, Stretched

(* The code of the coder's string is out: the reader reads it as what it    *)
(* stands for.                                                              *)
Emitted(G, f, units, comp, sections, sec, i, coder) ==
  /\ Reaches(G, units \o <<coder.string>>, SizesOf(sections), comp, f)
  /\ f.at = "codes" /\ f.sec = sec /\ f.i = Len(units) + 2
  /\ f.out = Append(SubSeq(sections, 1, sec - 1), SubSeq(sections[sec], 1, i - 1))
  /\ \E p, decoder :
       /\ Synced(sections[sec], p, i, coder, decoder)
       /\ p = 1 => f.decoder = FirstRead(coder.string)
       /\ p > 1 => f.decoder = Read(decoder, coder.string,
                                    Decoded(decoder, coder.string, DecodeLimit))

(* The reader gets there, whether the section has just begun or not.        *)
LEMMA ReadEmitted ==
  ASSUME NEW sections \in Seq(Seq(Character)), NEW comp, comp, NEW units \in Seq(Code),
         NEW sec \in 1..Len(sections), NEW i, NEW coder,
         Ready(units, comp, sections, "char", sec, i, coder)
  PROVE  \E G, f : Emitted(G, f, units, comp, sections, sec, i, coder)
<1> DEFINE S == sections[sec]
           B == SubSeq(sections, 1, sec - 1)
           sizes == SizesOf(sections)
           code == coder.string
           all == units \o <<code>>
<1>1. PICK G, f : /\ Reaches(G, units, sizes, comp, f)
                  /\ Position(f, "char", sec, i, coder, sections, Len(units) + 1)
  BY DEF Ready
<1>2. /\ S \in Seq(Character) /\ Len(S) \in Nat /\ sec \in Nat \ {0} /\ sec <= Len(sections)
      /\ ~(sec > Len(sections)) /\ B \in Seq(Seq(Character)) /\ Len(B) = sec - 1
  BY Before
<1>3. /\ f.sec = sec /\ f.i = Len(units) + 1
      /\ \E p : /\ Synced(S, p, i, coder, f.decoder)
                /\ p = 1 => f.at = "load" /\ f.out = B
                /\ p > 1 => f.at = "codes" /\ f.out = Append(B, SubSeq(S, 1, p - 1))
  BY <1>1, <1>2 DEF Position
<1>4. PICK p : /\ Synced(S, p, i, coder, f.decoder)
               /\ p = 1 => f.at = "load" /\ f.out = B
               /\ p > 1 => f.at = "codes" /\ f.out = Append(B, SubSeq(S, 1, p - 1))
  BY <1>3
<1>5. p \in Nat /\ i \in Nat /\ 1 <= p /\ p < i /\ i <= Len(S) + 1
  BY <1>4 DEF Synced, Pending
<1>6. /\ code \in Code /\ code # MaxValue
      /\ p = 1 => code \in Character /\ <<code % FirstCode>> = SubSeq(S, 1, i - 1)
      /\ p > 1 => /\ Decodable(f.decoder.table, Looked(f.decoder, code), DecodeLimit)
                  /\ Decoded(f.decoder, code, DecodeLimit) = SubSeq(S, p, i - 1)
  <2>1. DecodeLimit \in Nat /\ MaxCode - FirstCode <= DecodeLimit  BY Names
  <2> HIDE DEF S
  <2>2. Emits(S, p, i, coder.string, f.decoder, DecodeLimit)  BY <1>4, <2>1, SyncEmit
  <2> QED BY <2>2, Zenon DEF Emits
<1>7. /\ <<code>> \in Seq(Code) /\ all \in Seq(Code) /\ Len(all) = Len(units) + 1
      /\ Len(units) \in Nat /\ all[Len(units) + 1] = code
  BY <1>6, OneMore
<1>8. sizes \in Seq(Nat) /\ sizes[sec] = Len(S) /\ sec <= Len(sizes) /\ sizes[sec] > 0
  BY <1>2, <1>5, SizesAre
<1>9. /\ SubSeq(S, 1, p - 1) \in Seq(Character) /\ SubSeq(S, p, i - 1) \in Seq(Character)
      /\ Len(SubSeq(S, p, i - 1)) = i - p
      /\ SubSeq(S, 1, p - 1) \o SubSeq(S, p, i - 1) = SubSeq(S, 1, i - 1)
  BY <1>2, <1>5, Parts
<1>10. SubSeq(S, 1, i - 1) \in Seq(Character)
  <2>1. \A k \in 1 .. i - 1 : S[k] \in Character  BY <1>2, <1>5, ElementOfSeq
  <2> QED BY <1>5, <2>1, SubSeqProperties
<1>11. Append(B, SubSeq(S, 1, i - 1)) \in Seq(Seq(Character))
  BY <1>2, <1>10, AppendProperties
<1>12. f \in Readers  BY <1>1 DEF Reaches
<1> HIDE DEF S, B, sizes, code, all
<1> DEFINE after == IF p = 1 THEN FirstRead(code)
                    ELSE Read(f.decoder, code, Decoded(f.decoder, code, DecodeLimit))
           t == [at |-> "codes", sec |-> sec, i |-> Len(units) + 2, decoder |-> after,
                 out |-> Append(B, SubSeq(S, 1, i - 1))]
<1>13. after \in Decoder
  <2>1. CASE p = 1  BY <1>6, <2>1, FirstReadType
  <2>2. CASE p # 1
    <3>1. p > 1  BY <1>5, <2>2
    <3>2. SubSeq(S, p, i - 1) # <<>>
      <4>1. Len(SubSeq(S, p, i - 1)) # 0  BY <1>5, <1>9
      <4>2. Len(<<>>) = 0  OBVIOUS
      <4> QED BY <4>1, <4>2, Zenon
    <3>3. Decoded(f.decoder, code, DecodeLimit) \in Seq(Character) \ {<<>>}
      BY <1>6, <1>9, <3>1, <3>2
    <3>4. f.decoder \in Decoder  BY <1>12 DEF Readers
    <3> QED BY <1>6, <2>2, <3>3, <3>4, ReadType
  <2> QED BY <2>1, <2>2
<1> HIDE DEF after
<1>14. t \in Readers
  <2>1. Len(units) + 2 \in Nat \ {0}  BY <1>7
  <2> QED BY <1>2, <1>11, <1>13, <2>1 DEF Readers
<1>15. Reads(all, sizes, comp, f, t)
  <2>1. /\ f.i <= Len(all) /\ all[f.i] = code /\ f.sec <= Len(sizes) /\ sizes[f.sec] > 0
        /\ f.i + 1 = Len(units) + 2
    BY <1>3, <1>7, <1>8
  <2>2. CASE p = 1
    <3>1. f.at = "load" /\ f.out = B  BY <1>4, <2>2
    <3>2. <<code % FirstCode>> = SubSeq(S, 1, i - 1)  BY <1>6, <2>2
    <3>3. Append(f.out, <<all[f.i] % FirstCode>>) = Append(B, SubSeq(S, 1, i - 1))
      BY <2>1, <3>1, <3>2
    <3>4. FirstRead(all[f.i]) = after  BY <2>1, <2>2 DEF after
    <3>5. t = [at |-> "codes", sec |-> f.sec, i |-> f.i + 1, decoder |-> FirstRead(all[f.i]),
               out |-> Append(f.out, <<all[f.i] % FirstCode>>)]
      BY <1>3, <2>1, <3>3, <3>4
    <3> HIDE DEF t
    <3>6. all[f.i] < FirstCode
      <4>1. all[f.i] \in Character  BY <1>6, <2>1, <2>2
      <4> QED BY <4>1, CodeNumbers DEF Character
    <3>7. ReadsFirst(all, sizes, comp, f, t)
      BY <2>1, <3>1, <3>5, <3>6, Zenon DEF ReadsFirst
    <3> QED BY <3>7 DEF Reads
  <2>3. CASE p # 1
    <3>1. p > 1  BY <1>5, <2>3
    <3>2. f.at = "codes" /\ f.out = Append(B, SubSeq(S, 1, p - 1))  BY <1>4, <3>1
    <3>3. /\ Decodable(f.decoder.table, Looked(f.decoder, all[f.i]), DecodeLimit)
          /\ Decoded(f.decoder, all[f.i], DecodeLimit) = SubSeq(S, p, i - 1)
      BY <1>6, <2>1, <3>1
    <3>4. [f.out EXCEPT ![f.sec] = @ \o Decoded(f.decoder, all[f.i], DecodeLimit)]
            = Append(B, SubSeq(S, 1, i - 1))
      <4>1. f.sec = Len(B) + 1  BY <1>2, <1>3
      <4>2. [Append(B, SubSeq(S, 1, p - 1)) EXCEPT ![f.sec] = @ \o SubSeq(S, p, i - 1)]
              = Append(B, SubSeq(S, 1, p - 1) \o SubSeq(S, p, i - 1))
        <5> DEFINE x == SubSeq(S, 1, p - 1)
                   y == SubSeq(S, p, i - 1)
        <5>1. x \in Seq(Character) /\ y \in Seq(Character)  BY <1>9
        <5> HIDE DEF x, y
        <5>2. Stretched(Append(B, x), f.sec, y) = Append(B, x \o y)
          BY <1>2, <4>1, <5>1, LastLonger
        <5> QED BY <5>2 DEF x, y, Stretched
      <4> QED BY <1>9, <3>2, <3>3, <4>2
    <3>5. Read(f.decoder, all[f.i], Decoded(f.decoder, all[f.i], DecodeLimit)) = after
      BY <2>1, <2>3 DEF after
    <3>6. t = [at |-> "codes", sec |-> f.sec, i |-> f.i + 1,
               decoder |-> Read(f.decoder, all[f.i], Decoded(f.decoder, all[f.i], DecodeLimit)),
               out |-> [f.out EXCEPT ![f.sec] = @ \o Decoded(f.decoder, all[f.i], DecodeLimit)]]
      BY <1>3, <2>1, <3>4, <3>5
    <3>7. all[f.i] # MaxValue  BY <1>6, <2>1
    <3> HIDE DEF t
    <3>8. ReadsCode(all, f, t)  BY <2>1, <3>2, <3>3, <3>6, <3>7, Zenon DEF ReadsCode
    <3> QED BY <3>8 DEF Reads
  <2> QED BY <2>2, <2>3
<1>16. /\ t.at = "codes" /\ t.sec = sec /\ t.i = Len(units) + 2 /\ t.decoder = after
       /\ t.out = Append(B, SubSeq(S, 1, i - 1))
  OBVIOUS
<1> HIDE DEF t
<1>17. Reaches(G \cup {t}, all, sizes, comp, t)
  BY <1>1, <1>7, <1>8, <1>14, <1>15, ReachesNext DEF all
<1>18. /\ p = 1 => t.decoder = FirstRead(code)
       /\ p > 1 => t.decoder = Read(f.decoder, code, Decoded(f.decoder, code, DecodeLimit))
  BY <1>16 DEF after
<1>19. Emitted(G \cup {t}, t, units, comp, sections, sec, i, coder)
  <2>1. Reaches(G \cup {t}, units \o <<coder.string>>, SizesOf(sections), comp, t)
    BY <1>17 DEF all, code, sizes
  <2>2. t.out = Append(SubSeq(sections, 1, sec - 1), SubSeq(sections[sec], 1, i - 1))
    BY <1>16 DEF B, S
  <2>3. /\ Synced(sections[sec], p, i, coder, f.decoder)
        /\ p = 1 => t.decoder = FirstRead(coder.string)
        /\ p > 1 => t.decoder = Read(f.decoder, coder.string,
                                     Decoded(f.decoder, coder.string, DecodeLimit))
    BY <1>4, <1>18 DEF S, code
  <2> QED BY <1>16, <2>1, <2>2, <2>3, Zenon DEF Emitted
<1> QED BY <1>19

(* Numbers of a section of which a part is read.                            *)
LEMMA SyncedParts ==
  ASSUME NEW S, NEW p, NEW i, NEW coder, NEW decoder, Synced(S, p, i, coder, decoder)
  PROVE  /\ coder.string \in Code /\ S \in Seq(Character) /\ Len(S) \in Nat
         /\ i \in Nat /\ i > 1 /\ i <= Len(S) + 1
<1>1. DecodeLimit \in Nat /\ MaxCode - FirstCode <= DecodeLimit  BY Names
<1>2. coder.string \in Code
  <2>1. Emits(S, p, i, coder.string, decoder, DecodeLimit)  BY <1>1, SyncEmit
  <2> QED BY <2>1 DEF Emits
<1> QED BY <1>2 DEF Synced, Pending

(* compress puts the code out and restarts with the character after it.     *)
LEMMA ReadyRestarted ==
  ASSUME NEW sections \in Seq(Seq(Character)), NEW comp, comp, NEW units \in Seq(Code),
         NEW sec \in 1..Len(sections), NEW i, NEW coder,
         Ready(units, comp, sections, "char", sec, i, coder),
         i <= Len(sections[sec])
  PROVE  Ready(units \o <<coder.string>>, comp, sections, "char", sec, i + 1,
               Restarted(coder, sections[sec][i]))
<1>1. PICK G, f : Emitted(G, f, units, comp, sections, sec, i, coder)  BY ReadEmitted
<1>2. /\ Reaches(G, units \o <<coder.string>>, SizesOf(sections), comp, f)
      /\ f.at = "codes" /\ f.sec = sec /\ f.i = Len(units) + 2
      /\ f.out = Append(SubSeq(sections, 1, sec - 1), SubSeq(sections[sec], 1, i - 1))
  BY <1>1 DEF Emitted
<1>3. PICK p, decoder :
        /\ Synced(sections[sec], p, i, coder, decoder)
        /\ p = 1 => f.decoder = FirstRead(coder.string)
        /\ p > 1 => f.decoder = Read(decoder, coder.string,
                                     Decoded(decoder, coder.string, DecodeLimit))
  BY <1>1 DEF Emitted
<1>4. coder.string \in Code /\ i > 1 /\ i # 1  BY <1>3, SyncedParts
<1>5. DecodeLimit \in Nat /\ MaxCode - FirstCode <= DecodeLimit  BY Names
<1>6. Synced(sections[sec], i, i + 1, Restarted(coder, sections[sec][i]), f.decoder)
  BY <1>3, <1>5, SyncRestart
<1>7. f.i = Len(units \o <<coder.string>>) + 1  BY <1>2, <1>4, OneMore
<1>8. sec <= Len(sections) /\ ~(sec > Len(sections))  BY Before
<1>9. Position(f, "char", sec, i + 1, Restarted(coder, sections[sec][i]), sections,
               Len(units \o <<coder.string>>) + 1)
  BY <1>2, <1>4, <1>6, <1>7, <1>8 DEF Position
<1> QED BY <1>2, <1>9, Zenon DEF Ready

(* compress puts the last code of a section out.                            *)
LEMMA ReadyLast ==
  ASSUME NEW sections \in Seq(Seq(Character)), NEW comp, comp, NEW units \in Seq(Code),
         NEW sec \in 1..Len(sections), NEW i, NEW coder,
         Ready(units, comp, sections, "char", sec, i, coder),
         i > Len(sections[sec]), NEW i2, NEW coder2
  PROVE  Ready(units \o <<coder.string>>, comp, sections, "end", sec, i2, coder2)
<1>1. PICK G, f : Emitted(G, f, units, comp, sections, sec, i, coder)  BY ReadEmitted
<1>2. /\ Reaches(G, units \o <<coder.string>>, SizesOf(sections), comp, f)
      /\ f.at = "codes" /\ f.sec = sec /\ f.i = Len(units) + 2
      /\ f.out = Append(SubSeq(sections, 1, sec - 1), SubSeq(sections[sec], 1, i - 1))
  BY <1>1 DEF Emitted
<1>3. PICK p, decoder : Synced(sections[sec], p, i, coder, decoder)  BY <1>1 DEF Emitted
<1>4. coder.string \in Code /\ i - 1 = Len(sections[sec])  BY <1>3, SyncedParts
<1>5. f.out = SubSeq(sections, 1, sec)
  <2>1. sections[sec] \in Seq(Character)  BY Before
  <2>2. SubSeq(sections[sec], 1, Len(sections[sec])) = sections[sec]  BY <2>1, SubSeqFull
  <2>3. SubSeq(sections[sec], 1, i - 1) = sections[sec]  BY <1>4, <2>2
  <2>4. Append(SubSeq(sections, 1, sec - 1), sections[sec]) = SubSeq(sections, 1, sec)
    BY Before
  <2> QED BY <1>2, <2>3, <2>4
<1>6. f.i = Len(units \o <<coder.string>>) + 1  BY <1>2, <1>4, OneMore
<1>7. sec <= Len(sections) /\ ~(sec > Len(sections))  BY Before
<1>8. Position(f, "end", sec, i2, coder2, sections, Len(units \o <<coder.string>>) + 1)
  BY <1>2, <1>5, <1>6, <1>7 DEF Position
<1> QED BY <1>2, <1>8, Zenon DEF Ready

(* compress puts the end code out: the section is read in its full length.  *)
LEMMA ReadyEnd ==
  ASSUME NEW sections \in Seq(Seq(Character)), NEW comp, NEW units \in Seq(Code),
         NEW sec \in 1..Len(sections), NEW i, NEW coder,
         Ready(units, comp, sections, "end", sec, i, coder), NEW i2, NEW coder2
  PROVE  Ready(units \o <<MaxValue>>, comp, sections, "section", sec + 1, i2, coder2)
<1> DEFINE sizes == SizesOf(sections)
           all == units \o <<MaxValue>>
<1>1. PICK G, f : /\ Reaches(G, units, sizes, comp, f)
                  /\ Position(f, "end", sec, i, coder, sections, Len(units) + 1)
  BY DEF Ready
<1>2. /\ sec \in Nat \ {0} /\ sec + 1 \in Nat \ {0} /\ sec <= Len(sections)
      /\ SubSeq(sections, 1, sec)[sec] = sections[sec]
  BY Before
<1>3. MaxValue \in Code  BY CodeNumbers DEF Code
<1>4. /\ <<MaxValue>> \in Seq(Code) /\ all \in Seq(Code) /\ Len(all) = Len(units) + 1
      /\ Len(units) \in Nat /\ all[Len(units) + 1] = MaxValue
  BY <1>3, OneMore
<1>5. sizes \in Seq(Nat) /\ sizes[sec] = Len(sections[sec])  BY <1>2, SizesAre
<1> HIDE DEF sizes, all
<1>6. /\ f.at = "codes" /\ f.sec = sec /\ f.i = Len(units) + 1
      /\ f.out = SubSeq(sections, 1, sec)
  BY <1>1, <1>2 DEF Position
<1>7. f \in Readers  BY <1>1 DEF Reaches
<1> DEFINE t == [at |-> "load", sec |-> f.sec + 1, i |-> f.i + 1, decoder |-> f.decoder,
                 out |-> f.out]
<1>8. t \in Readers
  <2>1. f.i + 1 \in Nat \ {0} /\ f.sec + 1 \in Nat \ {0}  BY <1>2, <1>4, <1>6
  <2> QED BY <1>7, <2>1 DEF Readers
<1>9. Reads(all, sizes, comp, f, t)
  <2>1. f.i <= Len(all) /\ all[f.i] = MaxValue  BY <1>4, <1>6
  <2>2. Len(f.out[f.sec]) = sizes[f.sec]  BY <1>2, <1>5, <1>6
  <2>3. ReadsEnd(all, sizes, f, t)  BY <1>6, <2>1, <2>2, Zenon DEF ReadsEnd
  <2> QED BY <2>3 DEF Reads
<1>10. /\ t.at = "load" /\ t.sec = sec + 1 /\ t.out = SubSeq(sections, 1, sec)
       /\ t.i = Len(all) + 1
  BY <1>4, <1>6
<1> HIDE DEF t
<1>11. Reaches(G \cup {t}, all, sizes, comp, t)
  BY <1>1, <1>4, <1>5, <1>8, <1>9, ReachesNext DEF all
<1>12. Position(t, "section", sec + 1, i2, coder2, sections, Len(all) + 1)
  BY <1>10, NextPosition
<1> QED BY <1>11, <1>12, Zenon DEF Ready, all, sizes

-----------------------------------------------------------------------------
(* What is written of the file in hand, with the buffer that is still to    *)
(* follow, and whether it is compressed.                                    *)
OnTheWay == disk[job.temp].units \o job.buf
Packs    == disk[job.temp].header.comp

(* A file that has lost nothing can be read in full.                        *)
FileWhole(c) ==
  /\ c.header.sizes = SizesOf(c.of.sections)
  /\ ~c.lost => Readable(c.units, c.header.comp, c.of.sections)

(* The reader of what is written so far is where the writer is.             *)
InStep ==
  ~disk[job.temp].lost =>
    Ready(OnTheWay, Packs, memory.sections, job.at, job.sec, job.i, job.coder)

Wholes ==
  /\ disk[Target] # Null => FileWhole(disk[Target])
  /\ job.at \in {"rereloc", "unlink", "rename"} /\ ~job.err =>
       (~disk[job.temp].lost => Readable(disk[job.temp].units, Packs, memory.sections))
  /\ job.at = "drain" /\ ~job.err =>
       (~disk[job.temp].lost => Readable(OnTheWay, Packs, memory.sections))
  /\ job.at \in {"section", "char", "end"} /\ ~job.err => InStep
  /\ job.at \in {"open", "tables", "header"} => job.sec = 1 /\ job.buf = <<>>

(* What the writer knows at a section.                                      *)
LEMMA AtSection ==
  ASSUME TypeOK, Hands, Plain, Wholes, job.at \in {"section", "char", "end", "drain"},
         ~job.err, ~disk[job.temp].lost
  PROVE  /\ job.temp = job.fd /\ job.fd # Null
         /\ OnTheWay \in Seq(Code) /\ disk[job.temp].units \in Seq(Code) /\ job.buf \in Seq(Code)
         /\ Packs <=> job.comp
         /\ memory.sections \in Seq(Seq(Character)) /\ Len(memory.sections) \in Nat
         /\ job.sec \in Nat
         /\ LastSection => job.sec > Len(memory.sections)
         /\ ~LastSection => Section \in Seq(Character) /\ Section \in Seq(Code)
         /\ job.sec <= Len(memory.sections) =>
              job.sec \in 1..Len(memory.sections) /\ Section = memory.sections[job.sec]
         /\ job.at # "drain" =>
              Ready(OnTheWay, Packs, memory.sections, job.at, job.sec, job.i, job.coder)
<1>1. job.at \in WithTemp \ {"saved"}  BY DEF WithTemp, SaveSteps
<1>2. job.fd # Null /\ job.fd = job.temp /\ job.temp \in Files /\ disk[job.temp] # Null
  BY <1>1, TempIsOpen
<1>3. job \in Jobs /\ disk \in [Files -> Contents \cup {Null}] /\ memory \in Memories
  BY DEF TypeOK
<1>4. disk[job.temp] \in Contents  BY <1>2, <1>3
<1>5. disk[job.temp].units \in Seq(Code)  BY <1>4 DEF Contents
<1>6. job.buf \in Seq(Code) /\ job.sec \in Nat \ {0}  BY <1>3 DEF Jobs
<1>7. OnTheWay \in Seq(Code)  BY <1>5, <1>6, ConcatProperties DEF OnTheWay
<1>8. Packs <=> job.comp  BY Zenon DEF Plain, Packs, Packing
<1>9. /\ memory.sections \in Seq(Seq(Character)) /\ Len(memory.sections) \in Nat
      /\ Len(SectionsOf(memory)) \in Nat /\ Len(SectionsOf(memory)) >= Len(memory.sections)
      /\ \A k \in 1..Len(memory.sections) : SectionsOf(memory)[k] = memory.sections[k]
  BY <1>3, SectionsType
<1>10. LastSection => job.sec > Len(memory.sections)  BY <1>6, <1>9 DEF LastSection
<1>11. job.sec <= Len(memory.sections) =>
         job.sec \in 1..Len(memory.sections) /\ Section = memory.sections[job.sec]
  BY <1>6, <1>9 DEF Section
<1>12. ~LastSection => Section \in Seq(Character)  BY SectionType
<1>13. Section \in Seq(Character) => Section \in Seq(Code)  BY CodeNumbers, ElementOfSeq
<1>14. job.at # "drain" =>
         Ready(OnTheWay, Packs, memory.sections, job.at, job.sec, job.i, job.coder)
  <2>1. job.at # "drain" => InStep  BY Zenon DEF Wholes
  <2> QED BY <2>1, Zenon DEF InStep
<1> QED BY <1>2, <1>5, <1>6, <1>7, <1>8, <1>9, <1>10, <1>11, <1>12, <1>13, <1>14, Zenon

(* A code that is put out follows what is on the way.                       *)
LEMMA PackedOn ==
  ASSUME TypeOK, Hands, Plain, Wholes, job.at \in {"section", "char", "end"},
         NEW code \in Code, Held, Packed(code), ~job'.err, ~disk'[job'.temp].lost
  PROVE  /\ ~job.err /\ ~disk[job.temp].lost
         /\ OnTheWay' = OnTheWay \o <<code>> /\ Packs' = Packs /\ memory' = memory
<1>1. ~job.err  BY Zenon DEF Held
<1>2. job.at \in WithTemp \ {"saved"}  BY DEF WithTemp, SaveSteps
<1>3. job.fd # Null /\ job.fd = job.temp  BY <1>1, <1>2, TempIsOpen
<1>4. job'.temp = job.fd  BY <1>3, Zenon DEF Held
<1>5. ~disk'[job.fd].lost  BY <1>4, Zenon
<1>6. /\ ~disk[job.fd].lost /\ disk'[job.fd].header = disk[job.fd].header
      /\ disk'[job.fd].units \o job'.buf = (disk[job.fd].units \o job.buf) \o <<code>>
      /\ memory' = memory
  BY <1>3, <1>5, Zenon DEF Packed
<1>7. Packs' = Packs  BY <1>3, <1>4, <1>6, Zenon DEF Packs
<1>8. OnTheWay' = OnTheWay \o <<code>>  BY <1>3, <1>4, <1>6, Zenon DEF OnTheWay
<1> QED BY <1>1, <1>3, <1>6, <1>7, <1>8, Zenon

(* The reader stays in step with each code of a section.                    *)
LEMMA CodesInStep ==
  ASSUME TypeOK, Hands, Plain, Wholes, ~job'.err, ~disk'[job'.temp].lost,
         NEW ok \in BOOLEAN, CharUnmatched(ok) \/ LastCode(ok) \/ EndCode(ok)
  PROVE  Ready(OnTheWay', Packs', memory'.sections, job'.at, job'.sec, job'.i, job'.coder)
<1>1. CASE CharUnmatched(ok)
  <2>1. /\ job.at = "char" /\ ~LastSection /\ job.i <= Len(Section)
        /\ job.coder.string \in Code /\ Section[job.i] \in Character
        /\ job'.at = "char" /\ job'.sec = job.sec /\ job'.i = job.i + 1
        /\ job'.coder = Restarted(job.coder, Section[job.i])
        /\ Held /\ Packed(job.coder.string)
    BY <1>1, CharUnmatchedStep
  <2>2. /\ ~job.err /\ ~disk[job.temp].lost
        /\ OnTheWay' = OnTheWay \o <<job.coder.string>> /\ Packs' = Packs /\ memory' = memory
    BY <2>1, PackedOn
  <2>3. /\ OnTheWay \in Seq(Code) /\ (Packs <=> job.comp)
        /\ memory.sections \in Seq(Seq(Character)) /\ Len(memory.sections) \in Nat
        /\ job.sec \in Nat
        /\ job.sec <= Len(memory.sections) =>
             job.sec \in 1..Len(memory.sections) /\ Section = memory.sections[job.sec]
        /\ Ready(OnTheWay, Packs, memory.sections, job.at, job.sec, job.i, job.coder)
    BY <2>1, <2>2, AtSection
  <2>4. Packs  BY <2>1, <2>3, Zenon DEF Hands, Packing
  <2>5. <<job.coder.string>> \in Seq(Code)  BY <2>1
  <2> DEFINE units == OnTheWay
             comp == Packs
             sections == memory.sections
             coder == job.coder
             s == Section
  <2> HIDE DEF units, comp, sections, coder, s
  <2>6. Ready(units \o <<coder.string>>, comp, sections, "char", job.sec, job.i + 1,
              Restarted(coder, s[job.i]))
    <3>1. /\ units \in Seq(Code) /\ sections \in Seq(Seq(Character)) /\ Len(sections) \in Nat
          /\ job.sec \in Nat /\ <<coder.string>> \in Seq(Code)
          /\ job.sec <= Len(sections) =>
               job.sec \in 1..Len(sections) /\ s = sections[job.sec]
          /\ job.i <= Len(s)
      BY <2>1, <2>3, <2>5 DEF units, sections, coder, s
    <3>2. Ready(units, comp, sections, "char", job.sec, job.i, coder) /\ comp
      BY <2>1, <2>3, <2>4, Zenon DEF units, comp, sections, coder
    <3>3. CASE job.sec <= Len(sections)  BY <3>1, <3>2, <3>3, ReadyRestarted
    <3>4. CASE ~(job.sec <= Len(sections))
      <4>1. job.sec > Len(sections)  BY <3>1, <3>4
      <4> QED BY <3>1, <3>2, <4>1, ReadyBeyond
    <3> QED BY <3>3, <3>4
  <2> QED BY <2>1, <2>2, <2>6, Zenon DEF units, comp, sections, coder, s
<1>2. CASE LastCode(ok)
  <2>1. /\ job.at = "char" /\ job.i > Len(Section) /\ job.coder.string \in Code
        /\ job'.at = "end" /\ job'.sec = job.sec
        /\ Held /\ Packed(job.coder.string)
    BY <1>2, LastCodeStep
  <2>2. /\ ~job.err /\ ~disk[job.temp].lost
        /\ OnTheWay' = OnTheWay \o <<job.coder.string>> /\ Packs' = Packs /\ memory' = memory
    BY <2>1, PackedOn
  <2>3. /\ OnTheWay \in Seq(Code) /\ (Packs <=> job.comp)
        /\ memory.sections \in Seq(Seq(Character)) /\ Len(memory.sections) \in Nat
        /\ job.sec \in Nat
        /\ job.sec <= Len(memory.sections) =>
             job.sec \in 1..Len(memory.sections) /\ Section = memory.sections[job.sec]
        /\ Ready(OnTheWay, Packs, memory.sections, job.at, job.sec, job.i, job.coder)
    BY <2>1, <2>2, AtSection
  <2>4. Packs  BY <2>1, <2>3, Zenon DEF Hands, Packing
  <2>5. <<job.coder.string>> \in Seq(Code)  BY <2>1
  <2> DEFINE units == OnTheWay
             comp == Packs
             sections == memory.sections
             coder == job.coder
             s == Section
             i2 == job'.i
             coder2 == job'.coder
  <2> HIDE DEF units, comp, sections, coder, s, i2, coder2
  <2>6. Ready(units \o <<coder.string>>, comp, sections, "end", job.sec, i2, coder2)
    <3>1. /\ units \in Seq(Code) /\ sections \in Seq(Seq(Character)) /\ Len(sections) \in Nat
          /\ job.sec \in Nat /\ <<coder.string>> \in Seq(Code)
          /\ job.sec <= Len(sections) =>
               job.sec \in 1..Len(sections) /\ s = sections[job.sec]
          /\ job.i > Len(s)
      BY <2>1, <2>3, <2>5 DEF units, sections, coder, s
    <3>2. Ready(units, comp, sections, "char", job.sec, job.i, coder) /\ comp
      BY <2>1, <2>3, <2>4, Zenon DEF units, comp, sections, coder
    <3>3. CASE job.sec <= Len(sections)  BY <3>1, <3>2, <3>3, ReadyLast
    <3>4. CASE ~(job.sec <= Len(sections))
      <4>1. job.sec > Len(sections)  BY <3>1, <3>4
      <4> QED BY <3>1, <3>2, <4>1, ReadyBeyond
    <3> QED BY <3>3, <3>4
  <2> QED BY <2>1, <2>2, <2>6, Zenon DEF units, comp, sections, coder, i2, coder2
<1>3. CASE EndCode(ok)
  <2>1. /\ job.at = "end" /\ job'.at = "section" /\ job'.sec = job.sec + 1
        /\ Held /\ Packed(MaxValue)
    BY <1>3, EndCodeStep
  <2>2. MaxValue \in Code /\ <<MaxValue>> \in Seq(Code)  BY CodeNumbers DEF Code
  <2>3. /\ ~job.err /\ ~disk[job.temp].lost
        /\ OnTheWay' = OnTheWay \o <<MaxValue>> /\ Packs' = Packs /\ memory' = memory
    BY <2>1, <2>2, PackedOn
  <2>4. /\ OnTheWay \in Seq(Code)
        /\ memory.sections \in Seq(Seq(Character)) /\ Len(memory.sections) \in Nat
        /\ job.sec \in Nat
        /\ job.sec <= Len(memory.sections) => job.sec \in 1..Len(memory.sections)
        /\ Ready(OnTheWay, Packs, memory.sections, job.at, job.sec, job.i, job.coder)
    BY <2>1, <2>3, AtSection
  <2> DEFINE units == OnTheWay
             comp == Packs
             sections == memory.sections
             i2 == job'.i
             coder2 == job'.coder
  <2> HIDE DEF units, comp, sections, i2, coder2
  <2>5. Ready(units \o <<MaxValue>>, comp, sections, "section", job.sec + 1, i2, coder2)
    <3>1. /\ units \in Seq(Code) /\ sections \in Seq(Seq(Character)) /\ Len(sections) \in Nat
          /\ job.sec \in Nat
          /\ job.sec <= Len(sections) => job.sec \in 1..Len(sections)
      BY <2>4 DEF units, sections
    <3>2. Ready(units, comp, sections, "end", job.sec, job.i, job.coder)
      BY <2>1, <2>4, Zenon DEF units, comp, sections
    <3>3. CASE job.sec <= Len(sections)  BY <3>1, <3>2, <3>3, ReadyEnd
    <3>4. CASE ~(job.sec <= Len(sections))
      <4>1. job.sec > Len(sections) /\ job.sec + 1 > Len(sections) /\ job.sec + 1 \in Nat
        BY <3>1, <3>4
      <4> QED BY <2>2, <3>1, <3>2, <4>1, ReadyBeyond
    <3> QED BY <3>3, <3>4
  <2> QED BY <2>1, <2>3, <2>5, Zenon DEF units, comp, sections, i2, coder2
<1> QED BY <1>1, <1>2, <1>3

(* Past the last section all can be read.                                   *)
LEMMA ReadyAll ==
  ASSUME NEW sections \in Seq(Seq(Character)), NEW comp, NEW units \in Seq(Code),
         NEW sec \in Nat, sec > Len(sections), NEW at, NEW i, NEW coder,
         Ready(units, comp, sections, at, sec, i, coder),
         NEW sec2 \in Nat, sec2 > Len(sections), NEW at2, NEW i2, NEW coder2
  PROVE  /\ Readable(units, comp, sections)
         /\ Ready(units, comp, sections, at2, sec2, i2, coder2)
<1>1. <<>> \in Seq(Code)  OBVIOUS
<1>2. units \o <<>> = units  BY ConcatEmptySeq
<1>3. /\ Ready(units \o <<>>, comp, sections, at2, sec2, i2, coder2)
      /\ Readable(units \o <<>>, comp, sections)
  BY <1>1, ReadyBeyond
<1> QED BY <1>2, <1>3

(* The last of a compressed file is the code that fills up the last byte,   *)
(* and what the buffer still holds.                                         *)
LEMMA AllInStep ==
  ASSUME TypeOK, Hands, Plain, Wholes, ~job'.err, ~disk'[job'.temp].lost,
         NEW ok \in BOOLEAN
  PROVE  /\ Pad(ok) => Readable(OnTheWay', Packs', memory'.sections)
         /\ Drain(ok) => Readable(disk'[job'.temp].units, Packs', memory'.sections)
<1>1. ASSUME Pad(ok) PROVE Readable(OnTheWay', Packs', memory'.sections)
  <2>1. job.at = "section" /\ LastSection /\ Held /\ Packed(0)  BY <1>1, PadStep
  <2>2. 0 \in Code /\ <<0>> \in Seq(Code)  BY CodeNumbers
  <2>3. /\ ~job.err /\ ~disk[job.temp].lost
        /\ OnTheWay' = OnTheWay \o <<0>> /\ Packs' = Packs /\ memory' = memory
    BY <2>1, <2>2, PackedOn
  <2>4. /\ OnTheWay \in Seq(Code) /\ memory.sections \in Seq(Seq(Character))
        /\ job.sec \in Nat /\ job.sec > Len(memory.sections)
        /\ Ready(OnTheWay, Packs, memory.sections, job.at, job.sec, job.i, job.coder)
    BY <2>1, <2>3, AtSection
  <2> DEFINE units == OnTheWay
             comp == Packs
             sections == memory.sections
  <2> HIDE DEF units, comp, sections
  <2>5. Readable(units \o <<0>>, comp, sections)
    <3>1. /\ units \in Seq(Code) /\ sections \in Seq(Seq(Character))
          /\ job.sec \in Nat /\ job.sec > Len(sections)
      BY <2>4 DEF units, sections
    <3>2. Ready(units, comp, sections, job.at, job.sec, job.i, job.coder)
      BY <2>4, Zenon DEF units, comp, sections
    <3> QED BY <2>2, <3>1, <3>2, ReadyBeyond
  <2> QED BY <2>3, <2>5, Zenon DEF units, comp, sections
<1>2. ASSUME Drain(ok) PROVE Readable(disk'[job'.temp].units, Packs', memory'.sections)
  <2>1. /\ job.at = "drain" /\ job'.temp = job.temp /\ job'.fd = job.fd
        /\ memory' = [memory EXCEPT !.extra = 0]
        /\ job.fd # Null =>
             /\ disk'[job.fd].header = disk[job.fd].header
             /\ ~disk'[job.fd].lost => /\ ~disk[job.fd].lost
                                       /\ disk'[job.fd].units = disk[job.fd].units \o job.buf
    BY <1>2, DrainStep
  <2>2. ~job.err
    <3>1. job'.err = job.err  BY <1>2, DrainStep
    <3> QED BY <3>1, Zenon
  <2>3. job.fd # Null /\ job.fd = job.temp
    BY <2>1, <2>2, TempIsOpen DEF WithTemp, SaveSteps
  <2>4. /\ ~disk[job.temp].lost /\ disk'[job'.temp].units = OnTheWay
    <3>1. ~disk'[job.fd].lost  BY <2>1, <2>3, Zenon
    <3> QED BY <2>1, <2>3, <3>1, Zenon DEF OnTheWay
  <2>5. Packs' = Packs  BY <2>1, <2>3, Zenon DEF Packs
  <2>6. memory'.sections = memory.sections
    <3>1. memory \in Memories  BY DEF TypeOK
    <3> QED BY <2>1, <3>1 DEF Memories
  <2>7. Readable(OnTheWay, Packs, memory.sections)
    BY <2>1, <2>2, <2>4, Zenon DEF Wholes
  <2> QED BY <2>4, <2>5, <2>6, <2>7, Zenon
<1> QED BY <1>1, <1>2

(* A section that is written as it is, and the end of an uncompressed file. *)
LEMMA WholeInStep ==
  ASSUME TypeOK, Hands, Plain, Wholes, ~job'.err, ~disk'[job'.temp].lost
  PROVE  /\ \A ok \in BOOLEAN : WriteSection(ok) =>
              Ready(OnTheWay', Packs', memory'.sections, job'.at, job'.sec, job'.i, job'.coder)
         /\ NotCompressed => Readable(disk'[job'.temp].units, Packs', memory'.sections)
<1>1. ASSUME NEW ok \in BOOLEAN, WriteSection(ok)
      PROVE  Ready(OnTheWay', Packs', memory'.sections, job'.at, job'.sec, job'.i, job'.coder)
  <2>1. /\ job.at = "section" /\ job'.at = "section" /\ ~job.comp /\ ~LastSection
        /\ job'.fd = job.fd /\ job'.temp = job.temp
        /\ job'.sec = job.sec + 1 /\ job'.buf = job.buf /\ memory' = memory
        /\ (job.err => job'.err)
        /\ job.fd # Null => /\ disk'[job.fd].lost = disk[job.fd].lost
                            /\ disk'[job.fd].header = disk[job.fd].header
    BY <1>1, WriteSectionStep
  <2>2. ~job.err  BY <2>1, Zenon
  <2>3. job.fd # Null /\ job.fd = job.temp
    BY <2>1, <2>2, TempIsOpen DEF WithTemp, SaveSteps
  <2>4. ~disk[job.temp].lost  BY <2>1, <2>3, Zenon
  <2>5. disk'[job.fd].units = disk[job.fd].units \o Section
    <3>1. ~job'.err => disk'[job.fd].units = disk[job.fd].units \o Section
      BY <1>1, WriteSectionStep
    <3> QED BY <3>1, Zenon
  <2>6. job.buf = <<>>  BY <2>1, Zenon DEF Hands
  <2>7. /\ OnTheWay \in Seq(Code) /\ disk[job.temp].units \in Seq(Code) /\ (Packs <=> job.comp)
        /\ memory.sections \in Seq(Seq(Character)) /\ Len(memory.sections) \in Nat
        /\ job.sec \in Nat /\ Section \in Seq(Code)
        /\ job.sec <= Len(memory.sections) =>
             job.sec \in 1..Len(memory.sections) /\ Section = memory.sections[job.sec]
        /\ Ready(OnTheWay, Packs, memory.sections, job.at, job.sec, job.i, job.coder)
    BY <2>1, <2>2, <2>4, AtSection
  <2>8. ~Packs  BY <2>1, <2>7, Zenon
  <2>9. Packs' = Packs  BY <2>1, <2>3, Zenon DEF Packs
  <2>10. OnTheWay' = OnTheWay \o Section
    <3>1. OnTheWay = disk[job.temp].units  BY <2>6, <2>7, ConcatEmptySeq DEF OnTheWay
    <3>2. OnTheWay' = disk'[job.temp].units \o <<>>  BY <2>1, <2>6 DEF OnTheWay
    <3>3. disk'[job.temp].units = OnTheWay \o Section  BY <2>3, <2>5, <3>1
    <3>4. OnTheWay \o Section \in Seq(Code)  BY <2>7, ConcatProperties
    <3> QED BY <3>2, <3>3, <3>4, ConcatEmptySeq
  <2> DEFINE units == OnTheWay
             comp == Packs
             sections == memory.sections
             s == Section
             i2 == job'.i
             coder2 == job'.coder
  <2> HIDE DEF units, comp, sections, s, i2, coder2
  <2>11. Ready(units \o s, comp, sections, "section", job.sec + 1, i2, coder2)
    <3>1. /\ units \in Seq(Code) /\ sections \in Seq(Seq(Character)) /\ Len(sections) \in Nat
          /\ job.sec \in Nat /\ s \in Seq(Code)
          /\ job.sec <= Len(sections) => job.sec \in 1..Len(sections) /\ s = sections[job.sec]
      BY <2>7 DEF units, sections, s
    <3>2. Ready(units, comp, sections, "section", job.sec, job.i, job.coder) /\ ~comp
      BY <2>1, <2>7, <2>8, Zenon DEF units, comp, sections
    <3>3. CASE job.sec <= Len(sections)  BY <3>1, <3>2, <3>3, ReadySection
    <3>4. CASE ~(job.sec <= Len(sections))
      <4>1. job.sec > Len(sections) /\ job.sec + 1 > Len(sections) /\ job.sec + 1 \in Nat
        BY <3>1, <3>4
      <4> QED BY <3>1, <3>2, <4>1, ReadyBeyond
    <3> QED BY <3>3, <3>4
  <2> QED BY <2>1, <2>9, <2>10, <2>11, Zenon DEF units, comp, sections, s, i2, coder2
<1>2. ASSUME NotCompressed PROVE Readable(disk'[job'.temp].units, Packs', memory'.sections)
  <2>1. /\ job.at = "section" /\ LastSection /\ disk' = disk /\ memory' = memory
        /\ Goto("rereloc")
    BY <1>2 DEF NotCompressed, At
  <2>2. job'.temp = job.temp  BY <2>1, GotoStep DEF Steps
  <2>3. ~job.err
    <3>1. job'.err = job.err  BY <2>1, GotoStep DEF Steps
    <3> QED BY <3>1, Zenon
  <2>4. ~disk[job.temp].lost  BY <2>1, <2>2, Zenon
  <2>5. job.buf = <<>>
    <3>1. ~job.comp  BY <1>2, Zenon DEF NotCompressed
    <3> QED BY <3>1, Zenon DEF Hands
  <2>6. /\ OnTheWay \in Seq(Code) /\ disk[job.temp].units \in Seq(Code)
        /\ memory.sections \in Seq(Seq(Character))
        /\ job.sec \in Nat /\ job.sec > Len(memory.sections)
        /\ Ready(OnTheWay, Packs, memory.sections, job.at, job.sec, job.i, job.coder)
    BY <2>1, <2>3, <2>4, AtSection
  <2>7. OnTheWay = disk[job.temp].units  BY <2>5, <2>6, ConcatEmptySeq DEF OnTheWay
  <2> DEFINE units == OnTheWay
             comp == Packs
             sections == memory.sections
  <2> HIDE DEF units, comp, sections
  <2>8. Readable(units, comp, sections)
    <3>1. /\ units \in Seq(Code) /\ sections \in Seq(Seq(Character))
          /\ job.sec \in Nat /\ job.sec > Len(sections)
      BY <2>6 DEF units, sections
    <3>2. Ready(units, comp, sections, job.at, job.sec, job.i, job.coder)
      BY <2>6, Zenon DEF units, comp, sections
    <3> QED BY <3>1, <3>2, ReadyAll
  <2>9. Packs' = Packs  BY <2>1, <2>2, Zenon DEF Packs
  <2> QED BY <2>1, <2>2, <2>7, <2>8, <2>9, Zenon DEF units, comp, sections
<1> QED BY <1>1, <1>2, Zenon

(* compress reads a character and puts nothing out.                         *)
LEMMA CharsInStep ==
  ASSUME TypeOK, Hands, Plain, Wholes, ~job'.err, ~disk'[job'.temp].lost,
         FirstChar \/ CharMatched
  PROVE  Ready(OnTheWay', Packs', memory'.sections, job'.at, job'.sec, job'.i, job'.coder)
<1>1. /\ job'.temp = job.temp /\ job'.buf = job.buf /\ memory' = memory /\ disk' = disk
      /\ job.at \in {"section", "char"}
  BY FirstCharStep, CharMatchedStep
<1>2. ~job.err
  <2>1. job'.err = job.err  BY FirstCharStep, CharMatchedStep
  <2> QED BY <2>1, Zenon
<1>3. ~disk[job.temp].lost  BY <1>1, Zenon
<1>4. OnTheWay' = OnTheWay /\ Packs' = Packs  BY <1>1, Zenon DEF OnTheWay, Packs
<1>5. /\ OnTheWay \in Seq(Code)
      /\ memory.sections \in Seq(Seq(Character)) /\ Len(memory.sections) \in Nat
      /\ job.sec \in Nat
      /\ job.sec <= Len(memory.sections) =>
           job.sec \in 1..Len(memory.sections) /\ Section = memory.sections[job.sec]
      /\ Ready(OnTheWay, Packs, memory.sections, job.at, job.sec, job.i, job.coder)
  BY <1>1, <1>2, <1>3, AtSection
<1> DEFINE units == OnTheWay
           comp == Packs
           sections == memory.sections
           s == Section
           coder == job.coder
           i2 == job'.i
           coder2 == job'.coder
<1> HIDE DEF units, comp, sections, s, coder, i2, coder2
<1>6. /\ units \in Seq(Code) /\ sections \in Seq(Seq(Character)) /\ Len(sections) \in Nat
      /\ job.sec \in Nat
      /\ job.sec <= Len(sections) => job.sec \in 1..Len(sections) /\ s = sections[job.sec]
  BY <1>5 DEF units, sections, s
<1>7. Ready(units, comp, sections, job.at, job.sec, job.i, coder)
  BY <1>5, Zenon DEF units, comp, sections, coder
<1>8. Ready(units, comp, sections, job'.at, job'.sec, i2, coder2)
  <2>1. CASE FirstChar
    <3>1. /\ job.at = "section"
          /\ \/ /\ s = <<>> /\ job'.at = "section" /\ job'.sec = job.sec + 1
             \/ /\ s # <<>> /\ job'.at = "char" /\ job'.sec = job.sec /\ i2 = 2
                /\ coder2 = Started(s[1])
      BY <2>1, FirstCharStep DEF s, i2, coder2
    <3>2. CASE job.sec <= Len(sections) /\ s = <<>>
      <4>1. units \o <<>> = units  BY <1>6, ConcatEmptySeq
      <4>2. Ready(units \o sections[job.sec], comp, sections, "section", job.sec + 1, i2, coder2)
        BY <1>6, <1>7, <3>1, <3>2, ReadySection
      <4> QED BY <1>6, <3>1, <3>2, <4>1, <4>2
    <3>3. CASE job.sec <= Len(sections) /\ s # <<>>
      <4>1. Ready(units, comp, sections, "char", job.sec, 2, Started(sections[job.sec][1]))
        BY <1>6, <1>7, <3>1, <3>3, ReadyStarts
      <4> QED BY <1>6, <3>1, <3>3, <4>1
    <3>4. CASE ~(job.sec <= Len(sections))
      <4>1. job.sec > Len(sections) /\ job'.sec \in Nat /\ job'.sec > Len(sections)
        BY <1>6, <3>1, <3>4
      <4> QED BY <1>6, <1>7, <4>1, ReadyAll
    <3> QED BY <3>2, <3>3, <3>4
  <2>2. CASE CharMatched
    <3>1. /\ job.at = "char" /\ job'.at = "char" /\ job.i <= Len(s)
          /\ Extends(coder, s[job.i]) /\ job'.sec = job.sec
          /\ i2 = job.i + 1 /\ coder2 = Longer(coder, s[job.i])
      BY <2>2, CharMatchedStep DEF s, i2, coder2, coder
    <3>2. CASE job.sec <= Len(sections)  BY <1>6, <1>7, <3>1, <3>2, ReadyLonger
    <3>3. CASE ~(job.sec <= Len(sections))
      <4>1. job.sec > Len(sections)  BY <1>6, <3>3
      <4> QED BY <1>6, <1>7, <3>1, <4>1, ReadyAll
    <3> QED BY <3>2, <3>3
  <2> QED BY <2>1, <2>2
<1> QED BY <1>1, <1>4, <1>8, Zenon DEF units, comp, sections, i2, coder2

(* Whatever a process does, files are whole and the reader is in step.      *)
LEMMA WholesStep ==
  ASSUME TypeOK, Hands, Stored, Plain, Wholes, [Next]_vars
  PROVE  Wholes'
<1>1. /\ job \in Jobs /\ disk \in [Files -> Contents \cup {Null}] /\ memory \in Memories
      /\ job.temp \in Temps \cup {Null} /\ Target \in Files /\ Target # job.temp
      /\ Target \notin Temps
  <2>1. job \in Jobs  BY DEF TypeOK
  <2>2. job.temp \in Temps \cup {Null}  BY <2>1 DEF Jobs
  <2> QED BY <2>1, <2>2, Names DEF TypeOK
<1>2. CASE UNCHANGED vars  BY <1>2, Zenon DEF vars, Wholes, InStep, OnTheWay, Packs
<1>3. ASSUME disk'[Target] = disk[Target],
             job'.at \notin {"open", "tables", "header", "section", "char", "end", "drain",
                             "rereloc", "unlink", "rename"}
      PROVE  Wholes'
  BY <1>3, Zenon DEF Wholes
<1>4. ASSUME NEW s \in Edits, NEW f \in 0..1, Run(s, f) PROVE Wholes'
  BY <1>3, <1>4 DEF Run, At
<1>5. CASE Closing
  <2>1. job'.at \in {"running", "stopped", "peek"}  BY <1>5, ClosingStep
  <2>2. disk' = disk \/ disk' = [disk EXCEPT ![job.temp] = Null]
    BY <1>5 DEF Closing, Chain, EndProgram, Crash, Saved, Restart, LoadFailed, Discard, Start
  <2>3. disk'[Target] = disk[Target]  BY <1>1, <2>2
  <2> QED BY <1>3, <2>1, <2>3
<1>6. ASSUME NEW stay \in BOOLEAN, BeginSave(stay) PROVE Wholes'
  <2>1. job'.at = "open" /\ job'.sec = 1 /\ job'.buf = <<>> /\ disk' = disk
    BY <1>6, BeginStep
  <2> QED BY <2>1, Zenon DEF Wholes
<1>7. CASE Leading
  <2>1. ASSUME NEW t \in Temps, NEW ok \in BOOLEAN, OpenTemp(t, ok) \/ NoTempName(t)
        PROVE  Wholes'
    <3>1. /\ job.at = "open" /\ job'.at = "tables" /\ job'.sec = job.sec /\ job'.buf = job.buf
          /\ \A f \in Files \ {t} : disk'[f] = disk[f]
      BY <2>1, OpenStep
    <3>2. disk'[Target] = disk[Target]  BY <1>1, <3>1
    <3> QED BY <3>1, <3>2, Zenon DEF Wholes
  <2>2. ASSUME NEW room \in {"free", "extended", "none"}, Tables(room) PROVE Wholes'
    <3>1. /\ job.at = "tables" /\ job'.at = "header" /\ disk' = disk
          /\ job'.sec = job.sec /\ job'.buf = job.buf
      BY <2>2, TablesStep
    <3> QED BY <3>1, Zenon DEF Wholes
  <2>3. ASSUME NEW ok \in BOOLEAN, WriteHeader(ok) PROVE Wholes'
    <3>1. /\ job.at = "header" /\ job'.at = "section"
          /\ job'.temp = job.temp /\ (job.err => job'.err)
          /\ job'.sec = job.sec /\ job'.buf = job.buf /\ memory' = memory
          /\ \A f \in Files \ {job.fd} : disk'[f] = disk[f]
          /\ job.fd # Null => disk'[job.fd].units = disk[job.fd].units
      BY <2>3, WriteHeaderStep
    <3>2. disk'[Target] = disk[Target]  BY <3>1, Untouched
    <3>3. ASSUME ~job'.err PROVE InStep'
      <4>1. ~job.err  BY <3>1, <3>3, Zenon
      <4>2. job.fd = job.temp /\ job.fd # Null
        BY <3>1, <4>1, TempIsOpen DEF WithTemp, SaveSteps
      <4>3. disk[job.temp].units = <<>>  BY <3>1, <4>1, Zenon DEF Plain
      <4>4. job.sec = 1 /\ job.buf = <<>>  BY <3>1, Zenon DEF Wholes
      <4>5. OnTheWay' = <<>>  BY <3>1, <4>2, <4>3, <4>4 DEF OnTheWay
      <4>6. memory.sections \in Seq(Seq(Character))  BY <1>1, SectionsType
      <4> DEFINE comp == Packs'
                 sections == memory.sections
                 i2 == job'.i
                 coder2 == job'.coder
      <4> HIDE DEF comp, sections, i2, coder2
      <4>7. Ready(<<>>, comp, sections, "section", 1, i2, coder2)
        BY <4>6, ReadyBegins DEF sections
      <4> QED BY <3>1, <4>4, <4>5, <4>7, Zenon DEF InStep, comp, sections, i2, coder2
    <3> QED BY <3>1, <3>2, <3>3, Zenon DEF Wholes
  <2> QED BY <1>7, <2>1, <2>2, <2>3 DEF Leading
<1>8. CASE Storing
  <2>1. disk'[Target] = disk[Target]  BY <1>8, StoringEffect
  <2>2. ASSUME ~job'.err, ~disk'[job'.temp].lost
        PROVE  \/ /\ job'.at \in {"section", "char", "end"}
                  /\ Ready(OnTheWay', Packs', memory'.sections, job'.at, job'.sec, job'.i,
                           job'.coder)
               \/ job'.at = "drain" /\ Readable(OnTheWay', Packs', memory'.sections)
               \/ /\ job'.at = "rereloc"
                  /\ Readable(disk'[job'.temp].units, Packs', memory'.sections)
    <3>1. ASSUME NEW ok \in BOOLEAN, CharUnmatched(ok) \/ LastCode(ok) \/ EndCode(ok)
          PROVE  /\ job'.at \in {"section", "char", "end"}
                 /\ Ready(OnTheWay', Packs', memory'.sections, job'.at, job'.sec, job'.i,
                          job'.coder)
      <4>1. job'.at \in {"section", "char", "end"}
        BY <3>1, CharUnmatchedStep, LastCodeStep, EndCodeStep
      <4> QED BY <2>2, <3>1, <4>1, CodesInStep
    <3>2. ASSUME NEW ok \in BOOLEAN, WriteSection(ok)
          PROVE  /\ job'.at \in {"section", "char", "end"}
                 /\ Ready(OnTheWay', Packs', memory'.sections, job'.at, job'.sec, job'.i,
                          job'.coder)
      <4>1. job'.at \in {"section", "char", "end"}  BY <3>2, WriteSectionStep
      <4> QED BY <2>2, <3>2, <4>1, WholeInStep
    <3>3. ASSUME FirstChar \/ CharMatched
          PROVE  /\ job'.at \in {"section", "char", "end"}
                 /\ Ready(OnTheWay', Packs', memory'.sections, job'.at, job'.sec, job'.i,
                          job'.coder)
      <4>1. job'.at \in {"section", "char", "end"}  BY <3>3, FirstCharStep, CharMatchedStep
      <4> QED BY <2>2, <3>3, <4>1, CharsInStep
    <3>4. ASSUME NEW ok \in BOOLEAN, Pad(ok)
          PROVE  job'.at = "drain" /\ Readable(OnTheWay', Packs', memory'.sections)
      BY <2>2, <3>4, PadStep, AllInStep
    <3>5. ASSUME NEW ok \in BOOLEAN, Drain(ok)
          PROVE  /\ job'.at = "rereloc"
                 /\ Readable(disk'[job'.temp].units, Packs', memory'.sections)
      BY <2>2, <3>5, DrainStep, AllInStep
    <3>6. ASSUME NotCompressed
          PROVE  /\ job'.at = "rereloc"
                 /\ Readable(disk'[job'.temp].units, Packs', memory'.sections)
      <4>1. Goto("rereloc")  BY <3>6 DEF NotCompressed
      <4>2. job'.at = "rereloc"  BY <4>1, GotoStep DEF Steps
      <4> QED BY <2>2, <3>6, <4>2, WholeInStep
    <3> QED BY <1>8, <3>1, <3>2, <3>3, <3>4, <3>5, <3>6, Zenon DEF Storing
  <2>3. job'.at \in {"section", "char", "end", "drain", "rereloc"}
    BY <1>8, StoringEffect DEF Packing
  <2>4. ~job'.err /\ job'.at \in {"section", "char", "end"} => InStep'
    <3>1. job'.at \in {"section", "char", "end"} => job'.at # "drain" /\ job'.at # "rereloc"
      OBVIOUS
    <3> QED BY <2>2, <3>1, Zenon DEF InStep
  <2>5. ~job'.err /\ job'.at = "drain" =>
          (~disk'[job'.temp].lost => Readable(OnTheWay', Packs', memory'.sections))
    <3>1. job'.at = "drain" => job'.at \notin {"section", "char", "end", "rereloc"}  OBVIOUS
    <3> QED BY <2>2, <3>1, Zenon
  <2>6. ~job'.err /\ job'.at \in {"rereloc", "unlink", "rename"} =>
          (~disk'[job'.temp].lost =>
             Readable(disk'[job'.temp].units, Packs', memory'.sections))
    <3>1. job'.at \in {"rereloc", "unlink", "rename"} =>
            job'.at \notin {"section", "char", "end"} /\ job'.at # "drain"
      OBVIOUS
    <3> QED BY <2>2, <3>1, Zenon
  <2>7. job'.at \notin {"open", "tables", "header"}  BY <2>3
  <2> QED BY <2>1, <2>4, <2>5, <2>6, <2>7, Zenon DEF Wholes
<1>9. CASE Rereloc
  <2>1. /\ job.at = "rereloc" /\ disk' = disk /\ memory' = [memory EXCEPT !.relative = FALSE]
        /\ Goto("discard") \/ Goto("unlink")
    BY <1>9 DEF Rereloc, At
  <2>2. /\ job'.at \in {"discard", "unlink"} /\ job'.temp = job.temp /\ job'.err = job.err
    BY <2>1, GotoStep DEF Steps
  <2>3. memory'.sections = memory.sections  BY <1>1, <2>1 DEF Memories
  <2>4. job'.at \notin {"open", "tables", "header", "section", "char", "end", "drain"}
    BY <2>2
  <2> QED BY <2>1, <2>2, <2>3, <2>4, Zenon DEF Wholes, Packs
<1>10. CASE Unlinking
  <2>1. /\ job.at = "unlink" /\ Goto("rename") /\ memory' = memory
        /\ disk'[Target] = Null \/ disk'[Target] = disk[Target]
        /\ \A f \in Files \ {Target} : disk'[f] = disk[f]
    BY <1>10, UnlinkStep
  <2>2. job'.at = "rename" /\ job'.temp = job.temp /\ job'.err = job.err
    BY <2>1, GotoStep DEF Steps
  <2>3. ~job.err  BY <2>1, Zenon DEF Hands
  <2>4. disk'[job.temp] = disk[job.temp]
    <3>1. job.temp \in Files  BY <2>1, <2>3, TempIsOpen DEF WithTemp, SaveSteps
    <3> QED BY <1>1, <2>1, <3>1
  <2> QED BY <2>1, <2>2, <2>4, Zenon DEF Wholes, Packs
<1>11. ASSUME Renaming PROVE Wholes'
  <2>1. /\ job.at = "rename" /\ job'.at \in {"saved", "discard"}
        /\ disk'[Target] = disk[job.temp] \/ disk' = disk
    BY <1>11, RenameStep
  <2>2. ~job.err  BY <2>1, Zenon DEF Hands
  <2>3. FileWhole(disk[job.temp])
    <3>1. /\ disk[job.temp].of.sections = memory.sections
          /\ disk[job.temp].header.sizes = SizesOf(memory.sections)
      BY <2>1, <2>2, Zenon DEF Stored
    <3>2. ~disk[job.temp].lost => Readable(disk[job.temp].units, Packs, memory.sections)
      BY <2>1, <2>2, Zenon DEF Wholes
    <3> QED BY <3>1, <3>2, Zenon DEF FileWhole, Packs
  <2>4. job'.at \notin {"open", "tables", "header", "section", "char", "end", "drain",
                        "rereloc", "unlink", "rename"}
    BY <2>1
  <2> QED BY <2>1, <2>3, <2>4, Zenon DEF Wholes
<1>12. CASE LoadingOf
  <2>1. job'.at \in LoadSteps /\ disk' = disk  BY <1>12, LoadingStep
  <2> QED BY <1>3, <2>1 DEF LoadSteps
<1> QED BY <1>2, <1>4, <1>5, <1>6, <1>7, <1>8, <1>9, <1>10, <1>11, <1>12, StepCases

-----------------------------------------------------------------------------
(* The process that loads a file is a reader of it, and gets to its end.    *)
ReaderOf(j) ==
  [at |-> j.at, sec |-> j.sec, i |-> j.i, decoder |-> j.decoder, out |-> j.out]

GetsThrough(c, j) ==
  \E G, f : /\ Reaches(G, c.units, c.header.sizes, c.header.comp, f)
            /\ Finished(f, c.of.sections) /\ ReaderOf(j) \in G

Reading ==
  /\ job.at \in {"load", "codes"} => Saving.lost \/ job.misread \/ GetsThrough(Saving, job)
  /\ job.at = "restart" => Saving.lost \/ job.misread \/ job.out = Saving.of.sections
  /\ job.at = "failed" => \/ Saving.lost \/ job.misread
                          \/ job.cause \in {"fault", "version", "functions"}

(* The file that is loaded.                                                 *)
LEMMA FileInHand ==
  ASSUME TypeOK, Loading, Stored, Wholes, job.at \in LoadSteps
  PROVE  /\ Saving.of.sections \in Seq(Seq(Character)) /\ Len(Saving.of.sections) \in Nat
         /\ Len(Header.sizes) = Len(Saving.of.sections) /\ Header # Null
         /\ Header.sizes = SizesOf(Saving.of.sections) /\ Saving.units \in Seq(Code)
         /\ ~Saving.lost => Readable(Saving.units, Header.comp, Saving.of.sections)
<1>1. Saving # Null  BY Zenon DEF Loading, Saving
<1>2. Saving \in Contents  BY <1>1, Names DEF TypeOK, Saving
<1>3. Saving.of # Null /\ Header # Null  BY <1>1, Zenon DEF Stored, Saving, Header
<1>4. Saving.of \in Memories /\ Saving.units \in Seq(Code)  BY <1>2, <1>3 DEF Contents
<1>5. Saving.of.sections \in Seq(Seq(Character)) /\ Len(Saving.of.sections) \in Nat
  BY <1>4, SectionsType
<1>6. FileWhole(Saving)  BY <1>1, Zenon DEF Wholes, Saving
<1>7. /\ Header.sizes = SizesOf(Saving.of.sections)
      /\ ~Saving.lost => Readable(Saving.units, Header.comp, Saving.of.sections)
  BY <1>6, Zenon DEF FileWhole, Header
<1>8. Len(Header.sizes) = Len(Saving.of.sections)  BY <1>5, <1>7, SizesAre
<1> QED BY <1>3, <1>4, <1>5, <1>7, <1>8, Zenon

(* A reader that is not at the end has one step, and the process takes it   *)
(* unless a system call fails.                                              *)
LEMMA ReaderSteps ==
  ASSUME TypeOK, Loading, Stored, Wholes, job.at \in {"load", "codes"},
         job.at = "load" => ~AllLoaded, GetsThrough(Saving, job),
         \/ \E ok \in BOOLEAN : ReadSection(ok)
         \/ ReadingFirst \/ ReadCode \/ ReadingEnd
  PROVE  \/ job'.misread
         \/ job'.at = "failed" /\ job'.cause = "fault"
         \/ job'.at \in {"load", "codes"} /\ GetsThrough(Saving, job')
<1> DEFINE units == Saving.units
           sizes == Header.sizes
           comp == Header.comp
           s == ReaderOf(job)
<1>1. PICK G, f : /\ Reaches(G, units, sizes, comp, f)
                  /\ Finished(f, Saving.of.sections) /\ s \in G
  BY Zenon DEF GetsThrough, Header
<1>2. /\ Len(Saving.of.sections) \in Nat /\ Len(sizes) = Len(Saving.of.sections)
  BY FileInHand DEF LoadSteps
<1>3. job \in Jobs  BY DEF TypeOK
<1>4. job.sec \in Nat \ {0} /\ job.i \in Nat \ {0}  BY <1>3 DEF Jobs
<1>5. /\ s.at = job.at /\ s.sec = job.sec /\ s.i = job.i /\ s.decoder = job.decoder
      /\ s.out = job.out
  BY DEF ReaderOf
<1>6. s # f
  <2>1. f.at = "load" /\ f.sec = Len(sizes) + 1  BY <1>1, <1>2 DEF Finished
  <2>2. s = f => job.at = "load" /\ job.sec > Len(sizes)
    <3> HIDE DEF s, sizes
    <3> QED BY <1>2, <1>5, <2>1
  <2> QED BY <2>2 DEF AllLoaded
<1> HIDE DEF s
<1>7. PICK t \in G : Reads(units, sizes, comp, s, t)
  BY <1>1, <1>6, Zenon DEF Reaches
<1>8. ASSUME ReaderOf(job') = t, job'.at \in {"load", "codes"}
      PROVE  job'.at \in {"load", "codes"} /\ GetsThrough(Saving, job')
  BY <1>1, <1>7, <1>8, Zenon DEF GetsThrough, Header
<1>9. ASSUME job'.at = t.at, job'.sec = t.sec, job'.i = t.i, job'.decoder = t.decoder,
             job'.out = t.out, t = [at |-> t.at, sec |-> t.sec, i |-> t.i,
                                    decoder |-> t.decoder, out |-> t.out]
      PROVE  ReaderOf(job') = t
  BY <1>9, Zenon DEF ReaderOf
<1>10. ASSUME job.i <= Len(units) PROVE Unit(job.i) = units[job.i]
  BY <1>10 DEF Unit
<1>11. CASE \E ok \in BOOLEAN : ReadSection(ok)
  <2>1. PICK ok \in BOOLEAN : ReadSection(ok)  BY <1>11
  <2>2. job.at = "load" /\ ~AllLoaded /\ (~Header.comp \/ Wanted = 0)
    BY <2>1, ReadSectionStep
  <2>3. \/ job'.at = "failed" /\ job'.cause = "fault"
        \/ job'.at = "failed" /\ job.i + Wanted - 1 > Len(Saving.units)
        \/ /\ job'.at = "load" /\ job'.sec = job.sec + 1 /\ job'.i = job.i + Wanted
           /\ job'.out = Append(job.out, SubSeq(Saving.units, job.i, job.i + Wanted - 1))
           /\ job'.decoder = job.decoder
    BY <2>1, ReadSectionStep
  <2>4. ReadsSection(units, sizes, comp, s, t)
    <3>1. ~ReadsCode(units, s, t) /\ ~ReadsEnd(units, sizes, s, t)
      BY <1>5, <2>2 DEF ReadsCode, ReadsEnd
    <3>2. ~ReadsFirst(units, sizes, comp, s, t)
      <4>1. sizes[s.sec] = Wanted  BY <1>5 DEF Wanted
      <4>2. Wanted = 0 => ~(Wanted > 0)  OBVIOUS
      <4> QED BY <2>2, <4>1, <4>2, Zenon DEF ReadsFirst
    <3> QED BY <1>7, <3>1, <3>2 DEF Reads
  <2>5. sizes[s.sec] = Wanted  BY <1>5 DEF Wanted
  <2>6. /\ job.i + Wanted - 1 <= Len(units)
        /\ t = [at |-> "load", sec |-> job.sec + 1, i |-> job.i + Wanted,
                decoder |-> job.decoder,
                out |-> Append(job.out, SubSeq(units, job.i, job.i + Wanted - 1))]
    BY <1>5, <2>4, <2>5 DEF ReadsSection
  <2>7. ~(job.i + Wanted - 1 > Len(Saving.units))
    <3>1. sizes \in Seq(Nat) /\ Saving.units \in Seq(Code)
      BY FileInHand, SizesAre DEF LoadSteps
    <3>2. job.sec \in 1..Len(sizes)  BY <1>2, <1>4, <2>2 DEF AllLoaded
    <3>3. Wanted \in Nat  BY <3>1, <3>2, ElementOfSeq DEF Wanted
    <3>4. Len(Saving.units) \in Nat  BY <3>1
    <3> QED BY <1>4, <2>6, <3>3, <3>4
  <2>8. CASE job'.at = "failed" /\ job'.cause = "fault"  BY <2>8
  <2>9. CASE ~(job'.at = "failed" /\ job'.cause = "fault")
    <3>1. /\ job'.at = "load" /\ job'.sec = job.sec + 1 /\ job'.i = job.i + Wanted
          /\ job'.out = Append(job.out, SubSeq(Saving.units, job.i, job.i + Wanted - 1))
          /\ job'.decoder = job.decoder
      BY <2>3, <2>7, <2>9, Zenon
    <3>2. ReaderOf(job') = t  BY <1>9, <2>6, <3>1
    <3> QED BY <1>8, <3>1, <3>2
  <2> QED BY <2>8, <2>9
<1>12. CASE ReadingFirst
  <2>1. PICK ok \in BOOLEAN, heap \in Heaps : ReadFirst(ok, heap)  BY <1>12 DEF ReadingFirst
  <2>2. /\ job.at = "load" /\ Header.comp /\ Wanted > 0 /\ job'.at = "codes"
        /\ ~ok => job'.misread
    BY <2>1, ReadFirstStep
  <2>3. ReadsFirst(units, sizes, comp, s, t)
    <3>1. ~ReadsCode(units, s, t) /\ ~ReadsEnd(units, sizes, s, t)
      BY <1>5, <2>2 DEF ReadsCode, ReadsEnd
    <3>2. ~ReadsSection(units, sizes, comp, s, t)
      <4>1. sizes[s.sec] = Wanted  BY <1>5 DEF Wanted
      <4>2. Wanted # 0  BY <2>2
      <4> QED BY <2>2, <4>1, <4>2, Zenon DEF ReadsSection
    <3> QED BY <1>7, <3>1, <3>2 DEF Reads
  <2>4. /\ job.i <= Len(units) /\ units[job.i] < FirstCode
        /\ t = [at |-> "codes", sec |-> job.sec, i |-> job.i + 1,
                decoder |-> FirstRead(units[job.i]),
                out |-> Append(job.out, <<units[job.i] % FirstCode>>)]
    BY <1>5, <2>3 DEF ReadsFirst
  <2>5. Unit(job.i) = units[job.i]  BY <1>10, <2>4
  <2>6. ASSUME ok PROVE job'.at \in {"load", "codes"} /\ GetsThrough(Saving, job')
    <3>1. /\ job'.at = "codes" /\ job'.sec = job.sec /\ job'.i = job.i + 1
          /\ job'.decoder = FirstRead(Unit(job.i))
          /\ job'.out = Append(job.out, <<Unit(job.i) % FirstCode>>)
      <4>1. Unit(job.i) < FirstCode  BY <2>4, <2>5
      <4> QED BY <2>1, <2>6, <4>1, ReadFirstStep
    <3>2. ReaderOf(job') = t  BY <1>9, <2>4, <2>5, <3>1
    <3> QED BY <1>8, <3>1, <3>2
  <2> QED BY <2>2, <2>6, Zenon
<1>13. CASE ReadCode
  <2>1. job.at = "codes" /\ Unit(job.i) # MaxValue  BY <1>13, ReadCodeStep
  <2>2. \/ job'.at = "failed" /\ job.i > Len(Saving.units)
        \/ /\ job'.at = "failed"
           /\ ~Decodable(job.decoder.table, Looked(job.decoder, Unit(job.i)), DecodeLimit)
        \/ /\ job'.at = "codes" /\ job'.sec = job.sec /\ job'.i = job.i + 1
           /\ job'.decoder = Read(job.decoder, Unit(job.i),
                                  Decoded(job.decoder, Unit(job.i), DecodeLimit))
           /\ job'.out = [job.out EXCEPT ![job.sec] =
                            @ \o Decoded(job.decoder, Unit(job.i), DecodeLimit)]
    BY <1>13, ReadCodeStep
  <2>3. s.i <= Len(units)  BY <1>5, <1>7, <2>1 DEF Reads, ReadsSection, ReadsFirst, ReadsCode, ReadsEnd
  <2>4. Unit(job.i) = units[job.i] /\ job.i <= Len(units)  BY <1>5, <1>10, <2>3
  <2>5. ReadsCode(units, s, t)
    <3>1. ~ReadsSection(units, sizes, comp, s, t) /\ ~ReadsFirst(units, sizes, comp, s, t)
      BY <1>5, <2>1 DEF ReadsSection, ReadsFirst
    <3>2. ~ReadsEnd(units, sizes, s, t)  BY <1>5, <2>1, <2>4 DEF ReadsEnd
    <3> QED BY <1>7, <3>1, <3>2 DEF Reads
  <2>6. /\ Decodable(job.decoder.table, Looked(job.decoder, units[job.i]), DecodeLimit)
        /\ t = [at |-> "codes", sec |-> job.sec, i |-> job.i + 1,
                decoder |-> Read(job.decoder, units[job.i],
                                 Decoded(job.decoder, units[job.i], DecodeLimit)),
                out |-> [job.out EXCEPT ![job.sec] =
                           @ \o Decoded(job.decoder, units[job.i], DecodeLimit)]]
    BY <1>5, <2>5, Zenon DEF ReadsCode
  <2>7. ~(job.i > Len(Saving.units))
    <3>1. Saving.units \in Seq(Code)  BY FileInHand DEF LoadSteps
    <3> QED BY <1>4, <2>4, <3>1
  <2>8. /\ job'.at = "codes" /\ job'.sec = job.sec /\ job'.i = job.i + 1
        /\ job'.decoder = Read(job.decoder, units[job.i],
                               Decoded(job.decoder, units[job.i], DecodeLimit))
        /\ job'.out = [job.out EXCEPT ![job.sec] =
                         @ \o Decoded(job.decoder, units[job.i], DecodeLimit)]
    BY <2>2, <2>4, <2>6, <2>7, Zenon
  <2>9. ReaderOf(job') = t  BY <2>6, <2>8, Zenon DEF ReaderOf
  <2> QED BY <1>8, <2>8, <2>9
<1>14. CASE ReadingEnd
  <2>1. PICK ok \in BOOLEAN : ReadEnd(ok)  BY <1>14 DEF ReadingEnd
  <2>2. /\ job.at = "codes" /\ (ok => Unit(job.i) = MaxValue)
        /\ \/ /\ job'.at = "failed" /\ Len(job.out[job.sec]) # Wanted
              /\ ~ok => job'.cause = "fault"
           \/ /\ job'.at = "load" /\ job'.sec = job.sec + 1
              /\ job'.out = job.out /\ job'.decoder = job.decoder
              /\ ok => job'.i = job.i + 1
              /\ ~ok => job'.misread
    BY <2>1, ReadEndStep
  <2>3. CASE ~ok  BY <2>2, <2>3, Zenon
  <2>4. CASE ok
    <3>1. s.i <= Len(units)
      BY <1>5, <1>7, <2>2 DEF Reads, ReadsSection, ReadsFirst, ReadsCode, ReadsEnd
    <3>2. Unit(job.i) = units[job.i] /\ Unit(job.i) = MaxValue  BY <1>5, <1>10, <2>2, <2>4, <3>1
    <3>3. ReadsEnd(units, sizes, s, t)
      <4>1. ~ReadsSection(units, sizes, comp, s, t) /\ ~ReadsFirst(units, sizes, comp, s, t)
        BY <1>5, <2>2 DEF ReadsSection, ReadsFirst
      <4>2. ~ReadsCode(units, s, t)  BY <1>5, <3>2 DEF ReadsCode
      <4> QED BY <1>7, <4>1, <4>2 DEF Reads
    <3>4. /\ Len(job.out[job.sec]) = Wanted
          /\ t = [at |-> "load", sec |-> job.sec + 1, i |-> job.i + 1,
                  decoder |-> job.decoder, out |-> job.out]
      BY <1>5, <3>3 DEF ReadsEnd, Wanted
    <3>5. /\ job'.at = "load" /\ job'.sec = job.sec + 1 /\ job'.i = job.i + 1
          /\ job'.out = job.out /\ job'.decoder = job.decoder
      BY <2>2, <2>4, <3>4
    <3>6. ReaderOf(job') = t  BY <1>9, <3>4, <3>5
    <3> QED BY <1>8, <3>5, <3>6
  <2> QED BY <2>3, <2>4
<1> QED BY <1>11, <1>12, <1>13, <1>14

(* What is loaded goes on being what was saved.                             *)
LEMMA ReadingStep ==
  ASSUME TypeOK, Hands, Loading, Stored, Wholes, Reading, [Next]_vars
  PROVE  Reading'
<1>1. CASE UNCHANGED vars
  <2>1. job' = job /\ disk' = disk  BY <1>1 DEF vars
  <2> QED BY <2>1, Zenon DEF Reading, Saving
<1>2. ASSUME job'.at \notin {"load", "codes", "restart", "failed"} PROVE Reading'
  <2>1. /\ job'.at \notin {"load", "codes"} /\ job'.at # "restart" /\ job'.at # "failed"
    BY <1>2
  <2> QED BY <2>1, Zenon DEF Reading
<1>3. ASSUME NEW s \in Edits, NEW f \in 0..1, Run(s, f) PROVE Reading'
  BY <1>2, <1>3 DEF Run, At
<1>4. CASE Closing
  <2>1. job'.at \in {"running", "stopped", "peek"}  BY <1>4, ClosingStep
  <2> QED BY <1>2, <2>1
<1>5. CASE \/ (\E stay \in BOOLEAN : BeginSave(stay)) \/ Leading \/ Storing
           \/ Rereloc \/ Unlinking \/ Renaming
  <2>1. job'.at \in SaveSteps  BY <1>5, SavingStep
  <2> QED BY <1>2, <2>1 DEF SaveSteps
<1>6. CASE LoadingOf
  <2>1. job.at \in LoadSteps /\ disk' = disk  BY <1>6, LoadingStep
  <2>2. Saving' = Saving  BY <2>1 DEF Saving
  <2>3. /\ Header # Null
        /\ Len(Saving.of.sections) \in Nat /\ Len(Header.sizes) = Len(Saving.of.sections)
        /\ Header.sizes = SizesOf(Saving.of.sections)
        /\ ~Saving.lost => Readable(Saving.units, Header.comp, Saving.of.sections)
    BY <2>1, FileInHand
  <2>4. ASSUME job'.at = "failed", job'.cause \in {"fault", "version", "functions"}
        PROVE  Reading'
    <3>1. job'.at \notin {"load", "codes"} /\ job'.at # "restart"  BY <2>4
    <3> QED BY <2>4, <3>1, Zenon DEF Reading
  <2>5. ASSUME NEW ok \in BOOLEAN, CheckHeader(ok) PROVE Reading'
    <3>1. /\ job.at = "peek"
          /\ \/ Fail("fault") \/ Fail("version") \/ Goto("memory")
      BY <2>3, <2>5 DEF CheckHeader, At
    <3>2. CASE Fail("fault")
      <4>1. job'.at = "failed" /\ job'.cause = "fault"  BY <3>2, FailStep DEF Causes
      <4> QED BY <2>4, <4>1
    <3>3. CASE Fail("version")
      <4>1. job'.at = "failed" /\ job'.cause = "version"  BY <3>3, FailStep DEF Causes
      <4> QED BY <2>4, <4>1
    <3>4. CASE Goto("memory")
      <4>1. job'.at = "memory"  BY <3>4, GotoStep DEF Steps
      <4> QED BY <1>2, <4>1
    <3> QED BY <3>1, <3>2, <3>3, <3>4
  <2>6. ASSUME NEW ok \in BOOLEAN, GetMemory(ok) PROVE Reading'
    <3>1. Goto("expansion") \/ Fail("fault")  BY <2>6 DEF GetMemory
    <3>2. CASE Fail("fault")
      <4>1. job'.at = "failed" /\ job'.cause = "fault"  BY <3>2, FailStep DEF Causes
      <4> QED BY <2>4, <4>1
    <3>3. CASE Goto("expansion")
      <4>1. job'.at = "expansion"  BY <3>3, GotoStep DEF Steps
      <4> QED BY <1>2, <4>1
    <3> QED BY <3>1, <3>2, <3>3
  <2>7. ASSUME NEW ok \in BOOLEAN, NEW extended \in BOOLEAN, Expansion(extended, ok)
        PROVE  Reading'
    <3>1. job.at = "expansion" /\ (Goto("load") \/ Fail("fault"))
      BY <2>7 DEF Expansion, At
    <3>2. CASE Fail("fault")
      <4>1. job'.at = "failed" /\ job'.cause = "fault"  BY <3>2, FailStep DEF Causes
      <4> QED BY <2>4, <4>1
    <3>3. CASE Goto("load")
      <4>1. job.sec = 1 /\ job.i = 1 /\ job.out = <<>> /\ job.decoder = FirstRead(0)
        BY <3>1 DEF Loading
      <4>2. /\ job'.at = "load" /\ job'.sec = 1 /\ job'.i = 1 /\ job'.out = <<>>
            /\ job'.decoder = FirstRead(0)
        BY <3>3, <4>1, GotoStep DEF Steps
      <4>3. ReaderOf(job') = Beginning  BY <4>2 DEF ReaderOf, Beginning
      <4>4. ~Saving.lost => GetsThrough(Saving, job')
        <5>1. SUFFICES ASSUME ~Saving.lost PROVE GetsThrough(Saving, job')  OBVIOUS
        <5>2. Readable(Saving.units, Header.comp, Saving.of.sections)  BY <2>3, <5>1, Zenon
        <5>3. PICK G, f : /\ Reaches(G, Saving.units, SizesOf(Saving.of.sections), Header.comp, f)
                          /\ Finished(f, Saving.of.sections)
          BY <5>2 DEF Readable
        <5>4. Reaches(G, Saving.units, Header.sizes, Header.comp, f)  BY <2>3, <5>3
        <5>5. Beginning \in G  BY <5>3 DEF Reaches
        <5> QED BY <4>3, <5>3, <5>4, <5>5, Zenon DEF GetsThrough, Header
      <4>5. job'.at # "restart" /\ job'.at # "failed"  BY <4>2
      <4> QED BY <2>2, <4>4, <4>5, Zenon DEF Reading
    <3> QED BY <3>1, <3>2, <3>3
  <2>13. ASSUME job'.misread PROVE Reading'  BY <2>13, Zenon DEF Reading
  <2>8. ASSUME job.at \in {"load", "codes"}, job.at = "load" => ~AllLoaded,
               \/ \E ok \in BOOLEAN : ReadSection(ok)
               \/ ReadingFirst \/ ReadCode \/ ReadingEnd
        PROVE  Reading'
    <3>1. CASE Saving.lost  BY <2>2, <3>1, Zenon DEF Reading
    <3>3. CASE job.misread
      <4>1. job'.misread  BY <1>6, <3>3, MisreadStays
      <4> QED BY <2>13, <4>1
    <3>2. CASE ~Saving.lost /\ ~job.misread
      <4>1. GetsThrough(Saving, job)  BY <2>8, <3>2, Zenon DEF Reading
      <4>2. \/ job'.misread
            \/ job'.at = "failed" /\ job'.cause = "fault"
            \/ job'.at \in {"load", "codes"} /\ GetsThrough(Saving, job')
        BY <2>8, <4>1, ReaderSteps
      <4>3. CASE job'.at = "failed" /\ job'.cause = "fault"  BY <2>4, <4>3
      <4>4. CASE job'.at \in {"load", "codes"} /\ GetsThrough(Saving, job')
        <5>1. job'.at # "restart" /\ job'.at # "failed"  BY <4>4
        <5> QED BY <2>2, <4>4, <5>1, Zenon DEF Reading
      <4> QED BY <2>13, <4>2, <4>3, <4>4
    <3> QED BY <3>1, <3>2, <3>3
  <2>9. ASSUME NEW ok \in BOOLEAN, ReadSection(ok) PROVE Reading'
    <3>1. job.at = "load" /\ ~AllLoaded  BY <2>9 DEF ReadSection, At
    <3> QED BY <2>8, <2>9, <3>1
  <2>10. ASSUME ReadingFirst PROVE Reading'
    <3>1. job.at = "load" /\ ~AllLoaded  BY <2>10 DEF ReadingFirst, ReadFirst, At
    <3> QED BY <2>8, <2>10, <3>1
  <2>11. ASSUME ReadCode \/ ReadingEnd PROVE Reading'
    <3>1. job.at = "codes"  BY <2>11 DEF ReadCode, ReadingEnd, ReadEnd, At
    <3> QED BY <2>8, <2>11, <3>1
  <2>12. ASSUME FindFunctions PROVE Reading'
    <3>1. job.at = "load" /\ AllLoaded /\ (Fail("functions") \/ Goto("restart"))
      BY <2>12 DEF FindFunctions, At
    <3>2. CASE Fail("functions")
      <4>1. job'.at = "failed" /\ job'.cause = "functions"  BY <3>2, FailStep DEF Causes
      <4> QED BY <2>4, <4>1
    <3>3. CASE Goto("restart")
      <4>1. job'.at = "restart" /\ job'.out = job.out  BY <3>3, GotoStep DEF Steps
      <4>2. ~Saving.lost /\ ~job.misread => job.out = Saving.of.sections
        <5>1. SUFFICES ASSUME ~Saving.lost, ~job.misread PROVE job.out = Saving.of.sections
          OBVIOUS
        <5>2. GetsThrough(Saving, job)  BY <3>1, <5>1, Zenon DEF Reading
        <5>3. PICK G, f : /\ Reaches(G, Saving.units, Header.sizes, Header.comp, f)
                          /\ Finished(f, Saving.of.sections) /\ ReaderOf(job) \in G
          BY <5>2, Zenon DEF GetsThrough, Header
        <5>4. ReaderOf(job).at = "load" /\ ReaderOf(job).sec = job.sec
              /\ ReaderOf(job).out = job.out
          BY <3>1 DEF ReaderOf
        <5>5. ReaderOf(job) = f
          <6>1. ASSUME NEW t, Reads(Saving.units, Header.sizes, Header.comp, ReaderOf(job), t)
                PROVE  FALSE
            <7>1. job.sec <= Len(Header.sizes)
              BY <5>4, <6>1 DEF Reads, ReadsSection, ReadsFirst, ReadsCode, ReadsEnd
            <7>2. job.sec \in Nat  BY DEF TypeOK, Jobs
            <7> QED BY <2>3, <3>1, <7>1, <7>2 DEF AllLoaded
          <6> QED BY <5>3, <6>1, Zenon DEF Reaches
        <5> QED BY <5>3, <5>4, <5>5 DEF Finished
      <4>3. job'.at \notin {"load", "codes"} /\ job'.at # "failed"  BY <4>1
      <4>4. CASE job.misread
        <5>1. job'.misread  BY <1>6, <4>4, MisreadStays
        <5> QED BY <2>13, <5>1
      <4>5. CASE ~job.misread  BY <2>2, <4>1, <4>2, <4>3, <4>5, Zenon DEF Reading
      <4> QED BY <4>4, <4>5
    <3> QED BY <3>1, <3>2, <3>3
  <2> QED BY <1>6, <2>5, <2>6, <2>7, <2>9, <2>10, <2>11, <2>12, Zenon DEF LoadingOf
<1> QED BY <1>1, <1>3, <1>4, <1>5, <1>6, StepCases

-----------------------------------------------------------------------------
(* At every moment: a file under the save file's name can be read in full   *)
(* unless it lost a buffer, and a process that loads it is a reader that    *)
(* gets to its end, unless a read of compressed data failed and was taken   *)
(* for the end of a section.                                                *)
THEOREM AlwaysReadable == Spec => [](Wholes /\ Reading)
<1>1. ASSUME Init PROVE Wholes /\ Reading
  <2>1. PICK taken \in {{}, Temps} : disk = [f \in Files |-> IF f \in taken THEN Foreign ELSE Null]
    BY <1>1 DEF Init
  <2>2. disk[Target] = Null
    <3>1. Target \notin taken  BY Names
    <3> QED BY <2>1, <3>1, Names
  <2>3. job.at = "running"  BY <1>1 DEF Init, Quiet
  <2>4. job.at \notin {"open", "tables", "header", "section", "char", "end", "drain",
                       "rereloc", "unlink", "rename", "load", "codes", "restart", "failed"}
    BY <2>3
  <2>5. Wholes  BY <2>2, <2>4, Zenon DEF Wholes
  <2>6. Reading  BY <2>4, Zenon DEF Reading
  <2> QED BY <2>5, <2>6
<1>2. ASSUME Consistent, Wholes, Reading, [Next]_vars PROVE Wholes' /\ Reading'
  <2>1. TypeOK /\ Hands /\ Loading /\ Stored /\ Plain  BY <1>2 DEF Consistent
  <2> QED BY <1>2, <2>1, WholesStep, ReadingStep
<1>3. Init => Wholes /\ Reading  BY <1>1
<1>4. Consistent /\ (Wholes /\ Reading) /\ [Next]_vars => (Wholes /\ Reading)'
  <2> SUFFICES ASSUME Consistent, Wholes, Reading, [Next]_vars PROVE (Wholes /\ Reading)'
    OBVIOUS
  <2> QED BY <1>2
<1> QED BY <1>3, <1>4, AlwaysConsistent, PTL DEF Spec

(* A file that is there and is complete: its header fits the memory it is   *)
(* of, and its units can be read to the end of the last section, unless a   *)
(* compressed write was lost unnoticed.                                     *)
WholeCopy(f) == f # Null /\ disk[f] # Null /\ FileWhole(disk[f])

(* The copies that OneCopySurvives speaks of are complete.                  *)
OneCopyWhole ==
  job.old # Null => \/ WholeCopy(Target) /\ (Saving = job.old \/ NewFile(Target))
                    \/ WholeCopy(job.temp) /\ NewFile(job.temp)
                    \/ Saving = Null /\ job.cause = "rename"

(* While a save replaces a file, the old one as it was or the new one is on *)
(* disk, and complete, whichever call fails: but for a rename that fails    *)
(* after the unlink has worked, after which closeaout removes the new file  *)
(* too, and for the buffers of a compressed file lost unnoticed.            *)
THEOREM OneCopyStays == Spec => [](OneCopySurvives /\ OneCopyWhole)
<1>1. ASSUME Consistent, Wholes PROVE OneCopySurvives /\ OneCopyWhole
  <2>1. TypeOK /\ Hands /\ Stored /\ Copies /\ Wholes  BY <1>1 DEF Consistent
  <2>2. CASE job.old = Null  BY <2>2 DEF OneCopySurvives, OneCopyWhole
  <2>3. CASE job.old # Null /\ disk[Target] # Null
    <3>1. disk[Target] = job.old \/ NewFile(Target)
      <4>1. job.at \in SaveSteps  BY <2>1, <2>3 DEF Copies
      <4>2. CASE job.at = "saved"  BY <2>1, <4>2, Zenon DEF Copies
      <4>3. CASE job.at = "rename"
        <5>1. disk[Target] \in {job.old, Null}  BY <2>1, <4>3, Zenon DEF Copies
        <5> QED BY <2>3, <5>1
      <4>4. CASE job.at = "discard"  BY <2>1, <2>3, <4>4, Zenon DEF Copies
      <4>5. CASE job.at \in SaveSteps \ {"rename", "discard", "saved"}
        BY <2>1, <4>5, Zenon DEF Copies
      <4> QED BY <4>1, <4>2, <4>3, <4>4, <4>5
    <3>2. WholeCopy(Target)  BY <2>1, <2>3, Names, Zenon DEF Wholes, WholeCopy
    <3> QED BY <3>1, <3>2, Zenon DEF OneCopySurvives, OneCopyWhole, Saving
  <2>4. CASE job.old # Null /\ disk[Target] = Null
    <3>1. job.at \in {"rename", "discard"}
      <4>1. job.at \in SaveSteps  BY <2>1, <2>4 DEF Copies
      <4>2. job.at # "saved"  BY <2>1, <2>4, Zenon DEF Copies, NewFile
      <4>3. job.at \notin SaveSteps \ {"rename", "discard", "saved"}
        BY <2>1, <2>4, Zenon DEF Copies
      <4> QED BY <4>1, <4>2, <4>3
    <3>2. CASE job.at = "discard"
      <4>1. job.cause = "rename"  BY <2>1, <2>4, <3>2, Zenon DEF Copies
      <4> QED BY <2>4, <4>1, Zenon DEF OneCopySurvives, OneCopyWhole, Saving
    <3>3. CASE job.at = "rename"
      <4>1. ~job.err  BY <2>1, <3>3, Zenon DEF Hands
      <4>2. job.temp # Null /\ disk[job.temp] # Null
        <5>1. job.temp \in Temps /\ disk[job.temp] # Null
          BY <2>1, <3>3, <4>1, TempIsOpen DEF WithTemp, SaveSteps
        <5> QED BY <5>1, Names
      <4>3. /\ disk[job.temp].header # Null /\ disk[job.temp].of # Null
            /\ disk[job.temp].of.sections = memory.sections
            /\ disk[job.temp].header.sizes = SizesOf(memory.sections)
        BY <2>1, <3>3, <4>1, Zenon DEF Stored
      <4>4. NewFile(job.temp)  BY <4>2, <4>3, Zenon DEF NewFile
      <4>5. ~disk[job.temp].lost => Readable(disk[job.temp].units, Packs, memory.sections)
        BY <2>1, <3>3, <4>1, Zenon DEF Wholes
      <4>6. WholeCopy(job.temp)  BY <4>2, <4>3, <4>5, Zenon DEF WholeCopy, FileWhole, Packs
      <4> QED BY <4>4, <4>6, Zenon DEF OneCopySurvives, OneCopyWhole
    <3> QED BY <3>1, <3>2, <3>3
  <2> QED BY <2>2, <2>3, <2>4
<1>2. Consistent /\ (Wholes /\ Reading) => OneCopySurvives /\ OneCopyWhole  BY <1>1
<1> QED BY <1>2, AlwaysConsistent, AlwaysReadable, PTL

(* A process restarts with what some process of the same release saved, for *)
(* every image, every width of code, every size of the buffer, whatever the *)
(* heap holds and whichever way the table filled up, unless a write or a    *)
(* read of compressed data failed unnoticed.                                *)
THEOREM WhatIsLoadedWasSaved == Spec => []LoadedIsSaved
<1>1. ASSUME Loading, Reading PROVE LoadedIsSaved
  <2>1. CASE job.at = "restart"
    <3>1. job.out = Saving.of.sections \/ Saving.lost \/ job.misread
      BY <1>1, <2>1, Zenon DEF Reading
    <3>2. Header.build = build /\ Saving.of.functions = 0
      BY <1>1, <2>1, Zenon DEF Loading, Checked
    <3> QED BY <3>1, <3>2, Zenon DEF LoadedIsSaved, Header
  <2>2. CASE job.at # "restart"  BY <2>2, Zenon DEF LoadedIsSaved, At
  <2> QED BY <2>1, <2>2
<1>2. Consistent /\ (Wholes /\ Reading) => LoadedIsSaved  BY <1>1 DEF Consistent
<1> QED BY <1>2, AlwaysConsistent, AlwaysReadable, PTL

(* A file under the save file's name loads, whatever crash or fault came    *)
(* while it or another was being written, but for a failed system call,     *)
(* noticed or not, a version or loaded functions.                           *)
THEOREM WholeFilesLoad == Spec => []WholeFileLoads
<1>1. ASSUME Reading PROVE WholeFileLoads
  BY <1>1, Zenon DEF Reading, WholeFileLoads, At
<1>2. Wholes /\ Reading => WholeFileLoads  BY <1>1
<1> QED BY <1>2, AlwaysReadable, PTL

=============================================================================
