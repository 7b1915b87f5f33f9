--------------------------- MODULE ElectionProofs ---------------------------
(***************************************************************************)
(* What holds of an election's groups and manifests, for any roll, group   *)
(* sizes and administrators, however forming, exporting, replacing keys    *)
(* and crashes interleave.                                                 *)
(***************************************************************************)
EXTENDS ElectionProperties, WellFoundedInduction, FiniteSetTheorems, SequenceTheorems,
        TLAPS

(***************************************************************************)
(* Induction over the naturals, as a statement about sets of naturals.     *)
(***************************************************************************)
LEMMA LeastNatural ==
  ASSUME NEW S \in SUBSET Nat, S # {}
  PROVE  \E n \in S : \A m \in S : n <= m
<1> DEFINE R == OpToRel(<, Nat)
<1>1. IsWellFoundedOn(R, Nat)
  BY NatLessThanWellFounded
<1>2. \A m, n \in Nat : <<m, n>> \in R <=> m < n
  BY DEF OpToRel
<1> HIDE DEF R
<1>3. PICK n \in S : \A m \in S : ~(<<m, n>> \in R)
  BY <1>1, WFMin
<1>4. ASSUME NEW m \in S PROVE n <= m
  <2>1. m \in Nat /\ n \in Nat
    OBVIOUS
  <2>2. ~(<<m, n>> \in R)
    BY <1>3
  <2>3. ~(m < n)
    BY <1>2, <2>1, <2>2
  <2>4. QED BY <2>1, <2>3
<1>5. QED BY <1>4

LEMMA InductionOnSet ==
  ASSUME NEW S, 0 \in S, \A n \in Nat : n \in S => n + 1 \in S
  PROVE  Nat \subseteq S
<1>1. SUFFICES ASSUME Nat \ S # {} PROVE FALSE
  OBVIOUS
<1>2. PICK n \in Nat \ S : \A m \in Nat \ S : n <= m
  BY <1>1, LeastNatural
<1>3. n # 0 /\ n - 1 \in Nat /\ n - 1 < n
  BY <1>2
<1>4. n - 1 \in S
  BY <1>2, <1>3
<1>5. QED BY <1>2, <1>3, <1>4

-----------------------------------------------------------------------------
(***************************************************************************)
(* The cursor, and the groups it cuts out.                                 *)
(***************************************************************************)
\* What the cursor has to satisfy, up to the first n groups.
CursorUpTo(c, sizes, n) ==
  /\ c \in [0 .. n -> Nat]
  /\ c[0] = 0
  /\ \A i \in 1 .. n : c[i] = c[i - 1] + sizes[i]

LEMMA CursorExists ==
  ASSUME NEW sizes \in Seq(Nat)
  PROVE  \E c : CursorUpTo(c, sizes, Len(sizes))
<1> DEFINE S == {n \in Nat : n <= Len(sizes) => \E c : CursorUpTo(c, sizes, n)}
<1>1. 0 \in S
  <2>1. CursorUpTo([i \in 0 .. 0 |-> 0], sizes, 0)
    BY DEF CursorUpTo
  <2>2. QED BY <2>1
<1>2. ASSUME NEW n \in Nat, n \in S PROVE n + 1 \in S
  <2> SUFFICES ASSUME n + 1 <= Len(sizes)
               PROVE  \E c : CursorUpTo(c, sizes, n + 1)
    OBVIOUS
  <2>1. PICK c : CursorUpTo(c, sizes, n)
    BY <1>2
  <2> DEFINE d == [i \in 0 .. n + 1 |-> IF i = n + 1 THEN c[n] + sizes[n + 1] ELSE c[i]]
  <2>2. n + 1 \in 1 .. Len(sizes) /\ sizes[n + 1] \in Nat
    OBVIOUS
  <2>3. c[n] \in Nat
    BY <2>1 DEF CursorUpTo
  <2>4. d \in [0 .. n + 1 -> Nat]
    BY <2>1, <2>2, <2>3 DEF CursorUpTo
  <2>5. d[0] = 0
    BY <2>1 DEF CursorUpTo
  <2>6. ASSUME NEW i \in 1 .. n + 1 PROVE d[i] = d[i - 1] + sizes[i]
    <3>1. CASE i = n + 1
      BY <3>1
    <3>2. CASE i # n + 1
      BY <2>1, <3>2 DEF CursorUpTo
    <3>3. QED BY <3>1, <3>2
  <2>7. CursorUpTo(d, sizes, n + 1)
    BY <2>4, <2>5, <2>6 DEF CursorUpTo
  <2>8. QED BY <2>7
<1>3. Nat \subseteq S
  BY <1>1, <1>2, InductionOnSet
<1>4. QED BY <1>3

LEMMA CursorSteps ==
  ASSUME NEW sizes \in Seq(Nat)
  PROVE  CursorUpTo(Cursor(sizes), sizes, Len(sizes))
<1> DEFINE n == Len(sizes)
           F(c) == [i \in 0 .. n |-> IF i = 0 THEN 0 ELSE c[i - 1] + sizes[i]]
<1>1. PICK c : CursorUpTo(c, sizes, n)
  BY CursorExists
<1>2. c = F(c)
  BY <1>1 DEF CursorUpTo
<1>3. Cursor(sizes) = CHOOSE d : d = F(d)
  BY DEF Cursor
<1>4. Cursor(sizes) = F(Cursor(sizes))
  BY <1>2, <1>3
<1> HIDE DEF F
<1> DEFINE d == Cursor(sizes)
<1>5. d = [i \in 0 .. n |-> IF i = 0 THEN 0 ELSE d[i - 1] + sizes[i]]
  BY <1>4 DEF F
<1> HIDE DEF d
<1>6. d[0] = 0 /\ \A i \in 1 .. n : d[i] = d[i - 1] + sizes[i]
  <2>1. n \in Nat
    OBVIOUS
  <2>2. \A i \in 0 .. n : d[i] = IF i = 0 THEN 0 ELSE d[i - 1] + sizes[i]
    BY <1>5, Zenon
  <2>3. QED BY <2>1, <2>2
<1>7. \A i \in 0 .. n : d[i] \in Nat
  <2> DEFINE S == {i \in Nat : i <= n => d[i] \in Nat}
  <2>1. 0 \in S
    BY <1>6
  <2>2. ASSUME NEW i \in Nat, i \in S PROVE i + 1 \in S
    <3> SUFFICES ASSUME i + 1 <= n PROVE d[i + 1] \in Nat
      OBVIOUS
    <3>1. i + 1 \in 1 .. n /\ sizes[i + 1] \in Nat /\ d[i] \in Nat
      BY <2>2
    <3>2. d[i + 1] = d[i] + sizes[i + 1]
      BY <1>6, <3>1
    <3>3. QED BY <3>1, <3>2
  <2>3. Nat \subseteq S
    BY <2>1, <2>2, InductionOnSet
  <2>4. QED BY <2>3
<1>8. d \in [0 .. n -> Nat]
  <2>1. DOMAIN d = 0 .. n
    BY <1>5, Zenon
  <2>2. d = [i \in 0 .. n |-> d[i]]
    BY <1>5, <2>1, Zenon
  <2>3. QED BY <1>7, <2>2
<1>9. QED BY <1>6, <1>8 DEF CursorUpTo, d

LEMMA CursorMonotone ==
  ASSUME NEW sizes \in Seq(Nat), NEW c, CursorUpTo(c, sizes, Len(sizes)),
         NEW m \in 0 .. Len(sizes), NEW n \in m .. Len(sizes)
  PROVE  c[m] <= c[n]
<1> DEFINE S == {k \in Nat : m + k <= Len(sizes) => c[m] <= c[m + k]}
<1>1. 0 \in S
  <2>1. c[m] \in Nat /\ m + 0 = m
    BY DEF CursorUpTo
  <2>2. QED BY <2>1
<1>2. ASSUME NEW k \in Nat, k \in S PROVE k + 1 \in S
  <2> SUFFICES ASSUME m + k + 1 <= Len(sizes) PROVE c[m] <= c[m + (k + 1)]
    OBVIOUS
  <2>1. m + (k + 1) \in 1 .. Len(sizes) /\ m + (k + 1) - 1 = m + k
    OBVIOUS
  <2>2. c[m + (k + 1)] = c[m + k] + sizes[m + (k + 1)]
    BY <2>1 DEF CursorUpTo
  <2>3. c[m] \in Nat /\ c[m + k] \in Nat /\ sizes[m + (k + 1)] \in Nat
    <3>1. m \in 0 .. Len(sizes) /\ m + k \in 0 .. Len(sizes)
      BY <2>1
    <3>2. c \in [0 .. Len(sizes) -> Nat]
      BY DEF CursorUpTo
    <3>3. c[m] \in Nat /\ c[m + k] \in Nat
      BY <3>1, <3>2
    <3>4. QED BY <2>1, <3>3
  <2>4. c[m] <= c[m + k]
    BY <1>2, <2>1
  <2>5. QED BY <2>2, <2>3, <2>4
<1>3. Nat \subseteq S
  BY <1>1, <1>2, InductionOnSet
<1>4. n - m \in Nat /\ m + (n - m) = n
  OBVIOUS
<1>5. QED BY <1>3, <1>4

LEMMA CursorFinds ==
  ASSUME NEW sizes \in Seq(Nat), NEW c, CursorUpTo(c, sizes, Len(sizes)),
         NEW p \in 1 .. c[Len(sizes)]
  PROVE  \E i \in 1 .. Len(sizes) : c[i - 1] < p /\ p <= c[i]
<1> DEFINE S == {n \in 0 .. Len(sizes) : p <= c[n]}
<1>1. Len(sizes) \in S
  BY DEF CursorUpTo
<1>2. PICK i \in S : \A n \in S : i <= n
  <2>1. S \subseteq Nat /\ S # {}
    BY <1>1
  <2> HIDE DEF S
  <2>2. QED BY <2>1, LeastNatural
<1>3. i # 0
  BY DEF CursorUpTo
<1>4. i - 1 \in 0 .. Len(sizes) /\ c[i - 1] \in Nat /\ i \in 1 .. Len(sizes)
  <2>1. i \in 1 .. Len(sizes) /\ i - 1 \in 0 .. Len(sizes)
    BY <1>3
  <2>2. c \in [0 .. Len(sizes) -> Nat]
    BY DEF CursorUpTo
  <2>3. QED BY <2>1, <2>2
<1>5. ~(p <= c[i - 1])
  BY <1>2, <1>4
<1>6. p \in Nat
  BY DEF CursorUpTo
<1>7. QED BY <1>4, <1>5, <1>6

\* A shuffle lists every element, and none twice.
LEMMA ShuffleComplete ==
  ASSUME NEW S, IsFiniteSet(S), NEW shuffled \in SetToSeqs(S)
  PROVE  /\ shuffled \in Seq(S)
         /\ Len(shuffled) = Cardinality(S)
         /\ \A m, n \in 1 .. Len(shuffled) : shuffled[m] = shuffled[n] => m = n
         /\ \A x \in S : \E n \in 1 .. Len(shuffled) : shuffled[n] = x
<1> DEFINE D == 1 .. Cardinality(S)
<1>1. Cardinality(S) \in Nat
  BY FS_CardinalityType
<1>2. shuffled \in [D -> S] /\ \A m, n \in D : m # n => shuffled[m] # shuffled[n]
  BY DEF SetToSeqs
<1>3. shuffled \in Seq(S) /\ Len(shuffled) = Cardinality(S)
  BY <1>1, <1>2
<1>4. shuffled \in Injection(D, S)
  BY <1>2 DEF Injection, IsInjective
<1>5. IsFiniteSet(D) /\ Cardinality(D) = Cardinality(S)
  BY <1>1, FS_Interval
<1>6. shuffled \in Surjection(D, S)
  BY <1>4, <1>5, FS_Injection
<1>7. \A x \in S : \E n \in D : shuffled[n] = x
  BY <1>6 DEF Surjection
<1>8. QED BY <1>2, <1>3, <1>7

\* Whoever is dealt into groups, all places given out, is in one place.
LEMMA DealDivides ==
  ASSUME NEW S, IsFiniteSet(S), NEW shuffled \in SetToSeqs(S),
         NEW sizes \in Seq(Nat), Total(sizes) = Cardinality(S),
         NEW groups, groups = Deal(shuffled, sizes)
  PROVE  /\ groups \in Seq(Seq(S))
         /\ DOMAIN groups = DOMAIN sizes
         /\ \A i \in DOMAIN groups : Len(groups[i]) = sizes[i]
         /\ \A x \in S : \E i \in DOMAIN groups : \E j \in DOMAIN groups[i] : groups[i][j] = x
         /\ \A i, k \in DOMAIN groups : \A j \in DOMAIN groups[i], l \in DOMAIN groups[k] :
              groups[i][j] = groups[k][l] => i = k /\ j = l
<1> DEFINE c == Cursor(sizes)
           n == Len(sizes)
<1>1. CursorUpTo(c, sizes, n)
  BY CursorSteps
<1>2. /\ shuffled \in Seq(S)
      /\ Len(shuffled) = c[n]
      /\ \A p, q \in 1 .. c[n] : shuffled[p] = shuffled[q] => p = q
      /\ \A x \in S : \E p \in 1 .. c[n] : shuffled[p] = x
  BY ShuffleComplete DEF Total
<1>3. groups = [i \in 1 .. n |-> SubSeq(shuffled, c[i - 1] + 1, c[i])]
  BY DEF Deal
<1> HIDE DEF c
<1>4. n \in Nat /\ c \in [0 .. n -> Nat]
  BY <1>1 DEF CursorUpTo
<1>5. ASSUME NEW i \in 1 .. n
      PROVE  /\ i \in 0 .. n /\ i - 1 \in 0 .. n /\ sizes[i] \in Nat
             /\ c[i] \in Nat /\ c[i - 1] \in Nat
             /\ c[i] = c[i - 1] + sizes[i]
             /\ c[i] <= c[n]
  <2>1. i \in 0 .. n /\ i - 1 \in 0 .. n /\ sizes[i] \in Nat /\ n \in i .. n
    BY <1>4
  <2>2. c[i] = c[i - 1] + sizes[i]
    BY <1>1 DEF CursorUpTo
  <2>3. c[i] <= c[n]
    BY <1>1, <2>1, CursorMonotone
  <2>4. QED BY <1>4, <2>1, <2>2, <2>3
<1>6. ASSUME NEW i \in 1 .. n
      PROVE  /\ groups[i] \in Seq(S)
             /\ Len(groups[i]) = sizes[i]
             /\ \A j \in 1 .. sizes[i] :
                  /\ c[i - 1] + j \in 1 .. c[n]
                  /\ groups[i][j] = shuffled[c[i - 1] + j]
  <2>1. PICK from \in Nat, to \in Nat, all \in Nat :
          from = c[i - 1] /\ to = c[i] /\ all = c[n] /\ to = from + sizes[i] /\ to <= all
    <3>1. c[n] \in Nat
      BY <1>4
    <3>2. QED BY <1>5, <3>1, SMTT(60)
  <2>2. groups[i] = SubSeq(shuffled, from + 1, to)
    BY <1>3, <2>1
  <2>3. \A p \in from + 1 .. to : shuffled[p] \in S
    BY <1>2, <2>1
  <2>4. /\ groups[i] \in Seq(S)
        /\ Len(groups[i]) = IF from + 1 <= to THEN to - (from + 1) + 1 ELSE 0
        /\ \A j \in 1 .. to - (from + 1) + 1 : groups[i][j] = shuffled[from + 1 + j - 1]
    BY <2>2, <2>3, SubSeqProperties
  <2>5. Len(groups[i]) = sizes[i]
    <3>1. sizes[i] \in Nat
      BY <1>5
    <3>2. to - (from + 1) + 1 = sizes[i]
      BY <2>1, <3>1
    <3>3. ~(from + 1 <= to) => sizes[i] = 0
      BY <2>1, <3>1
    <3>4. QED BY <2>4, <3>2, <3>3
  <2>6. ASSUME NEW j \in 1 .. sizes[i]
        PROVE  from + j \in 1 .. all /\ groups[i][j] = shuffled[from + j]
    <3>1. sizes[i] \in Nat /\ j \in Nat /\ 1 <= j /\ j <= sizes[i]
      BY <1>5
    <3>2. j \in 1 .. to - (from + 1) + 1 /\ from + 1 + j - 1 = from + j
      BY <2>1, <3>1, SMTT(60)
    <3>3. from + j \in 1 .. all
      BY <2>1, <3>1, SMTT(60)
    <3>4. QED BY <2>4, <3>2, <3>3
  <2>7. QED BY <2>1, <2>4, <2>5, <2>6
<1>7. DOMAIN groups = 1 .. n /\ DOMAIN sizes = 1 .. n
  BY <1>3
<1>8. groups \in Seq(Seq(S))
  BY <1>3, <1>4, <1>6, <1>7
<1>9. ASSUME NEW x \in S
      PROVE  \E i \in DOMAIN groups : \E j \in DOMAIN groups[i] : groups[i][j] = x
  <2>1. PICK p \in 1 .. c[n] : shuffled[p] = x
    BY <1>2
  <2>2. PICK i \in 1 .. n : c[i - 1] < p /\ p <= c[i]
    BY <1>1, CursorFinds
  <2>3. p - c[i - 1] \in 1 .. sizes[i] /\ c[i - 1] + (p - c[i - 1]) = p
    BY <1>5, <2>2
  <2>4. groups[i][p - c[i - 1]] = x
    BY <1>6, <2>1, <2>3
  <2>5. DOMAIN groups[i] = 1 .. sizes[i]
    BY <1>6
  <2>6. QED BY <1>7, <2>3, <2>4, <2>5
<1>10. ASSUME NEW i \in 1 .. n, NEW k \in 1 .. n,
              NEW j \in DOMAIN groups[i], NEW l \in DOMAIN groups[k],
              groups[i][j] = groups[k][l]
       PROVE  i = k /\ j = l
  <2>1. j \in 1 .. sizes[i] /\ l \in 1 .. sizes[k]
    BY <1>6
  <2>2. c[i - 1] + j = c[k - 1] + l
    <3>1. groups[i][j] = shuffled[c[i - 1] + j] /\ c[i - 1] + j \in 1 .. c[n]
      BY <1>6, <2>1
    <3>2. groups[k][l] = shuffled[c[k - 1] + l] /\ c[k - 1] + l \in 1 .. c[n]
      BY <1>6, <2>1
    <3>3. QED BY <1>2, <1>10, <3>1, <3>2
  <2>3. ASSUME i < k PROVE FALSE
    <3>1. i \in 0 .. n /\ k - 1 \in i .. n
      BY <2>3
    <3>2. c[i] <= c[k - 1]
      BY <1>1, <3>1, CursorMonotone
    <3>3. c[i] = c[i - 1] + sizes[i]
      BY <1>5
    <3>4. c[i - 1] \in Nat /\ c[k - 1] \in Nat /\ sizes[i] \in Nat /\ sizes[k] \in Nat
      BY <1>5
    <3>5. QED BY <2>1, <2>2, <3>2, <3>3, <3>4, SMTT(60)
  <2>4. ASSUME k < i PROVE FALSE
    <3>1. k \in 0 .. n /\ i - 1 \in k .. n
      BY <2>4
    <3>2. c[k] <= c[i - 1]
      BY <1>1, <3>1, CursorMonotone
    <3>3. c[k] = c[k - 1] + sizes[k]
      BY <1>5
    <3>4. c[k - 1] \in Nat /\ c[i - 1] \in Nat /\ sizes[k] \in Nat /\ sizes[i] \in Nat
      BY <1>5
    <3>5. QED BY <2>1, <2>2, <3>2, <3>3, <3>4, SMTT(60)
  <2>5. i = k
    BY <2>3, <2>4
  <2>6. QED BY <1>5, <2>1, <2>2, <2>5
<1>11. QED BY <1>6, <1>7, <1>8, <1>9, <1>10

\* The groups are of the target size or larger, and no two differ by more than one.
LEMMA PartitionEven ==
  ASSUME NEW count \in Nat, NEW target \in Nat \ {0},
         NEW sizes, sizes = Partition(count, target)
  PROVE  /\ sizes \in Seq(Nat)
         /\ \A i \in DOMAIN sizes : sizes[i] >= target
         /\ \A i, j \in DOMAIN sizes : sizes[i] <= sizes[j] + 1
<1> DEFINE g == count \div target
           left == count % target
           q == left \div g
<1>1. g \in Nat /\ left \in Nat
  OBVIOUS
<1>2. sizes = [i \in 1 .. g |-> target + q + (IF i <= left % g THEN 1 ELSE 0)]
  BY DEF Partition
<1>3. g # 0 => q \in Nat
  BY <1>1
<1> HIDE DEF g, left, q
<1>4. ASSUME NEW i \in 1 .. g
      PROVE  /\ sizes[i] \in {target + q, target + q + 1}
             /\ q \in Nat /\ sizes[i] \in Nat
  BY <1>1, <1>2, <1>3
<1>5. DOMAIN sizes = 1 .. g
  BY <1>2
<1>6. sizes \in Seq(Nat)
  BY <1>1, <1>2, <1>4, <1>5
<1>7. ASSUME NEW i \in 1 .. g, NEW j \in 1 .. g
      PROVE  sizes[i] >= target /\ sizes[i] <= sizes[j] + 1
  <2>1. sizes[i] \in {target + q, target + q + 1} /\ sizes[j] \in {target + q, target + q + 1}
    BY <1>4
  <2>2. q \in Nat
    BY <1>4
  <2>3. QED BY <2>1, <2>2
<1>8. QED BY <1>5, <1>6, <1>7

\* "The partition consumes every voter by construction" (formRings), whenever a
\* group of the target size can be filled at all.
THEOREM PartitionConsumes ==
  ASSUME NEW count \in Nat, NEW target \in Nat \ {0}, count >= target
  PROVE  Total(Partition(count, target)) = count
<1> DEFINE g == count \div target
           left == count % target
           q == left \div g
           r == left % g
           h == target + q
           sizes == Partition(count, target)
           c == Cursor(sizes)
           dealt(i) == i * h + (IF i <= r THEN i ELSE r)
<1>1. g \in Nat \ {0} /\ left \in Nat /\ count = target * g + left
  OBVIOUS
<1> HIDE DEF g, left
<1>2. q \in Nat /\ r \in Nat /\ r < g /\ left = g * q + r
  BY <1>1
<1>3. /\ sizes = [i \in 1 .. g |-> h + (IF i <= r THEN 1 ELSE 0)]
      /\ sizes \in Seq(Nat)
  BY PartitionEven DEF Partition, g, left
<1> HIDE DEF q, r, sizes
<1>4. h \in Nat
  BY <1>2
<1>5. Len(sizes) = g
  BY <1>1, <1>3
<1>6. CursorUpTo(c, sizes, g)
  BY <1>3, <1>5, CursorSteps
<1> HIDE DEF h, c
<1>7. \A i \in Nat : i <= g => c[i] = dealt(i)
  <2> DEFINE S == {i \in Nat : i <= g => c[i] = dealt(i)}
  <2>1. 0 \in S
    BY <1>2, <1>4, <1>6 DEF CursorUpTo
  <2>2. ASSUME NEW i \in Nat, i \in S PROVE i + 1 \in S
    <3> SUFFICES ASSUME i + 1 <= g PROVE c[i + 1] = dealt(i + 1)
      OBVIOUS
    <3>1. c[i + 1] = c[i] + sizes[i + 1]
      BY <1>1, <1>6 DEF CursorUpTo
    <3>2. sizes[i + 1] = h + (IF i + 1 <= r THEN 1 ELSE 0)
      BY <1>1, <1>3
    <3>3. c[i] = i * h + (IF i <= r THEN i ELSE r)
      BY <1>1, <2>2
    <3>4. (i + 1) * h = i * h + h /\ i * h \in Nat
      BY <1>4
    <3>5. QED BY <1>2, <1>4, <3>1, <3>2, <3>3, <3>4
  <2>3. Nat \subseteq S
    <3> HIDE DEF S
    <3>1. QED BY <2>1, <2>2, InductionOnSet
  <2>4. QED BY <2>3
<1>8. c[g] = g * h + r
  BY <1>1, <1>2, <1>7
<1>9. g * h = g * target + g * q
  BY <1>1, <1>2 DEF h
<1>10. g * target = target * g /\ g * q \in Nat /\ target * g \in Nat
  BY <1>1, <1>2
<1>11. c[g] = count
  BY <1>1, <1>2, <1>8, <1>9, <1>10
<1>12. QED BY <1>5, <1>11 DEF Total, c, sizes

-----------------------------------------------------------------------------
(***************************************************************************)
(* The inductive invariant.                                                *)
(***************************************************************************)
\* The manifest of this election, as its groups are now.
Current ==
  [formation |-> formations, ringSize |-> ringSize, cands |-> cands,
   groups |-> [i \in DOMAIN rings |-> rings[i].members]]

\* What each stage was entered with still holds: nothing a check looked at can
\* change behind it.
Staged ==
  /\ status \in ExportStates => Contested /\ Cardinality(roll) >= RING_MIN_SIZE
  /\ rings # <<>> => status \in ExportStates /\ ringSize >= RING_MIN_SIZE
  /\ status \in VotingStates => rings # <<>> /\ Unpublished = {}

\* A formation under way has read the roll as it is, with one key for each.
ReadWhole ==
  forming # NoCall =>
    /\ status = "RINGS_FROZEN"
    /\ formations < MaxFormations
    /\ Formable
    /\ {m.voter : m \in forming} = roll
    /\ \A m, n \in forming : m.voter = n.voter => m = n

\* All groups are of the last formation, and a published one is so under the
\* digest of the manifest as it is now.
OneFormation ==
  \A i \in DOMAIN rings :
    rings[i].formation = formations /\ rings[i].ref \in {NoRef, Current}

\* What an export has listed and read is of one formation; while that is the last
\* one, it is what the groups are, and a group the export takes for published is so.
ExportSound(call) ==
  LET last == call.manifest.formation = formations
  IN  /\ call.size >= 1
      /\ call.unpublished \subseteq 1 .. call.size
      /\ call.manifest.formation <= formations
      /\ Len(call.manifest.groups) <= call.size
      /\ call.stage = "publishing" => Len(call.manifest.groups) = call.size
      /\ last =>
           /\ call.size = Len(rings)
           /\ call.manifest.ringSize = ringSize
           /\ call.manifest.cands = cands
           /\ \A i \in 1 .. Len(call.manifest.groups) :
                call.manifest.groups[i] = rings[i].members
      /\ \A i \in (1 .. call.size) \ call.unpublished : last /\ rings[i].ref # NoRef

ExportsSound ==
  \A a \in Admins : exports[a] # NoCall => status \in ExportStates /\ ExportSound(exports[a])

\* A manifest handed out is the current one and every group is out.
HandedOut ==
  \A m \in manifests : m = Current /\ rings # <<>> /\ Unpublished = {}

ElectionInv ==
  /\ TypeOK
  /\ Staged
  /\ ReadWhole
  /\ GroupsDivideRoll
  /\ OneFormation
  /\ ExportsSound
  /\ HandedOut

-----------------------------------------------------------------------------
(***************************************************************************)
(* What a step can do to the stage, the roll, the groups and the exports.  *)
(***************************************************************************)
core == <<status, ringSize, cands, roll, rings, formations, forming, exports, manifests>>

\* A change of the group size, the candidates or the roll.
Early ==
  /\ status \in EditStates
  /\ Unlocked
  /\ UNCHANGED <<status, rings, formations, forming, exports, manifests>>

LEMMA StepKinds ==
  ASSUME [Next]_vars
  PROVE  \/ UNCHANGED core
         \/ Early
         \/ \E to \in Status : Transition(to)
         \/ ReadElectorate
         \/ WriteGroups
         \/ RollBackForming
         \/ \E a \in Admins : ExportStep(a)
         \/ Crash
<1>1. CASE Manage
  BY <1>1 DEF Manage, SetRingSize, AddCandidate, RemoveCandidate, Early, EditStates,
              CandidateStates, calls
<1>2. CASE Review
  BY <1>2 DEF Review, Register, Approve, ApproveOntoRoll, Reject, Enrol, Unenrol, Early, core,
              EditStates, ReviewStates, calls
<1>3. CASE Form
  BY <1>3 DEF Form
<1>4. CASE Rotate
  <2>1. ASSUME NEW v \in Voters, CheckRotation(v) PROVE UNCHANGED core
    BY <2>1 DEF CheckRotation, core, people
  <2>2. ASSUME NEW v \in Voters, CommitRotation(v) PROVE UNCHANGED core
    BY <2>2 DEF CommitRotation, core, people
  <2>3. QED BY <1>4, <2>1, <2>2 DEF Rotate
<1>5. CASE UNCHANGED vars
  BY <1>5 DEF vars, core, people, calls
<1>6. QED BY <1>1, <1>2, <1>3, <1>4, <1>5 DEF Next

-----------------------------------------------------------------------------
(***************************************************************************)
(* Types.                                                                  *)
(***************************************************************************)
LEMMA InitInv == Init => ElectionInv
<1> SUFFICES ASSUME Init PROVE ElectionInv
  OBVIOUS
<1> USE DEF Init
<1>1. TypeOK
  <2>1. status \in Status
    BY DEF Status, Transitions
  <2>2. rings \in Seq(Ring)
    OBVIOUS
  <2>3. QED BY <2>1, <2>2, ElectionAssumption DEF TypeOK
<1>2. Staged /\ ReadWhole /\ OneFormation /\ ExportsSound /\ HandedOut /\ GroupsDivideRoll
  BY DEF Staged, ReadWhole, OneFormation, ExportsSound, HandedOut, GroupsDivideRoll,
         ExportStates, VotingStates
<1>3. QED BY <1>1, <1>2 DEF ElectionInv

\* Groups newly formed from a reading of the roll: every reading is in one of them,
\* no voter in two places, and the sizes are even.
FormedSound(formed) ==
  /\ formed \in Seq(Ring)
  /\ \A i \in DOMAIN formed :
       /\ formed[i].formation = formations + 1
       /\ formed[i].ref = NoRef
       /\ formed[i].members \in Seq(forming)
       /\ Len(formed[i].members) >= ringSize
  /\ \A i, k \in DOMAIN formed : Len(formed[i].members) <= Len(formed[k].members) + 1
  /\ \A m \in forming :
       \E i \in DOMAIN formed : \E j \in DOMAIN formed[i].members : formed[i].members[j] = m
  /\ \A i, k \in DOMAIN formed :
       \A j \in DOMAIN formed[i].members, l \in DOMAIN formed[k].members :
         formed[i].members[j].voter = formed[k].members[l].voter => i = k /\ j = l

LEMMA GroupsFormed ==
  ASSUME TypeOK, ReadWhole, forming # NoCall,
         Total(Partition(Cardinality(forming), ringSize)) = Cardinality(forming),
         NEW shuffled \in SetToSeqs(forming)
  PROVE  FormedSound(FormedFrom(shuffled))
<1> DEFINE sizes == Partition(Len(shuffled), ringSize)
           groups == Deal(shuffled, sizes)
           formed == FormedFrom(shuffled)
<1>1. forming \in SUBSET PublicKey /\ IsFiniteSet(forming)
  <2>1. forming \in SUBSET PublicKey
    BY DEF TypeOK
  <2> DEFINE owner == [m \in forming |-> m.voter]
  <2>2. owner \in Injection(forming, roll)
    BY DEF ReadWhole, Injection, IsInjective
  <2>3. IsFiniteSet(roll)
    BY ElectionAssumption, FS_Subset DEF TypeOK
  <2>4. QED BY <2>1, <2>2, <2>3, FS_Injection
<1>2. Len(shuffled) = Cardinality(forming) /\ Cardinality(forming) \in Nat
  BY <1>1, ShuffleComplete, FS_CardinalityType
<1>3. ringSize \in Nat \ {0}
  BY ElectionAssumption DEF TypeOK
<1>4. /\ sizes \in Seq(Nat)
      /\ \A i \in DOMAIN sizes : sizes[i] >= ringSize
      /\ \A i, j \in DOMAIN sizes : sizes[i] <= sizes[j] + 1
  BY <1>2, <1>3, PartitionEven
<1>5. Total(sizes) = Cardinality(forming)
  BY <1>2
<1> HIDE DEF sizes
<1>6. /\ groups \in Seq(Seq(forming))
      /\ DOMAIN groups = DOMAIN sizes
      /\ \A i \in DOMAIN groups : Len(groups[i]) = sizes[i]
      /\ \A x \in forming : \E i \in DOMAIN groups : \E j \in DOMAIN groups[i] : groups[i][j] = x
      /\ \A i, k \in DOMAIN groups : \A j \in DOMAIN groups[i], l \in DOMAIN groups[k] :
           groups[i][j] = groups[k][l] => i = k /\ j = l
  BY <1>1, <1>4, <1>5, DealDivides
<1>7. formed = [i \in DOMAIN groups |->
                  [formation |-> formations + 1, members |-> groups[i], ref |-> NoRef]]
  BY DEF FormedFrom, sizes
<1> HIDE DEF groups, formed
<1>8. ASSUME NEW i \in DOMAIN groups
      PROVE  /\ formed[i] \in Ring
             /\ formed[i].formation = formations + 1
             /\ formed[i].ref = NoRef
             /\ formed[i].members = groups[i]
             /\ groups[i] \in Seq(forming)
             /\ groups[i] \in Seq(PublicKey)
  <2>1. formed[i] = [formation |-> formations + 1, members |-> groups[i], ref |-> NoRef]
    BY <1>7
  <2>2. groups[i] \in Seq(forming)
    BY <1>6
  <2>3. groups[i] \in Seq(PublicKey)
    BY <1>1, <2>2
  <2>4. formations + 1 \in Nat
    BY ElectionAssumption DEF TypeOK
  <2>5. QED BY <2>1, <2>2, <2>3, <2>4 DEF Ring
<1>9. formed \in Seq(Ring) /\ DOMAIN formed = DOMAIN groups
  <2>1. DOMAIN formed = DOMAIN groups /\ formed = [i \in DOMAIN groups |-> formed[i]]
    BY <1>7, Zenon
  <2>2. DOMAIN groups = 1 .. Len(groups) /\ Len(groups) \in Nat
    BY <1>6
  <2>3. formed = [i \in 1 .. Len(groups) |-> formed[i]] /\ \A i \in 1 .. Len(groups) : formed[i] \in Ring
    BY <1>8, <2>1, <2>2
  <2>4. QED BY <2>1, <2>2, <2>3
<1>10. ASSUME NEW i \in DOMAIN groups, NEW k \in DOMAIN groups,
              NEW j \in DOMAIN groups[i], NEW l \in DOMAIN groups[k],
              groups[i][j].voter = groups[k][l].voter
       PROVE  i = k /\ j = l
  <2>1. groups[i][j] \in forming /\ groups[k][l] \in forming
    BY <1>8
  <2>2. groups[i][j] = groups[k][l]
    BY <1>10, <2>1 DEF ReadWhole
  <2>3. QED BY <1>6, <2>2
<1>11. \A i \in DOMAIN formed :
         /\ formed[i].formation = formations + 1
         /\ formed[i].ref = NoRef
         /\ formed[i].members \in Seq(forming)
         /\ Len(formed[i].members) >= ringSize
  BY <1>4, <1>6, <1>8, <1>9
<1>12. \A i, k \in DOMAIN formed : Len(formed[i].members) <= Len(formed[k].members) + 1
  BY <1>4, <1>6, <1>8, <1>9
<1>13. \A m \in forming :
         \E i \in DOMAIN formed : \E j \in DOMAIN formed[i].members : formed[i].members[j] = m
  <2>1. TAKE m \in forming
  <2>2. PICK i \in DOMAIN groups : \E j \in DOMAIN groups[i] : groups[i][j] = m
    BY <1>6
  <2>3. formed[i].members = groups[i] /\ i \in DOMAIN formed
    BY <1>8, <1>9
  <2>4. QED BY <2>2, <2>3
<1>14. \A i, k \in DOMAIN formed :
         \A j \in DOMAIN formed[i].members, l \in DOMAIN formed[k].members :
           formed[i].members[j].voter = formed[k].members[l].voter => i = k /\ j = l
  BY <1>8, <1>9, <1>10
<1>15. QED BY <1>9, <1>11, <1>12, <1>13, <1>14 DEF FormedSound, formed

\* An export's record stays well typed whichever statement of it is next.
LEMMA ExportTypes ==
  ASSUME TypeOK, NEW a \in Admins, ExportStep(a)
  PROVE  exports' \in [Admins -> Export \cup {NoCall}] /\ rings' \in Seq(Ring)
<1> USE DEF TypeOK
<1>1. CASE ListGroups(a)
  <2>1. rings[1] \in Ring /\ Len(rings) \in Nat /\ Unpublished \in SUBSET Nat
    BY <1>1 DEF ListGroups, Unpublished
  <2>2. [formation |-> rings[1].formation, ringSize |-> ringSize, cands |-> cands,
         groups |-> <<>>] \in Manifest
    BY <2>1 DEF Ring, Manifest
  <2>3. QED BY <1>1, <2>1, <2>2 DEF ListGroups, Export
<1>2. CASE ReadMembers(a)
  <2> DEFINE i == Len(exports[a].manifest.groups) + 1
             group == IF StillThere(exports[a], i) THEN rings[i].members ELSE <<>>
             manifest == [exports[a].manifest EXCEPT !.groups = Append(@, group)]
  <2>1. exports[a] \in Export
    BY <1>2 DEF ReadMembers, Reading
  <2>2. group \in Seq(PublicKey)
    <3>1. CASE StillThere(exports[a], i)
      <4>1. i \in DOMAIN rings
        BY <3>1 DEF StillThere
      <4>2. rings[i] \in Ring
        BY <4>1
      <4>3. QED BY <3>1, <4>2 DEF Ring
    <3>2. CASE ~StillThere(exports[a], i)
      BY <3>2
    <3>3. QED BY <3>1, <3>2
  <2>3. Append(exports[a].manifest.groups, group) \in Seq(Seq(PublicKey))
    BY <2>1, <2>2 DEF Export, Manifest
  <2>4. manifest \in Manifest
    BY <2>1, <2>3 DEF Export, Manifest
  <2>5. [exports[a] EXCEPT !.manifest = manifest] \in Export
    BY <2>1, <2>4 DEF Export
  <2>6. exports' = [exports EXCEPT ![a] = [exports[a] EXCEPT !.manifest = manifest]]
    BY <1>2 DEF ReadMembers
  <2> HIDE DEF manifest
  <2>7. QED BY <1>2, <2>5, <2>6 DEF ReadMembers
<1>3. CASE CheckPublish(a)
  <2>1. exports[a] \in Export
    BY <1>3 DEF CheckPublish, Reading
  <2>2. [exports[a] EXCEPT !.stage = "publishing"] \in Export
    BY <2>1 DEF Export
  <2>3. QED BY <1>3, <2>2 DEF CheckPublish, EndExport
<1>4. CASE PublishGroup(a)
  <2> DEFINE i == Min(exports[a].unpublished)
  <2>1. exports[a] \in Export
    BY <1>4 DEF PublishGroup
  <2>2. [exports[a] EXCEPT !.unpublished = @ \ {i}] \in Export
    BY <2>1 DEF Export
  <2>3. exports[a].manifest \in Manifest
    BY <2>1 DEF Export
  <2>4. exports' \in [Admins -> Export \cup {NoCall}]
    BY <1>4, <2>2 DEF PublishGroup, EndExport
  <2>5. ASSUME i \in DOMAIN rings PROVE [rings EXCEPT ![i].ref = exports[a].manifest] \in Seq(Ring)
    <3>1. rings[i] \in Ring
      BY <2>5
    <3>2. [rings[i] EXCEPT !.ref = exports[a].manifest] \in Ring
      BY <2>3, <3>1 DEF Ring
    <3> HIDE DEF i
    <3>3. QED BY <2>5, <3>2
  <2>6. \/ rings' = [rings EXCEPT ![i].ref = exports[a].manifest] /\ i \in DOMAIN rings
        \/ rings' = rings
    BY <1>4 DEF PublishGroup, StillThere
  <2> HIDE DEF i
  <2>7. rings' \in Seq(Ring)
    BY <2>5, <2>6
  <2>8. QED BY <2>4, <2>7
<1>5. CASE HandOut(a)
  BY <1>5 DEF HandOut, EndExport
<1>6. QED BY <1>1, <1>2, <1>3, <1>4, <1>5 DEF ExportStep

LEMMA TypeNext ==
  ASSUME ElectionInv, [Next]_vars
  PROVE  TypeOK'
<1> USE DEF ElectionInv
<1>1. ASSUME NEW to \in Status, Transition(to) PROVE TypeOK'
  BY <1>1 DEF TypeOK, Transition, people, calls
<1>2. ASSUME NEW size \in RingSizes, SetRingSize(size) PROVE TypeOK'
  BY <1>2 DEF TypeOK, SetRingSize, people, calls
<1>3. ASSUME NEW c \in Candidates, AddCandidate(c) \/ RemoveCandidate(c) PROVE TypeOK'
  BY <1>3 DEF TypeOK, AddCandidate, RemoveCandidate, people, calls
<1>4. ASSUME Review PROVE TypeOK'
  <2>1. ASSUME NEW v \in Voters, Register(v) PROVE TypeOK'
    BY <2>1 DEF TypeOK, Register, calls
  <2>2. ASSUME NEW v \in Voters, Approve(v) PROVE TypeOK'
    BY <2>2 DEF TypeOK, Approve, calls
  <2>3. ASSUME NEW v \in Voters, ApproveOntoRoll(v) PROVE TypeOK'
    BY <2>3 DEF TypeOK, ApproveOntoRoll, calls
  <2>4. ASSUME NEW v \in Voters, Reject(v) PROVE TypeOK'
    BY <2>4 DEF TypeOK, Reject, calls
  <2>5. ASSUME NEW vs \in SUBSET voters, Enrol(vs) \/ Unenrol(vs) PROVE TypeOK'
    BY <2>5 DEF TypeOK, Enrol, Unenrol, calls
  <2>6. QED BY <1>4, <2>1, <2>2, <2>3, <2>4, <2>5 DEF Review
<1>5. CASE ReadElectorate
  <2>1. {[voter |-> v, version |-> key[v]] : v \in roll} \in SUBSET PublicKey
    BY DEF TypeOK, PublicKey
  <2>2. QED BY <1>5, <2>1 DEF TypeOK, ReadElectorate, people
<1>6. CASE WriteGroups
  <2>1. PICK shuffled \in SetToSeqs(forming) : rings' = FormedFrom(shuffled)
    BY <1>6 DEF WriteGroups
  <2>2. rings' \in Seq(Ring)
    BY <1>6, <2>1, GroupsFormed DEF WriteGroups, FormedSound
  <2>3. formations' \in 0 .. MaxFormations
    BY <1>6, ElectionAssumption DEF TypeOK, WriteGroups, ReadWhole
  <2>4. QED BY <1>6, <2>2, <2>3 DEF TypeOK, WriteGroups, people
<1>7. CASE RollBackForming
  BY <1>7 DEF TypeOK, RollBackForming, people
<1>8. ASSUME NEW a \in Admins, ExportStep(a) PROVE TypeOK'
  <2>1. exports' \in [Admins -> Export \cup {NoCall}] /\ rings' \in Seq(Ring)
    BY <1>8, ExportTypes
  <2>2. UNCHANGED <<status, ringSize, cands, people, key, formations, forming, rotating>>
    BY <1>8 DEF ExportStep, ListGroups, ReadMembers, CheckPublish, PublishGroup, HandOut
  <2>3. manifests' \subseteq Manifest
    <3>1. CASE HandOut(a)
      <4>1. exports[a].manifest \in Manifest
        BY <3>1 DEF TypeOK, HandOut, Export
      <4>2. QED BY <3>1, <4>1 DEF TypeOK, HandOut
    <3>2. CASE ~HandOut(a)
      BY <1>8, <3>2 DEF TypeOK, ExportStep, ListGroups, ReadMembers, CheckPublish, PublishGroup
    <3>3. QED BY <3>1, <3>2
  <2>4. QED BY <2>1, <2>2, <2>3 DEF TypeOK, people
<1>9. ASSUME NEW v \in Voters, CheckRotation(v) PROVE TypeOK'
  BY <1>9 DEF TypeOK, CheckRotation, people
<1>10. ASSUME NEW v \in Voters, CommitRotation(v) PROVE TypeOK'
  BY <1>10 DEF TypeOK, CommitRotation, people
<1>11. CASE Crash
  BY <1>11 DEF TypeOK, Crash, people
<1>12. CASE UNCHANGED vars
  BY <1>12 DEF TypeOK, vars, people, calls
<1>13. QED
  BY <1>1, <1>2, <1>3, <1>4, <1>5, <1>6, <1>7, <1>8, <1>9, <1>10, <1>11, <1>12
  DEF Next, Manage, Form, Rotate

-----------------------------------------------------------------------------
(***************************************************************************)
(* The groups divide the roll.                                             *)
(***************************************************************************)
\* Places, of any groups.
PlacesIn(rs, v) ==
  {p \in (DOMAIN rs) \X (1 .. Cardinality(Voters)) :
     p[2] \in DOMAIN rs[p[1]].members /\ rs[p[1]].members[p[2]].voter = v}

LEMMA OnePlace ==
  ASSUME NEW rs \in Seq(Ring), NEW v,
         NEW i \in DOMAIN rs, NEW j \in DOMAIN rs[i].members, rs[i].members[j].voter = v,
         \A k \in DOMAIN rs : \A l, m \in DOMAIN rs[k].members :
           rs[k].members[l].voter = rs[k].members[m].voter => l = m,
         \A k \in DOMAIN rs : \A l \in DOMAIN rs[k].members :
           rs[k].members[l].voter = v => k = i /\ l = j
  PROVE  Cardinality(PlacesIn(rs, v)) = 1
<1> DEFINE places == PlacesIn(rs, v)
           group == rs[i].members
           owner == [l \in 1 .. Len(group) |-> group[l].voter]
<1>1. group \in Seq(PublicKey)
  <2>1. rs[i] \in Ring
    OBVIOUS
  <2>2. QED BY <2>1 DEF Ring
<1>2. j \in 1 .. Len(group) /\ Len(group) \in Nat /\ DOMAIN group = 1 .. Len(group)
  BY <1>1
<1>3. owner \in Injection(1 .. Len(group), Voters)
  <2>1. \A l \in 1 .. Len(group) : group[l] \in PublicKey
    BY <1>1
  <2>2. owner \in [1 .. Len(group) -> Voters]
    BY <2>1 DEF PublicKey
  <2>3. \A l, m \in 1 .. Len(group) : group[l].voter = group[m].voter => l = m
    BY <1>2
  <2> HIDE DEF group
  <2>4. QED BY <2>2, <2>3 DEF Injection, IsInjective
<1>4. Len(group) <= Cardinality(Voters) /\ Cardinality(Voters) \in Nat
  <2>1. IsFiniteSet(Voters)
    BY ElectionAssumption
  <2>2. Cardinality(1 .. Len(group)) = Len(group)
    BY <1>2, FS_Interval
  <2>3. QED BY <1>3, <2>1, <2>2, FS_Injection, FS_CardinalityType
<1>5. j \in 1 .. Cardinality(Voters)
  BY <1>2, <1>4
<1>6. places = {<<i, j>>}
  <2>1. <<i, j>> \in places
    BY <1>5 DEF PlacesIn
  <2>2. ASSUME NEW p \in places PROVE p = <<i, j>>
    <3>1. p[1] \in DOMAIN rs /\ p[2] \in DOMAIN rs[p[1]].members /\ p = <<p[1], p[2]>>
          /\ rs[p[1]].members[p[2]].voter = v
      BY DEF PlacesIn
    <3> HIDE DEF places
    <3>2. p[1] = i /\ p[2] = j
      BY <3>1
    <3>3. QED BY <3>1, <3>2
  <2>3. QED BY <2>1, <2>2
<1>7. QED BY <1>6, FS_Singleton

LEMMA SameDivision ==
  ASSUME GroupsDivideRoll, UNCHANGED <<roll, ringSize>>,
         rings' # <<>> => rings # <<>>,
         DOMAIN rings' = DOMAIN rings,
         \A i \in DOMAIN rings : rings'[i].members = rings[i].members
  PROVE  GroupsDivideRoll'
<1>1. Assigned' = Assigned
  BY DEF Assigned, InGroup
<1>2. ASSUME NEW v PROVE Places(v)' = Places(v)
  BY DEF Places
<1> SUFFICES ASSUME rings' # <<>> PROVE GroupsDivideRoll'
  BY DEF GroupsDivideRoll
<1>3. Assigned' = roll'
  BY <1>1 DEF GroupsDivideRoll
<1>4. \A v \in roll' : Cardinality(Places(v)') = 1
  BY <1>2 DEF GroupsDivideRoll
<1>5. \A i, j \in DOMAIN rings' :
        /\ Len(rings'[i].members) >= ringSize'
        /\ Len(rings'[i].members) <= Len(rings'[j].members) + 1
  BY DEF GroupsDivideRoll
<1>6. QED BY <1>3, <1>4, <1>5 DEF GroupsDivideRoll

\* Formed anew, the groups divide the roll and none is published.
LEMMA WriteGroupsDivides ==
  ASSUME ElectionInv, WriteGroups
  PROVE  /\ GroupsDivideRoll'
         /\ \A i \in DOMAIN rings' :
              rings'[i].formation = formations' /\ rings'[i].ref = NoRef
<1> USE DEF ElectionInv
<1>1. PICK shuffled \in SetToSeqs(forming) : rings' = FormedFrom(shuffled)
  BY DEF WriteGroups
<1>2. /\ rings' \in Seq(Ring)
      /\ \A i \in DOMAIN rings' :
           /\ rings'[i].formation = formations + 1
           /\ rings'[i].ref = NoRef
           /\ rings'[i].members \in Seq(forming)
           /\ Len(rings'[i].members) >= ringSize
      /\ \A i, k \in DOMAIN rings' : Len(rings'[i].members) <= Len(rings'[k].members) + 1
      /\ \A m \in forming :
           \E i \in DOMAIN rings' : \E j \in DOMAIN rings'[i].members :
             rings'[i].members[j] = m
      /\ \A i, k \in DOMAIN rings' :
           \A j \in DOMAIN rings'[i].members, l \in DOMAIN rings'[k].members :
             rings'[i].members[j].voter = rings'[k].members[l].voter => i = k /\ j = l
  <2>1. FormedSound(rings')
    BY <1>1, GroupsFormed DEF WriteGroups
  <2>2. QED BY <2>1 DEF FormedSound
<1>3. UNCHANGED <<roll, ringSize>> /\ formations' = formations + 1
  BY DEF WriteGroups, people
<1>4. {m.voter : m \in forming} = roll /\ roll \subseteq Voters
  BY DEF ReadWhole, WriteGroups, TypeOK
<1>5. Assigned' = roll'
  <2>1. ASSUME NEW v \in roll PROVE v \in Assigned'
    <3>1. PICK m \in forming : m.voter = v
      BY <1>4
    <3>2. PICK i \in DOMAIN rings' : \E j \in DOMAIN rings'[i].members : rings'[i].members[j] = m
      BY <1>2
    <3>3. QED BY <1>4, <3>1, <3>2 DEF Assigned, InGroup
  <2>2. ASSUME NEW v \in Assigned' PROVE v \in roll
    <3>1. PICK i \in DOMAIN rings' : \E j \in DOMAIN rings'[i].members :
                                       rings'[i].members[j].voter = v
      BY <2>2 DEF Assigned, InGroup
    <3>2. rings'[i].members \in Seq(forming)
      BY <1>2
    <3>3. QED BY <1>4, <3>1, <3>2
  <2>3. QED BY <1>3, <2>1, <2>2
<1>6. ASSUME NEW v \in roll PROVE Cardinality(Places(v)') = 1
  <2>1. PICK m \in forming : m.voter = v
    BY <1>4
  <2>2. PICK i \in DOMAIN rings' : \E j \in DOMAIN rings'[i].members : rings'[i].members[j] = m
    BY <1>2
  <2>3. PICK j \in DOMAIN rings'[i].members : rings'[i].members[j].voter = v
    BY <2>1, <2>2
  <2>4. \A k \in DOMAIN rings' : \A l \in DOMAIN rings'[k].members :
          rings'[k].members[l].voter = v => k = i /\ l = j
    <3>1. TAKE k \in DOMAIN rings'
    <3>2. TAKE l \in DOMAIN rings'[k].members
    <3>3. HAVE rings'[k].members[l].voter = v
    <3>4. rings'[k].members[l].voter = rings'[i].members[j].voter
      BY <2>3, <3>3
    <3>5. QED BY <1>2, <3>4
  <2>5. \A k \in DOMAIN rings' : \A l, n \in DOMAIN rings'[k].members :
          rings'[k].members[l].voter = rings'[k].members[n].voter => l = n
    BY <1>2
  <2>6. rings' \in Seq(Ring)
    BY <1>2
  <2>7. Cardinality(PlacesIn(rings', v)) = 1
    BY <2>3, <2>4, <2>5, <2>6, OnePlace
  <2>8. Places(v)' = PlacesIn(rings', v)
    BY DEF Places, PlacesIn
  <2>9. QED BY <2>7, <2>8
<1>7. \A i, j \in DOMAIN rings' :
        /\ Len(rings'[i].members) >= ringSize'
        /\ Len(rings'[i].members) <= Len(rings'[j].members) + 1
  BY <1>2, <1>3
<1>8. GroupsDivideRoll'
  BY <1>3, <1>5, <1>6, <1>7 DEF GroupsDivideRoll
<1>9. QED BY <1>2, <1>3, <1>8

-----------------------------------------------------------------------------
(***************************************************************************)
(* The rest of the invariant, kind of step by kind of step.                *)
(***************************************************************************)
Sound ==
  /\ Staged
  /\ ReadWhole
  /\ GroupsDivideRoll
  /\ OneFormation
  /\ ExportsSound
  /\ HandedOut

LEMMA CoreSound ==
  ASSUME ElectionInv, UNCHANGED core
  PROVE  Sound'
<1> USE DEF ElectionInv, core
<1>1. Unpublished' = Unpublished /\ Current' = Current
  BY DEF Unpublished, Current
<1>2. GroupsDivideRoll'
  BY SameDivision
<1>3. Staged' /\ ReadWhole' /\ OneFormation' /\ HandedOut'
  BY <1>1 DEF Staged, ReadWhole, OneFormation, HandedOut, Contested, Formable
<1>4. ExportsSound'
  BY DEF ExportsSound, ExportSound
<1>5. QED BY <1>2, <1>3, <1>4 DEF Sound

\* Before the groups are frozen there is nothing to break.
LEMMA EarlySound ==
  ASSUME ElectionInv, Early
  PROVE  Sound'
<1> USE DEF ElectionInv, Early
<1>1. status \notin ExportStates /\ status \notin VotingStates
  BY DEF EditStates, ExportStates, VotingStates
<1>2. rings = <<>> /\ rings' = <<>> /\ forming' = NoCall /\ manifests' = {}
  BY <1>1 DEF Staged, HandedOut, Unlocked
<1>3. \A a \in Admins : exports'[a] = NoCall
  BY <1>1 DEF ExportsSound
<1>4. QED
  BY <1>1, <1>2, <1>3 DEF Sound, Staged, ReadWhole, GroupsDivideRoll, OneFormation,
                          ExportsSound, HandedOut

LEMMA TransitionSound ==
  ASSUME ElectionInv, NEW to \in Status, Transition(to)
  PROVE  Sound'
<1> USE DEF ElectionInv
<1>1. UNCHANGED <<ringSize, cands, roll, rings, formations, forming, exports, manifests>>
      /\ forming = NoCall /\ status' = to /\ to \in Transitions[status]
      /\ TransitionGuards(to)
  BY DEF Transition, people, calls, Unlocked
<1>2. /\ status \in ExportStates => to \in ExportStates
      /\ to \in ExportStates => status \in ExportStates \/ to = "RINGS_FROZEN"
      /\ to \in VotingStates => status \in VotingStates \/ to = "VOTING_OPEN"
  <2>1. status \in {"DRAFT", "REGISTRATION_OPEN", "RINGS_FROZEN", "VOTING_OPEN",
                    "VOTING_CLOSED", "TALLIED", "CANCELLED"}
    BY DEF TypeOK, Status, Transitions
  <2>2. QED BY <1>1, <2>1 DEF Transitions, ExportStates, VotingStates
<1>3. Unpublished' = Unpublished /\ Current' = Current /\ Contested' = Contested
  BY <1>1 DEF Unpublished, Current, Contested
<1>4. Staged'
  <2>1. status' \in ExportStates => Contested' /\ Cardinality(roll') >= RING_MIN_SIZE
    BY <1>1, <1>2, <1>3 DEF Staged, TransitionGuards, CloseRegistrationGuards
  <2>2. rings' # <<>> => status' \in ExportStates /\ ringSize' >= RING_MIN_SIZE
    BY <1>1, <1>2 DEF Staged
  <2>3. status' \in VotingStates => rings' # <<>> /\ Unpublished' = {}
    BY <1>1, <1>2, <1>3 DEF Staged, TransitionGuards, VotingOpenGuards, NoGroupTooSmall
  <2>4. QED BY <2>1, <2>2, <2>3 DEF Staged
<1>5. GroupsDivideRoll'
  BY <1>1, SameDivision
<1>6. ReadWhole' /\ OneFormation' /\ HandedOut'
  BY <1>1, <1>3 DEF ReadWhole, OneFormation, HandedOut
<1>7. ExportsSound'
  BY <1>1, <1>2 DEF ExportsSound, ExportSound
<1>8. QED BY <1>4, <1>5, <1>6, <1>7 DEF Sound

LEMMA ReadElectorateSound ==
  ASSUME ElectionInv, ReadElectorate
  PROVE  Sound'
<1> USE DEF ElectionInv
<1>1. UNCHANGED <<status, ringSize, cands, roll, rings, formations, exports, manifests>>
  BY DEF ReadElectorate, people
<1>2. Unpublished' = Unpublished /\ Current' = Current
  BY <1>1 DEF Unpublished, Current
<1>3. ReadWhole'
  <2>1. forming' = {[voter |-> v, version |-> key[v]] : v \in roll}
    BY DEF ReadElectorate
  <2>2. status' = "RINGS_FROZEN" /\ formations' < MaxFormations /\ Formable'
    BY <1>1 DEF ReadElectorate, FormStates, Formable
  <2>3. {m.voter : m \in forming'} = roll'
    <3>1. ASSUME NEW v \in roll PROVE \E m \in forming' : m.voter = v
      <4>1. [voter |-> v, version |-> key[v]] \in forming'
        BY <2>1
      <4>2. QED BY <4>1
    <3>2. ASSUME NEW m \in forming' PROVE m.voter \in roll
      BY <2>1
    <3>3. roll' = roll
      BY <1>1
    <3>4. QED BY <3>1, <3>2, <3>3
  <2>4. \A m, n \in forming' : m.voter = n.voter => m = n
    BY <2>1
  <2>5. QED BY <2>2, <2>3, <2>4 DEF ReadWhole
<1>4. Staged' /\ OneFormation' /\ HandedOut'
  BY <1>1, <1>2 DEF Staged, OneFormation, HandedOut, Contested
<1>5. GroupsDivideRoll'
  BY <1>1, SameDivision
<1>6. ExportsSound'
  BY <1>1 DEF ExportsSound, ExportSound
<1>7. QED BY <1>3, <1>4, <1>5, <1>6 DEF Sound

\* No group is published, so none is taken for published: whatever an export has
\* read is of an earlier formation from now on.
LEMMA WriteGroupsSound ==
  ASSUME ElectionInv, WriteGroups
  PROVE  Sound'
<1> USE DEF ElectionInv
<1>1. /\ UNCHANGED <<status, ringSize, cands, roll, exports, manifests>>
      /\ forming # NoCall /\ forming' = NoCall /\ formations' = formations + 1
      /\ Unpublished = DOMAIN rings
  BY DEF WriteGroups, people
<1>2. /\ GroupsDivideRoll'
      /\ \A i \in DOMAIN rings' : rings'[i].formation = formations' /\ rings'[i].ref = NoRef
  BY WriteGroupsDivides
<1>3. status = "RINGS_FROZEN" /\ ringSize >= RING_MIN_SIZE
  BY <1>1 DEF ReadWhole, Formable
<1>4. Staged'
  BY <1>1, <1>3 DEF Staged, Contested, ExportStates, VotingStates
<1>5. ReadWhole' /\ OneFormation'
  BY <1>1, <1>2 DEF ReadWhole, OneFormation
<1>6. manifests' = {}
  BY <1>1 DEF HandedOut
<1>7. ASSUME NEW a \in Admins, exports'[a] # NoCall
      PROVE  status' \in ExportStates /\ ExportSound(exports[a])'
  <2>1. exports'[a] = exports[a] /\ status' \in ExportStates /\ ExportSound(exports[a])
    BY <1>1, <1>7 DEF ExportsSound
  <2>2. exports[a] \in Export /\ formations \in Nat
    BY <1>1, <1>7 DEF TypeOK
  <2>3. \A i \in (1 .. exports[a].size) \ exports[a].unpublished : FALSE
    <3>1. TAKE i \in (1 .. exports[a].size) \ exports[a].unpublished
    <3>2. exports[a].size = Len(rings) /\ rings[i].ref # NoRef
      BY <2>1 DEF ExportSound
    <3>3. i \in DOMAIN rings
      BY <3>2 DEF TypeOK
    <3>4. QED BY <1>1, <3>2, <3>3 DEF Unpublished
  <2>4. exports[a].manifest.formation \in Nat
    BY <2>2 DEF Export, Manifest
  <2>5. exports[a].manifest.formation # formations' /\ exports[a].manifest.formation <= formations'
    BY <1>1, <2>1, <2>2, <2>4 DEF ExportSound
  <2>6. QED BY <2>1, <2>3, <2>5 DEF ExportSound
<1>8. QED BY <1>2, <1>4, <1>5, <1>6, <1>7 DEF Sound, ExportsSound, HandedOut

LEMMA EndSound ==
  ASSUME ElectionInv, RollBackForming \/ Crash
  PROVE  Sound'
<1> USE DEF ElectionInv
<1>1. /\ UNCHANGED <<status, ringSize, cands, roll, rings, formations, manifests>>
      /\ forming' = NoCall
      /\ \A a \in Admins : exports'[a] \in {exports[a], NoCall}
  BY DEF RollBackForming, Crash, people
<1>2. Unpublished' = Unpublished /\ Current' = Current
  BY <1>1 DEF Unpublished, Current
<1>3. Staged' /\ ReadWhole' /\ OneFormation' /\ HandedOut'
  BY <1>1, <1>2 DEF Staged, ReadWhole, OneFormation, HandedOut, Contested
<1>4. GroupsDivideRoll'
  BY <1>1, SameDivision
<1>5. ExportsSound'
  BY <1>1 DEF ExportsSound, ExportSound
<1>6. QED BY <1>3, <1>4, <1>5 DEF Sound

\* A step of an export that changes none of the groups and whose own record, if it
\* goes on, stays sound.
LEMMA QuietExportSound ==
  ASSUME ElectionInv, NEW a \in Admins,
         UNCHANGED <<status, ringSize, cands, roll, rings, formations, forming>>,
         \A b \in Admins \ {a} : exports'[b] = exports[b],
         exports'[a] = NoCall \/ (status \in ExportStates /\ ExportSound(exports[a])'),
         \A m \in manifests' : m = Current /\ rings # <<>> /\ Unpublished = {}
  PROVE  Sound'
<1> USE DEF ElectionInv
<1>1. Unpublished' = Unpublished /\ Current' = Current
  BY DEF Unpublished, Current
<1>2. Staged' /\ ReadWhole' /\ OneFormation' /\ HandedOut'
  BY <1>1 DEF Staged, ReadWhole, OneFormation, HandedOut, Contested, Formable
<1>3. GroupsDivideRoll'
  BY SameDivision
<1>4. ASSUME NEW b \in Admins, exports'[b] # NoCall
      PROVE  status' \in ExportStates /\ ExportSound(exports[b])'
  <2>1. CASE b = a
    BY <1>4, <2>1
  <2>2. CASE b # a
    BY <1>4, <2>2 DEF ExportsSound, ExportSound
  <2>3. QED BY <2>1, <2>2
<1>5. QED BY <1>2, <1>3, <1>4 DEF Sound, ExportsSound

LEMMA ListGroupsSound ==
  ASSUME ElectionInv, NEW a \in Admins, ListGroups(a)
  PROVE  Sound'
<1> USE DEF ElectionInv
<1> DEFINE call == [stage |-> "reading", size |-> Len(rings), unpublished |-> Unpublished,
                    manifest |-> [formation |-> rings[1].formation, ringSize |-> ringSize,
                                  cands |-> cands, groups |-> <<>>]]
<1>1. /\ UNCHANGED <<status, ringSize, cands, roll, rings, formations, forming, manifests>>
      /\ status \in ExportStates
      /\ rings # <<>>
      /\ exports' = [exports EXCEPT ![a] = call]
  BY DEF ListGroups, people
<1>2. exports'[a] = call /\ \A b \in Admins \ {a} : exports'[b] = exports[b]
  <2> HIDE DEF call
  <2>1. QED BY <1>1 DEF TypeOK
<1>3. Len(rings) \in Nat /\ Len(rings) >= 1 /\ DOMAIN rings = 1 .. Len(rings)
  BY <1>1 DEF TypeOK
<1>4. rings[1].formation = formations /\ formations \in Nat
  BY <1>3 DEF OneFormation, TypeOK
<1>5. Unpublished \subseteq 1 .. Len(rings)
      /\ \A i \in (1 .. Len(rings)) \ Unpublished : rings[i].ref # NoRef
  BY <1>3 DEF Unpublished
<1>6. /\ exports'[a].stage = "reading"
      /\ exports'[a].size = Len(rings)
      /\ exports'[a].unpublished = Unpublished
      /\ exports'[a].manifest.formation = formations
      /\ exports'[a].manifest.ringSize = ringSize
      /\ exports'[a].manifest.cands = cands
      /\ exports'[a].manifest.groups = <<>>
  BY <1>2, <1>4
<1> HIDE DEF call
<1>7. ExportSound(exports[a])'
  <2>1. Len(exports'[a].manifest.groups) = 0
    BY <1>6
  <2>2. UNCHANGED <<ringSize, cands, rings, formations>>
    BY <1>1
  <2>3. QED BY <1>3, <1>4, <1>5, <1>6, <2>1, <2>2 DEF ExportSound
<1>8. QED BY <1>1, <1>2, <1>7, QuietExportSound DEF HandedOut

LEMMA ReadMembersSound ==
  ASSUME ElectionInv, NEW a \in Admins, ReadMembers(a)
  PROVE  Sound'
<1> USE DEF ElectionInv
<1> DEFINE read == exports[a].manifest.groups
           i == Len(read) + 1
           group == IF StillThere(exports[a], i) THEN rings[i].members ELSE <<>>
<1>1. /\ UNCHANGED <<status, ringSize, cands, roll, rings, formations, forming, manifests>>
      /\ exports[a] # NoCall /\ exports[a].stage = "reading" /\ Len(read) # exports[a].size
      /\ exports' = [exports EXCEPT ![a].manifest.groups = Append(read, group)]
  BY DEF ReadMembers, Reading, AllRead, people
<1>2. /\ status \in ExportStates
      /\ ExportSound(exports[a])
      /\ exports[a] \in Export
  BY <1>1 DEF ExportsSound, TypeOK
<1>3. read \in Seq(Seq(PublicKey)) /\ exports[a].size \in Nat
  BY <1>2 DEF Export, Manifest
<1>4. Len(read) < exports[a].size
  BY <1>1, <1>2, <1>3 DEF ExportSound
<1> HIDE DEF read, group
<1>5. /\ exports'[a] = [exports[a] EXCEPT !.manifest =
                          [exports[a].manifest EXCEPT !.groups = Append(read, group)]]
      /\ \A b \in Admins \ {a} : exports'[b] = exports[b]
  BY <1>1 DEF TypeOK
<1>6. /\ exports'[a].stage = "reading"
      /\ exports'[a].size = exports[a].size
      /\ exports'[a].unpublished = exports[a].unpublished
      /\ exports'[a].manifest.formation = exports[a].manifest.formation
      /\ exports'[a].manifest.ringSize = exports[a].manifest.ringSize
      /\ exports'[a].manifest.cands = exports[a].manifest.cands
      /\ exports'[a].manifest.groups = Append(read, group)
  BY <1>1, <1>2, <1>5 DEF Export, Manifest
<1>7. /\ Len(Append(read, group)) = i
      /\ Append(read, group)[i] = group
      /\ \A k \in 1 .. Len(read) : Append(read, group)[k] = read[k]
  BY <1>3
<1>8. ASSUME exports[a].manifest.formation = formations
      PROVE  group = rings[i].members
  <2>1. i \in DOMAIN rings
    BY <1>2, <1>3, <1>4, <1>8 DEF ExportSound, TypeOK
  <2>2. rings[i].formation = exports[a].manifest.formation
    BY <1>8, <2>1 DEF OneFormation
  <2>3. QED BY <2>1, <2>2 DEF StillThere, group
<1>9. ExportSound(exports[a])'
  <2>1. i <= exports[a].size /\ i \in Nat
    BY <1>3, <1>4
  <2>2. ASSUME exports[a].manifest.formation = formations,
               NEW k \in 1 .. Len(Append(read, group))
        PROVE  Append(read, group)[k] = rings[k].members
    <3>1. CASE k = i
      BY <1>7, <1>8, <2>2, <3>1
    <3>2. CASE k # i
      <4>1. k \in 1 .. Len(read)
        BY <1>3, <1>7, <3>2
      <4>2. QED BY <1>2, <1>7, <2>2, <4>1 DEF ExportSound, read
    <3>3. QED BY <3>1, <3>2
  <2>3. QED BY <1>1, <1>2, <1>6, <1>7, <2>1, <2>2 DEF ExportSound
<1>10. QED BY <1>1, <1>2, <1>5, <1>9, QuietExportSound DEF HandedOut

LEMMA CheckPublishSound ==
  ASSUME ElectionInv, NEW a \in Admins, CheckPublish(a)
  PROVE  Sound'
<1> USE DEF ElectionInv
<1>1. /\ UNCHANGED <<status, ringSize, cands, roll, rings, formations, forming, manifests>>
      /\ exports[a] # NoCall /\ AllRead(a)
      /\ \/ exports' = [exports EXCEPT ![a].stage = "publishing"]
         \/ exports' = [exports EXCEPT ![a] = NoCall]
  BY DEF CheckPublish, Reading, EndExport, people
<1>2. /\ status \in ExportStates
      /\ ExportSound(exports[a])
      /\ exports[a] \in Export
  BY <1>1 DEF ExportsSound, TypeOK
<1>3. /\ exports'[a] \in {NoCall, [exports[a] EXCEPT !.stage = "publishing"]}
      /\ \A b \in Admins \ {a} : exports'[b] = exports[b]
  BY <1>1 DEF TypeOK
<1>4. ASSUME exports'[a] # NoCall PROVE ExportSound(exports[a])'
  <2>1. exports'[a] = [exports[a] EXCEPT !.stage = "publishing"]
    BY <1>3, <1>4
  <2>2. /\ exports'[a].size = exports[a].size
        /\ exports'[a].unpublished = exports[a].unpublished
        /\ exports'[a].manifest = exports[a].manifest
    BY <1>2, <2>1 DEF Export
  <2>3. QED BY <1>1, <1>2, <2>2 DEF ExportSound, AllRead
<1>5. QED BY <1>1, <1>2, <1>3, <1>4, QuietExportSound DEF HandedOut

\* The manifest handed out is the current one: a group the export holds for
\* published is of the last formation, and then all it has read is.
LEMMA HandOutSound ==
  ASSUME ElectionInv, NEW a \in Admins, HandOut(a)
  PROVE  Sound'
<1> USE DEF ElectionInv
<1> DEFINE manifest == exports[a].manifest
<1>1. /\ UNCHANGED <<status, ringSize, cands, roll, rings, formations, forming>>
      /\ exports[a] # NoCall /\ AllRead(a) /\ exports[a].unpublished = {}
      /\ manifests' = manifests \cup {manifest}
      /\ exports' = [exports EXCEPT ![a] = NoCall]
  BY DEF HandOut, EndExport, people
<1>2. ExportSound(exports[a]) /\ exports[a] \in Export
  BY <1>1 DEF ExportsSound, TypeOK
<1>3. manifest \in Manifest /\ exports[a].size \in Nat
  BY <1>2 DEF Export
<1>4. 1 \in (1 .. exports[a].size) \ exports[a].unpublished
  BY <1>1, <1>2, <1>3 DEF ExportSound
<1>5. manifest.formation = formations
  BY <1>2, <1>4 DEF ExportSound
<1>6. /\ exports[a].size = Len(rings)
      /\ manifest.ringSize = ringSize
      /\ manifest.cands = cands
      /\ Len(manifest.groups) = Len(rings)
      /\ \A i \in 1 .. Len(rings) : manifest.groups[i] = rings[i].members
      /\ \A i \in 1 .. Len(rings) : rings[i].ref # NoRef
  BY <1>1, <1>2, <1>5 DEF ExportSound, AllRead
<1>7. DOMAIN rings = 1 .. Len(rings)
  BY DEF TypeOK
<1>8. rings # <<>> /\ Unpublished = {}
  BY <1>4, <1>6, <1>7 DEF Unpublished
<1>9. manifest = Current
  <2>1. manifest = [formation |-> manifest.formation, ringSize |-> manifest.ringSize,
                    cands |-> manifest.cands, groups |-> manifest.groups]
    BY <1>3 DEF Manifest
  <2>2. manifest.groups \in Seq(Seq(PublicKey))
    BY <1>3 DEF Manifest
  <2> DEFINE groups == manifest.groups
  <2> HIDE DEF groups
  <2>3. groups = [i \in 1 .. Len(rings) |-> rings[i].members]
    <3>1. groups \in Seq(Seq(PublicKey)) /\ Len(groups) = Len(rings)
          /\ \A i \in 1 .. Len(rings) : groups[i] = rings[i].members
      BY <1>6, <2>2 DEF groups
    <3>2. groups = [i \in 1 .. Len(rings) |-> groups[i]]
      BY <3>1
    <3>3. QED BY <3>1, <3>2, Zenon
  <2>4. groups = [i \in DOMAIN rings |-> rings[i].members]
    BY <1>7, <2>3
  <2>5. QED BY <1>5, <1>6, <2>1, <2>4 DEF Current, groups
<1>10. exports'[a] = NoCall /\ \A b \in Admins \ {a} : exports'[b] = exports[b]
  BY <1>1 DEF TypeOK
<1>11. \A m \in manifests' : m = Current /\ rings # <<>> /\ Unpublished = {}
  BY <1>1, <1>8, <1>9 DEF HandedOut
<1>12. QED BY <1>1, <1>10, <1>11, QuietExportSound

\* The digest noted is that of the current manifest.
LEMMA PublishGroupSound ==
  ASSUME ElectionInv, NEW a \in Admins, PublishGroup(a)
  PROVE  Sound'
<1> USE DEF ElectionInv
<1> DEFINE i == Min(exports[a].unpublished)
           manifest == exports[a].manifest
<1>1. /\ UNCHANGED <<status, ringSize, cands, roll, formations, forming, manifests>>
      /\ exports[a] # NoCall
      /\ exports[a].stage = "publishing"
      /\ exports[a].unpublished # {}
  BY DEF PublishGroup, people
<1>2. ExportSound(exports[a]) /\ exports[a] \in Export /\ status \in ExportStates
  BY <1>1 DEF ExportsSound, TypeOK
<1>3. manifest \in Manifest /\ exports[a].size \in Nat /\ exports[a].unpublished \subseteq Nat
  BY <1>2 DEF Export
<1>4. i \in exports[a].unpublished
  BY <1>1, <1>3, LeastNatural DEF Min
<1> HIDE DEF i
<1>5. CASE UNCHANGED rings /\ exports' = [exports EXCEPT ![a] = NoCall]
  <2>1. exports'[a] = NoCall /\ \A b \in Admins \ {a} : exports'[b] = exports[b]
    BY <1>5 DEF TypeOK
  <2>2. QED BY <1>1, <1>5, <2>1, QuietExportSound DEF HandedOut
<1>6. CASE /\ StillThere(exports[a], i) /\ rings[i].ref = NoRef
           /\ rings' = [rings EXCEPT ![i].ref = exports[a].manifest]
           /\ exports' = [exports EXCEPT ![a].unpublished = @ \ {i}]
  <2>1. i \in DOMAIN rings /\ manifest.formation = formations
    BY <1>6 DEF StillThere, OneFormation
  <2>2. /\ manifest.ringSize = ringSize
        /\ manifest.cands = cands
        /\ Len(manifest.groups) = Len(rings)
        /\ \A k \in 1 .. Len(rings) : manifest.groups[k] = rings[k].members
        /\ exports[a].size = Len(rings)
    BY <1>1, <1>2, <2>1 DEF ExportSound
  <2>3. DOMAIN rings = 1 .. Len(rings)
    BY DEF TypeOK
  <2>4. manifest = Current
    <3>1. manifest = [formation |-> manifest.formation, ringSize |-> manifest.ringSize,
                      cands |-> manifest.cands, groups |-> manifest.groups]
      BY <1>3 DEF Manifest
    <3>2. manifest.groups \in Seq(Seq(PublicKey))
      BY <1>3 DEF Manifest
    <3> DEFINE groups == manifest.groups
    <3> HIDE DEF groups
    <3>3. groups = [k \in 1 .. Len(rings) |-> rings[k].members]
      <4>1. groups \in Seq(Seq(PublicKey)) /\ Len(groups) = Len(rings)
            /\ \A k \in 1 .. Len(rings) : groups[k] = rings[k].members
        BY <2>2, <3>2 DEF groups
      <4>2. groups = [k \in 1 .. Len(rings) |-> groups[k]]
        BY <4>1
      <4>3. QED BY <4>1, <4>2, Zenon
    <3>4. groups = [k \in DOMAIN rings |-> rings[k].members]
      BY <2>3, <3>3
    <3>5. QED BY <2>1, <2>2, <3>1, <3>4 DEF Current, groups
  <2>5. /\ DOMAIN rings' = DOMAIN rings
        /\ rings' # <<>> /\ rings # <<>>
        /\ \A k \in DOMAIN rings :
             /\ rings'[k].members = rings[k].members
             /\ rings'[k].formation = rings[k].formation
             /\ rings'[k].ref = IF k = i THEN manifest ELSE rings[k].ref
    <3>1. DOMAIN rings' = DOMAIN rings
      BY <1>6
    <3>2. ASSUME NEW k \in DOMAIN rings
          PROVE  /\ rings'[k].members = rings[k].members
                 /\ rings'[k].formation = rings[k].formation
                 /\ rings'[k].ref = IF k = i THEN manifest ELSE rings[k].ref
      <4>1. rings[k] \in Ring
        BY DEF TypeOK
      <4>2. QED BY <1>6, <4>1 DEF Ring
    <3>3. QED BY <2>1, <3>1, <3>2
  <2>6. manifest # NoRef
    BY <1>3, ReferenceAssumption
  <2>7. Current' = Current
    <3>1. [k \in DOMAIN rings' |-> rings'[k].members] = [k \in DOMAIN rings |-> rings[k].members]
      BY <2>5
    <3>2. QED BY <1>1, <3>1 DEF Current
  <2>8. OneFormation'
    BY <1>1, <2>4, <2>5, <2>7 DEF OneFormation
  <2>9. Unpublished' = Unpublished \ {i} /\ i \in Unpublished
    BY <1>6, <2>1, <2>5, <2>6 DEF Unpublished
  <2>10. manifests' = {}
    BY <1>1, <2>9 DEF HandedOut
  <2>11. status \notin VotingStates
    BY <2>9 DEF Staged
  <2>12. Staged'
    BY <1>1, <2>5, <2>11 DEF Staged, Contested
  <2>13. ReadWhole'
    BY <1>1 DEF ReadWhole, Formable
  <2>14. GroupsDivideRoll'
    BY <1>1, <2>5, SameDivision
  <2>15. /\ \A b \in Admins \ {a} : exports'[b] = exports[b]
         /\ exports'[a] = [exports[a] EXCEPT !.unpublished = @ \ {i}]
    BY <1>6 DEF TypeOK
  <2>16. /\ exports'[a].stage = exports[a].stage
         /\ exports'[a].size = exports[a].size
         /\ exports'[a].unpublished = exports[a].unpublished \ {i}
         /\ exports'[a].manifest = exports[a].manifest
    BY <1>2, <2>15 DEF Export
  <2>17. rings' \in Seq(Ring)
    BY ExportTypes DEF ExportStep
  <2>18. /\ Len(rings') = Len(rings)
         /\ \A k \in 1 .. Len(rings) :
              /\ rings'[k].members = rings[k].members
              /\ rings[k].ref # NoRef => rings'[k].ref # NoRef
    BY <2>3, <2>5, <2>6, <2>17
  <2>19. ASSUME NEW b \in Admins, exports'[b] # NoCall
         PROVE  status' \in ExportStates /\ ExportSound(exports[b])'
    <3>1. ExportSound(exports[b]) /\ exports[b] \in Export
      <4>1. CASE b = a
        BY <1>2, <4>1
      <4>2. CASE b # a
        BY <2>15, <2>19, <4>2 DEF ExportsSound, TypeOK
      <4>3. QED BY <4>1, <4>2
    <3>2. /\ exports'[b].stage = exports[b].stage
          /\ exports'[b].size = exports[b].size
          /\ exports'[b].manifest = exports[b].manifest
          /\ exports'[b].unpublished = exports[b].unpublished \ (IF b = a THEN {i} ELSE {})
      BY <2>15, <2>16
    <3> DEFINE last == exports[b].manifest.formation = formations
               size == exports[b].size
               read == exports[b].manifest.groups
    <3>3. /\ size \in Nat
          /\ read \in Seq(Seq(PublicKey))
      BY <3>1 DEF Export, Manifest
    <3>4. last => size = Len(rings')
                  /\ exports[b].manifest.ringSize = ringSize' /\ exports[b].manifest.cands = cands'
      BY <1>1, <2>18, <3>1 DEF ExportSound
    <3>5. last => \A k \in 1 .. Len(read) : read[k] = rings'[k].members
      <4> SUFFICES ASSUME last, NEW k \in 1 .. Len(read) PROVE read[k] = rings'[k].members
        OBVIOUS
      <4>1. Len(read) <= size /\ size = Len(rings) /\ read[k] = rings[k].members
        BY <3>1 DEF ExportSound
      <4>2. k \in 1 .. Len(rings)
        BY <3>3, <4>1
      <4>3. QED BY <2>18, <4>1, <4>2
    <3>6. \A k \in (1 .. size) \ exports'[b].unpublished : last /\ rings'[k].ref # NoRef
      <4> SUFFICES ASSUME NEW k \in (1 .. size) \ exports'[b].unpublished
                   PROVE  last /\ rings'[k].ref # NoRef
        OBVIOUS
      <4>1. CASE b = a /\ k = i
        BY <2>1, <2>5, <2>6, <4>1
      <4>2. CASE ~(b = a /\ k = i)
        <5>1. k \in (1 .. size) \ exports[b].unpublished
          BY <3>2, <4>2
        <5>2. last /\ rings[k].ref # NoRef
          BY <3>1, <5>1 DEF ExportSound
        <5>3. k \in 1 .. Len(rings)
          BY <3>1, <5>2 DEF ExportSound
        <5>4. QED BY <2>18, <5>2, <5>3
      <4>3. QED BY <4>1, <4>2
    <3>7. /\ size >= 1
          /\ exports'[b].unpublished \subseteq 1 .. size
          /\ exports[b].manifest.formation <= formations'
          /\ Len(read) <= size
          /\ exports[b].stage = "publishing" => Len(read) = size
      BY <1>1, <3>1, <3>2 DEF ExportSound
    <3>8. QED BY <1>1, <1>2, <3>2, <3>4, <3>5, <3>6, <3>7 DEF ExportSound
  <2>20. QED BY <2>8, <2>10, <2>12, <2>13, <2>14, <2>19 DEF Sound, ExportsSound, HandedOut
<1>7. QED BY <1>5, <1>6 DEF PublishGroup, EndExport, i

LEMMA NextInv == ElectionInv /\ [Next]_vars => ElectionInv'
<1> SUFFICES ASSUME ElectionInv, [Next]_vars PROVE ElectionInv'
  OBVIOUS
<1>1. TypeOK'
  BY TypeNext
<1>2. Sound'
  <2>1. ASSUME NEW a \in Admins, ExportStep(a) PROVE Sound'
    BY <2>1, ListGroupsSound, ReadMembersSound, CheckPublishSound, PublishGroupSound,
       HandOutSound DEF ExportStep
  <2>2. QED
    BY <2>1, StepKinds, CoreSound, EarlySound, TransitionSound, ReadElectorateSound,
       WriteGroupsSound, EndSound
<1>3. QED BY <1>1, <1>2 DEF ElectionInv, Sound

LEMMA LargeEnough ==
  ASSUME ElectionInv, rings # <<>>
  PROVE  NoGroupTooSmall
<1> USE DEF ElectionInv
<1>1. ringSize \in Nat /\ RING_MIN_SIZE \in Nat
  BY ElectionAssumption DEF TypeOK
<1>2. ASSUME NEW i \in DOMAIN rings PROVE Len(rings[i].members) >= RING_MIN_SIZE
  <2>1. ringSize >= RING_MIN_SIZE /\ Len(rings[i].members) >= ringSize
    BY DEF Staged, GroupsDivideRoll
  <2>2. rings[i] \in Ring
    BY DEF TypeOK
  <2>3. Len(rings[i].members) \in Nat
    BY <2>2 DEF Ring
  <2>4. QED BY <1>1, <2>1, <2>3
<1>3. QED BY <1>2 DEF NoGroupTooSmall

LEMMA Invariance == Spec => []ElectionInv
BY InitInv, NextInv, PTL DEF Spec

-----------------------------------------------------------------------------
(***************************************************************************)
(* The theorems.                                                           *)
(***************************************************************************)
\* Every variable of the API's election keeps its type.
THEOREM ElectionTypes == Spec => []TypeOK
<1>1. ElectionInv => TypeOK
  BY DEF ElectionInv
<1>2. QED BY <1>1, Invariance, PTL

\* Whatever is re-formed, exported or replaced at the same time, groups divide the
\* roll, everyone in exactly one, and voting finds all of them published and large
\* enough, with a choice of candidates.
THEOREM NobodyStranded == Spec => []VotingNeedsGroups
<1>1. ElectionInv => VotingNeedsGroups
  <2> SUFFICES ASSUME ElectionInv PROVE VotingNeedsGroups
    OBVIOUS
  <2>1. rings # <<>> => NoGroupTooSmall
    BY LargeEnough
  <2>2. status \in VotingStates => Unpublished = {} /\ NoGroupTooSmall /\ Contested
    BY <2>1 DEF ElectionInv, Staged, VotingStates, ExportStates
  <2>3. QED BY <2>2 DEF ElectionInv, VotingNeedsGroups
<1>2. QED BY <1>1, Invariance, PTL

\* The manifest handed out is the one manifest of the election, and the digest kept
\* with every published group is that manifest's.
THEOREM OneManifest == Spec => []ManifestsAgree
<1>1. ElectionInv => ManifestsAgree
  <2> SUFFICES ASSUME ElectionInv PROVE ManifestsAgree
    OBVIOUS
  <2> USE DEF ElectionInv
  <2>1. ReferencesAgree
    BY DEF ReferencesAgree, HandedOut, OneFormation, Unpublished
  <2>2. \A m \in manifests :
          /\ m.groups = [i \in DOMAIN rings |-> rings[i].members]
          /\ m.cands = cands
          /\ m.ringSize = ringSize
          /\ Unpublished = {}
    BY DEF HandedOut, Current
  <2>3. QED BY <2>1, <2>2 DEF ManifestsAgree
<1>2. QED BY <1>1, Invariance, PTL

\* Once registration is closed the dashboard always asks for the step that is next,
\* and where that step would be refused, for what it waits on.
THEOREM NeverSilent == Spec => []NextStepNamed
<1>1. ElectionInv => NextStepNamed
  <2> SUFFICES ASSUME ElectionInv, status = "RINGS_FROZEN"
               PROVE  LET asked == Attention({})
                      IN  \/ "form_rings" \in asked
                          \/ /\ "publish_rings" \in asked
                             /\ PublishGuards \/ "registrations_waiting" \in asked
                          \/ "open_voting" \in asked
    BY DEF NextStepNamed
  <2> USE DEF ElectionInv
  <2> DEFINE counts == Counts({})
  <2>1. /\ counts.rings = Len(rings)
        /\ counts.ringsPublished = Len(rings) - Cardinality(Unpublished)
    BY DEF Counts
  <2> HIDE DEF counts
  <2>2. /\ "form_rings" \in Attention({}) <=> FormRings(counts)
        /\ "publish_rings" \in Attention({}) <=> PublishRings(counts)
        /\ "registrations_waiting" \in Attention({}) <=> RegistrationsWaiting
        /\ "open_voting" \in Attention({}) <=> OpenVoting
    BY DEF Attention, counts
  <2>3. CASE rings = <<>>
    BY <2>1, <2>2, <2>3 DEF FormRings
  <2>4. CASE rings # <<>>
    <3>1. Len(rings) \in Nat \ {0} /\ DOMAIN rings = 1 .. Len(rings)
      BY <2>4 DEF TypeOK
    <3>2. EveryVoterAssigned
      <4>1. roll # {}
        <5>1. Cardinality(roll) >= RING_MIN_SIZE /\ RING_MIN_SIZE >= 1
          BY ElectionAssumption DEF Staged, ExportStates
        <5>2. Cardinality({}) = 0
          BY FS_EmptySet
        <5>3. ~(Cardinality({}) >= RING_MIN_SIZE)
          BY <5>1, <5>2, ElectionAssumption
        <5>4. QED BY <5>1, <5>3
      <4>2. QED BY <2>4, <4>1 DEF GroupsDivideRoll, EveryVoterAssigned
    <3>3. NoGroupTooSmall
      BY <2>4, LargeEnough
    <3>4. Contested
      BY DEF Staged, ExportStates
    <3>5. CASE Unpublished = {}
      <4>1. VotingOpenGuards
        BY <3>2, <3>3, <3>4, <3>5 DEF VotingOpenGuards
      <4>2. "VOTING_OPEN" \in NextForwardStage
        BY DEF NextForwardStage, Transitions
      <4>3. OpenVoting
        BY <4>1, <4>2 DEF OpenVoting, Ready, TransitionGuards
      <4>4. QED BY <2>2, <4>3
    <3>6. CASE Unpublished # {}
      <4>1. IsFiniteSet(Unpublished) /\ Cardinality(Unpublished) \in Nat \ {0}
        <5>1. IsFiniteSet(1 .. Len(rings)) /\ Unpublished \subseteq 1 .. Len(rings)
          BY <3>1, FS_Interval DEF Unpublished
        <5>2. IsFiniteSet(Unpublished)
          BY <5>1, FS_Subset
        <5>3. QED BY <3>6, <5>2, FS_CardinalityType, FS_EmptySet
      <4>2. PublishRings(counts)
        BY <2>1, <3>1, <4>1 DEF PublishRings
      <4>3. PublishGuards \/ RegistrationsWaiting
        BY <3>2, <3>3, <3>4 DEF PublishGuards, RegistrationsWaiting
      <4>4. QED BY <2>2, <4>2, <4>3
    <3>7. QED BY <3>5, <3>6
  <2>5. QED BY <2>3, <2>4
<1>2. QED BY <1>1, Invariance, PTL

\* The API's election keeps the register's promise to the ledger nodes: the first
\* group published settles all of them, and voting waits for the last one.
THEOREM ElectionImplementsRegister == Spec => RegisterSpec
<1> DEFINE voting == status \in VotingStates
<1>1. Init => Settled!Init
  BY DEF Init, Settled!Init, Published, VotingStates
<1>2. ElectionInv /\ ElectionInv' /\ [Next]_vars => [Settled!Next]_(Settled!vars)
  <2> SUFFICES ASSUME ElectionInv, ElectionInv', [Next]_vars
               PROVE  [Settled!Next]_(Settled!vars)
    OBVIOUS
  <2> USE DEF ElectionInv
  <2>1. ASSUME UNCHANGED rings, UNCHANGED voting PROVE UNCHANGED Settled!vars
    BY <2>1 DEF Settled!vars, Published, Unpublished
  <2>2. CASE UNCHANGED core
    BY <2>1, <2>2 DEF core
  <2>3. CASE Early
    BY <2>1, <2>3 DEF Early
  <2>4. ASSUME NEW to \in Status, Transition(to) PROVE [Settled!Next]_(Settled!vars)
    <3>1. UNCHANGED rings /\ status' = to /\ to \in Transitions[status] /\ TransitionGuards(to)
      BY <2>4 DEF Transition
    <3>2. status \in VotingStates => status' \in VotingStates
      <4>1. status \in {"DRAFT", "REGISTRATION_OPEN", "RINGS_FROZEN", "VOTING_OPEN",
                        "VOTING_CLOSED", "TALLIED", "CANCELLED"}
        BY DEF TypeOK, Status, Transitions
      <4>2. QED BY <3>1, <4>1 DEF Transitions, VotingStates
    <3>3. CASE UNCHANGED voting
      BY <2>1, <3>1, <3>3
    <3>4. CASE ~UNCHANGED voting
      <4>1. voting = FALSE /\ voting' = TRUE
        BY <3>2, <3>4
      <4>2. rings' # <<>> /\ Unpublished' = {}
        BY <4>1 DEF Staged
      <4>3. rings # <<>> /\ Published = DOMAIN rings /\ Published # {}
        <5>1. rings # <<>> /\ Unpublished = {}
          BY <3>1, <4>2 DEF Unpublished
        <5>2. DOMAIN rings # {}
          <6>1. rings \in Seq(Ring)
            BY DEF TypeOK
          <6>2. Len(rings) \in Nat \ {0} /\ DOMAIN rings = 1 .. Len(rings)
            BY <5>1, <6>1
          <6>3. QED BY <6>2
        <5>3. QED BY <5>1, <5>2 DEF Published
      <4>4. Settled!Open
        BY <3>1, <4>1, <4>3 DEF Settled!Open, Published, Unpublished
      <4>5. QED BY <4>4 DEF Settled!Next
    <3>5. QED BY <3>3, <3>4
  <2>5. CASE ReadElectorate \/ RollBackForming \/ Crash
    BY <2>1, <2>5 DEF ReadElectorate, RollBackForming, Crash
  <2>6. CASE WriteGroups
    <3>1. Published = {} /\ UNCHANGED voting
      BY <2>6 DEF WriteGroups, Published
    <3>2. Published' = {}
      BY <2>6, WriteGroupsDivides DEF Published, Unpublished
    <3>3. QED BY <3>1, <3>2 DEF Settled!vars
  <2>7. ASSUME NEW a \in Admins, ExportStep(a) PROVE [Settled!Next]_(Settled!vars)
    <3>1. CASE ~PublishGroup(a)
      BY <2>1, <2>7, <3>1 DEF ExportStep, ListGroups, ReadMembers, CheckPublish, HandOut
    <3>2. CASE PublishGroup(a)
      <4>1. UNCHANGED voting
        BY <3>2 DEF PublishGroup
      <4>2. CASE UNCHANGED rings
        BY <2>1, <4>1, <4>2
      <4>3. CASE rings' # rings
        <5> DEFINE i == Min(exports[a].unpublished)
        <5>1. i \in DOMAIN rings /\ i \in Unpublished
              /\ rings' = [rings EXCEPT ![i].ref = exports[a].manifest]
          BY <3>2, <4>3 DEF PublishGroup, StillThere, Unpublished
        <5> HIDE DEF i
        <5>2. exports[a].manifest # NoRef
          <6>1. exports[a] \in Export
            BY <3>2 DEF PublishGroup, TypeOK
          <6>2. QED BY <6>1, ReferenceAssumption DEF Export
        <5>3. ASSUME NEW k \in DOMAIN rings
              PROVE  /\ rings'[k].members = rings[k].members
                     /\ rings'[k].ref = IF k = i THEN exports[a].manifest ELSE rings[k].ref
          <6>1. rings[k] \in Ring
            BY DEF TypeOK
          <6>2. QED BY <5>1, <6>1 DEF Ring
        <5>4. DOMAIN rings' = DOMAIN rings
          BY <5>1
        <5>5. Published' = Published \cup {i} /\ i \notin Published
          BY <5>1, <5>2, <5>3, <5>4 DEF Published, Unpublished
        <5>6. [k \in DOMAIN rings' |-> rings'[k].members] = [k \in DOMAIN rings |-> rings[k].members]
          BY <5>3, <5>4
        <5>7. [k \in DOMAIN rings |-> rings[k].members] \in Seq(Seq(PublicKey))
          <6>1. ASSUME NEW k \in DOMAIN rings PROVE rings[k].members \in Seq(PublicKey)
            <7>1. rings[k] \in Ring
              BY DEF TypeOK
            <7>2. QED BY <7>1 DEF Ring
          <6>2. DOMAIN rings = 1 .. Len(rings) /\ Len(rings) \in Nat
            BY DEF TypeOK
          <6>3. QED BY <6>1, <6>2
        <5>8. CASE Published = {}
          <6>1. Settled!Settle
            BY <4>1, <5>1, <5>4, <5>5, <5>6, <5>7, <5>8 DEF Settled!Settle
          <6>2. QED BY <6>1 DEF Settled!Next
        <5>9. CASE Published # {}
          <6>1. Settled!PutOut
            BY <4>1, <5>1, <5>4, <5>5, <5>6, <5>9 DEF Settled!PutOut
          <6>2. QED BY <6>1 DEF Settled!Next
        <5>10. QED BY <5>8, <5>9
      <4>4. QED BY <4>2, <4>3
    <3>3. QED BY <3>1, <3>2
  <2>8. QED BY <2>2, <2>3, <2>4, <2>5, <2>6, <2>7, StepKinds DEF Settled!vars
<1>3. QED BY <1>1, <1>2, Invariance, PTL DEF Spec, RegisterSpec, Settled!Spec
=============================================================================
