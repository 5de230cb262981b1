---------------------------- MODULE ChunkIOProofs ---------------------------
(***************************************************************************)
(* Every read returns the bytes last written: an inductive invariant of    *)
(* ChunkIO for files, windows and offsets of any size.                     *)
(***************************************************************************)
EXTENDS ChunkIO, FiniteSetTheorems, SequenceTheorems, WellFoundedInduction, TLAPS

\* A function on 1 .. n is a sequence.
LEMMA FunctionIsSeq ==
    ASSUME NEW S, NEW n \in Nat, NEW f \in [1 .. n -> S]
    PROVE  f \in Seq(S) /\ Len(f) = n
OBVIOUS

-----------------------------------------------------------------------------
(* Numbers.                                                                *)

\* A set of numbers that is not empty has a least one.
LEMMA LeastExists ==
    ASSUME NEW S \in SUBSET Nat, S # {}
    PROVE  \E x \in S : \A y \in S : x <= y
<1> DEFINE R == {ss \in Nat \X Nat : ss[1] < ss[2]}
<1>1. IsWellFoundedOn(R, Nat)
  BY NatLessThanWellFounded DEF OpToRel
<1>2. PICK x \in S : \A y \in S : ~(<<y, x>> \in R)
  BY <1>1, WFMin
<1>3. ASSUME NEW y \in S PROVE x <= y
  <2>1. x \in Nat /\ y \in Nat
    OBVIOUS
  <2>2. y < x => <<y, x>> \in R
    BY <2>1
  <2>3. QED
    BY <1>2, <2>1, <2>2
<1>4. QED
  BY <1>3

LEMMA MinIs ==
    ASSUME NEW S \in SUBSET Nat, S # {}
    PROVE  Min(S) \in S /\ \A y \in S : Min(S) <= y
BY LeastExists DEF Min

LEMMA MaxIs ==
    ASSUME NEW S \in SUBSET Nat, S # {}, NEW b \in Nat, \A x \in S : x <= b
    PROVE  Max(S) \in S /\ \A y \in S : y <= Max(S)
<1> DEFINE T == {n \in Nat : \E x \in S : n = b - x}
<1>1. PICK n \in T : \A m \in T : n <= m
  <2>1. T # {}
    <3>1. PICK x \in S : TRUE
      OBVIOUS
    <3>2. b - x \in Nat
      OBVIOUS
    <3>3. QED
      BY <3>2
  <2>2. QED
    BY <2>1, LeastExists
<1>2. PICK x \in S : n = b - x
  OBVIOUS
<1>3. ASSUME NEW y \in S PROVE y <= x
  <2>1. b - y \in T
    OBVIOUS
  <2>2. QED
    BY <1>1, <1>2, <2>1
<1>4. QED
  BY <1>3 DEF Max

\* Where a window begins.
LEMMA BaseIs ==
    ASSUME NEW p \in Nat, NEW w \in Nat \ {0}
    PROVE  /\ Base(p, w) \in Nat /\ Base(p, w) <= p /\ p < Base(p, w) + w
           /\ \E q \in Nat : Base(p, w) = q * w
<1>1. /\ p % w \in 0 .. w - 1 /\ p \div w \in Nat
      /\ p = w * (p \div w) + (p % w)
  OBVIOUS
<1>2. Base(p, w) = (p \div w) * w
  BY <1>1 DEF Base
<1>3. Base(p, w) = p - (p % w)
  BY DEF Base
<1>4. /\ Base(p, w) \in Nat /\ Base(p, w) <= p /\ p < Base(p, w) + w
  BY <1>1, <1>3
<1>5. QED
  BY <1>1, <1>2, <1>4

\* A number that is a multiple of w.
LEMMA Multiple ==
    ASSUME NEW x \in Nat, NEW w \in Nat \ {0}
    PROVE  x % w = 0 <=> \E q \in Nat : x = q * w
<1>1. /\ x % w \in 0 .. w - 1 /\ x \div w \in Nat
      /\ x = w * (x \div w) + (x % w)
  OBVIOUS
<1>2. ASSUME NEW q \in Nat, x = q * w PROVE x % w = 0
  <2>1. (q * w + 0) % w = 0
    OBVIOUS
  <2>2. QED
    BY <1>2, <2>1
<1>3. QED
  BY <1>1, <1>2

\* Two borders of windows are a window apart.
LEMMA Apart ==
    ASSUME NEW x \in Nat, NEW y \in Nat, NEW w \in Nat \ {0},
           x % w = 0, y % w = 0, x < y
    PROVE  x + w <= y
<1>1. PICK a \in Nat : x = a * w
  BY Multiple
<1>2. PICK b \in Nat : y = b * w
  BY Multiple
<1>3. a < b
  <2>1. SUFFICES ASSUME b <= a PROVE FALSE
    BY <1>1, <1>2
  <2>2. b * w <= a * w
    BY <2>1
  <2>3. QED
    BY <1>1, <1>2, <2>2
<1>4. a * w + w <= b * w
  BY <1>3
<1>5. QED
  BY <1>1, <1>2, <1>4

LEMMA BaseOf ==
    ASSUME NEW p \in Nat, NEW w \in Nat \ {0}
    PROVE  /\ Base(p, w) \in Nat /\ Base(p, w) % w = 0
           /\ Base(p, w) <= p /\ p < Base(p, w) + w
BY BaseIs, Multiple

\* The window that p is in is the only one.
LEMMA BaseUnique ==
    ASSUME NEW p \in Nat, NEW w \in Nat \ {0}, NEW x \in Nat,
           x % w = 0, x <= p, p < x + w
    PROVE  Base(p, w) = x
<1>1. /\ Base(p, w) \in Nat /\ Base(p, w) % w = 0
      /\ Base(p, w) <= p /\ p < Base(p, w) + w
  BY BaseOf
<1>2. CASE x < Base(p, w)
  BY <1>1, <1>2, Apart
<1>3. CASE Base(p, w) < x
  <2>1. Base(p, w) + w <= x
    BY <1>1, <1>3, Apart
  <2>2. QED
    BY <1>1, <2>1
<1>4. QED
  BY <1>1, <1>2, <1>3

LEMMA CeilOf ==
    ASSUME NEW p \in Nat, NEW w \in Nat \ {0}
    PROVE  Ceil(p, w) \in Nat /\ Ceil(p, w) % w = 0 /\ p <= Ceil(p, w)
<1>1. p + w - 1 \in Nat
  OBVIOUS
<1>2. /\ Base(p + w - 1, w) \in Nat /\ Base(p + w - 1, w) % w = 0
      /\ p + w - 1 < Base(p + w - 1, w) + w
  BY <1>1, BaseOf
<1>3. QED
  BY <1>2 DEF Ceil

\* s has the numbers of S in ascending order.
Enumerates(s, S) ==
    /\ s \in Seq(S)
    /\ \A i, j \in DOMAIN s : i < j => s[i] < s[j]
    /\ \A x \in S : \E i \in DOMAIN s : s[i] = x

LEMMA AscendingIs ==
    ASSUME NEW S \in SUBSET Nat, IsFiniteSet(S)
    PROVE  Enumerates(Ascending(S), S)
<1> DEFINE below(x) == {y \in S : y < x}
           n == Cardinality(S)
           rank == [x \in S |-> Cardinality(below(x))]
<1>1. n \in Nat
  BY FS_CardinalityType
<1>2. ASSUME NEW x \in S PROVE rank[x] \in 0 .. n - 1
  <2>1. IsFiniteSet(S \ {x}) /\ Cardinality(S \ {x}) = n - 1
    BY FS_RemoveElement
  <2>2. below(x) \subseteq S \ {x}
    OBVIOUS
  <2>3. IsFiniteSet(below(x)) /\ Cardinality(below(x)) <= n - 1
    BY <2>1, <2>2, FS_Subset
  <2>4. Cardinality(below(x)) \in Nat
    BY <2>3, FS_CardinalityType
  <2>5. QED
    BY <1>1, <2>3, <2>4
<1>3. ASSUME NEW x \in S, NEW z \in S, x < z PROVE rank[x] < rank[z]
  <2>1. IsFiniteSet(below(z))
    BY FS_Subset
  <2>2. below(x) \in SUBSET below(z) /\ below(x) # below(z)
    <3>1. x \in below(z) /\ x \notin below(x)
      BY <1>3
    <3>2. \A y \in S : y < x => y < z
      BY <1>3
    <3>3. QED
      BY <3>1, <3>2
  <2>3. /\ Cardinality(below(x)) <= Cardinality(below(z))
        /\ Cardinality(below(x)) # Cardinality(below(z))
    BY <2>1, <2>2, FS_Subset
  <2>4. rank[x] \in Nat /\ rank[z] \in Nat
    BY <1>1, <1>2
  <2>5. QED
    BY <2>3, <2>4
<1>4. \A i \in 0 .. n - 1 : \E x \in S : rank[x] = i
  <2>1. rank \in Injection(S, 0 .. n - 1)
    <3>1. rank \in [S -> 0 .. n - 1]
      BY <1>2
    <3>2. ASSUME NEW x \in S, NEW z \in S, rank[x] = rank[z] PROVE x = z
      <4>1. x < z \/ z < x \/ x = z
        OBVIOUS
      <4>2. rank[x] \in Nat
        BY <1>1, <1>2
      <4>3. QED
        BY <1>3, <3>2, <4>1, <4>2
    <3>3. QED
      BY <3>1, <3>2 DEF Injection, IsInjective
  <2>2. IsFiniteSet(0 .. n - 1) /\ Cardinality(0 .. n - 1) = n
    <3> HIDE DEF n
    <3>1. 0 \in Int /\ n - 1 \in Int
      BY <1>1
    <3>2. /\ IsFiniteSet(0 .. n - 1)
          /\ Cardinality(0 .. n - 1) = IF 0 > n - 1 THEN 0 ELSE (n - 1) - 0 + 1
      BY <3>1, FS_Interval
    <3>3. QED
      BY <1>1, <3>2
  <2>3. rank \in Surjection(S, 0 .. n - 1)
    BY <2>1, <2>2, FS_Injection
  <2>4. QED
    BY <2>3 DEF Surjection
<1> DEFINE s == Ascending(S)
<1>5. s = [i \in 1 .. n |-> CHOOSE x \in S : Cardinality(below(x)) = i - 1]
  BY DEF Ascending
<1>6. ASSUME NEW i \in 1 .. n PROVE s[i] \in S /\ rank[s[i]] = i - 1
  <2>1. \E x \in S : Cardinality(below(x)) = i - 1
    <3>1. i - 1 \in 0 .. n - 1
      BY <1>1
    <3>2. QED
      BY <1>4, <3>1
  <2>2. s[i] = CHOOSE x \in S : Cardinality(below(x)) = i - 1
    BY <1>5
  <2>3. s[i] \in S /\ Cardinality(below(s[i])) = i - 1
    <3> HIDE DEF s, below
    <3>1. QED
      BY <2>1, <2>2
  <2>4. QED
    BY <2>3
<1> HIDE DEF s, rank, n
<1>7. DOMAIN s = 1 .. n /\ s \in Seq(S)
  <2>1. DOMAIN s = 1 .. n
    BY <1>5
  <2>2. s \in [1 .. n -> S]
    BY <1>5, <1>6, <2>1
  <2>3. QED
    BY <1>1, <2>1, <2>2
<1>8. \A x \in S : rank[x] \in Nat
  BY <1>1, <1>2
<1>9. ASSUME NEW i \in 1 .. n, NEW j \in 1 .. n, i < j PROVE s[i] < s[j]
  <2>1. PICK x \in S : x = s[i] /\ rank[x] = i - 1
    BY <1>6
  <2>2. PICK z \in S : z = s[j] /\ rank[z] = j - 1
    BY <1>6
  <2>3. ~(z < x) /\ z # x
    BY <1>1, <1>3, <1>8, <1>9, <2>1, <2>2
  <2>4. QED
    BY <2>1, <2>2, <2>3
<1>10. ASSUME NEW x \in S PROVE \E i \in 1 .. n : s[i] = x
  <2>1. PICK i \in 1 .. n : rank[x] = i - 1
    BY <1>1, <1>2
  <2>2. PICK z \in S : z = s[i] /\ rank[z] = i - 1
    BY <1>6
  <2>3. ~(z < x) /\ ~(x < z)
    BY <1>3, <1>8, <2>1, <2>2
  <2>4. QED
    BY <2>2, <2>3
<1>11. QED
  BY <1>7, <1>9, <1>10 DEF Enumerates, s

-----------------------------------------------------------------------------
(* Maps and the bytes they stand for.                                      *)

\* m is a map of a file of n bytes with the blobs d.
SoundMap(m, n, d) ==
    /\ m \in Seq(Chunks) /\ d \in Seq(Seq(Byte))
    /\ \A i \in DOMAIN m : /\ 0 < m[i].len /\ End(m[i]) <= n
                           /\ m[i].blob \in DOMAIN d /\ m[i].len <= Len(d[m[i].blob])
    /\ \A i, j \in DOMAIN m : i < j => End(m[i]) <= m[j].lo

\* No chunk of m holds the byte at p.
Hole(m, p) == \A i \in DOMAIN m : ~Covers(m[i], p)

\* The map m leads to these bytes.
Holds(m, d, bytes) ==
    \A p \in 0 .. MaxOffset :
        /\ \A i \in DOMAIN m : Covers(m[i], p) => PayloadByte(m[i], p, d) = bytes[p]
        /\ Hole(m, p) => bytes[p] = 0

SoundFile(m, w, d, n, bytes) ==
    /\ SoundMap(m, n, d) /\ Holds(m, d, bytes)
    /\ w \in Nat \ {0} /\ n \in 0 .. MaxOffset /\ bytes \in [0 .. MaxOffset -> Byte]

LEMMA ChunkTypes ==
    ASSUME NEW m \in Seq(Chunks), NEW i \in DOMAIN m
    PROVE  /\ m[i] \in Chunks /\ m[i].lo \in Nat /\ m[i].len \in Nat /\ m[i].blob \in Nat
           /\ End(m[i]) = m[i].lo + m[i].len /\ End(m[i]) \in Nat /\ i \in 1 .. Len(m)
<1>1. i \in 1 .. Len(m) /\ m[i] \in Chunks
  OBVIOUS
<1>2. QED
  BY <1>1 DEF Chunks, End

\* The chunk that a read uses is the one that holds the byte.
LEMMA FindChunkIs ==
    ASSUME NEW m, NEW n, NEW d, SoundMap(m, n, d), NEW w \in Nat \ {0}, NEW p \in Nat,
           NEW i, i = FindChunk(m, w, p)
    PROVE  \/ i = 0 /\ Hole(m, p)
           \/ i \in DOMAIN m /\ Covers(m[i], p)
<1>1. m \in Seq(Chunks) /\ DOMAIN m = 1 .. Len(m) /\ Len(m) \in Nat
  BY DEF SoundMap
<1>2. CASE Packed(m, w)
  <2> DEFINE I == {k \in 1 .. Len(m) : m[k].lo >= Base(p, w)}
             f == IF I # {} THEN Min(I) ELSE 0
  <2>1. i = IF f # 0 /\ m[f].lo = Base(p, w) /\ p < End(m[f]) THEN f ELSE 0
    BY <1>2 DEF FindChunk, SelectInSeq
  <2>2. I # {} => f \in I /\ \A k \in I : f <= k
    <3>1. I \in SUBSET Nat
      OBVIOUS
    <3>2. QED
      BY <3>1, MinIs
  <2>3. Base(p, w) \in Nat /\ Base(p, w) <= p
    BY BaseOf
  <2> HIDE DEF f
  <2>4. CASE f # 0 /\ m[f].lo = Base(p, w) /\ p < End(m[f])
    <3>1. f \in DOMAIN m /\ i = f
      BY <1>1, <2>1, <2>2, <2>4 DEF f
    <3>2. QED
      BY <2>3, <2>4, <3>1 DEF Covers
  <2>5. CASE ~(f # 0 /\ m[f].lo = Base(p, w) /\ p < End(m[f]))
    <3>1. ASSUME NEW j \in DOMAIN m, Covers(m[j], p) PROVE FALSE
      <4>1. /\ m[j].lo \in Nat /\ m[j].len \in Nat /\ End(m[j]) = m[j].lo + m[j].len
            /\ m[j].lo % w = 0 /\ m[j].len <= w /\ m[j].lo <= p /\ p < End(m[j])
        BY <1>1, <1>2, <3>1, ChunkTypes DEF Packed, Covers
      <4>2. Base(p, w) = m[j].lo
        BY <4>1, BaseUnique
      <4>3. j \in I /\ f \in I /\ f <= j
        BY <1>1, <2>2, <4>1, <4>2
      <4>4. CASE f = j
        BY <1>1, <2>5, <4>1, <4>2, <4>4
      <4>5. CASE f < j
        <5>1. f \in DOMAIN m /\ m[f].lo >= m[j].lo
          BY <1>1, <4>2, <4>3
        <5>2. End(m[f]) <= m[j].lo /\ 0 < m[f].len
          BY <4>5, <5>1 DEF SoundMap
        <5>3. m[f].lo \in Nat /\ m[f].len \in Nat /\ End(m[f]) = m[f].lo + m[f].len
          BY <1>1, <5>1, ChunkTypes
        <5>4. QED
          BY <4>1, <5>1, <5>2, <5>3
      <4>6. QED
        BY <1>1, <4>3, <4>4, <4>5
    <3>2. QED
      BY <2>1, <2>5, <3>1 DEF Hole
  <2>6. QED
    BY <2>4, <2>5
<1>3. CASE ~Packed(m, w)
  <2> DEFINE I == {k \in 1 .. Len(m) : Covers(m[k], p)}
  <2>1. i = IF I # {} THEN Min(I) ELSE 0
    BY <1>3 DEF FindChunk, SelectInSeq
  <2>2. I # {} => Min(I) \in I
    <3>1. I \in SUBSET Nat
      OBVIOUS
    <3>2. QED
      BY <3>1, MinIs
  <2>3. QED
    BY <1>1, <2>1, <2>2 DEF Hole
<1>4. QED
  BY <1>2, <1>3

\* The bytes of a hole are in no chunk.
LEMMA HoleEndIs ==
    ASSUME NEW m, NEW n \in Nat, NEW d, SoundMap(m, n, d), NEW p \in Nat, p < n,
           Hole(m, p), NEW e, e = HoleEnd(m, p, n)
    PROVE  e \in p + 1 .. n /\ \A q \in p .. e - 1 : Hole(m, q)
<1>1. m \in Seq(Chunks) /\ DOMAIN m = 1 .. Len(m) /\ Len(m) \in Nat
  BY DEF SoundMap
<1> DEFINE I == {k \in 1 .. Len(m) : m[k].lo > p}
           f == Min(I)
<1>2. e = IF I # {} /\ f # 0 THEN Min({m[f].lo, n}) ELSE n
  <2>1. HoleEnd(m, p, n) = LET i == IF I # {} THEN f ELSE 0
                           IN  IF i = 0 THEN n ELSE Min({m[i].lo, n})
    BY DEF HoleEnd, SelectInSeq
  <2>2. QED
    BY <2>1
<1>3. I # {} => f \in I /\ \A k \in I : f <= k
  <2>1. I \in SUBSET Nat
    OBVIOUS
  <2>2. QED
    BY <2>1, MinIs
<1> HIDE DEF f
<1>4. ASSUME I # {}
      PROVE  /\ f \in DOMAIN m /\ m[f].lo \in Nat /\ p < m[f].lo
             /\ e <= m[f].lo /\ e <= n /\ e \in {m[f].lo, n}
  <2>1. f \in DOMAIN m /\ m[f].lo > p /\ f # 0
    BY <1>1, <1>3, <1>4
  <2>2. m[f].lo \in Nat
    BY <1>1, <2>1, ChunkTypes
  <2>3. {m[f].lo, n} \in SUBSET Nat
    BY <2>2
  <2>4. e = Min({m[f].lo, n})
    BY <1>2, <1>4, <2>1
  <2>5. e \in {m[f].lo, n} /\ \A y \in {m[f].lo, n} : e <= y
    BY <2>3, <2>4, MinIs
  <2>6. QED
    BY <2>1, <2>2, <2>5
<1>5. e \in p + 1 .. n
  <2>1. CASE I # {}
    BY <1>4, <2>1
  <2>2. CASE I = {}
    BY <1>2, <2>2
  <2>3. QED
    BY <2>1, <2>2
<1>6. ASSUME NEW q \in p .. e - 1, NEW j \in DOMAIN m, Covers(m[j], q) PROVE FALSE
  <2>1. /\ m[j].lo \in Nat /\ End(m[j]) \in Nat /\ m[j].lo <= q /\ q < End(m[j]) /\ q \in Nat
    BY <1>1, <1>5, <1>6, ChunkTypes DEF Covers
  <2>2. m[j].lo > p
    BY <1>5, <2>1 DEF Hole, Covers
  <2>3. j \in I /\ I # {} /\ f <= j
    BY <1>1, <1>3, <2>2
  <2>4. m[f].lo <= m[j].lo
    <3>1. CASE f = j
      BY <2>1, <3>1
    <3>2. CASE f < j
      <4>1. End(m[f]) <= m[j].lo
        BY <1>4, <2>3, <3>2 DEF SoundMap
      <4>2. /\ m[f].lo \in Nat /\ m[f].len \in Nat /\ End(m[f]) = m[f].lo + m[f].len
        BY <1>1, <1>4, <2>3, ChunkTypes
      <4>3. QED
        BY <2>1, <4>1, <4>2
    <3>3. f \in Nat /\ j \in Nat
      BY <1>1, <1>4, <2>3
    <3>4. QED
      BY <2>3, <3>1, <3>2, <3>3
  <2>5. m[f].lo \in Nat /\ e <= m[f].lo
    BY <1>4, <2>3
  <2>6. PICK x \in Nat : x = e /\ q < x
    BY <1>5
  <2>7. QED
    BY <2>1, <2>4, <2>5, <2>6
<1>7. QED
  BY <1>5, <1>6 DEF Hole

\* The bytes from a to b.
Part(bytes, a, b) == [k \in 1 .. b - a |-> bytes[a + k - 1]]

LEMMA PartIs ==
    ASSUME NEW bytes \in [0 .. MaxOffset -> Byte], NEW x \in Nat, NEW y \in Nat,
           x <= y, y <= MaxOffset
    PROVE  /\ Part(bytes, x, y) \in Seq(Byte) /\ Len(Part(bytes, x, y)) = y - x
           /\ \A k \in 1 .. y - x : Part(bytes, x, y)[k] = bytes[x + k - 1]
<1> DEFINE n == y - x
           s == [k \in 1 .. n |-> bytes[x + k - 1]]
<1>1. MaxOffset \in Nat /\ n \in Nat
  BY ConstantsAssumption
<1>2. ASSUME NEW k \in 1 .. n PROVE bytes[x + k - 1] \in Byte
  <2>1. x + k - 1 \in 0 .. MaxOffset
    BY <1>1
  <2>2. QED
    BY <2>1
<1> HIDE DEF n
<1>3. s \in [1 .. n -> Byte] /\ \A k \in 1 .. n : s[k] = bytes[x + k - 1]
  BY <1>2
<1> HIDE DEF s
<1>4. s \in Seq(Byte) /\ Len(s) = n
  BY <1>1, <1>3
<1>5. Part(bytes, x, y) = s
  BY DEF Part, s, n
<1>6. QED
  BY <1>3, <1>4, <1>5 DEF n

LEMMA PartsJoin ==
    ASSUME NEW bytes \in [0 .. MaxOffset -> Byte], NEW a \in Nat, NEW b \in Nat, NEW c \in Nat,
           a <= b, b <= c, c <= MaxOffset
    PROVE  Part(bytes, a, b) \o Part(bytes, b, c) = Part(bytes, a, c)
<1>0. MaxOffset \in Nat /\ a <= c /\ b <= MaxOffset
  BY ConstantsAssumption
<1>1. PICK s : s = Part(bytes, a, b)
  OBVIOUS
<1>2. PICK t : t = Part(bytes, b, c)
  OBVIOUS
<1>3. PICK u : u = Part(bytes, a, c)
  OBVIOUS
<1>4. /\ s \in Seq(Byte) /\ Len(s) = b - a
      /\ \A k \in 1 .. b - a : s[k] = bytes[a + k - 1]
  BY <1>0, <1>1, PartIs
<1>5. /\ t \in Seq(Byte) /\ Len(t) = c - b
      /\ \A k \in 1 .. c - b : t[k] = bytes[b + k - 1]
  BY <1>0, <1>2, PartIs
<1>6. /\ u \in Seq(Byte) /\ Len(u) = c - a
      /\ \A k \in 1 .. c - a : u[k] = bytes[a + k - 1]
  BY <1>0, <1>3, PartIs
<1>7. PICK v : v = s \o t
  OBVIOUS
<1>8. /\ v \in Seq(Byte) /\ Len(v) = Len(s) + Len(t)
      /\ \A i \in 1 .. Len(s) + Len(t) : v[i] = IF i <= Len(s) THEN s[i] ELSE t[i - Len(s)]
  BY <1>4, <1>5, <1>7, ConcatProperties
<1>9. Len(v) = c - a /\ Len(v) = Len(u)
  BY <1>4, <1>5, <1>6, <1>8
<1>10. ASSUME NEW k \in 1 .. c - a PROVE v[k] = u[k]
  <2>1. CASE k <= b - a
    <3>1. v[k] = s[k] /\ k \in 1 .. b - a
      BY <1>4, <1>5, <1>8, <2>1
    <3>2. QED
      BY <1>4, <1>6, <3>1
  <2>2. CASE k > b - a
    <3>1. PICK j \in 1 .. c - b : j = k - (b - a)
      BY <2>2
    <3>2. v[k] = t[j]
      BY <1>4, <1>5, <1>8, <2>2, <3>1
    <3>3. b + j - 1 = a + k - 1
      BY <3>1
    <3>4. QED
      BY <1>5, <1>6, <3>2, <3>3
  <2>3. QED
    BY <2>1, <2>2
<1>11. v = u
  BY <1>6, <1>8, <1>9, <1>10, SeqEqual
<1>12. QED
  BY <1>1, <1>2, <1>3, <1>7, <1>11

\* A read returns the bytes of the file: the recursion has one solution.
LEMMA ReadAllIs ==
    ASSUME NEW m, NEW w, NEW d, NEW n, NEW bytes, SoundFile(m, w, d, n, bytes),
           NEW p0 \in 0 .. n
    PROVE  ReadAll(m, w, d, n, p0) = Part(bytes, p0, n)
<1> DEFINE next(p) == LET i == FindChunk(m, w, p)
                      IN  IF i = 0 THEN HoleEnd(m, p, n) ELSE Min({End(m[i]), n})
           part(p) == LET i == FindChunk(m, w, p)
                      IN  [k \in 1 .. next(p) - p |->
                              IF i = 0 THEN 0 ELSE PayloadByte(m[i], p + k - 1, d)]
           Reading(g) == [p \in Nat |-> IF p >= n THEN <<>> ELSE part(p) \o g[next(p)]]
           good(p) == Part(bytes, p, n)
<1>1. n \in Nat /\ n \in 0 .. MaxOffset /\ MaxOffset \in Nat /\ w \in Nat \ {0}
  BY ConstantsAssumption DEF SoundFile
<1>2. ASSUME NEW p \in Nat, p < n
      PROVE  next(p) \in p + 1 .. n /\ part(p) = Part(bytes, p, next(p))
  <2>1. PICK i : i = FindChunk(m, w, p)
    OBVIOUS
  <2>2. SoundMap(m, n, d) /\ Holds(m, d, bytes)
    BY DEF SoundFile
  <2>3. (i = 0 /\ Hole(m, p)) \/ (i \in DOMAIN m /\ Covers(m[i], p))
    BY <1>1, <2>1, <2>2, FindChunkIs
  <2>4. CASE i = 0 /\ Hole(m, p)
    <3>1. PICK e : e = HoleEnd(m, p, n)
      OBVIOUS
    <3>2. e \in p + 1 .. n /\ \A q \in p .. e - 1 : Hole(m, q)
      BY <1>1, <1>2, <2>2, <2>4, <3>1, HoleEndIs
    <3>3. \A k \in 1 .. e - p : bytes[p + k - 1] = 0
      <4>1. SUFFICES ASSUME NEW k \in 1 .. e - p PROVE bytes[p + k - 1] = 0
        OBVIOUS
      <4>2. p + k - 1 \in p .. e - 1 /\ p + k - 1 \in 0 .. MaxOffset
        BY <1>1, <3>2
      <4>3. QED
        BY <2>2, <3>2, <4>2 DEF Holds
    <3>4. next(p) = e /\ part(p) = [k \in 1 .. e - p |-> 0]
      BY <2>1, <2>4, <3>1
    <3>5. QED
      BY <3>2, <3>3, <3>4 DEF Part
  <2>5. CASE i \in DOMAIN m /\ Covers(m[i], p)
    <3>1. /\ m[i].lo \in Nat /\ End(m[i]) \in Nat /\ End(m[i]) <= n
          /\ m[i].lo <= p /\ p < End(m[i]) /\ i # 0
      BY <2>2, <2>5, ChunkTypes DEF SoundMap, Covers
    <3>2. Min({End(m[i]), n}) = End(m[i])
      <4>1. {End(m[i]), n} \in SUBSET Nat
        BY <1>1, <3>1
      <4>2. /\ Min({End(m[i]), n}) \in {End(m[i]), n}
            /\ \A y \in {End(m[i]), n} : Min({End(m[i]), n}) <= y
        BY <4>1, MinIs
      <4>3. QED
        BY <1>1, <3>1, <4>2
    <3>3. \A k \in 1 .. End(m[i]) - p : PayloadByte(m[i], p + k - 1, d) = bytes[p + k - 1]
      <4>1. SUFFICES ASSUME NEW k \in 1 .. End(m[i]) - p
                     PROVE  PayloadByte(m[i], p + k - 1, d) = bytes[p + k - 1]
        OBVIOUS
      <4>2. p + k - 1 \in 0 .. MaxOffset /\ Covers(m[i], p + k - 1)
        BY <1>1, <3>1 DEF Covers
      <4>3. QED
        BY <2>2, <2>5, <4>2 DEF Holds
    <3>4. /\ next(p) = End(m[i])
          /\ part(p) = [k \in 1 .. End(m[i]) - p |-> PayloadByte(m[i], p + k - 1, d)]
      BY <2>1, <3>1, <3>2
    <3>5. part(p) = [k \in 1 .. End(m[i]) - p |-> bytes[p + k - 1]]
      <4> HIDE DEF part, next
      <4>1. QED
        BY <3>3, <3>4
    <3>6. next(p) \in p + 1 .. n
      <4> HIDE DEF part, next
      <4>1. QED
        BY <1>1, <3>1, <3>4
    <3>7. QED
      BY <3>4, <3>5, <3>6 DEF Part
  <2>6. QED
    BY <2>3, <2>4, <2>5
<1> DEFINE from == CHOOSE g : g = Reading(g)
<1>3. ReadAll(m, w, d, n, p0) = from[p0]
  BY DEF ReadAll
<1> HIDE DEF next, part
<1>0. \A p \in 0 .. n - 1 : part(p) \o good(next(p)) = good(p)
  <2>1. SUFFICES ASSUME NEW p \in 0 .. n - 1 PROVE part(p) \o good(next(p)) = good(p)
    OBVIOUS
  <2>2. next(p) \in p + 1 .. n /\ part(p) = Part(bytes, p, next(p)) /\ p \in Nat
    BY <1>1, <1>2
  <2>3. bytes \in [0 .. MaxOffset -> Byte]
    BY DEF SoundFile
  <2>4. PICK e \in Nat : e = next(p) /\ p <= e /\ e <= n
    BY <1>1, <2>2
  <2>5. Part(bytes, p, e) \o Part(bytes, e, n) = Part(bytes, p, n)
    <3>1. p \in Nat /\ n \in Nat /\ n <= MaxOffset
      BY <1>1, <2>2
    <3>2. QED
      BY <2>3, <2>4, <3>1, PartsJoin
  <2>6. QED
    BY <2>2, <2>4, <2>5
<1>10. good(n) = <<>>
  BY <1>1 DEF Part
<1> HIDE DEF good
<1>4. \E g : g = Reading(g)
  <2> DEFINE g == [p \in Nat |-> IF p >= n THEN <<>> ELSE good(p)]
  <2>1. ASSUME NEW p \in Nat PROVE g[p] = Reading(g)[p]
    <3>1. CASE p >= n
      BY <3>1
    <3>2. CASE p < n
      <4>1. next(p) \in p + 1 .. n /\ part(p) = Part(bytes, p, next(p))
        BY <1>2, <3>2
      <4>2. g[next(p)] = good(next(p))
        BY <1>1, <1>10, <4>1
      <4>3. part(p) \o good(next(p)) = good(p)
        BY <1>0, <1>1, <3>2
      <4>4. g[p] = good(p)
        BY <1>1, <3>2
      <4>5. Reading(g)[p] = part(p) \o g[next(p)]
        <5> HIDE DEF g
        <5>1. QED
          BY <1>1, <3>2
      <4>6. QED
        BY <4>2, <4>3, <4>4, <4>5
    <3>3. QED
      BY <1>1, <3>1, <3>2
  <2> DEFINE h == Reading(g)
  <2>2. g = h
    <3>1. DOMAIN g = Nat /\ DOMAIN h = Nat
      OBVIOUS
    <3>2. \A p \in Nat : g[p] = h[p]
      BY <2>1
    <3>3. g = [p \in Nat |-> g[p]] /\ h = [p \in Nat |-> h[p]]
      OBVIOUS
    <3> HIDE DEF g, h
    <3>4. QED
      BY <3>2, <3>3
  <2>3. QED
    BY <2>2
<1>5. from = Reading(from)
  BY <1>4
<1> HIDE DEF from
<1>6. \A p \in 0 .. n : from[p] = good(p)
  <2> DEFINE T == {j \in Nat : j <= n /\ from[n - j] # good(n - j)}
  <2>1. SUFFICES T = {}
    <3>1. ASSUME NEW p \in 0 .. n PROVE n - p \in Nat /\ n - p <= n /\ n - (n - p) = p
      BY <1>1
    <3>2. QED
      BY <3>1
  <2>2. SUFFICES ASSUME T # {} PROVE FALSE
    OBVIOUS
  <2>3. PICK j \in T : \A k \in T : j <= k
    BY <2>2, LeastExists
  <2>4. PICK p \in 0 .. n : p = n - j
    BY <1>1
  <2>5. from[p] # good(p)
    BY <2>4
  <2>6. from[p] = IF p >= n THEN <<>> ELSE part(p) \o from[next(p)]
    <3>1. p \in Nat
      BY <1>1
    <3>2. Reading(from)[p] = IF p >= n THEN <<>> ELSE part(p) \o from[next(p)]
      BY <3>1
    <3> HIDE DEF Reading
    <3>3. QED
      BY <1>5, <3>2
  <2>7. CASE p = n
    BY <1>1, <1>10, <2>5, <2>6, <2>7
  <2>8. CASE p < n
    <3>1. next(p) \in p + 1 .. n /\ part(p) = Part(bytes, p, next(p))
      BY <1>2, <2>8
    <3>2. from[next(p)] = good(next(p))
      <4>1. n - next(p) \in Nat /\ n - next(p) < j /\ n - next(p) <= n
            /\ n - (n - next(p)) = next(p)
        BY <1>1, <2>4, <3>1
      <4>2. n - next(p) \notin T
        BY <2>3, <4>1
      <4>3. QED
        BY <4>1, <4>2
    <3>3. part(p) \o good(next(p)) = good(p)
      BY <1>0, <1>1, <2>8
    <3>4. QED
      BY <1>1, <2>5, <2>6, <2>8, <3>2, <3>3
  <2>9. QED
    BY <1>1, <2>7, <2>8
<1>7. QED
  BY <1>3, <1>6 DEF good

-----------------------------------------------------------------------------
(* Repacking.                                                              *)

Patches == [lo : 0 .. MaxOffset, hi : 0 .. MaxOffset, byte : Byte]

\* The byte at p comes from the patch or from a chunk of s.
Source(s, patch, p) == InPatch(patch, p) \/ ~Hole(s, p)

\* What a byte of the window buffer is.
LEMMA ByteAtIs ==
    ASSUME NEW s, NEW n, SoundMap(s, n, data), NEW patch \in Patches, NEW p \in Nat
    PROVE  /\ ByteAt(s, patch, p) \in Byte
           /\ InPatch(patch, p) => ByteAt(s, patch, p) = patch.byte
           /\ ~InPatch(patch, p) /\ Hole(s, p) => ByteAt(s, patch, p) = 0
           /\ ~InPatch(patch, p) => \A i \in DOMAIN s : Covers(s[i], p) =>
                  ByteAt(s, patch, p) = PayloadByte(s[i], p, data)
<1>1. /\ s \in Seq(Chunks) /\ DOMAIN s = 1 .. Len(s) /\ Len(s) \in Nat
      /\ data \in Seq(Seq(Byte))
  BY DEF SoundMap
<1>2. 0 \in Byte /\ patch.byte \in Byte
  BY ConstantsAssumption DEF Byte, Patches
<1> DEFINE I == {k \in 1 .. Len(s) : Covers(s[k], p)}
           f == IF I # {} THEN Max(I) ELSE 0
<1>3. ByteAt(s, patch, p) = IF InPatch(patch, p) THEN patch.byte
                            ELSE IF f # 0 THEN PayloadByte(s[f], p, data) ELSE 0
  BY DEF ByteAt, SelectLastInSeq
<1>4. ASSUME NEW i \in DOMAIN s, NEW j \in DOMAIN s, Covers(s[i], p), Covers(s[j], p), i < j
      PROVE  FALSE
  <2>1. /\ s[i].lo \in Nat /\ End(s[i]) \in Nat /\ s[j].lo \in Nat
        /\ p < End(s[i]) /\ s[j].lo <= p
    BY <1>1, <1>4, ChunkTypes DEF Covers
  <2>2. End(s[i]) <= s[j].lo
    BY <1>4 DEF SoundMap
  <2>3. QED
    BY <2>1, <2>2
<1>5. ASSUME NEW i \in DOMAIN s, Covers(s[i], p) PROVE f = i /\ f # 0
  <2>1. I = {i}
    <3>1. ASSUME NEW k \in I PROVE k = i
      <4>1. k < i \/ i < k \/ k = i
        BY <1>1
      <4>2. QED
        BY <1>1, <1>4, <1>5, <4>1
    <3>2. QED
      BY <1>1, <1>5, <3>1
  <2>2. Max({i}) = i
    BY <1>1 DEF Max
  <2> HIDE DEF I
  <2>3. Max(I) = i /\ I # {} /\ i # 0
    BY <1>1, <2>1, <2>2
  <2>4. QED
    BY <2>3
<1>6. Hole(s, p) => f = 0
  BY <1>1 DEF Hole
<1>7. ASSUME NEW i \in DOMAIN s, Covers(s[i], p) PROVE PayloadByte(s[i], p, data) \in Byte
  <2>1. /\ s[i].lo \in Nat /\ s[i].len \in Nat /\ s[i].lo <= p /\ p < s[i].lo + s[i].len
    BY <1>1, <1>7, ChunkTypes DEF Covers
  <2>2. s[i].blob \in DOMAIN data /\ s[i].len <= Len(data[s[i].blob])
    BY DEF SoundMap
  <2>3. PICK b : b = data[s[i].blob]
    OBVIOUS
  <2>4. b \in Seq(Byte) /\ s[i].len <= Len(b)
    BY <1>1, <2>2, <2>3
  <2>5. p - s[i].lo + 1 \in 1 .. Len(b)
    BY <2>1, <2>4
  <2>6. b[p - s[i].lo + 1] \in Byte
    BY <2>4, <2>5
  <2>7. QED
    BY <2>3, <2>6 DEF PayloadByte
<1> HIDE DEF f
<1>8. Hole(s, p) \/ \E i \in DOMAIN s : Covers(s[i], p)
  BY DEF Hole
<1>9. ByteAt(s, patch, p) \in Byte
  BY <1>2, <1>3, <1>5, <1>6, <1>7, <1>8
<1>10. QED
  BY <1>3, <1>5, <1>6, <1>9

\* How far a window is used: as far as its sources reach.
LEMMA UsedIs ==
    ASSUME NEW s, NEW n \in Nat, SoundMap(s, n, data), NEW patch \in Patches,
           NEW x \in Nat, NEW w \in Nat \ {0}, NEW u, u = Used(s, patch, x, x + w)
    PROVE  /\ u \in x .. x + w
           /\ u > x => u <= n \/ u <= patch.hi
           /\ \A p \in x .. x + w - 1 : Source(s, patch, p) => p < u
<1>1. /\ s \in Seq(Chunks) /\ DOMAIN s = 1 .. Len(s) /\ Len(s) \in Nat
      /\ patch.lo \in Nat /\ patch.hi \in Nat
  BY ConstantsAssumption DEF SoundMap, Patches
<1> DEFINE I == {j \in DOMAIN s : Meets(s[j], x, x + w)}
           A == {Min({End(s[i]), x + w}) : i \in I}
           B == IF patch.lo < x + w /\ x < patch.hi THEN {Min({patch.hi, x + w})} ELSE {}
           U == {x} \cup A \cup B
<1>2. u = Max(U)
  BY DEF Used
<1>3. ASSUME NEW a \in Nat
      PROVE  Min({a, x + w}) \in {a, x + w} /\ Min({a, x + w}) <= a /\ Min({a, x + w}) <= x + w
  <2>1. {a, x + w} \in SUBSET Nat
    OBVIOUS
  <2>2. QED
    BY <2>1, MinIs
<1>4. ASSUME NEW i \in I
      PROVE  /\ s[i].lo \in Nat /\ s[i].len \in Nat /\ End(s[i]) \in Nat /\ End(s[i]) <= n
             /\ s[i].lo < x + w /\ x < End(s[i])
  <2>1. s[i].lo < x + w /\ x < End(s[i])
    BY DEF Meets
  <2>2. End(s[i]) <= n
    BY DEF SoundMap
  <2>3. QED
    BY <1>1, <2>1, <2>2, ChunkTypes
<1>5. ASSUME NEW a \in A PROVE a \in x .. x + w /\ a <= n
  <2>1. PICK i \in I : a = Min({End(s[i]), x + w})
    OBVIOUS
  <2>2. QED
    BY <1>3, <1>4, <2>1
<1>6. ASSUME NEW b \in B PROVE b \in x .. x + w /\ b <= patch.hi
  <2>1. b = Min({patch.hi, x + w}) /\ x < patch.hi
    OBVIOUS
  <2>2. QED
    BY <1>1, <1>3, <2>1
<1> HIDE DEF A, B
<1>7. U \in SUBSET Nat /\ U # {} /\ x + w \in Nat /\ \A y \in U : y <= x + w
  BY <1>5, <1>6
<1>8. u \in U /\ \A y \in U : y <= u
  BY <1>2, <1>7, MaxIs
<1>9. u \in x .. x + w /\ (u > x => u <= n \/ u <= patch.hi)
  BY <1>5, <1>6, <1>8
<1>10. ASSUME NEW p \in x .. x + w - 1, Source(s, patch, p) PROVE p < u
  <2>1. CASE InPatch(patch, p)
    <3>1. patch.lo <= p /\ p < patch.hi
      BY <2>1 DEF InPatch
    <3>2. Min({patch.hi, x + w}) \in B
      <4>1. patch.lo < x + w /\ x < patch.hi
        BY <1>1, <3>1
      <4>2. QED
        BY <4>1 DEF B
    <3>3. p < Min({patch.hi, x + w})
      BY <1>1, <1>3, <3>1
    <3>4. Min({patch.hi, x + w}) <= u /\ Min({patch.hi, x + w}) \in Nat
      BY <1>7, <1>8, <3>2
    <3>5. QED
      BY <1>9, <3>3, <3>4
  <2>2. CASE ~Hole(s, p)
    <3>1. PICK i \in DOMAIN s : Covers(s[i], p)
      BY <2>2 DEF Hole
    <3>2. s[i].lo <= p /\ p < End(s[i]) /\ s[i].lo \in Nat /\ End(s[i]) \in Nat
      BY <1>1, <3>1, ChunkTypes DEF Covers
    <3>3. i \in I
      BY <3>2 DEF Meets
    <3>4. Min({End(s[i]), x + w}) \in A
      BY <3>3 DEF A
    <3>5. p < Min({End(s[i]), x + w})
      BY <1>3, <3>2
    <3>6. Min({End(s[i]), x + w}) <= u /\ Min({End(s[i]), x + w}) \in Nat
      BY <1>7, <1>8, <3>4
    <3>7. QED
      BY <1>9, <3>5, <3>6
  <2>3. QED
    BY <1>10, <2>1, <2>2 DEF Source
<1>11. QED
  BY <1>9, <1>10

\* What myfs_repack_windows makes of the chunks s of a file of n bytes and the
\* patch, in the windows of size w from lo to hi.
Repacked(out, s, lo, hi, w, patch, eof, n) ==
    /\ out.chunks \in Seq(Chunks) /\ out.blobs \in Seq(Seq(Byte))
    /\ Len(out.chunks) = Len(out.blobs)
    /\ \A i \in DOMAIN out.chunks :
           /\ lo <= out.chunks[i].lo /\ End(out.chunks[i]) <= hi
           /\ out.chunks[i].lo % w = 0
           /\ 0 < out.chunks[i].len /\ out.chunks[i].len <= w
           /\ End(out.chunks[i]) <= n \/ End(out.chunks[i]) <= patch.hi
           /\ out.chunks[i].blob = eof + i
           /\ Len(out.blobs[i]) = out.chunks[i].len
           /\ \A p \in Nat : Covers(out.chunks[i], p) =>
                  out.blobs[i][p - out.chunks[i].lo + 1] = ByteAt(s, patch, p)
    /\ \A i, j \in DOMAIN out.chunks : i < j => out.chunks[i].lo < out.chunks[j].lo
    /\ \A p \in lo .. hi - 1 : Source(s, patch, p) => ~Hole(out.chunks, p)

LEMMA RepackIs ==
    ASSUME NEW s, NEW n \in Nat, SoundMap(s, n, data), NEW patch \in Patches,
           NEW w \in Nat \ {0}, NEW lo \in Nat, NEW hi \in Nat, lo % w = 0, hi % w = 0,
           NEW eof \in Nat, NEW out, out = Repack(s, lo, hi, w, patch, eof)
    PROVE  Repacked(out, s, lo, hi, w, patch, eof, n)
<1> DEFINE W == {x \in Windows(Base(lo, w), hi, w) : Used(s, patch, x, x + w) > x}
           wins == Ascending(W)
           len(i) == Used(s, patch, wins[i], wins[i] + w) - wins[i]
           C == [i \in DOMAIN wins |-> [lo |-> wins[i], len |-> len(i), blob |-> eof + i]]
           B == [i \in DOMAIN wins |-> [k \in 1 .. len(i) |-> ByteAt(s, patch, wins[i] + k - 1)]]
<1>1. out.blobs = B /\ out.chunks = C
  BY DEF Repack
<1>2. Base(lo, w) = lo
  BY BaseUnique
<1>3. W = {x \in lo .. hi - 1 : x % w = 0 /\ Used(s, patch, x, x + w) > x}
  BY <1>2 DEF Windows
<1> HIDE DEF W
<1>4. W \in SUBSET Nat /\ IsFiniteSet(W)
  <2>1. IsFiniteSet(lo .. hi - 1)
    BY FS_Interval
  <2>2. W \in SUBSET (lo .. hi - 1)
    BY <1>3
  <2>3. IsFiniteSet(W)
    BY <2>1, <2>2, FS_Subset
  <2>4. W \in SUBSET Nat
    BY <2>2
  <2>5. QED
    BY <2>3, <2>4
<1>5. Enumerates(wins, W)
  BY <1>4, AscendingIs
<1> HIDE DEF wins
<1>6. /\ wins \in Seq(W) /\ DOMAIN wins = 1 .. Len(wins) /\ Len(wins) \in Nat
      /\ \A i, j \in DOMAIN wins : i < j => wins[i] < wins[j]
      /\ \A x \in W : \E i \in DOMAIN wins : wins[i] = x
  BY <1>5 DEF Enumerates
<1>7. ASSUME NEW x \in W, NEW u, u = Used(s, patch, x, x + w)
      PROVE  /\ x \in Nat /\ x \in lo .. hi - 1 /\ x % w = 0 /\ x + w <= hi
             /\ u \in x + 1 .. x + w /\ u - x \in 1 .. w
             /\ u <= n \/ u <= patch.hi
             /\ \A p \in x .. x + w - 1 : Source(s, patch, p) => p < u
  <2>1. x \in Nat /\ x \in lo .. hi - 1 /\ x % w = 0 /\ u > x
    BY <1>3, <1>7
  <2>2. x + w <= hi
    BY <2>1, Apart
  <2>3. /\ u \in x .. x + w
        /\ u > x => u <= n \/ u <= patch.hi
        /\ \A p \in x .. x + w - 1 : Source(s, patch, p) => p < u
    BY <1>7, <2>1, UsedIs
  <2>4. u \in x + 1 .. x + w /\ u - x \in 1 .. w
    BY <2>1, <2>3
  <2>5. QED
    BY <2>1, <2>2, <2>3, <2>4
<1>8. ASSUME NEW i \in DOMAIN wins
      PROVE  /\ wins[i] \in W /\ wins[i] \in Nat /\ wins[i] + len(i) \in Nat
             /\ lo <= wins[i] /\ wins[i] + len(i) <= hi
             /\ wins[i] % w = 0 /\ len(i) \in 1 .. w
             /\ wins[i] + len(i) <= n \/ wins[i] + len(i) <= patch.hi
             /\ \A p \in wins[i] .. wins[i] + w - 1 :
                    Source(s, patch, p) => p < wins[i] + len(i)
  <2>1. PICK x \in W : x = wins[i]
    BY <1>6
  <2>2. PICK u : u = Used(s, patch, x, x + w)
    OBVIOUS
  <2>3. /\ x \in Nat /\ x \in lo .. hi - 1 /\ x % w = 0 /\ x + w <= hi
        /\ u \in x + 1 .. x + w /\ u - x \in 1 .. w
        /\ u <= n \/ u <= patch.hi
        /\ \A p \in x .. x + w - 1 : Source(s, patch, p) => p < u
    BY <1>7, <2>2
  <2>4. len(i) = u - x
    BY <2>1, <2>2
  <2>5. wins[i] + len(i) = u
    BY <2>1, <2>3, <2>4
  <2> HIDE DEF len
  <2>6. QED
    BY <2>1, <2>3, <2>4, <2>5
<1> HIDE DEF len
<1>9. ASSUME NEW i \in DOMAIN wins
      PROVE  /\ C[i] = [lo |-> wins[i], len |-> len(i), blob |-> eof + i]
             /\ B[i] = [k \in 1 .. len(i) |-> ByteAt(s, patch, wins[i] + k - 1)]
  OBVIOUS
<1>10. DOMAIN C = DOMAIN wins /\ DOMAIN B = DOMAIN wins
  BY <1>6
<1> HIDE DEF C, B
<1>11. ASSUME NEW i \in DOMAIN wins
       PROVE  /\ C[i] \in Chunks /\ C[i].lo = wins[i] /\ C[i].len = len(i)
              /\ C[i].blob = eof + i /\ End(C[i]) = wins[i] + len(i)
              /\ B[i] \in Seq(Byte) /\ Len(B[i]) = len(i)
              /\ \A k \in 1 .. len(i) : B[i][k] = ByteAt(s, patch, wins[i] + k - 1)
  <2>1. PICK l \in Nat : l = len(i)
    BY <1>8
  <2>2. PICK x \in Nat : x = wins[i]
    BY <1>8
  <2>3. eof + i \in Nat
    BY <1>6
  <2>4. C[i] = [lo |-> x, len |-> l, blob |-> eof + i]
    BY <1>9, <2>1, <2>2
  <2>5. C[i] \in Chunks /\ C[i].lo = x /\ C[i].len = l /\ C[i].blob = eof + i
    BY <2>3, <2>4 DEF Chunks
  <2>6. End(C[i]) = x + l
    BY <2>5 DEF End
  <2>7. ASSUME NEW k \in 1 .. l PROVE ByteAt(s, patch, x + k - 1) \in Byte
    <3>1. x + k - 1 \in Nat
      OBVIOUS
    <3>2. QED
      BY <3>1, ByteAtIs
  <2>8. B[i] = [k \in 1 .. l |-> ByteAt(s, patch, x + k - 1)]
    BY <1>9, <2>1, <2>2
  <2>9. B[i] \in [1 .. l -> Byte] /\ \A k \in 1 .. l : B[i][k] = ByteAt(s, patch, x + k - 1)
    BY <2>7, <2>8
  <2>10. B[i] \in Seq(Byte) /\ Len(B[i]) = l
    BY <2>9
  <2>11. QED
    BY <2>1, <2>2, <2>5, <2>6, <2>9, <2>10
<1>12. C \in Seq(Chunks) /\ B \in Seq(Seq(Byte)) /\ Len(C) = Len(B)
  <2>1. C \in [1 .. Len(wins) -> Chunks]
    BY <1>6, <1>10, <1>11 DEF C
  <2>2. B \in [1 .. Len(wins) -> Seq(Byte)]
    BY <1>6, <1>10, <1>11 DEF B
  <2>3. C \in Seq(Chunks) /\ Len(C) = Len(wins)
    BY <1>6, <2>1, FunctionIsSeq
  <2>4. B \in Seq(Seq(Byte)) /\ Len(B) = Len(wins)
    BY <1>6, <2>2, FunctionIsSeq
  <2>5. QED
    BY <2>3, <2>4
<1>13. ASSUME NEW i \in DOMAIN C
       PROVE  /\ lo <= C[i].lo /\ End(C[i]) <= hi /\ C[i].lo % w = 0
              /\ 0 < C[i].len /\ C[i].len <= w
              /\ End(C[i]) <= n \/ End(C[i]) <= patch.hi
              /\ C[i].blob = eof + i /\ Len(B[i]) = C[i].len
              /\ \A p \in Nat : Covers(C[i], p) => B[i][p - C[i].lo + 1] = ByteAt(s, patch, p)
  <2>1. i \in DOMAIN wins
    BY <1>10
  <2>2. /\ C[i].lo = wins[i] /\ C[i].len = len(i)
        /\ C[i].blob = eof + i /\ End(C[i]) = wins[i] + len(i) /\ Len(B[i]) = len(i)
    BY <1>11, <2>1
  <2>3. ASSUME NEW p \in Nat, Covers(C[i], p)
        PROVE  B[i][p - C[i].lo + 1] = ByteAt(s, patch, p)
    <3>1. wins[i] <= p /\ p < wins[i] + len(i) /\ wins[i] \in Nat /\ len(i) \in Nat
      BY <1>8, <2>1, <2>2, <2>3 DEF Covers
    <3>2. PICK k \in 1 .. len(i) : k = p - wins[i] + 1
      BY <3>1
    <3>3. wins[i] + k - 1 = p
      BY <3>1, <3>2
    <3>4. B[i][k] = ByteAt(s, patch, wins[i] + k - 1)
      BY <1>11, <2>1
    <3>5. QED
      BY <2>2, <3>2, <3>3, <3>4
  <2>4. /\ lo <= wins[i] /\ wins[i] + len(i) <= hi /\ wins[i] % w = 0
        /\ len(i) \in 1 .. w
        /\ wins[i] + len(i) <= n \/ wins[i] + len(i) <= patch.hi
    BY <1>8, <2>1
  <2>5. QED
    BY <2>2, <2>3, <2>4
<1>14. ASSUME NEW i \in DOMAIN C, NEW j \in DOMAIN C, i < j PROVE C[i].lo < C[j].lo
  <2>1. i \in DOMAIN wins /\ j \in DOMAIN wins
    BY <1>10
  <2>2. C[i].lo = wins[i] /\ C[j].lo = wins[j] /\ wins[i] < wins[j]
    BY <1>6, <1>11, <1>14, <2>1
  <2>3. QED
    BY <2>2
<1>15. ASSUME NEW p \in lo .. hi - 1, Source(s, patch, p) PROVE ~Hole(C, p)
  <2>1. PICK x \in Nat : x = Base(p, w)
    BY BaseOf
  <2>2. p \in Nat /\ x % w = 0 /\ x <= p /\ p < x + w
    BY <2>1, BaseOf
  <2>3. lo <= x
    <3>1. SUFFICES ASSUME x < lo PROVE FALSE
      OBVIOUS
    <3>2. x + w <= lo
      BY <2>2, <3>1, Apart
    <3>3. QED
      BY <2>2, <3>2
  <2>4. PICK u : u = Used(s, patch, x, x + w)
    OBVIOUS
  <2>5. /\ u \in x .. x + w
        /\ \A q \in x .. x + w - 1 : Source(s, patch, q) => q < u
    BY <2>4, UsedIs
  <2>6. p < u
    BY <1>15, <2>2, <2>5
  <2>7. x \in W
    BY <1>3, <2>2, <2>3, <2>4, <2>5, <2>6
  <2>8. PICK i \in DOMAIN wins : wins[i] = x
    BY <1>6, <2>7
  <2>9. p < wins[i] + len(i) /\ wins[i] <= p
    BY <1>8, <1>15, <2>2, <2>8
  <2>10. i \in DOMAIN C /\ Covers(C[i], p)
    BY <1>6, <1>10, <1>11, <2>9 DEF Covers
  <2>11. QED
    BY <2>10 DEF Hole
<1>16. QED
  BY <1>1, <1>12, <1>13, <1>14, <1>15 DEF Repacked

-----------------------------------------------------------------------------
(* Powers of two.                                                          *)

LEMMA Half ==
    ASSUME NEW w \in Nat, w > 1, PowerOf2(w)
    PROVE  /\ w \div 2 \in Nat \ {0} /\ w = 2 * (w \div 2) /\ PowerOf2(w \div 2)
<1>1. w % 2 = 0 /\ w = 2 * (w \div 2) /\ w \div 2 \in Nat \ {0}
  <2>1. w \in 2 .. w /\ (w % w = 0 => w % 2 = 0)
    BY DEF PowerOf2
  <2>2. w % w = 0
    BY Multiple
  <2>3. w % 2 = 0
    BY <2>1, <2>2
  <2>4. QED
    BY <2>3
<1>2. PICK h \in Nat \ {0} : h = w \div 2
  BY <1>1
<1>3. ASSUME NEW d \in 2 .. h, h % d = 0 PROVE d % 2 = 0
  <2>1. PICK q \in Nat : h = q * d
    BY <1>3, Multiple
  <2>2. w = (2 * q) * d /\ 2 * q \in Nat
    BY <1>1, <1>2, <2>1
  <2>3. w % d = 0
    BY <2>2, Multiple
  <2>4. d \in 2 .. w
    BY <1>1, <1>2
  <2>5. QED
    BY <2>3, <2>4 DEF PowerOf2
<1>4. QED
  BY <1>1, <1>2, <1>3 DEF PowerOf2

LEMMA Double ==
    ASSUME NEW w \in Nat \ {0}, PowerOf2(w)
    PROVE  PowerOf2(w * 2)
<1>1. SUFFICES ASSUME NEW d \in 2 .. w * 2, (w * 2) % d = 0, d % 2 # 0
               PROVE  FALSE
  BY DEF PowerOf2
<1>2. PICK q \in Nat : w * 2 = q * d
  BY <1>1, Multiple
<1>3. d = 2 * (d \div 2) + 1 /\ d \div 2 \in Nat
  BY <1>1
<1>4. PICK e \in Nat : d = 2 * e + 1
  BY <1>3
<1>5. PICK r \in Nat : q = 2 * r \/ q = 2 * r + 1
  <2>1. q = 2 * (q \div 2) + (q % 2) /\ q % 2 \in 0 .. 1 /\ q \div 2 \in Nat
    OBVIOUS
  <2>2. QED
    BY <2>1
<1>6. CASE q = 2 * r
  <2>1. w = r * d
    BY <1>2, <1>6
  <2>2. w % d = 0
    BY <2>1, Multiple
  <2>3. r > 0
    BY <2>1
  <2>4. d <= w
    BY <2>1, <2>3
  <2>5. QED
    BY <1>1, <2>2, <2>4 DEF PowerOf2
<1>7. CASE q = 2 * r + 1
  <2>1. w * 2 = 2 * (2 * (r * e) + r + e) + 1
    BY <1>2, <1>4, <1>7
  <2>2. r * e \in Nat
    OBVIOUS
  <2>3. QED
    BY <2>1, <2>2
<1>8. QED
  BY <1>5, <1>6, <1>7

\* Of two powers of two the larger is at least twice the smaller.
LEMMA PowersApart ==
    ASSUME NEW v \in Nat \ {0}, NEW w \in Nat, PowerOf2(v), PowerOf2(w), v < w
    PROVE  v <= w \div 2 /\ v * 2 <= w
<1> DEFINE Bad(x) == PowerOf2(x) /\ \E y \in Nat : PowerOf2(y) /\ x < y /\ y < x * 2
           T == {x \in Nat \ {0} : Bad(x)}
<1>1. T = {}
  <2>1. SUFFICES ASSUME T # {} PROVE FALSE
    OBVIOUS
  <2>2. PICK x \in T : \A z \in T : x <= z
    <3>1. T \in SUBSET Nat
      OBVIOUS
    <3>2. QED
      BY <2>1, <3>1, LeastExists
  <2>3. x \in Nat \ {0} /\ PowerOf2(x)
    OBVIOUS
  <2>4. PICK y \in Nat : PowerOf2(y) /\ x < y /\ y < x * 2
    OBVIOUS
  <2>5. x > 1 /\ y > 1
    BY <2>3, <2>4
  <2>6. /\ x \div 2 \in Nat \ {0} /\ x = 2 * (x \div 2) /\ PowerOf2(x \div 2)
        /\ y \div 2 \in Nat \ {0} /\ y = 2 * (y \div 2) /\ PowerOf2(y \div 2)
    BY <2>3, <2>4, <2>5, Half
  <2>7. x \div 2 < y \div 2 /\ y \div 2 < (x \div 2) * 2 /\ x \div 2 < x
    BY <2>3, <2>4, <2>6
  <2>8. x \div 2 \in T
    BY <2>6, <2>7
  <2>9. QED
    BY <2>2, <2>3, <2>7, <2>8
<1>2. ~(w < v * 2)
  BY <1>1
<1>3. v * 2 <= w
  BY <1>2
<1>4. QED
  BY <1>3

\* A new window size is a window size.
LEMMA ResizeTargetIs ==
    ASSUME NEW st, NEW bytes, ValidWindow(window), window \in Nat,
           NEW t, t = ResizeTarget(st, bytes)
    PROVE  t \in Nat \ {0} /\ ValidWindow(t)
<1>1. /\ MinWindow \in Nat \ {0} /\ MaxWindow \in Nat /\ PowerOf2(MinWindow) /\ PowerOf2(MaxWindow)
      /\ MinWindow <= window /\ window <= MaxWindow /\ PowerOf2(window) /\ window \in Nat \ {0}
  BY ConstantsAssumption DEF ValidWindow
<1>2. \/ t = window
      \/ window > MinWindow /\ t = window \div 2
      \/ window < MaxWindow /\ t = window * 2
  BY DEF ResizeTarget
<1>3. CASE t = window
  BY <1>1, <1>3
<1>4. CASE window > MinWindow /\ t = window \div 2
  <2>1. window > 1
    BY <1>1, <1>4
  <2>2. window \div 2 \in Nat \ {0} /\ window = 2 * (window \div 2) /\ PowerOf2(window \div 2)
    BY <1>1, <2>1, Half
  <2>3. MinWindow <= window \div 2
    BY <1>1, <1>4, PowersApart
  <2>4. window \div 2 <= MaxWindow
    BY <1>1, <2>2
  <2>5. QED
    BY <1>4, <2>2, <2>3, <2>4 DEF ValidWindow
<1>5. CASE window < MaxWindow /\ t = window * 2
  <2>1. PowerOf2(window * 2) /\ window * 2 <= MaxWindow
    BY <1>1, <1>5, Double, PowersApart
  <2>2. MinWindow <= window * 2 /\ window * 2 \in Nat \ {0}
    BY <1>1
  <2>3. QED
    BY <1>5, <2>1, <2>2 DEF ValidWindow
<1>6. QED
  BY <1>2, <1>3, <1>4, <1>5

-----------------------------------------------------------------------------
(* Parts of maps and maps put together.                                    *)

\* Every chunk leads to these bytes; nothing is said of holes.
Agrees(m, d, bytes) ==
    \A i \in DOMAIN m : \A p \in 0 .. MaxOffset :
        Covers(m[i], p) => PayloadByte(m[i], p, d) = bytes[p]

\* Each chunk starts a window and stays in it.
Aligned(m, w) == \A i \in DOMAIN m : m[i].lo % w = 0 /\ m[i].len <= w

\* In a sound map that is what being packed means.
LEMMA PackedIs ==
    ASSUME NEW m, NEW n, NEW d, SoundMap(m, n, d), NEW w
    PROVE  Packed(m, w) <=> ValidWindow(w) /\ Aligned(m, w)
<1>1. m \in Seq(Chunks) /\ DOMAIN m = 1 .. Len(m) /\ Len(m) \in Nat
  BY DEF SoundMap
<1>2. ASSUME NEW i \in DOMAIN m PROVE 0 < m[i].len /\ (i > 1 => m[i - 1].lo < m[i].lo)
  <2>1. 0 < m[i].len
    BY DEF SoundMap
  <2>2. ASSUME i > 1 PROVE m[i - 1].lo < m[i].lo
    <3>1. PICK h \in DOMAIN m : h = i - 1
      BY <1>1, <2>2
    <3>2. h < i
      BY <1>1, <3>1
    <3>3. End(m[h]) <= m[i].lo /\ 0 < m[h].len
      BY <3>2 DEF SoundMap
    <3>4. m[h].lo \in Nat /\ m[h].len \in Nat /\ End(m[h]) = m[h].lo + m[h].len /\ m[i].lo \in Nat
      BY <1>1, ChunkTypes
    <3>5. m[h].lo < m[i].lo
      BY <3>3, <3>4
    <3>6. QED
      BY <3>1, <3>5
  <2>3. QED
    BY <2>1, <2>2
<1>3. QED
  BY <1>2 DEF Packed, Aligned

\* The chunks of u are those of m from a to b.
IsSegment(u, m, a, b) ==
    /\ \A i \in DOMAIN u : \E j \in DOMAIN m : a <= j /\ j <= b /\ u[i] = m[j]
    /\ \A j \in DOMAIN m : a <= j /\ j <= b => \E i \in DOMAIN u : u[i] = m[j]

LEMMA SegmentIs ==
    ASSUME NEW m, NEW n, NEW d, SoundMap(m, n, d), NEW a \in Nat \ {0}, NEW b \in Nat,
           b <= Len(m), NEW u, u = SubSeq(m, a, b)
    PROVE  SoundMap(u, n, d) /\ IsSegment(u, m, a, b)
<1>1. m \in Seq(Chunks) /\ DOMAIN m = 1 .. Len(m) /\ Len(m) \in Nat
  BY DEF SoundMap
<1>2. \A j \in a .. b : j \in DOMAIN m /\ m[j] \in Chunks
  BY <1>1
<1>3. /\ u \in Seq(Chunks) /\ Len(u) = IF a <= b THEN b - a + 1 ELSE 0
      /\ DOMAIN u = 1 .. Len(u)
  BY <1>2, SubSeqProperties
<1>4. ASSUME NEW i \in DOMAIN u
      PROVE  a + i - 1 \in DOMAIN m /\ a + i - 1 <= b /\ u[i] = m[a + i - 1]
  <2>1. i \in 1 .. b - a + 1
    BY <1>3
  <2>2. u[i] = m[a + i - 1]
    BY <1>2, <2>1, SubSeqProperties
  <2>3. QED
    BY <1>1, <2>1, <2>2
<1>5. ASSUME NEW i \in DOMAIN u
      PROVE  \E j \in DOMAIN m : a <= j /\ j <= b /\ u[i] = m[j]
  <2>1. a + i - 1 \in DOMAIN m /\ a <= a + i - 1 /\ a + i - 1 <= b /\ u[i] = m[a + i - 1]
    BY <1>3, <1>4
  <2>2. QED
    BY <2>1
<1>6. SoundMap(u, n, d)
  <2>1. ASSUME NEW i \in DOMAIN u
        PROVE  /\ 0 < u[i].len /\ End(u[i]) <= n
               /\ u[i].blob \in DOMAIN d /\ u[i].len <= Len(d[u[i].blob])
    <3>1. PICK j \in DOMAIN m : u[i] = m[j]
      BY <1>4
    <3>2. QED
      BY <3>1 DEF SoundMap
  <2>2. ASSUME NEW i \in DOMAIN u, NEW j \in DOMAIN u, i < j PROVE End(u[i]) <= u[j].lo
    <3>1. PICK k \in DOMAIN m : k = a + i - 1 /\ u[i] = m[k]
      BY <1>4
    <3>2. PICK l \in DOMAIN m : l = a + j - 1 /\ u[j] = m[l]
      BY <1>4
    <3>3. k < l
      BY <1>3, <2>2, <3>1, <3>2
    <3>4. QED
      BY <3>1, <3>2, <3>3 DEF SoundMap
  <2>3. d \in Seq(Seq(Byte))
    BY DEF SoundMap
  <2>4. QED
    BY <1>3, <2>1, <2>2, <2>3 DEF SoundMap
<1>7. ASSUME NEW j \in DOMAIN m, a <= j, j <= b PROVE \E i \in DOMAIN u : u[i] = m[j]
  <2>1. j - a + 1 \in DOMAIN u /\ a + (j - a + 1) - 1 = j
    BY <1>1, <1>3, <1>7
  <2>2. QED
    BY <1>4, <2>1
<1>8. QED
  BY <1>5, <1>6, <1>7 DEF IsSegment

\* m has the chunks of u and those of v.
HasBoth(m, u, v) ==
    /\ \A i \in DOMAIN m : \/ \E j \in DOMAIN u : m[i] = u[j]
                           \/ \E j \in DOMAIN v : m[i] = v[j]
    /\ \A j \in DOMAIN u : \E i \in DOMAIN m : m[i] = u[j]
    /\ \A j \in DOMAIN v : \E i \in DOMAIN m : m[i] = v[j]

\* All of u lies before all of v.
Precedes(u, v) == \A i \in DOMAIN u, j \in DOMAIN v : End(u[i]) <= v[j].lo

\* Two maps, one after the other.
LEMMA JoinIs ==
    ASSUME NEW u, NEW v, NEW n, NEW d, SoundMap(u, n, d), SoundMap(v, n, d),
           Precedes(u, v), NEW m, m = u \o v
    PROVE  SoundMap(m, n, d) /\ HasBoth(m, u, v)
<1>1. /\ u \in Seq(Chunks) /\ v \in Seq(Chunks) /\ d \in Seq(Seq(Byte))
      /\ DOMAIN u = 1 .. Len(u) /\ DOMAIN v = 1 .. Len(v) /\ Len(u) \in Nat /\ Len(v) \in Nat
  BY DEF SoundMap
<1>2. /\ m \in Seq(Chunks) /\ DOMAIN m = 1 .. Len(u) + Len(v)
      /\ \A i \in DOMAIN m : m[i] = IF i <= Len(u) THEN u[i] ELSE v[i - Len(u)]
  <2>1. /\ m \in Seq(Chunks) /\ Len(m) = Len(u) + Len(v)
        /\ \A i \in 1 .. Len(u) + Len(v) : m[i] = IF i <= Len(u) THEN u[i] ELSE v[i - Len(u)]
    BY <1>1, ConcatProperties
  <2>2. DOMAIN m = 1 .. Len(m)
    BY <2>1
  <2>3. QED
    BY <2>1, <2>2
<1>3. ASSUME NEW i \in DOMAIN m
      PROVE  \/ i \in DOMAIN u /\ i <= Len(u) /\ m[i] = u[i]
             \/ i > Len(u) /\ i - Len(u) \in DOMAIN v /\ m[i] = v[i - Len(u)]
  BY <1>1, <1>2
<1>4. ASSUME NEW i \in DOMAIN m
      PROVE  /\ 0 < m[i].len /\ End(m[i]) <= n
             /\ m[i].blob \in DOMAIN d /\ m[i].len <= Len(d[m[i].blob])
  <2>1. CASE i \in DOMAIN u /\ m[i] = u[i]
    BY <2>1 DEF SoundMap
  <2>2. CASE i - Len(u) \in DOMAIN v /\ m[i] = v[i - Len(u)]
    <3>1. PICK k \in DOMAIN v : m[i] = v[k]
      BY <2>2
    <3>2. QED
      BY <3>1 DEF SoundMap
  <2>3. QED
    BY <1>3, <2>1, <2>2
<1>5. ASSUME NEW i \in DOMAIN m, NEW j \in DOMAIN m, i < j PROVE End(m[i]) <= m[j].lo
  <2>1. i \in Nat /\ j \in Nat
    BY <1>1, <1>2
  <2>2. CASE j <= Len(u)
    <3>1. i \in DOMAIN u /\ j \in DOMAIN u /\ m[i] = u[i] /\ m[j] = u[j]
      BY <1>1, <1>3, <1>5, <2>1, <2>2
    <3>2. QED
      BY <1>5, <3>1 DEF SoundMap
  <2>3. CASE i > Len(u)
    <3>1. PICK k \in DOMAIN v : k = i - Len(u) /\ m[i] = v[k]
      BY <1>1, <1>3, <2>1, <2>3
    <3>2. PICK l \in DOMAIN v : l = j - Len(u) /\ m[j] = v[l]
      BY <1>1, <1>3, <1>5, <2>1, <2>3
    <3>3. k < l
      BY <1>1, <1>5, <2>1, <3>1, <3>2
    <3>4. QED
      BY <3>1, <3>2, <3>3 DEF SoundMap
  <2>4. CASE i <= Len(u) /\ j > Len(u)
    <3>1. PICK k \in DOMAIN u : m[i] = u[k]
      BY <1>1, <1>3, <2>1, <2>4
    <3>2. PICK l \in DOMAIN v : l = j - Len(u) /\ m[j] = v[l]
      BY <1>1, <1>3, <2>1, <2>4
    <3>3. QED
      BY <3>1, <3>2 DEF Precedes
  <2>5. QED
    BY <1>1, <2>1, <2>2, <2>3, <2>4
<1>6. ASSUME NEW j \in DOMAIN u PROVE \E i \in DOMAIN m : m[i] = u[j]
  <2>1. j \in DOMAIN m /\ j <= Len(u)
    BY <1>1, <1>2
  <2>2. QED
    BY <1>2, <2>1
<1>7. ASSUME NEW j \in DOMAIN v PROVE \E i \in DOMAIN m : m[i] = v[j]
  <2>1. PICK i \in DOMAIN m : i = Len(u) + j /\ i > Len(u)
    BY <1>1, <1>2
  <2>2. i - Len(u) = j
    BY <1>1, <2>1
  <2>3. QED
    BY <1>1, <1>2, <2>1, <2>2
<1>8. SoundMap(m, n, d)
  BY <1>1, <1>2, <1>4, <1>5 DEF SoundMap
<1>9. ASSUME NEW i \in DOMAIN m
      PROVE  (\E j \in DOMAIN u : m[i] = u[j]) \/ (\E j \in DOMAIN v : m[i] = v[j])
  BY <1>3
<1>10. QED
  BY <1>6, <1>7, <1>8, <1>9 DEF HasBoth

\* A chunk of m has the same bytes in e as in d.
SameBytes(m, d, e) == \A i \in DOMAIN m : \A p : PayloadByte(m[i], p, e) = PayloadByte(m[i], p, d)

\* A map is sound with more blobs and in a longer file.
LEMMA SoundWithMore ==
    ASSUME NEW m, NEW n \in Nat, NEW d, SoundMap(m, n, d), NEW e \in Seq(Seq(Byte)),
           NEW k \in Nat, n <= k
    PROVE  SoundMap(m, k, d \o e) /\ SameBytes(m, d, d \o e)
<1>1. /\ m \in Seq(Chunks) /\ d \in Seq(Seq(Byte))
  BY DEF SoundMap
<1>2. /\ d \o e \in Seq(Seq(Byte)) /\ DOMAIN (d \o e) = 1 .. Len(d) + Len(e)
      /\ Len(d) \in Nat /\ Len(e) \in Nat /\ DOMAIN d = 1 .. Len(d)
      /\ \A b \in DOMAIN d : b \in DOMAIN (d \o e) /\ (d \o e)[b] = d[b]
  <2>1. /\ d \o e \in Seq(Seq(Byte)) /\ Len(d \o e) = Len(d) + Len(e)
        /\ \A i \in 1 .. Len(d) + Len(e) : (d \o e)[i] = IF i <= Len(d) THEN d[i] ELSE e[i - Len(d)]
    BY <1>1, ConcatProperties
  <2>2. DOMAIN (d \o e) = 1 .. Len(d \o e)
    BY <2>1
  <2>3. Len(d) \in Nat /\ Len(e) \in Nat /\ DOMAIN d = 1 .. Len(d)
    BY <1>1
  <2>4. QED
    BY <2>1, <2>2, <2>3
<1>3. ASSUME NEW i \in DOMAIN m
      PROVE  /\ 0 < m[i].len /\ End(m[i]) <= k
             /\ m[i].blob \in DOMAIN d /\ m[i].blob \in DOMAIN (d \o e)
             /\ (d \o e)[m[i].blob] = d[m[i].blob]
             /\ m[i].len <= Len((d \o e)[m[i].blob])
  <2>1. /\ 0 < m[i].len /\ End(m[i]) <= n
        /\ m[i].blob \in DOMAIN d /\ m[i].len <= Len(d[m[i].blob])
    BY DEF SoundMap
  <2>2. m[i].blob \in DOMAIN (d \o e) /\ (d \o e)[m[i].blob] = d[m[i].blob]
    BY <1>2, <2>1
  <2>3. End(m[i]) \in Nat
    BY <1>1, ChunkTypes
  <2>4. QED
    BY <2>1, <2>2, <2>3
<1>4. \A i, j \in DOMAIN m : i < j => End(m[i]) <= m[j].lo
  BY DEF SoundMap
<1>5. SoundMap(m, k, d \o e)
  BY <1>1, <1>2, <1>3, <1>4 DEF SoundMap
<1>6. QED
  BY <1>3, <1>5 DEF PayloadByte, SameBytes

-----------------------------------------------------------------------------
(* The region of a write.                                                  *)

\* The chunks before a, from a to b - 1, and from b on are the ones before,
\* inside and after a region.
Splits(m, a, b, lo, hi) ==
    /\ a \in 1 .. Len(m) + 1 /\ b \in a .. Len(m) + 1
    /\ \A i \in DOMAIN m : /\ i < a => End(m[i]) <= lo
                           /\ a <= i /\ i < b => lo <= m[i].lo /\ End(m[i]) <= hi
                           /\ b <= i => hi <= m[i].lo

\* A border of windows that no chunk crosses.
IsBorder(x) ==
    /\ x \in 0 .. MaxOffset /\ x % window = 0
    /\ \A i \in DOMAIN map : ~(map[i].lo < x /\ x < End(map[i]))

LEMMA FirstIs ==
    ASSUME SoundMap(map, size, data), NEW r, r.lo \in Nat
    PROVE  /\ First(r) \in 1 .. Len(map) + 1
           /\ \A i \in DOMAIN map : i < First(r) => End(map[i]) <= r.lo
           /\ \A i \in DOMAIN map : First(r) <= i => r.lo < End(map[i])
<1>1. map \in Seq(Chunks) /\ DOMAIN map = 1 .. Len(map) /\ Len(map) \in Nat
  BY DEF SoundMap
<1> DEFINE I == {k \in 1 .. Len(map) : End(map[k]) > r.lo}
<1>2. PICK f : f = First(r)
  OBVIOUS
<1>3. I \in SUBSET Nat
  OBVIOUS
<1>4. CASE I = {}
  <2>1. f = Len(map) + 1
    BY <1>2, <1>4 DEF First, SelectInSeq
  <2>2. \A i \in DOMAIN map : ~(End(map[i]) > r.lo)
    BY <1>1, <1>4
  <2>3. \A i \in DOMAIN map : End(map[i]) \in Nat
    BY <1>1, ChunkTypes
  <2>4. QED
    BY <1>1, <1>2, <2>1, <2>2, <2>3
<1>5. CASE I # {}
  <2>1. Min(I) \in I /\ \A y \in I : Min(I) <= y
    BY <1>3, <1>5, MinIs
  <2>2. f = Min(I)
    <3>1. Min(I) # 0
      BY <2>1
    <3>2. QED
      BY <1>2, <1>5, <3>1 DEF First, SelectInSeq
  <2>3. f \in DOMAIN map /\ r.lo < End(map[f]) /\ \A y \in I : f <= y
    BY <1>1, <2>1, <2>2
  <2>4. ASSUME NEW i \in DOMAIN map, i < f PROVE End(map[i]) <= r.lo
    <3>1. i \notin I
      BY <1>1, <2>3, <2>4
    <3>2. End(map[i]) \in Nat
      BY <1>1, ChunkTypes
    <3>3. QED
      BY <1>1, <3>1, <3>2
  <2>5. ASSUME NEW i \in DOMAIN map, f <= i PROVE r.lo < End(map[i])
    <3>1. CASE i = f
      BY <2>3, <3>1
    <3>2. CASE f < i
      <4>1. End(map[f]) <= map[i].lo
        BY <2>3, <3>2 DEF SoundMap
      <4>2. /\ End(map[f]) \in Nat /\ map[i].lo \in Nat /\ map[i].len \in Nat
            /\ End(map[i]) = map[i].lo + map[i].len
        BY <1>1, <2>3, ChunkTypes
      <4>3. QED
        BY <2>3, <4>1, <4>2
    <3>3. QED
      BY <1>1, <2>3, <2>5, <3>1, <3>2
  <2>6. f \in 1 .. Len(map) + 1
    BY <1>1, <2>3
  <2>7. QED
    BY <1>2, <2>4, <2>5, <2>6
<1>6. QED
  BY <1>4, <1>5

LEMMA BeyondIs ==
    ASSUME SoundMap(map, size, data), NEW r, r.lo \in Nat, r.hi \in Nat
    PROVE  /\ Beyond(r) \in First(r) .. Len(map) + 1
           /\ \A i \in DOMAIN map : First(r) <= i /\ i < Beyond(r) => map[i].lo < r.hi
           /\ \A i \in DOMAIN map : Beyond(r) <= i => r.hi <= map[i].lo
<1>1. map \in Seq(Chunks) /\ DOMAIN map = 1 .. Len(map) /\ Len(map) \in Nat
  BY DEF SoundMap
<1>2. PICK f \in 1 .. Len(map) + 1 : f = First(r)
  BY FirstIs
<1> DEFINE I == {k \in f .. Len(map) : map[k].lo >= r.hi}
<1>3. PICK b : b = Beyond(r)
  OBVIOUS
<1>4. I \in SUBSET Nat
  BY <1>1
<1>5. CASE I = {}
  <2>1. b = Len(map) + 1
    BY <1>2, <1>3, <1>5 DEF Beyond, SelectInSubSeq
  <2>2. ASSUME NEW i \in DOMAIN map, f <= i PROVE map[i].lo < r.hi
    <3>1. i \in f .. Len(map) /\ map[i].lo \in Nat
      BY <1>1, <2>2, ChunkTypes
    <3>2. QED
      BY <1>5, <3>1
  <2>3. b \in f .. Len(map) + 1 /\ \A i \in DOMAIN map : ~(b <= i)
    BY <1>1, <2>1
  <2>4. QED
    BY <1>2, <1>3, <2>2, <2>3
<1>6. CASE I # {}
  <2>1. Min(I) \in I /\ \A y \in I : Min(I) <= y
    BY <1>4, <1>6, MinIs
  <2>2. b = Min(I)
    <3>1. \A y \in I : y # 0
      BY <1>1
    <3>2. Min(I) # 0
      BY <2>1, <3>1
    <3>3. QED
      BY <1>2, <1>3, <1>6, <3>2 DEF Beyond, SelectInSubSeq
  <2>3. b \in DOMAIN map /\ f <= b /\ r.hi <= map[b].lo /\ \A y \in I : b <= y
    BY <1>1, <2>1, <2>2
  <2>4. ASSUME NEW i \in DOMAIN map, f <= i, i < b PROVE map[i].lo < r.hi
    <3>1. i \notin I /\ i \in f .. Len(map)
      BY <1>1, <2>3, <2>4
    <3>2. map[i].lo \in Nat
      BY <1>1, ChunkTypes
    <3>3. QED
      BY <3>1, <3>2
  <2>5. ASSUME NEW i \in DOMAIN map, b <= i PROVE r.hi <= map[i].lo
    <3>1. CASE b < i
      <4>1. End(map[b]) <= map[i].lo
        BY <2>3, <3>1 DEF SoundMap
      <4>2. /\ map[b].lo \in Nat /\ map[b].len \in Nat /\ map[i].lo \in Nat
            /\ End(map[b]) = map[b].lo + map[b].len
        BY <1>1, <2>3, ChunkTypes
      <4>3. QED
        BY <2>3, <4>1, <4>2
    <3>2. CASE i = b
      BY <2>3, <3>2
    <3>3. QED
      BY <1>1, <2>3, <2>5, <3>1, <3>2
  <2>6. b \in f .. Len(map) + 1
    BY <1>1, <2>3
  <2>7. QED
    BY <1>2, <1>3, <2>4, <2>5, <2>6
<1>7. QED
  BY <1>5, <1>6

\* The region of a write holds it and no chunk crosses its borders.
LEMMA RegionIs ==
    ASSUME SoundMap(map, size, data), window \in Nat \ {0}, MaxOffset \in Nat,
           NEW lo \in 0 .. MaxOffset, NEW hi \in 0 .. MaxOffset, Fits(hi),
           NEW r, r = Region(lo, hi)
    PROVE  IsBorder(r.lo) /\ IsBorder(r.hi) /\ r.lo <= lo /\ hi <= r.hi
<1>1. map \in Seq(Chunks)
  BY DEF SoundMap
<1> DEFINE L == {x \in Borders : x <= lo}
           H == {x \in Borders : hi <= x}
<1>2. 0 \in L
  <2>1. 0 % window = 0
    OBVIOUS
  <2>2. \A i \in DOMAIN map : map[i].lo \in Nat
    BY <1>1, ChunkTypes
  <2>3. QED
    BY <2>1, <2>2 DEF Borders
<1>3. /\ L \in SUBSET Nat /\ L # {} /\ lo \in Nat /\ \A x \in L : x <= lo
      /\ H \in SUBSET Nat /\ H # {}
  BY <1>2 DEF Borders, Fits
<1>4. Max(L) \in L
  <2> HIDE DEF L
  <2>1. QED
    BY <1>3, MaxIs
<1>5. Min(H) \in H
  BY <1>3, MinIs
<1>6. r.lo = Max(L) /\ r.hi = Min(H)
  BY DEF Region
<1>7. QED
  BY <1>4, <1>5, <1>6 DEF Borders, IsBorder

LEMMA ConsumedIs ==
    ASSUME SoundMap(map, size, data), MaxOffset \in Nat,
           NEW r, IsBorder(r.lo), IsBorder(r.hi), r.lo <= r.hi
    PROVE  Splits(map, First(r), Beyond(r), r.lo, r.hi)
<1>1. map \in Seq(Chunks) /\ r.lo \in Nat /\ r.hi \in Nat
  BY DEF SoundMap, IsBorder
<1>2. /\ First(r) \in 1 .. Len(map) + 1
      /\ \A i \in DOMAIN map : i < First(r) => End(map[i]) <= r.lo
      /\ \A i \in DOMAIN map : First(r) <= i => r.lo < End(map[i])
  BY <1>1, FirstIs
<1>3. /\ Beyond(r) \in First(r) .. Len(map) + 1
      /\ \A i \in DOMAIN map : First(r) <= i /\ i < Beyond(r) => map[i].lo < r.hi
      /\ \A i \in DOMAIN map : Beyond(r) <= i => r.hi <= map[i].lo
  BY <1>1, BeyondIs
<1>4. ASSUME NEW i \in DOMAIN map, First(r) <= i, i < Beyond(r)
      PROVE  r.lo <= map[i].lo /\ End(map[i]) <= r.hi
  <2>1. /\ ~(map[i].lo < r.lo /\ r.lo < End(map[i]))
        /\ ~(map[i].lo < r.hi /\ r.hi < End(map[i]))
    BY DEF IsBorder
  <2>2. map[i].lo \in Nat /\ End(map[i]) \in Nat
    BY <1>1, ChunkTypes
  <2>3. r.lo < End(map[i]) /\ map[i].lo < r.hi
    BY <1>2, <1>3, <1>4
  <2>4. QED
    BY <1>1, <2>1, <2>2, <2>3
<1>5. QED
  BY <1>2, <1>3, <1>4 DEF Splits

-----------------------------------------------------------------------------
(* The loop that grows a region (file.c:981-1030) ends with Region.        *)

\* The chunks from first_idx to end_idx - 1.
Taken(r) == First(r) .. Beyond(r) - 1

\* A round of the loop.
Grown(r) ==
    [lo |-> Base(Min({r.lo} \cup {map[i].lo : i \in Taken(r)}), window),
     hi |-> Ceil(Max({r.hi} \cup {End(map[i]) : i \in Taken(r)}), window)]

\* The region lies in q.
Inside(r, q) == q.lo <= r.lo /\ r.hi <= q.hi

LEMMA TakenIs ==
    ASSUME SoundMap(map, size, data), NEW r, r.lo \in Nat, r.hi \in Nat
    PROVE  /\ Taken(r) \subseteq DOMAIN map
           /\ \A i \in DOMAIN map : i \in Taken(r) <=> r.lo < End(map[i]) /\ map[i].lo < r.hi
<1>1. map \in Seq(Chunks) /\ DOMAIN map = 1 .. Len(map) /\ Len(map) \in Nat
  BY DEF SoundMap
<1>2. PICK f \in 1 .. Len(map) + 1 : f = First(r)
  BY FirstIs
<1>3. PICK b \in f .. Len(map) + 1 : b = Beyond(r)
  BY <1>2, BeyondIs
<1>4. /\ \A i \in DOMAIN map : i < f => End(map[i]) <= r.lo
      /\ \A i \in DOMAIN map : f <= i => r.lo < End(map[i])
  BY <1>2, FirstIs
<1>5. /\ \A i \in DOMAIN map : f <= i /\ i < b => map[i].lo < r.hi
      /\ \A i \in DOMAIN map : b <= i => r.hi <= map[i].lo
  BY <1>2, <1>3, BeyondIs
<1>6. Taken(r) = f .. b - 1
  BY <1>2, <1>3 DEF Taken
<1>7. ASSUME NEW i \in DOMAIN map
      PROVE  i \in Taken(r) <=> r.lo < End(map[i]) /\ map[i].lo < r.hi
  <2>1. map[i].lo \in Nat /\ End(map[i]) \in Nat
    BY <1>1, ChunkTypes
  <2>2. i \in 1 .. Len(map)
    BY <1>1
  <2>3. /\ i < f => End(map[i]) <= r.lo
        /\ f <= i => r.lo < End(map[i])
        /\ f <= i /\ i < b => map[i].lo < r.hi
        /\ b <= i => r.hi <= map[i].lo
    BY <1>4, <1>5
  <2>4. QED
    BY <1>6, <2>1, <2>2, <2>3
<1>8. QED
  BY <1>1, <1>6, <1>7

\* What a round reaches: every chunk that the region meets, and no more than
\* borders that no such chunk crosses.
LEMMA GrownIs ==
    ASSUME SoundMap(map, size, data), size \in 0 .. MaxOffset, MaxOffset \in Nat,
           window \in Nat \ {0}, NEW r, r.lo \in Nat, r.hi \in Nat,
           NEW g, g = Grown(r)
    PROVE  /\ g.lo \in Nat /\ g.lo % window = 0 /\ g.hi \in Nat /\ g.hi % window = 0
           /\ Inside(r, g)
           /\ \A i \in Taken(r) : g.lo <= map[i].lo /\ End(map[i]) <= g.hi
           /\ \A x \in Nat : /\ x % window = 0 /\ x <= r.lo
                             /\ \A i \in Taken(r) : x <= map[i].lo
                             => x <= g.lo
           /\ \A x \in Nat : /\ x % window = 0 /\ r.hi <= x
                             /\ \A i \in Taken(r) : End(map[i]) <= x
                             => g.hi <= x
<1> DEFINE L == {r.lo} \cup {map[i].lo : i \in Taken(r)}
           H == {r.hi} \cup {End(map[i]) : i \in Taken(r)}
<1>1. map \in Seq(Chunks) /\ Taken(r) \subseteq DOMAIN map
  BY TakenIs DEF SoundMap
<1>2. \A i \in Taken(r) : map[i].lo \in Nat /\ End(map[i]) \in Nat /\ End(map[i]) <= size
  BY <1>1, ChunkTypes DEF SoundMap
<1>3. PICK l \in Nat : l = Min(L) /\ l \in L /\ \A y \in L : l <= y
  <2>1. L \in SUBSET Nat /\ L # {}
    BY <1>2
  <2> HIDE DEF L
  <2>2. QED
    BY <2>1, MinIs
<1>4. PICK h \in Nat : h = Max(H) /\ h \in H /\ \A y \in H : y <= h
  <2>1. PICK b \in Nat : b = size + r.hi /\ r.hi <= b /\ size <= b
    OBVIOUS
  <2>2. size \in Nat
    OBVIOUS
  <2>3. H \in SUBSET Nat /\ H # {} /\ \A y \in H : y <= b
    BY <1>2, <2>1, <2>2
  <2> HIDE DEF H
  <2>4. QED
    BY <2>3, MaxIs
<1>5. g.lo = Base(l, window) /\ g.hi = Ceil(h, window)
  BY <1>3, <1>4 DEF Grown
<1>6. PICK gl \in Nat : gl = g.lo /\ gl % window = 0 /\ gl <= l /\ l < gl + window
  BY <1>5, BaseOf
<1>7. PICK gh \in Nat : gh = g.hi /\ gh % window = 0 /\ h <= gh
  BY <1>5, CeilOf
<1>8. l <= r.lo /\ r.hi <= h
  BY <1>3, <1>4
<1>9. ASSUME NEW i \in Taken(r) PROVE gl <= map[i].lo /\ End(map[i]) <= gh
  <2>1. l <= map[i].lo /\ End(map[i]) <= h
    BY <1>3, <1>4
  <2>2. QED
    BY <1>2, <1>6, <1>7, <2>1
<1>10. ASSUME NEW x \in Nat, x % window = 0, x <= r.lo, \A i \in Taken(r) : x <= map[i].lo
       PROVE  x <= gl
  <2>1. x <= l
    BY <1>3, <1>10
  <2>2. CASE gl < x
    <3>1. gl + window <= x
      BY <1>6, <1>10, <2>2, Apart
    <3>2. QED
      BY <1>6, <2>1, <3>1
  <2>3. QED
    BY <2>2
<1>11. ASSUME NEW x \in Nat, x % window = 0, r.hi <= x, \A i \in Taken(r) : End(map[i]) <= x
       PROVE  gh <= x
  <2>1. h <= x
    BY <1>4, <1>11
  <2>2. gh = Base(h + window - 1, window) /\ h + window - 1 \in Nat
    BY <1>5, <1>7 DEF Ceil
  <2>3. gh <= h + window - 1
    BY <2>2, BaseOf
  <2>4. CASE x < gh
    <3>1. x + window <= gh
      BY <1>7, <1>11, <2>4, Apart
    <3>2. QED
      BY <2>1, <2>3, <3>1
  <2>5. QED
    BY <2>4
<1>12. Inside(r, g)
  BY <1>6, <1>7, <1>8 DEF Inside
<1>13. QED
  BY <1>6, <1>7, <1>9, <1>10, <1>11, <1>12

\* A round does not leave the region of the write.
LEMMA GrownInside ==
    ASSUME SoundMap(map, size, data), size \in 0 .. MaxOffset, MaxOffset \in Nat,
           window \in Nat \ {0}, NEW r, r.lo \in Nat, r.hi \in Nat,
           NEW q, IsBorder(q.lo), IsBorder(q.hi), Inside(r, q)
    PROVE  Inside(Grown(r), q)
<1>1. map \in Seq(Chunks) /\ q.lo \in Nat /\ q.hi \in Nat /\ q.lo <= r.lo /\ r.hi <= q.hi
  BY DEF SoundMap, IsBorder, Inside
<1>2. q.lo % window = 0 /\ q.hi % window = 0
  BY DEF IsBorder
<1>3. ASSUME NEW i \in Taken(r) PROVE q.lo <= map[i].lo /\ End(map[i]) <= q.hi
  <2>1. i \in DOMAIN map /\ r.lo < End(map[i]) /\ map[i].lo < r.hi
    BY TakenIs
  <2>2. map[i].lo \in Nat /\ End(map[i]) \in Nat
    BY <1>1, <2>1, ChunkTypes
  <2>3. /\ ~(map[i].lo < q.lo /\ q.lo < End(map[i]))
        /\ ~(map[i].lo < q.hi /\ q.hi < End(map[i]))
    BY <2>1 DEF IsBorder
  <2>4. QED
    BY <1>1, <2>1, <2>2, <2>3
<1>4. PICK g : g = Grown(r)
  OBVIOUS
<1>5. q.lo <= g.lo
  BY <1>1, <1>2, <1>3, <1>4, GrownIs
<1>6. g.hi <= q.hi
  BY <1>1, <1>2, <1>3, <1>4, GrownIs
<1>7. QED
  BY <1>4, <1>5, <1>6 DEF Inside

\* A region that a round does not change has borders that no chunk crosses.
LEMMA StableBorders ==
    ASSUME SoundMap(map, size, data), size \in 0 .. MaxOffset, MaxOffset \in Nat,
           window \in Nat \ {0}, NEW r, r.lo \in Nat, r.hi \in 0 .. MaxOffset,
           r.lo < r.hi, Grown(r) = r
    PROVE  IsBorder(r.lo) /\ IsBorder(r.hi)
<1>1. map \in Seq(Chunks) /\ r.hi \in Nat /\ r.lo \in 0 .. MaxOffset
  BY DEF SoundMap
<1>2. /\ r.lo % window = 0 /\ r.hi % window = 0
      /\ \A i \in Taken(r) : r.lo <= map[i].lo /\ End(map[i]) <= r.hi
  BY <1>1, GrownIs
<1>3. ASSUME NEW i \in DOMAIN map
      PROVE  /\ ~(map[i].lo < r.lo /\ r.lo < End(map[i]))
             /\ ~(map[i].lo < r.hi /\ r.hi < End(map[i]))
  <2>1. map[i].lo \in Nat /\ End(map[i]) \in Nat
    BY <1>1, ChunkTypes
  <2>2. r.lo < End(map[i]) /\ map[i].lo < r.hi => r.lo <= map[i].lo /\ End(map[i]) <= r.hi
    BY <1>1, <1>2, TakenIs
  <2>3. QED
    BY <1>1, <2>1, <2>2
<1>4. QED
  BY <1>1, <1>2, <1>3 DEF IsBorder

\* Region is the smallest one with such borders around the write.
LEMMA RegionSmallest ==
    ASSUME SoundMap(map, size, data), window \in Nat \ {0}, MaxOffset \in Nat,
           NEW lo \in 0 .. MaxOffset, NEW hi \in 0 .. MaxOffset,
           NEW q, IsBorder(q.lo), IsBorder(q.hi), q.lo <= lo, hi <= q.hi
    PROVE  Fits(hi) /\ Inside(Region(lo, hi), q)
<1> DEFINE L == {x \in Borders : x <= lo}
           H == {x \in Borders : hi <= x}
<1>1. q.lo \in L /\ q.hi \in H
  BY DEF IsBorder, Borders
<1>2. Fits(hi)
  BY <1>1 DEF Fits
<1>3. L \in SUBSET Nat /\ lo \in Nat /\ (\A x \in L : x <= lo) /\ H \in SUBSET Nat
  BY DEF Borders
<1>4. q.lo <= Max(L)
  <2> HIDE DEF L
  <2>1. QED
    BY <1>1, <1>3, MaxIs
<1>5. Min(H) <= q.hi
  <2> HIDE DEF H
  <2>1. QED
    BY <1>1, <1>3, MinIs
<1>6. QED
  BY <1>2, <1>4, <1>5 DEF Inside, Region

\* The regions of the first n rounds of the loop of a write from lo to hi.
Rounds(r, n, lo, hi) ==
    /\ r[1] = [lo |-> Base(lo, window), hi |-> Ceil(hi, window)]
    /\ \A k \in 1 .. n - 1 : r[k + 1] = Grown(r[k])

\* Every round is around the write, and in every region with such borders.
LEMMA RoundsAre ==
    ASSUME SoundMap(map, size, data), size \in 0 .. MaxOffset, MaxOffset \in Nat,
           window \in Nat \ {0}, NEW lo \in 0 .. MaxOffset, NEW hi \in 0 .. MaxOffset,
           NEW n \in Nat, NEW r, Rounds(r, n, lo, hi), NEW k \in 1 .. n
    PROVE  /\ r[k] \in [lo : Nat, hi : Nat] /\ r[k].lo <= lo /\ hi <= r[k].hi
           /\ \A q : /\ IsBorder(q.lo) /\ IsBorder(q.hi) /\ q.lo <= lo /\ hi <= q.hi
                     => Inside(r[k], q)
<1> DEFINE Good(j) ==
               /\ r[j] \in [lo : Nat, hi : Nat] /\ r[j].lo <= lo /\ hi <= r[j].hi
               /\ \A q : /\ IsBorder(q.lo) /\ IsBorder(q.hi) /\ q.lo <= lo /\ hi <= q.hi
                         => Inside(r[j], q)
           Bad == {j \in 1 .. n : ~Good(j)}
<1>1. lo \in Nat /\ hi \in Nat
  OBVIOUS
<1>2. Good(1)
  <2>1. r[1] = [lo |-> Base(lo, window), hi |-> Ceil(hi, window)]
    BY DEF Rounds
  <2>2. /\ r[1].lo \in Nat /\ r[1].lo % window = 0 /\ r[1].lo <= lo /\ lo < r[1].lo + window
        /\ r[1].hi \in Nat /\ r[1].hi % window = 0 /\ hi <= r[1].hi
    BY <1>1, <2>1, BaseOf, CeilOf
  <2>3. r[1].hi <= hi + window - 1
    <3>1. hi + window - 1 \in Nat
      BY <1>1
    <3>2. QED
      BY <2>1, <3>1, BaseOf DEF Ceil
  <2>4. ASSUME NEW q, IsBorder(q.lo), IsBorder(q.hi), q.lo <= lo, hi <= q.hi
        PROVE  Inside(r[1], q)
    <3>1. /\ q.lo \in Nat /\ q.lo % window = 0 /\ q.hi \in Nat /\ q.hi % window = 0
      BY <2>4 DEF IsBorder
    <3>2. CASE r[1].lo < q.lo
      <4>1. r[1].lo + window <= q.lo
        BY <2>2, <3>1, <3>2, Apart
      <4>2. QED
        BY <1>1, <2>2, <2>4, <3>1, <4>1
    <3>3. CASE q.hi < r[1].hi
      <4>1. q.hi + window <= r[1].hi
        BY <2>2, <3>1, <3>3, Apart
      <4>2. QED
        BY <1>1, <2>2, <2>3, <2>4, <3>1, <4>1
    <3>4. QED
      BY <2>2, <3>1, <3>2, <3>3 DEF Inside
  <2>5. r[1] \in [lo : Nat, hi : Nat]
    BY <2>1, <2>2
  <2>6. QED
    BY <2>2, <2>4, <2>5
<1>3. ASSUME NEW j \in 1 .. n - 1, Good(j) PROVE Good(j + 1)
  <2>1. r[j + 1] = Grown(r[j])
    BY DEF Rounds
  <2>2. r[j].lo \in Nat /\ r[j].hi \in Nat /\ r[j].lo <= lo /\ hi <= r[j].hi
    BY <1>3
  <2>3. r[j + 1].lo \in Nat /\ r[j + 1].hi \in Nat /\ Inside(r[j], r[j + 1])
    BY <2>1, <2>2, GrownIs
  <2>4. r[j + 1] \in [lo : Nat, hi : Nat]
    BY <2>1, <2>3 DEF Grown
  <2>5. r[j + 1].lo <= lo /\ hi <= r[j + 1].hi
    BY <1>1, <2>2, <2>3 DEF Inside
  <2>6. ASSUME NEW q, IsBorder(q.lo), IsBorder(q.hi), q.lo <= lo, hi <= q.hi
        PROVE  Inside(r[j + 1], q)
    <3>1. Inside(r[j], q)
      BY <1>3, <2>6
    <3>2. QED
      BY <2>1, <2>2, <2>6, <3>1, GrownInside
  <2>7. QED
    BY <2>4, <2>5, <2>6
<1>4. Bad = {}
  <2>1. SUFFICES ASSUME Bad # {} PROVE FALSE
    OBVIOUS
  <2>2. Bad \in SUBSET Nat
    OBVIOUS
  <2>3. PICK j \in Bad : \A y \in Bad : j <= y
    <3> HIDE DEF Bad
    <3>1. QED
      BY <2>1, <2>2, LeastExists
  <2>4. j \in 1 .. n /\ ~Good(j)
    OBVIOUS
  <2> HIDE DEF Good
  <2>5. j # 1
    BY <1>2, <2>4
  <2>6. PICK h \in 1 .. n - 1 : h + 1 = j
    <3>1. j - 1 \in 1 .. n - 1 /\ (j - 1) + 1 = j
      BY <2>4, <2>5
    <3>2. QED
      BY <3>1
  <2>7. h \notin Bad /\ h \in 1 .. n
    BY <2>3, <2>4, <2>6
  <2>8. QED
    BY <1>3, <2>4, <2>6, <2>7
<1>5. Good(k)
  <2> HIDE DEF Good
  <2>1. QED
    BY <1>4
<1>6. QED
  BY <1>5

\* The loop of myfs_write_locked is what Region and Fits say: if a region fits,
\* no round ends above the largest offset, so that the write is not refused; and
\* when a round changes nothing, there is one that fits and it is Region.
THEOREM LoopGivesRegion ==
    ASSUME SoundMap(map, size, data), size \in 0 .. MaxOffset, window \in Nat \ {0},
           NEW lo \in 0 .. MaxOffset, NEW hi \in 0 .. MaxOffset, lo < hi,
           NEW n \in Nat \ {0}, NEW r, Rounds(r, n, lo, hi)
    PROVE  /\ Fits(hi) => \A k \in 1 .. n : r[k].hi <= MaxOffset
           /\ Grown(r[n]) = r[n] /\ r[n].hi <= MaxOffset
              => Fits(hi) /\ r[n] = Region(lo, hi)
<1>1. MaxOffset \in Nat /\ lo \in Nat /\ hi \in Nat
  BY ConstantsAssumption
<1>2. PICK q : q = Region(lo, hi)
  OBVIOUS
<1>3. ASSUME Fits(hi), NEW k \in 1 .. n PROVE r[k].hi <= MaxOffset
  <2>1. IsBorder(q.lo) /\ IsBorder(q.hi) /\ q.lo <= lo /\ hi <= q.hi
    BY <1>1, <1>2, <1>3, RegionIs
  <2>2. Inside(r[k], q) /\ r[k].hi \in Nat
    BY <1>1, <2>1, RoundsAre
  <2>3. QED
    BY <1>1, <2>1, <2>2 DEF Inside, IsBorder
<1>4. ASSUME Grown(r[n]) = r[n], r[n].hi <= MaxOffset
      PROVE  Fits(hi) /\ r[n] = Region(lo, hi)
  <2>1. n \in 1 .. n
    OBVIOUS
  <2>2. r[n] \in [lo : Nat, hi : Nat] /\ r[n].lo <= lo /\ hi <= r[n].hi
    BY <1>1, <2>1, RoundsAre
  <2>3. r[n].lo \in Nat /\ r[n].hi \in 0 .. MaxOffset /\ r[n].lo < r[n].hi
    BY <1>1, <1>4, <2>2
  <2>4. IsBorder(r[n].lo) /\ IsBorder(r[n].hi)
    BY <1>1, <1>4, <2>3, StableBorders
  <2>5. Fits(hi) /\ Inside(q, r[n])
    BY <1>1, <1>2, <2>2, <2>4, RegionSmallest
  <2>6. IsBorder(q.lo) /\ IsBorder(q.hi) /\ q.lo <= lo /\ hi <= q.hi
    BY <1>1, <1>2, <2>5, RegionIs
  <2>7. Inside(r[n], q)
    BY <1>1, <2>1, <2>6, RoundsAre
  <2>8. q.lo \in Nat /\ q.hi \in Nat
    BY <1>1, <2>6 DEF IsBorder
  <2>9. r[n].lo = q.lo /\ r[n].hi = q.hi
    BY <2>2, <2>5, <2>7, <2>8 DEF Inside
  <2>10. q = [lo |-> q.lo, hi |-> q.hi]
    BY <1>2 DEF Region
  <2>11. r[n] = [lo |-> r[n].lo, hi |-> r[n].hi]
    BY <2>2
  <2>12. QED
    BY <1>2, <2>5, <2>9, <2>10, <2>11
<1>5. QED
  BY <1>3, <1>4

\* The borders of a region are multiples of the window.
OnWindows(r) ==
    /\ r \in [lo : Nat, hi : Nat]
    /\ r.lo % window = 0 /\ r.hi % window = 0

LEMMA GrownAligned ==
    ASSUME SoundMap(map, size, data), size \in 0 .. MaxOffset, MaxOffset \in Nat,
           window \in Nat \ {0}, NEW r, OnWindows(r)
    PROVE  OnWindows(Grown(r)) /\ Inside(r, Grown(r))
<1>1. PICK g : g = Grown(r)
  OBVIOUS
<1>2. r.lo \in Nat /\ r.hi \in Nat
  BY DEF OnWindows
<1>3. g.lo \in Nat /\ g.lo % window = 0 /\ g.hi \in Nat /\ g.hi % window = 0 /\ Inside(r, g)
  BY <1>1, <1>2, GrownIs
<1>4. g \in [lo : Nat, hi : Nat]
  BY <1>1, <1>3 DEF Grown
<1>5. QED
  BY <1>1, <1>3, <1>4 DEF OnWindows

\* A round that takes no chunk beyond the region changes nothing.
LEMMA AlignedStable ==
    ASSUME SoundMap(map, size, data), size \in 0 .. MaxOffset, MaxOffset \in Nat,
           window \in Nat \ {0}, NEW r, OnWindows(r),
           \A i \in Taken(r) : r.lo <= map[i].lo /\ End(map[i]) <= r.hi
    PROVE  Grown(r) = r
<1>1. PICK g : g = Grown(r)
  OBVIOUS
<1>2. /\ r.lo \in Nat /\ r.lo % window = 0 /\ r.lo <= r.lo
      /\ r.hi \in Nat /\ r.hi % window = 0 /\ r.hi <= r.hi
  BY DEF OnWindows
<1>3. /\ g.lo \in Nat /\ g.hi \in Nat /\ Inside(r, g) /\ r.lo <= g.lo /\ g.hi <= r.hi
  BY <1>1, <1>2, GrownIs
<1>4. g.lo = r.lo /\ g.hi = r.hi
  BY <1>2, <1>3 DEF Inside
<1>5. g = [lo |-> g.lo, hi |-> g.hi] /\ r = [lo |-> r.lo, hi |-> r.hi]
  BY <1>1 DEF Grown, OnWindows
<1>6. QED
  BY <1>1, <1>4, <1>5

\* If the next round changes something as well, this one took a chunk more.
LEMMA RoundTakes ==
    ASSUME SoundMap(map, size, data), size \in 0 .. MaxOffset, MaxOffset \in Nat,
           window \in Nat \ {0}, NEW r, OnWindows(r), NEW q, q = Grown(r), Grown(q) # q,
           First(r) < Beyond(r)
    PROVE  Beyond(r) - First(r) < Beyond(q) - First(q)
<1>1. OnWindows(q) /\ Inside(r, q)
  BY GrownAligned
<1>2. /\ r.lo \in Nat /\ r.hi \in Nat /\ q.lo \in Nat /\ q.hi \in Nat
      /\ q.lo <= r.lo /\ r.hi <= q.hi
  BY <1>1 DEF OnWindows, Inside
<1>3. map \in Seq(Chunks) /\ Len(map) \in Nat
  BY DEF SoundMap
<1>4. PICK f \in Nat, b \in Nat : f = First(r) /\ b = Beyond(r)
  BY <1>2, <1>3, FirstIs, BeyondIs
<1>5. PICK y \in Nat, z \in Nat : y = First(q) /\ z = Beyond(q) /\ y <= z
  BY <1>2, <1>3, FirstIs, BeyondIs
<1>6. Taken(r) = f .. b - 1 /\ Taken(q) = y .. z - 1
  BY <1>4, <1>5 DEF Taken
<1>7. \A i \in f .. b - 1 : i \in y .. z - 1
  <2>1. ASSUME NEW i \in Taken(r) PROVE i \in Taken(q)
    <3>1. i \in DOMAIN map /\ r.lo < End(map[i]) /\ map[i].lo < r.hi
      BY <1>2, TakenIs
    <3>2. map[i].lo \in Nat /\ End(map[i]) \in Nat
      BY <1>3, <3>1, ChunkTypes
    <3>3. q.lo < End(map[i]) /\ map[i].lo < q.hi
      BY <1>2, <3>1, <3>2
    <3>4. QED
      BY <1>2, <3>1, <3>3, TakenIs
  <2>2. QED
    BY <1>6, <2>1
<1>8. f \in f .. b - 1 /\ b - 1 \in f .. b - 1
  BY <1>4
<1>9. y <= f /\ b <= z
  BY <1>4, <1>5, <1>7, <1>8
<1>10. ~(y = f /\ z = b)
  <2>1. SUFFICES ASSUME y = f, z = b PROVE FALSE
    OBVIOUS
  <2>2. \A i \in Taken(q) : q.lo <= map[i].lo /\ End(map[i]) <= q.hi
    BY <1>2, <1>6, <2>1, GrownIs
  <2>3. QED
    BY <1>1, <2>2, AlignedStable
<1>11. QED
  BY <1>4, <1>5, <1>9, <1>10

(***************************************************************************)
(* The loop ends: every round that changes the region has taken a chunk    *)
(* more than the one before, so no more rounds than the map has chunks can *)
(* change it, and the guard that returns EIO after num_chunks + 2 of them  *)
(* never does (file.c:981-990).                                            *)
(***************************************************************************)
THEOREM LoopEnds ==
    ASSUME SoundMap(map, size, data), size \in 0 .. MaxOffset, window \in Nat \ {0},
           NEW lo \in 0 .. MaxOffset, NEW hi \in 0 .. MaxOffset,
           NEW n \in Nat \ {0}, NEW r, Rounds(r, n, lo, hi),
           \A k \in 1 .. n : Grown(r[k]) # r[k]
    PROVE  n <= Len(map)
<1> DEFINE Good(j) == OnWindows(r[j]) /\ j <= Beyond(r[j]) - First(r[j])
           Bad == {j \in 1 .. n : ~Good(j)}
<1>1. MaxOffset \in Nat /\ lo \in Nat /\ hi \in Nat /\ Len(map) \in Nat
  BY ConstantsAssumption DEF SoundMap
<1>2. ASSUME NEW j \in 1 .. n, OnWindows(r[j])
      PROVE  /\ First(r[j]) \in 1 .. Len(map) + 1 /\ Beyond(r[j]) \in First(r[j]) .. Len(map) + 1
             /\ First(r[j]) < Beyond(r[j])
  <2>1. r[j].lo \in Nat /\ r[j].hi \in Nat
    BY <1>2 DEF OnWindows
  <2>2. First(r[j]) \in 1 .. Len(map) + 1 /\ Beyond(r[j]) \in First(r[j]) .. Len(map) + 1
    BY <2>1, FirstIs, BeyondIs
  <2>3. PICK f \in Nat, b \in Nat : f = First(r[j]) /\ b = Beyond(r[j]) /\ f <= b
    BY <1>1, <2>2
  <2>4. CASE f = b
    <3>1. Taken(r[j]) = {}
      BY <2>3, <2>4 DEF Taken
    <3>2. Grown(r[j]) = r[j]
      BY <1>1, <1>2, <3>1, AlignedStable
    <3>3. QED
      BY <1>2, <3>2
  <2>5. QED
    BY <2>2, <2>3, <2>4
<1>3. Good(1)
  <2>1. r[1] = [lo |-> Base(lo, window), hi |-> Ceil(hi, window)]
    BY DEF Rounds
  <2>2. OnWindows(r[1])
    BY <1>1, <2>1, BaseOf, CeilOf DEF OnWindows
  <2>3. 1 \in 1 .. n
    OBVIOUS
  <2>4. QED
    BY <1>1, <1>2, <2>2, <2>3
<1>4. ASSUME NEW j \in 1 .. n - 1, Good(j) PROVE Good(j + 1)
  <2>1. r[j + 1] = Grown(r[j]) /\ j \in 1 .. n /\ j + 1 \in 1 .. n
    BY DEF Rounds
  <2>2. OnWindows(r[j]) /\ j <= Beyond(r[j]) - First(r[j])
    BY <1>4
  <2>3. OnWindows(r[j + 1])
    BY <1>1, <2>1, <2>2, GrownAligned
  <2>4. /\ First(r[j]) < Beyond(r[j]) /\ First(r[j]) \in Nat /\ Beyond(r[j]) \in Nat
        /\ First(r[j + 1]) \in Nat /\ Beyond(r[j + 1]) \in Nat
    BY <1>1, <1>2, <2>1, <2>2, <2>3
  <2>5. Grown(r[j + 1]) # r[j + 1]
    BY <2>1
  <2>6. Beyond(r[j]) - First(r[j]) < Beyond(r[j + 1]) - First(r[j + 1])
    BY <1>1, <2>1, <2>2, <2>4, <2>5, RoundTakes
  <2>7. j + 1 <= Beyond(r[j + 1]) - First(r[j + 1])
    BY <2>2, <2>4, <2>6
  <2>8. QED
    BY <2>3, <2>7
<1>5. Bad = {}
  <2>1. SUFFICES ASSUME Bad # {} PROVE FALSE
    OBVIOUS
  <2>2. Bad \in SUBSET Nat
    OBVIOUS
  <2>3. PICK j \in Bad : \A y \in Bad : j <= y
    <3> HIDE DEF Bad
    <3>1. QED
      BY <2>1, <2>2, LeastExists
  <2>4. j \in 1 .. n /\ ~Good(j)
    OBVIOUS
  <2> HIDE DEF Good
  <2>5. j # 1
    BY <1>3, <2>4
  <2>6. PICK h \in 1 .. n - 1 : h + 1 = j
    <3>1. j - 1 \in 1 .. n - 1 /\ (j - 1) + 1 = j
      BY <2>4, <2>5
    <3>2. QED
      BY <3>1
  <2>7. h \notin Bad /\ h \in 1 .. n
    BY <2>3, <2>4, <2>6
  <2>8. QED
    BY <1>4, <2>4, <2>6, <2>7
<1>6. n \in 1 .. n
  OBVIOUS
<1>7. Good(n)
  <2> HIDE DEF Good
  <2>1. QED
    BY <1>5, <1>6
<1>8. /\ First(r[n]) \in 1 .. Len(map) + 1 /\ Beyond(r[n]) \in First(r[n]) .. Len(map) + 1
  BY <1>2, <1>6, <1>7
<1>9. QED
  BY <1>1, <1>7, <1>8

-----------------------------------------------------------------------------
(* New chunks in place of old ones.                                        *)

\* The file has zeros where c has a hole between lo and hi.
ZeroInHoles(c, lo, hi, bytes) == \A p \in lo .. hi - 1 : Hole(c, p) => bytes[p] = 0

Within(c, lo, hi) == \A i \in DOMAIN c : lo <= c[i].lo /\ End(c[i]) <= hi

\* The window buffers hold the bytes of the file.
Gives(s, patch, lo, hi, bytes) == \A p \in lo .. hi - 1 : ByteAt(s, patch, p) = bytes[p]

\* Repacked chunks are a packed map that leads to the bytes of the windows.
LEMMA RepackedSound ==
    ASSUME NEW s, NEW n \in Nat, SoundMap(s, n, data), NEW patch \in Patches,
           NEW w \in Nat \ {0}, NEW lo \in Nat, NEW hi \in Nat,
           NEW d \in Seq(Seq(Byte)), NEW eof, eof = Len(d),
           NEW out, Repacked(out, s, lo, hi, w, patch, eof, n),
           NEW k \in Nat, n <= k, patch.hi <= k,
           NEW bytes, Gives(s, patch, lo, hi, bytes)
    PROVE  /\ SoundMap(out.chunks, k, d \o out.blobs)
           /\ Agrees(out.chunks, d \o out.blobs, bytes)
           /\ ZeroInHoles(out.chunks, lo, hi, bytes)
           /\ Within(out.chunks, lo, hi) /\ Aligned(out.chunks, w)
<1>1. PICK c, e : c = out.chunks /\ e = out.blobs
  OBVIOUS
<1>2. /\ c \in Seq(Chunks) /\ e \in Seq(Seq(Byte)) /\ Len(c) = Len(e)
      /\ \A i, j \in DOMAIN c : i < j => c[i].lo < c[j].lo
  BY <1>1 DEF Repacked
<1>3. /\ DOMAIN c = 1 .. Len(c) /\ Len(c) \in Nat /\ Len(d) \in Nat
  BY <1>2
<1>4. /\ d \o e \in Seq(Seq(Byte)) /\ DOMAIN (d \o e) = 1 .. Len(d) + Len(e)
      /\ \A i \in DOMAIN c : eof + i \in DOMAIN (d \o e) /\ (d \o e)[eof + i] = e[i]
  <2>1. /\ d \o e \in Seq(Seq(Byte)) /\ Len(d \o e) = Len(d) + Len(e)
        /\ \A i \in 1 .. Len(d) + Len(e) : (d \o e)[i] = IF i <= Len(d) THEN d[i] ELSE e[i - Len(d)]
    BY <1>2, ConcatProperties
  <2>2. DOMAIN (d \o e) = 1 .. Len(d) + Len(e)
    BY <2>1
  <2>3. ASSUME NEW i \in DOMAIN c
        PROVE  eof + i \in DOMAIN (d \o e) /\ (d \o e)[eof + i] = e[i]
    <3>1. PICK j \in 1 .. Len(d) + Len(e) : j = eof + i
      <4>1. i \in 1 .. Len(e) /\ Len(e) \in Nat /\ Len(d) \in Nat
        BY <1>2, <1>3
      <4>2. QED
        BY <4>1
    <3>2. j > Len(d) /\ j - Len(d) = i
      BY <1>3, <3>1
    <3>3. (d \o e)[j] = e[j - Len(d)]
      BY <1>3, <2>1, <3>1, <3>2
    <3>4. QED
      BY <2>2, <3>1, <3>2, <3>3
  <2>4. QED
    BY <2>1, <2>2, <2>3
<1>5. ASSUME NEW i \in DOMAIN c
      PROVE  /\ lo <= c[i].lo /\ End(c[i]) <= hi /\ End(c[i]) <= k /\ c[i].lo % w = 0
             /\ 0 < c[i].len /\ c[i].len <= w /\ c[i].blob = eof + i
             /\ Len(e[i]) = c[i].len /\ c[i].lo \in Nat /\ c[i].len \in Nat
             /\ End(c[i]) = c[i].lo + c[i].len
             /\ \A p \in Nat : Covers(c[i], p) => e[i][p - c[i].lo + 1] = ByteAt(s, patch, p)
  <2>1. /\ lo <= c[i].lo /\ End(c[i]) <= hi /\ c[i].lo % w = 0
        /\ 0 < c[i].len /\ c[i].len <= w /\ c[i].blob = eof + i
        /\ Len(e[i]) = c[i].len
        /\ End(c[i]) <= n \/ End(c[i]) <= patch.hi
        /\ \A p \in Nat : Covers(c[i], p) => e[i][p - c[i].lo + 1] = ByteAt(s, patch, p)
    BY <1>1 DEF Repacked
  <2>2. /\ c[i].lo \in Nat /\ c[i].len \in Nat /\ End(c[i]) \in Nat
        /\ End(c[i]) = c[i].lo + c[i].len
    BY <1>2, ChunkTypes
  <2>3. patch.hi \in Nat
    BY ConstantsAssumption DEF Patches
  <2>4. End(c[i]) <= k
    BY <2>1, <2>2, <2>3
  <2>5. QED
    BY <2>1, <2>2, <2>4
<1>6. ASSUME NEW i \in DOMAIN c, NEW j \in DOMAIN c, i < j PROVE End(c[i]) <= c[j].lo
  <2>1. c[i].lo + w <= c[j].lo
    BY <1>2, <1>5, <1>6, Apart
  <2>2. /\ c[i].lo \in Nat /\ c[i].len \in Nat /\ c[j].lo \in Nat
        /\ End(c[i]) = c[i].lo + c[i].len /\ c[i].len <= w
    BY <1>5
  <2>3. QED
    BY <2>1, <2>2
<1>7. SoundMap(c, k, d \o e)
  <2>1. ASSUME NEW i \in DOMAIN c
        PROVE  c[i].blob \in DOMAIN (d \o e) /\ c[i].len <= Len((d \o e)[c[i].blob])
    <3>1. c[i].blob \in DOMAIN (d \o e) /\ (d \o e)[c[i].blob] = e[i]
      BY <1>4, <1>5
    <3>2. QED
      BY <1>5, <3>1
  <2>2. QED
    BY <1>2, <1>4, <1>5, <1>6, <2>1 DEF SoundMap
<1>8. Agrees(c, d \o e, bytes)
  <2>1. SUFFICES ASSUME NEW i \in DOMAIN c, NEW p \in 0 .. MaxOffset, Covers(c[i], p)
                 PROVE  PayloadByte(c[i], p, d \o e) = bytes[p]
    BY DEF Agrees
  <2>2. p \in Nat /\ c[i].lo <= p /\ p < End(c[i])
    BY <2>1, ConstantsAssumption DEF Covers
  <2>3. p \in lo .. hi - 1
    <3>1. lo <= c[i].lo /\ End(c[i]) <= hi /\ c[i].lo \in Nat /\ End(c[i]) \in Nat
      <4>1. lo <= c[i].lo /\ End(c[i]) <= hi /\ c[i].lo \in Nat /\ c[i].len \in Nat
            /\ End(c[i]) = c[i].lo + c[i].len
        BY <1>5
      <4>2. QED
        BY <4>1
    <3>2. QED
      BY <2>2, <3>1
  <2>4. PayloadByte(c[i], p, d \o e) = e[i][p - c[i].lo + 1]
    BY <1>4, <1>5 DEF PayloadByte
  <2>5. e[i][p - c[i].lo + 1] = ByteAt(s, patch, p)
    BY <1>5, <2>1, <2>2
  <2>6. QED
    BY <2>3, <2>4, <2>5 DEF Gives
<1>9. Aligned(c, w)
  BY <1>5 DEF Aligned
<1>10. ZeroInHoles(c, lo, hi, bytes)
  <2>1. SUFFICES ASSUME NEW p \in lo .. hi - 1, Hole(c, p) PROVE bytes[p] = 0
    BY DEF ZeroInHoles
  <2>2. ~InPatch(patch, p) /\ Hole(s, p)
    BY <1>1, <2>1 DEF Repacked, Source
  <2>3. ByteAt(s, patch, p) = 0
    <3>1. p \in Nat
      OBVIOUS
    <3>2. QED
      BY <2>2, <3>1, ByteAtIs
  <2>4. QED
    BY <2>3 DEF Gives
<1>11. Within(c, lo, hi)
  BY <1>5 DEF Within
<1>12. QED
  BY <1>1, <1>7, <1>8, <1>9, <1>10, <1>11

\* What is repacked is what the file has there.
LEMMA RegionBytes ==
    ASSUME SoundMap(map, size, data), Holds(map, data, content),
           NEW a, NEW b, NEW lo \in Nat, NEW hi \in Nat, hi <= MaxOffset + 1,
           Splits(map, a, b, lo, hi), NEW z \in Nat, z = b - 1,
           NEW s, SoundMap(s, size, data), IsSegment(s, map, a, z),
           NEW patch \in Patches, NEW p \in lo .. hi - 1, ~InPatch(patch, p)
    PROVE  ByteAt(s, patch, p) = content[p]
<1>1. /\ map \in Seq(Chunks) /\ DOMAIN map = 1 .. Len(map) /\ Len(map) \in Nat
      /\ MaxOffset \in Nat /\ p \in 0 .. MaxOffset /\ p \in Nat
  BY ConstantsAssumption DEF SoundMap
<1>2. a \in Nat \ {0} /\ b \in Nat
  BY <1>1 DEF Splits
<1>3. IsSegment(s, map, a, z)
  OBVIOUS
<1>4. CASE Hole(s, p)
  <2>1. ASSUME NEW j \in DOMAIN map, Covers(map[j], p) PROVE FALSE
    <3>1. /\ map[j].lo <= p /\ p < End(map[j]) /\ map[j].lo \in Nat /\ End(map[j]) \in Nat
      BY <1>1, <2>1, ChunkTypes DEF Covers
    <3>2. a <= j /\ j <= z
      <4>1. ~(j < a)
        BY <3>1 DEF Splits
      <4>2. ~(b <= j)
        BY <3>1 DEF Splits
      <4>3. QED
        BY <1>1, <1>2, <4>1, <4>2
    <3>3. PICK i \in DOMAIN s : s[i] = map[j]
      BY <1>3, <3>2 DEF IsSegment
    <3>4. QED
      BY <1>4, <2>1, <3>3 DEF Hole
  <2>2. content[p] = 0
    BY <1>1, <2>1 DEF Holds, Hole
  <2>3. ByteAt(s, patch, p) = 0
    BY <1>1, <1>3, <1>4, ByteAtIs
  <2>4. QED
    BY <2>2, <2>3
<1>5. CASE ~Hole(s, p)
  <2>1. PICK i \in DOMAIN s : Covers(s[i], p)
    BY <1>5 DEF Hole
  <2>2. ByteAt(s, patch, p) = PayloadByte(s[i], p, data)
    BY <1>1, <1>3, <2>1, ByteAtIs
  <2>3. PICK j \in DOMAIN map : s[i] = map[j]
    BY <1>3 DEF IsSegment
  <2>4. PayloadByte(map[j], p, data) = content[p]
    BY <1>1, <2>1, <2>3 DEF Holds
  <2>5. QED
    BY <2>2, <2>3, <2>4
<1>6. QED
  BY <1>4, <1>5

\* m is old with the chunks of c in place of those from a to b - 1.
Spliced(m, old, a, b, c) ==
    /\ \A i \in DOMAIN m : \/ \E j \in DOMAIN old : (j < a \/ b <= j) /\ m[i] = old[j]
                           \/ \E j \in DOMAIN c : m[i] = c[j]
    /\ \A j \in DOMAIN old : j < a \/ b <= j => \E i \in DOMAIN m : m[i] = old[j]
    /\ \A j \in DOMAIN c : \E i \in DOMAIN m : m[i] = c[j]

LEMMA SpliceIs ==
    ASSUME NEW old, NEW n, NEW d, SoundMap(old, n, d), NEW a, NEW b,
           NEW lo \in Nat, NEW hi \in Nat, lo <= hi, Splits(old, a, b, lo, hi),
           NEW c, SoundMap(c, n, d), Within(c, lo, hi)
    PROVE  LET m == SubSeq(old, 1, a - 1) \o c \o SubSeq(old, b, Len(old))
           IN  SoundMap(m, n, d) /\ Spliced(m, old, a, b, c)
<1>1. /\ old \in Seq(Chunks) /\ DOMAIN old = 1 .. Len(old) /\ Len(old) \in Nat
      /\ c \in Seq(Chunks)
  BY DEF SoundMap
<1>2. /\ a \in 1 .. Len(old) + 1 /\ b \in a .. Len(old) + 1
      /\ a \in Nat \ {0} /\ b \in Nat \ {0}
  BY <1>1 DEF Splits
<1>3. PICK z \in Nat : z = a - 1 /\ z <= Len(old)
  BY <1>1, <1>2
<1>4. PICK u, v : u = SubSeq(old, 1, z) /\ v = SubSeq(old, b, Len(old))
  OBVIOUS
<1>5. SoundMap(u, n, d) /\ IsSegment(u, old, 1, z)
  <2>1. u = SubSeq(old, 1, z)
    BY <1>4
  <2>2. 1 \in Nat \ {0} /\ z \in Nat /\ z <= Len(old)
    BY <1>3
  <2>3. QED
    BY <2>1, <2>2, SegmentIs
<1>6. SoundMap(v, n, d) /\ IsSegment(v, old, b, Len(old))
  <2>1. PICK l \in Nat : l = Len(old)
    BY <1>1
  <2>2. v = SubSeq(old, b, l) /\ l <= Len(old) /\ b \in Nat \ {0}
    BY <1>2, <1>4, <2>1
  <2>3. SoundMap(v, n, d) /\ IsSegment(v, old, b, l)
    BY <2>2, SegmentIs
  <2>4. QED
    BY <2>1, <2>3
<1>7. ASSUME NEW i \in DOMAIN u
      PROVE  End(u[i]) <= lo /\ End(u[i]) \in Nat /\ \E j \in DOMAIN old : j < a /\ u[i] = old[j]
  <2>1. PICK j \in DOMAIN old : j <= z /\ u[i] = old[j]
    BY <1>5 DEF IsSegment
  <2>2. j < a
    BY <1>1, <1>2, <1>3, <2>1
  <2>3. End(old[j]) <= lo
    BY <2>2 DEF Splits
  <2>4. End(old[j]) \in Nat
    BY <1>1, ChunkTypes
  <2>5. QED
    BY <2>1, <2>2, <2>3, <2>4
<1>8. ASSUME NEW i \in DOMAIN v
      PROVE  hi <= v[i].lo /\ v[i].lo \in Nat /\ \E j \in DOMAIN old : b <= j /\ v[i] = old[j]
  <2>1. PICK j \in DOMAIN old : b <= j /\ v[i] = old[j]
    BY <1>6 DEF IsSegment
  <2>2. hi <= old[j].lo
    BY <2>1 DEF Splits
  <2>3. old[j].lo \in Nat
    BY <1>1, ChunkTypes
  <2>4. QED
    BY <2>1, <2>2, <2>3
<1>9. ASSUME NEW i \in DOMAIN c
      PROVE  lo <= c[i].lo /\ End(c[i]) <= hi /\ c[i].lo \in Nat /\ End(c[i]) \in Nat
  <2>1. c[i].lo \in Nat /\ End(c[i]) \in Nat
    BY <1>1, ChunkTypes
  <2>2. QED
    BY <2>1 DEF Within
<1>10. PICK uc : uc = u \o c
  OBVIOUS
<1>11. Precedes(u, c)
  BY <1>7, <1>9 DEF Precedes
<1>12. SoundMap(uc, n, d) /\ HasBoth(uc, u, c)
  BY <1>5, <1>10, <1>11, JoinIs
<1>13. Precedes(uc, v)
  <2>1. ASSUME NEW i \in DOMAIN uc, NEW j \in DOMAIN v PROVE End(uc[i]) <= v[j].lo
    <3>1. CASE \E k \in DOMAIN u : uc[i] = u[k]
      BY <1>7, <1>8, <3>1
    <3>2. CASE \E k \in DOMAIN c : uc[i] = c[k]
      BY <1>8, <1>9, <3>2
    <3>3. QED
      BY <1>12, <3>1, <3>2 DEF HasBoth
  <2>2. QED
    BY <2>1 DEF Precedes
<1>14. PICK m : m = uc \o v
  OBVIOUS
<1>15. SoundMap(m, n, d) /\ HasBoth(m, uc, v)
  BY <1>6, <1>12, <1>13, <1>14, JoinIs
<1>16. ASSUME NEW i \in DOMAIN m
       PROVE  \/ \E j \in DOMAIN old : (j < a \/ b <= j) /\ m[i] = old[j]
              \/ \E j \in DOMAIN c : m[i] = c[j]
  <2>1. CASE \E k \in DOMAIN uc : m[i] = uc[k]
    <3>1. PICK k \in DOMAIN uc : m[i] = uc[k]
      BY <2>1
    <3>2. (\E j \in DOMAIN u : uc[k] = u[j]) \/ (\E j \in DOMAIN c : uc[k] = c[j])
      BY <1>12 DEF HasBoth
    <3>3. QED
      BY <1>7, <3>1, <3>2
  <2>2. CASE \E k \in DOMAIN v : m[i] = v[k]
    BY <1>8, <2>2
  <2>3. QED
    BY <1>15, <2>1, <2>2 DEF HasBoth
<1>17. ASSUME NEW j \in DOMAIN old, j < a \/ b <= j PROVE \E i \in DOMAIN m : m[i] = old[j]
  <2>1. CASE j < a
    <3>1. 1 <= j /\ j <= z
      BY <1>1, <1>2, <1>3, <2>1
    <3>2. PICK k \in DOMAIN u : u[k] = old[j]
      BY <1>5, <3>1 DEF IsSegment
    <3>3. PICK l \in DOMAIN uc : uc[l] = u[k]
      BY <1>12 DEF HasBoth
    <3>4. PICK i \in DOMAIN m : m[i] = uc[l]
      BY <1>15 DEF HasBoth
    <3>5. QED
      BY <3>2, <3>3, <3>4
  <2>2. CASE b <= j
    <3>1. j <= Len(old)
      BY <1>1
    <3>2. PICK k \in DOMAIN v : v[k] = old[j]
      BY <1>6, <2>2, <3>1 DEF IsSegment
    <3>3. PICK i \in DOMAIN m : m[i] = v[k]
      BY <1>15 DEF HasBoth
    <3>4. QED
      BY <3>2, <3>3
  <2>3. QED
    BY <1>17, <2>1, <2>2
<1>18. ASSUME NEW j \in DOMAIN c PROVE \E i \in DOMAIN m : m[i] = c[j]
  <2>1. PICK l \in DOMAIN uc : uc[l] = c[j]
    BY <1>12 DEF HasBoth
  <2>2. PICK i \in DOMAIN m : m[i] = uc[l]
    BY <1>15 DEF HasBoth
  <2>3. QED
    BY <2>1, <2>2
<1>19. Spliced(m, old, a, b, c)
  BY <1>16, <1>17, <1>18 DEF Spliced
<1>20. m = SubSeq(old, 1, a - 1) \o c \o SubSeq(old, b, Len(old))
  BY <1>3, <1>4, <1>10, <1>14
<1>21. QED
  BY <1>15, <1>19, <1>20

\* The bytes are the same before lo and from hi on.
SameOutside(b1, b0, lo, hi) == \A p \in 0 .. MaxOffset : p \notin lo .. hi - 1 => b1[p] = b0[p]

\* It leads to the new bytes in the region and to the old ones elsewhere.
LEMMA SplicedHolds ==
    ASSUME NEW old, NEW n, NEW d, NEW d0, SoundMap(old, n, d), SameBytes(old, d0, d),
           NEW b0, Holds(old, d0, b0),
           NEW a, NEW b, NEW lo \in Nat, NEW hi \in Nat, lo <= hi, Splits(old, a, b, lo, hi),
           NEW c, NEW b1, Agrees(c, d, b1), Within(c, lo, hi), ZeroInHoles(c, lo, hi, b1),
           SameOutside(b1, b0, lo, hi),
           NEW m, Spliced(m, old, a, b, c)
    PROVE  Holds(m, d, b1)
<1>1. /\ old \in Seq(Chunks) /\ DOMAIN old = 1 .. Len(old) /\ Len(old) \in Nat
      /\ a \in Nat /\ b \in Nat /\ MaxOffset \in Nat
  BY ConstantsAssumption DEF SoundMap, Splits
<1>2. ASSUME NEW i \in DOMAIN m, NEW p \in 0 .. MaxOffset, Covers(m[i], p)
      PROVE  PayloadByte(m[i], p, d) = b1[p]
  <2>1. CASE \E j \in DOMAIN c : m[i] = c[j]
    BY <1>2, <2>1 DEF Agrees
  <2>2. CASE \E j \in DOMAIN old : (j < a \/ b <= j) /\ m[i] = old[j]
    <3>1. PICK j \in DOMAIN old : (j < a \/ b <= j) /\ m[i] = old[j]
      BY <2>2
    <3>2. /\ old[j].lo \in Nat /\ End(old[j]) \in Nat /\ p \in Nat
          /\ old[j].lo <= p /\ p < End(old[j])
      BY <1>1, <1>2, <3>1, ChunkTypes DEF Covers
    <3>3. End(old[j]) <= lo \/ hi <= old[j].lo
      BY <3>1 DEF Splits
    <3>4. p \notin lo .. hi - 1
      BY <3>2, <3>3
    <3>5. b1[p] = b0[p]
      BY <3>4 DEF SameOutside
    <3>6. PayloadByte(old[j], p, d) = PayloadByte(old[j], p, d0)
      BY DEF SameBytes
    <3>7. PayloadByte(old[j], p, d0) = b0[p]
      BY <1>2, <3>1 DEF Holds
    <3>8. QED
      BY <3>1, <3>5, <3>6, <3>7
  <2>3. QED
    BY <2>1, <2>2 DEF Spliced
<1>3. ASSUME NEW p \in 0 .. MaxOffset, Hole(m, p) PROVE b1[p] = 0
  <2>1. CASE p \in lo .. hi - 1
    <3>1. Hole(c, p)
      <4>1. SUFFICES ASSUME NEW j \in DOMAIN c PROVE ~Covers(c[j], p)
        BY DEF Hole
      <4>2. PICK i \in DOMAIN m : m[i] = c[j]
        BY DEF Spliced
      <4>3. QED
        BY <1>3, <4>2 DEF Hole
    <3>2. QED
      BY <2>1, <3>1 DEF ZeroInHoles
  <2>2. CASE p \notin lo .. hi - 1
    <3>1. ASSUME NEW j \in DOMAIN old, Covers(old[j], p) PROVE FALSE
      <4>1. /\ old[j].lo \in Nat /\ End(old[j]) \in Nat /\ p \in Nat
            /\ old[j].lo <= p /\ p < End(old[j])
        BY <1>1, <3>1, ChunkTypes DEF Covers
      <4>2. ~(lo <= old[j].lo /\ End(old[j]) <= hi)
        BY <2>2, <4>1
      <4>3. j < a \/ b <= j
        BY <1>1, <4>2 DEF Splits
      <4>4. PICK i \in DOMAIN m : m[i] = old[j]
        BY <4>3 DEF Spliced
      <4>5. QED
        BY <1>3, <3>1, <4>4 DEF Hole
    <3>2. b0[p] = 0
      BY <3>1 DEF Holds, Hole
    <3>3. QED
      BY <2>2, <3>2 DEF SameOutside
  <2>3. QED
    BY <2>1, <2>2
<1>4. QED
  BY <1>2, <1>3 DEF Holds

\* The bytes after a write.
Patched(bytes, lo, hi, byte) ==
    [p \in 0 .. MaxOffset |-> IF lo <= p /\ p < hi THEN byte ELSE bytes[p]]

\* What a write makes of its region, and the map it leaves.
WriteOut(lo, hi, byte) ==
    LET r == Region(lo, hi)
    IN  Repack(Consumed(r), r.lo, r.hi, window, Patch(lo, hi, byte), Eof)

WriteMap(lo, hi, byte) ==
    LET r == Region(lo, hi)
    IN  SubSeq(map, 1, First(r) - 1) \o WriteOut(lo, hi, byte).chunks
            \o SubSeq(map, Beyond(r), Len(map))

\* Appending to the data file.
LEMMA AppendedIs ==
    ASSUME data \in Seq(Seq(Byte)), NEW blobs
    PROVE  Appended(Eof, blobs) = data \o blobs
<1>1. SubSeq(data, 1, Len(data)) = data
  BY SubSeqFull
<1>2. QED
  BY <1>1 DEF Appended, Eof

\* A write leaves a sound file that leads to the bytes written and to the others
\* as they were, and a packed file packed.
LEMMA WriteSound ==
    ASSUME SoundFile(map, window, data, size, content),
           NEW lo \in 0 .. MaxOffset, NEW hi \in 0 .. MaxOffset, lo < hi, Fits(hi),
           NEW byte \in Byte
    PROVE  /\ SoundFile(WriteMap(lo, hi, byte), window, data \o WriteOut(lo, hi, byte).blobs,
                        Max({size, hi}), Patched(content, lo, hi, byte))
           /\ Aligned(map, window) => Aligned(WriteMap(lo, hi, byte), window)
           /\ WriteOut(lo, hi, byte).blobs \in Seq(Seq(Byte))
<1>1. /\ MaxOffset \in Nat /\ size \in 0 .. MaxOffset /\ window \in Nat \ {0}
      /\ SoundMap(map, size, data) /\ Holds(map, data, content)
      /\ content \in [0 .. MaxOffset -> Byte]
  BY ConstantsAssumption DEF SoundFile
<1>2. /\ map \in Seq(Chunks) /\ data \in Seq(Seq(Byte)) /\ Len(map) \in Nat /\ Len(data) \in Nat
      /\ lo \in Nat /\ hi \in Nat /\ size \in Nat /\ DOMAIN map = 1 .. Len(map)
  BY <1>1 DEF SoundMap
<1>3. PICK r : r = Region(lo, hi)
  OBVIOUS
<1>4. PICK x \in Nat, y \in Nat :
          /\ x = r.lo /\ y = r.hi /\ x <= lo /\ hi <= y /\ y <= MaxOffset
          /\ x % window = 0 /\ y % window = 0 /\ IsBorder(r.lo) /\ IsBorder(r.hi)
  <2>1. IsBorder(r.lo) /\ IsBorder(r.hi) /\ r.lo <= lo /\ hi <= r.hi
    BY <1>1, <1>3, RegionIs
  <2>2. r.lo \in Nat /\ r.hi \in Nat /\ r.hi <= MaxOffset /\ r.lo % window = 0 /\ r.hi % window = 0
    BY <1>1, <2>1 DEF IsBorder
  <2>3. QED
    BY <2>1, <2>2
<1>5. PICK a, b : a = First(r) /\ b = Beyond(r)
  OBVIOUS
<1>6. Splits(map, a, b, x, y) /\ x <= y
  <2>1. r.lo <= r.hi
    BY <1>2, <1>4
  <2>2. QED
    BY <1>1, <1>4, <1>5, <2>1, ConsumedIs
<1>7. a \in Nat \ {0} /\ b - 1 \in Nat /\ b - 1 <= Len(map)
  BY <1>2, <1>6 DEF Splits
<1>8. PICK s : s = SubSeq(map, a, b - 1)
  OBVIOUS
<1>9. PICK z \in Nat : z = b - 1 /\ SoundMap(s, size, data) /\ IsSegment(s, map, a, z)
  <2>1. PICK z \in Nat : z = b - 1
    BY <1>7
  <2>2. s = SubSeq(map, a, z) /\ z <= Len(map)
    BY <1>7, <1>8, <2>1
  <2>3. SoundMap(s, size, data) /\ IsSegment(s, map, a, z)
    BY <1>1, <1>7, <2>2, SegmentIs
  <2>4. QED
    BY <2>1, <2>3
<1>10. PICK patch \in Patches : /\ patch = Patch(lo, hi, byte)
                                /\ patch.lo = lo /\ patch.hi = hi /\ patch.byte = byte
  <2>1. PICK q : q = Patch(lo, hi, byte)
    OBVIOUS
  <2>2. q \in Patches /\ q.lo = lo /\ q.hi = hi /\ q.byte = byte
    BY <2>1 DEF Patch, Patches
  <2>3. QED
    BY <2>1, <2>2
<1>11. PICK out : out = WriteOut(lo, hi, byte)
  OBVIOUS
<1>12. out = Repack(s, x, y, window, patch, Len(data))
  BY <1>3, <1>4, <1>5, <1>8, <1>10, <1>11 DEF WriteOut, Consumed, Eof
<1>13. Repacked(out, s, x, y, window, patch, Len(data), size)
  BY <1>1, <1>2, <1>4, <1>9, <1>12, RepackIs
<1>14. PICK c, e : c = out.chunks /\ e = out.blobs
  OBVIOUS
<1>15. e \in Seq(Seq(Byte))
  BY <1>13, <1>14 DEF Repacked
<1>16. PICK n \in Nat : n = Max({size, hi}) /\ n \in 0 .. MaxOffset /\ size <= n /\ hi <= n
  <2>1. {size, hi} \in SUBSET Nat /\ {size, hi} # {} /\ \A q \in {size, hi} : q <= MaxOffset
    BY <1>1, <1>2
  <2>2. Max({size, hi}) \in {size, hi} /\ \A q \in {size, hi} : q <= Max({size, hi})
    BY <1>1, <2>1, MaxIs
  <2>3. QED
    BY <1>1, <1>2, <2>1, <2>2
<1>17. PICK bytes : bytes = Patched(content, lo, hi, byte)
  OBVIOUS
<1>18. /\ bytes \in [0 .. MaxOffset -> Byte]
       /\ \A p \in 0 .. MaxOffset :
              bytes[p] = IF lo <= p /\ p < hi THEN byte ELSE content[p]
  BY <1>1, <1>17 DEF Patched
<1>19. SameOutside(bytes, content, x, y)
  <2>1. SUFFICES ASSUME NEW p \in 0 .. MaxOffset, p \notin x .. y - 1
                 PROVE  bytes[p] = content[p]
    BY DEF SameOutside
  <2>2. ~(lo <= p /\ p < hi)
    BY <1>1, <1>2, <1>4, <2>1
  <2>3. QED
    BY <1>18, <2>2
<1>20. ASSUME NEW p \in x .. y - 1 PROVE ByteAt(s, patch, p) = bytes[p]
  <2>1. p \in 0 .. MaxOffset /\ p \in Nat
    BY <1>1, <1>4
  <2>2. CASE InPatch(patch, p)
    <3>1. ByteAt(s, patch, p) = byte
      BY <1>9, <1>10, <2>1, <2>2, ByteAtIs
    <3>2. QED
      BY <1>10, <1>18, <2>1, <2>2, <3>1 DEF InPatch
  <2>3. CASE ~InPatch(patch, p)
    <3>1. /\ SoundMap(map, size, data) /\ Holds(map, data, content)
          /\ y <= MaxOffset + 1 /\ Splits(map, a, b, x, y)
      BY <1>1, <1>4, <1>6
    <3>2. ByteAt(s, patch, p) = content[p]
      BY <1>9, <2>3, <3>1, RegionBytes
    <3>3. QED
      BY <1>10, <1>18, <2>1, <2>3, <3>2 DEF InPatch
  <2>4. QED
    BY <2>2, <2>3
<1>21. PICK d : d = data \o e
  OBVIOUS
<1>22. /\ SoundMap(c, n, d) /\ Agrees(c, d, bytes) /\ ZeroInHoles(c, x, y, bytes)
       /\ Within(c, x, y) /\ Aligned(c, window)
  <2>1. PICK eof : eof = Len(data)
    OBVIOUS
  <2>2. /\ Repacked(out, s, x, y, window, patch, eof, size) /\ patch.hi <= n
        /\ size <= n /\ window \in Nat \ {0} /\ size \in Nat /\ data \in Seq(Seq(Byte))
        /\ Gives(s, patch, x, y, bytes)
    BY <1>1, <1>2, <1>10, <1>13, <1>16, <1>20, <2>1 DEF Gives
  <2>3. /\ SoundMap(out.chunks, n, data \o out.blobs)
        /\ Agrees(out.chunks, data \o out.blobs, bytes)
        /\ ZeroInHoles(out.chunks, x, y, bytes)
        /\ Within(out.chunks, x, y) /\ Aligned(out.chunks, window)
    BY <1>9, <2>1, <2>2, RepackedSound
  <2>4. QED
    BY <1>14, <1>21, <2>3
<1>23. SoundMap(map, n, d) /\ SameBytes(map, data, d)
  BY <1>1, <1>2, <1>15, <1>16, <1>21, SoundWithMore
<1>24. PICK m : m = SubSeq(map, 1, a - 1) \o c \o SubSeq(map, b, Len(map))
  OBVIOUS
<1>25. SoundMap(m, n, d) /\ Spliced(m, map, a, b, c)
  BY <1>6, <1>22, <1>23, <1>24, SpliceIs
<1>26. Holds(m, d, bytes)
  BY <1>1, <1>6, <1>19, <1>22, <1>23, <1>25, SplicedHolds
<1>27. SoundFile(m, window, d, n, bytes)
  BY <1>1, <1>16, <1>18, <1>25, <1>26 DEF SoundFile
<1>28. ASSUME Aligned(map, window) PROVE Aligned(m, window)
  BY <1>22, <1>25, <1>28 DEF Aligned, Spliced
<1>29. m = WriteMap(lo, hi, byte)
  BY <1>3, <1>5, <1>11, <1>14, <1>24 DEF WriteMap
<1>30. QED
  BY <1>11, <1>14, <1>15, <1>16, <1>17, <1>21, <1>27, <1>28, <1>29

-----------------------------------------------------------------------------
(* Truncates.                                                              *)

\* The chunks that start before the new size are the first ones.
LEMMA KeptIs ==
    ASSUME SoundMap(map, size, data), NEW n \in Nat
    PROVE  /\ LastKept(n) \in 0 .. Len(map)
           /\ \A i \in DOMAIN map : i <= LastKept(n) <=> map[i].lo < n
<1>1. map \in Seq(Chunks) /\ DOMAIN map = 1 .. Len(map) /\ Len(map) \in Nat
  BY DEF SoundMap
<1>2. ASSUME NEW i \in DOMAIN map
      PROVE  map[i].lo \in Nat /\ map[i].len \in Nat /\ End(map[i]) = map[i].lo + map[i].len
  BY <1>1, ChunkTypes
<1> DEFINE F == {i \in 1 .. Len(map) + 1 : i = Len(map) + 1 \/ ~(map[i].lo < n)}
<1>3. PICK f \in F : \A i \in F : f <= i
  <2>1. F \in SUBSET Nat /\ F # {}
    <3>1. Len(map) + 1 \in F
      BY <1>1
    <3>2. QED
      BY <3>1
  <2>2. QED
    BY <2>1, LeastExists
<1>4. f \in 1 .. Len(map) + 1 /\ (f = Len(map) + 1 \/ ~(map[f].lo < n))
  OBVIOUS
<1>5. ASSUME NEW i \in DOMAIN map PROVE i < f <=> map[i].lo < n
  <2>1. CASE i < f
    <3>1. i \notin F /\ i \in 1 .. Len(map) + 1
      BY <1>1, <1>3, <1>4, <2>1
    <3>2. QED
      BY <2>1, <3>1
  <2>2. CASE i = f
    BY <1>1, <1>4, <2>2
  <2>3. CASE f < i
    <3>1. f \in DOMAIN map
      BY <1>1, <1>4, <2>3
    <3>2. End(map[f]) <= map[i].lo
      BY <2>3, <3>1 DEF SoundMap
    <3>3. ~(map[f].lo < n)
      BY <1>1, <1>4, <3>1
    <3>4. /\ map[f].lo \in Nat /\ map[f].len \in Nat /\ map[i].lo \in Nat
          /\ End(map[f]) = map[f].lo + map[f].len
      BY <1>2, <3>1
    <3>5. ~(map[i].lo < n) /\ ~(i < f)
      <4>1. f \in Nat /\ i \in Nat
        BY <1>1, <1>4
      <4> HIDE DEF F
      <4>2. QED
        BY <2>3, <3>2, <3>3, <3>4, <4>1
    <3>6. QED
      BY <3>5
  <2>4. i < f \/ i = f \/ f < i
    BY <1>1, <1>4
  <2>5. QED
    BY <2>1, <2>2, <2>3, <2>4
<1> HIDE DEF F
<1>6. PICK z \in Nat : z = f - 1
  BY <1>4
<1>7. Kept(n) = 1 .. z
  BY <1>1, <1>4, <1>5, <1>6 DEF Kept
<1>8. Cardinality(1 .. z) = z
  BY FS_Interval
<1>9. LastKept(n) = z
  BY <1>7, <1>8 DEF LastKept
<1>10. \A i \in DOMAIN map : i <= z <=> map[i].lo < n
  BY <1>1, <1>4, <1>5, <1>6
<1>11. QED
  BY <1>1, <1>4, <1>6, <1>9, <1>10

\* The bytes after a truncate.
Shrunk(bytes, n) == [p \in 0 .. MaxOffset |-> IF p < n THEN bytes[p] ELSE 0]

\* The chunks of m are sound in a shorter file that holds them.
LEMMA SoundShorter ==
    ASSUME NEW m, NEW n, NEW d, SoundMap(m, n, d), NEW k, \A i \in DOMAIN m : End(m[i]) <= k
    PROVE  SoundMap(m, k, d)
BY DEF SoundMap

\* A truncate that cuts no chunk.
LEMMA TruncatedSound ==
    ASSUME SoundFile(map, window, data, size, content), NEW n \in 0 .. MaxOffset, ~Cut(n)
    PROVE  /\ SoundFile(SubSeq(map, 1, LastKept(n)), window, data, n, Shrunk(content, n))
           /\ Aligned(map, window) => Aligned(SubSeq(map, 1, LastKept(n)), window)
<1>1. /\ MaxOffset \in Nat /\ size \in 0 .. MaxOffset /\ window \in Nat \ {0}
      /\ SoundMap(map, size, data) /\ Holds(map, data, content)
      /\ content \in [0 .. MaxOffset -> Byte] /\ n \in Nat
  BY ConstantsAssumption DEF SoundFile
<1>2. /\ map \in Seq(Chunks) /\ Len(map) \in Nat /\ DOMAIN map = 1 .. Len(map)
  BY <1>1 DEF SoundMap
<1>3. PICK k \in 0 .. Len(map) : /\ k = LastKept(n)
                                 /\ \A i \in DOMAIN map : i <= k <=> map[i].lo < n
  BY <1>1, KeptIs
<1>4. PICK m : m = SubSeq(map, 1, k)
  OBVIOUS
<1>5. SoundMap(m, size, data) /\ IsSegment(m, map, 1, k)
  <2>1. k \in Nat /\ k <= Len(map) /\ 1 \in Nat \ {0}
    BY <1>2
  <2>2. QED
    BY <1>1, <1>4, <2>1, SegmentIs
<1>6. ASSUME NEW j \in DOMAIN map, j <= k PROVE End(map[j]) <= n
  <2>1. k \in DOMAIN map /\ k > 0
    BY <1>2, <1>6
  <2>2. map[k].lo < n /\ End(map[k]) <= n
    <3>1. ~(End(map[k]) > n)
      BY <1>3, <2>1 DEF Cut
    <3>2. End(map[k]) \in Nat
      BY <1>2, <2>1, ChunkTypes
    <3>3. map[k].lo < n
      BY <1>3, <2>1
    <3>4. QED
      BY <1>1, <3>1, <3>2, <3>3
  <2>3. CASE j = k
    BY <2>2, <2>3
  <2>4. CASE j < k
    <3>1. End(map[j]) <= map[k].lo
      BY <1>1, <2>1, <2>4 DEF SoundMap
    <3>2. End(map[j]) \in Nat /\ map[k].lo \in Nat
      BY <1>2, <2>1, ChunkTypes
    <3>3. QED
      BY <1>1, <2>2, <3>1, <3>2
  <2>5. QED
    BY <1>2, <1>6, <2>3, <2>4
<1>7. SoundMap(m, n, data)
  <2>1. ASSUME NEW i \in DOMAIN m PROVE End(m[i]) <= n
    BY <1>5, <1>6 DEF IsSegment
  <2>2. QED
    BY <1>5, <2>1, SoundShorter
<1>8. PICK bytes : bytes = Shrunk(content, n)
  OBVIOUS
<1>9. /\ bytes \in [0 .. MaxOffset -> Byte]
      /\ \A p \in 0 .. MaxOffset : bytes[p] = IF p < n THEN content[p] ELSE 0
  <2>1. 0 \in Byte
    BY ConstantsAssumption DEF Byte
  <2>2. QED
    BY <1>1, <1>8, <2>1 DEF Shrunk
<1>10. ASSUME NEW i \in DOMAIN m, NEW p \in 0 .. MaxOffset, Covers(m[i], p)
       PROVE  PayloadByte(m[i], p, data) = bytes[p]
  <2>1. PICK j \in DOMAIN map : j <= k /\ m[i] = map[j]
    BY <1>5 DEF IsSegment
  <2>2. End(map[j]) <= n /\ p < End(map[j]) /\ End(map[j]) \in Nat
    BY <1>2, <1>6, <1>10, <2>1, ChunkTypes DEF Covers
  <2>3. p < n
    BY <1>1, <2>2
  <2>4. PayloadByte(map[j], p, data) = content[p]
    BY <1>1, <1>10, <2>1 DEF Holds
  <2>5. QED
    BY <1>9, <2>1, <2>3, <2>4
<1>11. ASSUME NEW p \in 0 .. MaxOffset, Hole(m, p) PROVE bytes[p] = 0
  <2>1. CASE p < n
    <3>1. ASSUME NEW j \in DOMAIN map, Covers(map[j], p) PROVE FALSE
      <4>1. map[j].lo \in Nat /\ map[j].lo <= p
        BY <1>2, <3>1, ChunkTypes DEF Covers
      <4>2. map[j].lo < n
        BY <1>1, <2>1, <4>1
      <4>3. 1 <= j /\ j <= k
        BY <1>2, <1>3, <4>2
      <4>4. PICK i \in DOMAIN m : m[i] = map[j]
        BY <1>5, <4>3 DEF IsSegment
      <4>5. QED
        BY <1>11, <3>1, <4>4 DEF Hole
    <3>2. content[p] = 0
      BY <1>1, <3>1 DEF Holds, Hole
    <3>3. QED
      BY <1>9, <2>1, <3>2
  <2>2. CASE ~(p < n)
    BY <1>9, <2>2
  <2>3. QED
    BY <2>1, <2>2
<1>12. SoundFile(m, window, data, n, bytes)
  <2>1. Holds(m, data, bytes)
    BY <1>10, <1>11 DEF Holds
  <2>2. QED
    BY <1>1, <1>7, <1>9, <2>1 DEF SoundFile
<1>13. ASSUME Aligned(map, window) PROVE Aligned(m, window)
  BY <1>5, <1>13 DEF Aligned, IsSegment
<1>14. QED
  BY <1>3, <1>4, <1>8, <1>12, <1>13

\* x begins like y, for n bytes at least.
Begins(x, y, n) == n <= Len(x) /\ \A k \in 1 .. n : x[k] = y[k]

\* A truncate that cuts a chunk, whose bytes are then found at the place blob of
\* the blobs d, which hold all the map refers to.
LEMMA CutSound ==
    ASSUME SoundFile(map, window, data, size, content), NEW n \in 0 .. MaxOffset, Cut(n),
           NEW d, SoundMap(map, size, d), SameBytes(map, data, d),
           NEW c, c = map[LastKept(n)],
           NEW blob \in DOMAIN d, Begins(d[blob], data[c.blob], n - c.lo)
    PROVE  /\ SoundFile(Shortened(n, blob), window, d, n, Shrunk(content, n))
           /\ Aligned(map, window) => Aligned(Shortened(n, blob), window)
<1>1. /\ MaxOffset \in Nat /\ size \in 0 .. MaxOffset /\ window \in Nat \ {0}
      /\ SoundMap(map, size, data) /\ Holds(map, data, content)
      /\ content \in [0 .. MaxOffset -> Byte] /\ n \in Nat /\ size \in Nat
  BY ConstantsAssumption DEF SoundFile
<1>2. /\ map \in Seq(Chunks) /\ Len(map) \in Nat /\ DOMAIN map = 1 .. Len(map)
  BY <1>1 DEF SoundMap
<1>3. PICK k \in 0 .. Len(map) : /\ k = LastKept(n)
                                 /\ \A i \in DOMAIN map : i <= k <=> map[i].lo < n
  BY <1>1, KeptIs
<1>4. /\ k \in DOMAIN map /\ c = map[k] /\ c \in Chunks /\ c.lo \in Nat /\ c.len \in Nat
      /\ End(c) = c.lo + c.len /\ c.lo < n /\ n < End(c) /\ k - 1 \in Nat /\ k > 0
  <2>1. k \in DOMAIN map /\ c = map[k] /\ End(map[k]) > n
    BY <1>2, <1>3 DEF Cut
  <2>2. /\ c \in Chunks /\ c.lo \in Nat /\ c.len \in Nat /\ End(c) = c.lo + c.len
    BY <1>2, <2>1, ChunkTypes
  <2>3. c.lo < n
    BY <1>3, <2>1
  <2>4. QED
    BY <1>1, <1>2, <2>1, <2>2, <2>3
<1>5. PICK z \in Nat : z = k - 1 /\ z <= Len(map)
  BY <1>2, <1>4
<1>6. PICK l \in Nat : /\ l = n - c.lo /\ 0 < l /\ l <= c.len
                      /\ l <= Len(d[blob]) /\ \A q \in 1 .. l : d[blob][q] = data[c.blob][q]
  <2>1. PICK l \in Nat : l = n - c.lo
    BY <1>1, <1>4
  <2>2. 0 < l /\ l <= c.len
    BY <1>1, <1>4, <2>1
  <2>3. QED
    BY <2>1, <2>2 DEF Begins
<1>7. PICK c1 : c1 = [c EXCEPT !.len = l, !.blob = blob]
  OBVIOUS
<1>8. d \in Seq(Seq(Byte)) /\ blob \in Nat
  <2>1. d \in Seq(Seq(Byte))
    BY DEF SoundMap
  <2>2. QED
    BY <2>1
<1>9. /\ c1 \in Chunks /\ c1.lo = c.lo /\ c1.len = l /\ c1.blob = blob /\ End(c1) = n
  <2>1. c1 \in Chunks /\ c1.lo = c.lo /\ c1.len = l /\ c1.blob = blob
    BY <1>4, <1>7, <1>8 DEF Chunks
  <2>2. End(c1) = c.lo + l
    BY <2>1 DEF End
  <2>3. QED
    BY <1>1, <1>4, <1>6, <2>1, <2>2
<1>10. PICK u, v : u = SubSeq(map, 1, z) /\ v = <<c1>>
  OBVIOUS
<1>11. SoundMap(u, size, data) /\ IsSegment(u, map, 1, z)
  <2>1. u = SubSeq(map, 1, z) /\ 1 \in Nat \ {0} /\ z \in Nat /\ z <= Len(map)
    BY <1>5, <1>10
  <2>2. QED
    BY <1>1, <2>1, SegmentIs
<1>12. ASSUME NEW i \in DOMAIN u
       PROVE  /\ End(u[i]) <= c.lo /\ End(u[i]) \in Nat
              /\ \E j \in DOMAIN map : j < k /\ u[i] = map[j]
  <2>1. PICK j \in DOMAIN map : j <= z /\ u[i] = map[j]
    BY <1>11 DEF IsSegment
  <2>2. j < k
    BY <1>2, <1>4, <1>5, <2>1
  <2>3. End(map[j]) <= map[k].lo
    BY <1>1, <1>4, <2>2 DEF SoundMap
  <2>4. End(map[j]) \in Nat
    BY <1>2, ChunkTypes
  <2>5. QED
    BY <1>4, <2>1, <2>2, <2>3, <2>4
<1>13. SoundMap(u, n, d)
  <2>1. SoundMap(u, size, d)
    <3>1. u = SubSeq(map, 1, z) /\ 1 \in Nat \ {0} /\ z \in Nat /\ z <= Len(map)
      BY <1>5, <1>10
    <3>2. QED
      BY <3>1, SegmentIs
  <2>2. ASSUME NEW i \in DOMAIN u PROVE End(u[i]) <= n
    BY <1>1, <1>4, <1>12
  <2>3. QED
    BY <2>1, <2>2, SoundShorter
<1>14. v \in Seq(Chunks) /\ DOMAIN v = {1} /\ v[1] = c1
  BY <1>9, <1>10
<1>15. SoundMap(v, n, d)
  <2>1. 0 < c1.len /\ End(c1) <= n /\ c1.blob \in DOMAIN d /\ c1.len <= Len(d[c1.blob])
    BY <1>1, <1>6, <1>9
  <2>2. \A i \in DOMAIN v : i = 1
    BY <1>14
  <2>3. \A i, j \in DOMAIN v : ~(i < j)
    BY <1>14
  <2>4. QED
    BY <1>8, <1>14, <2>1, <2>2, <2>3 DEF SoundMap
<1>16. Precedes(u, v)
  BY <1>9, <1>12, <1>14 DEF Precedes
<1>17. PICK m : m = u \o v
  OBVIOUS
<1>18. SoundMap(m, n, d) /\ HasBoth(m, u, v)
  BY <1>13, <1>15, <1>16, <1>17, JoinIs
<1>19. PICK bytes : bytes = Shrunk(content, n)
  OBVIOUS
<1>20. /\ bytes \in [0 .. MaxOffset -> Byte]
       /\ \A p \in 0 .. MaxOffset : bytes[p] = IF p < n THEN content[p] ELSE 0
  <2>1. 0 \in Byte
    BY ConstantsAssumption DEF Byte
  <2>2. QED
    BY <1>1, <1>19, <2>1 DEF Shrunk
<1>21. \A i \in DOMAIN m : \/ \E j \in DOMAIN map : j < k /\ m[i] = map[j]
                           \/ m[i] = c1
  <2>1. SUFFICES ASSUME NEW i \in DOMAIN m, m[i] # c1
                 PROVE  \E j \in DOMAIN map : j < k /\ m[i] = map[j]
    OBVIOUS
  <2>2. PICK j \in DOMAIN u : m[i] = u[j]
    BY <1>14, <1>18, <2>1 DEF HasBoth
  <2>3. QED
    BY <1>12, <2>2
<1>22. SameBytes(map, data, d)
  OBVIOUS
<1>23. ASSUME NEW i \in DOMAIN m, NEW p \in 0 .. MaxOffset, Covers(m[i], p)
       PROVE  PayloadByte(m[i], p, d) = bytes[p]
  <2>1. p < n /\ p \in Nat /\ m[i].lo <= p
    <3>1. End(m[i]) <= n /\ p < End(m[i]) /\ m[i].lo <= p
      BY <1>18, <1>23 DEF SoundMap, Covers
    <3>2. End(m[i]) \in Nat
      BY <1>18, ChunkTypes DEF SoundMap
    <3>3. QED
      BY <1>1, <3>1, <3>2
  <2>2. bytes[p] = content[p]
    BY <1>20, <2>1
  <2>3. CASE \E j \in DOMAIN map : j < k /\ m[i] = map[j]
    <3>1. PICK j \in DOMAIN map : m[i] = map[j]
      BY <2>3
    <3>2. PayloadByte(map[j], p, data) = content[p]
      BY <1>1, <1>23, <3>1 DEF Holds
    <3>3. PayloadByte(map[j], p, d) = PayloadByte(map[j], p, data)
      BY <1>22 DEF SameBytes
    <3>4. QED
      BY <2>2, <3>1, <3>2, <3>3
  <2>4. CASE m[i] = c1
    <3>1. PICK q : q = p - c.lo + 1
      OBVIOUS
    <3>2. q \in 1 .. l
      <4>1. PICK x \in Nat : x = c.lo
        BY <1>4
      <4>2. x <= p /\ q = p - x + 1 /\ l = n - x
        BY <1>6, <1>9, <2>1, <2>4, <3>1, <4>1
      <4>3. p \in Nat /\ n \in Nat /\ p < n /\ l \in Nat
        BY <1>1, <2>1
      <4>4. QED
        BY <4>2, <4>3
    <3>3. PayloadByte(m[i], p, d) = d[blob][q]
      BY <1>9, <2>4, <3>1 DEF PayloadByte
    <3>4. d[blob][q] = data[c.blob][q]
      BY <1>6, <3>2
    <3>5. PayloadByte(c, p, data) = data[c.blob][q]
      BY <3>1 DEF PayloadByte
    <3>6. Covers(c, p)
      <4>1. c.lo <= p
        BY <1>9, <2>1, <2>4
      <4>2. p < End(c)
        <5>1. End(c) \in Nat
          BY <1>4
        <5>2. QED
          BY <1>1, <1>4, <2>1, <5>1
      <4>3. QED
        BY <4>1, <4>2 DEF Covers
    <3>7. PayloadByte(c, p, data) = content[p]
      BY <1>1, <1>4, <3>6 DEF Holds
    <3>8. QED
      BY <2>2, <3>3, <3>4, <3>5, <3>7
  <2>5. QED
    BY <1>21, <2>3, <2>4
<1>24. ASSUME NEW p \in 0 .. MaxOffset, Hole(m, p) PROVE bytes[p] = 0
  <2>1. CASE p < n
    <3>1. ASSUME NEW j \in DOMAIN map, Covers(map[j], p) PROVE FALSE
      <4>1. map[j].lo \in Nat /\ map[j].lo <= p
        BY <1>2, <3>1, ChunkTypes DEF Covers
      <4>2. 1 <= j /\ j <= k
        <5>1. map[j].lo < n
          BY <1>1, <2>1, <4>1
        <5>2. QED
          BY <1>2, <1>3, <5>1
      <4>3. CASE j = k
        <5>1. Covers(c1, p)
          BY <1>4, <1>9, <2>1, <4>1, <4>3 DEF Covers
        <5>2. PICK i \in DOMAIN m : m[i] = v[1]
          BY <1>14, <1>18 DEF HasBoth
        <5>3. QED
          BY <1>14, <1>24, <5>1, <5>2 DEF Hole
      <4>4. CASE j < k
        <5>1. j <= z
          BY <1>2, <1>4, <1>5, <4>4
        <5>2. PICK h \in DOMAIN u : u[h] = map[j]
          BY <1>11, <4>2, <5>1 DEF IsSegment
        <5>3. PICK i \in DOMAIN m : m[i] = u[h]
          BY <1>18 DEF HasBoth
        <5>4. QED
          BY <1>24, <3>1, <5>2, <5>3 DEF Hole
      <4>5. QED
        BY <1>2, <1>4, <4>2, <4>3, <4>4
    <3>2. content[p] = 0
      BY <1>1, <3>1 DEF Holds, Hole
    <3>3. QED
      BY <1>20, <2>1, <3>2
  <2>2. CASE ~(p < n)
    BY <1>20, <2>2
  <2>3. QED
    BY <2>1, <2>2
<1>25. SoundFile(m, window, d, n, bytes)
  <2>1. Holds(m, d, bytes)
    BY <1>23, <1>24 DEF Holds
  <2>2. QED
    BY <1>1, <1>18, <1>20, <2>1 DEF SoundFile
<1>26. ASSUME Aligned(map, window) PROVE Aligned(m, window)
  <2>1. SUFFICES ASSUME NEW i \in DOMAIN m PROVE m[i].lo % window = 0 /\ m[i].len <= window
    BY DEF Aligned
  <2>2. CASE \E j \in DOMAIN map : j < k /\ m[i] = map[j]
    BY <1>26, <2>2 DEF Aligned
  <2>3. CASE m[i] = c1
    <3>1. c.lo % window = 0 /\ c.len <= window
      BY <1>4, <1>26 DEF Aligned
    <3>2. l <= window
      BY <1>1, <1>4, <1>6, <3>1
    <3>3. QED
      BY <1>9, <2>3, <3>1, <3>2
  <2>4. QED
    BY <1>21, <2>2, <2>3
<1>27. m = Shortened(n, blob)
  BY <1>3, <1>4, <1>5, <1>6, <1>7, <1>10, <1>17 DEF Shortened
<1>28. QED
  BY <1>19, <1>25, <1>26, <1>27

\* What a truncate writes again.
LEMMA RewrittenIs ==
    ASSUME SoundMap(map, size, data), size \in Nat, NEW n \in 0 .. MaxOffset, Cut(n)
    PROVE  /\ SoundMap(map, size, Rewritten(n)) /\ SameBytes(map, data, Rewritten(n))
           /\ Eof + 1 \in DOMAIN Rewritten(n)
           /\ Begins(Rewritten(n)[Eof + 1], data[map[LastKept(n)].blob],
                     n - map[LastKept(n)].lo)
           /\ \E e \in Seq(Seq(Byte)) : Rewritten(n) = data \o e
<1>1. /\ map \in Seq(Chunks) /\ Len(map) \in Nat /\ DOMAIN map = 1 .. Len(map)
      /\ data \in Seq(Seq(Byte)) /\ Len(data) \in Nat /\ n \in Nat /\ MaxOffset \in Nat
  BY ConstantsAssumption DEF SoundMap
<1>2. PICK k \in 0 .. Len(map) : /\ k = LastKept(n)
                                 /\ \A i \in DOMAIN map : i <= k <=> map[i].lo < n
  BY <1>1, KeptIs
<1>3. PICK c : c = map[k]
  OBVIOUS
<1>4. /\ k \in DOMAIN map /\ c.lo \in Nat /\ c.len \in Nat
      /\ End(c) = c.lo + c.len /\ c.lo < n /\ n < End(c)
  <2>1. k \in DOMAIN map /\ End(map[k]) > n
    BY <1>1, <1>2 DEF Cut
  <2>2. c.lo \in Nat /\ c.len \in Nat /\ End(c) = c.lo + c.len
    BY <1>1, <1>3, <2>1, ChunkTypes
  <2>3. c.lo < n
    BY <1>2, <1>3, <2>1
  <2>4. QED
    BY <1>1, <1>3, <2>1, <2>2, <2>3
<1>5. PICK l \in Nat : l = n - c.lo /\ l <= c.len
  BY <1>1, <1>4
<1>6. PICK y : y = data[c.blob]
  OBVIOUS
<1>7. y \in Seq(Byte) /\ l <= Len(y) /\ Len(y) \in Nat
  <2>1. c.blob \in DOMAIN data /\ c.len <= Len(data[c.blob])
    BY <1>3, <1>4 DEF SoundMap
  <2>2. y \in Seq(Byte)
    BY <1>1, <1>6, <2>1
  <2>3. QED
    BY <1>4, <1>5, <1>6, <2>1, <2>2
<1>8. PICK x : x = [i \in 1 .. l |-> y[i]]
  OBVIOUS
<1>9. x \in Seq(Byte) /\ Len(x) = l /\ \A i \in 1 .. l : x[i] = y[i]
  <2>1. \A i \in 1 .. l : y[i] \in Byte
    BY <1>7
  <2>2. x \in [1 .. l -> Byte] /\ \A i \in 1 .. l : x[i] = y[i]
    BY <1>8, <2>1
  <2>3. QED
    BY <2>2, FunctionIsSeq
<1>10. Rewritten(n) = data \o <<x>>
  <2>1. ASSUME NEW i \in 1 .. l PROVE PayloadByte(c, c.lo + i - 1, data) = y[i]
    <3>1. PICK o \in Nat : o = c.lo
      BY <1>4
    <3>2. (o + i - 1) - o + 1 = i
      OBVIOUS
    <3>3. QED
      BY <1>6, <3>1, <3>2 DEF PayloadByte
  <2>2. x = [i \in 1 .. n - c.lo |-> PayloadByte(c, c.lo + i - 1, data)]
    BY <1>5, <1>8, <2>1
  <2>3. Rewritten(n) = Appended(Eof, <<x>>)
    BY <1>2, <1>3, <2>2 DEF Rewritten
  <2>4. QED
    BY <1>1, <2>3, AppendedIs
<1>11. PICK e : e = <<x>>
  OBVIOUS
<1>12. e \in Seq(Seq(Byte)) /\ Len(e) = 1 /\ e[1] = x
  BY <1>9, <1>11
<1>13. PICK d : d = data \o e
  OBVIOUS
<1>14. SoundMap(map, size, d) /\ SameBytes(map, data, d)
  BY <1>12, <1>13, SoundWithMore
<1>15. /\ d \in Seq(Seq(Byte)) /\ Len(d) = Len(data) + 1
       /\ \A i \in 1 .. Len(data) + 1 : d[i] = IF i <= Len(data) THEN data[i] ELSE e[i - Len(data)]
  <2>1. /\ data \o e \in Seq(Seq(Byte)) /\ Len(data \o e) = Len(data) + Len(e)
        /\ \A i \in 1 .. Len(data) + Len(e) :
               (data \o e)[i] = IF i <= Len(data) THEN data[i] ELSE e[i - Len(data)]
    BY <1>1, <1>12, ConcatProperties
  <2>2. QED
    BY <1>12, <1>13, <2>1
<1>16. Eof + 1 \in DOMAIN d /\ d[Eof + 1] = x
  <2>1. PICK j \in 1 .. Len(data) + 1 : j = Eof + 1 /\ ~(j <= Len(data)) /\ j - Len(data) = 1
    <3>1. PICK l0 \in Nat : l0 = Len(data)
      BY <1>1
    <3>2. Eof + 1 \in 1 .. l0 + 1 /\ ~(Eof + 1 <= l0) /\ (Eof + 1) - l0 = 1
      BY <3>1 DEF Eof
    <3>3. QED
      BY <3>1, <3>2
  <2>2. d[j] = x
    BY <1>12, <1>15, <2>1
  <2>3. j \in DOMAIN d
    BY <1>15, <2>1
  <2>4. QED
    BY <2>1, <2>2, <2>3
<1>17. Begins(x, y, n - c.lo)
  BY <1>5, <1>9 DEF Begins
<1>18. d = Rewritten(n)
  BY <1>10, <1>11, <1>13
<1>19. QED
  BY <1>2, <1>3, <1>6, <1>12, <1>13, <1>14, <1>16, <1>17, <1>18

\* What a truncate that cuts nothing again needs of the blob it keeps.
LEMMA KeptBlobIs ==
    ASSUME SoundMap(map, size, data), NEW n \in 0 .. MaxOffset, Cut(n),
           NEW c, c = map[LastKept(n)]
    PROVE  /\ c.blob \in DOMAIN data /\ Begins(data[c.blob], data[c.blob], n - c.lo)
           /\ SameBytes(map, data, data)
<1>1. /\ map \in Seq(Chunks) /\ Len(map) \in Nat /\ DOMAIN map = 1 .. Len(map)
      /\ data \in Seq(Seq(Byte)) /\ n \in Nat
  BY ConstantsAssumption DEF SoundMap
<1>2. LastKept(n) \in DOMAIN map /\ End(c) > n
  BY <1>1, KeptIs DEF Cut
<1>3. /\ c.lo \in Nat /\ c.len \in Nat /\ End(c) = c.lo + c.len
  BY <1>1, <1>2, ChunkTypes
<1>4. c.blob \in DOMAIN data /\ c.len <= Len(data[c.blob])
  BY <1>2 DEF SoundMap
<1>5. Len(data[c.blob]) \in Nat
  BY <1>1, <1>4
<1>6. n - c.lo <= Len(data[c.blob])
  BY <1>1, <1>2, <1>3, <1>4, <1>5
<1>7. QED
  BY <1>4, <1>6 DEF Begins, SameBytes

-----------------------------------------------------------------------------
(* Compaction.                                                             *)

\* Copying the live blobs changes no byte and no chunk's place.
LEMMA VerbatimSound ==
    ASSUME SoundFile(map, window, data, size, content),
           NEW d, d = [i \in DOMAIN map |-> data[map[i].blob]],
           NEW m, m = [i \in DOMAIN map |-> [map[i] EXCEPT !.blob = i]]
    PROVE  SoundFile(m, window, d, size, content) /\ (Aligned(map, window) => Aligned(m, window))
<1>1. /\ SoundMap(map, size, data) /\ Holds(map, data, content)
  BY DEF SoundFile
<1>2. /\ map \in Seq(Chunks) /\ Len(map) \in Nat /\ DOMAIN map = 1 .. Len(map)
      /\ data \in Seq(Seq(Byte))
  BY <1>1 DEF SoundMap
<1>3. ASSUME NEW i \in DOMAIN map
      PROVE  /\ m[i] \in Chunks /\ m[i].lo = map[i].lo /\ m[i].len = map[i].len /\ m[i].blob = i
             /\ d[i] = data[map[i].blob] /\ d[i] \in Seq(Byte) /\ End(m[i]) = End(map[i])
             /\ 0 < map[i].len /\ End(map[i]) <= size /\ map[i].len <= Len(data[map[i].blob])
  <2>1. map[i] \in Chunks /\ i \in Nat
    BY <1>2
  <2>2. m[i] = [map[i] EXCEPT !.blob = i]
    OBVIOUS
  <2>3. m[i] \in Chunks /\ m[i].lo = map[i].lo /\ m[i].len = map[i].len /\ m[i].blob = i
    BY <2>1, <2>2 DEF Chunks
  <2>4. /\ map[i].blob \in DOMAIN data /\ 0 < map[i].len /\ End(map[i]) <= size
        /\ map[i].len <= Len(data[map[i].blob])
    BY <1>1 DEF SoundMap
  <2>5. d[i] = data[map[i].blob] /\ d[i] \in Seq(Byte)
    BY <1>2, <2>4
  <2>6. End(m[i]) = End(map[i])
    BY <2>3 DEF End
  <2>7. QED
    BY <2>3, <2>4, <2>5, <2>6
<1>4. /\ m \in Seq(Chunks) /\ DOMAIN m = DOMAIN map
      /\ d \in Seq(Seq(Byte)) /\ DOMAIN d = DOMAIN map
  <2>1. PICK l \in Nat : l = Len(map)
    BY <1>2
  <2>2. m \in [1 .. l -> Chunks] /\ d \in [1 .. l -> Seq(Byte)]
    BY <1>2, <1>3, <2>1
  <2>3. m \in Seq(Chunks) /\ d \in Seq(Seq(Byte))
    BY <2>2, FunctionIsSeq
  <2>4. QED
    BY <2>3
<1>5. SoundMap(m, size, d)
  <2>1. ASSUME NEW i \in DOMAIN m
        PROVE  0 < m[i].len /\ End(m[i]) <= size /\ m[i].blob \in DOMAIN d /\ m[i].len <= Len(d[m[i].blob])
    BY <1>3, <1>4
  <2>2. ASSUME NEW i \in DOMAIN m, NEW j \in DOMAIN m, i < j PROVE End(m[i]) <= m[j].lo
    <3>1. End(map[i]) <= map[j].lo
      BY <1>1, <1>4, <2>2 DEF SoundMap
    <3>2. QED
      BY <1>3, <1>4, <3>1
  <2>3. QED
    BY <1>4, <2>1, <2>2 DEF SoundMap
<1>6. Holds(m, d, content)
  <2>1. ASSUME NEW p \in 0 .. MaxOffset, NEW i \in DOMAIN m
        PROVE  /\ Covers(m[i], p) <=> Covers(map[i], p)
               /\ PayloadByte(m[i], p, d) = PayloadByte(map[i], p, data)
    <3>1. m[i].lo = map[i].lo /\ End(m[i]) = End(map[i]) /\ d[m[i].blob] = data[map[i].blob]
      BY <1>3, <1>4
    <3>2. QED
      BY <3>1 DEF Covers, PayloadByte
  <2>2. ASSUME NEW p \in 0 .. MaxOffset PROVE Hole(m, p) <=> Hole(map, p)
    BY <1>4, <2>1 DEF Hole
  <2>3. QED
    BY <1>1, <1>4, <2>1, <2>2 DEF Holds
<1>7. ASSUME Aligned(map, window) PROVE Aligned(m, window)
  <2>1. ASSUME NEW i \in DOMAIN m PROVE m[i].lo % window = 0 /\ m[i].len <= window
    <3>1. i \in DOMAIN map /\ m[i].lo = map[i].lo /\ m[i].len = map[i].len
      BY <1>3, <1>4
    <3>2. map[i].lo % window = 0 /\ map[i].len <= window
      BY <1>7, <3>1 DEF Aligned
    <3>3. QED
      BY <3>1, <3>2
  <2>2. QED
    BY <2>1 DEF Aligned
<1>8. SoundFile(m, window, d, size, content)
  BY <1>5, <1>6 DEF SoundFile
<1>9. QED
  BY <1>7, <1>8

\* Repacking the whole file changes no byte and leaves it packed.
LEMMA CompactedSound ==
    ASSUME SoundFile(map, window, data, size, content), NEW w \in Nat \ {0},
           NEW end, end = Max({0} \cup {End(map[i]) : i \in DOMAIN map}),
           Ceil(end, w) <= MaxOffset,
           NEW out, out = Repack(map, 0, Ceil(end, w), w, NoPatch, 0)
    PROVE  SoundFile(out.chunks, w, out.blobs, size, content) /\ Aligned(out.chunks, w)
<1>1. /\ MaxOffset \in Nat /\ size \in 0 .. MaxOffset /\ size \in Nat
      /\ SoundMap(map, size, data) /\ Holds(map, data, content)
      /\ content \in [0 .. MaxOffset -> Byte]
  BY ConstantsAssumption DEF SoundFile
<1>2. /\ map \in Seq(Chunks) /\ Len(map) \in Nat /\ DOMAIN map = 1 .. Len(map)
      /\ data \in Seq(Seq(Byte))
  BY <1>1 DEF SoundMap
<1>3. end \in Nat /\ \A i \in DOMAIN map : End(map[i]) <= end
  <2> DEFINE S == {0} \cup {End(map[i]) : i \in DOMAIN map}
  <2>1. ASSUME NEW i \in DOMAIN map PROVE End(map[i]) \in Nat /\ End(map[i]) <= size
    BY <1>1, <1>2, ChunkTypes DEF SoundMap
  <2>2. S \in SUBSET Nat /\ S # {} /\ \A q \in S : q <= size
    BY <1>1, <2>1
  <2>3. end = Max(S)
    OBVIOUS
  <2>4. \A i \in DOMAIN map : End(map[i]) \in S
    OBVIOUS
  <2> HIDE DEF S
  <2>5. end \in S /\ \A q \in S : q <= end
    BY <1>1, <2>2, <2>3, MaxIs
  <2>6. QED
    BY <2>2, <2>4, <2>5
<1>4. PICK hi \in Nat : hi = Ceil(end, w) /\ hi % w = 0 /\ end <= hi /\ hi <= MaxOffset
  BY <1>3, CeilOf
<1>5. ASSUME NEW i \in DOMAIN map
      PROVE  map[i].lo \in Nat /\ End(map[i]) \in Nat /\ End(map[i]) <= hi
  <2>1. map[i].lo \in Nat /\ End(map[i]) \in Nat
    BY <1>2, ChunkTypes
  <2>2. End(map[i]) <= end /\ end \in Nat
    BY <1>3
  <2>3. QED
    BY <1>4, <2>1, <2>2
<1>6. PICK patch \in Patches : patch = NoPatch /\ patch.hi = 0 /\ \A p \in Nat : ~InPatch(patch, p)
  <2>1. PICK q : q = NoPatch
    OBVIOUS
  <2>2. 0 \in Byte /\ 0 \in 0 .. MaxOffset
    BY ConstantsAssumption DEF Byte
  <2>3. q \in Patches /\ q.lo = 0 /\ q.hi = 0
    BY <2>1, <2>2 DEF NoPatch, Patch, Patches
  <2>4. \A p \in Nat : ~InPatch(q, p)
    BY <2>3 DEF InPatch
  <2>5. QED
    BY <2>1, <2>3, <2>4
<1>7. 0 % w = 0 /\ 0 \in Nat
  OBVIOUS
<1>8. PICK lo, eof : lo = 0 /\ eof = 0
  OBVIOUS
<1>9. Repacked(out, map, lo, hi, w, patch, eof, size)
  <2>1. lo \in Nat /\ eof \in Nat /\ lo % w = 0
    BY <1>7, <1>8
  <2>2. out = Repack(map, lo, hi, w, patch, eof)
    BY <1>4, <1>6, <1>8
  <2>3. QED
    BY <1>1, <1>4, <2>1, <2>2, RepackIs
<1>10. IsSegment(map, map, 1, Len(map))
  BY <1>2 DEF IsSegment
<1>11. PICK a, b, z : a = 1 /\ b = Len(map) + 1 /\ z = Len(map)
  OBVIOUS
<1>12. Splits(map, a, b, lo, hi) /\ z \in Nat /\ z = b - 1 /\ IsSegment(map, map, a, z)
  <2>1. a \in 1 .. Len(map) + 1 /\ b \in a .. Len(map) + 1
    BY <1>2, <1>11
  <2>2. ASSUME NEW i \in DOMAIN map
        PROVE  ~(i < a) /\ lo <= map[i].lo /\ End(map[i]) <= hi /\ ~(b <= i)
    BY <1>2, <1>5, <1>8, <1>11
  <2>3. Splits(map, a, b, lo, hi)
    BY <2>1, <2>2 DEF Splits
  <2>4. QED
    BY <1>2, <1>10, <1>11, <2>3
<1>13. Gives(map, patch, lo, hi, content)
  <2>1. SUFFICES ASSUME NEW p \in lo .. hi - 1 PROVE ByteAt(map, patch, p) = content[p]
    BY DEF Gives
  <2>2. ~InPatch(patch, p) /\ lo \in Nat /\ hi <= MaxOffset + 1
    BY <1>1, <1>4, <1>6, <1>8, <2>1
  <2>3. QED
    BY <1>1, <1>12, <2>1, <2>2, RegionBytes
<1>14. PICK c, e : c = out.chunks /\ e = out.blobs
  OBVIOUS
<1>15. /\ SoundMap(c, size, e) /\ Agrees(c, e, content)
       /\ ZeroInHoles(c, lo, hi, content) /\ Aligned(c, w)
  <2>1. PICK d : d = << >>
    OBVIOUS
  <2>2. d \in Seq(Seq(Byte)) /\ eof = Len(d)
    BY <1>8, <2>1
  <2>3. patch.hi <= size /\ size <= size /\ lo \in Nat
    BY <1>1, <1>6, <1>8
  <2>4. /\ SoundMap(c, size, d \o e) /\ Agrees(c, d \o e, content)
        /\ ZeroInHoles(c, lo, hi, content) /\ Aligned(c, w)
    BY <1>1, <1>9, <1>13, <1>14, <2>2, <2>3, RepackedSound
  <2>5. e \in Seq(Seq(Byte))
    BY <1>9, <1>14 DEF Repacked
  <2>6. d \o e = e
    BY <2>1, <2>5, ConcatEmptySeq
  <2>7. QED
    BY <2>4, <2>6
<1>16. Holds(c, e, content)
  <2>1. ASSUME NEW p \in 0 .. MaxOffset, Hole(c, p) PROVE content[p] = 0
    <3>1. CASE p \in lo .. hi - 1
      BY <1>15, <2>1, <3>1 DEF ZeroInHoles
    <3>2. CASE p \notin lo .. hi - 1
      <4>1. p \in Nat /\ ~(p < hi)
        BY <1>1, <1>4, <1>8, <3>2
      <4>2. ASSUME NEW i \in DOMAIN map PROVE ~Covers(map[i], p)
        BY <1>4, <1>5, <4>1 DEF Covers
      <4>3. QED
        BY <1>1, <4>2 DEF Holds, Hole
    <3>3. QED
      BY <3>1, <3>2
  <2>2. QED
    BY <1>15, <2>1 DEF Holds, Agrees
<1>17. SoundFile(c, w, e, size, content)
  BY <1>1, <1>15, <1>16 DEF SoundFile
<1>18. QED
  BY <1>14, <1>15, <1>17

-----------------------------------------------------------------------------
(* The inductive invariant.                                                *)

\* The map leads to the bytes the file must have.
FileSound == SoundFile(map, window, data, size, content) /\ ValidWindow(window)

Readers == [busy : BOOLEAN, here : BOOLEAN, map : Seq(Chunks), window : Nat \ {0},
            size : 0 .. MaxOffset, content : [0 .. MaxOffset -> Byte],
            data : Seq(Seq(Byte))]

\* The map of a read leads to the bytes the file had when it began: in the data
\* file, or in the one a compaction left behind.
ReaderSound ==
    /\ reader \in Readers
    /\ reader.busy => SoundFile(reader.map, reader.window,
                                IF reader.here THEN data ELSE reader.data,
                                reader.size, reader.content)

\* The bytes are numbers of operations that took place.
BytesNumbered == \A p \in 0 .. MaxOffset : content[p] \in (0 .. ops) \cup {MaxOps + 1}

CountersTyped == stats \in [full : Nat, partial : Nat] /\ ops \in 0 .. MaxOps

IndInv == FileSound /\ ReaderSound /\ BytesNumbered /\ CountersTyped

\* An append changes nothing that a map leads to.
LEMMA FileWithMore ==
    ASSUME NEW m, NEW w, NEW d, NEW n, NEW bytes, SoundFile(m, w, d, n, bytes),
           NEW e \in Seq(Seq(Byte))
    PROVE  SoundFile(m, w, d \o e, n, bytes)
<1>1. /\ SoundMap(m, n, d) /\ Holds(m, d, bytes) /\ n \in Nat
  BY ConstantsAssumption DEF SoundFile
<1>2. SoundMap(m, n, d \o e) /\ SameBytes(m, d, d \o e)
  BY <1>1, SoundWithMore
<1>3. Holds(m, d \o e, bytes)
  <2>1. ASSUME NEW p \in 0 .. MaxOffset, NEW i \in DOMAIN m, Covers(m[i], p)
        PROVE  PayloadByte(m[i], p, d \o e) = bytes[p]
    <3>1. PayloadByte(m[i], p, d \o e) = PayloadByte(m[i], p, d)
      BY <1>2 DEF SameBytes
    <3>2. PayloadByte(m[i], p, d) = bytes[p]
      BY <1>1, <2>1 DEF Holds
    <3>3. QED
      BY <3>1, <3>2
  <2>2. ASSUME NEW p \in 0 .. MaxOffset, Hole(m, p) PROVE bytes[p] = 0
    BY <1>1, <2>2 DEF Holds
  <2>3. QED
    BY <2>1, <2>2 DEF Holds
<1>4. QED
  BY <1>2, <1>3 DEF SoundFile

LEMMA ReaderStays ==
    ASSUME ReaderSound, UNCHANGED reader, NEW e \in Seq(Seq(Byte)),
           data' = data \o e \/ data' = data
    PROVE  ReaderSound'
<1>1. CASE data' = data
  BY <1>1 DEF ReaderSound
<1>2. CASE data' = data \o e
  <2>1. ASSUME reader.busy, reader.here
        PROVE  SoundFile(reader.map, reader.window, data \o e, reader.size, reader.content)
    BY <2>1, FileWithMore DEF ReaderSound
  <2>2. ASSUME reader.busy
        PROVE  SoundFile(reader.map, reader.window, IF reader.here THEN data' ELSE reader.data,
                         reader.size, reader.content)
    <3>1. CASE reader.here
      BY <1>2, <2>1, <2>2, <3>1
    <3>2. CASE ~reader.here
      BY <2>2, <3>2 DEF ReaderSound
    <3>3. QED
      BY <3>1, <3>2
  <2>3. reader \in Readers
    BY DEF ReaderSound
  <2>4. QED
    BY <2>2, <2>3 DEF ReaderSound
<1>3. QED
  BY <1>1, <1>2

LEMMA ReaderLeft ==
    ASSUME ReaderSound, ReaderLeftBehind, data \in Seq(Seq(Byte))
    PROVE  ReaderSound'
<1>1. reader \in Readers
  BY DEF ReaderSound
<1>2. CASE reader.here
  <2>1. reader' = [reader EXCEPT !.data = data, !.here = FALSE]
    BY <1>2 DEF ReaderLeftBehind
  <2>2. /\ reader' \in Readers /\ reader'.here = FALSE /\ reader'.data = data
        /\ reader'.busy = reader.busy /\ reader'.map = reader.map
        /\ reader'.window = reader.window /\ reader'.size = reader.size
        /\ reader'.content = reader.content
    BY <1>1, <2>1 DEF Readers
  <2>3. reader.busy => SoundFile(reader.map, reader.window, data, reader.size, reader.content)
    BY <1>2 DEF ReaderSound
  <2>4. QED
    BY <2>2, <2>3 DEF ReaderSound
<1>3. CASE ~reader.here
  <2>1. reader' = reader
    BY <1>3 DEF ReaderLeftBehind
  <2>2. QED
    BY <1>3, <2>1 DEF ReaderSound
<1>4. QED
  BY <1>2, <1>3

\* Typing that the steps share.
LEMMA FileTypes ==
    ASSUME FileSound
    PROVE  /\ map \in Seq(Chunks) /\ data \in Seq(Seq(Byte)) /\ size \in 0 .. MaxOffset
           /\ size \in Nat /\ MaxOffset \in Nat /\ window \in Nat \ {0} /\ ValidWindow(window)
           /\ content \in [0 .. MaxOffset -> Byte] /\ SoundMap(map, size, data)
           /\ SoundFile(map, window, data, size, content)
<1>1. SoundFile(map, window, data, size, content) /\ ValidWindow(window)
  BY DEF FileSound
<1>2. SoundMap(map, size, data) /\ size \in 0 .. MaxOffset /\ size \in Nat
  BY <1>1, ConstantsAssumption DEF SoundFile
<1>3. QED
  BY <1>1, <1>2, ConstantsAssumption DEF SoundFile, SoundMap

LEMMA InitSound == Init => IndInv
<1> SUFFICES ASSUME Init PROVE IndInv
  OBVIOUS
<1>1. PICK old \in OldLayouts :
          LET at(p) == \E i \in DOMAIN old : old[i][1] <= p /\ p < old[i][1] + old[i][2]
          IN  /\ map = [i \in DOMAIN old |-> [lo |-> old[i][1], len |-> old[i][2], blob |-> i]]
              /\ data = [i \in DOMAIN old |-> [k \in 1 .. old[i][2] |-> MaxOps + 1]]
              /\ size = Max({0} \cup {old[i][1] + old[i][2] : i \in DOMAIN old})
              /\ content = [p \in 0 .. MaxOffset |-> IF at(p) THEN MaxOps + 1 ELSE 0]
  BY DEF Init
<1>2. /\ old \in Seq(Nat \X Nat) /\ DOMAIN old = 1 .. Len(old) /\ Len(old) \in Nat
      /\ \A i \in DOMAIN old : 0 < old[i][2] /\ old[i][1] + old[i][2] <= MaxOffset
      /\ \A i, j \in DOMAIN old : i < j => old[i][1] + old[i][2] <= old[j][1]
      /\ MaxOffset \in Nat /\ MaxOps \in Nat
  <2>1. old \in Seq(Nat \X Nat)
    BY ConstantsAssumption
  <2>2. QED
    BY <2>1, ConstantsAssumption
<1>3. ASSUME NEW i \in DOMAIN old
      PROVE  /\ old[i][1] \in Nat /\ old[i][2] \in Nat /\ i \in Nat
             /\ map[i] \in Chunks /\ map[i].lo = old[i][1] /\ map[i].len = old[i][2]
             /\ map[i].blob = i /\ End(map[i]) = old[i][1] + old[i][2]
             /\ data[i] \in Seq(Byte) /\ Len(data[i]) = old[i][2]
             /\ \A k \in 1 .. old[i][2] : data[i][k] = MaxOps + 1
  <2>1. old[i] \in Nat \X Nat /\ i \in Nat
    BY <1>2
  <2>2. PICK x \in Nat, l \in Nat : x = old[i][1] /\ l = old[i][2]
    BY <2>1
  <2>3. map[i] = [lo |-> x, len |-> l, blob |-> i]
    BY <1>1, <2>2
  <2>4. /\ map[i] \in Chunks /\ map[i].lo = x /\ map[i].len = l /\ map[i].blob = i
        /\ End(map[i]) = x + l
    BY <2>1, <2>3 DEF Chunks, End
  <2>5. data[i] = [k \in 1 .. l |-> MaxOps + 1]
    BY <1>1, <2>2
  <2>6. MaxOps + 1 \in Byte
    BY <1>2 DEF Byte
  <2>7. data[i] \in [1 .. l -> Byte] /\ \A k \in 1 .. l : data[i][k] = MaxOps + 1
    BY <2>5, <2>6
  <2>8. data[i] \in Seq(Byte) /\ Len(data[i]) = l
    BY <2>7, FunctionIsSeq
  <2>9. QED
    BY <2>1, <2>2, <2>4, <2>7, <2>8
<1>4. /\ map \in Seq(Chunks) /\ DOMAIN map = DOMAIN old
      /\ data \in Seq(Seq(Byte)) /\ DOMAIN data = DOMAIN old
  <2>1. DOMAIN map = DOMAIN old /\ DOMAIN data = DOMAIN old
    BY <1>1
  <2>2. PICK l \in Nat : l = Len(old)
    BY <1>2
  <2>3. map = [i \in 1 .. l |-> map[i]] /\ data = [i \in 1 .. l |-> data[i]]
    BY <1>1, <1>2, <2>2
  <2>4. map \in [1 .. l -> Chunks] /\ data \in [1 .. l -> Seq(Byte)]
    BY <1>2, <1>3, <2>2, <2>3
  <2>5. QED
    BY <2>1, <2>4, FunctionIsSeq
<1>5. size \in 0 .. MaxOffset /\ \A i \in DOMAIN map : End(map[i]) <= size
  <2> DEFINE S == {0} \cup {old[i][1] + old[i][2] : i \in DOMAIN old}
  <2>1. S \in SUBSET Nat /\ S # {} /\ \A q \in S : q <= MaxOffset
    BY <1>2, <1>3
  <2>2. size = Max(S)
    BY <1>1
  <2>3. \A i \in DOMAIN map : End(map[i]) \in S
    BY <1>3, <1>4
  <2> HIDE DEF S
  <2>4. size \in S /\ \A q \in S : q <= size
    <3>1. MaxOffset \in Nat
      BY <1>2
    <3>2. QED
      BY <2>1, <2>2, <3>1, MaxIs
  <2>5. size \in Nat /\ size <= MaxOffset
    BY <2>1, <2>4
  <2>6. size \in 0 .. MaxOffset
    BY <1>2, <2>5
  <2>7. \A i \in DOMAIN map : End(map[i]) <= size
    BY <2>3, <2>4
  <2>8. QED
    BY <2>6, <2>7
<1>6. SoundMap(map, size, data)
  <2>1. ASSUME NEW i \in DOMAIN map
        PROVE  /\ 0 < map[i].len /\ End(map[i]) <= size
               /\ map[i].blob \in DOMAIN data /\ map[i].len <= Len(data[map[i].blob])
    BY <1>2, <1>3, <1>4, <1>5
  <2>2. ASSUME NEW i \in DOMAIN map, NEW j \in DOMAIN map, i < j PROVE End(map[i]) <= map[j].lo
    <3>1. i \in DOMAIN old /\ j \in DOMAIN old
      BY <1>4
    <3>2. old[i][1] + old[i][2] <= old[j][1]
      BY <1>2, <2>2, <3>1
    <3>3. End(map[i]) = old[i][1] + old[i][2] /\ map[j].lo = old[j][1]
      BY <1>3, <3>1
    <3>4. QED
      BY <3>2, <3>3
  <2>3. QED
    BY <1>4, <2>1, <2>2 DEF SoundMap
<1>7. ASSUME NEW p \in 0 .. MaxOffset
      PROVE  content[p] = IF Hole(map, p) THEN 0 ELSE MaxOps + 1
  <2>1. ASSUME NEW i \in DOMAIN map
        PROVE  Covers(map[i], p) <=> old[i][1] <= p /\ p < old[i][1] + old[i][2]
    BY <1>3, <1>4 DEF Covers
  <2>2. Hole(map, p) <=> ~\E i \in DOMAIN old : old[i][1] <= p /\ p < old[i][1] + old[i][2]
    BY <1>4, <2>1 DEF Hole
  <2>3. QED
    BY <1>1, <2>2
<1>8. content \in [0 .. MaxOffset -> Byte]
  <2>1. 0 \in Byte /\ MaxOps + 1 \in Byte
    BY <1>2 DEF Byte
  <2>2. \A p \in 0 .. MaxOffset : content[p] \in Byte
    BY <1>7, <2>1
  <2>3. content = [p \in 0 .. MaxOffset |-> content[p]]
    BY <1>1
  <2>4. QED
    BY <2>2, <2>3
<1>9. Holds(map, data, content)
  <2>1. ASSUME NEW p \in 0 .. MaxOffset, NEW i \in DOMAIN map, Covers(map[i], p)
        PROVE  PayloadByte(map[i], p, data) = content[p]
    <3>1. PICK k : k = p - map[i].lo + 1
      OBVIOUS
    <3>2. k \in 1 .. old[i][2]
      <4>1. PICK x \in Nat, l \in Nat : x = old[i][1] /\ l = old[i][2] /\ map[i].lo = x
        BY <1>3, <1>4
      <4>2. x <= p /\ p < x + l /\ p \in Nat
        BY <1>2, <1>3, <1>4, <2>1, <4>1 DEF Covers
      <4>3. QED
        BY <3>1, <4>1, <4>2
    <3>3. PayloadByte(map[i], p, data) = data[i][k]
      BY <1>3, <1>4, <3>1 DEF PayloadByte
    <3>4. data[i][k] = MaxOps + 1
      BY <1>3, <1>4, <3>2
    <3>5. content[p] = MaxOps + 1
      BY <1>7, <2>1 DEF Hole
    <3>6. QED
      BY <3>3, <3>4, <3>5
  <2>2. QED
    BY <1>7, <2>1 DEF Holds
<1>10. FileSound
  <2>1. window = DefaultWindow /\ ValidWindow(DefaultWindow) /\ DefaultWindow \in Nat \ {0}
    BY ConstantsAssumption DEF Init, ValidWindow
  <2>2. QED
    BY <1>5, <1>6, <1>8, <1>9, <2>1 DEF FileSound, SoundFile
<1>11. ReaderSound
  <2>1. reader = NoReader
    BY DEF Init
  <2>2. PICK bytes : bytes = [p \in 0 .. MaxOffset |-> 0]
    OBVIOUS
  <2>3. bytes \in [0 .. MaxOffset -> Byte]
    <3>1. 0 \in Byte
      BY <1>2 DEF Byte
    <3>2. QED
      BY <2>2, <3>1
  <2>4. DefaultWindow \in Nat \ {0} /\ 0 \in 0 .. MaxOffset
    BY ConstantsAssumption
  <2>5. PICK m, d : m = << >> /\ d = << >> /\ m \in Seq(Chunks) /\ d \in Seq(Seq(Byte))
    <3>1. << >> \in Seq(Chunks) /\ << >> \in Seq(Seq(Byte))
      OBVIOUS
    <3>2. QED
      BY <3>1, Zenon
  <2>6. reader = [busy |-> FALSE, here |-> FALSE, map |-> m, window |-> DefaultWindow,
                  size |-> 0, content |-> bytes, data |-> d]
    BY <2>1, <2>2, <2>5 DEF NoReader
  <2>7. reader \in Readers /\ ~reader.busy
    BY <2>3, <2>4, <2>5, <2>6 DEF Readers
  <2>8. QED
    BY <2>7 DEF ReaderSound
<1>12. CountersTyped /\ BytesNumbered
  <2>1. ops = 0 /\ stats = [full |-> 0, partial |-> 0]
    BY DEF Init
  <2>2. CountersTyped
    BY <1>2, <2>1 DEF CountersTyped
  <2>3. BytesNumbered
    BY <1>2, <1>7, <2>1 DEF BytesNumbered
  <2>4. QED
    BY <2>2, <2>3
<1>13. QED
  BY <1>10, <1>11, <1>12 DEF IndInv

-----------------------------------------------------------------------------
(* The steps.                                                              *)

\* A step leaves a packed file packed, and so does one that changes the map but
\* no byte of the file.
PacksAlways ==
    Aligned(map, window) \/ (map' # map /\ content' = content /\ size' = size)
        => Aligned(map', window')

LEMMA EvidenceIs ==
    ASSUME FileSound, CountersTyped, NEW lo \in Nat, NEW hi \in Nat
    PROVE  Evidence(lo, hi) \in [full : Nat, partial : Nat]
<1>1. window \in Nat \ {0} /\ stats.full \in Nat /\ stats.partial \in Nat
  BY FileTypes DEF CountersTyped
<1>2. Base(lo, window) \in Nat /\ Ceil(hi, window) \in Nat
  BY <1>1, BaseOf, CeilOf
<1>3. PICK x \in Nat, y \in Nat : x = Base(lo, window) /\ y = Ceil(hi, window)
  BY <1>2
<1> DEFINE W == Windows(x, y, window)
           full == {q \in W : lo <= q /\ q + window <= hi}
           part == {q \in W \ full : \E i \in DOMAIN map : Meets(map[i], q, q + window)}
<1>4. IsFiniteSet(W)
  <2>1. IsFiniteSet(x .. y - 1)
    BY FS_Interval
  <2>2. W \in SUBSET (x .. y - 1)
    BY DEF Windows
  <2>3. QED
    BY <2>1, <2>2, FS_Subset
<1>5. IsFiniteSet(full) /\ IsFiniteSet(part)
  <2>1. full \in SUBSET W /\ part \in SUBSET W
    OBVIOUS
  <2> HIDE DEF W, full, part
  <2>2. QED
    BY <1>4, <2>1, FS_Subset
<1>6. Evidence(lo, hi) = [full |-> stats.full + Cardinality(full),
                          partial |-> stats.partial + Cardinality(part)]
  BY <1>3 DEF Evidence
<1> HIDE DEF W, full, part
<1>7. Cardinality(full) \in Nat /\ Cardinality(part) \in Nat
  BY <1>5, FS_CardinalityType
<1>8. QED
  BY <1>1, <1>6, <1>7

\* The numbers that a write and a truncate use.
LEMMA PointsAre ==
    ASSUME NEW p \in Points
    PROVE  p \in 0 .. MaxOffset /\ p \in Nat
BY ConstantsAssumption

LEMMA WriteStep ==
    ASSUME IndInv, NEW lo \in Points, NEW hi \in Points, Write(lo, hi)
    PROVE  IndInv' /\ PacksAlways
<1>1. FileSound /\ ReaderSound /\ BytesNumbered /\ CountersTyped
  BY DEF IndInv
<1>2. /\ lo \in 0 .. MaxOffset /\ hi \in 0 .. MaxOffset /\ lo \in Nat /\ hi \in Nat
      /\ MaxOffset \in Nat /\ MaxOps \in Nat
  BY PointsAre, ConstantsAssumption
<1>3. lo < hi /\ ops < MaxOps /\ ops' = ops + 1 /\ Fits(hi)
  BY DEF Write, Count
<1>4. ops \in Nat /\ ops + 1 \in Byte /\ ops' \in 0 .. MaxOps
  <2>1. ops \in 0 .. MaxOps
    BY <1>1 DEF CountersTyped
  <2>2. QED
    BY <1>2, <1>3, <2>1 DEF Byte
<1>5. PICK byte \in Byte : byte = ops + 1
  BY <1>4
<1>6. PICK e : e = WriteOut(lo, hi, byte).blobs
  OBVIOUS
<1>7. /\ SoundFile(WriteMap(lo, hi, byte), window, data \o e, Max({size, hi}),
                   Patched(content, lo, hi, byte))
      /\ Aligned(map, window) => Aligned(WriteMap(lo, hi, byte), window)
      /\ e \in Seq(Seq(Byte))
  BY <1>1, <1>2, <1>3, <1>6, FileTypes, WriteSound
<1>8. /\ data' = Appended(Eof, e) /\ map' = WriteMap(lo, hi, byte) /\ size' = Max({size, hi})
      /\ stats' = Evidence(lo, hi) /\ window' = window /\ reader' = reader
      /\ content' = [p \in DOMAIN content |-> IF lo <= p /\ p < hi THEN ops + 1 ELSE content[p]]
  BY <1>5, <1>6 DEF Write, WriteOut, WriteMap
<1>9. data' = data \o e
  BY <1>1, <1>8, AppendedIs, FileTypes
<1>10. content \in [0 .. MaxOffset -> Byte] /\ ValidWindow(window)
  BY <1>1, FileTypes
<1>11. content' = Patched(content, lo, hi, byte)
  BY <1>5, <1>8, <1>10 DEF Patched
<1>12. FileSound'
  BY <1>7, <1>8, <1>9, <1>10, <1>11 DEF FileSound
<1>13. ReaderSound'
  BY <1>1, <1>7, <1>8, <1>9, ReaderStays
<1>14. BytesNumbered'
  <2>1. ASSUME NEW p \in 0 .. MaxOffset PROVE content'[p] \in (0 .. ops') \cup {MaxOps + 1}
    <3>1. content'[p] = IF lo <= p /\ p < hi THEN ops + 1 ELSE content[p]
      BY <1>8, <1>10
    <3>2. content[p] \in (0 .. ops) \cup {MaxOps + 1}
      BY <1>1 DEF BytesNumbered
    <3>3. QED
      BY <1>2, <1>3, <1>4, <3>1, <3>2
  <2>2. QED
    BY <2>1 DEF BytesNumbered
<1>15. CountersTyped'
  BY <1>1, <1>2, <1>4, <1>8, EvidenceIs DEF CountersTyped
<1>16. content' # content
  <2>1. content'[lo] = ops + 1
    BY <1>2, <1>3, <1>8, <1>10
  <2>2. content[lo] \in (0 .. ops) \cup {MaxOps + 1}
    BY <1>1, <1>2 DEF BytesNumbered
  <2>3. QED
    BY <1>2, <1>3, <1>4, <2>1, <2>2
<1>17. PacksAlways
  BY <1>7, <1>8, <1>16 DEF PacksAlways
<1>18. QED
  BY <1>12, <1>13, <1>14, <1>15, <1>17 DEF IndInv

\* A step that only adds blobs.
LEMMA AppendStep ==
    ASSUME IndInv, NEW e \in Seq(Seq(Byte)), data' = data \o e, Count,
           UNCHANGED <<map, size, window, stats, reader, content>>
    PROVE  IndInv' /\ PacksAlways
<1>1. FileSound /\ ReaderSound /\ BytesNumbered /\ CountersTyped
  BY DEF IndInv
<1>2. ops' = ops + 1 /\ ops < MaxOps /\ ops \in 0 .. MaxOps /\ MaxOps \in Nat
  BY <1>1, ConstantsAssumption DEF Count, CountersTyped
<1>3. FileSound'
  BY <1>1, FileWithMore DEF FileSound
<1>4. ReaderSound'
  BY <1>1, ReaderStays
<1>5. BytesNumbered'
  <2>1. ASSUME NEW p \in 0 .. MaxOffset PROVE content[p] \in (0 .. ops') \cup {MaxOps + 1}
    <3>1. content[p] \in (0 .. ops) \cup {MaxOps + 1}
      BY <1>1 DEF BytesNumbered
    <3>2. QED
      BY <1>2, <3>1
  <2>2. QED
    BY <2>1 DEF BytesNumbered
<1>6. CountersTyped'
  BY <1>1, <1>2 DEF CountersTyped
<1>7. PacksAlways
  BY DEF PacksAlways
<1>8. QED
  BY <1>3, <1>4, <1>5, <1>6, <1>7 DEF IndInv

LEMMA WriteFailsStep ==
    ASSUME IndInv, NEW lo \in Points, NEW hi \in Points, WriteFails(lo, hi)
    PROVE  IndInv' /\ PacksAlways
<1>1. FileSound /\ CountersTyped
  BY DEF IndInv
<1>2. lo \in 0 .. MaxOffset /\ hi \in 0 .. MaxOffset /\ MaxOps \in Nat
  BY PointsAre, ConstantsAssumption
<1>3. lo < hi /\ Fits(hi) /\ Count /\ UNCHANGED <<map, size, window, stats, reader, content>>
  BY DEF WriteFails
<1>4. PICK byte \in Byte : byte = ops + 1
  <2>1. ops \in 0 .. MaxOps /\ ops < MaxOps
    BY <1>1, <1>3 DEF CountersTyped, Count
  <2>2. QED
    BY <1>2, <2>1 DEF Byte
<1>5. PICK e : e = WriteOut(lo, hi, byte).blobs
  OBVIOUS
<1>6. e \in Seq(Seq(Byte))
  BY <1>1, <1>2, <1>3, <1>5, FileTypes, WriteSound
<1>7. data' = Appended(Eof, e)
  BY <1>4, <1>5 DEF WriteFails, WriteOut
<1>8. data' = data \o e
  BY <1>1, <1>7, AppendedIs, FileTypes
<1>9. QED
  BY <1>3, <1>6, <1>8, AppendStep

\* A truncate to the size of the file keeps its map.
LEMMA TruncatedToSize ==
    ASSUME SoundMap(map, size, data), size \in Nat
    PROVE  ~Cut(size) /\ SubSeq(map, 1, LastKept(size)) = map
<1>1. /\ map \in Seq(Chunks) /\ Len(map) \in Nat /\ DOMAIN map = 1 .. Len(map)
  BY DEF SoundMap
<1>2. PICK k \in 0 .. Len(map) : /\ k = LastKept(size)
                                 /\ \A i \in DOMAIN map : i <= k <=> map[i].lo < size
  BY KeptIs
<1>3. ASSUME NEW i \in DOMAIN map PROVE map[i].lo < size /\ ~(End(map[i]) > size)
  <2>1. 0 < map[i].len /\ End(map[i]) <= size
    BY DEF SoundMap
  <2>2. map[i].lo \in Nat /\ map[i].len \in Nat /\ End(map[i]) = map[i].lo + map[i].len
    BY <1>1, ChunkTypes
  <2>3. QED
    BY <2>1, <2>2
<1>4. k = Len(map)
  <2>1. PICK l \in Nat : l = Len(map)
    BY <1>1
  <2>2. k \in 0 .. l
    BY <2>1
  <2>3. CASE l = 0
    BY <2>1, <2>2, <2>3
  <2>4. CASE l > 0
    <3>1. l \in DOMAIN map
      BY <1>1, <2>1, <2>4
    <3>2. l <= k
      BY <1>2, <1>3, <3>1
    <3>3. k = l
      BY <2>2, <3>2
    <3>4. QED
      BY <2>1, <3>3
  <2>5. QED
    BY <2>3, <2>4
<1>5. SubSeq(map, 1, Len(map)) = map
  BY <1>1, SubSeqFull
<1>6. ~Cut(size)
  <2>1. SUFFICES ASSUME Cut(size) PROVE FALSE
    OBVIOUS
  <2>2. k > 0 /\ End(map[k]) > size
    BY <1>2, <2>1 DEF Cut
  <2>3. k \in DOMAIN map
    BY <1>1, <1>2, <2>2
  <2>4. QED
    BY <1>3, <2>2, <2>3
<1>7. QED
  BY <1>2, <1>4, <1>5, <1>6

LEMMA TruncateStep ==
    ASSUME IndInv, NEW n \in Points, Truncate(n)
    PROVE  IndInv' /\ PacksAlways
<1>1. FileSound /\ ReaderSound /\ BytesNumbered /\ CountersTyped
  BY DEF IndInv
<1>2. /\ n \in 0 .. MaxOffset /\ n \in Nat /\ MaxOps \in Nat
      /\ SoundMap(map, size, data) /\ size \in Nat /\ data \in Seq(Seq(Byte))
      /\ SoundFile(map, window, data, size, content) /\ ValidWindow(window)
      /\ content \in [0 .. MaxOffset -> Byte]
  BY <1>1, PointsAre, FileTypes, ConstantsAssumption
<1>3. /\ Count /\ size' = n /\ window' = window /\ stats' = stats /\ reader' = reader
      /\ content' = [p \in DOMAIN content |-> IF p < n THEN content[p] ELSE 0]
  BY DEF Truncate
<1>4. ops' = ops + 1 /\ ops < MaxOps /\ ops \in 0 .. MaxOps
  BY <1>1, <1>3 DEF Count, CountersTyped
<1>5. content' = Shrunk(content, n)
  BY <1>2, <1>3 DEF Shrunk
<1>6. /\ SoundFile(map', window, data', n, Shrunk(content, n))
      /\ Aligned(map, window) => Aligned(map', window)
      /\ \E e \in Seq(Seq(Byte)) : data' = data \o e \/ data' = data
  <2>1. << >> \in Seq(Seq(Byte))
    OBVIOUS
  <2>2. CASE ~Cut(n) /\ map' = SubSeq(map, 1, LastKept(n)) /\ UNCHANGED data
    BY <1>2, <2>1, <2>2, TruncatedSound
  <2>3. CASE Cut(n) /\ map' = Shortened(n, map[LastKept(n)].blob) /\ UNCHANGED data
    <3>1. PICK c : c = map[LastKept(n)]
      OBVIOUS
    <3>2. /\ c.blob \in DOMAIN data /\ Begins(data[c.blob], data[c.blob], n - c.lo)
          /\ SameBytes(map, data, data)
      BY <1>2, <2>3, <3>1, KeptBlobIs
    <3>3. /\ SoundFile(Shortened(n, c.blob), window, data, n, Shrunk(content, n))
          /\ Aligned(map, window) => Aligned(Shortened(n, c.blob), window)
      BY <1>2, <2>3, <3>1, <3>2, CutSound
    <3>4. QED
      BY <2>1, <2>3, <3>1, <3>3
  <2>4. CASE Cut(n) /\ map' = Shortened(n, Eof + 1) /\ data' = Rewritten(n)
    <3>1. PICK c : c = map[LastKept(n)]
      OBVIOUS
    <3>2. /\ SoundMap(map, size, Rewritten(n)) /\ SameBytes(map, data, Rewritten(n))
          /\ Eof + 1 \in DOMAIN Rewritten(n)
          /\ Begins(Rewritten(n)[Eof + 1], data[c.blob], n - c.lo)
          /\ \E e \in Seq(Seq(Byte)) : Rewritten(n) = data \o e
      BY <1>2, <2>4, <3>1, RewrittenIs
    <3>3. /\ SoundFile(Shortened(n, Eof + 1), window, Rewritten(n), n, Shrunk(content, n))
          /\ Aligned(map, window) => Aligned(Shortened(n, Eof + 1), window)
      BY <1>2, <2>4, <3>1, <3>2, CutSound
    <3>4. QED
      BY <2>4, <3>2, <3>3
  <2>5. QED
    BY <2>2, <2>3, <2>4 DEF Truncate
<1>7. FileSound'
  BY <1>2, <1>3, <1>5, <1>6 DEF FileSound
<1>8. ReaderSound'
  BY <1>1, <1>3, <1>6, ReaderStays
<1>9. BytesNumbered'
  <2>1. ASSUME NEW p \in 0 .. MaxOffset PROVE content'[p] \in (0 .. ops') \cup {MaxOps + 1}
    <3>1. content'[p] = IF p < n THEN content[p] ELSE 0
      BY <1>2, <1>3
    <3>2. content[p] \in (0 .. ops) \cup {MaxOps + 1}
      BY <1>1 DEF BytesNumbered
    <3>3. QED
      BY <1>2, <1>4, <3>1, <3>2
  <2>2. QED
    BY <2>1 DEF BytesNumbered
<1>10. CountersTyped'
  BY <1>1, <1>2, <1>3, <1>4 DEF CountersTyped
<1>11. PacksAlways
  <2>1. ASSUME size' = size PROVE map' = map
    <3>1. n = size
      BY <1>3, <2>1
    <3>2. ~Cut(n) /\ SubSeq(map, 1, LastKept(n)) = map
      BY <1>2, <3>1, TruncatedToSize
    <3>3. QED
      BY <3>2 DEF Truncate
  <2>2. QED
    BY <1>3, <1>6, <2>1 DEF PacksAlways
<1>12. QED
  BY <1>7, <1>8, <1>9, <1>10, <1>11 DEF IndInv

LEMMA TruncateFailsStep ==
    ASSUME IndInv, NEW n \in Points, TruncateFails(n)
    PROVE  IndInv' /\ PacksAlways
<1>1. FileSound
  BY DEF IndInv
<1>2. /\ Count /\ Cut(n) /\ data' = Rewritten(n)
      /\ UNCHANGED <<map, size, window, stats, reader, content>>
  BY DEF TruncateFails
<1>3. n \in 0 .. MaxOffset /\ SoundMap(map, size, data) /\ size \in Nat
  BY <1>1, PointsAre, FileTypes
<1>4. PICK e \in Seq(Seq(Byte)) : Rewritten(n) = data \o e
  BY <1>2, <1>3, RewrittenIs
<1>5. QED
  BY <1>2, <1>4, AppendStep

LEMMA VerbatimStep ==
    ASSUME IndInv, CompactVerbatim
    PROVE  IndInv' /\ PacksAlways
<1>1. FileSound /\ ReaderSound /\ BytesNumbered /\ CountersTyped
  BY DEF IndInv
<1>2. /\ SoundMap(map, size, data) /\ data \in Seq(Seq(Byte)) /\ ValidWindow(window)
      /\ SoundFile(map, window, data, size, content)
  BY <1>1, FileTypes
<1>3. /\ Packed(map, window)
      /\ data' = [i \in DOMAIN map |-> data[map[i].blob]]
      /\ map' = [i \in DOMAIN map |-> [map[i] EXCEPT !.blob = i]]
      /\ ReaderLeftBehind
      /\ UNCHANGED <<size, window, stats, content, ops>>
  BY DEF CompactVerbatim
<1>4. /\ SoundFile(map', window, data', size, content)
      /\ Aligned(map, window) => Aligned(map', window)
  BY <1>2, <1>3, VerbatimSound
<1>5. FileSound'
  BY <1>2, <1>3, <1>4 DEF FileSound
<1>6. ReaderSound'
  BY <1>1, <1>2, <1>3, ReaderLeft
<1>7. BytesNumbered' /\ CountersTyped'
  BY <1>1, <1>3 DEF BytesNumbered, CountersTyped
<1>8. Aligned(map, window)
  BY <1>2, <1>3, PackedIs
<1>9. PacksAlways
  BY <1>3, <1>4, <1>8 DEF PacksAlways
<1>10. QED
  BY <1>5, <1>6, <1>7, <1>9 DEF IndInv

LEMMA RepackStep ==
    ASSUME IndInv, CompactRepack
    PROVE  IndInv' /\ PacksAlways
<1>1. FileSound /\ ReaderSound /\ BytesNumbered /\ CountersTyped
  BY DEF IndInv
<1>2. /\ data \in Seq(Seq(Byte)) /\ window \in Nat \ {0} /\ ValidWindow(window)
      /\ SoundFile(map, window, data, size, content)
  BY <1>1, FileTypes
<1>3. PICK snapshot \in Snapshots :
          LET target == ResizeTarget(snapshot, LiveBytes)
              end == Max({0} \cup {End(map[i]) : i \in DOMAIN map})
              out == Repack(map, 0, Ceil(end, target), target, NoPatch, 0)
          IN  /\ Ceil(end, target) <= MaxOffset
              /\ data' = out.blobs /\ map' = out.chunks /\ window' = target
              /\ stats' = IF target = window THEN stats
                          ELSE [full |-> stats.full - snapshot.full,
                                partial |-> stats.partial - snapshot.partial]
              /\ ReaderLeftBehind
              /\ UNCHANGED <<size, content, ops>>
  BY DEF CompactRepack
<1>4. PICK target \in Nat \ {0} : target = ResizeTarget(snapshot, LiveBytes) /\ ValidWindow(target)
  BY <1>2, ResizeTargetIs
<1>5. PICK end : end = Max({0} \cup {End(map[i]) : i \in DOMAIN map})
  OBVIOUS
<1>6. PICK out : out = Repack(map, 0, Ceil(end, target), target, NoPatch, 0)
  OBVIOUS
<1>7. /\ Ceil(end, target) <= MaxOffset
      /\ data' = out.blobs /\ map' = out.chunks /\ window' = target
      /\ stats' = IF target = window THEN stats
                  ELSE [full |-> stats.full - snapshot.full,
                        partial |-> stats.partial - snapshot.partial]
      /\ ReaderLeftBehind /\ size' = size /\ content' = content /\ ops' = ops
  BY <1>3, <1>4, <1>5, <1>6
<1>8. SoundFile(out.chunks, target, out.blobs, size, content) /\ Aligned(out.chunks, target)
  BY <1>2, <1>5, <1>6, <1>7, CompactedSound
<1>9. FileSound'
  BY <1>4, <1>7, <1>8 DEF FileSound
<1>10. ReaderSound'
  BY <1>1, <1>2, <1>7, ReaderLeft
<1>11. BytesNumbered'
  BY <1>1, <1>7 DEF BytesNumbered
<1>12. CountersTyped'
  <2>1. stats \in [full : Nat, partial : Nat] /\ ops \in 0 .. MaxOps
    BY <1>1 DEF CountersTyped
  <2>2. snapshot.full \in 0 .. stats.full /\ snapshot.partial \in 0 .. stats.partial
    BY DEF Snapshots
  <2>3. stats.full - snapshot.full \in Nat /\ stats.partial - snapshot.partial \in Nat
    BY <2>1, <2>2
  <2>4. stats' \in [full : Nat, partial : Nat]
    BY <1>7, <2>1, <2>3
  <2>5. QED
    BY <1>7, <2>1, <2>4 DEF CountersTyped
<1>13. PacksAlways
  BY <1>7, <1>8 DEF PacksAlways
<1>14. QED
  BY <1>9, <1>10, <1>11, <1>12, <1>13 DEF IndInv

LEMMA ReadStep ==
    ASSUME IndInv, ReadBegins
    PROVE  IndInv' /\ PacksAlways
<1>1. FileSound /\ BytesNumbered /\ CountersTyped
  BY DEF IndInv
<1>2. /\ map \in Seq(Chunks) /\ size \in 0 .. MaxOffset /\ window \in Nat \ {0}
      /\ content \in [0 .. MaxOffset -> Byte]
      /\ SoundFile(map, window, data, size, content)
  BY <1>1, FileTypes
<1>3. PICK d : d = << >> /\ d \in Seq(Seq(Byte))
  <2>1. << >> \in Seq(Seq(Byte))
    OBVIOUS
  <2>2. QED
    BY <2>1, Zenon
<1>4. reader' = [busy |-> TRUE, here |-> TRUE, map |-> map, window |-> window,
                 size |-> size, content |-> content, data |-> d]
  BY <1>3 DEF ReadBegins
<1>5. UNCHANGED <<map, size, window, data, stats, content, ops>>
  BY DEF ReadBegins
<1>6. /\ reader' \in Readers /\ reader'.here /\ reader'.map = map /\ reader'.window = window
      /\ reader'.size = size /\ reader'.content = content
  BY <1>2, <1>3, <1>4 DEF Readers
<1>7. ReaderSound'
  BY <1>2, <1>5, <1>6 DEF ReaderSound
<1>8. FileSound' /\ BytesNumbered' /\ CountersTyped'
  BY <1>1, <1>5 DEF FileSound, BytesNumbered, CountersTyped
<1>9. PacksAlways
  BY <1>5 DEF PacksAlways
<1>10. QED
  BY <1>7, <1>8, <1>9 DEF IndInv

LEMMA StepSound ==
    ASSUME IndInv, [Next]_vars
    PROVE  IndInv' /\ PacksAlways
<1>1. ASSUME NEW lo \in Points, NEW hi \in Points, Write(lo, hi) PROVE IndInv' /\ PacksAlways
  BY <1>1, WriteStep
<1>2. ASSUME NEW lo \in Points, NEW hi \in Points, WriteFails(lo, hi)
      PROVE  IndInv' /\ PacksAlways
  BY <1>2, WriteFailsStep
<1>3. ASSUME NEW n \in Points, Truncate(n) PROVE IndInv' /\ PacksAlways
  BY <1>3, TruncateStep
<1>4. ASSUME NEW n \in Points, TruncateFails(n) PROVE IndInv' /\ PacksAlways
  BY <1>4, TruncateFailsStep
<1>5. CASE CompactVerbatim
  BY <1>5, VerbatimStep
<1>6. CASE CompactRepack
  BY <1>6, RepackStep
<1>7. CASE ReadBegins
  BY <1>7, ReadStep
<1>8. CASE UNCHANGED vars
  <2>1. UNCHANGED <<map, size, window, data, stats, reader, content, ops>>
    BY <1>8 DEF vars
  <2>2. IndInv'
    BY <2>1 DEF IndInv, FileSound, ReaderSound, BytesNumbered, CountersTyped
  <2>3. QED
    BY <2>1, <2>2 DEF PacksAlways
<1>9. QED
  BY <1>1, <1>2, <1>3, <1>4, <1>5, <1>6, <1>7, <1>8 DEF Next

-----------------------------------------------------------------------------
(* The theorems.                                                           *)

\* The inductive invariant holds: the map leads to the bytes the file must have,
\* and so does the map of a read, in the data file it belongs to.
THEOREM ChunkInvariant == Spec => []IndInv
<1>1. IndInv /\ [Next]_vars => IndInv'
  BY StepSound
<1>2. QED
  BY InitSound, <1>1, PTL DEF Spec

LEMMA InvTyped == IndInv => TypeOK
<1> SUFFICES ASSUME IndInv PROVE TypeOK
  OBVIOUS
<1>1. FileSound /\ CountersTyped
  BY DEF IndInv
<1>2. QED
  BY <1>1, FileTypes DEF TypeOK, CountersTyped

\* The values the file, its data and its counters have.
THEOREM ChunksTyped == Spec => []TypeOK
BY ChunkInvariant, InvTyped, PTL

LEMMA InvMapSound == IndInv => MapSound
<1> SUFFICES ASSUME IndInv PROVE MapSound
  OBVIOUS
<1>1. SoundMap(map, size, data) /\ map \in Seq(Chunks)
  BY FileTypes DEF IndInv
<1>2. ASSUME NEW i \in DOMAIN map, i > 1 PROVE End(map[i - 1]) <= map[i].lo
  <2>1. PICK h \in DOMAIN map : h = i - 1 /\ h < i
    BY <1>1, <1>2
  <2>2. QED
    BY <1>1, <2>1 DEF SoundMap
<1>3. QED
  BY <1>1, <1>2 DEF SoundMap, MapSound

\* The chunks are in order, do not overlap, lie within the file and are held by
\* their blobs, after any writes, truncates and compactions, failed ones too.
THEOREM MapAlwaysSound == Spec => []MapSound
BY ChunkInvariant, InvMapSound, PTL

LEMMA SoundReads ==
    ASSUME NEW m, NEW w, NEW d, NEW n, NEW bytes, SoundFile(m, w, d, n, bytes)
    PROVE  Reads(m, w, d, n, bytes)
<1>1. SUFFICES ASSUME NEW p \in Points, p <= n
               PROVE  ReadAll(m, w, d, n, p) = [k \in 1 .. n - p |-> bytes[p + k - 1]]
  BY DEF Reads
<1>2. p \in 0 .. n
  BY <1>1, PointsAre, ConstantsAssumption DEF SoundFile
<1>3. ReadAll(m, w, d, n, p) = Part(bytes, p, n)
  BY <1>2, ReadAllIs
<1>4. QED
  BY <1>3 DEF Part

LEMMA InvContentRead == IndInv => ContentRead
BY SoundReads DEF IndInv, FileSound, ReaderSound, ContentRead

\* A read returns the bytes last written, and one in progress those the file had
\* when it began, whatever windows, offsets and layouts the file has.
THEOREM ReadsReturnContent == Spec => []ContentRead
BY ChunkInvariant, InvContentRead, PTL

LEMMA StepPacks ==
    ASSUME IndInv, [Next]_vars
    PROVE  [Packed(map, window) \/ (map' # map /\ content' = content /\ size' = size)
               => Packed(map', window')]_vars
<1>1. IndInv' /\ PacksAlways
  BY StepSound
<1>2. SoundMap(map, size, data) /\ ValidWindow(window)
  BY FileTypes DEF IndInv
<1>3. SoundMap(map', size', data') /\ ValidWindow(window')
  BY <1>1 DEF IndInv, FileSound, SoundFile
<1>4. Packed(map, window) <=> Aligned(map, window)
  BY <1>2, PackedIs
<1>5. Packed(map', window') <=> Aligned(map', window')
  BY <1>3, PackedIs
<1>6. QED
  BY <1>1, <1>4, <1>5 DEF PacksAlways

\* A packed map stays packed, and a compaction that changes a map packs it.
THEOREM PackedForGood == Spec => StaysPacked
<1>1. IndInv /\ [Next]_vars
      => [Packed(map, window) \/ (map' # map /\ content' = content /\ size' = size)
             => Packed(map', window')]_vars
  BY StepPacks
<1>2. QED
  BY ChunkInvariant, <1>1, PTL DEF Spec, StaysPacked

=============================================================================
