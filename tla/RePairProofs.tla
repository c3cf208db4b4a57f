---------------------------- MODULE RePairProofs ----------------------------
(* Chunk tasks share no word of the bit array where they hold no mutex      *)
(* (RePair's MutexDiscipline), every step leaves less to do                 *)
(* (EveryStepAdvances), symbols are made of older ones (TypeOK), and the    *)
(* count of cached positions is exact (CacheSizeExact), for any input, chunk*)
(* size, word and limits.                                                   *)
EXTENDS RePair, FiniteSetTheorems, WellFoundedInduction, TLAPS

(***************************************************************************)
(* Numbers.                                                                *)
(***************************************************************************)
(* A set of natural numbers that is not empty has a least one.              *)
LEMMA Least ==
    ASSUME NEW T \in SUBSET Nat, T # {}
    PROVE  \E x \in T : \A y \in T : x <= y
<1> DEFINE R == OpToRel(<, Nat)
<1>1. IsWellFoundedOn(R, Nat)
  BY NatLessThanWellFounded
<1>2. \A x, y \in Nat : y < x => <<y, x>> \in R
  BY Zenon DEF OpToRel
<1> HIDE DEF R
<1>3. \E x \in T : \A y \in T : ~ (<<y, x>> \in R)
  BY <1>1, WFMin
<1>4. PICK x \in T : \A y \in T : ~ (<<y, x>> \in R)
  BY <1>3, Zenon
<1>5. ASSUME NEW y \in T PROVE x <= y
  <2>1. ~ (<<y, x>> \in R)
    BY <1>4, Zenon
  <2>2. x \in Nat /\ y \in Nat
    OBVIOUS
  <2>3. ~(y < x)
    BY <1>2, <2>1, <2>2, Zenon
  <2> QED
    BY <2>2, <2>3
<1> QED
  BY <1>5

LEMMA MinFact ==
    ASSUME NEW S \in SUBSET Nat, S # {} PROVE Min(S) \in S /\ \A m \in S : Min(S) <= m
  BY Least DEF Min

(* One that has a bound has a greatest one.                                 *)
LEMMA MaxFact ==
    ASSUME NEW S \in SUBSET Nat, S # {}, NEW top \in Nat, \A m \in S : m <= top
    PROVE  Max(S) \in S /\ \A m \in S : m <= Max(S)
<1> DEFINE T == {n \in Nat : \A m \in S : m <= n}
<1>1. PICK n \in T : \A k \in T : n <= k
  BY Least
<1>2. n \in S
  <2>1. SUFFICES ASSUME n \notin S PROVE FALSE
    OBVIOUS
  <2>2. PICK m \in S : TRUE
    OBVIOUS
  <2>3. n # 0 /\ n - 1 \in Nat /\ \A k \in S : k <= n - 1
    BY <1>1, <2>1, <2>2
  <2> QED
    BY <1>1, <2>3
<1> QED
  BY <1>1, <1>2 DEF Max

LEMMA MaxOfTwo == ASSUME NEW a \in Int, NEW b \in Int PROVE Max({a, b}) = IF a >= b THEN a ELSE b
  BY DEF Max

LEMMA MinOfTwo == ASSUME NEW a \in Int, NEW b \in Int PROVE Min({a, b}) = IF a <= b THEN a ELSE b
  BY DEF Min

(* A quotient and a remainder.                                              *)
LEMMA Quotient ==
    ASSUME NEW n \in Nat, NEW d \in Nat \ {0}
    PROVE  n \div d \in Nat /\ d * (n \div d) <= n /\ n < d * (n \div d) + d
  OBVIOUS

LEMMA Remainder ==
    ASSUME NEW n \in Nat, NEW d \in Nat \ {0}
    PROVE  n % d \in 0 .. d - 1 /\ (n % d) + d * (n \div d) = n
<1> DEFINE q == n \div d
<1>1. q \in Nat /\ d * q \in Int /\ n % d = n - d * q
  BY Quotient
<1>2. n % d \in 0 .. d - 1
  OBVIOUS
<1> HIDE DEF q
<1>3. (n % d) + d * q = n
  BY <1>1
<1> QED
  BY <1>2, <1>3 DEF q

LEMMA Scaled ==
    ASSUME NEW a \in Nat, NEW b \in Nat, NEW d \in Nat, a <= b
    PROVE  a * d <= b * d /\ d * a <= d * b
<1>1. PICK k \in Nat : b = a + k
  <2>1. b - a \in Nat /\ b = a + (b - a)
    OBVIOUS
  <2> QED
    BY <2>1
<1>2. b * d = a * d + k * d /\ k * d \in Nat
  BY <1>1
<1> QED
  BY <1>2

(* A number below d * e has a quotient below e.                             *)
LEMMA SmallQuotient ==
    ASSUME NEW n \in Nat, NEW d \in Nat \ {0}, NEW e \in Nat, n < d * e
    PROVE  n \div d < e
<1> DEFINE q == n \div d
<1>1. q \in Nat /\ d * q <= n
  BY Quotient
<1> HIDE DEF q
<1>2. q < e
  <2>1. SUFFICES ASSUME e <= q PROVE FALSE
    BY <1>1
  <2>2. d * e <= d * q /\ d * e \in Int /\ d * q \in Int
    BY <1>1, <2>1, Scaled
  <2> QED
    BY <1>1, <2>2
<1> QED
  BY <1>2 DEF q

(* Numbers in the order of their quotients.                                 *)
LEMMA QuotientOrder ==
    ASSUME NEW m \in Nat, NEW n \in Nat, NEW d \in Nat \ {0}
    PROVE  /\ m <= n => m \div d <= n \div d
           /\ m + d <= n => m \div d < n \div d
           /\ \A k \in Nat : m < k * d /\ k * d <= n => m \div d < n \div d
<1> DEFINE p == m \div d
           q == n \div d
<1>1. /\ p \in Nat /\ d * p <= m /\ m < d * p + d
      /\ q \in Nat /\ d * q <= n /\ n < d * q + d
  BY Quotient
<1> HIDE DEF p, q
<1>2. \A i, j \in Nat : i < j => d * i + d <= d * j
  <2> TAKE i, j \in Nat
  <2>1. i < j => d * (i + 1) <= d * j
    BY Scaled
  <2>2. d * (i + 1) = d * i + d
    OBVIOUS
  <2> QED
    BY <2>1, <2>2
<1>3. \A i \in Nat : d * i \in Nat /\ i * d = d * i
  OBVIOUS
<1>4. m <= n => p <= q
  BY <1>1, <1>2, <1>3
<1>5. m + d <= n => p < q
  BY <1>1, <1>2, <1>3
<1>6. ASSUME NEW k \in Nat, m < k * d, k * d <= n PROVE p < q
  <2>1. p < k
    BY <1>1, <1>2, <1>3, <1>6
  <2>2. k <= q
    BY <1>1, <1>2, <1>3, <1>6
  <2> QED
    BY <1>1, <2>1, <2>2
<1> QED
  BY <1>4, <1>5, <1>6 DEF p, q

(***************************************************************************)
(* Chunks.                                                                 *)
(***************************************************************************)
Top(c) == Beg(c) + ChunkSize
ShapeOK ==
    /\ shape \in [size : Nat \ {0}, chunkSize : Nat \ {0}]
    /\ ChunkSize % Word = 0 \/ Size <= Word

LEMMA WordType == Word \in Nat \ {0} /\ Word >= 12 /\ Base \in Nat \ {0, 1}
  BY ArrayAssumption, RePairAssumption

LEMMA Numbers == ShapeOK => Size \in Nat \ {0} /\ ChunkSize \in Nat \ {0} /\ Index \subseteq Nat
  BY DEF ShapeOK, Size, ChunkSize, Index

(* Enough chunks for the bytes, and enough bits.                            *)
LEMMA Ceiling ==
    ASSUME NEW n \in Nat \ {0}, NEW d \in Nat \ {0}
    PROVE  /\ CeilDiv(n, d) \in Nat \ {0}
           /\ n <= CeilDiv(n, d) * d /\ (CeilDiv(n, d) - 1) * d < n
<1> DEFINE q == (n + d - 1) \div d
<1>1. n + d - 1 \in Nat
  OBVIOUS
<1>2. q \in Nat /\ d * q <= n + d - 1 /\ n + d - 1 < d * q + d
  BY <1>1, Quotient
<1> HIDE DEF q
<1>3. q # 0
  BY <1>2
<1>4. d * q = q * d /\ (q - 1) * d = q * d - d /\ q * d \in Int
  BY <1>2
<1>5. q \in Nat \ {0} /\ n <= q * d /\ (q - 1) * d < n
  BY <1>2, <1>3, <1>4
<1> QED
  BY <1>5 DEF q, CeilDiv

LEMMA Begins ==
    ASSUME ShapeOK
    PROVE  /\ \A c \in Nat : Beg(c) \in Nat /\ Top(c) \in Nat /\ Beg(c + 1) = Top(c) /\ Beg(c) < Top(c)
           /\ \A c, d \in Nat : c < d => Top(c) <= Beg(d)
           /\ \A c, d \in Nat : c < d => Beg(c) < Beg(d)
<1>1. ChunkSize \in Nat \ {0}
  BY Numbers
<1>2. \A c \in Nat : c * ChunkSize \in Nat /\ (c + 1) * ChunkSize = c * ChunkSize + ChunkSize
  BY <1>1
<1>3. \A c, d \in Nat : c < d => (c + 1) * ChunkSize <= d * ChunkSize
  <2> TAKE c, d \in Nat
  <2> HAVE c < d
  <2> QED
    BY <1>1, Scaled
<1> QED
  BY <1>1, <1>2, <1>3 DEF Beg, Top

LEMMA Chunks ==
    ASSUME ShapeOK
    PROVE  /\ NChunks \in Nat \ {0} /\ Chunk = 0 .. NChunks - 1 /\ NChunks - 1 \in Chunk
           /\ \A c \in Chunk : c \in Nat /\ c < NChunks /\ Beg(c) < Size
           /\ Size <= Top(NChunks - 1)
           /\ \A c \in Chunk : c + 1 < NChunks => c + 1 \in Chunk /\ Top(c) < Size
<1>1. /\ NChunks \in Nat \ {0} /\ Size <= NChunks * ChunkSize
      /\ (NChunks - 1) * ChunkSize < Size
  BY Numbers, Ceiling DEF NChunks
<1>2. Chunk = 0 .. NChunks - 1
  BY DEF Chunk
<1>3. ChunkSize \in Nat \ {0} /\ Size \in Nat
  BY Numbers
<1>4. \A c \in Chunk : c \in Nat /\ c < NChunks /\ Beg(c) < Size
  <2> TAKE c \in Chunk
  <2>1. c \in Nat /\ c <= NChunks - 1 /\ NChunks - 1 \in Nat
    BY <1>1, <1>2
  <2>2. c * ChunkSize <= (NChunks - 1) * ChunkSize
    BY <1>3, <2>1, Scaled
  <2>3. c * ChunkSize \in Int /\ (NChunks - 1) * ChunkSize \in Int
    BY <1>3, <2>1
  <2>4. Beg(c) < Size
    BY <1>1, <1>3, <2>2, <2>3 DEF Beg
  <2> QED
    BY <1>1, <2>1, <2>4
<1>5. Size <= Top(NChunks - 1)
  <2>1. NChunks * ChunkSize = (NChunks - 1) * ChunkSize + ChunkSize
    BY <1>1, <1>3
  <2> QED
    BY <1>1, <2>1 DEF Top, Beg
<1>6. \A c \in Chunk : c + 1 < NChunks => c + 1 \in Chunk /\ Top(c) < Size
  BY <1>1, <1>2, <1>4, Begins
<1>7. NChunks - 1 \in Chunk
  BY <1>1, <1>2
<1> QED
  BY <1>1, <1>2, <1>4, <1>5, <1>6, <1>7

LEMMA ChunkOf ==
    ASSUME ShapeOK, NEW i \in Nat
    PROVE  /\ ChunkIdx(i) \in Nat /\ Beg(ChunkIdx(i)) <= i /\ i < Top(ChunkIdx(i))
           /\ i \in Index => ChunkIdx(i) \in Chunk
           /\ \A c \in Nat : Beg(c) <= i /\ i < Top(c) => ChunkIdx(i) = c
<1> DEFINE k == ChunkIdx(i)
<1>1. ChunkSize \in Nat \ {0} /\ Size \in Nat
  BY Numbers
<1>2. /\ k \in Nat /\ ChunkSize * k <= i /\ i < ChunkSize * k + ChunkSize
      /\ ChunkSize * k = k * ChunkSize
  BY <1>1, Quotient DEF ChunkIdx
<1>3. k \in Nat /\ Beg(k) <= i /\ i < Top(k)
  BY <1>2 DEF Beg, Top
<1> HIDE DEF k
<1>4. ASSUME NEW c \in Nat, Beg(c) <= i, i < Top(c) PROVE k = c
  <2>1. Beg(c) \in Nat /\ Top(c) \in Nat /\ Beg(k) \in Nat /\ Top(k) \in Nat
    BY <1>3, Begins
  <2>2. ~(c < k)
    BY <1>3, <1>4, <2>1, Begins
  <2>3. ~(k < c)
    BY <1>3, <1>4, <2>1, Begins
  <2> QED
    BY <1>3, <2>2, <2>3
<1>5. ASSUME i \in Index PROVE k \in Chunk
  <2>1. i < Size
    BY <1>1, <1>5 DEF Index
  <2>2. NChunks - 1 \in Nat /\ NChunks \in Nat /\ Size <= Top(NChunks - 1) /\ Beg(k) \in Nat
    BY <1>3, Begins, Chunks
  <2>3. ~(NChunks - 1 < k)
    BY <1>1, <1>3, <2>1, <2>2, Begins
  <2> QED
    BY <1>3, <2>2, <2>3, Chunks
<1> QED
  BY <1>3, <1>4, <1>5 DEF k

LEMMA Bits == ASSUME ShapeOK PROVE BitCount \in Nat /\ Size <= BitCount
<1>1. CeilDiv(Size, Word) \in Nat /\ Size <= CeilDiv(Size, Word) * Word
  BY Numbers, WordType, Ceiling
<1>2. BitCount = CeilDiv(Size, Word) * Word
  BY <1>1, WordType DEF BitCount
<1> QED
  BY <1>1, <1>2, WordType

LEMMA ChunkEnds ==
    ASSUME ShapeOK
    PROVE  \A c \in Chunk : ChunkEnd(c) \in Beg(c) + 1 .. Top(c) /\ ChunkEnd(c) <= Size
<1> TAKE c \in Chunk
<1>1. Size \in Int /\ Top(c) \in Int /\ Beg(c) \in Nat /\ Beg(c) < Size /\ Beg(c) < Top(c)
  BY Numbers, Begins, Chunks
<1>2. ChunkEnd(c) = IF Size <= Top(c) THEN Size ELSE Top(c)
  BY <1>1, MinOfTwo DEF ChunkEnd, Top
<1> QED
  BY <1>1, <1>2

(***************************************************************************)
(* The array.                                                              *)
(***************************************************************************)
(* The used range of a chunk ends at most one byte inside the next chunk.   *)
Sizes(s) == \A c \in Chunk : s.end[c] \in Beg(c) + 1 .. Top(c) + 1
Own(s) == \A c \in Chunk : \A i \in Beg(c) .. s.end[c] - 1 : s.used[i] => ChunkIdx(i) = c
LastByte(s) == \A i \in Positions(s) : i + 1 = s.end[NChunks - 1] => SymbolAt(s, i) < Base
Sane(s) == s \in SymbolArrays /\ Sizes(s) /\ Own(s) /\ LastByte(s)

LEMMA ArrayType ==
    ASSUME ShapeOK, NEW s \in SymbolArrays
    PROVE  /\ s.data \in [Index -> Byte] /\ s.used \in [0 .. BitCount - 1 -> BOOLEAN]
           /\ s.end \in [Chunk -> 0 .. Size] /\ s.bitPast \in BOOLEAN /\ s.bytePast \in Byte
           /\ \A c \in Chunk : s.end[c] \in Nat /\ s.end[c] <= Size
  BY Numbers DEF SymbolArrays

(* A position is in the used range of its chunk; a used byte in the used    *)
(* range of a chunk is a position.                                          *)
LEMMA PositionFacts ==
    ASSUME ShapeOK, NEW s, Sane(s)
    PROVE  /\ \A p \in Positions(s) :
                /\ p \in Nat /\ p < Size /\ p \in Index /\ p \in 0 .. BitCount - 1 /\ s.used[p]
                /\ ChunkIdx(p) \in Chunk /\ p < s.end[ChunkIdx(p)]
                /\ Beg(ChunkIdx(p)) <= p /\ p < Top(ChunkIdx(p))
           /\ \A c \in Chunk, i \in Nat :
                Beg(c) <= i /\ i < s.end[c] =>
                   /\ i < Size /\ i \in Index /\ i \in 0 .. BitCount - 1
                   /\ s.used[i] => i \in Positions(s) /\ ChunkIdx(i) = c /\ i < Top(c)
<1>1. /\ Size \in Nat /\ BitCount \in Nat /\ Size <= BitCount
      /\ \A c \in Chunk : s.end[c] \in Nat /\ s.end[c] <= Size /\ Beg(c) \in Nat
  BY Numbers, Bits, ArrayType, Begins, Chunks DEF Sane
<1>2. ASSUME NEW p \in Positions(s)
      PROVE  /\ p \in Nat /\ p < Size /\ p \in Index /\ p \in 0 .. BitCount - 1 /\ s.used[p]
             /\ ChunkIdx(p) \in Chunk /\ p < s.end[ChunkIdx(p)]
             /\ Beg(ChunkIdx(p)) <= p /\ p < Top(ChunkIdx(p))
  <2>1. p \in Index /\ s.used[p] /\ p < s.end[ChunkIdx(p)]
    BY DEF Positions
  <2>2. p \in Nat /\ p < Size
    BY <1>1, <2>1 DEF Index
  <2> QED
    BY <1>1, <2>1, <2>2, ChunkOf
<1>3. ASSUME NEW c \in Chunk, NEW i \in Nat, Beg(c) <= i, i < s.end[c]
      PROVE  /\ i < Size /\ i \in Index /\ i \in 0 .. BitCount - 1
             /\ s.used[i] => i \in Positions(s) /\ ChunkIdx(i) = c /\ i < Top(c)
  <2>1. i < Size /\ i \in Index /\ i \in 0 .. BitCount - 1
    BY <1>1, <1>3 DEF Index
  <2>2. ASSUME s.used[i] PROVE i \in Positions(s) /\ ChunkIdx(i) = c /\ i < Top(c)
    <3>1. ChunkIdx(i) = c
      BY <1>1, <1>3, <2>2 DEF Sane, Own
    <3>2. i < Top(c)
      BY <3>1, ChunkOf
    <3> QED
      BY <1>3, <2>1, <2>2, <3>1, <3>2 DEF Positions
  <2> QED
    BY <2>1, <2>2
<1> QED
  BY <1>2, <1>3

(* A symbol is less than Base * Base; it takes a second byte when it is not *)
(* less than Base, and then no symbol starts there.                         *)
LEMMA SymbolFacts ==
    ASSUME ShapeOK, NEW s, Sane(s), NEW p \in Positions(s)
    PROVE  /\ SymbolAt(s, p) \in 0 .. Base * Base - 1
           /\ SymbolAt(s, p) = s.data[p] + (IF Used(s, p + 1) THEN 0 ELSE Base * DataAt(s, p + 1))
           /\ SymbolAt(s, p) >= Base => /\ p + 1 < Size /\ p + 1 # s.end[NChunks - 1]
                                        /\ p + 1 \in 0 .. BitCount - 1 /\ ~s.used[p + 1]
<1> DEFINE v == SymbolAt(s, p)
<1>1. /\ p \in Nat /\ p < Size /\ p \in Index /\ p \in 0 .. BitCount - 1 /\ s.used[p]
      /\ ChunkIdx(p) \in Chunk /\ p < s.end[ChunkIdx(p)]
  BY PositionFacts
<1>2. Size \in Nat /\ BitCount \in Nat /\ Size <= BitCount /\ s.data[p] \in Byte /\ s \in SymbolArrays
  BY <1>1, Numbers, Bits, ArrayType DEF Sane
<1>3. DataAt(s, p + 1) \in Byte
  BY <1>1, <1>2, ArrayType DEF DataAt, Index
<1>4. v = s.data[p] + (IF Used(s, p + 1) THEN 0 ELSE Base * DataAt(s, p + 1))
  BY <1>1, <1>2 DEF SymbolAt, GetSymbol, Iter, Used
<1>5. v \in 0 .. Base * Base - 1
  <2>1. \A m, n \in Byte : m + Base * n \in 0 .. Base * Base - 1
    <3> TAKE m, n \in Byte
    <3>1. m \in Nat /\ m <= Base - 1 /\ n \in Nat /\ n <= Base - 1 /\ Base \in Nat /\ Base - 1 \in Nat
      BY WordType DEF Byte
    <3>2. Base * n <= Base * (Base - 1) /\ Base * n \in Nat
      BY <3>1, Scaled
    <3>3. Base * (Base - 1) = Base * Base - Base /\ Base * Base \in Int
      BY <3>1
    <3> QED
      BY <3>1, <3>2, <3>3
  <2>2. s.data[p] + 0 = s.data[p] + Base * 0 /\ 0 \in Byte
    BY <1>2, WordType DEF Byte
  <2> QED
    BY <1>2, <1>3, <1>4, <2>1, <2>2
<1>6. ASSUME v >= Base
      PROVE  /\ p + 1 < Size /\ p + 1 # s.end[NChunks - 1]
             /\ p + 1 \in 0 .. BitCount - 1 /\ ~s.used[p + 1]
  <2>1. p + 1 # s.end[NChunks - 1]
    <3>1. v \in Int /\ Base \in Int
      BY <1>5, WordType
    <3> QED
      BY <1>6, <3>1 DEF Sane, LastByte
  <2>2. p + 1 < Size
    <3>1. SUFFICES ASSUME p + 1 = Size PROVE FALSE
      BY <1>1, <1>2
    <3>2. ChunkIdx(p) = NChunks - 1
      <4>1. /\ NChunks - 1 \in Nat /\ NChunks - 1 \in Chunk /\ Size <= Top(NChunks - 1)
            /\ Beg(NChunks - 1) \in Nat /\ Top(NChunks - 1) \in Nat /\ Beg(NChunks - 1) < Size
        BY Chunks, Begins
      <4> QED
        BY <1>1, <1>2, <3>1, <4>1, ChunkOf
    <3>3. s.end[NChunks - 1] = Size
      BY <1>1, <1>2, <3>1, <3>2, ArrayType
    <3> QED
      BY <2>1, <3>1, <3>3
  <2>3. ~s.used[p + 1]
    <3>1. p + 1 < BitCount /\ Used(s, p + 1) = s.used[p + 1]
      BY <1>1, <1>2, <2>2 DEF Used
    <3>2. s.data[p] < Base /\ s.data[p] \in Int
      BY <1>2, WordType DEF Byte
    <3> QED
      BY <1>4, <1>6, <3>1, <3>2, WordType
  <2> QED
    BY <1>1, <1>2, <2>1, <2>2, <2>3
<1> QED
  BY <1>4, <1>5, <1>6

(***************************************************************************)
(* Iterators.                                                              *)
(***************************************************************************)
IterType == [idx : Nat, chunk : Nat, end : Nat]
Past(s, i) == i >= s.end[NChunks - 1] /\ \A p \in Positions(s) : p < i
(* What was read at an index: the symbol there, or -1 past the last one.    *)
At(s, i, val) == (i \in Positions(s) /\ val = SymbolAt(s, i)) \/ (Past(s, i) /\ val = -1)
(* An iterator somewhere in the used range of a chunk, or at its begin.     *)
Inside(s, it) == it.idx \in Index /\ it.chunk = ChunkIdx(it.idx) /\ it.end = s.end[it.chunk]
Beyond(s, it) == Past(s, it.idx) /\ it.chunk = NChunks /\ it.end <= it.idx
OnSymbol(s, it) == (it.idx \in Positions(s) /\ Inside(s, it)) \/ Beyond(s, it)
NoneBetween(s, i, j) == \A p \in Positions(s) : ~(i < p /\ p < j)

LEMMA InsideFacts ==
    ASSUME ShapeOK, NEW s, NEW it \in IterType, Inside(s, it)
    PROVE  /\ it.chunk \in Chunk /\ it.chunk \in Nat
           /\ Beg(it.chunk) <= it.idx /\ it.idx < Top(it.chunk)
           /\ Beg(it.chunk) \in Nat /\ Top(it.chunk) \in Nat
<1> DEFINE k == ChunkIdx(it.idx)
<1>1. it.idx \in Nat /\ it.idx \in Index /\ it.chunk = k
  BY DEF Inside, IterType
<1>2. k \in Chunk /\ k \in Nat /\ Beg(k) <= it.idx /\ it.idx < Top(k)
  BY <1>1, ChunkOf
<1> HIDE DEF k
<1>3. Beg(k) \in Nat /\ Top(k) \in Nat
  BY <1>2, Begins
<1> QED
  BY <1>1, <1>2, <1>3

(* moveToNext goes to the next symbol, or past the last one.                *)
LEMMA NextFacts ==
    ASSUME ShapeOK, NEW s, Sane(s), NEW it \in IterType, Inside(s, it) \/ Beyond(s, it)
    PROVE  /\ MoveToNext(s, it) \in IterType /\ OnSymbol(s, MoveToNext(s, it))
           /\ it.idx < MoveToNext(s, it).idx /\ NoneBetween(s, it.idx, MoveToNext(s, it).idx)
<1> DEFINE here  == {i \in it.idx + 1 .. it.end - 1 : s.used[i]}
           later == {i \in Positions(s) : ChunkIdx(i) > it.chunk}
           last  == IF it.chunk >= NChunks - 1 THEN it.end ELSE s.end[NChunks - 1]
           n     == MoveToNext(s, it)
<1>1. it.idx \in Nat /\ it.chunk \in Nat /\ it.end \in Nat
  BY DEF IterType
<1>2. n = CASE here # {} -> [it EXCEPT !.idx = Min(here)]
            [] here = {} /\ later # {} -> Iter(s, Min(later))
            [] OTHER -> [idx |-> Max({it.idx + 1, last}), chunk |-> NChunks, end |-> last]
  BY ZenonT(60) DEF MoveToNext
<1> HIDE DEF n
<1>3. /\ NChunks \in Nat /\ NChunks - 1 \in Chunk /\ NChunks - 1 \in Nat
      /\ \A c \in Chunk : c \in Nat /\ c < NChunks /\ s.end[c] \in Nat
  BY Chunks, ArrayType DEF Sane
<1>4. here \in SUBSET Nat /\ later \in SUBSET Nat
  BY <1>1, PositionFacts
<1>5. CASE here # {}
  <2>1. Min(here) \in here /\ \A m \in here : Min(here) <= m
    BY <1>4, <1>5, MinFact
  <2> DEFINE m == Min(here)
  <2>2. m \in Nat /\ it.idx < m /\ m < it.end /\ s.used[m] /\ \A k \in here : m <= k
    BY <1>1, <2>1
  <2>3. n = [it EXCEPT !.idx = m]
    BY <1>2, <1>5
  <2> HIDE DEF m
  <2>4. n \in IterType /\ n.idx = m /\ n.chunk = it.chunk /\ n.end = it.end
    BY <2>2, <2>3 DEF IterType
  <2>5. Inside(s, it)
    BY <1>1, <2>2 DEF Beyond
  <2>6. it.chunk \in Chunk /\ Beg(it.chunk) <= it.idx /\ it.end = s.end[it.chunk] /\ Beg(it.chunk) \in Nat
    BY <1>1, <2>5, ChunkOf, Begins, ZenonT(60) DEF Inside
  <2>7. m \in Positions(s) /\ ChunkIdx(m) = it.chunk /\ m < Top(it.chunk)
    BY <1>1, <2>2, <2>6, PositionFacts
  <2>8. OnSymbol(s, n)
    BY <2>4, <2>6, <2>7, PositionFacts DEF OnSymbol, Inside
  <2>9. ASSUME NEW p \in Positions(s), it.idx < p, p < m PROVE FALSE
    <3>1. p \in Nat /\ ChunkIdx(p) \in Chunk /\ Beg(ChunkIdx(p)) <= p /\ s.used[p]
      BY PositionFacts
    <3>2. p \in here
      BY <1>1, <2>2, <2>9, <3>1
    <3> QED
      BY <2>2, <2>9, <3>1, <3>2
  <2> QED
    BY <2>2, <2>4, <2>8, <2>9 DEF NoneBetween, n
<1>6. CASE here = {} /\ later # {}
  <2>1. Min(later) \in later /\ \A m \in later : Min(later) <= m
    BY <1>4, <1>6, MinFact
  <2> DEFINE m == Min(later)
  <2>2. n = Iter(s, m)
    BY <1>2, <1>6
  <2>3. m \in Positions(s) /\ ChunkIdx(m) > it.chunk /\ \A k \in later : m <= k
    BY <2>1
  <2> HIDE DEF m
  <2>4. m \in Nat /\ m \in Index /\ ChunkIdx(m) \in Chunk /\ Beg(ChunkIdx(m)) <= m
    BY <2>3, PositionFacts
  <2>5. /\ n = [idx |-> m, chunk |-> ChunkIdx(m), end |-> s.end[ChunkIdx(m)]]
        /\ ChunkIdx(m) \in Nat /\ s.end[ChunkIdx(m)] \in Nat /\ ChunkIdx(m) < NChunks
    BY <1>3, <2>2, <2>4 DEF Iter
  <2>6. n \in IterType /\ n.idx = m /\ OnSymbol(s, n)
    BY <2>3, <2>4, <2>5 DEF IterType, OnSymbol, Inside
  <2>7. Inside(s, it)
    BY <1>1, <1>3, <2>3, <2>5 DEF Beyond
  <2>8. it.chunk \in Chunk /\ it.idx < Top(it.chunk) /\ it.end = s.end[it.chunk] /\ Beg(it.chunk) <= it.idx
    BY <1>1, <2>7, ChunkOf DEF Inside
  <2>9. it.idx < m
    <3>1. /\ Top(it.chunk) <= Beg(ChunkIdx(m)) /\ Top(it.chunk) \in Nat /\ Beg(ChunkIdx(m)) \in Nat
      BY <1>1, <2>3, <2>5, Begins
    <3> QED
      BY <1>1, <2>4, <2>8, <3>1
  <2>10. ASSUME NEW p \in Positions(s), it.idx < p, p < m PROVE FALSE
    <3>1. /\ p \in Nat /\ ChunkIdx(p) \in Chunk /\ Beg(ChunkIdx(p)) <= p /\ p < s.end[ChunkIdx(p)]
          /\ s.used[p] /\ p < Top(ChunkIdx(p)) /\ ChunkIdx(p) \in Nat
      BY <1>3, PositionFacts
    <3>2. ~(ChunkIdx(p) > it.chunk)
      BY <2>3, <2>4, <2>10, <3>1
    <3>3. ~(ChunkIdx(p) < it.chunk)
      <4>1. SUFFICES ASSUME ChunkIdx(p) < it.chunk PROVE FALSE
        OBVIOUS
      <4>2. Top(ChunkIdx(p)) <= Beg(it.chunk) /\ Top(ChunkIdx(p)) \in Nat /\ Beg(it.chunk) \in Nat
        BY <1>1, <3>1, <4>1, Begins
      <4> QED
        BY <1>1, <2>8, <2>10, <3>1, <4>2
    <3>4. p \in here
      BY <1>1, <2>8, <2>10, <3>1, <3>2, <3>3
    <3> QED
      BY <1>6, <3>4
  <2> QED
    BY <2>6, <2>9, <2>10 DEF NoneBetween, n
<1>7. CASE here = {} /\ later = {}
  <2>1. n = [idx |-> Max({it.idx + 1, last}), chunk |-> NChunks, end |-> last]
    BY <1>2, <1>7
  <2>2. last \in Nat
    BY <1>1, <1>3
  <2>3. last <= it.idx \/ last = s.end[NChunks - 1]
    <3>1. CASE Inside(s, it)
      <4>1. it.chunk \in Chunk /\ it.end = s.end[it.chunk]
        BY <1>1, <3>1, ChunkOf DEF Inside
      <4> QED
        BY <1>1, <1>3, <4>1
    <3>2. CASE Beyond(s, it)
      BY <1>1, <1>3, <3>2 DEF Beyond
    <3> QED
      BY <3>1, <3>2
  <2>4. ASSUME NEW p \in Positions(s) PROVE p <= it.idx
    <3>1. /\ p \in Nat /\ ChunkIdx(p) \in Chunk /\ Beg(ChunkIdx(p)) <= p /\ p < s.end[ChunkIdx(p)]
          /\ s.used[p] /\ p < Top(ChunkIdx(p)) /\ ChunkIdx(p) \in Nat
      BY <1>3, PositionFacts
    <3>2. CASE Beyond(s, it)
      BY <1>1, <3>1, <3>2 DEF Beyond, Past
    <3>3. CASE Inside(s, it)
      <4>1. /\ it.chunk \in Chunk /\ it.idx < Top(it.chunk) /\ it.end = s.end[it.chunk]
            /\ Beg(it.chunk) <= it.idx /\ Beg(it.chunk) \in Nat
        BY <1>1, <3>3, ChunkOf, Begins DEF Inside
      <4>2. ~(ChunkIdx(p) > it.chunk)
        BY <1>7
      <4>3. CASE ChunkIdx(p) = it.chunk
        <5>1. p \notin here
          BY <1>7
        <5> QED
          BY <1>1, <3>1, <4>1, <4>3, <5>1
      <4>4. CASE ChunkIdx(p) < it.chunk
        <5>1. Top(ChunkIdx(p)) <= Beg(it.chunk) /\ Top(ChunkIdx(p)) \in Nat
          BY <1>1, <3>1, <4>4, Begins
        <5> QED
          BY <1>1, <3>1, <4>1, <5>1
      <4> QED
        BY <1>1, <3>1, <4>2, <4>3, <4>4
    <3> QED
      BY <3>2, <3>3
  <2>5. Past(s, it.idx) \/ last = s.end[NChunks - 1]
    BY <1>1, <1>3, <2>3, ChunkOf DEF Inside, Beyond
  <2> HIDE DEF last
  <2> DEFINE j == Max({it.idx + 1, last})
  <2>6. j \in Nat /\ it.idx < j /\ last <= j
    BY <1>1, <2>2, MaxOfTwo
  <2> HIDE DEF j
  <2>7. n = [idx |-> j, chunk |-> NChunks, end |-> last]
    BY <2>1 DEF j
  <2>8. n \in IterType /\ n.idx = j /\ n.chunk = NChunks /\ n.end = last
    BY <1>3, <2>2, <2>6, <2>7 DEF IterType
  <2>9. \A p \in Positions(s) : p \in Nat /\ p < j /\ ~(it.idx < p)
    BY <1>1, <2>4, <2>6, PositionFacts
  <2>10. j >= s.end[NChunks - 1]
    BY <1>1, <1>3, <2>5, <2>6 DEF Past
  <2> QED
    BY <2>6, <2>8, <2>9, <2>10 DEF NoneBetween, OnSymbol, Beyond, Past, n
<1> QED
  BY <1>5, <1>6, <1>7

(* What an iterator on a symbol reads is the symbol.                        *)
LEMMA ReadFacts ==
    ASSUME ShapeOK, NEW s, Sane(s), NEW it \in IterType, OnSymbol(s, it)
    PROVE  At(s, it.idx, GetSymbol(s, it)) /\ GetSymbol(s, it) \in Int
<1>1. CASE it.idx \in Positions(s) /\ Inside(s, it)
  <2>1. it = Iter(s, it.idx)
    BY <1>1 DEF IterType, Iter, Inside
  <2>2. it.idx # -1
    BY DEF IterType
  <2>3. GetSymbol(s, it) = SymbolAt(s, it.idx)
    BY <2>1, <2>2 DEF SymbolAt
  <2> QED
    BY <1>1, <2>3, SymbolFacts DEF At
<1>2. CASE Beyond(s, it)
  <2>1. it.idx \in Nat /\ it.end \in Nat
    BY DEF IterType
  <2> QED
    BY <1>2, <2>1 DEF Beyond, At, GetSymbol
<1> QED
  BY <1>1, <1>2 DEF OnSymbol

(* A change of the bytes and bits from index o to before h, and perhaps of  *)
(* the end of the chunk that is just that part.                             *)
Changed(s, s2, o, h) ==
    /\ o \in Nat /\ h \in Nat /\ o < h
    /\ s2.bitPast = s.bitPast /\ s2.bytePast = s.bytePast
    /\ \A j \in 0 .. BitCount - 1 : j < o \/ h <= j => s2.used[j] = s.used[j]
    /\ \A j \in Index : j < o \/ h <= j => s2.data[j] = s.data[j]
    /\ \A c \in Chunk : s2.end[c] = s.end[c] \/ (Beg(c) = o /\ Top(c) = h)

LEMMA ChangedFacts ==
    ASSUME ShapeOK, NEW s, NEW s2, Sane(s), Sane(s2), NEW o, NEW h, Changed(s, s2, o, h), NEW p \in Nat
    PROVE  /\ p < o \/ h <= p => (p \in Positions(s) <=> p \in Positions(s2))
           /\ (p + 1 < o \/ h <= p) /\ p \in Positions(s) =>
                 p \in Positions(s2) /\ SymbolAt(s2, p) = SymbolAt(s, p)
<1>1. o \in Nat /\ h \in Nat
  BY DEF Changed
<1>2. Size \in Nat /\ BitCount \in Nat /\ Size <= BitCount
  BY Numbers, Bits
<1>3. ASSUME p < o \/ h <= p PROVE p \in Positions(s) <=> p \in Positions(s2)
  <2>1. SUFFICES ASSUME p \in Index PROVE p \in Positions(s) <=> p \in Positions(s2)
    BY DEF Positions
  <2>2. p < Size /\ p \in 0 .. BitCount - 1
    BY <1>2, <2>1 DEF Index
  <2>3. ChunkIdx(p) \in Chunk /\ Beg(ChunkIdx(p)) <= p /\ p < Top(ChunkIdx(p))
    BY <2>1, ChunkOf
  <2>4. s2.used[p] = s.used[p]
    BY <1>3, <2>2 DEF Changed
  <2>5. s2.end[ChunkIdx(p)] = s.end[ChunkIdx(p)]
    BY <1>1, <1>3, <2>3 DEF Changed
  <2> QED
    BY <2>4, <2>5 DEF Positions
<1>4. ASSUME p + 1 < o \/ h <= p, p \in Positions(s)
      PROVE  p \in Positions(s2) /\ SymbolAt(s2, p) = SymbolAt(s, p)
  <2>1. p \in Positions(s2)
    BY <1>1, <1>3, <1>4
  <2>2. p < Size /\ p \in Index
    BY <1>4, PositionFacts
  <2>3. s2.data[p] = s.data[p]
    BY <1>1, <1>4, <2>2 DEF Changed
  <2>4. Used(s2, p + 1) = Used(s, p + 1)
    BY <1>1, <1>2, <1>4, <2>2 DEF Changed, Used
  <2>5. DataAt(s2, p + 1) = DataAt(s, p + 1)
    BY <1>1, <1>2, <1>4, <2>2 DEF Changed, DataAt, Index
  <2>6. /\ SymbolAt(s, p) = s.data[p] + (IF Used(s, p + 1) THEN 0 ELSE Base * DataAt(s, p + 1))
        /\ SymbolAt(s2, p) = s2.data[p] + (IF Used(s2, p + 1) THEN 0 ELSE Base * DataAt(s2, p + 1))
    BY <1>4, <2>1, SymbolFacts
  <2> QED
    BY <2>1, <2>3, <2>4, <2>5, <2>6
<1> QED
  BY <1>3, <1>4

(***************************************************************************)
(* A task in its loop.                                                     *)
(***************************************************************************)
TaskType(t) ==
    /\ t = [pc |-> "loop", in |-> t.in, out |-> t.out, a |-> t.a, x |-> t.x, idxX |-> t.idxX,
            y |-> t.y, idxY |-> t.idxY, b |-> t.b, idxB |-> t.idxB,
            endLock |-> t.endLock, lastY |-> t.lastY]
    /\ t.in \in IterType
    /\ {t.out, t.idxX, t.idxY, t.idxB, t.endLock} \subseteq Nat

(* The next three symbols it has read, and where the one after them is.     *)
Window(s, c, t) ==
    /\ Beg(c) <= t.out /\ t.out <= t.idxX
    /\ t.idxX < t.idxY /\ t.idxY < t.idxB /\ t.idxB < t.in.idx
    /\ t.out <= Top(c) + 1 /\ t.out <= Size
    /\ At(s, t.idxX, t.x) /\ At(s, t.idxY, t.y) /\ At(s, t.idxB, t.b) /\ OnSymbol(s, t.in)
    /\ NoneBetween(s, t.idxX, t.idxY) /\ NoneBetween(s, t.idxY, t.idxB)
    /\ NoneBetween(s, t.idxB, t.in.idx)
    /\ \A p \in Positions(s) : p < t.idxX => p < Top(c)
    /\ t.idxX >= s.end[c] => t.out > Beg(c)

(* What is behind a change stays as it is.                                  *)
LEMMA Behind ==
    ASSUME ShapeOK, NEW s, NEW s2, Sane(s), Sane(s2), NEW o, NEW h, Changed(s, s2, o, h),
           s2.end[NChunks - 1] = s.end[NChunks - 1], NEW i \in Nat, h <= i
    PROVE  /\ Past(s, i) => Past(s2, i)
           /\ \A val : At(s, i, val) => At(s2, i, val)
           /\ \A j : NoneBetween(s, i, j) => NoneBetween(s2, i, j)
           /\ \A it \in IterType : it.idx = i /\ OnSymbol(s, it) => OnSymbol(s2, it)
<1>1. o \in Nat /\ h \in Nat
  BY DEF Changed
<1>2. \A p \in Nat : h <= p => (p \in Positions(s) <=> p \in Positions(s2))
  BY ChangedFacts
<1>3. \A p \in Positions(s2) : p \in Nat
  BY PositionFacts
<1>4. Past(s, i) => Past(s2, i)
  <2> HAVE Past(s, i)
  <2>1. ASSUME NEW p \in Positions(s2) PROVE p < i
    BY <1>1, <1>2, <1>3, <2>1 DEF Past
  <2> QED
    BY <2>1 DEF Past
<1>5. \A val : At(s, i, val) => At(s2, i, val)
  BY <1>4, ChangedFacts DEF At
<1>6. \A j : NoneBetween(s, i, j) => NoneBetween(s2, i, j)
  BY <1>1, <1>2, <1>3 DEF NoneBetween
<1>7. ASSUME NEW it \in IterType, it.idx = i, OnSymbol(s, it) PROVE OnSymbol(s2, it)
  <2>1. CASE Beyond(s, it)
    BY <1>4, <1>7, <2>1 DEF Beyond, OnSymbol
  <2>2. CASE it.idx \in Positions(s) /\ Inside(s, it)
    <3>1. it.chunk \in Chunk /\ it.idx < Top(it.chunk) /\ Top(it.chunk) \in Nat
      BY <2>2, InsideFacts
    <3>2. s2.end[it.chunk] = s.end[it.chunk]
      BY <1>1, <1>7, <3>1 DEF Changed
    <3> QED
      BY <1>2, <1>7, <2>2, <3>2 DEF Inside, OnSymbol
  <2> QED
    BY <1>7, <2>1, <2>2 DEF OnSymbol
<1> QED
  BY <1>4, <1>5, <1>6, <1>7

(* Changes before the place where it writes.                                *)
LEMMA WindowBefore ==
    ASSUME ShapeOK, NEW s, NEW s2, Sane(s), Sane(s2), NEW o, NEW h, Changed(s, s2, o, h),
           NEW c \in Chunk, NEW t, TaskType(t), Window(s, c, t),
           h <= t.out, h <= Top(c), s2.end[c] = s.end[c], s2.end[NChunks - 1] = s.end[NChunks - 1]
    PROVE  Window(s2, c, t)
<1>1. /\ o \in Nat /\ h \in Nat /\ t.out \in Nat /\ t.idxX \in Nat /\ t.idxY \in Nat /\ t.idxB \in Nat
      /\ t.in \in IterType /\ t.in.idx \in Nat /\ Top(c) \in Nat
  BY Begins, Chunks DEF Changed, TaskType, IterType
<1>2. h <= t.idxX /\ h <= t.idxY /\ h <= t.idxB /\ h <= t.in.idx
  BY <1>1 DEF Window
<1>3. /\ \A p \in Nat : h <= p => (p \in Positions(s) <=> p \in Positions(s2))
      /\ \A p \in Positions(s2) : p \in Nat
  BY ChangedFacts, PositionFacts
<1>4. At(s2, t.idxX, t.x) /\ At(s2, t.idxY, t.y) /\ At(s2, t.idxB, t.b) /\ OnSymbol(s2, t.in)
  BY <1>1, <1>2, Behind DEF Window
<1>5. /\ NoneBetween(s2, t.idxX, t.idxY) /\ NoneBetween(s2, t.idxY, t.idxB)
      /\ NoneBetween(s2, t.idxB, t.in.idx)
  BY <1>1, <1>2, Behind DEF Window
<1>6. \A p \in Positions(s2) : p < t.idxX => p < Top(c)
  BY <1>1, <1>3 DEF Window
<1> QED
  BY <1>4, <1>5, <1>6 DEF Window

(* Changes behind all that it has read.                                     *)
LEMMA WindowAfter ==
    ASSUME ShapeOK, NEW s, NEW s2, Sane(s), Sane(s2), NEW o, NEW h, Changed(s, s2, o, h),
           NEW c \in Chunk, NEW t, TaskType(t), Window(s, c, t),
           t.in.idx \in Positions(s), t.in.idx + 1 < o
    PROVE  Window(s2, c, t)
<1>1. /\ o \in Nat /\ h \in Nat /\ t.out \in Nat /\ t.idxX \in Nat /\ t.idxY \in Nat /\ t.idxB \in Nat
      /\ t.in.idx \in Nat /\ t.in.chunk \in Nat /\ t.in.end \in Nat /\ Top(c) \in Nat /\ Beg(c) \in Nat
  BY Begins, Chunks DEF Changed, TaskType, IterType
<1>2. \A p \in Nat : p < o => (p \in Positions(s) <=> p \in Positions(s2))
  BY ChangedFacts
<1>3. \A p \in Positions(s2) : p \in Nat
  BY PositionFacts
<1>4. ASSUME NEW i \in Nat, NEW val, i < t.in.idx, At(s, i, val) PROVE At(s2, i, val)
  <2>1. i \in Positions(s) /\ val = SymbolAt(s, i)
    BY <1>1, <1>4 DEF At, Past
  <2> QED
    BY <1>1, <1>4, <2>1, ChangedFacts DEF At
<1>5. OnSymbol(s2, t.in)
  <2>1. ~Beyond(s, t.in)
    BY <1>1 DEF Beyond, Past
  <2>2. t.in.idx \in Positions(s) /\ Inside(s, t.in)
    BY <2>1 DEF Window, OnSymbol
  <2>3. t.in.chunk \in Chunk /\ Beg(t.in.chunk) <= t.in.idx /\ Beg(t.in.chunk) \in Nat
    BY <2>2, InsideFacts DEF TaskType
  <2>4. s2.end[t.in.chunk] = s.end[t.in.chunk]
    BY <1>1, <2>3 DEF Changed
  <2> QED
    BY <1>1, <1>2, <2>2, <2>4 DEF Inside, OnSymbol
<1>6. \A i, j \in Nat : j < o /\ NoneBetween(s, i, j) => NoneBetween(s2, i, j)
  BY <1>1, <1>2, <1>3 DEF NoneBetween
<1>7. s2.end[c] = s.end[c]
  BY <1>1 DEF Changed, Window
<1>8. \A p \in Positions(s2) : p < t.idxX => p < Top(c)
  BY <1>1, <1>2, <1>3 DEF Window
<1>9. t.idxX < t.in.idx /\ t.idxY < t.in.idx
  BY <1>1 DEF Window
<1> QED
  BY <1>1, <1>4, <1>5, <1>6, <1>7, <1>8, <1>9 DEF Window

(* Before a task without the mutex, or one that will give it back before the*)
(* next chunk, lie the end lock and two symbols in different words.         *)
Ahead(s, c, t, m) ==
    /\ t.endLock <= s.end[c]
    /\ c + 1 < NChunks /\ (m # c \/ t.in.idx < t.endLock) =>
          /\ t.endLock \in Positions(s)
          /\ \E f, l \in Positions(s) : /\ t.in.idx <= f /\ t.endLock < f /\ f < l /\ l < Top(c)
                                        /\ l < Word \/ f + 1 < l - Word
Middle(c, t, m) == m # c => t.out >= Beg(c) + Word /\ t.idxX < t.endLock
(* What it has written near the begin of its chunk has no gap.              *)
Dense(s, c, t) ==
    \A i \in Beg(c) + 2 .. Beg(c) + Word - 2 : i <= t.out - 2 => s.used[i] \/ s.used[i + 1]

(* When the first symbol of a chunk has become part of a new symbol, that   *)
(* new symbol is the last one before the chunk, so that the task of an      *)
(* earlier chunk finds no pair there; or such a task has just written it.   *)
Removed(s, c) == ~s.used[Beg(c)] /\ ~s.used[Beg(c) + 1]
LastBefore(s, c, p) == p < Beg(c) /\ \A q \in Positions(s) : q <= p \/ q >= Beg(c)
Written(s, c, t) ==
    \/ /\ t.out \in Beg(c) + 1 .. Top(c)
       /\ s.used[t.out - 1] /\ s.data[t.out - 1] >= Z
    \/ /\ t.out \in Beg(c) + 2 .. Top(c) + 1
       /\ s.used[t.out - 2] /\ ~s.used[t.out - 1]
       /\ s.data[t.out - 2] + Base * s.data[t.out - 1] >= Z
NewBefore(s, c) == \A p \in Positions(s) : LastBefore(s, c, p) => SymbolAt(s, p) >= Z
Reached(tk, c, m) == m \in Chunk /\ m < c /\ tk[m].idxX >= Beg(c)
Kept(s, tk, c, m) ==
    tk[c].out >= Beg(c) + 2 /\ Removed(s, c) =>
        IF Reached(tk, c, m) THEN Written(s, m, tk[m]) ELSE NewBefore(s, c)

Loop(tk, c) == tk[c].pc = "loop"
TaskOK(s, tk, m, c) ==
    /\ TaskType(tk[c]) /\ Window(s, c, tk[c])
    /\ Ahead(s, c, tk[c], m) /\ Middle(c, tk[c], m)
    /\ Dense(s, c, tk[c]) /\ Kept(s, tk, c, m)
TasksOK(s, tk, m) ==
    /\ m \in Chunk \cup {NoTask} /\ tk = [c \in Chunk |-> tk[c]]
    /\ m \in Chunk => Loop(tk, m)
    /\ \A c \in Chunk : Loop(tk, c) => TaskOK(s, tk, m, c)

(* Chunks begin at words when there is more than one word.                  *)
LEMMA Aligned ==
    ASSUME ShapeOK, Word < Size
    PROVE  ChunkSize >= Word /\ \A c \in Nat : \E k \in Nat : Beg(c) = k * Word
<1>1. ChunkSize \in Nat \ {0} /\ Size \in Nat /\ Word \in Nat \ {0}
  BY Numbers, WordType
<1>2. ChunkSize % Word = 0
  BY <1>1 DEF ShapeOK
<1>3. PICK n \in Nat : ChunkSize = Word * n
  <2> DEFINE q == ChunkSize \div Word
  <2>1. 0 + Word * q = ChunkSize /\ q \in Nat
    BY <1>1, <1>2, Remainder, Quotient
  <2> HIDE DEF q
  <2>2. Word * q \in Int
    BY <1>1, <2>1
  <2> QED
    BY <2>1, <2>2
<1>4. ChunkSize >= Word
  <2>1. n # 0
    BY <1>1, <1>3
  <2>2. 1 <= n /\ Word * 1 <= Word * n
    BY <1>1, <2>1, Scaled
  <2> QED
    BY <1>1, <1>3, <2>2
<1>5. ASSUME NEW c \in Nat PROVE \E k \in Nat : Beg(c) = k * Word
  <2>1. c * n \in Nat /\ c * (Word * n) = (c * n) * Word
    BY <1>1
  <2> QED
    BY <1>3, <2>1 DEF Beg
<1> QED
  BY <1>4, <1>5

LEMMA TaskTypes ==
    ASSUME ShapeOK, NEW s, Sane(s), NEW c \in Chunk, NEW t, TaskType(t)
    PROVE  /\ t.out \in Nat /\ t.idxX \in Nat /\ t.idxY \in Nat /\ t.idxB \in Nat /\ t.endLock \in Nat
           /\ t.in.idx \in Nat /\ t.in.chunk \in Nat /\ t.in.end \in Nat
           /\ Beg(c) \in Nat /\ Top(c) \in Nat /\ Beg(c) < Top(c)
           /\ s.end[c] \in Nat /\ s.end[c] <= Size /\ Beg(c) < s.end[c] /\ s.end[c] <= Top(c) + 1
           /\ c \in Nat /\ c < NChunks /\ Size \in Nat /\ NChunks \in Nat
<1>1. /\ t.out \in Nat /\ t.idxX \in Nat /\ t.idxY \in Nat /\ t.idxB \in Nat /\ t.endLock \in Nat
      /\ t.in.idx \in Nat /\ t.in.chunk \in Nat /\ t.in.end \in Nat
  BY DEF TaskType, IterType
<1>2. /\ Beg(c) \in Nat /\ Top(c) \in Nat /\ Beg(c) < Top(c) /\ c \in Nat /\ c < NChunks
      /\ Size \in Nat /\ NChunks \in Nat
  BY Chunks, Begins, Numbers
<1>3. s.end[c] \in Nat /\ s.end[c] <= Size /\ s.end[c] \in Beg(c) + 1 .. Top(c) + 1
  BY ArrayType DEF Sane, Sizes
<1> QED
  BY <1>1, <1>2, <1>3

(* A place in the used range of a chunk is not past the last symbol.        *)
LEMMA NotPast ==
    ASSUME ShapeOK, NEW s, Sane(s), NEW c \in Chunk, NEW i \in Nat, i < s.end[c]
    PROVE  ~Past(s, i)
<1>1. /\ c \in Nat /\ c < NChunks /\ NChunks - 1 \in Chunk /\ NChunks - 1 \in Nat
      /\ Top(c) \in Nat /\ Beg(NChunks - 1) \in Nat
  BY Chunks, Begins
<1>2. /\ s.end[c] \in Nat /\ s.end[c] <= Top(c) + 1
      /\ s.end[NChunks - 1] \in Nat /\ Beg(NChunks - 1) + 1 <= s.end[NChunks - 1]
  BY <1>1, ArrayType DEF Sane, Sizes
<1>3. c = NChunks - 1 \/ Top(c) <= Beg(NChunks - 1)
  <2>1. c = NChunks - 1 \/ c < NChunks - 1
    BY <1>1, Chunks
  <2> QED
    BY <1>1, <2>1, Begins
<1> QED
  BY <1>1, <1>2, <1>3 DEF Past

(* A task without the mutex is in the middle part of its chunk.             *)
LEMMA MiddleFacts ==
    ASSUME ShapeOK, NEW s, NEW tk, NEW m, Sane(s), TasksOK(s, tk, m), NEW c \in Chunk, Loop(tk, c), m # c
    PROVE  /\ Beg(c) + Word <= tk[c].out /\ tk[c].out <= tk[c].idxX
           /\ tk[c].idxX < s.end[c] /\ tk[c].idxX \in Positions(s)
           /\ Word < Size
           /\ c + 1 < NChunks =>
                 /\ tk[c].in.idx \in Positions(s)
                 /\ \E f, l \in Positions(s) : tk[c].in.idx <= f /\ f < l /\ l < Top(c)
<1> DEFINE t == tk[c]
<1>1. TaskOK(s, tk, m, c)
  BY DEF TasksOK
<1> HIDE DEF t
<1>2. TaskType(t) /\ Window(s, c, t) /\ Ahead(s, c, t, m) /\ Middle(c, t, m)
  BY <1>1 DEF TaskOK, t
<1>3. /\ t.out \in Nat /\ t.idxX \in Nat /\ t.idxY \in Nat /\ t.idxB \in Nat /\ t.endLock \in Nat
      /\ t.in.idx \in Nat /\ Beg(c) \in Nat /\ Top(c) \in Nat
      /\ s.end[c] \in Nat /\ s.end[c] <= Size /\ Size \in Nat
  BY <1>2, TaskTypes
<1>4. /\ Beg(c) + Word <= t.out /\ t.out <= t.idxX /\ t.idxX < s.end[c] /\ Word < Size
  BY <1>2, <1>3, WordType DEF Middle, Ahead, Window
<1>5. t.idxX \in Positions(s)
  BY <1>2, <1>3, <1>4, NotPast DEF Window, At
<1>6. ASSUME c + 1 < NChunks
      PROVE  /\ t.in.idx \in Positions(s)
             /\ \E f, l \in Positions(s) : t.in.idx <= f /\ f < l /\ l < Top(c)
  <2>1. PICK f, l \in Positions(s) : t.in.idx <= f /\ f < l /\ l < Top(c)
    BY <1>2, <1>6 DEF Ahead
  <2>2. f \in Nat /\ l \in Nat
    BY PositionFacts
  <2>3. ~Past(s, t.in.idx)
    BY <1>3, <2>1, <2>2 DEF Past
  <2> QED
    BY <1>2, <2>1, <2>3 DEF Window, OnSymbol, Beyond
<1> QED
  BY <1>4, <1>5, <1>6 DEF t

(* There a symbol starts at every second byte of the first word.            *)
LEMMA HeadFacts ==
    ASSUME ShapeOK, NEW s, NEW tk, NEW m, Sane(s), TasksOK(s, tk, m), NEW c \in Chunk, Loop(tk, c), m # c
    PROVE  /\ Beg(c) + 2 \in Positions(s) \/ Beg(c) + 3 \in Positions(s)
           /\ \A i, j \in Nat : i <= Beg(c) + 9 /\ NoneBetween(s, i, j) =>
                 j <= i + 2 \/ j <= Beg(c) + 3
<1>1. /\ Beg(c) + Word <= tk[c].out /\ tk[c].out <= tk[c].idxX /\ tk[c].idxX < s.end[c]
  BY MiddleFacts
<1>2. TaskType(tk[c]) /\ Dense(s, c, tk[c])
  BY DEF TasksOK, TaskOK
<1>3. tk[c].out \in Nat /\ tk[c].idxX \in Nat /\ Beg(c) \in Nat /\ s.end[c] \in Nat
  BY <1>2, TaskTypes
<1>4. ASSUME NEW i \in Nat, Beg(c) + 2 <= i, i <= Beg(c) + 10
      PROVE  i \in Positions(s) \/ i + 1 \in Positions(s)
  <2>1. i \in Beg(c) + 2 .. Beg(c) + Word - 2 /\ i <= tk[c].out - 2
    BY <1>1, <1>3, <1>4, WordType
  <2>2. s.used[i] \/ s.used[i + 1]
    BY <1>2, <2>1 DEF Dense
  <2>3. i + 1 \in Nat /\ Beg(c) <= i /\ i + 1 < s.end[c] /\ i < s.end[c] /\ Beg(c) <= i + 1
    BY <1>1, <1>3, <1>4, WordType
  <2> QED
    BY <2>2, <2>3, PositionFacts
<1>5. Beg(c) + 2 \in Positions(s) \/ Beg(c) + 3 \in Positions(s)
  BY <1>3, <1>4
<1>6. ASSUME NEW i \in Nat, NEW j \in Nat, i <= Beg(c) + 9, NoneBetween(s, i, j)
      PROVE  j <= i + 2 \/ j <= Beg(c) + 3
  <2>1. CASE i <= Beg(c) + 1
    BY <1>3, <1>5, <1>6, <2>1 DEF NoneBetween
  <2>2. CASE i > Beg(c) + 1
    <3>1. i + 1 \in Positions(s) \/ i + 2 \in Positions(s)
      BY <1>3, <1>4, <1>6, <2>2
    <3> QED
      BY <1>3, <1>6, <3>1 DEF NoneBetween
  <2> QED
    BY <1>3, <2>1, <2>2
<1> QED
  BY <1>5, <1>6

(* A task that still has a symbol to read in its chunk is at a symbol there.*)
LEMMA AtSymbol ==
    ASSUME ShapeOK, NEW s, Sane(s), NEW c \in Chunk, NEW t, TaskType(t), Window(s, c, t), t.idxX < s.end[c]
    PROVE  /\ t.idxX \in Positions(s) /\ t.x = SymbolAt(s, t.idxX) /\ t.idxX < Top(c)
           /\ \A val : At(s, t.idxX, val) => val = t.x
<1>1. t.idxX \in Nat /\ t.out \in Nat /\ Beg(c) \in Nat
  BY TaskTypes
<1>2. ~Past(s, t.idxX)
  BY <1>1, NotPast
<1>3. t.idxX \in Positions(s) /\ t.x = SymbolAt(s, t.idxX) /\ \A val : At(s, t.idxX, val) => val = t.x
  BY <1>2 DEF Window, At
<1>4. s.used[t.idxX] /\ Beg(c) <= t.idxX
  BY <1>1, <1>3, PositionFacts DEF Window
<1>5. t.idxX < Top(c)
  BY <1>1, <1>4, PositionFacts
<1> QED
  BY <1>3, <1>5

(* How far the task that holds the mutex has read into the chunk of a later *)
(* task that is at work.                                                    *)
LEMMA Reach ==
    ASSUME ShapeOK, NEW s, NEW tk, NEW m \in Chunk, Sane(s), TasksOK(s, tk, m),
           NEW d \in Chunk, m < d, Loop(tk, d)
    PROVE  /\ tk[m].idxX <= Beg(d) + 3 /\ tk[m].in.idx <= Beg(d) + 9 /\ tk[m].in.idx \in Positions(s)
           /\ tk[m].idxX < s.end[m] => /\ tk[m].idxX < Top(m) /\ tk[m].idxY <= Beg(d) + 3
                                       /\ tk[m].idxB <= Beg(d) + 5 /\ tk[m].in.idx <= Beg(d) + 7
<1> DEFINE t == tk[m]
<1>1. TaskOK(s, tk, m, m) /\ m \in Nat /\ d \in Nat /\ m # d
  BY Chunks DEF TasksOK
<1> HIDE DEF t
<1>2. TaskType(t) /\ Window(s, m, t)
  BY <1>1 DEF TaskOK, t
<1>3. /\ t.out \in Nat /\ t.idxX \in Nat /\ t.idxY \in Nat /\ t.idxB \in Nat /\ t.in.idx \in Nat
      /\ Top(m) \in Nat /\ s.end[m] \in Nat
  BY <1>2, TaskTypes
<1>4. Beg(d) \in Nat /\ Top(m) <= Beg(d)
  BY <1>1, Begins
<1>5. /\ NoneBetween(s, t.idxX, t.idxY) /\ NoneBetween(s, t.idxY, t.idxB)
      /\ NoneBetween(s, t.idxB, t.in.idx)
  BY <1>2 DEF Window
<1>6. \A i, j \in Nat : i <= Beg(d) + 9 /\ NoneBetween(s, i, j) => j <= i + 2 \/ j <= Beg(d) + 3
  BY <1>1, HeadFacts
<1>7. t.idxX <= Beg(d) + 3
  <2>1. PICK q \in Positions(s) : q \in {Beg(d) + 2, Beg(d) + 3}
    BY <1>1, HeadFacts
  <2>2. ~(q < t.idxX)
    BY <1>2, <1>3, <1>4, <2>1 DEF Window
  <2> QED
    BY <1>3, <1>4, <2>1, <2>2
<1>8. t.idxY <= Beg(d) + 5
  BY <1>3, <1>4, <1>5, <1>6, <1>7
<1>9. t.idxB <= Beg(d) + 7
  BY <1>3, <1>4, <1>5, <1>6, <1>8
<1>10. t.in.idx <= Beg(d) + 9
  BY <1>3, <1>4, <1>5, <1>6, <1>9
<1>11. ASSUME t.idxX < s.end[m]
       PROVE  /\ t.idxX < Top(m) /\ t.idxY <= Beg(d) + 3
              /\ t.idxB <= Beg(d) + 5 /\ t.in.idx <= Beg(d) + 7
  <2>1. t.idxX < Top(m)
    BY <1>2, <1>11, AtSymbol
  <2>2. t.idxY <= Beg(d) + 3
    BY <1>3, <1>4, <1>5, <1>6, <2>1
  <2>3. t.idxB <= Beg(d) + 5
    BY <1>3, <1>4, <1>5, <1>6, <2>2
  <2>4. t.in.idx <= Beg(d) + 7
    BY <1>3, <1>4, <1>5, <1>6, <2>3
  <2> QED
    BY <2>1, <2>2, <2>3, <2>4
<1>12. t.in.idx \in Positions(s)
  <2>1. tk[d].idxX \in Positions(s) /\ Beg(d) + Word <= tk[d].out /\ tk[d].out <= tk[d].idxX
    BY <1>1, MiddleFacts
  <2>2. TaskType(tk[d])
    BY DEF TasksOK, TaskOK
  <2>3. tk[d].idxX \in Nat /\ tk[d].out \in Nat
    BY <2>2, TaskTypes
  <2>4. t.in.idx <= tk[d].idxX
    BY <1>3, <1>4, <1>10, <2>1, <2>3, WordType
  <2>5. ~Past(s, t.in.idx)
    BY <1>3, <2>1, <2>3, <2>4 DEF Past
  <2> QED
    BY <1>2, <2>5 DEF Window, OnSymbol, Beyond
<1> QED
  BY <1>7, <1>10, <1>11, <1>12 DEF t

(* What a change in one chunk leaves of the other tasks.                    *)
LEMMA Others ==
    ASSUME ShapeOK, NEW s, NEW s2, NEW tk, NEW m, Sane(s), Sane(s2), TasksOK(s, tk, m),
           NEW c \in Chunk, NEW d \in Chunk, c # d, Loop(tk, c),
           NEW o, NEW h, Changed(s, s2, o, h), Beg(d) <= o, o < Top(d),
           m = c => Loop(tk, d) /\ Beg(d) + Word <= o,
           c > d => h <= Beg(c) \/ (h <= Beg(c) + Word /\ m # c)
    PROVE  /\ Window(s2, c, tk[c])
           /\ \A n : (m = c => n = c) => Ahead(s2, c, tk[c], n)
           /\ c < d => tk[c].in.idx + 1 < o /\ Top(c) <= o /\ Dense(s2, c, tk[c])
<1> DEFINE t == tk[c]
<1>1. TaskOK(s, tk, m, c)
  BY DEF TasksOK
<1> HIDE DEF t
<1>2. TaskType(t) /\ Window(s, c, t) /\ Ahead(s, c, t, m) /\ Middle(c, t, m) /\ Dense(s, c, t)
  BY <1>1 DEF TaskOK, t
<1>3. /\ t.out \in Nat /\ t.idxX \in Nat /\ t.idxY \in Nat /\ t.idxB \in Nat /\ t.endLock \in Nat
      /\ t.in.idx \in Nat /\ Beg(c) \in Nat /\ Top(c) \in Nat /\ s.end[c] \in Nat /\ s.end[c] <= Size
      /\ c \in Nat /\ c < NChunks /\ NChunks \in Nat /\ Beg(c) < Top(c)
  BY <1>2, TaskTypes
<1>4. d \in Nat /\ d < NChunks /\ Beg(d) \in Nat /\ Top(d) \in Nat /\ o \in Nat /\ h \in Nat /\ o < h
  BY Chunks, Begins DEF Changed
<1>5. CASE c < d
  <2>1. Top(c) <= Beg(d) /\ c + 1 < NChunks
    BY <1>3, <1>4, <1>5, Begins
  <2>2. t.in.idx + 1 < o /\ t.in.idx \in Positions(s)
    <3>1. CASE m = c
      <4>1. t.in.idx <= Beg(d) + 9 /\ t.in.idx \in Positions(s)
        BY <1>5, <3>1, Reach DEF t
      <4> QED
        BY <1>3, <1>4, <3>1, <4>1, WordType
    <3>2. CASE m # c
      <4>1. /\ t.in.idx \in Positions(s)
            /\ \E f, l \in Positions(s) : t.in.idx <= f /\ f < l /\ l < Top(c)
        BY <2>1, <3>2, MiddleFacts DEF t
      <4> QED
        BY <1>3, <1>4, <2>1, <4>1, PositionFacts
    <3> QED
      BY <3>1, <3>2
  <2>3. Window(s2, c, t)
    BY <1>2, <2>2, WindowAfter
  <2>4. s2.end[c] = s.end[c]
    BY <1>3, <1>4, <2>1 DEF Changed
  <2>5. ASSUME NEW n, m = c => n = c PROVE Ahead(s2, c, t, n)
    <3>1. ASSUME c + 1 < NChunks /\ (n # c \/ t.in.idx < t.endLock)
          PROVE  /\ t.endLock \in Positions(s2)
                 /\ \E f, l \in Positions(s2) : /\ t.in.idx <= f /\ t.endLock < f /\ f < l /\ l < Top(c)
                                                /\ l < Word \/ f + 1 < l - Word
      <4>1. t.endLock \in Positions(s)
        BY <1>2, <2>5, <3>1 DEF Ahead
      <4>2. PICK f, l \in Positions(s) : /\ t.in.idx <= f /\ t.endLock < f /\ f < l /\ l < Top(c)
                                         /\ l < Word \/ f + 1 < l - Word
        BY <1>2, <2>5, <3>1 DEF Ahead
      <4>3. f \in Nat /\ l \in Nat /\ f < o /\ l < o /\ t.endLock < o
        BY <1>3, <1>4, <2>1, <4>2, PositionFacts
      <4>4. f \in Positions(s2) /\ l \in Positions(s2) /\ t.endLock \in Positions(s2)
        BY <1>3, <4>1, <4>3, ChangedFacts
      <4> QED
        BY <4>2, <4>4
    <3> QED
      BY <1>2, <2>4, <3>1 DEF Ahead
  <2>6. Dense(s2, c, t)
    <3>1. ASSUME NEW i \in Beg(c) + 2 .. Beg(c) + Word - 2, i <= t.out - 2 PROVE s2.used[i] \/ s2.used[i + 1]
      <4>1. s.used[i] \/ s.used[i + 1]
        BY <1>2, <3>1 DEF Dense
      <4>2. i \in Nat /\ i + 1 < t.out /\ t.out <= Size
        BY <1>2, <1>3, <3>1, WordType DEF Window
      <4>3. t.out <= o
        BY <1>2, <1>3, <1>4, <2>2 DEF Window
      <4>4. i \in 0 .. BitCount - 1 /\ i + 1 \in 0 .. BitCount - 1 /\ i < o /\ i + 1 < o
        BY <1>3, <1>4, <4>2, <4>3, Bits, Numbers
      <4> QED
        BY <4>1, <4>4 DEF Changed
    <3> QED
      BY <3>1 DEF Dense
  <2> QED
    BY <1>3, <1>4, <1>5, <2>1, <2>2, <2>3, <2>5, <2>6 DEF t
<1>6. CASE c > d
  <2>1. Top(d) <= Beg(c)
    BY <1>3, <1>4, <1>6, Begins
  <2>2. h <= t.out /\ h <= Top(c)
    <3>1. CASE h <= Beg(c)
      BY <1>2, <1>3, <1>4, <3>1 DEF Window
    <3>2. CASE h <= Beg(c) + Word /\ m # c
      <4>1. Beg(c) + Word <= t.out /\ Word < Size
        BY <3>2, MiddleFacts DEF t
      <4>2. ChunkSize >= Word /\ ChunkSize \in Nat
        BY <4>1, Aligned, Numbers
      <4> QED
        BY <1>3, <1>4, <3>2, <4>1, <4>2, WordType DEF Top
    <3> QED
      BY <1>6, <3>1, <3>2
  <2>3. NChunks - 1 \in Chunk /\ Beg(NChunks - 1) \in Nat /\ Beg(c) <= Beg(NChunks - 1)
    <3>1. NChunks - 1 \in Chunk /\ NChunks - 1 \in Nat /\ (c = NChunks - 1 \/ c < NChunks - 1)
      BY <1>3, Chunks
    <3> DEFINE k == NChunks - 1
    <3> HIDE DEF k
    <3>2. k \in Nat /\ (c = k \/ c < k)
      BY <3>1 DEF k
    <3>3. Beg(k) \in Nat
      BY <3>2, Begins
    <3>4. c < k => Beg(c) < Beg(k)
      BY <1>3, <3>2, Begins
    <3>5. Beg(c) <= Beg(k)
      BY <1>3, <3>2, <3>3, <3>4
    <3> QED
      BY <3>1, <3>3, <3>5 DEF k
  <2>4. s2.end[c] = s.end[c] /\ s2.end[NChunks - 1] = s.end[NChunks - 1]
    BY <1>3, <1>4, <2>1, <2>3 DEF Changed
  <2>5. Window(s2, c, t)
    BY <1>2, <2>2, <2>4, WindowBefore
  <2>6. ASSUME NEW n, m = c => n = c PROVE Ahead(s2, c, t, n)
    <3>1. ASSUME c + 1 < NChunks /\ (n # c \/ t.in.idx < t.endLock)
          PROVE  /\ t.endLock \in Positions(s2)
                 /\ \E f, l \in Positions(s2) : /\ t.in.idx <= f /\ t.endLock < f /\ f < l /\ l < Top(c)
                                                /\ l < Word \/ f + 1 < l - Word
      <4>1. t.endLock \in Positions(s)
        BY <1>2, <2>6, <3>1 DEF Ahead
      <4>2. PICK f, l \in Positions(s) : /\ t.in.idx <= f /\ t.endLock < f /\ f < l /\ l < Top(c)
                                         /\ l < Word \/ f + 1 < l - Word
        BY <1>2, <2>6, <3>1 DEF Ahead
      <4>3. t.idxX < t.endLock
        BY <1>2, <1>3, <2>6, <3>1 DEF Window, Middle
      <4>4. h <= t.endLock
        BY <1>2, <1>3, <1>4, <2>2, <4>3 DEF Window
      <4>5. f \in Nat /\ l \in Nat /\ h <= f /\ h <= l
        BY <1>3, <1>4, <4>2, <4>4, PositionFacts
      <4>6. f \in Positions(s2) /\ l \in Positions(s2) /\ t.endLock \in Positions(s2)
        BY <1>3, <4>1, <4>4, <4>5, ChangedFacts
      <4> QED
        BY <4>2, <4>6
    <3> QED
      BY <1>2, <2>4, <3>1 DEF Ahead
  <2> QED
    BY <1>3, <1>4, <1>6, <2>5, <2>6 DEF t
<1> QED
  BY <1>3, <1>4, <1>5, <1>6

(***************************************************************************)
(* A step of a task.                                                       *)
(***************************************************************************)
LEMMA SetUsedFacts ==
    ASSUME ShapeOK, NEW s \in SymbolArrays, NEW i \in Nat, NEW val \in BOOLEAN
    PROVE  /\ SetUsedIdx(s, i, val) \in SymbolArrays
           /\ SetUsedIdx(s, i, val).end = s.end /\ SetUsedIdx(s, i, val).data = s.data
           /\ SetUsedIdx(s, i, val).bitPast = s.bitPast /\ SetUsedIdx(s, i, val).bytePast = s.bytePast
           /\ \A j \in 0 .. BitCount - 1 : SetUsedIdx(s, i, val).used[j] = IF j = i THEN val ELSE s.used[j]
  BY Bits DEF SetUsedIdx, SymbolArrays

LEMMA SetByteFacts ==
    ASSUME ShapeOK, NEW s \in SymbolArrays, NEW i \in Nat, NEW val \in Byte
    PROVE  /\ SetByte(s, i, val) \in SymbolArrays
           /\ SetByte(s, i, val).end = s.end /\ SetByte(s, i, val).used = s.used
           /\ SetByte(s, i, val).bitPast = s.bitPast /\ SetByte(s, i, val).bytePast = s.bytePast
           /\ \A j \in Index : SetByte(s, i, val).data[j] = IF j = i THEN val ELSE s.data[j]
  BY Numbers DEF SetByte, SymbolArrays

(* putSymbol writes one byte or two.                                        *)
WasPut(s, i, val, r, e) ==
    /\ r \in SymbolArrays /\ r.end = s.end /\ r.bitPast = s.bitPast /\ r.bytePast = s.bytePast
    /\ \A j \in 0 .. BitCount - 1 : r.used[j] =
           IF j = i THEN TRUE ELSE IF val >= Base /\ j = i + 1 THEN FALSE ELSE s.used[j]
    /\ \A j \in Index : j # i /\ ~(val >= Base /\ j = i + 1) => r.data[j] = s.data[j]
    /\ i \in Index /\ val < Base => r.data[i] = val
    /\ i \in Index /\ i + 1 \in Index /\ val >= Base => r.data[i] + Base * r.data[i + 1] = val
    /\ e = IF val >= Base THEN i + 2 ELSE i + 1

LEMMA PutFacts ==
    ASSUME ShapeOK, NEW s \in SymbolArrays, NEW i \in Nat, NEW val \in 0 .. Base * Base - 1
    PROVE  WasPut(s, i, val, PutSymbol(s, i, val), PutEnd(i, val))
<1> DEFINE low == val % Base
           high == val \div Base
           byte == SetByte(s, i, low)
           one == SetUsedIdx(byte, i, TRUE)
           bytes == SetByte(one, i + 1, high)
           two == SetUsedIdx(bytes, i + 1, FALSE)
           r == PutSymbol(s, i, val)
<1>1. Base \in Nat \ {0} /\ val \in Nat /\ val < Base * Base
  <2>1. Base \in Nat \ {0}
    BY WordType
  <2>2. Base * Base \in Int
    BY <2>1
  <2> QED
    BY <2>1, <2>2
<1>2. low \in Byte /\ high \in Byte /\ low + Base * high = val
  <2>1. low \in 0 .. Base - 1 /\ low + Base * high = val
    BY <1>1, Remainder
  <2>2. high \in Nat /\ high < Base
    BY <1>1, Quotient, SmallQuotient
  <2> HIDE DEF low, high
  <2> QED
    BY <1>1, <2>1, <2>2 DEF Byte
<1>3. val < Base => low = val
  <2>1. SUFFICES ASSUME val < Base PROVE low = val
    OBVIOUS
  <2>2. high \in Nat /\ Base * high <= val
    BY <1>1, Quotient
  <2>3. high = 0
    <3> HIDE DEF high
    <3>1. SUFFICES ASSUME 1 <= high PROVE FALSE
      BY <2>2
    <3>2. Base * 1 <= Base * high /\ Base * high \in Int
      BY <1>1, <2>2, <3>1, Scaled
    <3> QED
      BY <1>1, <2>1, <2>2, <3>2
  <2> HIDE DEF low, high
  <2>4. low \in Int /\ Base * 0 = 0
    BY <1>1, <1>2 DEF Byte
  <2> QED
    BY <1>1, <1>2, <2>3, <2>4
<1>4. r = IF val < Base THEN one ELSE two
  BY DEF PutSymbol
<1> HIDE DEF low, high
<1>5. /\ byte \in SymbolArrays /\ byte.end = s.end /\ byte.used = s.used
      /\ byte.bitPast = s.bitPast /\ byte.bytePast = s.bytePast
      /\ \A j \in Index : byte.data[j] = IF j = i THEN low ELSE s.data[j]
  <2>1. \A v \in Byte : LET o == SetByte(s, i, v) IN
          /\ o \in SymbolArrays /\ o.end = s.end /\ o.used = s.used
          /\ o.bitPast = s.bitPast /\ o.bytePast = s.bytePast
          /\ \A j \in Index : o.data[j] = IF j = i THEN v ELSE s.data[j]
    BY SetByteFacts
  <2>2. low \in Byte
    BY <1>2
  <2> QED
    BY <2>1, <2>2
<1> HIDE DEF byte
<1>6. /\ one \in SymbolArrays /\ one.end = s.end /\ one.data = byte.data
      /\ one.bitPast = s.bitPast /\ one.bytePast = s.bytePast
      /\ \A j \in 0 .. BitCount - 1 : one.used[j] = IF j = i THEN TRUE ELSE s.used[j]
  <2>1. \A v \in BOOLEAN : LET o == SetUsedIdx(byte, i, v) IN
          /\ o \in SymbolArrays /\ o.end = byte.end /\ o.data = byte.data
          /\ o.bitPast = byte.bitPast /\ o.bytePast = byte.bytePast
          /\ \A j \in 0 .. BitCount - 1 : o.used[j] = IF j = i THEN v ELSE byte.used[j]
    BY <1>5, SetUsedFacts
  <2>2. TRUE \in BOOLEAN
    OBVIOUS
  <2>3. /\ one \in SymbolArrays /\ one.end = byte.end /\ one.data = byte.data
        /\ one.bitPast = byte.bitPast /\ one.bytePast = byte.bytePast
        /\ \A j \in 0 .. BitCount - 1 : one.used[j] = IF j = i THEN TRUE ELSE byte.used[j]
    BY <2>1, <2>2
  <2> HIDE DEF one
  <2> QED
    BY <1>5, <2>3
<1> HIDE DEF one
<1>7. /\ bytes \in SymbolArrays /\ bytes.end = s.end /\ bytes.used = one.used
      /\ bytes.bitPast = s.bitPast /\ bytes.bytePast = s.bytePast
      /\ \A j \in Index : bytes.data[j] = IF j = i + 1 THEN high ELSE byte.data[j]
  <2>1. i + 1 \in Nat
    OBVIOUS
  <2>3. \A k \in Nat, v \in Byte : LET o == SetByte(one, k, v) IN
          /\ o \in SymbolArrays /\ o.end = one.end /\ o.used = one.used
          /\ o.bitPast = one.bitPast /\ o.bytePast = one.bytePast
          /\ \A j \in Index : o.data[j] = IF j = k THEN v ELSE one.data[j]
    BY <1>6, SetByteFacts
  <2>2. /\ bytes \in SymbolArrays /\ bytes.end = one.end /\ bytes.used = one.used
        /\ bytes.bitPast = one.bitPast /\ bytes.bytePast = one.bytePast
        /\ \A j \in Index : bytes.data[j] = IF j = i + 1 THEN high ELSE one.data[j]
    BY <1>2, <2>1, <2>3
  <2> HIDE DEF bytes
  <2> QED
    BY <1>6, <2>2
<1> HIDE DEF bytes
<1>8. /\ two \in SymbolArrays /\ two.end = s.end /\ two.data = bytes.data
      /\ two.bitPast = s.bitPast /\ two.bytePast = s.bytePast
      /\ \A j \in 0 .. BitCount - 1 : two.used[j] = IF j = i + 1 THEN FALSE ELSE one.used[j]
  <2>1. \A k \in Nat, v \in BOOLEAN : LET o == SetUsedIdx(bytes, k, v) IN
          /\ o \in SymbolArrays /\ o.end = bytes.end /\ o.data = bytes.data
          /\ o.bitPast = bytes.bitPast /\ o.bytePast = bytes.bytePast
          /\ \A j \in 0 .. BitCount - 1 : o.used[j] = IF j = k THEN v ELSE bytes.used[j]
    BY <1>7, SetUsedFacts
  <2>2. FALSE \in BOOLEAN /\ i + 1 \in Nat
    OBVIOUS
  <2>3. /\ two \in SymbolArrays /\ two.end = bytes.end /\ two.data = bytes.data
        /\ two.bitPast = bytes.bitPast /\ two.bytePast = bytes.bytePast
        /\ \A j \in 0 .. BitCount - 1 : two.used[j] = IF j = i + 1 THEN FALSE ELSE bytes.used[j]
    BY <2>1, <2>2
  <2> HIDE DEF two
  <2> QED
    BY <1>7, <2>3
<1> HIDE DEF two, r
<1>9. /\ r \in SymbolArrays /\ r.end = s.end /\ r.bitPast = s.bitPast /\ r.bytePast = s.bytePast
      /\ \A j \in 0 .. BitCount - 1 : r.used[j] =
             IF j = i THEN TRUE ELSE IF val >= Base /\ j = i + 1 THEN FALSE ELSE s.used[j]
      /\ \A j \in Index : j # i /\ ~(val >= Base /\ j = i + 1) => r.data[j] = s.data[j]
  <2>0. \A j \in 0 .. BitCount - 1 : j \in Int /\ i # i + 1
    OBVIOUS
  <2>1. CASE val < Base
    <3>1. r = one /\ ~(val >= Base)
      BY <1>1, <1>4, <2>1
    <3> QED
      BY <1>5, <1>6, <3>1
  <2>2. CASE ~(val < Base)
    <3>1. r = two /\ val >= Base
      BY <1>1, <1>4, <2>2
    <3>2. \A j \in 0 .. BitCount - 1 : r.used[j] = IF j = i THEN TRUE ELSE IF j = i + 1 THEN FALSE ELSE s.used[j]
      BY <1>6, <1>8, <2>0, <3>1
    <3>3. \A j \in Index : j # i /\ j # i + 1 => r.data[j] = s.data[j]
      BY <1>5, <1>7, <1>8, <3>1
    <3> QED
      BY <1>8, <3>1, <3>2, <3>3
  <2> QED
    BY <2>1, <2>2
<1>10. ASSUME i \in Index, val < Base PROVE r.data[i] = val
  <2>1. r = one
    BY <1>4, <1>10
  <2>2. one.data[i] = byte.data[i] /\ byte.data[i] = low
    BY <1>5, <1>6, <1>10
  <2> QED
    BY <1>3, <1>10, <2>1, <2>2
<1>11. ASSUME i \in Index, i + 1 \in Index, val >= Base PROVE r.data[i] + Base * r.data[i + 1] = val
  <2>1. r = two
    BY <1>1, <1>4, <1>11
  <2>2. two.data[i] = low
    <3>1. i # i + 1
      OBVIOUS
    <3> QED
      BY <1>5, <1>7, <1>8, <1>11, <3>1
  <2>3. two.data[i + 1] = high
    BY <1>7, <1>8, <1>11
  <2> QED
    BY <1>2, <2>1, <2>2, <2>3
<1>12. PutEnd(i, val) = IF val >= Base THEN i + 2 ELSE i + 1
  BY <1>1 DEF PutEnd
<1> QED
  BY <1>9, <1>10, <1>11, <1>12 DEF r, WasPut

(* The symbols end before the used range of the last chunk.                 *)
LEMMA BeforeEnd ==
    ASSUME ShapeOK, NEW s, Sane(s), NEW p \in Positions(s)
    PROVE  p < s.end[NChunks - 1]
<1> DEFINE k == ChunkIdx(p)
           n == NChunks - 1
<1>1. p \in Nat /\ k \in Chunk /\ p < s.end[k] /\ p < Top(k)
  BY PositionFacts
<1>2. n \in Chunk /\ n \in Nat /\ k \in Nat /\ (k = n \/ k < n)
  BY <1>1, Chunks
<1> HIDE DEF k, n
<1>3. CASE k = n
  BY <1>1, <1>3 DEF n
<1>4. CASE k < n
  <2>1. Top(k) <= Beg(n) /\ Top(k) \in Nat /\ Beg(n) \in Nat
    BY <1>2, <1>4, Begins
  <2>2. s.end[n] \in Beg(n) + 1 .. Top(n) + 1
    BY <1>2 DEF Sane, Sizes
  <2>3. p < s.end[n]
    BY <1>1, <2>1, <2>2
  <2> QED
    BY <2>3 DEF n
<1> QED
  BY <1>2, <1>3, <1>4

Wrote(s, o, e, val) ==
    \/ e = o + 1 /\ s.used[o] /\ s.data[o] = val
    \/ e = o + 2 /\ s.used[o] /\ ~s.used[o + 1] /\ s.data[o] + Base * s.data[o + 1] = val

(* The symbol at i is copied to o; the next symbol is at j.                 *)
LEMMA CopyFacts ==
    ASSUME ShapeOK, NEW s, Sane(s), NEW d \in Chunk, NEW o \in Nat, NEW i \in Positions(s), NEW j \in Nat,
           Beg(d) <= o, o <= i, i < j, i < Top(d), NoneBetween(s, i, j), j \in Positions(s) \/ Past(s, j),
           NEW s2, s2 = PutSymbol(s, o, SymbolAt(s, i)), NEW e, e = PutEnd(o, SymbolAt(s, i))
    PROVE  /\ s2 \in SymbolArrays /\ s2.end = s.end /\ Changed(s, s2, o, j)
           /\ e \in Nat /\ o < e /\ e <= o + 2 /\ e <= j /\ e <= Top(d) + 1 /\ e <= Size
           /\ s2.used[o] /\ Wrote(s2, o, e, SymbolAt(s, i))
           /\ \A k \in 0 .. BitCount - 1 : k # o /\ s2.used[k] => s.used[k]
           /\ \A k \in 0 .. BitCount - 1 : k # o /\ k # o + 1 => s2.used[k] = s.used[k]
           /\ \A k \in 0 .. BitCount - 1 : k > i => s2.used[k] = s.used[k]
<1> DEFINE v == SymbolAt(s, i)
<1>1. /\ i \in Nat /\ i < Size /\ i \in Index /\ i \in 0 .. BitCount - 1
      /\ Size \in Nat /\ BitCount \in Nat /\ Size <= BitCount /\ Top(d) \in Nat /\ Base \in Nat \ {0}
  BY PositionFacts, Numbers, Bits, Begins, Chunks, WordType
<1>2. v \in 0 .. Base * Base - 1 /\ (v >= Base => i + 1 < Size /\ ~s.used[i + 1] /\ i + 1 # s.end[NChunks - 1])
  BY SymbolFacts
<1> HIDE DEF v
<1>3. v \in Nat
  BY <1>1, <1>2
<1>4. v >= Base => i + 2 <= j
  <2>1. SUFFICES ASSUME v >= Base, j = i + 1 PROVE FALSE
    BY <1>1
  <2>2. j \notin Positions(s)
    BY <1>2, <2>1 DEF Positions
  <2>3. j >= s.end[NChunks - 1]
    BY <2>2 DEF Past
  <2>4. i < s.end[NChunks - 1] /\ s.end[NChunks - 1] \in Nat
    BY BeforeEnd, Chunks, ArrayType DEF Sane
  <2> QED
    BY <1>1, <1>2, <2>1, <2>3, <2>4
<1>5. /\ s2 \in SymbolArrays /\ s2.end = s.end /\ s2.bitPast = s.bitPast /\ s2.bytePast = s.bytePast
      /\ \A k \in 0 .. BitCount - 1 : s2.used[k] =
             IF k = o THEN TRUE ELSE IF v >= Base /\ k = o + 1 THEN FALSE ELSE s.used[k]
      /\ \A k \in Index : k # o /\ ~(v >= Base /\ k = o + 1) => s2.data[k] = s.data[k]
      /\ o \in Index /\ v < Base => s2.data[o] = v
      /\ o \in Index /\ o + 1 \in Index /\ v >= Base => s2.data[o] + Base * s2.data[o + 1] = v
      /\ e = IF v >= Base THEN o + 2 ELSE o + 1
  <2>1. s \in SymbolArrays /\ s2 = PutSymbol(s, o, v) /\ e = PutEnd(o, v)
    BY DEF Sane, v
  <2>2. WasPut(s, o, v, s2, e)
    BY <1>2, <2>1, PutFacts
  <2> QED
    BY <2>2 DEF WasPut
<1>6. o \in Index /\ o \in 0 .. BitCount - 1 /\ (v >= Base => o + 1 \in Index /\ o + 1 \in 0 .. BitCount - 1)
  BY <1>1, <1>2 DEF Index
<1>7. e \in Nat /\ o < e /\ e <= o + 2 /\ e <= j /\ e <= Top(d) + 1 /\ e <= Size
  BY <1>1, <1>2, <1>3, <1>4, <1>5
<1>8. Changed(s, s2, o, j)
  <2>1. o < j
    BY <1>1
  <2>2. ASSUME NEW k \in 0 .. BitCount - 1, k < o \/ j <= k PROVE s2.used[k] = s.used[k]
    <3>1. k # o /\ ~(v >= Base /\ k = o + 1)
      BY <1>1, <1>3, <1>4, <2>2
    <3> QED
      BY <1>5, <3>1
  <2>3. \A k \in Index : k < o \/ j <= k => s2.data[k] = s.data[k]
    <3>1. \A k \in Index : k \in Nat
      BY <1>1 DEF Index
    <3> QED
      BY <1>1, <1>3, <1>4, <1>5, <3>1
  <2> QED
    BY <1>5, <2>1, <2>2, <2>3 DEF Changed
<1>9. s2.used[o] /\ Wrote(s2, o, e, v)
  <2>1. s2.used[o]
    BY <1>5, <1>6
  <2>2. CASE v < Base
    BY <1>1, <1>3, <1>5, <1>6, <2>1, <2>2 DEF Wrote
  <2>3. CASE v >= Base
    <3>1. o + 1 # o
      OBVIOUS
    <3>2. ~s2.used[o + 1]
      BY <1>5, <1>6, <2>3, <3>1
    <3> QED
      BY <1>5, <1>6, <2>1, <2>3, <3>2 DEF Wrote
  <2> QED
    BY <1>1, <1>3, <2>1, <2>2, <2>3
<1>10. \A k \in 0 .. BitCount - 1 : k > i => s2.used[k] = s.used[k]
  <2> TAKE k \in 0 .. BitCount - 1
  <2> HAVE k > i
  <2>1. k # o
    BY <1>1
  <2>2. CASE v >= Base /\ k = o + 1
    <3>1. k = i + 1
      BY <1>1, <2>2
    <3> QED
      <4>1. s2.used[k] = FALSE
        BY <1>5, <2>1, <2>2
      <4>2. s.used[k] \in BOOLEAN /\ ~s.used[k]
        BY <1>2, <2>2, <3>1, ArrayType DEF Sane
      <4> QED
        BY <4>1, <4>2
  <2>3. CASE ~(v >= Base /\ k = o + 1)
    BY <1>5, <2>1, <2>3
  <2> QED
    BY <2>2, <2>3
<1> QED
  BY <1>5, <1>7, <1>8, <1>9, <1>10 DEF v

(* The symbols at i and j become the new symbol at o; the next one is at h. *)
Replaced(s, j, o, z) == PutSymbol(SetUsedIdx(s, j, FALSE), o, z)

LEMMA ReplaceFacts ==
    ASSUME ShapeOK, NEW s, Sane(s), NEW d \in Chunk, NEW o \in Nat, NEW i \in Positions(s),
           NEW j \in Positions(s), NEW h \in Nat, NEW z \in 0 .. Base * Base - 1,
           Beg(d) <= o, o <= i, i < j, j < h, i < Top(d),
           NEW s2, s2 = Replaced(s, j, o, z), NEW e, e = PutEnd(o, z)
    PROVE  /\ s2 \in SymbolArrays /\ s2.end = s.end /\ Changed(s, s2, o, h)
           /\ e \in Nat /\ o < e /\ e <= o + 2 /\ e <= h /\ e <= Top(d) + 1 /\ e <= Size
           /\ s2.used[o] /\ Wrote(s2, o, e, z) /\ ~s2.used[j]
           /\ \A k \in 0 .. BitCount - 1 : k # o /\ s2.used[k] => s.used[k]
           /\ \A k \in 0 .. BitCount - 1 : k # o /\ k # o + 1 /\ k # j => s2.used[k] = s.used[k]
<1>1. /\ i \in Nat /\ i < Size /\ j \in Nat /\ j < Size /\ j \in 0 .. BitCount - 1
      /\ Size \in Nat /\ BitCount \in Nat /\ Size <= BitCount /\ Top(d) \in Nat /\ Base \in Nat \ {0}
  BY PositionFacts, Numbers, Bits, Begins, Chunks, WordType
<1>2. z \in Nat
  BY <1>1
<1> DEFINE s1 == SetUsedIdx(s, j, FALSE)
<1>3. /\ s1 \in SymbolArrays /\ s1.end = s.end /\ s1.data = s.data
      /\ s1.bitPast = s.bitPast /\ s1.bytePast = s.bytePast
      /\ \A k \in 0 .. BitCount - 1 : s1.used[k] = IF k = j THEN FALSE ELSE s.used[k]
  <2>1. s \in SymbolArrays
    BY DEF Sane
  <2>2. s1 = [s EXCEPT !.used = [s.used EXCEPT ![j] = FALSE]]
    BY DEF SetUsedIdx
  <2>3. [s.used EXCEPT ![j] = FALSE] \in [0 .. BitCount - 1 -> BOOLEAN]
    BY <2>1, ArrayType
  <2> HIDE DEF s1
  <2>4. s1 \in SymbolArrays /\ s1.end = s.end /\ s1.data = s.data /\ s1.bitPast = s.bitPast
        /\ s1.bytePast = s.bytePast /\ s1.used = [s.used EXCEPT ![j] = FALSE]
    BY <2>1, <2>2, <2>3 DEF SymbolArrays
  <2> QED
    BY <2>1, <2>4, ArrayType
<1>4. s2 = PutSymbol(s1, o, z)
  BY DEF Replaced
<1> HIDE DEF s1
<1>5. /\ s2 \in SymbolArrays /\ s2.end = s.end /\ s2.bitPast = s.bitPast /\ s2.bytePast = s.bytePast
      /\ \A k \in 0 .. BitCount - 1 : s2.used[k] =
             IF k = o THEN TRUE ELSE IF z >= Base /\ k = o + 1 THEN FALSE ELSE s1.used[k]
      /\ \A k \in Index : k # o /\ ~(z >= Base /\ k = o + 1) => s2.data[k] = s1.data[k]
      /\ o \in Index /\ z < Base => s2.data[o] = z
      /\ o \in Index /\ o + 1 \in Index /\ z >= Base => s2.data[o] + Base * s2.data[o + 1] = z
      /\ e = IF z >= Base THEN o + 2 ELSE o + 1
  <2>1. WasPut(s1, o, z, s2, e)
    BY <1>3, <1>4, PutFacts
  <2> QED
    BY <1>3, <2>1 DEF WasPut
<1>6. o \in Index /\ o \in 0 .. BitCount - 1 /\ o + 1 \in Index /\ o + 1 \in 0 .. BitCount - 1
  BY <1>1 DEF Index
<1>7. e \in Nat /\ o < e /\ e <= o + 2 /\ e <= h /\ e <= Top(d) + 1 /\ e <= Size
  BY <1>1, <1>2, <1>5
<1>8. \A k \in 0 .. BitCount - 1 : k # o /\ k # o + 1 /\ k # j => s2.used[k] = s.used[k]
  BY <1>3, <1>5
<1>9. Changed(s, s2, o, h)
  <2>1. o < h
    BY <1>1
  <2>2. ASSUME NEW k \in 0 .. BitCount - 1, k < o \/ h <= k PROVE s2.used[k] = s.used[k]
    <3>1. k # o /\ k # o + 1 /\ k # j
      BY <1>1, <2>2
    <3> QED
      BY <1>8, <3>1
  <2>3. ASSUME NEW k \in Index, k < o \/ h <= k PROVE s2.data[k] = s.data[k]
    <3>1. k \in Nat
      BY <1>1 DEF Index
    <3>2. k # o /\ k # o + 1
      BY <1>1, <2>3, <3>1
    <3> QED
      BY <1>3, <1>5, <3>2
  <2> QED
    BY <1>5, <2>1, <2>2, <2>3 DEF Changed
<1>10. s2.used[o] /\ Wrote(s2, o, e, z)
  <2>1. s2.used[o]
    BY <1>5, <1>6
  <2>2. CASE z < Base
    <3>1. ~(z >= Base)
      BY <1>1, <1>2, <2>2
    <3>2. e = o + 1 /\ s2.data[o] = z
      BY <1>5, <1>6, <2>2, <3>1
    <3> QED
      BY <2>1, <3>2 DEF Wrote
  <2>3. CASE z >= Base
    <3>1. o + 1 # o
      OBVIOUS
    <3>2. ~s2.used[o + 1]
      BY <1>5, <1>6, <2>3, <3>1
    <3> QED
      BY <1>5, <1>6, <2>1, <2>3, <3>2 DEF Wrote
  <2> QED
    <3>1. z < Base \/ z >= Base
      BY <1>1, <1>2
    <3> QED
      BY <2>1, <2>2, <2>3, <3>1
<1>11. ~s2.used[j]
  <2>1. j # o
    BY <1>1
  <2> QED
    BY <1>1, <1>3, <1>5, <2>1
<1>12. \A k \in 0 .. BitCount - 1 : k # o /\ s2.used[k] => s.used[k]
  BY <1>3, <1>5
<1> QED
  BY <1>5, <1>7, <1>8, <1>9, <1>10, <1>11, <1>12

(* What a task has read stays where it is when it writes before it.         *)
LEMMA StillThere ==
    ASSUME ShapeOK, NEW s, NEW s2, Sane(s), Sane(s2), NEW d \in Chunk, NEW t, TaskType(t), Window(s, d, t),
           t.idxX < s.end[d], NEW h \in {t.idxY, t.idxB}, Changed(s, s2, t.out, h), s2.end = s.end,
           \A k \in 0 .. BitCount - 1 : k # t.out /\ s2.used[k] => s.used[k],
           h = t.idxB => ~s2.used[t.idxY]
    PROVE  /\ OnSymbol(s2, t.in) /\ At(s2, t.idxB, t.b) /\ NoneBetween(s2, t.idxB, t.in.idx)
           /\ h = t.idxY => At(s2, t.idxY, t.y) /\ NoneBetween(s2, t.idxY, t.idxB)
           /\ \A p \in Positions(s2) : p < h => p < Top(d)
<1>1. /\ t.out \in Nat /\ t.idxX \in Nat /\ t.idxY \in Nat /\ t.idxB \in Nat
      /\ t.in \in IterType /\ t.in.idx \in Nat /\ Beg(d) \in Nat /\ Top(d) \in Nat
  BY TaskTypes DEF TaskType
<1>2. h \in Nat /\ h <= t.idxB /\ h <= t.in.idx
  BY <1>1 DEF Window
<1>3. OnSymbol(s2, t.in)
  BY <1>1, <1>2, Behind DEF Window
<1>4. At(s2, t.idxB, t.b) /\ NoneBetween(s2, t.idxB, t.in.idx)
  BY <1>1, <1>2, Behind DEF Window
<1>5. h = t.idxY => At(s2, t.idxY, t.y) /\ NoneBetween(s2, t.idxY, t.idxB)
  BY <1>1, <1>2, Behind DEF Window
<1>6. ASSUME NEW p \in Positions(s2), p < h PROVE p < Top(d)
  <2>1. t.idxX \in Positions(s) /\ t.idxX < Top(d)
    BY AtSymbol
  <2>2. CASE p = t.out
    BY <1>1, <2>1, <2>2 DEF Window
  <2>3. CASE p # t.out
    <3>1. p \in Nat /\ p \in 0 .. BitCount - 1 /\ s2.used[p] /\ p \in Index /\ p < s2.end[ChunkIdx(p)]
      BY PositionFacts
    <3>2. p \in Positions(s)
      BY <2>3, <3>1 DEF Positions
    <3>3. p # t.idxY \/ h = t.idxY
      BY <3>1
    <3>4. p <= t.idxX
      BY <1>1, <1>6, <3>1, <3>2, <3>3 DEF Window, NoneBetween
    <3> QED
      BY <1>1, <2>1, <3>1, <3>4
  <2> QED
    BY <2>2, <2>3
<1> QED
  BY <1>3, <1>4, <1>5, <1>6

(* CopySymbol reads one symbol more.                                        *)
AfterCopy(s2, t, e) ==
    [t EXCEPT !.out = e, !.a = t.x,
              !.x = t.y, !.idxX = t.idxY, !.y = t.b, !.idxY = t.idxB,
              !.b = GetSymbol(s2, t.in), !.idxB = t.in.idx,
              !.in = MoveToNext(s2, t.in)]

LEMMA CopyWindow ==
    ASSUME ShapeOK, NEW s, NEW s2, Sane(s), Sane(s2), NEW d \in Chunk, NEW t, TaskType(t), Window(s, d, t),
           t.idxX < s.end[d], Changed(s, s2, t.out, t.idxY), s2.end = s.end,
           \A k \in 0 .. BitCount - 1 : k # t.out /\ s2.used[k] => s.used[k],
           NEW e \in Nat, t.out < e, e <= t.idxY, e <= Top(d) + 1, e <= Size,
           NEW t2, t2 = AfterCopy(s2, t, e)
    PROVE  /\ TaskType(t2) /\ Window(s2, d, t2)
           /\ t2.out = e /\ t2.idxX = t.idxY /\ t2.endLock = t.endLock /\ t2.pc = "loop"
           /\ t.in.idx < t2.in.idx /\ NoneBetween(s2, t.in.idx, t2.in.idx)
<1> DEFINE n == MoveToNext(s2, t.in)
<1>1. /\ t.out \in Nat /\ t.idxX \in Nat /\ t.idxY \in Nat /\ t.idxB \in Nat /\ t.endLock \in Nat
      /\ t.in \in IterType /\ t.in.idx \in Nat /\ Beg(d) \in Nat /\ Top(d) \in Nat
  BY TaskTypes DEF TaskType
<1>2. t.idxY # t.idxB
  BY <1>1 DEF Window
<1>3. /\ OnSymbol(s2, t.in) /\ At(s2, t.idxB, t.b) /\ NoneBetween(s2, t.idxB, t.in.idx)
      /\ At(s2, t.idxY, t.y) /\ NoneBetween(s2, t.idxY, t.idxB)
      /\ \A p \in Positions(s2) : p < t.idxY => p < Top(d)
  BY <1>2, StillThere
<1>4. n \in IterType /\ OnSymbol(s2, n) /\ t.in.idx < n.idx /\ NoneBetween(s2, t.in.idx, n.idx)
  BY <1>1, <1>3, NextFacts DEF OnSymbol
<1>5. At(s2, t.in.idx, GetSymbol(s2, t.in))
  BY <1>1, <1>3, ReadFacts
<1> HIDE DEF n
<1>6. /\ t2.pc = "loop" /\ t2.out = e /\ t2.a = t.x /\ t2.x = t.y /\ t2.idxX = t.idxY /\ t2.y = t.b
      /\ t2.idxY = t.idxB /\ t2.b = GetSymbol(s2, t.in) /\ t2.idxB = t.in.idx /\ t2.in = n
      /\ t2.endLock = t.endLock /\ t2.lastY = t.lastY
      /\ t2 = [pc |-> "loop", in |-> t2.in, out |-> t2.out, a |-> t2.a, x |-> t2.x, idxX |-> t2.idxX,
               y |-> t2.y, idxY |-> t2.idxY, b |-> t2.b, idxB |-> t2.idxB,
               endLock |-> t2.endLock, lastY |-> t2.lastY]
  <2>1. t = [pc |-> "loop", in |-> t.in, out |-> t.out, a |-> t.a, x |-> t.x, idxX |-> t.idxX,
             y |-> t.y, idxY |-> t.idxY, b |-> t.b, idxB |-> t.idxB,
             endLock |-> t.endLock, lastY |-> t.lastY]
    BY DEF TaskType
  <2>2. DOMAIN t = {"pc", "in", "out", "a", "x", "idxX", "y", "idxY", "b", "idxB", "endLock", "lastY"}
        /\ t.pc = "loop"
    BY <2>1
  <2>3. DOMAIN t2 = DOMAIN t
    BY DEF AfterCopy
  <2>4. /\ t2.pc = "loop" /\ t2.out = e /\ t2.a = t.x /\ t2.x = t.y /\ t2.idxX = t.idxY /\ t2.y = t.b
        /\ t2.idxY = t.idxB /\ t2.b = GetSymbol(s2, t.in) /\ t2.idxB = t.in.idx /\ t2.in = n
        /\ t2.endLock = t.endLock /\ t2.lastY = t.lastY
    BY <2>2 DEF n, AfterCopy
  <2> QED
    BY <2>2, <2>3, <2>4 DEF AfterCopy
<1>7. TaskType(t2)
  BY <1>1, <1>4, <1>6 DEF TaskType
<1>8. Window(s2, d, t2)
  <2>1. Beg(d) <= e /\ e > Beg(d) /\ t.idxY < t.idxB /\ t.idxB < t.in.idx
    BY <1>1 DEF Window
  <2> QED
    BY <1>3, <1>4, <1>5, <1>6, <2>1 DEF Window
<1> QED
  BY <1>4, <1>6, <1>7, <1>8

(* ReplacePair reads two.                                                   *)
AfterReplace(s2, t, e, z) ==
    LET itB == MoveToNext(s2, t.in)
    IN  [t EXCEPT !.out = e, !.lastY = t.idxY, !.a = z,
                  !.x = t.b, !.idxX = t.idxB,
                  !.y = GetSymbol(s2, t.in), !.idxY = t.in.idx,
                  !.b = GetSymbol(s2, itB), !.idxB = itB.idx,
                  !.in = MoveToNext(s2, itB)]

LEMMA ReplaceWindow ==
    ASSUME ShapeOK, NEW s, NEW s2, Sane(s), Sane(s2), NEW d \in Chunk, NEW t, TaskType(t), Window(s, d, t),
           t.idxX < s.end[d], Changed(s, s2, t.out, t.idxB), s2.end = s.end,
           \A k \in 0 .. BitCount - 1 : k # t.out /\ s2.used[k] => s.used[k],
           ~s2.used[t.idxY], NEW z,
           NEW e \in Nat, t.out < e, e <= t.idxB, e <= Top(d) + 1, e <= Size,
           NEW t2, t2 = AfterReplace(s2, t, e, z)
    PROVE  /\ TaskType(t2) /\ Window(s2, d, t2)
           /\ t2.out = e /\ t2.idxX = t.idxB /\ t2.endLock = t.endLock /\ t2.pc = "loop"
           /\ t.in.idx < t2.in.idx
           /\ \E k \in Nat : t.in.idx < k /\ NoneBetween(s2, t.in.idx, k) /\ NoneBetween(s2, k, t2.in.idx)
<1> DEFINE itB == MoveToNext(s2, t.in)
           n == MoveToNext(s2, itB)
<1>1. /\ t.out \in Nat /\ t.idxX \in Nat /\ t.idxY \in Nat /\ t.idxB \in Nat /\ t.endLock \in Nat
      /\ t.in \in IterType /\ t.in.idx \in Nat /\ Beg(d) \in Nat /\ Top(d) \in Nat
  BY TaskTypes DEF TaskType
<1>3. /\ OnSymbol(s2, t.in) /\ At(s2, t.idxB, t.b) /\ NoneBetween(s2, t.idxB, t.in.idx)
      /\ \A p \in Positions(s2) : p < t.idxB => p < Top(d)
  BY StillThere
<1>4. itB \in IterType /\ OnSymbol(s2, itB) /\ t.in.idx < itB.idx /\ NoneBetween(s2, t.in.idx, itB.idx)
  BY <1>1, <1>3, NextFacts DEF OnSymbol
<1> HIDE DEF itB
<1>5. n \in IterType /\ OnSymbol(s2, n) /\ itB.idx < n.idx /\ NoneBetween(s2, itB.idx, n.idx)
  BY <1>4, NextFacts DEF OnSymbol
<1>6. At(s2, t.in.idx, GetSymbol(s2, t.in)) /\ At(s2, itB.idx, GetSymbol(s2, itB)) /\ itB.idx \in Nat
  BY <1>1, <1>3, <1>4, ReadFacts DEF IterType
<1> HIDE DEF n
<1>7. /\ t2.pc = "loop" /\ t2.out = e /\ t2.a = z /\ t2.x = t.b /\ t2.idxX = t.idxB
      /\ t2.y = GetSymbol(s2, t.in) /\ t2.idxY = t.in.idx /\ t2.b = GetSymbol(s2, itB)
      /\ t2.idxB = itB.idx /\ t2.in = n /\ t2.endLock = t.endLock /\ t2.lastY = t.idxY
      /\ t2 = [pc |-> "loop", in |-> t2.in, out |-> t2.out, a |-> t2.a, x |-> t2.x, idxX |-> t2.idxX,
               y |-> t2.y, idxY |-> t2.idxY, b |-> t2.b, idxB |-> t2.idxB,
               endLock |-> t2.endLock, lastY |-> t2.lastY]
  <2>1. t = [pc |-> "loop", in |-> t.in, out |-> t.out, a |-> t.a, x |-> t.x, idxX |-> t.idxX,
             y |-> t.y, idxY |-> t.idxY, b |-> t.b, idxB |-> t.idxB,
             endLock |-> t.endLock, lastY |-> t.lastY]
    BY DEF TaskType
  <2>2. DOMAIN t = {"pc", "in", "out", "a", "x", "idxX", "y", "idxY", "b", "idxB", "endLock", "lastY"}
        /\ t.pc = "loop"
    BY <2>1
  <2>3. DOMAIN t2 = DOMAIN t
    BY DEF AfterReplace
  <2>4. /\ t2.pc = "loop" /\ t2.out = e /\ t2.a = z /\ t2.x = t.b /\ t2.idxX = t.idxB
        /\ t2.y = GetSymbol(s2, t.in) /\ t2.idxY = t.in.idx /\ t2.b = GetSymbol(s2, itB)
        /\ t2.idxB = itB.idx /\ t2.in = n /\ t2.endLock = t.endLock /\ t2.lastY = t.idxY
    BY <2>2 DEF n, itB, AfterReplace
  <2> QED
    BY <2>2, <2>3, <2>4 DEF AfterReplace
<1>8. TaskType(t2)
  BY <1>1, <1>5, <1>6, <1>7 DEF TaskType
<1>9. Window(s2, d, t2)
  <2>1. Beg(d) <= e /\ e > Beg(d) /\ t.idxB < t.in.idx
    BY <1>1 DEF Window
  <2> QED
    BY <1>3, <1>4, <1>5, <1>6, <1>7, <2>1 DEF Window
<1>10. t.in.idx < n.idx /\ n.idx \in Nat
  BY <1>1, <1>4, <1>5, <1>6 DEF IterType
<1> QED
  BY <1>4, <1>5, <1>6, <1>7, <1>8, <1>9, <1>10

(* The end lock stays ahead.                                                *)
LEMMA StillAhead ==
    ASSUME ShapeOK, NEW s, NEW s2, Sane(s), Sane(s2), NEW d \in Chunk, NEW t, TaskType(t), Window(s, d, t),
           NEW m, Ahead(s, d, t, m), NEW h \in Nat, h <= t.in.idx, Changed(s, s2, t.out, h), s2.end = s.end,
           m # d => t.in.idx < t.endLock,
           NEW t2, TaskType(t2), t2.endLock = t.endLock, t.in.idx < t2.in.idx,
           \/ NoneBetween(s2, t.in.idx, t2.in.idx)
           \/ \E n \in Nat : t.in.idx < n /\ NoneBetween(s2, t.in.idx, n) /\ NoneBetween(s2, n, t2.in.idx)
    PROVE  Ahead(s2, d, t2, m)
<1>1. /\ t.out \in Nat /\ t.endLock \in Nat /\ t.in.idx \in Nat /\ t2.in.idx \in Nat
  BY TaskTypes
<1>2. ASSUME d + 1 < NChunks, m # d \/ t2.in.idx < t2.endLock
      PROVE  /\ t2.endLock \in Positions(s2)
             /\ \E f, l \in Positions(s2) : /\ t2.in.idx <= f /\ t2.endLock < f /\ f < l /\ l < Top(d)
                                            /\ l < Word \/ f + 1 < l - Word
  <2>1. t.in.idx < t.endLock
    BY <1>1, <1>2
  <2>2. t.endLock \in Positions(s)
    BY <1>2, <2>1 DEF Ahead
  <2>3. PICK f, l \in Positions(s) : /\ t.in.idx <= f /\ t.endLock < f /\ f < l /\ l < Top(d)
                                     /\ l < Word \/ f + 1 < l - Word
    BY <1>2, <2>1 DEF Ahead
  <2>4. f \in Nat /\ l \in Nat /\ h <= t.endLock /\ h <= f /\ h <= l
    BY <1>1, <2>1, <2>3, PositionFacts
  <2>5. t.endLock \in Positions(s2) /\ f \in Positions(s2) /\ l \in Positions(s2)
    BY <1>1, <2>2, <2>3, <2>4, ChangedFacts
  <2>6. t2.in.idx <= f
    <3>1. CASE NoneBetween(s2, t.in.idx, t2.in.idx)
      BY <1>1, <2>1, <2>3, <2>4, <2>5, <3>1 DEF NoneBetween
    <3>2. CASE ~NoneBetween(s2, t.in.idx, t2.in.idx)
      <4>1. PICK n \in Nat : t.in.idx < n /\ NoneBetween(s2, t.in.idx, n) /\ NoneBetween(s2, n, t2.in.idx)
        BY <3>2
      <4>2. n <= t.endLock
        BY <1>1, <2>1, <2>5, <4>1 DEF NoneBetween
      <4> QED
        BY <1>1, <2>3, <2>4, <2>5, <4>1, <4>2 DEF NoneBetween
    <3> QED
      BY <3>1, <3>2
  <2> QED
    BY <2>3, <2>5, <2>6
<1> QED
  BY <1>2 DEF Ahead

(* What a task has written before a chunk, when the change is elsewhere.    *)
LEMMA WrittenSame ==
    ASSUME ShapeOK, NEW s, NEW s2, NEW o, NEW h, Changed(s, s2, o, h),
           NEW c \in Chunk, NEW m \in Chunk, m < c, Top(m) < o \/ h <= Beg(m),
           NEW t, t.out \in Nat, Written(s, m, t)
    PROVE  Written(s2, m, t)
<1>1. /\ m \in Nat /\ c \in Nat /\ Beg(m) \in Nat /\ Top(m) \in Nat /\ Beg(c) \in Nat
      /\ Beg(c) < Size /\ Size \in Nat /\ BitCount \in Nat /\ Size <= BitCount
  BY Chunks, Begins, Numbers, Bits
<1>2. Top(m) <= Beg(c)
  BY <1>1, Begins
<1>3. o \in Nat /\ h \in Nat /\ o < h
  BY DEF Changed
<1>4. ASSUME NEW k \in Nat, Beg(m) <= k, k <= Top(m)
      PROVE  s2.used[k] = s.used[k] /\ s2.data[k] = s.data[k]
  <2>1. k \in Index /\ k \in 0 .. BitCount - 1
    BY <1>1, <1>2, <1>4 DEF Index
  <2>2. k < o \/ h <= k
    BY <1>1, <1>3, <1>4
  <2> QED
    BY <2>1, <2>2 DEF Changed
<1>5. CASE /\ t.out \in Beg(m) + 1 .. Top(m)
           /\ s.used[t.out - 1] /\ s.data[t.out - 1] >= Z
  <2>1. t.out - 1 \in Nat /\ Beg(m) <= t.out - 1 /\ t.out - 1 <= Top(m)
    BY <1>1, <1>5
  <2> QED
    BY <1>4, <1>5, <2>1 DEF Written
<1>6. CASE /\ t.out \in Beg(m) + 2 .. Top(m) + 1
           /\ s.used[t.out - 2] /\ ~s.used[t.out - 1]
           /\ s.data[t.out - 2] + Base * s.data[t.out - 1] >= Z
  <2>1. /\ t.out - 1 \in Nat /\ Beg(m) <= t.out - 1 /\ t.out - 1 <= Top(m)
        /\ t.out - 2 \in Nat /\ Beg(m) <= t.out - 2 /\ t.out - 2 <= Top(m)
    BY <1>1, <1>6
  <2>2. /\ s2.used[t.out - 1] = s.used[t.out - 1] /\ s2.data[t.out - 1] = s.data[t.out - 1]
        /\ s2.used[t.out - 2] = s.used[t.out - 2] /\ s2.data[t.out - 2] = s.data[t.out - 2]
    BY <1>4, <2>1
  <2> QED
    BY <1>6, <2>2 DEF Written
<1> QED
  BY <1>5, <1>6 DEF Written

LEMMA NewBeforeSame ==
    ASSUME ShapeOK, NEW s, NEW s2, Sane(s), Sane(s2), NEW o, NEW h, Changed(s, s2, o, h),
           NEW c \in Chunk, NewBefore(s, c),
           Beg(c) < o \/ \E l \in Positions(s) : h <= l /\ l < Beg(c)
    PROVE  NewBefore(s2, c)
<1>1. o \in Nat /\ h \in Nat /\ o < h /\ Beg(c) \in Nat
  BY Chunks, Begins DEF Changed
<1>2. /\ \A p \in Positions(s) : p \in Nat
      /\ \A p \in Positions(s2) : p \in Nat
  BY PositionFacts
<1>3. /\ \A p \in Nat : p < o \/ h <= p => (p \in Positions(s) <=> p \in Positions(s2))
      /\ \A p \in Nat : (p + 1 < o \/ h <= p) /\ p \in Positions(s) => SymbolAt(s2, p) = SymbolAt(s, p)
  BY ChangedFacts
<1>4. SUFFICES ASSUME NEW p \in Positions(s2), LastBefore(s2, c, p) PROVE SymbolAt(s2, p) >= Z
  BY DEF NewBefore
<1>5. p \in Nat /\ p < Beg(c) /\ \A q \in Positions(s2) : q <= p \/ q >= Beg(c)
  BY <1>2, <1>4 DEF LastBefore
<1>6. p + 1 < o \/ h <= p
  <2>1. CASE Beg(c) < o
    BY <1>1, <1>5, <2>1
  <2>2. CASE \E l \in Positions(s) : h <= l /\ l < Beg(c)
    <3>1. PICK l \in Positions(s) : h <= l /\ l < Beg(c)
      BY <2>2
    <3>2. l \in Nat /\ l \in Positions(s2)
      BY <1>2, <1>3, <3>1
    <3>3. l <= p
      BY <1>1, <1>5, <3>1, <3>2
    <3> QED
      BY <1>1, <1>5, <3>1, <3>2, <3>3
  <2> QED
    BY <2>1, <2>2
<1>7. p \in Positions(s) /\ SymbolAt(s2, p) = SymbolAt(s, p)
  BY <1>1, <1>3, <1>5, <1>6
<1>8. ASSUME NEW q \in Positions(s), ~(q <= p), ~(q >= Beg(c)) PROVE FALSE
  <2>1. q \in Nat /\ (q < o \/ h <= q)
    <3>1. q \in Nat
      BY <1>2
    <3>2. CASE Beg(c) < o
      BY <1>1, <1>8, <3>1, <3>2
    <3>3. CASE ~(Beg(c) < o)
      <4>1. h <= p
        <5>1. p < o => FALSE
          <6>1. SUFFICES ASSUME p < o PROVE FALSE
            OBVIOUS
          <6>2. PICK l \in Positions(s) : h <= l /\ l < Beg(c)
            BY <3>3
          <6>3. l \in Nat /\ l \in Positions(s2)
            BY <1>2, <1>3, <6>2
          <6> QED
            BY <1>1, <1>5, <6>1, <6>2, <6>3
        <5> QED
          BY <1>1, <1>5, <1>6, <5>1
      <4> QED
        BY <1>1, <1>5, <1>8, <3>1, <4>1
    <3> QED
      BY <3>2, <3>3
  <2>2. q \in Positions(s2)
    BY <1>3, <2>1
  <2> QED
    BY <1>5, <1>8, <2>2
<1>9. LastBefore(s, c, p)
  BY <1>5, <1>8 DEF LastBefore
<1> QED
  BY <1>7, <1>9 DEF NewBefore

(* A step of the task of d, which has the mutex m2 if it has it after it.   *)
Moves(tk, tk2, m, m2, d) ==
    /\ (m2 = m /\ Loop(tk, d)) \/ (m = NoTask /\ m2 = d)
    /\ \A x \in Chunk : x # d => tk2[x] = tk[x]
(* What it leaves in the chunk of a later task that is in its middle part.  *)
Spares(s, s2, tk, tk2, m, d, h, c) ==
    /\ h <= Beg(c) + Word /\ h = tk2[d].idxX /\ (h < Beg(c) => h \in Positions(s))
    /\ ~Reached(tk, c, m)
    /\ \A k \in 0 .. BitCount - 1 : k >= Beg(c) + 2 => s2.used[k] = s.used[k]
    /\ h >= Beg(c) /\ Removed(s2, c) => Written(s2, d, tk2[d])

(* Such a step leaves the other tasks as they should be.                    *)
LEMMA OtherTask ==
    ASSUME ShapeOK, NEW s, NEW s2, NEW tk, NEW tk2, NEW m, NEW m2, Sane(s), Sane(s2), TasksOK(s, tk, m),
           NEW c \in Chunk, NEW d \in Chunk, c # d, Loop(tk, c), Moves(tk, tk2, m, m2, d),
           NEW o, NEW h, Changed(s, s2, o, h), s2.end = s.end, Beg(d) <= o, o < Top(d),
           m = c => Beg(d) + Word <= o,
           m2 # d => h <= tk[d].in.idx,
           m2 = d /\ c > d => Spares(s, s2, tk, tk2, m, d, h, c)
    PROVE  TaskOK(s2, tk2, m2, c)
<1> DEFINE t == tk[c]
<1>0. /\ (m2 = m /\ Loop(tk, d)) \/ (m = NoTask /\ m2 = d)
      /\ \A x \in Chunk : x # d => tk2[x] = tk[x]
  BY DEF Moves
<1>00. ASSUME m2 = d, c > d
       PROVE  /\ h <= Beg(c) + Word /\ h = tk2[d].idxX /\ (h < Beg(c) => h \in Positions(s))
              /\ ~Reached(tk, c, m)
              /\ \A k \in 0 .. BitCount - 1 : k >= Beg(c) + 2 => s2.used[k] = s.used[k]
              /\ h >= Beg(c) /\ Removed(s2, c) => Written(s2, d, tk2[d])
  BY <1>00 DEF Spares
<1>1. TaskOK(s, tk, m, c) /\ tk2[c] = t
  BY <1>0 DEF TasksOK
<1> HIDE DEF t
<1>2. TaskType(t) /\ Window(s, c, t) /\ Ahead(s, c, t, m) /\ Middle(c, t, m) /\ Dense(s, c, t)
      /\ Kept(s, tk, c, m)
  BY <1>1 DEF TaskOK, t
<1>3. /\ t.out \in Nat /\ t.idxX \in Nat /\ t.idxY \in Nat /\ t.idxB \in Nat /\ t.endLock \in Nat
      /\ t.in.idx \in Nat /\ Beg(c) \in Nat /\ Top(c) \in Nat /\ s.end[c] \in Nat /\ s.end[c] <= Size
      /\ c \in Nat /\ c < NChunks /\ NChunks \in Nat /\ Beg(c) < Top(c)
  BY <1>2, TaskTypes
<1>4. /\ d \in Nat /\ d < NChunks /\ Beg(d) \in Nat /\ Top(d) \in Nat /\ o \in Nat /\ h \in Nat /\ o < h
      /\ Size \in Nat /\ BitCount \in Nat /\ Size <= BitCount
  BY Chunks, Begins, Numbers, Bits DEF Changed
<1>5. m \in Chunk \cup {NoTask} /\ NoTask \notin Chunk
  BY Chunks DEF TasksOK, NoTask
<1>6. m2 = c <=> m = c
  BY <1>0, <1>5
<1>7. Middle(c, t, m2)
  BY <1>2, <1>6 DEF Middle
<1>8. m2 # d => m2 = m /\ Loop(tk, d)
  BY <1>0
<1>9. ASSUME m2 # d, c > d
      PROVE  /\ h < Beg(c) /\ Beg(d) + Word < Beg(c)
             /\ \E l \in Positions(s) : h <= l /\ l < Beg(c)
  <2>1. Top(d) <= Beg(c) /\ d + 1 < NChunks
    BY <1>3, <1>4, <1>9, Begins
  <2>2. /\ Beg(d) + Word <= tk[d].out /\ tk[d].out <= tk[d].idxX /\ tk[d].idxX < s.end[d]
        /\ \E f, l \in Positions(s) : tk[d].in.idx <= f /\ f < l /\ l < Top(d)
    BY <1>8, <1>9, <2>1, MiddleFacts
  <2>3. TaskType(tk[d]) /\ Window(s, d, tk[d])
    BY <1>8, <1>9 DEF TasksOK, TaskOK
  <2>4. tk[d].out \in Nat /\ tk[d].idxX \in Nat /\ tk[d].in.idx \in Nat
    BY <2>3, TaskTypes
  <2>5. tk[d].idxX < Top(d)
    BY <2>2, <2>3, AtSymbol
  <2>6. PICK f, l \in Positions(s) : tk[d].in.idx <= f /\ f < l /\ l < Top(d)
    BY <2>2
  <2>7. f \in Nat /\ l \in Nat
    BY PositionFacts
  <2>8. h <= l /\ l < Beg(c) /\ h < Beg(c)
    BY <1>3, <1>4, <1>9, <2>1, <2>4, <2>6, <2>7
  <2>9. Beg(d) + Word < Beg(c)
    BY <1>3, <1>4, <2>1, <2>2, <2>4, <2>5, WordType
  <2> QED
    BY <2>8, <2>9
<1>10. ASSUME m2 = d, c > d PROVE m # c /\ h <= Beg(c) + Word
  <2>1. m # c
    BY <1>6, <1>10
  <2> QED
    BY <1>00, <1>10, <2>1
<1>11. /\ Window(s2, c, t) /\ Ahead(s2, c, t, m2)
       /\ c < d => t.in.idx + 1 < o /\ Top(c) <= o /\ Dense(s2, c, t)
  <2>1. m = c => Loop(tk, d) /\ Beg(d) + Word <= o
    BY <1>0, <1>5
  <2>2. c > d => h <= Beg(c) \/ (h <= Beg(c) + Word /\ m # c)
    BY <1>3, <1>4, <1>9, <1>10
  <2>3. m = c => m2 = c
    BY <1>6
  <2> QED
    BY <2>1, <2>2, <2>3, Others DEF t
<1>12. ASSUME c < d PROVE Dense(s2, c, t) /\ Kept(s2, tk2, c, m2)
  <2>1. Dense(s2, c, t) /\ t.in.idx + 1 < o /\ Top(c) <= o
    BY <1>11, <1>12
  <2>2. SUFFICES ASSUME t.out >= Beg(c) + 2, Removed(s2, c)
                 PROVE  IF Reached(tk2, c, m2) THEN Written(s2, m2, tk2[m2]) ELSE NewBefore(s2, c)
    BY <1>1, <2>1 DEF Kept
  <2>3. Beg(c) + 1 < o /\ Beg(c) + 1 < Size
    BY <1>2, <1>3, <1>4, <2>1, <2>2 DEF Window
  <2>4. Removed(s, c)
    <3>1. Beg(c) \in 0 .. BitCount - 1 /\ Beg(c) + 1 \in 0 .. BitCount - 1
      BY <1>3, <1>4, <2>3
    <3>2. s2.used[Beg(c)] = s.used[Beg(c)] /\ s2.used[Beg(c) + 1] = s.used[Beg(c) + 1]
      BY <1>3, <1>4, <2>3, <3>1 DEF Changed
    <3> QED
      BY <2>2, <3>2 DEF Removed
  <2>5. IF Reached(tk, c, m) THEN Written(s, m, tk[m]) ELSE NewBefore(s, c)
    BY <1>2, <2>2, <2>4 DEF Kept, t
  <2>6. CASE Reached(tk, c, m)
    <3>1. m \in Chunk /\ m < c /\ m # d /\ m \in Nat
      BY <1>3, <1>4, <1>12, <2>6, Chunks DEF Reached
    <3>2. m2 = m /\ tk2[m] = tk[m]
      BY <1>0, <1>5, <3>1
    <3>3. Top(m) <= Beg(c) /\ Top(m) \in Nat
      BY <1>3, <3>1, Begins
    <3>4. tk[m].out \in Nat
      <4>1. Loop(tk, m)
        BY <3>1 DEF TasksOK
      <4>2. TaskType(tk[m])
        BY <3>1, <4>1 DEF TasksOK, TaskOK
      <4> QED
        BY <4>2 DEF TaskType
    <3>5. Top(m) < o
      BY <1>3, <1>4, <2>3, <3>3
    <3>6. Written(s2, m, tk[m])
      BY <2>5, <2>6, <3>1, <3>4, <3>5, WrittenSame
    <3>7. Reached(tk2, c, m2)
      BY <2>6, <3>2 DEF Reached
    <3> QED
      BY <3>2, <3>6, <3>7
  <2>7. CASE ~Reached(tk, c, m)
    <3>1. NewBefore(s2, c)
      <4>1. Beg(c) < o
        BY <1>3, <1>4, <2>3
      <4> QED
        BY <2>5, <2>7, <4>1, NewBeforeSame
    <3>2. ~Reached(tk2, c, m2)
      <4>1. SUFFICES ASSUME Reached(tk2, c, m2) PROVE FALSE
        OBVIOUS
      <4>2. m2 \in Chunk /\ m2 < c /\ m2 # d
        BY <1>3, <1>4, <1>12, <4>1, Chunks DEF Reached
      <4> QED
        BY <1>0, <2>7, <4>1, <4>2 DEF Reached
    <3> QED
      BY <3>1, <3>2
  <2> QED
    BY <2>1, <2>6, <2>7
<1>13. ASSUME c > d PROVE Dense(s2, c, t) /\ Kept(s2, tk2, c, m2)
  <2>1. /\ m2 # d => h < Beg(c)
        /\ Top(d) <= Beg(c)
    BY <1>3, <1>4, <1>9, <1>13, Begins
  <2>2. \A k \in 0 .. BitCount - 1 : k >= Beg(c) + 2 => s2.used[k] = s.used[k]
    <3>1. CASE m2 = d
      BY <1>00, <1>13, <3>1
    <3>2. CASE m2 # d
      BY <1>3, <1>4, <2>1, <3>2 DEF Changed
    <3> QED
      BY <3>1, <3>2
  <2>3. Dense(s2, c, t)
    <3>1. ASSUME NEW i \in Beg(c) + 2 .. Beg(c) + Word - 2, i <= t.out - 2
          PROVE s2.used[i] \/ s2.used[i + 1]
      <4>1. s.used[i] \/ s.used[i + 1]
        BY <1>2, <3>1 DEF Dense
      <4>2. i \in Nat /\ i + 1 < t.out /\ t.out <= Size
        BY <1>2, <1>3, <3>1, WordType DEF Window
      <4>3. i \in 0 .. BitCount - 1 /\ i + 1 \in 0 .. BitCount - 1 /\ i >= Beg(c) + 2 /\ i + 1 >= Beg(c) + 2
        BY <1>3, <1>4, <3>1, <4>2, WordType
      <4> QED
        BY <2>2, <4>1, <4>3
    <3> QED
      BY <3>1 DEF Dense
  <2>4. SUFFICES ASSUME t.out >= Beg(c) + 2, Removed(s2, c)
                 PROVE  IF Reached(tk2, c, m2) THEN Written(s2, m2, tk2[m2]) ELSE NewBefore(s2, c)
    BY <1>1, <2>3 DEF Kept
  <2>5. Beg(c) + 1 < Size /\ Beg(c) \in 0 .. BitCount - 1 /\ Beg(c) + 1 \in 0 .. BitCount - 1
    BY <1>2, <1>3, <1>4, <2>4 DEF Window
  <2>6. h <= Beg(c) => Removed(s, c)
    BY <1>3, <1>4, <2>4, <2>5 DEF Removed, Changed
  <2>7. Removed(s, c) => IF Reached(tk, c, m) THEN Written(s, m, tk[m]) ELSE NewBefore(s, c)
    BY <1>2, <2>4 DEF Kept, t
  <2>8. CASE m2 = d
    <3>1. Reached(tk2, c, m2) <=> h >= Beg(c)
      BY <1>00, <1>3, <1>4, <1>13, <2>8 DEF Reached
    <3>2. CASE h >= Beg(c)
      BY <1>00, <1>13, <2>4, <2>8, <3>1, <3>2
    <3>3. CASE ~(h >= Beg(c))
      <4>1. NewBefore(s, c)
        BY <1>00, <1>3, <1>4, <1>13, <2>6, <2>7, <2>8, <3>3
      <4>2. h \in Positions(s) /\ h <= h /\ h < Beg(c)
        BY <1>00, <1>3, <1>4, <1>13, <2>8, <3>3
      <4>3. NewBefore(s2, c)
        BY <4>1, <4>2, NewBeforeSame
      <4> QED
        BY <3>1, <3>3, <4>3
    <3> QED
      BY <3>2, <3>3
  <2>9. CASE m2 # d
    <3>1. m2 = m /\ Loop(tk, d) /\ h < Beg(c) /\ Removed(s, c)
      BY <1>3, <1>4, <1>8, <2>1, <2>6, <2>9
    <3>2. m \in Chunk => tk2[m] = tk[m]
      BY <1>0, <2>9, <3>1
    <3>3. Reached(tk2, c, m2) <=> Reached(tk, c, m)
      BY <3>1, <3>2 DEF Reached
    <3>4. CASE Reached(tk, c, m)
      <4>1. m \in Chunk /\ m \in Nat /\ m < c /\ tk[m].idxX >= Beg(c) /\ Loop(tk, m)
        BY <3>4, Chunks DEF Reached, TasksOK
      <4>2. TaskType(tk[m])
        BY <4>1 DEF TasksOK, TaskOK
      <4>3. tk[m].idxX \in Nat /\ tk[m].out \in Nat
        BY <4>2 DEF TaskType
      <4>4. ~(m < d)
        <5>1. SUFFICES ASSUME m < d PROVE FALSE
          OBVIOUS
        <5>2. tk[m].idxX <= Beg(d) + 3
          BY <3>1, <4>1, <5>1, Reach
        <5>3. Beg(d) + Word < Beg(c)
          BY <1>9, <1>13, <2>9
        <5> QED
          BY <1>3, <1>4, <4>1, <4>3, <5>2, <5>3, WordType
      <4>5. Top(d) <= Beg(m) /\ Beg(m) \in Nat
        <5>1. m # d /\ d < m
          BY <1>4, <2>9, <3>1, <4>1, <4>4
        <5> QED
          BY <1>4, <4>1, <5>1, Begins
      <4>6. h <= Beg(m)
        <5>1. \E f, l \in Positions(s) : tk[d].in.idx <= f /\ f < l /\ l < Top(d)
          <6>1. d + 1 < NChunks /\ m # d
            BY <1>3, <1>4, <1>13, <2>9, <3>1
          <6> QED
            BY <3>1, <6>1, MiddleFacts
        <5>2. PICK f, l \in Positions(s) : tk[d].in.idx <= f /\ f < l /\ l < Top(d)
          BY <5>1
        <5>3. tk[d].in.idx \in Nat
          <6>1. TaskType(tk[d])
            BY <3>1 DEF TasksOK, TaskOK
          <6> QED
            BY <6>1, TaskTypes
        <5> QED
          BY <1>4, <2>9, <4>5, <5>2, <5>3, PositionFacts
      <4>7. Written(s2, m, tk[m])
        BY <2>7, <3>1, <3>4, <4>1, <4>3, <4>6, WrittenSame
      <4> QED
        BY <3>1, <3>2, <3>3, <3>4, <4>1, <4>7
    <3>5. CASE ~Reached(tk, c, m)
      <4>1. NewBefore(s2, c)
        BY <1>9, <1>13, <2>7, <2>9, <3>1, <3>5, NewBeforeSame
      <4> QED
        BY <3>3, <3>5, <4>1
    <3> QED
      BY <3>4, <3>5
  <2> QED
    BY <2>8, <2>9
<1> QED
  BY <1>1, <1>2, <1>3, <1>4, <1>7, <1>11, <1>12, <1>13 DEF TaskOK, t

(* The task's own chunk near its begin.                                     *)
LEMMA OwnHead ==
    ASSUME ShapeOK, NEW s, NEW s2, NEW tk, NEW tk2, NEW m, Sane(s), Sane(s2), TasksOK(s, tk, m),
           NEW d \in Chunk, Loop(tk, d), tk[d].out < Size,
           \A x \in Chunk : x # d => tk2[x] = tk[x],
           tk2[d].out \in Nat, tk2[d].out <= tk[d].out + 2, tk2[d].out <= Size,
           NEW h, Changed(s, s2, tk[d].out, h), s2.used[tk[d].out]
    PROVE  Dense(s2, d, tk2[d]) /\ Kept(s2, tk2, d, m)
<1> DEFINE t == tk[d]
<1>1. TaskOK(s, tk, m, d)
  BY DEF TasksOK
<1> HIDE DEF t
<1>2. TaskType(t) /\ Window(s, d, t) /\ Dense(s, d, t) /\ Kept(s, tk, d, m)
  BY <1>1 DEF TaskOK, t
<1>3. /\ t.out \in Nat /\ Beg(d) \in Nat /\ Top(d) \in Nat /\ d \in Nat /\ Beg(d) <= t.out
      /\ Size \in Nat /\ BitCount \in Nat /\ Size <= BitCount
  BY <1>2, TaskTypes, Bits DEF Window
<1>4. \A k \in 0 .. BitCount - 1 : k < t.out => s2.used[k] = s.used[k]
  BY DEF Changed, t
<1>5. Dense(s2, d, tk2[d])
  <2>1. ASSUME NEW i \in Beg(d) + 2 .. Beg(d) + Word - 2, i <= tk2[d].out - 2
        PROVE s2.used[i] \/ s2.used[i + 1]
    <3>1. i \in Nat /\ i <= t.out
      BY <1>3, <2>1, WordType DEF t
    <3>2. CASE i = t.out
      BY <3>2 DEF t
    <3>3. CASE i + 1 = t.out
      BY <3>3 DEF t
    <3>4. CASE i + 1 < t.out
      <4>1. s.used[i] \/ s.used[i + 1]
        BY <1>2, <1>3, <2>1, <3>1, <3>4 DEF Dense
      <4>2. i \in 0 .. BitCount - 1 /\ i + 1 \in 0 .. BitCount - 1 /\ i < t.out
        BY <1>3, <3>1, <3>4 DEF t
      <4> QED
        BY <1>4, <3>4, <4>1, <4>2
    <3> QED
      BY <1>3, <3>1, <3>2, <3>3, <3>4
  <2> QED
    BY <2>1 DEF Dense
<1>6. ASSUME Removed(s2, d)
      PROVE  IF Reached(tk2, d, m) THEN Written(s2, m, tk2[m]) ELSE NewBefore(s2, d)
  <2>1. t.out # Beg(d) /\ t.out # Beg(d) + 1
    BY <1>6 DEF Removed, t
  <2>2. t.out >= Beg(d) + 2 /\ Beg(d) + 1 < Size
    BY <1>3, <2>1 DEF t
  <2>3. Beg(d) \in 0 .. BitCount - 1 /\ Beg(d) + 1 \in 0 .. BitCount - 1 /\ Beg(d) < t.out /\ Beg(d) + 1 < t.out
    BY <1>3, <2>2
  <2>4. Removed(s, d)
    BY <1>4, <1>6, <2>3 DEF Removed
  <2>5. IF Reached(tk, d, m) THEN Written(s, m, tk[m]) ELSE NewBefore(s, d)
    BY <1>2, <2>2, <2>4 DEF Kept, t
  <2>6. m \in Chunk /\ m < d => tk2[m] = tk[m]
    BY <1>3
  <2>7. Reached(tk2, d, m) <=> Reached(tk, d, m)
    BY <2>6 DEF Reached
  <2>8. CASE Reached(tk, d, m)
    <3>1. m \in Chunk /\ m < d /\ m \in Nat /\ Loop(tk, m)
      BY <2>8, Chunks DEF Reached, TasksOK
    <3>2. TaskType(tk[m])
      BY <3>1 DEF TasksOK, TaskOK
    <3>3. tk[m].out \in Nat
      BY <3>2 DEF TaskType
    <3>4. Top(m) <= Beg(d) /\ Top(m) \in Nat
      BY <1>3, <3>1, Begins
    <3>5. Top(m) < tk[d].out
      BY <1>3, <2>2, <3>4 DEF t
    <3>6. Written(s2, m, tk[m])
      BY <2>5, <2>8, <3>1, <3>3, <3>5, WrittenSame
    <3> QED
      BY <2>6, <2>7, <2>8, <3>1, <3>6
  <2>9. CASE ~Reached(tk, d, m)
    <3>1. Beg(d) < tk[d].out
      BY <2>3 DEF t
    <3>2. NewBefore(s2, d)
      BY <2>5, <2>9, <3>1, NewBeforeSame
    <3> QED
      BY <2>7, <2>9, <3>2
  <2> QED
    BY <2>8, <2>9
<1> QED
  BY <1>5, <1>6 DEF Kept

(* A task that reads a chunk whose first symbol is gone is not at a pair.   *)
LEMMA NoPairThere ==
    ASSUME ShapeOK, NEW s, NEW tk, NEW m, Sane(s), TasksOK(s, tk, m), NEW c \in Chunk, Loop(tk, c), m # c,
           ~Reached(tk, c, m), NEW i \in Positions(s), NEW j \in Nat, i < Beg(c), Beg(c) <= j, NoneBetween(s, i, j)
    PROVE  /\ Removed(s, c) => SymbolAt(s, i) >= Z
           /\ j >= Beg(c) + 2 => Removed(s, c)
<1>1. TaskOK(s, tk, m, c)
  BY DEF TasksOK
<1>2. TaskType(tk[c]) /\ Kept(s, tk, c, m)
  BY <1>1 DEF TaskOK
<1>3. /\ tk[c].out \in Nat /\ tk[c].idxX \in Nat /\ Beg(c) \in Nat /\ s.end[c] \in Nat
      /\ Beg(c) + Word <= tk[c].out /\ tk[c].out <= tk[c].idxX /\ tk[c].idxX < s.end[c]
  BY <1>2, TaskTypes, MiddleFacts
<1>4. i \in Nat /\ \A q \in Positions(s) : q \in Nat
  BY PositionFacts
<1>5. LastBefore(s, c, i)
  BY <1>3, <1>4 DEF LastBefore, NoneBetween
<1>6. Removed(s, c) => SymbolAt(s, i) >= Z
  <2>1. tk[c].out >= Beg(c) + 2
    BY <1>3, WordType
  <2> QED
    BY <1>2, <1>5, <2>1 DEF Kept, NewBefore
<1>7. ASSUME j >= Beg(c) + 2 PROVE Removed(s, c)
  <2>1. /\ Beg(c) < s.end[c] /\ Beg(c) + 1 < s.end[c] /\ Beg(c) + 1 \in Nat
    BY <1>3, WordType
  <2>2. Beg(c) \notin Positions(s) /\ Beg(c) + 1 \notin Positions(s)
    BY <1>3, <1>4, <1>7 DEF NoneBetween
  <2>3. Beg(c) <= Beg(c) /\ Beg(c) <= Beg(c) + 1
    BY <1>3
  <2> QED
    BY <1>3, <2>1, <2>2, <2>3, PositionFacts DEF Removed
<1> QED
  BY <1>6, <1>7

LEMMA HeadBits ==
    ASSUME ShapeOK, NEW s, NEW tk, NEW m, Sane(s), TasksOK(s, tk, m), NEW c \in Chunk, Loop(tk, c), m # c
    PROVE  Beg(c) \in 0 .. BitCount - 1 /\ Beg(c) + 1 \in 0 .. BitCount - 1
<1>1. TaskType(tk[c])
  BY DEF TasksOK, TaskOK
<1>2. /\ tk[c].out \in Nat /\ tk[c].idxX \in Nat /\ Beg(c) \in Nat /\ s.end[c] \in Nat /\ s.end[c] <= Size
      /\ Beg(c) + Word <= tk[c].out /\ tk[c].out <= tk[c].idxX /\ tk[c].idxX < s.end[c]
      /\ Size \in Nat /\ BitCount \in Nat /\ Size <= BitCount
  BY <1>1, TaskTypes, MiddleFacts, Bits
<1> QED
  BY <1>2, WordType

LEMMA WrittenNow ==
    ASSUME ShapeOK, NEW s2, NEW d \in Chunk, NEW o \in Nat, Beg(d) <= o, o < Top(d),
           NEW e \in Nat, NEW val, Wrote(s2, o, e, val), val >= Z, NEW t, t.out = e
    PROVE  Written(s2, d, t)
<1>1. Beg(d) \in Nat /\ Top(d) \in Nat
  BY Chunks, Begins
<1>2. CASE e = o + 1 /\ s2.used[o] /\ s2.data[o] = val
  <2>1. t.out \in Beg(d) + 1 .. Top(d) /\ t.out - 1 = o
    BY <1>1, <1>2
  <2> QED
    BY <1>2, <2>1 DEF Written
<1>3. CASE e = o + 2 /\ s2.used[o] /\ ~s2.used[o + 1] /\ s2.data[o] + Base * s2.data[o + 1] = val
  <2>1. t.out \in Beg(d) + 2 .. Top(d) + 1 /\ t.out - 2 = o /\ t.out - 1 = o + 1
    BY <1>1, <1>3
  <2> QED
    BY <1>3, <2>1 DEF Written
<1> QED
  BY <1>2, <1>3 DEF Wrote

PairOK == Z \in 0 .. Base * Base - 1 /\ {X, Y} \subseteq 0 .. Z - 1

LEMMA CopyKeeps ==
    ASSUME ShapeOK, PairOK, NEW s, NEW s2, NEW tk, NEW tk2, NEW m, Sane(s), TasksOK(s, tk, m),
           NEW d \in Chunk, Loop(tk, d), tk[d].idxX < s.end[d], tk[d].in.idx >= tk[d].endLock => m = d,
           s2 = PutSymbol(s, tk[d].out, tk[d].x), Sane(s2),
           NEW t, t = tk[d],
           tk2 = [tk EXCEPT ![d] = AfterCopy(s2, t, PutEnd(t.out, t.x))]
    PROVE  TasksOK(s2, tk2, m)
<1> DEFINE e == PutEnd(t.out, t.x)
           t2 == AfterCopy(s2, t, e)
<1>1. TaskOK(s, tk, m, d)
  BY DEF TasksOK
<1>2. TaskType(t) /\ Window(s, d, t) /\ Ahead(s, d, t, m) /\ Middle(d, t, m)
  BY <1>1 DEF TaskOK
<1>3. /\ t.out \in Nat /\ t.idxX \in Nat /\ t.idxY \in Nat /\ t.idxB \in Nat /\ t.endLock \in Nat
      /\ t.in.idx \in Nat /\ Beg(d) \in Nat /\ Top(d) \in Nat /\ Size \in Nat /\ d \in Nat
  BY <1>2, TaskTypes
<1>4. t.idxX \in Positions(s) /\ t.x = SymbolAt(s, t.idxX) /\ t.idxX < Top(d) /\ t.idxX < Size
  BY <1>2, AtSymbol, PositionFacts
<1>5. /\ Beg(d) <= t.out /\ t.out <= t.idxX /\ t.idxX < t.idxY /\ t.idxY < t.idxB /\ t.idxB < t.in.idx
      /\ NoneBetween(s, t.idxX, t.idxY) /\ (t.idxY \in Positions(s) \/ Past(s, t.idxY))
  BY <1>2 DEF Window, At
<1>6. /\ s2.end = s.end /\ Changed(s, s2, t.out, t.idxY)
      /\ e \in Nat /\ t.out < e /\ e <= t.out + 2 /\ e <= t.idxY /\ e <= Top(d) + 1 /\ e <= Size
      /\ s2.used[t.out] /\ Wrote(s2, t.out, e, SymbolAt(s, t.idxX))
      /\ \A k \in 0 .. BitCount - 1 : k # t.out /\ s2.used[k] => s.used[k]
      /\ \A k \in 0 .. BitCount - 1 : k # t.out /\ k # t.out + 1 => s2.used[k] = s.used[k]
      /\ \A k \in 0 .. BitCount - 1 : k > t.idxX => s2.used[k] = s.used[k]
  BY <1>3, <1>4, <1>5, CopyFacts, SMTT(30)
<1> HIDE DEF e
<1>7. /\ TaskType(t2) /\ Window(s2, d, t2)
      /\ t2.out = e /\ t2.idxX = t.idxY /\ t2.endLock = t.endLock /\ t2.pc = "loop"
      /\ t.in.idx < t2.in.idx /\ NoneBetween(s2, t.in.idx, t2.in.idx)
  <2>1. t.idxX < s.end[d] /\ ShapeOK /\ Sane(s) /\ Sane(s2) /\ d \in Chunk
    OBVIOUS
  <2>2. t2 = AfterCopy(s2, t, e)
    OBVIOUS
  <2> HIDE DEF t2
  <2> QED
    BY ONLY <1>2, <1>6, <2>1, <2>2, CopyWindow, SMTT(40)
<1>8. tk2 = [tk EXCEPT ![d] = t2] /\ tk = [c \in Chunk |-> tk[c]] /\ m \in Chunk \cup {NoTask}
      /\ (m \in Chunk => Loop(tk, m))
  BY DEF TasksOK, e
<1> HIDE DEF t2
<1>9. /\ tk2 = [c \in Chunk |-> tk2[c]] /\ tk2[d] = t2 /\ \A c \in Chunk : c # d => tk2[c] = tk[c]
  BY <1>8
<1>10. m # d => t.in.idx < t.endLock
  BY <1>3
<1>11. Ahead(s2, d, t2, m)
  <2>1. t.idxY <= t.in.idx
    BY <1>3, <1>5
  <2> QED
    BY <1>2, <1>3, <1>6, <1>7, <1>10, <2>1, StillAhead
<1>12. Middle(d, t2, m)
  <2>1. m # d => t.out >= Beg(d) + Word
    BY <1>2 DEF Middle
  <2>2. t.out < e /\ t2.out = e /\ t2.idxX = t.idxY /\ t2.endLock = t.endLock
    BY <1>6, <1>7
  <2>3. t.idxY < t.in.idx
    BY <1>3, <1>5
  <2>4. e \in Nat /\ Word \in Nat
    BY <1>6, WordType
  <2>5. m # d => t.idxY < t.endLock
    BY ONLY <1>3, <1>10, <2>3
  <2>6. m # d => e >= Beg(d) + Word
    BY ONLY <1>3, <2>1, <2>2, <2>4
  <2> QED
    BY ONLY <2>2, <2>5, <2>6, Zenon DEF Middle
<1>13. Dense(s2, d, t2) /\ Kept(s2, tk2, d, m)
  <2>1. t.out < Size
    BY <1>3, <1>4, <1>5
  <2>2. tk2[d].out \in Nat /\ tk2[d].out <= tk[d].out + 2 /\ tk2[d].out <= Size
    BY <1>6, <1>7, <1>9
  <2> QED
    BY <1>6, <1>9, <2>1, <2>2, OwnHead
<1>14. TaskOK(s2, tk2, m, d)
  BY <1>7, <1>9, <1>11, <1>12, <1>13 DEF TaskOK
<1>15. ASSUME NEW c \in Chunk, c # d, Loop(tk, c) PROVE TaskOK(s2, tk2, m, c)
  <2>1. c \in Nat /\ Beg(c) \in Nat
    BY Chunks, Begins
  <2>2. m = c => Beg(d) + Word <= t.out
    BY <1>2, <1>15 DEF Middle
  <2>3. t.idxY <= t.in.idx /\ t.out < Top(d)
    BY <1>3, <1>4, <1>5
  <2>4. ASSUME m = d, c > d PROVE Spares(s, s2, tk, tk2, m, d, t.idxY, c)
    <3>1. d < c /\ Top(d) <= Beg(c) /\ m # c
      BY <1>3, <2>1, <2>4, Begins
    <3>2. t.idxY <= Beg(c) + 3 /\ t.in.idx \in Positions(s)
      BY <1>15, <2>4, <3>1, Reach
    <3>3. t.idxY \in Positions(s)
      <4>1. ~Past(s, t.idxY)
        BY <1>3, <1>5, <3>2 DEF Past
      <4> QED
        BY <1>5, <4>1
    <3>4. ~Reached(tk, c, m)
      BY <1>3, <1>4, <2>1, <2>4, <3>1 DEF Reached
    <3>5. \A k \in 0 .. BitCount - 1 : k >= Beg(c) => s2.used[k] = s.used[k]
      BY <1>3, <1>4, <1>6, <2>1, <3>1
    <3>6. ASSUME t.idxY >= Beg(c), Removed(s2, c) PROVE Written(s2, d, tk2[d])
      <4>1. Beg(c) \in 0 .. BitCount - 1 /\ Beg(c) + 1 \in 0 .. BitCount - 1
        BY <1>15, <3>1, HeadBits
      <4>2. Removed(s, c)
        BY <2>1, <3>5, <3>6, <4>1 DEF Removed
      <4>3. SymbolAt(s, t.idxX) >= Z
        <5>1. t.idxX < Beg(c)
          BY <1>3, <1>4, <2>1, <3>1
        <5> QED
          BY <1>3, <1>4, <1>5, <1>15, <3>1, <3>4, <3>6, <4>2, <5>1, NoPairThere
      <4> QED
        <5>1. t.out < Top(d) /\ t2.out = e
          BY <1>7, <2>3
        <5>2. Written(s2, d, t2)
          BY <1>3, <1>5, <1>6, <4>3, <5>1, WrittenNow
        <5> QED
          BY <1>9, <5>2
    <3>7. t.idxY <= Beg(c) + Word /\ t.idxY = tk2[d].idxX
      BY <1>3, <1>7, <1>9, <2>1, <3>2, WordType
    <3>8. \A k \in 0 .. BitCount - 1 : k >= Beg(c) + 2 => s2.used[k] = s.used[k]
      BY <2>1, <3>5
    <3> QED
      BY <3>3, <3>4, <3>6, <3>7, <3>8 DEF Spares
  <2>5. m # d => t.idxY <= tk[d].in.idx
    BY <2>3
  <2>6. Loop(tk, d) /\ Beg(d) <= t.out /\ s2.end = s.end /\ Changed(s, s2, t.out, t.idxY)
    BY <1>5, <1>6
  <2>7. Moves(tk, tk2, m, m, d)
    BY <1>9 DEF Moves
  <2> QED
    BY <1>15, <2>2, <2>3, <2>4, <2>5, <2>6, <2>7, OtherTask
<1> QED
  <2>1. \A c \in Chunk : Loop(tk2, c) => TaskOK(s2, tk2, m, c)
    BY <1>9, <1>14, <1>15 DEF Loop
  <2>2. m \in Chunk => Loop(tk2, m)
    BY <1>7, <1>8, <1>9 DEF Loop
  <2> QED
    BY <1>8, <1>9, <2>1, <2>2 DEF TasksOK

LEMMA ReplaceKeeps ==
    ASSUME ShapeOK, PairOK, NEW s, NEW s2, NEW tk, NEW tk2, NEW m, Sane(s), TasksOK(s, tk, m),
           NEW d \in Chunk, Loop(tk, d), tk[d].idxX < s.end[d], tk[d].in.idx >= tk[d].endLock => m = d,
           NEW t, t = tk[d], t.x = X, t.y = Y,
           s2 = Replaced(s, t.idxY, t.out, Z), Sane(s2),
           tk2 = [tk EXCEPT ![d] = AfterReplace(s2, t, PutEnd(t.out, Z), Z)]
    PROVE  TasksOK(s2, tk2, m)
<1> DEFINE e == PutEnd(t.out, Z)
           t2 == AfterReplace(s2, t, e, Z)
<1>1. TaskOK(s, tk, m, d)
  BY DEF TasksOK
<1>2. TaskType(t) /\ Window(s, d, t) /\ Ahead(s, d, t, m) /\ Middle(d, t, m)
  BY <1>1 DEF TaskOK
<1>3. /\ t.out \in Nat /\ t.idxX \in Nat /\ t.idxY \in Nat /\ t.idxB \in Nat /\ t.endLock \in Nat
      /\ t.in.idx \in Nat /\ Beg(d) \in Nat /\ Top(d) \in Nat /\ Size \in Nat /\ d \in Nat
  BY <1>2, TaskTypes
<1>4. t.idxX \in Positions(s) /\ t.x = SymbolAt(s, t.idxX) /\ t.idxX < Top(d) /\ t.idxX < Size
  BY <1>2, AtSymbol, PositionFacts
<1>5. /\ Beg(d) <= t.out /\ t.out <= t.idxX /\ t.idxX < t.idxY /\ t.idxY < t.idxB /\ t.idxB < t.in.idx
      /\ NoneBetween(s, t.idxX, t.idxY) /\ NoneBetween(s, t.idxY, t.idxB)
      /\ At(s, t.idxY, t.y) /\ (t.idxB \in Positions(s) \/ Past(s, t.idxB))
  BY <1>2 DEF Window, At
<1>z. Z \in Nat /\ X \in Nat /\ Y \in Nat /\ X < Z /\ Z \in 0 .. Base * Base - 1
  <2>1. Base * Base \in Int
    BY WordType
  <2> HIDE DEF Z
  <2>2. Z \in Nat /\ Z \in 0 .. Base * Base - 1 /\ {X, Y} \subseteq 0 .. Z - 1
    BY <2>1 DEF PairOK
  <2> HIDE DEF X, Y
  <2> QED
    BY <2>2
<1>y. t.idxY \in Positions(s)
  <2>1. t.y # -1
    BY <1>z
  <2> QED
    BY <1>5, <2>1 DEF At
<1>e. e = PutEnd(t.out, Z) /\ s2 = Replaced(s, t.idxY, t.out, Z)
  OBVIOUS
<1> HIDE DEF e
<1>6. /\ s2.end = s.end /\ Changed(s, s2, t.out, t.idxB)
      /\ e \in Nat /\ t.out < e /\ e <= t.out + 2 /\ e <= t.idxB /\ e <= Top(d) + 1 /\ e <= Size
      /\ s2.used[t.out] /\ Wrote(s2, t.out, e, Z) /\ ~s2.used[t.idxY]
      /\ \A k \in 0 .. BitCount - 1 : k # t.out /\ s2.used[k] => s.used[k]
      /\ \A k \in 0 .. BitCount - 1 : k # t.out /\ k # t.out + 1 /\ k # t.idxY => s2.used[k] = s.used[k]
  <2>1. /\ t.idxX \in Positions(s) /\ t.idxY \in Positions(s) /\ t.idxB \in Nat /\ t.out \in Nat
        /\ Beg(d) <= t.out /\ t.out <= t.idxX /\ t.idxX < t.idxY /\ t.idxY < t.idxB /\ t.idxX < Top(d)
    BY <1>3, <1>4, <1>5, <1>y
  <2>2. Z \in 0 .. Base * Base - 1
    BY <1>z
  <2> HIDE DEF Z, X, Y
  <2> QED
    BY ONLY ShapeOK, Sane(s), d \in Chunk, <2>1, <2>2, <1>e, ReplaceFacts, SMTT(30)
<1>7. /\ TaskType(t2) /\ Window(s2, d, t2)
      /\ t2.out = e /\ t2.idxX = t.idxB /\ t2.endLock = t.endLock /\ t2.pc = "loop"
      /\ t.in.idx < t2.in.idx
      /\ \E k \in Nat : t.in.idx < k /\ NoneBetween(s2, t.in.idx, k) /\ NoneBetween(s2, k, t2.in.idx)
  <2>1. t.idxX < s.end[d] /\ ShapeOK /\ Sane(s) /\ Sane(s2) /\ d \in Chunk
    OBVIOUS
  <2>2. t2 = AfterReplace(s2, t, e, Z)
    OBVIOUS
  <2> HIDE DEF t2
  <2> QED
    BY ONLY <1>2, <1>6, <2>1, <2>2, ReplaceWindow, SMTT(40)
<1>8. tk2 = [tk EXCEPT ![d] = t2] /\ tk = [c \in Chunk |-> tk[c]] /\ m \in Chunk \cup {NoTask}
      /\ (m \in Chunk => Loop(tk, m))
  BY DEF TasksOK, e
<1> HIDE DEF t2
<1>9. /\ tk2 = [c \in Chunk |-> tk2[c]] /\ tk2[d] = t2 /\ \A c \in Chunk : c # d => tk2[c] = tk[c]
  BY <1>8
<1>10. m # d => t.in.idx < t.endLock
  BY <1>3
<1>11. Ahead(s2, d, t2, m)
  <2>0. ShapeOK /\ Sane(s) /\ Sane(s2) /\ d \in Chunk /\ t.idxB \in Nat
    BY <1>3
  <2>1. t.idxB <= t.in.idx /\ t2.in.idx \in Nat
    BY <1>3, <1>5, <1>7 DEF TaskType, IterType
  <2>2. t.in.idx < t2.in.idx
    BY <1>3, <1>7, <2>1
  <2>3. \E k \in Nat : t.in.idx < k /\ NoneBetween(s2, t.in.idx, k) /\ NoneBetween(s2, k, t2.in.idx)
    BY <1>7
  <2> QED
    BY ONLY <1>2, <1>6, <1>7, <1>10, <2>0, <2>1, <2>2, <2>3, StillAhead, SMTT(40)
<1>12. Middle(d, t2, m)
  <2>1. m # d => t.out >= Beg(d) + Word
    BY <1>2 DEF Middle
  <2>2. t.out < e /\ t2.out = e /\ t2.idxX = t.idxB /\ t2.endLock = t.endLock
    BY <1>6, <1>7
  <2>3. t.idxB < t.in.idx
    BY <1>3, <1>5
  <2>4. e \in Nat /\ Word \in Nat
    BY <1>6, WordType
  <2>5. m # d => t.idxB < t.endLock
    BY ONLY <1>3, <1>10, <2>3
  <2>6. m # d => e >= Beg(d) + Word
    BY ONLY <1>3, <2>1, <2>2, <2>4
  <2> QED
    BY ONLY <2>2, <2>5, <2>6, Zenon DEF Middle
<1>13. Dense(s2, d, t2) /\ Kept(s2, tk2, d, m)
  <2>1. t.out < Size
    BY <1>3, <1>4, <1>5
  <2>2. tk2[d].out \in Nat /\ tk2[d].out <= tk[d].out + 2 /\ tk2[d].out <= Size
    BY <1>6, <1>7, <1>9
  <2> QED
    BY <1>6, <1>9, <2>1, <2>2, OwnHead
<1>14. TaskOK(s2, tk2, m, d)
  BY <1>7, <1>9, <1>11, <1>12, <1>13 DEF TaskOK
<1>15. ASSUME NEW c \in Chunk, c # d, Loop(tk, c) PROVE TaskOK(s2, tk2, m, c)
  <2>1. c \in Nat /\ Beg(c) \in Nat
    BY Chunks, Begins
  <2>2. m = c => Beg(d) + Word <= t.out
    BY <1>2, <1>15 DEF Middle
  <2>3. t.idxB <= t.in.idx /\ t.out < Top(d)
    BY <1>3, <1>4, <1>5
  <2>4. ASSUME m = d, c > d PROVE Spares(s, s2, tk, tk2, m, d, t.idxB, c)
    <3>1. d < c /\ Top(d) <= Beg(c) /\ m # c
      BY <1>3, <2>1, <2>4, Begins
    <3>2. t.idxB <= Beg(c) + 5 /\ t.in.idx \in Positions(s)
      BY <1>15, <2>4, <3>1, Reach
    <3>3. t.idxB \in Positions(s)
      <4>1. ~Past(s, t.idxB)
        BY <1>3, <1>5, <3>2 DEF Past
      <4> QED
        BY <1>5, <4>1
    <3>4. ~Reached(tk, c, m)
      BY <1>3, <1>4, <2>1, <2>4, <3>1 DEF Reached
    <3>5. t.idxY <= Beg(c) + 1
      <4>1. SUFFICES ASSUME t.idxY >= Beg(c) + 2 PROVE FALSE
        BY <1>3, <2>1
      <4>2. t.idxX < Beg(c) /\ Beg(c) <= t.idxY
        BY <1>3, <1>4, <2>1, <3>1, <4>1
      <4>3. SymbolAt(s, t.idxX) >= Z
        BY <1>3, <1>4, <1>5, <1>15, <3>1, <3>4, <4>1, <4>2, NoPairThere
      <4> QED
        BY <1>4, <1>z, <4>3
    <3>6. t.idxB >= Beg(c) /\ Removed(s2, c) => Written(s2, d, tk2[d])
      <4>1. t.out < Top(d) /\ t2.out = e /\ Z >= Z
        BY <1>7, <1>z, <2>3
      <4>2. Written(s2, d, t2)
        BY <1>3, <1>5, <1>6, <4>1, WrittenNow
      <4> QED
        BY <1>9, <4>2
    <3>7. t.idxB <= Beg(c) + Word /\ t.idxB = tk2[d].idxX
      <4>1. t.idxB <= Beg(c) + Word
        BY <1>3, <2>1, <3>2, WordType
      <4> QED
        BY <1>7, <1>9, <4>1
    <3>8. \A k \in 0 .. BitCount - 1 : k >= Beg(c) + 2 => s2.used[k] = s.used[k]
      <4> TAKE k \in 0 .. BitCount - 1
      <4> HAVE k >= Beg(c) + 2
      <4>1. k # t.out /\ k # t.out + 1 /\ k # t.idxY
        BY <1>3, <2>1, <2>3, <3>1, <3>5
      <4> QED
        BY <1>6, <4>1
    <3> QED
      BY <3>3, <3>4, <3>6, <3>7, <3>8 DEF Spares
  <2>5. m # d => t.idxB <= tk[d].in.idx
    BY <2>3
  <2>6. Loop(tk, d) /\ Beg(d) <= t.out /\ s2.end = s.end /\ Changed(s, s2, t.out, t.idxB)
    BY <1>5, <1>6
  <2>7. Moves(tk, tk2, m, m, d)
    BY <1>9 DEF Moves
  <2> QED
    BY <1>15, <2>2, <2>3, <2>4, <2>5, <2>6, <2>7, OtherTask
<1> QED
  <2>1. \A c \in Chunk : Loop(tk2, c) => TaskOK(s2, tk2, m, c)
    BY <1>9, <1>14, <1>15 DEF Loop
  <2>2. m \in Chunk => Loop(tk2, m)
    BY <1>7, <1>8, <1>9 DEF Loop
  <2> QED
    BY <1>8, <1>9, <2>1, <2>2 DEF TasksOK

(* The mutex goes to a task, or back.                                      *)
LEMMA NoneReached ==
    ASSUME ShapeOK, NEW s, Sane(s), NEW tk, NEW d \in Chunk, TaskType(tk[d]), Window(s, d, tk[d]),
           tk[d].idxX < s.end[d], NEW c \in Chunk
    PROVE  ~Reached(tk, c, d)
<1>1. tk[d].idxX < Top(d)
  BY AtSymbol
<1>2. tk[d].idxX \in Nat /\ Top(d) \in Nat /\ d \in Nat /\ c \in Nat /\ Beg(c) \in Nat
  BY TaskTypes, Chunks, Begins
<1>3. d < c => Top(d) <= Beg(c)
  BY <1>2, Begins
<1> QED
  BY <1>1, <1>2, <1>3 DEF Reached

LEMMA LockKeeps ==
    ASSUME ShapeOK, NEW s, NEW tk, Sane(s), TasksOK(s, tk, NoTask), NEW d \in Chunk, Loop(tk, d)
    PROVE  TasksOK(s, tk, d)
<1>1. \A c \in Chunk : c # NoTask /\ ~Reached(tk, c, NoTask)
  BY Chunks DEF NoTask, Reached
<1>2. d # NoTask /\ TaskOK(s, tk, NoTask, d) /\ TaskType(tk[d]) /\ Window(s, d, tk[d])
  BY <1>1 DEF TasksOK, TaskOK
<1>3. tk[d].idxX < s.end[d]
  BY <1>2, MiddleFacts
<1>4. ASSUME NEW c \in Chunk, Loop(tk, c) PROVE TaskOK(s, tk, d, c)
  <2>1. TaskOK(s, tk, NoTask, c) /\ ~Reached(tk, c, d) /\ c # NoTask /\ ~Reached(tk, c, NoTask)
    BY <1>1, <1>2, <1>3, <1>4, NoneReached DEF TasksOK
  <2>2. Ahead(s, c, tk[c], d) /\ Middle(c, tk[c], d)
    BY <2>1 DEF TaskOK, Ahead, Middle
  <2>3. Kept(s, tk, c, d)
    BY <2>1 DEF TaskOK, Kept
  <2> QED
    BY <2>1, <2>2, <2>3 DEF TaskOK
<1> QED
  BY <1>4 DEF TasksOK

LEMMA UnlockKeeps ==
    ASSUME ShapeOK, NEW s, NEW tk, NEW d \in Chunk, Sane(s), TasksOK(s, tk, d),
           tk[d].idxX < s.end[d], tk[d].in.idx < tk[d].endLock, Beg(d) + Word <= tk[d].out
    PROVE  TasksOK(s, tk, NoTask)
<1>1. \A c \in Chunk : c # NoTask /\ ~Reached(tk, c, NoTask)
  BY Chunks DEF NoTask, Reached
<1>2. Loop(tk, d) /\ TaskOK(s, tk, d, d) /\ TaskType(tk[d]) /\ Window(s, d, tk[d])
  BY DEF TasksOK, TaskOK
<1>3. /\ tk[d].idxX \in Nat /\ tk[d].idxY \in Nat /\ tk[d].idxB \in Nat /\ tk[d].in.idx \in Nat
      /\ tk[d].endLock \in Nat /\ tk[d].out \in Nat /\ Beg(d) \in Nat
  BY <1>2, TaskTypes
<1>4. tk[d].idxX < tk[d].endLock
  BY <1>2, <1>3 DEF Window
<1>5. ASSUME NEW c \in Chunk, Loop(tk, c) PROVE TaskOK(s, tk, NoTask, c)
  <2>1. TaskOK(s, tk, d, c) /\ ~Reached(tk, c, d) /\ c # NoTask /\ ~Reached(tk, c, NoTask)
    BY <1>1, <1>2, <1>5, NoneReached DEF TasksOK
  <2>2. Ahead(s, c, tk[c], NoTask)
    BY <2>1 DEF TaskOK, Ahead
  <2>3. Middle(c, tk[c], NoTask)
    BY <1>3, <1>4, <2>1, WordType DEF TaskOK, Middle
  <2>4. Kept(s, tk, c, NoTask)
    BY <2>1 DEF TaskOK, Kept
  <2> QED
    BY <2>1, <2>2, <2>3, <2>4 DEF TaskOK
<1>6. NoTask \notin Chunk
  BY <1>1
<1> QED
  BY <1>5, <1>6 DEF TasksOK

LEMMA SetEndFacts ==
    ASSUME ShapeOK, NEW s \in SymbolArrays, NEW d \in Chunk, NEW o \in 0 .. Size
    PROVE  /\ SetChunkEnd(s, d, o) \in SymbolArrays
           /\ SetChunkEnd(s, d, o).data = s.data /\ SetChunkEnd(s, d, o).used = s.used
           /\ SetChunkEnd(s, d, o).bitPast = s.bitPast /\ SetChunkEnd(s, d, o).bytePast = s.bytePast
           /\ \A c \in Chunk : SetChunkEnd(s, d, o).end[c] = IF c = d THEN o ELSE s.end[c]
  BY DEF SetChunkEnd, SymbolArrays

LEMMA ClearUsedFacts ==
    ASSUME ShapeOK, NEW s \in SymbolArrays, NEW i \in Nat
    PROVE  /\ SetUsedIdx(s, i, FALSE) \in SymbolArrays
           /\ SetUsedIdx(s, i, FALSE).end = s.end /\ SetUsedIdx(s, i, FALSE).data = s.data
           /\ SetUsedIdx(s, i, FALSE).bitPast = s.bitPast /\ SetUsedIdx(s, i, FALSE).bytePast = s.bytePast
           /\ \A j \in 0 .. BitCount - 1 :
                 SetUsedIdx(s, i, FALSE).used[j] = IF j = i THEN FALSE ELSE s.used[j]
  BY Bits DEF SetUsedIdx, SymbolArrays

(* A chunk ends where its task has written to.                             *)
Ended(s, d, o) ==
    LET shorter == SetChunkEnd(s, d, o)
    IN  IF o < ChunkEnd(d) THEN SetUsedIdx(SetByte(shorter, o, 0), o, FALSE) ELSE shorter

LEMMA EndFacts ==
    ASSUME ShapeOK, NEW s, s \in SymbolArrays, Sizes(s), NEW d \in Chunk,
           NEW o \in Nat, Beg(d) < o, o <= Top(d) + 1, o <= Size, NEW s2, s2 = Ended(s, d, o)
    PROVE  /\ s2 \in SymbolArrays /\ Sizes(s2) /\ Changed(s, s2, Beg(d), Top(d)) /\ s2.end[d] = o
           /\ \A c \in Chunk : c # d => s2.end[c] = s.end[c]
           /\ \A k \in 0 .. BitCount - 1 : k # o => s2.used[k] = s.used[k]
           /\ \A k \in 0 .. BitCount - 1 : s2.used[k] => s.used[k]
           /\ \A k \in Index : k # o => s2.data[k] = s.data[k]
<1> DEFINE shorter == SetChunkEnd(s, d, o)
           byte == SetByte(shorter, o, 0)
           all == SetUsedIdx(byte, o, FALSE)
<1>1. /\ Size \in Nat /\ BitCount \in Nat /\ Size <= BitCount /\ Beg(d) \in Nat /\ Top(d) \in Nat
      /\ Beg(d) < Top(d) /\ d \in Nat /\ o \in 0 .. Size
  BY Numbers, Bits, Chunks, Begins, SMTT(30)
<1>10. ChunkEnd(d) \in Nat /\ ChunkEnd(d) <= Top(d)
  <2>1. ChunkEnd(d) \in Beg(d) + 1 .. Top(d)
    BY ChunkEnds
  <2> QED
    BY <1>1, <2>1
<1>2. /\ shorter \in SymbolArrays /\ shorter.data = s.data /\ shorter.used = s.used
      /\ shorter.bitPast = s.bitPast /\ shorter.bytePast = s.bytePast
      /\ shorter.end[d] = o /\ \A c \in Chunk : c # d => shorter.end[c] = s.end[c]
  BY <1>1, SetEndFacts
<1> HIDE DEF shorter
<1>3. 0 \in Byte
  BY WordType DEF Byte
<1>4. /\ byte \in SymbolArrays /\ byte.end = shorter.end /\ byte.used = shorter.used
      /\ byte.bitPast = shorter.bitPast /\ byte.bytePast = shorter.bytePast
      /\ \A j \in Index : byte.data[j] = IF j = o THEN 0 ELSE shorter.data[j]
  BY <1>2, <1>3, SetByteFacts
<1> HIDE DEF byte
<1>5. /\ all \in SymbolArrays /\ all.end = byte.end /\ all.data = byte.data
      /\ all.bitPast = byte.bitPast /\ all.bytePast = byte.bytePast
      /\ \A j \in 0 .. BitCount - 1 : all.used[j] = IF j = o THEN FALSE ELSE byte.used[j]
  BY <1>4, ClearUsedFacts
<1> HIDE DEF all
<1>6. s2 = IF o < ChunkEnd(d) THEN all ELSE shorter
  BY DEF Ended, all, byte, shorter
<1>7. /\ s2 \in SymbolArrays /\ s2.bitPast = s.bitPast /\ s2.bytePast = s.bytePast /\ s2.end[d] = o
      /\ \A c \in Chunk : c # d => s2.end[c] = s.end[c]
      /\ \A k \in 0 .. BitCount - 1 : k # o \/ ~(o < ChunkEnd(d)) => s2.used[k] = s.used[k]
      /\ \A k \in Index : k # o \/ ~(o < ChunkEnd(d)) => s2.data[k] = s.data[k]
      /\ \A k \in 0 .. BitCount - 1 : s2.used[k] => s.used[k]
  <2>1. CASE o < ChunkEnd(d)
    <3>1. s2 = all
      BY <1>6, <2>1
    <3>2. s2 \in SymbolArrays /\ s2.bitPast = s.bitPast /\ s2.bytePast = s.bytePast
      BY <1>2, <1>4, <1>5, <3>1
    <3>3. s2.end[d] = o /\ \A c \in Chunk : c # d => s2.end[c] = s.end[c]
      BY <1>2, <1>4, <1>5, <3>1
    <3>4. ASSUME NEW k \in 0 .. BitCount - 1
          PROVE  (k # o => s2.used[k] = s.used[k]) /\ (s2.used[k] => s.used[k])
      <4>1. byte.used = s.used
        BY <1>2, <1>4
      <4>2. s2.used[k] = IF k = o THEN FALSE ELSE s.used[k]
        BY <1>5, <3>1, <4>1
      <4>3. CASE k = o
        BY <4>2, <4>3
      <4>4. CASE k # o
        BY <4>2, <4>4
      <4> QED
        BY <4>3, <4>4
    <3>5. \A k \in Index : k # o => s2.data[k] = s.data[k]
      BY <1>2, <1>4, <1>5, <3>1
    <3> QED
      BY <2>1, <3>2, <3>3, <3>4, <3>5
  <2>2. CASE ~(o < ChunkEnd(d))
    BY <1>2, <1>6, <2>2
  <2> QED
    BY <2>1, <2>2
<1>8. Sizes(s2)
  <2>1. ASSUME NEW c \in Chunk PROVE s2.end[c] \in Beg(c) + 1 .. Top(c) + 1
    <3>1. CASE c = d
      BY <1>1, <1>7, <3>1
    <3>2. CASE c # d
      BY <1>7, <3>2 DEF Sizes
    <3> QED
      BY <3>1, <3>2
  <2> QED
    BY <2>1 DEF Sizes
<1>9. Changed(s, s2, Beg(d), Top(d))
  <2>1. ASSUME NEW k \in Nat, k < Beg(d) \/ Top(d) <= k PROVE k # o \/ ~(o < ChunkEnd(d))
    BY <1>1, <1>10, <2>1
  <2>2. \A k \in 0 .. BitCount - 1 : k < Beg(d) \/ Top(d) <= k => s2.used[k] = s.used[k]
    BY <1>1, <1>7, <2>1
  <2>3. \A k \in Index : k < Beg(d) \/ Top(d) <= k => s2.data[k] = s.data[k]
    BY <1>1, <1>7, <2>1 DEF Index
  <2>4. \A c \in Chunk : s2.end[c] = s.end[c] \/ (Beg(c) = Beg(d) /\ Top(c) = Top(d))
    BY <1>7
  <2> QED
    BY <1>1, <1>7, <2>2, <2>3, <2>4 DEF Changed
<1> QED
  BY <1>7, <1>8, <1>9

(* The last symbol of a chunk that has ended is the one its task wrote last.*)
LEMMA WrittenLast ==
    ASSUME ShapeOK, NEW s, NEW s2, Sane(s), Sane(s2), NEW d \in Chunk, NEW t, t.out \in Nat, t.out <= Size,
           Beg(d) < t.out, t.out <= Top(d) + 1, s2 = Ended(s, d, t.out), Written(s, d, t),
           NEW c \in Chunk, d < c, \A p \in Positions(s) : p < Beg(c) => p < Top(d)
    PROVE  NewBefore(s2, c)
<1> DEFINE o == t.out
<1>1. /\ Changed(s, s2, Beg(d), Top(d)) /\ s2.end[d] = o
      /\ \A k \in 0 .. BitCount - 1 : k # o => s2.used[k] = s.used[k]
      /\ \A k \in 0 .. BitCount - 1 : s2.used[k] => s.used[k]
      /\ \A k \in Index : k # o => s2.data[k] = s.data[k]
  BY EndFacts DEF Sane
<1>2. /\ Size \in Nat /\ BitCount \in Nat /\ Size <= BitCount /\ Beg(d) \in Nat /\ Top(d) \in Nat
      /\ Beg(c) \in Nat /\ Top(d) <= Beg(c) /\ Beg(d) < Top(d) /\ o \in Nat
      /\ Base \in Nat \ {0}
  BY Numbers, Bits, Chunks, Begins, WordType
<1>3. SUFFICES ASSUME NEW p \in Positions(s2), LastBefore(s2, c, p) PROVE SymbolAt(s2, p) >= Z
  BY DEF NewBefore
<1>4. /\ p \in Nat /\ p < Size /\ p \in Index /\ p \in 0 .. BitCount - 1 /\ s2.used[p]
      /\ p < Beg(c) /\ \A q \in Positions(s2) : q <= p \/ q >= Beg(c)
  BY <1>3, PositionFacts DEF LastBefore
<1>5. p < Top(d)
  <2>1. SUFFICES ASSUME p >= Top(d) PROVE FALSE
    BY <1>2, <1>4
  <2>2. p \in Positions(s)
    BY <1>1, <1>2, <1>4, <2>1, ChangedFacts
  <2> QED
    BY <1>2, <1>4, <2>1, <2>2
<1>6. p >= Beg(d) => p < o
  <2>1. SUFFICES ASSUME p >= Beg(d) PROVE p < o
    OBVIOUS
  <2>2. ChunkIdx(p) = d
    BY <1>4, <1>5, <2>1, ChunkOf, Chunks
  <2> QED
    BY <1>1, <2>2, PositionFacts
<1>7. /\ s2.data[p] \in Nat /\ DataAt(s2, p + 1) \in Nat
      /\ SymbolAt(s2, p) = s2.data[p] + (IF Used(s2, p + 1) THEN 0 ELSE Base * DataAt(s2, p + 1))
  <2>1. SymbolAt(s2, p) = s2.data[p] + (IF Used(s2, p + 1) THEN 0 ELSE Base * DataAt(s2, p + 1))
    BY SymbolFacts
  <2>2. s2 \in SymbolArrays
    BY DEF Sane
  <2>3. s2.data[p] \in Byte /\ DataAt(s2, p + 1) \in Byte
    BY <1>2, <1>4, <2>2, ArrayType DEF DataAt, Index
  <2> QED
    BY <1>2, <2>1, <2>3 DEF Byte
<1>8. Base * DataAt(s2, p + 1) \in Nat
  BY <1>2, <1>7
<1>9. CASE /\ o \in Beg(d) + 1 .. Top(d)
           /\ s.used[o - 1] /\ s.data[o - 1] >= Z
  <2>1. o - 1 \in Nat /\ o - 1 \in Index /\ o - 1 \in 0 .. BitCount - 1 /\ o - 1 # o
    BY <1>2, <1>9 DEF Index
  <2>2. s2.used[o - 1] /\ s2.data[o - 1] = s.data[o - 1]
    BY <1>1, <1>9, <2>1
  <2>3. o - 1 \in Positions(s2)
    BY <1>1, <1>2, <1>9, <2>1, <2>2, PositionFacts
  <2>4. p = o - 1
    BY <1>2, <1>4, <1>6, <1>9, <2>3
  <2>5. s2.data[p] >= Z
    BY <1>9, <2>2, <2>4
  <2> QED
    BY <1>7, <1>8, <2>5 DEF Z
<1>10. CASE /\ o \in Beg(d) + 2 .. Top(d) + 1
            /\ s.used[o - 2] /\ ~s.used[o - 1]
            /\ s.data[o - 2] + Base * s.data[o - 1] >= Z
  <2>1. /\ o - 1 \in Nat /\ o - 1 \in Index /\ o - 1 \in 0 .. BitCount - 1 /\ o - 1 # o
        /\ o - 2 \in Nat /\ o - 2 \in Index /\ o - 2 \in 0 .. BitCount - 1 /\ o - 2 # o
    BY <1>2, <1>10 DEF Index
  <2>2. /\ s2.used[o - 2] /\ s2.data[o - 2] = s.data[o - 2]
        /\ ~s2.used[o - 1] /\ s2.data[o - 1] = s.data[o - 1]
    BY <1>1, <1>10, <2>1
  <2>3. o - 2 \in Positions(s2)
    BY <1>1, <1>2, <1>10, <2>1, <2>2, PositionFacts
  <2>4. p = o - 2
    BY <1>2, <1>4, <1>6, <1>10, <2>2, <2>3
  <2>5. ~Used(s2, p + 1) /\ DataAt(s2, p + 1) = s2.data[o - 1]
    <3>1. p + 1 = o - 1 /\ o - 1 < Size /\ o - 1 < BitCount
      BY <1>2, <1>10, <2>4
    <3> QED
      BY <2>2, <3>1 DEF Used, DataAt
  <2>6. SymbolAt(s2, p) = s2.data[o - 2] + Base * s2.data[o - 1]
    BY <1>7, <2>4, <2>5
  <2> QED
    BY <1>10, <2>2, <2>6
<1> QED
  BY <1>9, <1>10 DEF Written

Finished(tk, d) == [tk EXCEPT ![d] = [pc |-> "done"]]

LEMMA EndKeeps ==
    ASSUME ShapeOK, NEW s, NEW s2, NEW tk, NEW tk2, NEW m, Sane(s), TasksOK(s, tk, m),
           NEW d \in Chunk, Loop(tk, d), tk[d].idxX >= s.end[d],
           s2 = Ended(s, d, tk[d].out), Sane(s2),
           tk2 = Finished(tk, d)
    PROVE  m = d /\ TasksOK(s2, tk2, NoTask)
<1> DEFINE t == tk[d]
<1>0. t = tk[d]
  OBVIOUS
<1> HIDE DEF t
<1>1. TaskOK(s, tk, m, d)
  BY DEF TasksOK
<1>2. TaskType(t) /\ Window(s, d, t)
  BY <1>0, <1>1 DEF TaskOK
<1>3. /\ t.out \in Nat /\ t.idxX \in Nat /\ s.end[d] \in Nat /\ Beg(d) \in Nat /\ Top(d) \in Nat
      /\ Beg(d) < Top(d) /\ Size \in Nat /\ d \in Nat
  BY <1>2, TaskTypes
<1>4. m = d
  BY <1>0, <1>3, MiddleFacts
<1>5. /\ Beg(d) < t.out /\ t.out <= Top(d) + 1 /\ t.out <= Size /\ t.out <= t.idxX
      /\ At(s, t.idxX, t.x) /\ \A p \in Positions(s) : p < t.idxX => p < Top(d)
  BY <1>0, <1>2, <1>3 DEF Window
<1>6. /\ Changed(s, s2, Beg(d), Top(d)) /\ s2.end[d] = t.out
      /\ \A k \in 0 .. BitCount - 1 : s2.used[k] => s.used[k]
  BY <1>0, <1>3, <1>5, EndFacts DEF Sane
<1>7. \A c \in Chunk : c # d => tk2[c] = tk[c]
  BY DEF TasksOK, Finished
<1>8. tk2 = [c \in Chunk |-> tk2[c]] /\ ~Loop(tk2, d)
  BY DEF TasksOK, Loop, Finished
<1>9. \A c \in Chunk : c # NoTask /\ ~Reached(tk2, c, NoTask)
  BY Chunks DEF NoTask, Reached
<1>10. ASSUME NEW c \in Chunk, c # d, Loop(tk, c) PROVE TaskOK(s2, tk2, NoTask, c)
  <2> DEFINE u == tk[c]
  <2>0. u = tk[c] /\ u = tk2[c]
    BY <1>7, <1>10
  <2> HIDE DEF u
  <2>1. /\ TaskType(u) /\ Window(s, c, u) /\ Middle(c, u, m) /\ Dense(s, c, u) /\ Kept(s, tk, c, m)
    BY <1>10, <2>0 DEF TasksOK, TaskOK
  <2>2. /\ u.out \in Nat /\ u.idxX \in Nat /\ u.in.idx \in Nat /\ Beg(c) \in Nat /\ Top(c) \in Nat
        /\ s.end[c] \in Nat /\ s.end[c] <= Size /\ c \in Nat /\ c < NChunks /\ Beg(c) < Top(c)
        /\ BitCount \in Nat /\ Size <= BitCount
    BY <2>1, TaskTypes, Bits
  <2>3. /\ Beg(c) + Word <= u.out /\ u.out <= u.idxX /\ u.idxX < s.end[c] /\ u.idxX \in Positions(s)
    <3>1. m # c
      BY <1>4, <1>10
    <3>2. /\ Beg(c) + Word <= tk[c].out /\ tk[c].out <= tk[c].idxX
          /\ tk[c].idxX < s.end[c] /\ tk[c].idxX \in Positions(s)
      BY ONLY ShapeOK, Sane(s), TasksOK(s, tk, m), c \in Chunk, <1>10, <3>1, MiddleFacts
    <3> QED
      BY <2>0, <3>2
  <2>4. Middle(c, u, NoTask)
    BY <1>4, <1>10, <2>1 DEF Middle
  <2>5. c > d => Top(d) <= Beg(c)
    BY <1>3, <2>2, Begins
  <2>6. /\ Window(s2, c, u) /\ Ahead(s2, c, u, NoTask)
        /\ c < d => u.in.idx + 1 < Beg(d) /\ Top(c) <= Beg(d) /\ Dense(s2, c, u)
    <3>2. /\ Beg(d) \in Nat /\ Top(d) \in Nat /\ Beg(d) <= Beg(d) /\ Beg(d) < Top(d) /\ c # d
          /\ m # c /\ Changed(s, s2, Beg(d), Top(d)) /\ Loop(tk, c) /\ (c > d => Top(d) <= Beg(c))
      BY <1>3, <1>4, <1>6, <1>10, <2>5
    <3>1. /\ Window(s2, c, tk[c])
          /\ \A n : (m = c => n = c) => Ahead(s2, c, tk[c], n)
          /\ c < d => tk[c].in.idx + 1 < Beg(d) /\ Top(c) <= Beg(d) /\ Dense(s2, c, tk[c])
      BY ONLY ShapeOK, Sane(s), Sane(s2), TasksOK(s, tk, m), c \in Chunk, d \in Chunk,
              <3>2, Others
    <3> QED
      BY <1>4, <1>10, <2>0, <3>1
  <2>7. c > d => Dense(s2, c, u)
    <3>1. SUFFICES ASSUME c > d, NEW i \in Beg(c) + 2 .. Beg(c) + Word - 2, i <= u.out - 2
                   PROVE  s2.used[i] \/ s2.used[i + 1]
      BY DEF Dense
    <3>2. s.used[i] \/ s.used[i + 1]
      BY <2>1, <3>1 DEF Dense
    <3>3. i \in 0 .. BitCount - 1 /\ i + 1 \in 0 .. BitCount - 1 /\ Top(d) <= i /\ Top(d) <= i + 1
      BY <1>3, <2>2, <2>3, <2>5, <3>1, WordType
    <3> QED
      BY <1>6, <3>2, <3>3 DEF Changed
  <2>8. c < d \/ c > d
    BY <1>3, <1>10, <2>2
  <2>9. ASSUME Removed(s2, c) PROVE NewBefore(s2, c)
    <3>1. Beg(c) \in 0 .. BitCount - 1 /\ Beg(c) + 1 \in 0 .. BitCount - 1
      BY <1>4, <1>10, HeadBits
    <3>2. Beg(c) + 1 < Beg(d) \/ Top(d) <= Beg(c)
      <4>1. CASE c < d
        BY <1>3, <2>1, <2>2, <2>3, <2>6, <4>1, WordType DEF Window
      <4> QED
        BY <2>5, <2>8, <4>1
    <3>3. Removed(s, c)
      <4>1. s2.used[Beg(c)] = s.used[Beg(c)] /\ s2.used[Beg(c) + 1] = s.used[Beg(c) + 1]
        BY <1>3, <1>6, <2>2, <3>1, <3>2 DEF Changed
      <4> QED
        BY <2>9, <4>1 DEF Removed
    <3>4. IF Reached(tk, c, d) THEN Written(s, d, t) ELSE NewBefore(s, c)
      <4>1. u.out >= Beg(c) + 2
        BY <2>2, <2>3, WordType
      <4> QED
        BY <1>0, <1>4, <2>0, <2>1, <3>3, <4>1 DEF Kept
    <3>5. CASE Reached(tk, c, d)
      <4>1. d < c /\ t.idxX >= Beg(c)
        BY <1>0, <3>5 DEF Reached
      <4>2. \A p \in Positions(s) : p < Beg(c) => p < Top(d)
        BY <1>3, <1>5, <2>2, <4>1, PositionFacts
      <4> QED
        BY <1>0, <1>3, <1>5, <3>4, <3>5, <4>1, <4>2, WrittenLast
    <3>6. CASE ~Reached(tk, c, d)
      <4>1. NewBefore(s, c)
        BY <3>4, <3>6
      <4>2. CASE c < d
        <5>1. Beg(c) < Beg(d)
          BY <1>3, <2>2, <4>2, Begins
        <5> QED
          BY <1>6, <4>1, <5>1, NewBeforeSame
      <4>3. CASE c > d
        <5>1. t.idxX < Beg(c)
          BY <1>0, <1>3, <2>2, <3>6, <4>3 DEF Reached
        <5>2. t.idxX \in Positions(s)
          <6>1. ~Past(s, t.idxX)
            BY <1>3, <2>2, <2>3, <5>1, WordType DEF Past
          <6> QED
            BY <1>5, <6>1 DEF At
        <5>3. Top(d) <= t.idxX
          <6>1. SUFFICES ASSUME t.idxX < Top(d) PROVE FALSE
            BY <1>3
          <6>2. ChunkIdx(t.idxX) = d
            BY <1>3, <1>5, <6>1, ChunkOf
          <6> QED
            BY <1>0, <1>3, <5>2, <6>2, PositionFacts
        <5> QED
          BY <1>6, <4>1, <5>1, <5>2, <5>3, NewBeforeSame
      <4> QED
        BY <2>8, <4>2, <4>3
    <3> QED
      BY <3>5, <3>6
  <2>10. Kept(s2, tk2, c, NoTask)
    BY <1>9, <2>9 DEF Kept
  <2> QED
    BY <2>0, <2>1, <2>4, <2>6, <2>7, <2>8, <2>10 DEF TaskOK
<1> QED
  <2>1. NoTask \notin Chunk
    BY <1>9
  <2>2. ASSUME NEW c \in Chunk, Loop(tk2, c) PROVE TaskOK(s2, tk2, NoTask, c)
    BY <1>7, <1>8, <1>10, <2>2 DEF Loop
  <2> QED
    BY <1>4, <1>8, <2>1, <2>2 DEF TasksOK

(***************************************************************************)
(* The prologue of a task.                                                 *)
(***************************************************************************)
(* The first symbol of a chunk, or what comes after it.                    *)
LEMMA FirstFacts ==
    ASSUME ShapeOK, NEW s, Sane(s), NEW d \in Chunk, NEW it, it = FirstIn(s, d)
    PROVE  /\ it \in IterType /\ OnSymbol(s, it) /\ Beg(d) <= it.idx
           /\ \A p \in Positions(s) : p < it.idx => p < Beg(d)
           /\ it.idx < s.end[d] => /\ it.idx \in Positions(s) /\ it.idx < Top(d) /\ it.idx < Size
                                   /\ GetSymbol(s, it) = SymbolAt(s, it.idx)
<1> DEFINE b == IterAtChunk(s, d)
<1>1. /\ Beg(d) \in Nat /\ Top(d) \in Nat /\ Beg(d) < Top(d) /\ d \in Nat /\ Beg(d) < Size
      /\ Size \in Nat /\ BitCount \in Nat /\ Size <= BitCount
  BY Chunks, Begins, Numbers, Bits
<1>2. s.end[d] \in Nat /\ Beg(d) < s.end[d] /\ s.end[d] <= Size /\ s \in SymbolArrays
  BY <1>1, ArrayType DEF Sane, Sizes
<1>3. ChunkIdx(Beg(d)) = d
  BY <1>1, ChunkOf
<1>4. b = [idx |-> Beg(d), chunk |-> d, end |-> s.end[d]]
  BY <1>3 DEF IterAtChunk, Iter
<1> HIDE DEF b
<1>5. b \in IterType /\ b.idx = Beg(d) /\ b.chunk = d /\ b.end = s.end[d]
  BY <1>1, <1>2, <1>4 DEF IterType
<1>6. Inside(s, b)
  BY <1>1, <1>3, <1>5 DEF Inside, Index
<1>7. it = IF GetSymbol(s, b) = -1 THEN MoveToNext(s, b) ELSE b
  BY DEF FirstIn, b
<1>8. it \in IterType /\ OnSymbol(s, it) /\ Beg(d) <= it.idx /\ \A p \in Positions(s) : p < it.idx => p < Beg(d)
  <2>1. CASE s.used[Beg(d)]
    <3>1. Beg(d) \in Positions(s)
      BY <1>1, <1>2, <2>1, PositionFacts
    <3>2. OnSymbol(s, b)
      BY <1>5, <1>6, <3>1 DEF OnSymbol
    <3>3. At(s, b.idx, GetSymbol(s, b))
      BY <1>5, <3>2, ReadFacts
    <3>4. GetSymbol(s, b) = SymbolAt(s, Beg(d))
      BY <1>1, <1>5, <3>1, <3>3 DEF At, Past
    <3>5. GetSymbol(s, b) # -1
      <4>1. SymbolAt(s, Beg(d)) \in 0 .. Base * Base - 1
        BY <3>1, SymbolFacts
      <4> QED
        BY <3>4, <4>1
    <3>6. it = b
      BY <1>7, <3>5
    <3> QED
      BY <1>1, <1>5, <3>2, <3>6
  <2>2. CASE ~s.used[Beg(d)]
    <3>1. ~Used(s, b.idx)
      <4>1. Beg(d) < BitCount
        BY <1>1
      <4> QED
        BY <1>5, <2>2, <4>1 DEF Used
    <3>2. it = MoveToNext(s, b)
      BY <1>7, <3>1 DEF GetSymbol
    <3>3. it \in IterType /\ OnSymbol(s, it) /\ b.idx < it.idx /\ NoneBetween(s, b.idx, it.idx)
      BY <1>5, <1>6, <3>2, NextFacts
    <3>4. Beg(d) \notin Positions(s)
      BY <2>2, PositionFacts
    <3>5. it.idx \in Nat
      BY <3>3 DEF IterType
    <3> QED
      BY <1>1, <1>5, <3>3, <3>4, <3>5, PositionFacts DEF NoneBetween
  <2> QED
    BY <2>1, <2>2
<1>9. ASSUME it.idx < s.end[d]
      PROVE  /\ it.idx \in Positions(s) /\ it.idx < Top(d) /\ it.idx < Size
             /\ GetSymbol(s, it) = SymbolAt(s, it.idx)
  <2>1. it.idx \in Nat
    BY <1>8 DEF IterType
  <2>2. ~Past(s, it.idx)
    BY <1>9, <2>1, NotPast
  <2>3. it.idx \in Positions(s)
    BY <1>8, <2>2 DEF OnSymbol, Beyond
  <2>4. it.idx < Top(d) /\ it.idx < Size
    <3>1. s.used[it.idx]
      BY <2>3, PositionFacts
    <3> QED
      BY <1>8, <1>9, <2>1, <3>1, PositionFacts
  <2>5. At(s, it.idx, GetSymbol(s, it))
    BY <1>8, ReadFacts
  <2> QED
    BY <2>2, <2>3, <2>4, <2>5 DEF At
<1> QED
  BY <1>8, <1>9

(* A task after its prologue.                                              *)
Fresh(s, itX, o, a, el) ==
    LET itY == MoveToNext(s, itX)
        itB == MoveToNext(s, itY)
    IN  [pc |-> "loop", in |-> MoveToNext(s, itB), out |-> o, a |-> a,
         x |-> GetSymbol(s, itX), idxX |-> itX.idx, y |-> GetSymbol(s, itY), idxY |-> itY.idx,
         b |-> GetSymbol(s, itB), idxB |-> itB.idx, endLock |-> el, lastY |-> 0]

LEMMA FreshWindow ==
    ASSUME ShapeOK, NEW s, Sane(s), NEW d \in Chunk, NEW itX \in IterType, OnSymbol(s, itX),
           NEW o \in Nat, Beg(d) <= o, o <= itX.idx, o <= Top(d) + 1, o <= Size,
           \A p \in Positions(s) : p < itX.idx => p < Top(d), itX.idx >= s.end[d] => o > Beg(d),
           NEW a, NEW el \in Nat, NEW t, t = Fresh(s, itX, o, a, el)
    PROVE  /\ TaskType(t) /\ Window(s, d, t)
           /\ t.out = o /\ t.idxX = itX.idx /\ t.endLock = el /\ t.pc = "loop"
<1> DEFINE itY == MoveToNext(s, itX)
           itB == MoveToNext(s, itY)
           n == MoveToNext(s, itB)
<1>1. /\ t = [pc |-> "loop", in |-> n, out |-> o, a |-> a,
              x |-> GetSymbol(s, itX), idxX |-> itX.idx, y |-> GetSymbol(s, itY), idxY |-> itY.idx,
              b |-> GetSymbol(s, itB), idxB |-> itB.idx, endLock |-> el, lastY |-> 0]
  BY DEF Fresh
<1>2. itY \in IterType /\ OnSymbol(s, itY) /\ itX.idx < itY.idx /\ NoneBetween(s, itX.idx, itY.idx)
  BY NextFacts DEF OnSymbol
<1> HIDE DEF itY
<1>3. itB \in IterType /\ OnSymbol(s, itB) /\ itY.idx < itB.idx /\ NoneBetween(s, itY.idx, itB.idx)
  BY <1>2, NextFacts DEF OnSymbol
<1> HIDE DEF itB
<1>4. n \in IterType /\ OnSymbol(s, n) /\ itB.idx < n.idx /\ NoneBetween(s, itB.idx, n.idx)
  BY <1>3, NextFacts DEF OnSymbol
<1> HIDE DEF n
<1>5. /\ At(s, itX.idx, GetSymbol(s, itX)) /\ At(s, itY.idx, GetSymbol(s, itY))
      /\ At(s, itB.idx, GetSymbol(s, itB))
  BY <1>2, <1>3, ReadFacts
<1>6. itX.idx \in Nat /\ itY.idx \in Nat /\ itB.idx \in Nat
  BY <1>2, <1>3 DEF IterType
<1>7. /\ t.in = n /\ t.out = o /\ t.idxX = itX.idx /\ t.idxY = itY.idx /\ t.idxB = itB.idx
      /\ t.x = GetSymbol(s, itX) /\ t.y = GetSymbol(s, itY) /\ t.b = GetSymbol(s, itB)
      /\ t.endLock = el /\ t.pc = "loop"
      /\ t = [pc |-> "loop", in |-> t.in, out |-> t.out, a |-> t.a, x |-> t.x, idxX |-> t.idxX,
              y |-> t.y, idxY |-> t.idxY, b |-> t.b, idxB |-> t.idxB,
              endLock |-> t.endLock, lastY |-> t.lastY]
  BY <1>1
<1>8. TaskType(t)
  BY <1>4, <1>6, <1>7 DEF TaskType
<1>9. Window(s, d, t)
  BY <1>2, <1>3, <1>4, <1>5, <1>7 DEF Window
<1> QED
  BY <1>7, <1>8, <1>9

(* The end lock.                                                           *)
LEMMA LastFact ==
    ASSUME ShapeOK, NEW s, Sane(s), NEW c \in Chunk, NEW last, last = MoveToPrev(s, IterAtChunk(s, c))
    PROVE  last = -1 \/ (last \in Positions(s) /\ last < Beg(c))
<1> DEFINE b == IterAtChunk(s, c)
           here == {i \in Beg(b.chunk) .. b.idx - 1 : s.used[i]}
           earlier == {i \in Positions(s) : ChunkIdx(i) < b.chunk}
<1>1. Beg(c) \in Nat /\ Top(c) \in Nat /\ Beg(c) < Top(c) /\ c \in Nat
  BY Chunks, Begins
<1>2. b.idx = Beg(c) /\ b.chunk = c
  <2>1. ChunkIdx(Beg(c)) = c
    BY <1>1, ChunkOf
  <2> QED
    BY <2>1 DEF IterAtChunk, Iter
<1>3. here = {}
  BY <1>1, <1>2
<1>4. last = IF earlier # {} THEN Max(earlier) ELSE -1
  BY <1>3 DEF MoveToPrev
<1>5. \A i \in earlier : i \in Nat /\ i \in Positions(s) /\ i < Beg(c)
  <2> TAKE i \in earlier
  <2>1. i \in Positions(s) /\ ChunkIdx(i) < c
    BY <1>2
  <2>2. i \in Nat /\ ChunkIdx(i) \in Nat /\ i < Top(ChunkIdx(i)) /\ Top(ChunkIdx(i)) \in Nat
    BY <2>1, PositionFacts, Chunks, Begins
  <2>3. Top(ChunkIdx(i)) <= Beg(c)
    BY <1>1, <2>1, <2>2, Begins
  <2> QED
    BY <1>1, <2>1, <2>2, <2>3
<1> HIDE DEF earlier
<1>6. ASSUME earlier # {} PROVE Max(earlier) \in earlier
  <2>1. earlier \in SUBSET Nat /\ \A i \in earlier : i <= Beg(c)
    BY <1>1, <1>5
  <2> QED
    BY <1>1, <1>6, <2>1, MaxFact
<1> QED
  BY <1>4, <1>5, <1>6

LEMMA EndLockFacts ==
    ASSUME ShapeOK, NEW s, Sane(s), NEW d \in Chunk, NEW el, el = EndLock(s, d)
    PROVE  /\ el \in Nat /\ Beg(d) <= el /\ el <= s.end[d]
           /\ d + 1 < NChunks /\ el # Beg(d) =>
                 /\ el \in Positions(s)
                 /\ \E f, l \in Positions(s) : /\ el < f /\ f < l /\ l < Top(d)
                                               /\ l < Word \/ f + 1 < l - Word
<1>1. /\ Beg(d) \in Nat /\ Top(d) \in Nat /\ Beg(d) < Top(d) /\ d \in Nat /\ d < NChunks /\ NChunks \in Nat
      /\ Size \in Nat /\ Word \in Nat
  BY Chunks, Begins, Numbers, WordType
<1>2. s.end[d] \in Nat /\ Beg(d) < s.end[d]
  BY <1>1, ArrayType DEF Sane, Sizes
<1> DEFINE last == MoveToPrev(s, IterAtChunk(s, d + 1))
           far == {i \in Positions(s) : /\ Beg(d) <= i /\ i < last
                                        /\ (last < Word \/ i + 1 < last - Word)}
<1>3. el = CASE d + 1 >= NChunks -> s.end[d]
             [] d + 1 < NChunks /\ Cardinality(far) < 2 -> Beg(d)
             [] OTHER -> Max(far \ {Max(far)})
  BY DEF EndLock
<1>4. CASE d + 1 >= NChunks
  BY <1>1, <1>2, <1>3, <1>4
<1>5. CASE d + 1 < NChunks
  <2>1. d + 1 \in Chunk /\ Beg(d + 1) = Top(d)
    BY <1>1, <1>5, Chunks, Begins
  <2>2. last = -1 \/ (last \in Positions(s) /\ last < Top(d))
    BY <2>1, LastFact
  <2>3. ~(d + 1 >= NChunks)
    BY <1>1, <1>5
  <2> HIDE DEF last
  <2>4. far \subseteq 0 .. Size - 1 /\ far \in SUBSET Nat /\ \A i \in far : i <= Size
    BY <1>1, PositionFacts
  <2>5. IsFiniteSet(far)
    <3>1. IsFiniteSet(0 .. Size - 1)
      BY <1>1, FS_Interval
    <3> QED
      BY <2>4, <3>1, FS_Subset
  <2>6. CASE Cardinality(far) < 2
    BY <1>1, <1>2, <1>3, <1>5, <2>3, <2>6
  <2>7. CASE ~(Cardinality(far) < 2)
    <3> DEFINE f == Max(far)
               rest == far \ {f}
    <3>1. el = Max(rest)
      BY <1>3, <2>3, <2>7
    <3>2. far # {}
      BY <2>7, FS_EmptySet
    <3>3. f \in far /\ \A i \in far : i <= f
      BY <1>1, <2>4, <3>2, MaxFact
    <3> HIDE DEF f
    <3>4. rest # {}
      <4>1. SUFFICES ASSUME rest = {} PROVE FALSE
        OBVIOUS
      <4>2. far = {f}
        BY <3>3, <4>1
      <4>3. Cardinality(far) = 1
        BY <4>2, FS_Singleton
      <4> QED
        BY <2>7, <4>3
    <3>5. rest \in SUBSET Nat /\ \A i \in rest : i <= Size
      BY <2>4
    <3> HIDE DEF rest
    <3>6. el \in rest
      BY <1>1, <3>1, <3>4, <3>5, MaxFact
    <3>7. el \in far /\ el # f
      BY <3>6 DEF rest
    <3>8. el \in Positions(s) /\ f \in Positions(s) /\ Beg(d) <= el /\ f < last
          /\ (last < Word \/ f + 1 < last - Word)
      BY <3>3, <3>7
    <3> HIDE DEF far
    <3>9. el \in Nat /\ f \in Nat /\ el < f
      BY <2>4, <3>3, <3>7
    <3>10. last \in Positions(s) /\ last < Top(d) /\ last \in Nat
      <4>1. last # -1
        BY <3>8, <3>9
      <4>2. last \in Positions(s) /\ last < Top(d)
        BY <2>2, <4>1
      <4>3. last \in Nat
        BY <4>2, PositionFacts
      <4> QED
        BY <4>2, <4>3
    <3>11. el <= s.end[d]
      <4>1. ChunkIdx(el) = d
        BY <1>1, <3>8, <3>9, <3>10, ChunkOf
      <4>2. el < s.end[d]
        BY <3>8, <4>1, PositionFacts
      <4> QED
        BY <1>2, <3>9, <4>2
    <3> QED
      BY <3>8, <3>9, <3>10, <3>11
  <2> QED
    BY <2>6, <2>7
<1> QED
  BY <1>1, <1>4, <1>5

Ready(s, d, itX, o) ==
    /\ itX \in IterType /\ OnSymbol(s, itX) /\ o \in Nat
    /\ Beg(d) <= o /\ o <= itX.idx /\ o <= Top(d) + 1 /\ o <= Size /\ o <= Beg(d) + 3
    /\ \A p \in Positions(s) : p < itX.idx => p < Top(d)
    /\ itX.idx >= s.end[d] => o > Beg(d)
    /\ o >= Beg(d) + 2 => ~Removed(s, d)

LEMMA FreshOK ==
    ASSUME ShapeOK, NEW s, Sane(s), NEW d \in Chunk, NEW itX, NEW o, Ready(s, d, itX, o),
           NEW a, NEW el, el = EndLock(s, d), NEW t, t = Fresh(s, itX, o, a, el), NEW tk, tk[d] = t
    PROVE  TaskOK(s, tk, d, d) /\ tk[d].out = o /\ tk[d].idxX = itX.idx /\ Loop(tk, d)
<1>0. /\ itX \in IterType /\ OnSymbol(s, itX) /\ o \in Nat
      /\ Beg(d) <= o /\ o <= itX.idx /\ o <= Top(d) + 1 /\ o <= Size /\ o <= Beg(d) + 3
      /\ \A p \in Positions(s) : p < itX.idx => p < Top(d)
      /\ itX.idx >= s.end[d] => o > Beg(d)
      /\ o >= Beg(d) + 2 => ~Removed(s, d)
  BY DEF Ready
<1>1. /\ el \in Nat /\ el <= s.end[d]
      /\ d + 1 < NChunks /\ el # Beg(d) =>
            /\ el \in Positions(s)
            /\ \E f, l \in Positions(s) : /\ el < f /\ f < l /\ l < Top(d)
                                          /\ l < Word \/ f + 1 < l - Word
  BY EndLockFacts
<1>2. t = Fresh(s, itX, o, a, el)
  OBVIOUS
<1>3. /\ TaskType(t) /\ Window(s, d, t)
      /\ t.out = o /\ t.idxX = itX.idx /\ t.endLock = el /\ t.pc = "loop"
  BY <1>0, <1>1, <1>2, FreshWindow
<1>4. t.in.idx \in Nat /\ t.idxX \in Nat /\ t.idxY \in Nat /\ t.idxB \in Nat /\ Beg(d) \in Nat /\ d \in Nat
  BY <1>3, TaskTypes
<1>5. Ahead(s, d, t, d)
  <2>1. SUFFICES ASSUME d + 1 < NChunks, t.in.idx < el
                 PROVE  /\ el \in Positions(s)
                        /\ \E f, l \in Positions(s) : /\ t.in.idx <= f /\ el < f /\ f < l /\ l < Top(d)
                                                      /\ l < Word \/ f + 1 < l - Word
    BY <1>1, <1>3 DEF Ahead
  <2>2. Beg(d) < t.in.idx
    BY <1>0, <1>3, <1>4 DEF Window
  <2>3. el # Beg(d)
    BY <1>1, <1>4, <2>1, <2>2
  <2>4. PICK f, l \in Positions(s) : /\ el < f /\ f < l /\ l < Top(d)
                                     /\ l < Word \/ f + 1 < l - Word
    BY <1>1, <2>1, <2>3
  <2>5. t.in.idx <= f
    BY <1>1, <1>4, <2>1, <2>4, PositionFacts
  <2> QED
    BY <1>1, <2>1, <2>3, <2>4, <2>5
<1>6. Middle(d, t, d)
  BY DEF Middle
<1>7. Dense(s, d, t)
  BY <1>0, <1>3, <1>4 DEF Dense
<1>8. Kept(s, tk, d, d)
  <2>1. tk[d].out = o
    BY <1>3
  <2>2. ~(tk[d].out >= Beg(d) + 2 /\ Removed(s, d))
    BY <1>0, <2>1
  <2> QED
    BY <2>2 DEF Kept
<1> QED
  BY <1>3, <1>5, <1>6, <1>7, <1>8 DEF TaskOK, Loop

LEMMA BeginPlain ==
    ASSUME ShapeOK, NEW s, NEW tk, NEW tk2, Sane(s), TasksOK(s, tk, NoTask), NEW d \in Chunk, ~Loop(tk, d),
           NEW first, first = FirstIn(s, d), first.idx < s.end[d],
           NEW o \in {Beg(d), Beg(d) + 1}, o = Beg(d) \/ first.idx # Beg(d),
           NEW a, NEW el, el = EndLock(s, d), NEW t2, t2 = Fresh(s, first, o, a, el), tk2 = [tk EXCEPT ![d] = t2]
    PROVE  TasksOK(s, tk2, d)
<1>1. /\ first \in IterType /\ OnSymbol(s, first) /\ Beg(d) <= first.idx
      /\ first.idx < Top(d) /\ first.idx < Size
      /\ \A p \in Positions(s) : p < first.idx => p < Beg(d)
  BY FirstFacts
<1>2. /\ Beg(d) \in Nat /\ Top(d) \in Nat /\ Size \in Nat /\ Beg(d) < Top(d) /\ d \in Nat
      /\ first.idx \in Nat /\ s.end[d] \in Nat /\ o \in Nat
  <2>1. Beg(d) \in Nat /\ Top(d) \in Nat /\ Size \in Nat /\ Beg(d) < Top(d) /\ d \in Nat
    BY Begins, Chunks, Numbers
  <2>2. first.idx \in Nat /\ s.end[d] \in Nat
    BY <1>1, ArrayType DEF IterType, Sane
  <2> QED
    BY <2>1, <2>2
<1>3. tk2 = [c \in Chunk |-> tk2[c]] /\ tk2[d] = t2 /\ \A c \in Chunk : c # d => tk2[c] = tk[c]
  BY DEF TasksOK
<1>4. TaskOK(s, tk2, d, d) /\ tk2[d].idxX = first.idx /\ Loop(tk2, d)
  <2>1. /\ Beg(d) <= o /\ o <= first.idx /\ o <= Top(d) + 1 /\ o <= Size /\ o <= Beg(d) + 3
        /\ ~(first.idx >= s.end[d]) /\ ~(o >= Beg(d) + 2)
    BY <1>1, <1>2
  <2>2. \A p \in Positions(s) : p < first.idx => p < Top(d)
    BY <1>1, <1>2, PositionFacts
  <2>4. Ready(s, d, first, o)
    BY <1>1, <1>2, <2>1, <2>2 DEF Ready
  <2> QED
    BY ONLY ShapeOK, Sane(s), d \in Chunk, el = EndLock(s, d), t2 = Fresh(s, first, o, a, el),
            <1>3, <2>4, FreshOK
<1>5. \A c \in Chunk : c # NoTask /\ ~Reached(tk, c, NoTask)
  BY Chunks DEF NoTask, Reached
<1>6. ASSUME NEW c \in Chunk, c # d, Loop(tk, c) PROVE TaskOK(s, tk2, d, c)
  <2>1. TaskOK(s, tk, NoTask, c) /\ c # NoTask /\ ~Reached(tk, c, NoTask) /\ tk2[c] = tk[c]
    BY <1>3, <1>5, <1>6 DEF TasksOK
  <2>2. ~Reached(tk2, c, d)
    <3>1. c \in Nat /\ Beg(c) \in Nat
      BY Chunks, Begins
    <3>2. d < c => Top(d) <= Beg(c)
      BY <1>2, <3>1, Begins
    <3> QED
      BY <1>1, <1>2, <1>4, <3>1, <3>2 DEF Reached
  <2>3. Ahead(s, c, tk2[c], d) /\ Middle(c, tk2[c], d)
    BY <2>1 DEF TaskOK, Ahead, Middle
  <2>4. Kept(s, tk2, c, d)
    BY <2>1, <2>2 DEF TaskOK, Kept
  <2> QED
    BY <2>1, <2>3, <2>4 DEF TaskOK
<1>7. \A c \in Chunk : Loop(tk2, c) => TaskOK(s, tk2, d, c)
  BY <1>3, <1>4, <1>6 DEF Loop
<1> QED
  BY <1>3, <1>4, <1>7 DEF TasksOK

LEMMA BeginCopies ==
    ASSUME ShapeOK, NEW s, NEW s2, NEW tk, NEW tk2, Sane(s), TasksOK(s, tk, NoTask),
           NEW d \in Chunk, ~Loop(tk, d),
           NEW first, first = FirstIn(s, d), first.idx < s.end[d],
           NEW o \in {Beg(d), Beg(d) + 1}, o = Beg(d) \/ first.idx # Beg(d),
           NEW val, val = GetSymbol(s, first), s2 = PutSymbol(s, o, val), Sane(s2),
           NEW e, e = PutEnd(o, val), NEW itX, itX = MoveToNext(s, first),
           NEW a, NEW el, el = EndLock(s2, d), NEW t2, t2 = Fresh(s2, itX, e, a, el), tk2 = [tk EXCEPT ![d] = t2]
    PROVE  TasksOK(s2, tk2, d)
<1> DEFINE i == first.idx
           h == itX.idx
<1>1. /\ first \in IterType /\ OnSymbol(s, first) /\ Beg(d) <= i
      /\ i \in Positions(s) /\ i < Top(d) /\ i < Size /\ val = SymbolAt(s, i)
      /\ \A p \in Positions(s) : p < i => p < Beg(d)
  BY FirstFacts
<1>2. /\ Beg(d) \in Nat /\ Top(d) \in Nat /\ Size \in Nat /\ BitCount \in Nat /\ Beg(d) < Top(d) /\ d \in Nat
      /\ i \in Nat /\ s.end[d] \in Nat /\ o \in Nat /\ Beg(d) <= o /\ o <= i /\ o <= Beg(d) + 1
  <2>1. /\ Beg(d) \in Nat /\ Top(d) \in Nat /\ Size \in Nat /\ BitCount \in Nat /\ Beg(d) < Top(d) /\ d \in Nat
        /\ i \in Nat /\ s.end[d] \in Nat
    BY <1>1, Begins, Chunks, Numbers, Bits, ArrayType DEF IterType, Sane
  <2> QED
    BY <1>1, <2>1
<1>3. /\ itX \in IterType /\ OnSymbol(s, itX) /\ i < h /\ NoneBetween(s, i, h)
  BY <1>1, NextFacts DEF OnSymbol
<1>4. h \in Nat /\ (h \in Positions(s) \/ Past(s, h))
  BY <1>3 DEF IterType, OnSymbol, Beyond
<1> HIDE DEF i, h
<1>5. /\ s2.end = s.end /\ Changed(s, s2, o, h)
      /\ e \in Nat /\ o < e /\ e <= o + 2 /\ e <= h /\ e <= Top(d) + 1 /\ e <= Size
      /\ s2.used[o] /\ Wrote(s2, o, e, val)
      /\ \A k \in 0 .. BitCount - 1 : k # o /\ s2.used[k] => s.used[k]
      /\ \A k \in 0 .. BitCount - 1 : k # o /\ k # o + 1 => s2.used[k] = s.used[k]
  <2>1. s2 = PutSymbol(s, o, SymbolAt(s, i)) /\ e = PutEnd(o, SymbolAt(s, i))
    BY <1>1
  <2> QED
    BY <1>1, <1>2, <1>3, <1>4, <2>1, CopyFacts
<1>6. tk2 = [c \in Chunk |-> tk2[c]] /\ tk2[d] = t2 /\ \A c \in Chunk : c # d => tk2[c] = tk[c]
  BY DEF TasksOK
<1>7. TaskOK(s2, tk2, d, d) /\ tk2[d].out = e /\ tk2[d].idxX = h /\ Loop(tk2, d)
  <2>1. OnSymbol(s2, itX)
    <3>1. s2.end[NChunks - 1] = s.end[NChunks - 1] /\ h <= h
      BY <1>4, <1>5
    <3>2. itX.idx = h
      BY DEF h
    <3> QED
      BY <1>3, <1>4, <1>5, <3>1, <3>2, Behind
  <2>2. ASSUME NEW p \in Positions(s2), p < h PROVE p < Top(d)
    <3>1. p \in Nat /\ p \in Index /\ p \in 0 .. BitCount - 1 /\ s2.used[p] /\ p < s2.end[ChunkIdx(p)]
      BY PositionFacts
    <3>2. CASE p = o
      BY <1>1, <1>2, <3>2
    <3>3. CASE p # o
      <4>1. p \in Positions(s)
        BY <1>5, <3>1, <3>3 DEF Positions
      <4>2. ~(i < p)
        BY <1>3, <2>2, <4>1 DEF NoneBetween
      <4> QED
        BY <1>1, <1>2, <3>1, <4>2
    <3> QED
      BY <3>2, <3>3
  <2>3. /\ Beg(d) <= e /\ e <= Beg(d) + 3 /\ e > Beg(d)
    BY <1>2, <1>5
  <2>4. ~Removed(s2, d)
    BY <1>5 DEF Removed
  <2>5. e <= itX.idx
        /\ \A p \in Positions(s2) : p < itX.idx => p < Top(d)
    BY <1>5, <1>6, <2>2 DEF h
  <2>6. itX.idx = h
    BY DEF h
  <2> QED
    <3>1. Ready(s2, d, itX, e)
      BY <1>3, <1>5, <2>1, <2>3, <2>4, <2>5, <2>6 DEF Ready
    <3>2. /\ TaskOK(s2, tk2, d, d) /\ tk2[d].out = e /\ tk2[d].idxX = itX.idx /\ Loop(tk2, d)
      BY ONLY ShapeOK, Sane(s2), d \in Chunk, el = EndLock(s2, d), t2 = Fresh(s2, itX, e, a, el),
              <1>6, <3>1, FreshOK
    <3> QED
      BY <2>6, <3>2
<1>8. \A c \in Chunk : c # NoTask /\ ~Reached(tk, c, NoTask)
  BY Chunks DEF NoTask, Reached
<1>9. ASSUME NEW c \in Chunk, c # d, Loop(tk, c) PROVE TaskOK(s2, tk2, d, c)
  <2>1. c \in Nat /\ Beg(c) \in Nat /\ NoTask # c /\ ~Reached(tk, c, NoTask) /\ o < Top(d)
    <3>1. c \in Nat /\ Beg(c) \in Nat
      BY Chunks, Begins
    <3>2. NoTask # c /\ ~Reached(tk, c, NoTask)
      BY <1>8
    <3>3. o < Top(d)
      BY <1>1, <1>2
    <3> QED
      BY <3>1, <3>2, <3>3
  <2>2. ASSUME c > d PROVE Spares(s, s2, tk, tk2, NoTask, d, h, c)
    <3>1. Top(d) <= Beg(c) /\ i < Beg(c)
      BY <1>1, <1>2, <2>1, <2>2, Begins
    <3>2. h <= Beg(c) + 3
      <4>1. \A k, j \in Nat : k <= Beg(c) + 9 /\ NoneBetween(s, k, j) => j <= k + 2 \/ j <= Beg(c) + 3
        BY <1>9, <2>1, HeadFacts
      <4>2. i <= Beg(c) + 9
        BY <1>2, <2>1, <3>1
      <4>3. h <= i + 2 \/ h <= Beg(c) + 3
        BY <1>2, <1>3, <1>4, <4>1, <4>2
      <4> QED
        BY <1>2, <1>4, <2>1, <3>1, <4>3
    <3>3. h < Beg(c) => h \in Positions(s)
      <4>1. SUFFICES ASSUME h < Beg(c) PROVE ~Past(s, h)
        BY <1>4
      <4>2. /\ Beg(c) + Word <= tk[c].out /\ tk[c].out <= tk[c].idxX /\ tk[c].idxX \in Positions(s)
        BY <1>9, <2>1, MiddleFacts
      <4>3. TaskType(tk[c])
        BY <1>9 DEF TasksOK, TaskOK
      <4>4. tk[c].out \in Nat /\ tk[c].idxX \in Nat
        BY <4>3, TaskTypes
      <4>5. h < tk[c].idxX
        BY <1>4, <2>1, <4>1, <4>2, <4>4, WordType
      <4> QED
        BY <1>4, <4>2, <4>4, <4>5 DEF Past
    <3>4. \A k \in 0 .. BitCount - 1 : k >= Beg(c) + 1 => s2.used[k] = s.used[k]
      <4>1. \A k \in 0 .. BitCount - 1 : k >= Beg(c) + 1 => k # o /\ k # o + 1
        BY <1>2, <2>1, <3>1
      <4> QED
        BY <1>5, <4>1
    <3>5. ASSUME h >= Beg(c), Removed(s2, c) PROVE Written(s2, d, tk2[d])
      <4>1. Beg(c) \in 0 .. BitCount - 1 /\ Beg(c) + 1 \in 0 .. BitCount - 1
        BY <1>9, <2>1, HeadBits
      <4>2. s2.used[Beg(c) + 1] = s.used[Beg(c) + 1]
        BY <2>1, <3>4, <4>1
      <4>3. s2.used[Beg(c)] = s.used[Beg(c)] \/ Beg(c) = o + 1
        BY <1>2, <1>5, <2>1, <3>1, <4>1
      <4>4. Removed(s, c) \/ (Beg(c) = o + 1 /\ s.used[Beg(c)])
        BY <3>5, <4>2, <4>3 DEF Removed
      <4>5. ASSUME Beg(c) = o + 1, s.used[Beg(c)] PROVE val >= Base
        <5>1. s2.used[Beg(c)] # s.used[Beg(c)]
          BY <3>5, <4>5 DEF Removed
        <5>2. s \in SymbolArrays /\ val \in 0 .. Base * Base - 1
          BY <1>1, SymbolFacts DEF Sane
        <5>3. WasPut(s, o, val, s2, e)
          BY <1>2, <5>2, PutFacts
        <5> QED
          BY <4>1, <4>5, <5>1, <5>3 DEF WasPut
      <4>6. Removed(s, c)
        <5>1. SUFFICES ASSUME Beg(c) = o + 1, s.used[Beg(c)] PROVE FALSE
          BY <4>4
        <5>2. i = o
          BY <1>2, <2>1, <3>1, <5>1
        <5>3. ~s.used[i + 1]
          BY <1>1, <4>5, <5>1, SymbolFacts
        <5> QED
          BY <5>1, <5>2, <5>3
      <4>7. val >= Z
        BY <1>1, <1>3, <1>4, <1>9, <2>1, <3>1, <3>5, <4>6, NoPairThere
      <4> QED
        <5>1. t2.out = e
          BY <1>6, <1>7
        <5>2. Written(s2, d, t2)
          BY <1>2, <1>5, <2>1, <4>7, <5>1, WrittenNow
        <5> QED
          BY <1>6, <5>2
    <3>6. h <= Beg(c) + Word /\ h = tk2[d].idxX
      <4>1. h <= Beg(c) + Word
        BY <1>4, <2>1, <3>2, WordType
      <4> QED
        BY <1>7, <4>1
    <3>7. \A k \in 0 .. BitCount - 1 : k >= Beg(c) + 2 => s2.used[k] = s.used[k]
      BY <2>1, <3>4
    <3> QED
      BY <2>1, <3>3, <3>5, <3>6, <3>7 DEF Spares
  <2>3. Moves(tk, tk2, NoTask, d, d)
    BY <1>6 DEF Moves
  <2> QED
    BY <1>2, <1>5, <1>9, <2>1, <2>2, <2>3, OtherTask, ZenonT(60)
<1>10. \A c \in Chunk : Loop(tk2, c) => TaskOK(s2, tk2, d, c)
  BY <1>6, <1>7, <1>9 DEF Loop
<1> QED
  BY <1>6, <1>7, <1>10 DEF TasksOK

LEMMA BeginNothingKeeps ==
    ASSUME ShapeOK, NEW s, NEW tk, NEW tk2, NEW m, Sane(s), TasksOK(s, tk, m), NEW d \in Chunk, ~Loop(tk, d),
           tk2 = [tk EXCEPT ![d] = [pc |-> "done"]]
    PROVE  TasksOK(s, tk2, m)
<1>1. tk2 = [c \in Chunk |-> tk2[c]] /\ ~Loop(tk2, d) /\ \A c \in Chunk : c # d => tk2[c] = tk[c]
  BY DEF TasksOK, Loop
<1>2. m # d /\ (m \in Chunk => tk2[m] = tk[m])
  BY <1>1 DEF TasksOK
<1>3. ASSUME NEW c \in Chunk, Loop(tk2, c) PROVE TaskOK(s, tk2, m, c)
  <2>1. c # d /\ tk2[c] = tk[c] /\ Loop(tk, c)
    BY <1>1, <1>3 DEF Loop
  <2>2. TaskOK(s, tk, m, c)
    BY <2>1 DEF TasksOK
  <2>3. Reached(tk2, c, m) <=> Reached(tk, c, m)
    BY <1>2 DEF Reached
  <2>4. Reached(tk, c, m) => tk2[m] = tk[m]
    BY <1>2 DEF Reached
  <2>5. Kept(s, tk2, c, m)
    BY <2>1, <2>2, <2>3, <2>4 DEF TaskOK, Kept
  <2> QED
    BY <2>1, <2>2, <2>5 DEF TaskOK
<1>4. m \in Chunk => Loop(tk2, m)
  BY <1>2 DEF TasksOK, Loop
<1> QED
  BY <1>1, <1>3, <1>4 DEF TasksOK

(***************************************************************************)
(* The invariant.                                                          *)
(***************************************************************************)
(* The shape and the number of the new symbol do not change.               *)
LEMMA SameTasks ==
    ASSUME shape' = shape, symbols' = symbols, TasksOK(arr', task', mutex')
    PROVE  TasksOK(arr, task, mutex)'
<1>1. /\ Size' = Size /\ ChunkSize' = ChunkSize /\ BitCount' = BitCount /\ Index' = Index
      /\ NChunks' = NChunks /\ Chunk' = Chunk /\ Z' = Z
  BY DEF Size, ChunkSize, BitCount, Index, NChunks, Chunk, CeilDiv, Z
<1>2. Positions(arr)' = Positions(arr')
  BY <1>1 DEF Positions, ChunkIdx
<1>3. \A c : Beg(c)' = Beg(c) /\ Top(c)' = Top(c)
  BY <1>1 DEF Beg, Top
<1>4. ASSUME NEW c \in Chunk, Loop(task', c) PROVE TaskOK(arr, task, mutex, c)'
  <2>1. TaskOK(arr', task', mutex', c)
    BY <1>4 DEF TasksOK
  <2>2. TaskType(task[c])'
    BY <2>1 DEF TaskOK, TaskType, IterType
  <2>3. Window(arr, c, task[c])'
    <3>1. Window(arr', c, task'[c])
      BY <2>1 DEF TaskOK
    <3> QED
      BY <1>1, <1>2, <1>3, <3>1
      DEF Window, At, Past, OnSymbol, Inside, Beyond, NoneBetween, SymbolAt, GetSymbol, Iter, Used, DataAt,
          ChunkIdx
  <2>4. Ahead(arr, c, task[c], mutex)'
    <3>1. Ahead(arr', c, task'[c], mutex')
      BY <2>1 DEF TaskOK
    <3> QED
      BY <1>1, <1>2, <1>3, <3>1 DEF Ahead
  <2>5. Middle(c, task[c], mutex)'
    BY <1>3, <2>1 DEF TaskOK, Middle
  <2>6. Dense(arr, c, task[c])'
    BY <1>3, <2>1 DEF TaskOK, Dense
  <2>7. Kept(arr, task, c, mutex)'
    <3>1. Kept(arr', task', c, mutex')
      BY <2>1 DEF TaskOK
    <3> QED
      BY <1>1, <1>2, <1>3, <3>1
      DEF Kept, Removed, Written, NewBefore, LastBefore, Reached, SymbolAt, GetSymbol, Iter, Used, DataAt,
          ChunkIdx, Beg, Top
  <2> QED
    BY <2>2, <2>3, <2>4, <2>5, <2>6, <2>7 DEF TaskOK
<1>5. \A c \in Chunk : Loop(task', c) <=> Loop(task, c)'
  BY DEF Loop
<1> QED
  BY <1>1, <1>4, <1>5 DEF TasksOK, Loop

LEMMA AFunction == ASSUME NEW S, NEW n \in Nat, NEW q \in [1 .. n -> S] PROVE q \in Seq(S)
  OBVIOUS

LEMMA Longer ==
    ASSUME NEW S, NEW q \in Seq(S), NEW e
    PROVE  Append(q, e) \in Seq(S \cup {e}) /\ Len(Append(q, e)) = Len(q) + 1
<1>1. q \in Seq(S \cup {e})
  OBVIOUS
<1> QED
  BY <1>1

(* Every element of a set has its place in ascending order.                *)
LEMMA Ranks ==
    ASSUME NEW V \in SUBSET Nat, IsFiniteSet(V), NEW v \in V
    PROVE  /\ Cardinality(V) \in Nat /\ Len(Ascending(V)) = Cardinality(V)
           /\ \E k \in 1 .. Cardinality(V) : Ascending(V)[k] = v
<1> DEFINE Below(x) == {j \in V : j < x}
           n == Cardinality(Below(v))
<1>1. Cardinality(V) \in Nat
  BY FS_CardinalityType
<1>2. \A x \in V : IsFiniteSet(Below(x)) /\ Cardinality(Below(x)) \in Nat
  <2> TAKE x \in V
  <2>1. IsFiniteSet(Below(x))
    BY FS_Subset
  <2> QED
    BY <2>1, FS_CardinalityType
<1>3. ASSUME NEW x \in V, NEW y \in V, x < y PROVE Cardinality(Below(x)) < Cardinality(Below(y))
  <2>1. Below(x) \subseteq Below(y) /\ Below(x) # Below(y)
    <3>1. x \in Below(y) /\ x \notin Below(x)
      BY <1>3
    <3>2. \A j \in Below(x) : j \in Below(y)
      BY <1>3
    <3> QED
      BY <3>1, <3>2
  <2>2. Cardinality(Below(x)) <= Cardinality(Below(y)) /\ Cardinality(Below(x)) # Cardinality(Below(y))
    BY <1>2, <2>1, FS_Subset
  <2> QED
    BY <1>2, <2>2
<1>4. n < Cardinality(V)
  <2>1. Below(v) \subseteq V /\ Below(v) # V
    <3>1. v \notin Below(v)
      OBVIOUS
    <3> QED
      BY <3>1
  <2>2. n <= Cardinality(V) /\ n # Cardinality(V)
    BY <2>1, FS_Subset
  <2> QED
    BY <1>1, <1>2, <2>2
<1>5. n \in Nat /\ n + 1 \in 1 .. Cardinality(V)
  BY <1>1, <1>2, <1>4
<1>6. Ascending(V) = [k \in 1 .. Cardinality(V) |-> CHOOSE i \in V : Cardinality(Below(i)) = k - 1]
  BY DEF Ascending
<1>7. \A x \in V : Cardinality(Below(x)) = n => x = v
  BY <1>2, <1>3
<1>8. Len(Ascending(V)) = Cardinality(V)
  BY <1>1, <1>6
<1> HIDE DEF Below, n
<1>9. Ascending(V)[n + 1] \in V /\ Cardinality(Below(Ascending(V)[n + 1])) = n
  <2>1. PICK k \in 1 .. Cardinality(V) : k = n + 1
    BY <1>5
  <2> DEFINE there == CHOOSE i \in V : Cardinality(Below(i)) = k - 1
  <2>2. Cardinality(Below(v)) = k - 1
    BY <1>5, <2>1 DEF n
  <2>3. there \in V /\ Cardinality(Below(there)) = k - 1
    BY <2>2
  <2>4. Ascending(V)[k] = there
    BY <1>6
  <2>5. k - 1 = n
    BY <1>5, <2>1
  <2> QED
    BY <2>1, <2>3, <2>4, <2>5
<1>10. Ascending(V)[n + 1] = v
  BY <1>5, <1>7, <1>9
<1> QED
  BY <1>1, <1>5, <1>8, <1>10

(* The ranges are sound, and the pair that is replaced has older symbols.   *)
Sound == RangesSound /\ (phase = "replace" => {X, Y} \subseteq 0 .. Z - 1)

(* Each pass has a free number for its new symbol.                         *)
SymbolsOK(ph, q) ==
    /\ \E S : q \in Seq(S)
    /\ ph \in {"refill", "fill", "start"} => Len(q) < MaxSyms
    /\ ph \in {"visit", "replace"} => Len(q) \in 1 .. MaxSyms
Inv ==
    /\ ShapeOK
    /\ arr \in SymbolArrays /\ Sizes(arr)
    /\ phase = "init" => (\A i \in Index : arr.used[i]) /\ \A c \in Chunk : arr.end[c] = ChunkEnd(c)
    /\ SymbolsOK(phase, symbols)
    /\ phase = "replace" => TasksOK(arr, task, mutex)

LEMMA InitInv == Init => Inv
<1> SUFFICES ASSUME Init PROVE Inv
  OBVIOUS
<1>1. PICK k \in Cases : /\ input = k.bytes
                         /\ shape = [size |-> Len(input), chunkSize |-> k.chunkSize]
  BY DEF Init
<1>2. /\ input \in Seq(Byte) /\ input # <<>> /\ k.chunkSize \in Nat \ {0}
      /\ k.chunkSize % Word = 0 \/ Len(input) <= Word
  BY <1>1, RePairAssumption
<1>3. Len(input) \in Nat \ {0}
  BY <1>2
<1>4. ShapeOK /\ Size = Len(input)
  <2>1. shape.size = Len(input) /\ shape.chunkSize = k.chunkSize
    BY <1>1
  <2>2. shape \in [size : Nat \ {0}, chunkSize : Nat \ {0}]
    BY <1>1, <1>2, <1>3
  <2> QED
    BY <1>2, <2>1, <2>2 DEF ShapeOK, Size, ChunkSize
<1>5. PICK bit \in BOOLEAN, byte \in Byte :
            arr = [data |-> [i \in Index |-> input[i + 1]], used |-> [i \in 0 .. BitCount - 1 |-> TRUE],
                   end |-> [c \in Chunk |-> ChunkEnd(c)], bitPast |-> bit, bytePast |-> byte]
  <2>1. arr \in Constructed([i \in Index |-> input[i + 1]])
    BY DEF Init
  <2>2. CASE Size % Word = 0
    BY <2>1, <2>2 DEF Constructed
  <2>3. CASE ~(Size % Word = 0)
    <3>1. 0 \in Byte
      BY WordType DEF Byte
    <3>2. \E bit \in {TRUE}, byte \in {0} :
            arr = [data |-> [i \in Index |-> input[i + 1]], used |-> [i \in 0 .. BitCount - 1 |-> TRUE],
                   end |-> [c \in Chunk |-> ChunkEnd(c)], bitPast |-> bit, bytePast |-> byte]
      BY <2>1, <2>3 DEF Constructed
    <3> QED
      BY <3>1, <3>2
  <2> QED
    BY <2>2, <2>3
<1>7. \A i \in Index : input[i + 1] \in Byte
  BY <1>2, <1>3, <1>4 DEF Index
<1>8. \A c \in Chunk : ChunkEnd(c) \in Beg(c) + 1 .. Top(c) + 1 /\ ChunkEnd(c) \in 0 .. Size
  <2> TAKE c \in Chunk
  <2>1. ChunkEnd(c) \in Beg(c) + 1 .. Top(c) /\ ChunkEnd(c) <= Size
    BY <1>4, ChunkEnds
  <2>2. Beg(c) \in Nat /\ Top(c) \in Nat /\ Size \in Nat
    BY <1>4, Chunks, Begins, Numbers
  <2> QED
    BY <2>1, <2>2
<1>9. arr \in SymbolArrays
  <2>1. [i \in Index |-> input[i + 1]] \in [Index -> Byte]
    BY <1>7
  <2>2. [c \in Chunk |-> ChunkEnd(c)] \in [Chunk -> 0 .. Size]
    BY <1>8
  <2>3. [i \in 0 .. BitCount - 1 |-> TRUE] \in [0 .. BitCount - 1 -> BOOLEAN]
    OBVIOUS
  <2> QED
    BY <1>5, <2>1, <2>2, <2>3 DEF SymbolArrays
<1>10. /\ \A c \in Chunk : arr.end[c] = ChunkEnd(c)
       /\ \A i \in Index : arr.used[i]
  <2>1. \A i \in Index : i \in 0 .. BitCount - 1
    BY <1>4, Bits, Numbers DEF Index
  <2> QED
    BY <1>5, <2>1
<1>11. Sizes(arr)
  BY <1>8, <1>10 DEF Sizes
<1>12. symbols \in Seq({}) /\ phase = "init"
  BY DEF Init
<1> QED
  BY <1>4, <1>9, <1>10, <1>11, <1>12 DEF Inv, SymbolsOK

LEMMA SaneNow == Inv /\ Sound => Sane(arr)
  BY DEF Inv, Sound, RangesSound, Sane, Own, LastByte

LEMMA SaneNext ==
    ASSUME shape' = shape, Sound', arr' \in SymbolArrays, Sizes(arr')
    PROVE  Sane(arr')
<1>1. /\ Size' = Size /\ ChunkSize' = ChunkSize /\ Index' = Index
      /\ NChunks' = NChunks /\ Chunk' = Chunk
  BY DEF Size, ChunkSize, Index, NChunks, Chunk, CeilDiv
<1>2. Own(arr')
  BY <1>1 DEF Sound, RangesSound, Own, Beg, ChunkIdx
<1>3. LastByte(arr')
  BY <1>1 DEF Sound, RangesSound, LastByte, Positions, ChunkIdx, SymbolAt, GetSymbol, Iter, Used, DataAt,
              BitCount, CeilDiv, Beg
<1> QED
  BY <1>2, <1>3 DEF Sane

(* The bytes in use are renamed to 0, 1, ...                               *)
LEMMA InitSymbolsKeeps ==
    ASSUME Inv, Sound, InitSymbols
    PROVE  /\ arr' \in SymbolArrays /\ arr'.end = arr.end /\ shape' = shape
           /\ phase' = "pick" /\ \E S : symbols' \in Seq(S)
           /\ {SymbolAt(arr, i) : i \in Index} \subseteq Byte
<1>1. phase = "init" /\ ShapeOK /\ arr \in SymbolArrays
      /\ (\A i \in Index : arr.used[i]) /\ \A c \in Chunk : arr.end[c] = ChunkEnd(c)
  BY DEF Inv, InitSymbols
<1>2. Sane(arr)
  BY SaneNow
<1>3. Size \in Nat /\ Base \in Nat \ {0} /\ Byte = 0 .. Base - 1
  BY <1>1, Numbers, WordType DEF Byte
<1>4. ASSUME NEW i \in Index PROVE SymbolAt(arr, i) \in Byte
  <2>1. i \in Nat /\ i < Size
    BY <1>3 DEF Index
  <2>2. ChunkIdx(i) \in Chunk /\ i < Top(ChunkIdx(i)) /\ Top(ChunkIdx(i)) \in Nat
    BY <1>1, <2>1, ChunkOf, Begins, Chunks
  <2>3. ChunkEnd(ChunkIdx(i)) = IF Size <= Top(ChunkIdx(i)) THEN Size ELSE Top(ChunkIdx(i))
    BY <1>3, <2>2, MinOfTwo DEF ChunkEnd, Top
  <2>4. i < arr.end[ChunkIdx(i)]
    BY <1>1, <1>3, <2>1, <2>2, <2>3
  <2>5. i \in Positions(arr)
    BY <1>1, <2>4 DEF Positions
  <2>6. /\ SymbolAt(arr, i) \in 0 .. Base * Base - 1
        /\ SymbolAt(arr, i) >= Base => i + 1 < Size /\ ~arr.used[i + 1]
    BY <1>1, <1>2, <2>5, SymbolFacts
  <2>7. i + 1 < Size => arr.used[i + 1]
    BY <1>1, <1>3, <2>1 DEF Index
  <2>8. SymbolAt(arr, i) \in Int /\ 0 <= SymbolAt(arr, i)
    <3>1. Base * Base \in Int
      BY <1>3
    <3> QED
      BY <2>6, <3>1
  <2> QED
    BY <1>3, <2>6, <2>7, <2>8
<1> DEFINE V == {SymbolAt(arr, i) : i \in Index}
           bytes == Ascending(V)
           Renamed(i) == CHOOSE s \in 0 .. Len(bytes) - 1 : bytes[s + 1] = SymbolAt(arr, i)
           renamed == [i \in Index |-> Renamed(i)]
<1>5. V \subseteq Byte /\ V \in SUBSET Nat
  BY <1>3, <1>4
<1>6. IsFiniteSet(V) /\ Cardinality(V) \in Nat /\ Cardinality(V) <= Base
  <2>1. IsFiniteSet(Byte) /\ Cardinality(Byte) = Base
    BY <1>3, FS_Interval
  <2>2. IsFiniteSet(V) /\ Cardinality(V) <= Cardinality(Byte)
    BY <1>5, <2>1, FS_Subset
  <2> QED
    BY <2>1, <2>2, FS_CardinalityType
<1>7. /\ arr' = [arr EXCEPT !.data = renamed] /\ shape' = shape /\ phase' = "pick"
      /\ symbols' = [k \in 1 .. Len(bytes) |-> Primitive(bytes[k])]
  BY DEF InitSymbols, setting
<1>8. ASSUME NEW v \in V
      PROVE  \E k \in 1 .. Cardinality(V) : bytes[k] = v
  <2> HIDE DEF V
  <2> QED
    BY <1>5, <1>6, Ranks
<1>9. Len(bytes) \in Nat /\ Len(bytes) <= Base /\ Len(bytes) = Cardinality(V)
  <2> HIDE DEF V
  <2>1. Len(bytes) = Cardinality(V)
    BY <1>6 DEF Ascending
  <2> QED
    BY <1>6, <2>1
<1>10. ASSUME NEW i \in Index PROVE Renamed(i) \in Byte
  <2>1. SymbolAt(arr, i) \in V
    OBVIOUS
  <2> HIDE DEF V
  <2>2. PICK k \in 1 .. Cardinality(V) : bytes[k] = SymbolAt(arr, i)
    BY <1>8, <2>1
  <2> HIDE DEF bytes
  <2>3. k - 1 \in 0 .. Len(bytes) - 1 /\ bytes[(k - 1) + 1] = SymbolAt(arr, i)
    BY <1>6, <1>9, <2>2
  <2>4. Renamed(i) \in 0 .. Len(bytes) - 1
    BY <2>3
  <2> HIDE DEF Renamed
  <2> QED
    BY <1>3, <1>9, <2>4
<1>11. \E S : symbols' \in Seq(S)
  <2> HIDE DEF bytes
  <2> DEFINE S == {Primitive(bytes[k]) : k \in 1 .. Len(bytes)}
  <2>1. \A k \in 1 .. Len(bytes) : Primitive(bytes[k]) \in S
    OBVIOUS
  <2> HIDE DEF S
  <2>2. symbols' \in [1 .. Len(bytes) -> S]
    BY <1>7, <2>1
  <2>3. symbols' \in Seq(S)
    BY <1>9, <2>2, AFunction
  <2> QED
    BY <2>3
<1> HIDE DEF Renamed
<1>12. renamed \in [Index -> Byte]
  BY <1>10
<1> HIDE DEF renamed
<1>13. arr' \in SymbolArrays /\ arr'.end = arr.end
  BY <1>1, <1>7, <1>12 DEF SymbolArrays
<1> QED
  BY <1>5, <1>7, <1>11, <1>13

LEMMA Primed ==
    ASSUME Inv, shape' = shape, arr' \in SymbolArrays, Sizes(arr'), SymbolsOK(phase', symbols'),
           phase' = "init" => phase = "init" /\ arr' = arr,
           phase' = "replace" => TasksOK(arr, task, mutex)'
    PROVE  Inv'
<1>1. /\ Size' = Size /\ ChunkSize' = ChunkSize /\ BitCount' = BitCount /\ Index' = Index
      /\ NChunks' = NChunks /\ Chunk' = Chunk
  BY DEF Size, ChunkSize, BitCount, Index, NChunks, Chunk, CeilDiv
<1>2. ShapeOK'
  BY <1>1 DEF Inv, ShapeOK
<1>3. SymbolArrays' = SymbolArrays
  BY <1>1 DEF SymbolArrays
<1>4. Sizes(arr)'
  BY <1>1 DEF Sizes, Beg, Top
<1>5. (phase = "init" => (\A i \in Index : arr.used[i]) /\ \A c \in Chunk : arr.end[c] = ChunkEnd(c))'
  BY <1>1 DEF Inv, ChunkEnd, Beg
<1>6. SymbolsOK(phase, symbols)'
  BY DEF SymbolsOK
<1> QED
  BY <1>2, <1>3, <1>4, <1>5, <1>6 DEF Inv

LEMMA CombineType ==
    ASSUME ShapeOK, NEW s \in SymbolArrays, NEW i, NEW j, NEW val \in 0 .. Base * Base - 1
    PROVE  CombineSymbol(s, i, j, val) \in SymbolArrays /\ CombineSymbol(s, i, j, val).end = s.end
<1>1. val % Base \in Byte /\ val \div Base \in Byte
  <2>1. Base \in Nat \ {0} /\ val \in Nat /\ val < Base * Base /\ Base * Base \in Int
    BY WordType
  <2>2. /\ val % Base \in 0 .. Base - 1 /\ val \div Base \in Nat
        /\ Base * (val \div Base) <= val
    BY <2>1, Quotient, Remainder
  <2>3. val \div Base < Base
    BY <2>1, SmallQuotient
  <2> QED
    BY <2>1, <2>2, <2>3 DEF Byte
<1>2. \A r \in SymbolArrays : \A k : \A v \in Byte :
        SetByte(r, k, v) \in SymbolArrays /\ SetByte(r, k, v).end = r.end
  BY DEF SetByte, SymbolArrays
<1>3. \A r \in SymbolArrays : \A k :
        SetUsedIdx(r, k, FALSE) \in SymbolArrays /\ SetUsedIdx(r, k, FALSE).end = r.end
  BY DEF SetUsedIdx, SymbolArrays
<1> DEFINE low == SetByte(s, i, val % Base)
           both == SetByte(low, i + 1, val \div Base)
<1>4. low \in SymbolArrays /\ low.end = s.end
  BY <1>1, <1>2
<1> HIDE DEF low
<1>5. both \in SymbolArrays /\ both.end = s.end
  BY <1>1, <1>2, <1>4
<1> HIDE DEF both
<1>6. CombineSymbol(s, i, j, val) = SetUsedIdx(both, j, FALSE)
  BY DEF CombineSymbol, low, both
<1> QED
  BY <1>3, <1>5, <1>6

(* What happens outside the replacement by tasks.                          *)
LEMMA PassKeeps ==
    ASSUME Inv, Sound, Sound', Compress
    PROVE  Inv'
<1>0. ShapeOK /\ arr \in SymbolArrays /\ Sizes(arr) /\ SymbolsOK(phase, symbols) /\ MaxSyms \in Nat \ {0}
  BY RePairAssumption DEF Inv
<1>1. ASSUME InitSymbols PROVE Inv'
  <2>1. /\ arr' \in SymbolArrays /\ arr'.end = arr.end /\ shape' = shape
        /\ phase' = "pick" /\ \E S : symbols' \in Seq(S)
    BY <1>1, InitSymbolsKeeps
  <2>2. SymbolsOK(phase', symbols') /\ Sizes(arr')
    BY <1>0, <2>1 DEF SymbolsOK, Sizes
  <2> QED
    BY <2>1, <2>2, Primed
<1>2. ASSUME \/ \E p \in DOMAIN cands : Pick(p)
             \/ Stop
             \/ \E p \in DOMAIN cands : RefillConsider(p)
             \/ RefillNoMore \/ RefillFill \/ AllVisited \/ AllReplaced \/ Update
      PROVE  Inv'
  <2>1. /\ shape' = shape /\ arr' = arr /\ symbols' = symbols /\ phase' # "init" /\ phase' # "replace"
        /\ phase' # "visit"
        /\ phase' \in {"refill", "fill", "start"} =>
             phase \in {"refill", "fill", "start"} \/ Len(symbols) < MaxSyms
    BY <1>2 DEF Pick, Stop, RefillConsider, RefillNoMore, RefillFill, AllVisited, AllReplaced, Update,
                setting, table
  <2>2. SymbolsOK(phase', symbols')
    BY <1>0, <2>1 DEF SymbolsOK
  <2> QED
    BY <1>0, <2>1, <2>2, Primed
<1>3. ASSUME StartIdxCache PROVE Inv'
  <2>1. /\ shape' = shape /\ arr' = arr /\ symbols' = Append(symbols, NewSymbol) /\ phase = "start"
        /\ phase' = "visit"
    BY <1>3 DEF StartIdxCache, setting
  <2>2. SymbolsOK(phase', symbols')
    <3>1. PICK S : symbols \in Seq(S)
      BY <1>0 DEF SymbolsOK
    <3>2. symbols' \in Seq(S \cup {NewSymbol}) /\ Len(symbols') = Len(symbols) + 1
      BY <2>1, <3>1, Longer
    <3>3. Len(symbols) \in Nat /\ Len(symbols) < MaxSyms
      BY <1>0, <2>1, <3>1 DEF SymbolsOK
    <3> QED
      BY <1>0, <2>1, <3>2, <3>3 DEF SymbolsOK
  <2> QED
    BY <1>0, <2>1, <2>2, Primed
<1>4. ASSUME StartReplacePairs PROVE Inv'
  <2>1. /\ shape' = shape /\ arr' = arr /\ symbols' = Append(symbols, NewSymbol) /\ phase = "start"
        /\ phase' = "replace" /\ task' = [c \in Chunk |-> [pc |-> "todo"]] /\ mutex' = NoTask
    BY <1>4 DEF StartReplacePairs, setting
  <2>2. SymbolsOK(phase', symbols')
    <3>1. PICK S : symbols \in Seq(S)
      BY <1>0 DEF SymbolsOK
    <3>2. symbols' \in Seq(S \cup {NewSymbol}) /\ Len(symbols') = Len(symbols) + 1
      BY <2>1, <3>1, Longer
    <3>3. Len(symbols) \in Nat /\ Len(symbols) < MaxSyms
      BY <1>0, <2>1, <3>1 DEF SymbolsOK
    <3> QED
      BY <1>0, <2>1, <3>2, <3>3 DEF SymbolsOK
  <2>3. TasksOK(arr, task, mutex)'
    <3>1. Chunk' = Chunk
      BY <2>1 DEF Chunk, NChunks, CeilDiv, Size, ChunkSize
    <3>2. NoTask \notin Chunk
      BY <1>0, Chunks DEF NoTask
    <3>3. \A c \in Chunk : task'[c].pc # "loop"
      BY <2>1
    <3>4. task' = [c \in Chunk |-> task'[c]]
      BY <2>1
    <3> QED
      BY <2>1, <3>1, <3>2, <3>3, <3>4 DEF TasksOK, Loop, NoTask
  <2> QED
    BY <1>0, <2>1, <2>2, <2>3, Primed
<1>5. ASSUME VisitIndex PROVE Inv'
  <2>1. shape' = shape /\ symbols' = symbols /\ phase = "visit" /\ phase' = "visit"
    BY <1>5 DEF VisitIndex, setting, table
  <2>2. arr' = arr \/ \E i, j : arr' = CombineSymbol(arr, i, j, Z)
    BY <1>5 DEF VisitIndex
  <2>3. Z \in 0 .. Base * Base - 1
    <3>1. Len(symbols) \in 1 .. MaxSyms /\ MaxSyms < Base * Base /\ Base * Base \in Int
      BY <1>0, <2>1, RePairAssumption, WordType DEF SymbolsOK
    <3> QED
      BY <1>0, <3>1 DEF Z
  <2>4. arr' \in SymbolArrays /\ arr'.end = arr.end
    BY <1>0, <2>2, <2>3, CombineType
  <2>5. SymbolsOK(phase', symbols') /\ Sizes(arr')
    BY <1>0, <2>1, <2>4 DEF Sizes
  <2> QED
    BY <2>1, <2>4, <2>5, Primed
<1> QED
  BY <1>1, <1>2, <1>3, <1>4, <1>5 DEF Compress

(* What the tasks do.                                                      *)
LEMMA ReplaceState ==
    ASSUME Inv, Sound, phase = "replace"
    PROVE  ShapeOK /\ Sane(arr) /\ TasksOK(arr, task, mutex) /\ PairOK
<1>1. ShapeOK /\ Sane(arr) /\ TasksOK(arr, task, mutex)
  BY SaneNow DEF Inv
<1>2. Len(symbols) \in 1 .. MaxSyms /\ MaxSyms \in Nat /\ MaxSyms < Base * Base /\ Base * Base \in Int
  BY RePairAssumption, WordType DEF Inv, SymbolsOK
<1>3. Z \in 0 .. Base * Base - 1
  BY <1>2 DEF Z
<1>4. {X, Y} \subseteq 0 .. Z - 1
  BY DEF Sound, RangesSound
<1> QED
  BY <1>1, <1>3, <1>4 DEF PairOK

(* A step of a task; what remains to show.                                 *)
LEMMA TaskStep ==
    ASSUME Inv, Sound', phase = "replace", phase' = "replace", shape' = shape, symbols' = symbols,
           arr' \in SymbolArrays, Sizes(arr'), Sane(arr') => TasksOK(arr', task', mutex')
    PROVE  Inv'
<1>1. Sane(arr')
  BY SaneNext
<1>2. TasksOK(arr, task, mutex)'
  BY <1>1, SameTasks
<1>3. SymbolsOK(phase', symbols')
  BY DEF Inv
<1> QED
  BY <1>2, <1>3, Primed

LEMMA CopyStep ==
    ASSUME Inv, Sound, Sound', NEW c \in Chunk, CopySymbol(c)
    PROVE  Inv'
<1> DEFINE t == task[c]
<1>1. /\ phase = "replace" /\ phase' = "replace" /\ shape' = shape /\ symbols' = symbols /\ mutex' = mutex
      /\ Loop(task, c) /\ t.idxX < arr.end[c] /\ (t.in.idx >= t.endLock => mutex = c)
      /\ arr' = PutSymbol(arr, t.out, t.x)
      /\ task' = [task EXCEPT ![c] = AfterCopy(arr', t, PutEnd(t.out, t.x))]
  BY DEF CopySymbol, CanStep, InLoop, NeedsMutex, Loop, AfterCopy, setting, table
<1>2. ShapeOK /\ Sane(arr) /\ TasksOK(arr, task, mutex) /\ PairOK
  BY <1>1, ReplaceState
<1>3. arr' \in SymbolArrays /\ Sizes(arr')
  <2>1. TaskType(t) /\ Window(arr, c, t)
    BY <1>1, <1>2 DEF TasksOK, TaskOK
  <2>2. t.out \in Nat
    BY <2>1 DEF TaskType
  <2>3. t.x \in 0 .. Base * Base - 1
    BY <1>1, <1>2, <2>1, AtSymbol, SymbolFacts
  <2>4. WasPut(arr, t.out, t.x, PutSymbol(arr, t.out, t.x), PutEnd(t.out, t.x))
    BY <1>2, <2>2, <2>3, PutFacts DEF Sane
  <2>5. arr' \in SymbolArrays /\ arr'.end = arr.end
    BY <1>1, <2>4 DEF WasPut
  <2> QED
    BY <1>2, <2>5 DEF Sane, Sizes
<1> HIDE DEF t
<1>4. ASSUME Sane(arr') PROVE TasksOK(arr', task', mutex')
  <2>1. t = task[c]
    BY DEF t
  <2>2. TasksOK(arr', task', mutex)
    BY <1>1, <1>2, <1>4, <2>1, CopyKeeps
  <2> QED
    BY <1>1, <2>2
<1> QED
  BY <1>1, <1>3, <1>4, TaskStep

LEMMA ReplaceStep ==
    ASSUME Inv, Sound, Sound', NEW c \in Chunk, ReplacePair(c)
    PROVE  Inv'
<1> DEFINE t == task[c]
<1>1. /\ phase = "replace" /\ phase' = "replace" /\ shape' = shape /\ symbols' = symbols /\ mutex' = mutex
      /\ Loop(task, c) /\ t.idxX < arr.end[c] /\ (t.in.idx >= t.endLock => mutex = c)
      /\ t.x = X /\ t.y = Y /\ arr' = Replaced(arr, t.idxY, t.out, Z)
      /\ task' = [task EXCEPT ![c] = AfterReplace(arr', t, PutEnd(t.out, Z), Z)]
  BY DEF ReplacePair, CanStep, AtPair, InLoop, NeedsMutex, Loop, Replaced, AfterReplace, setting, table
<1>2. ShapeOK /\ Sane(arr) /\ TasksOK(arr, task, mutex) /\ PairOK
  BY <1>1, ReplaceState
<1>3. arr' \in SymbolArrays /\ Sizes(arr')
  <2>1. TaskType(t)
    BY <1>1, <1>2 DEF TasksOK, TaskOK
  <2>2. t.out \in Nat /\ t.idxY \in Nat
    BY <2>1 DEF TaskType
  <2> DEFINE cleared == SetUsedIdx(arr, t.idxY, FALSE)
  <2>3. cleared \in SymbolArrays /\ cleared.end = arr.end
    BY <1>2, <2>2, ClearUsedFacts DEF Sane
  <2> HIDE DEF cleared
  <2>4. WasPut(cleared, t.out, Z, PutSymbol(cleared, t.out, Z), PutEnd(t.out, Z))
    BY <1>2, <2>2, <2>3, PutFacts DEF PairOK
  <2>5. arr' = PutSymbol(cleared, t.out, Z)
    BY <1>1 DEF Replaced, cleared
  <2>6. arr' \in SymbolArrays /\ arr'.end = arr.end
    BY <2>3, <2>4, <2>5 DEF WasPut
  <2> QED
    BY <1>2, <2>6 DEF Sane, Sizes
<1> HIDE DEF t
<1>4. ASSUME Sane(arr') PROVE TasksOK(arr', task', mutex')
  <2>1. t = task[c]
    BY DEF t
  <2>2. TasksOK(arr', task', mutex)
    BY <1>1, <1>2, <1>4, <2>1, ReplaceKeeps
  <2> QED
    BY <1>1, <2>2
<1> QED
  BY <1>1, <1>3, <1>4, TaskStep

LEMMA LockStep ==
    ASSUME Inv, Sound, Sound', NEW c \in Chunk, LockTail(c) \/ UnlockMiddle(c)
    PROVE  Inv'
<1>1. /\ phase = "replace" /\ phase' = "replace" /\ shape' = shape /\ symbols' = symbols
      /\ arr' = arr /\ task' = task /\ Loop(task, c) /\ task[c].idxX < arr.end[c]
  BY DEF LockTail, UnlockMiddle, InLoop, Loop, setting, table
<1>2. ShapeOK /\ Sane(arr) /\ TasksOK(arr, task, mutex)
  BY <1>1, ReplaceState
<1>3. CASE LockTail(c)
  <2>1. mutex = NoTask /\ mutex' = c
    BY <1>3 DEF LockTail
  <2>2. TasksOK(arr, task, c)
    BY <1>1, <1>2, <2>1, LockKeeps
  <2> QED
    BY <1>1, <1>2, <2>1, <2>2, TaskStep DEF Sane
<1>4. CASE UnlockMiddle(c)
  <2>1. mutex = c /\ mutex' = NoTask /\ ~(task[c].in.idx >= task[c].endLock) /\ task[c].out >= Beg(c) + Word
    BY <1>4 DEF UnlockMiddle, GivesMutex, NeedsMutex
  <2>2. TaskType(task[c])
    BY <1>1, <1>2 DEF TasksOK, TaskOK
  <2>3. task[c].in.idx < task[c].endLock /\ Beg(c) + Word <= task[c].out
    BY <1>2, <2>1, <2>2, TaskTypes, WordType
  <2>4. TasksOK(arr, task, NoTask)
    BY <1>1, <1>2, <2>1, <2>3, UnlockKeeps
  <2> QED
    BY <1>1, <1>2, <2>1, <2>4, TaskStep DEF Sane
<1> QED
  BY <1>3, <1>4

LEMMA EndStep ==
    ASSUME Inv, Sound, Sound', NEW c \in Chunk, EndChunk(c)
    PROVE  Inv'
<1>1. /\ phase = "replace" /\ phase' = "replace" /\ shape' = shape /\ symbols' = symbols
      /\ mutex' = IF mutex = c THEN NoTask ELSE mutex
      /\ Loop(task, c) /\ task[c].idxX >= arr.end[c]
      /\ arr' = Ended(arr, c, task[c].out)
      /\ task' = [task EXCEPT ![c] = [pc |-> "done"]]
  BY DEF EndChunk, Loop, Ended, setting, table
<1>2. ShapeOK /\ Sane(arr) /\ TasksOK(arr, task, mutex)
  BY <1>1, ReplaceState
<1>3. TaskType(task[c]) /\ Window(arr, c, task[c])
  BY <1>1, <1>2 DEF TasksOK, TaskOK
<1>4. /\ task[c].out \in Nat /\ Beg(c) < task[c].out /\ task[c].out <= Top(c) + 1 /\ task[c].out <= Size
  <2> DEFINE t == task[c]
  <2>1. TaskType(t) /\ Window(arr, c, t) /\ t.idxX >= arr.end[c]
    BY <1>1, <1>3
  <2> HIDE DEF t
  <2>2. t.out \in Nat /\ Beg(c) \in Nat
    BY <1>2, <2>1, TaskTypes
  <2>3. Beg(c) < t.out /\ t.out <= Top(c) + 1 /\ t.out <= Size
    BY <2>1, <2>2 DEF Window
  <2> QED
    BY <2>2, <2>3 DEF t
<1>5. arr' \in SymbolArrays /\ Sizes(arr')
  BY <1>1, <1>2, <1>4, EndFacts DEF Sane
<1>6. ASSUME Sane(arr') PROVE TasksOK(arr', task', mutex')
  <2>0. ShapeOK /\ Sane(arr) /\ TasksOK(arr, task, mutex) /\ Loop(task, c) /\ task[c].idxX >= arr.end[c]
    BY <1>1, <1>2
  <2>1. ASSUME NEW s2, NEW tk2, s2 = Ended(arr, c, task[c].out), Sane(s2),
               tk2 = Finished(task, c)
        PROVE  mutex = c /\ TasksOK(s2, tk2, NoTask)
    BY ONLY <2>0, <2>1, EndKeeps, c \in Chunk
  <2>2. mutex = c /\ TasksOK(arr', task', NoTask)
    BY <1>1, <1>6, <2>1 DEF Finished
  <2> QED
    BY <1>1, <2>2
<1> QED
  BY <1>1, <1>5, <1>6, TaskStep

LEMMA BeginNothingStep ==
    ASSUME Inv, Sound, Sound', NEW c \in Chunk, BeginNothing(c)
    PROVE  Inv'
<1>1. /\ phase = "replace" /\ phase' = "replace" /\ shape' = shape /\ symbols' = symbols
      /\ arr' = arr /\ mutex' = mutex /\ ~Loop(task, c) /\ task' = [task EXCEPT ![c] = [pc |-> "done"]]
  BY DEF BeginNothing, Loop, setting, table
<1>2. ShapeOK /\ Sane(arr) /\ TasksOK(arr, task, mutex)
  BY <1>1, ReplaceState
<1>3. TasksOK(arr, task', mutex)
  BY <1>1, <1>2, BeginNothingKeeps
<1> QED
  BY <1>1, <1>2, <1>3, TaskStep DEF Sane

LEMMA BeginStep ==
    ASSUME Inv, Sound, Sound', NEW c \in Chunk, Begin(c)
    PROVE  Inv'
<1> DEFINE first == FirstIn(arr, c)
           straddled == first.idx # Beg(c) /\ Beg(c) > 0 /\ Used(arr, Beg(c) - 1)
           out == IF straddled THEN Beg(c) + 1 ELSE Beg(c)
           val == GetSymbol(arr, first)
           after == IF skipFirst[c] THEN PutSymbol(arr, out, val) ELSE arr
           itX == IF skipFirst[c] THEN MoveToNext(arr, first) ELSE first
           itY == MoveToNext(after, itX)
           itB == MoveToNext(after, itY)
           fresh == Fresh(after, itX, IF skipFirst[c] THEN PutEnd(out, val) ELSE out,
                          SymbolAt(after, MoveToPrev(after, itX)), EndLock(after, c))
<1>1. /\ phase = "replace" /\ phase' = "replace" /\ shape' = shape /\ symbols' = symbols
      /\ task[c].pc = "todo" /\ ~NoSymbols(c) /\ mutex = NoTask /\ mutex' = c
      /\ arr' = after
  BY DEF Begin, setting, table
<1>2. task' = [task EXCEPT ![c] = fresh]
  BY DEF Begin, Fresh
<1> HIDE DEF fresh, after, itX, itY, itB, val
<1>3. ShapeOK /\ Sane(arr) /\ TasksOK(arr, task, NoTask) /\ ~Loop(task, c)
  BY <1>1, ReplaceState DEF Loop
<1>4. /\ first \in IterType /\ first.idx \in Nat /\ arr.end[c] \in Nat /\ first.idx < arr.end[c]
      /\ Beg(c) <= first.idx /\ Beg(c) \in Nat
  <2>1. first \in IterType /\ Beg(c) <= first.idx
    BY <1>3, FirstFacts
  <2>2. first.idx \in Nat
    BY <2>1 DEF IterType
  <2>3. arr.end[c] \in Nat
    BY <1>3, ArrayType DEF Sane
  <2>4. ~(first.idx >= arr.end[c])
    BY <1>1 DEF NoSymbols
  <2>5. Beg(c) \in Nat
    BY <1>3, Chunks, Begins
  <2> QED
    BY <2>1, <2>2, <2>3, <2>4, <2>5
<1>5. out \in {Beg(c), Beg(c) + 1} /\ out \in Nat /\ (out = Beg(c) \/ first.idx # Beg(c))
  BY <1>4
<1> HIDE DEF out, straddled, first
<1>6. CASE skipFirst[c]
  <2> DEFINE e == PutEnd(out, val)
  <2>1. after = PutSymbol(arr, out, val) /\ itX = MoveToNext(arr, first)
    BY <1>6 DEF after, itX
  <2>2. val = GetSymbol(arr, first) /\ first = FirstIn(arr, c)
    BY DEF val, first
  <2>3. val \in 0 .. Base * Base - 1
    <3>1. first.idx \in Positions(arr) /\ val = SymbolAt(arr, first.idx)
      BY <1>3, <1>4, <2>2, FirstFacts
    <3> QED
      BY <1>3, <3>1, SymbolFacts DEF Sane
  <2>4. after \in SymbolArrays /\ after.end = arr.end
    <3>1. WasPut(arr, out, val, PutSymbol(arr, out, val), PutEnd(out, val))
      BY <1>3, <1>5, <2>3, PutFacts DEF Sane
    <3> QED
      BY <2>1, <3>1 DEF WasPut
  <2>5. arr' \in SymbolArrays /\ Sizes(arr')
    BY <1>1, <1>3, <2>4 DEF Sane, Sizes
  <2>6. ASSUME NEW s2, NEW fi, NEW v, NEW ee, NEW ix, fi = FirstIn(arr, c), v = GetSymbol(arr, fi),
               s2 = PutSymbol(arr, out, v), Sane(s2), ee = PutEnd(out, v), ix = MoveToNext(arr, fi),
               NEW el, el = EndLock(s2, c), NEW a, NEW t2, t2 = Fresh(s2, ix, ee, a, el),
               NEW tk2, tk2 = [task EXCEPT ![c] = t2], fi.idx < arr.end[c],
               out = Beg(c) \/ fi.idx # Beg(c)
        PROVE  TasksOK(s2, tk2, c)
    BY ONLY <1>3, <1>5, <2>6, BeginCopies, c \in Chunk, ZenonT(60)
  <2>7. ASSUME Sane(arr') PROVE TasksOK(arr', task', mutex')
    <3>1. fresh = Fresh(after, itX, e, SymbolAt(after, MoveToPrev(after, itX)), EndLock(after, c))
      BY <1>6 DEF fresh
    <3>2. TasksOK(after, [task EXCEPT ![c] = fresh], c)
      BY <1>1, <1>4, <1>5, <2>1, <2>2, <2>6, <2>7, <3>1 DEF e
    <3> QED
      BY <1>1, <1>2, <3>2
  <2> QED
    BY <1>1, <2>5, <2>7, TaskStep
<1>7. CASE ~skipFirst[c]
  <2>1. after = arr /\ itX = first
    BY <1>7 DEF after, itX
  <2>2. first = FirstIn(arr, c)
    BY DEF first
  <2>3. ASSUME NEW el, el = EndLock(arr, c), NEW a, NEW t2, t2 = Fresh(arr, first, out, a, el),
               NEW tk2, tk2 = [task EXCEPT ![c] = t2]
        PROVE  TasksOK(arr, tk2, c)
    BY ONLY <1>3, <1>4, <1>5, <2>2, <2>3, BeginPlain, c \in Chunk
  <2>4. fresh = Fresh(arr, first, out, SymbolAt(arr, MoveToPrev(arr, first)), EndLock(arr, c))
    BY <1>7, <2>1 DEF fresh
  <2>5. TasksOK(arr, [task EXCEPT ![c] = fresh], c)
    BY <2>3, <2>4
  <2>6. arr' = arr /\ TasksOK(arr', task', mutex')
    BY <1>1, <1>2, <2>1, <2>5
  <2> QED
    BY <1>1, <1>3, <2>6, TaskStep DEF Sane
<1> QED
  BY <1>6, <1>7

(* Every step keeps it, as long as the used ranges are sound.              *)
LEMMA NextKeeps == Inv /\ Sound /\ Sound' /\ [Next]_vars => Inv'
<1> SUFFICES ASSUME Inv, Sound, Sound', [Next]_vars PROVE Inv'
  OBVIOUS
<1>1. ASSUME Compress PROVE Inv'
  BY <1>1, PassKeeps
<1>2. ASSUME NEW c \in Chunk, ChunkTask(c) PROVE Inv'
  BY <1>2, BeginNothingStep, BeginStep, LockStep, ReplaceStep, CopyStep, EndStep DEF ChunkTask
<1>3. ASSUME UNCHANGED vars PROVE Inv'
  <2>1. /\ shape' = shape /\ arr' = arr /\ symbols' = symbols /\ phase' = phase
        /\ task' = task /\ mutex' = mutex
    BY <1>3 DEF vars, setting, table, parallel
  <2>2. arr' \in SymbolArrays /\ Sizes(arr') /\ SymbolsOK(phase', symbols')
    BY <2>1 DEF Inv
  <2>3. phase' = "replace" => TasksOK(arr', task', mutex')
    BY <2>1 DEF Inv
  <2>4. phase' = "replace" => TasksOK(arr, task, mutex)'
    BY <2>1, <2>3, SameTasks
  <2> QED
    BY <2>1, <2>2, <2>4, Primed
<1> QED
  BY <1>1, <1>2, <1>3 DEF Next, Done

(***************************************************************************)
(* The mutex.                                                              *)
(***************************************************************************)
(* What a task may touch next.                                             *)
Touched(c) ==
    CASE WillBegin(c) -> PrologueReads(c) \cup PrologueWrites(c)
      [] WillEnd(c) -> {task[c].out}
      [] OTHER -> IterationReads(c) \cup IterationWrites(c)

LEMMA TouchedFacts ==
    ASSUME NEW c
    PROVE  Reads(c) \subseteq Words(Touched(c)) /\ Writes(c) \subseteq Words(Touched(c))
<1>1. \A I, J : Words(I) \subseteq Words(I \cup J) /\ Words(J) \subseteq Words(I \cup J)
  BY DEF Words
<1>2. CASE WillBegin(c)
  <2>1. /\ Reads(c) = Words(PrologueReads(c)) /\ Writes(c) = Words(PrologueWrites(c))
        /\ Touched(c) = PrologueReads(c) \cup PrologueWrites(c)
    <3>1. ~WillEnd(c)
      BY <1>2 DEF WillBegin, WillEnd
    <3> QED
      BY <1>2, <3>1 DEF Reads, Writes, Touched
  <2> QED
    BY <1>1, <2>1
<1>3. CASE ~WillBegin(c) /\ WillEnd(c)
  BY <1>3 DEF Reads, Writes, Touched
<1>4. CASE ~WillBegin(c) /\ ~WillEnd(c)
  <2>1. /\ Reads(c) = Words(IterationReads(c)) /\ Writes(c) = Words(IterationWrites(c))
        /\ Touched(c) = IterationReads(c) \cup IterationWrites(c)
    BY <1>4 DEF Reads, Writes, Touched
  <2> QED
    BY <1>1, <2>1
<1> QED
  BY <1>2, <1>3, <1>4

(* What an iteration touches, by the places it has read.                   *)
LEMMA IterationFacts ==
    ASSUME ShapeOK, Sane(arr), NEW c \in Chunk, NEW t, t = task[c], TaskType(t), Window(arr, c, t)
    PROVE  \E n, nn \in IterType :
              /\ t.in.idx < n.idx /\ n.idx < nn.idx
              /\ NoneBetween(arr, t.in.idx, n.idx) /\ NoneBetween(arr, n.idx, nn.idx)
              /\ \A i \in IterationReads(c) \cup IterationWrites(c) :
                    i \in Int /\ t.out <= i /\ (i <= t.idxY \/ (t.in.idx <= i /\ i <= nn.idx))
<1>1. /\ t.out \in Nat /\ t.idxX \in Nat /\ t.idxY \in Nat /\ t.idxB \in Nat /\ t.in.idx \in Nat
  BY TaskTypes
<1>2. t.out <= t.idxX /\ t.idxX < t.idxY /\ t.idxY < t.idxB /\ t.idxB < t.in.idx /\ OnSymbol(arr, t.in)
  BY DEF Window
<1> DEFINE n == MoveToNext(arr, t.in)
           nn == MoveToNext(arr, n)
<1>3. t.in \in IterType
  BY DEF TaskType
<1>4. n \in IterType /\ OnSymbol(arr, n) /\ t.in.idx < n.idx /\ NoneBetween(arr, t.in.idx, n.idx)
  BY <1>2, <1>3, NextFacts DEF OnSymbol
<1>5. IterationReads(c) = t.in.idx .. IF AtPair(c) THEN nn.idx ELSE n.idx
  BY DEF IterationReads
<1> HIDE DEF n
<1>6. nn \in IterType /\ n.idx < nn.idx /\ NoneBetween(arr, n.idx, nn.idx)
  BY <1>4, NextFacts DEF OnSymbol
<1> HIDE DEF nn
<1>7. n.idx \in Nat /\ nn.idx \in Nat
  BY <1>4, <1>6 DEF IterType
<1>8. ASSUME NEW i \in IterationReads(c) PROVE i \in Int /\ t.in.idx <= i /\ i <= nn.idx
  BY <1>1, <1>5, <1>6, <1>7, <1>8
<1>9. ASSUME NEW i \in IterationWrites(c) PROVE i \in Int /\ t.out <= i /\ i <= t.idxY
  <2>1. i \in t.out .. t.out + 1 \/ i = t.idxY
    BY <1>1, <1>9 DEF IterationWrites, PutEnd
  <2> QED
    BY <1>1, <1>2, <2>1
<1>10. \A i \in IterationReads(c) \cup IterationWrites(c) :
          i \in Int /\ t.out <= i /\ (i <= t.idxY \/ (t.in.idx <= i /\ i <= nn.idx))
  BY <1>1, <1>2, <1>8, <1>9
<1> QED
  BY <1>4, <1>6, <1>10

(* A task without the mutex stays clear of the first word of its chunk, and *)
(* by more than a word of the last symbol before the next one.              *)
LEMMA MiddleTouched ==
    ASSUME ShapeOK, Sane(arr), TasksOK(arr, task, mutex), NEW c \in Chunk, CanStep(c), mutex # c
    PROVE  \A i \in Touched(c) :
              /\ i \in Int /\ Beg(c) + Word <= i
              /\ c + 1 < NChunks => \E l \in Positions(arr) : i + Word < l /\ l < Top(c)
<1>1. Loop(task, c) /\ task[c].idxX < arr.end[c] /\ ~(task[c].in.idx >= task[c].endLock)
  BY DEF CanStep, InLoop, NeedsMutex, Loop
<1>2. TaskOK(arr, task, mutex, c)
  BY <1>1 DEF TasksOK
<1> DEFINE t == task[c]
<1>3. /\ t = task[c] /\ TaskType(t) /\ Window(arr, c, t) /\ Ahead(arr, c, t, mutex) /\ Middle(c, t, mutex)
      /\ t.idxX < arr.end[c] /\ ~(t.in.idx >= t.endLock) /\ t.pc = "loop"
  BY <1>1, <1>2 DEF TaskOK, Loop
<1> HIDE DEF t
<1>4. /\ t.out \in Nat /\ t.idxX \in Nat /\ t.idxY \in Nat /\ t.idxB \in Nat /\ t.endLock \in Nat
      /\ t.in.idx \in Nat /\ Beg(c) \in Nat /\ Top(c) \in Nat /\ arr.end[c] \in Nat /\ Word \in Nat
  BY <1>3, TaskTypes, WordType
<1>5. Touched(c) = IterationReads(c) \cup IterationWrites(c)
  <2>1. ~WillBegin(c) /\ ~WillEnd(c)
    BY <1>3, <1>4 DEF WillBegin, WillEnd
  <2> QED
    BY <2>1 DEF Touched
<1>6. PICK n, nn \in IterType :
              /\ t.in.idx < n.idx /\ n.idx < nn.idx
              /\ NoneBetween(arr, t.in.idx, n.idx) /\ NoneBetween(arr, n.idx, nn.idx)
              /\ \A i \in IterationReads(c) \cup IterationWrites(c) :
                    i \in Int /\ t.out <= i /\ (i <= t.idxY \/ (t.in.idx <= i /\ i <= nn.idx))
  BY ONLY ShapeOK, Sane(arr), c \in Chunk, <1>3, IterationFacts
<1>7. n.idx \in Nat /\ nn.idx \in Nat
  BY <1>6 DEF IterType
<1>8. t.out >= Beg(c) + Word /\ t.idxY < t.in.idx
  BY <1>3, <1>4 DEF Middle, Window
<1>9. ASSUME c + 1 < NChunks
      PROVE  \E l \in Positions(arr) : l < Top(c) /\ l \in Nat /\ nn.idx + Word < l /\ t.idxY + Word < l
  <2>1. PICK f, l \in Positions(arr) : /\ t.endLock \in Positions(arr)
                                       /\ t.in.idx <= f /\ t.endLock < f /\ f < l /\ l < Top(c)
                                       /\ l < Word \/ f + 1 < l - Word
    BY <1>3, <1>9 DEF Ahead
  <2>2. f \in Nat /\ l \in Nat
    BY <2>1, PositionFacts
  <2>3. n.idx <= t.endLock
    BY <1>3, <1>4, <1>6, <1>7, <2>1 DEF NoneBetween
  <2>4. nn.idx <= f
    BY <1>4, <1>6, <1>7, <2>1, <2>2, <2>3 DEF NoneBetween
  <2>5. t.out < l /\ ~(l < Word)
    BY <1>3, <1>4, <1>8, <2>1, <2>2 DEF Window
  <2> QED
    BY <1>4, <1>6, <1>7, <1>8, <2>1, <2>2, <2>4, <2>5
<1>10. TAKE i \in Touched(c)
<1>11. i \in Int /\ t.out <= i /\ (i <= t.idxY \/ i <= nn.idx)
  BY <1>5, <1>6, <1>10
<1>12. Beg(c) + Word <= i
  BY <1>4, <1>8, <1>11
<1>13. ASSUME c + 1 < NChunks PROVE \E l \in Positions(arr) : i + Word < l /\ l < Top(c)
  <2>1. PICK l \in Positions(arr) : l < Top(c) /\ l \in Nat /\ nn.idx + Word < l /\ t.idxY + Word < l
    BY <1>9, <1>13
  <2>2. i + Word < l
    BY <1>4, <1>7, <1>11, <2>1
  <2> QED
    BY <2>1, <2>2
<1> QED
  BY <1>11, <1>12, <1>13

(* What a task touches at the begin of an earlier chunk than that of one in *)
(* its middle part, or in its loop, is before the second word of the latter.*)
LEMMA HeldBefore ==
    ASSUME ShapeOK, Sane(arr), TasksOK(arr, task, mutex), NEW c \in Chunk, Loop(task, c), mutex # c,
           NEW d \in Chunk, d < c, Loop(task, d), task[d].idxX < arr.end[d]
    PROVE  \A j \in IterationReads(d) \cup IterationWrites(d) : j \in Int /\ j < Beg(c) + Word
<1>1. TaskOK(arr, task, mutex, d)
  BY DEF TasksOK
<1> DEFINE t == task[d]
<1>2. t = task[d] /\ TaskType(t) /\ Window(arr, d, t) /\ t.idxX < arr.end[d]
  BY <1>1 DEF TaskOK
<1> HIDE DEF t
<1>3. /\ t.out \in Nat /\ t.idxX \in Nat /\ t.idxY \in Nat /\ t.idxB \in Nat
      /\ t.in.idx \in Nat /\ Beg(c) \in Nat /\ Top(d) \in Nat /\ Word \in Nat /\ Word >= 12
  <2>1. Beg(c) \in Nat
    BY Chunks, Begins
  <2> QED
    BY <1>2, <2>1, TaskTypes, WordType
<1>4. PICK n, nn \in IterType :
              /\ t.in.idx < n.idx /\ n.idx < nn.idx
              /\ NoneBetween(arr, t.in.idx, n.idx) /\ NoneBetween(arr, n.idx, nn.idx)
              /\ \A i \in IterationReads(d) \cup IterationWrites(d) :
                    i \in Int /\ t.out <= i /\ (i <= t.idxY \/ (t.in.idx <= i /\ i <= nn.idx))
  BY ONLY ShapeOK, Sane(arr), d \in Chunk, <1>2, IterationFacts
<1>5. n.idx \in Nat /\ nn.idx \in Nat
  BY <1>4 DEF IterType
<1>6. \A i, j \in Nat : i <= Beg(c) + 9 /\ NoneBetween(arr, i, j) => j <= i + 2 \/ j <= Beg(c) + 3
  BY ONLY ShapeOK, Sane(arr), TasksOK(arr, task, mutex), c \in Chunk, Loop(task, c), mutex # c, HeadFacts
<1>7. t.idxX < Beg(c)
  <2>1. t.idxX < Top(d)
    BY <1>2, AtSymbol
  <2>2. Top(d) <= Beg(c)
    BY Chunks, Begins
  <2> QED
    BY <1>3, <2>1, <2>2
<1>8. /\ NoneBetween(arr, t.idxX, t.idxY) /\ NoneBetween(arr, t.idxY, t.idxB)
      /\ NoneBetween(arr, t.idxB, t.in.idx)
  BY <1>2 DEF Window
<1>9. t.idxY <= Beg(c) + 3
  BY <1>3, <1>6, <1>7, <1>8
<1>10. t.idxB <= Beg(c) + 5
  BY <1>3, <1>6, <1>8, <1>9
<1>11. t.in.idx <= Beg(c) + 7
  BY <1>3, <1>6, <1>8, <1>10
<1>12. n.idx <= Beg(c) + 9
  BY <1>3, <1>4, <1>5, <1>6, <1>11
<1>13. nn.idx <= Beg(c) + 11
  BY <1>3, <1>4, <1>5, <1>6, <1>12
<1> QED
  BY <1>3, <1>4, <1>5, <1>9, <1>13

(* The same for the task that begins.                                      *)
LEMMA BeginBefore ==
    ASSUME ShapeOK, Sane(arr), TasksOK(arr, task, mutex), NEW c \in Chunk, Loop(task, c), mutex # c,
           NEW d \in Chunk, d < c
    PROVE  \A j \in PrologueReads(d) \cup PrologueWrites(d) : j \in Int /\ j < Beg(c) + Word
<1>1. /\ Beg(c) \in Nat /\ Beg(d) \in Nat /\ Top(d) \in Nat /\ Beg(d) < Top(d) /\ Top(d) <= Beg(c)
      /\ Word \in Nat /\ Word >= 12 /\ d \in Nat /\ Beg(d + 1) = Top(d)
  BY Chunks, Begins, WordType
<1>2. /\ Beg(c) + 2 \in Positions(arr) \/ Beg(c) + 3 \in Positions(arr)
      /\ \A i, j \in Nat : i <= Beg(c) + 9 /\ NoneBetween(arr, i, j) => j <= i + 2 \/ j <= Beg(c) + 3
  BY ONLY ShapeOK, Sane(arr), TasksOK(arr, task, mutex), c \in Chunk, Loop(task, c), mutex # c, HeadFacts
<1> DEFINE first == FirstIn(arr, d)
<1>3. /\ first \in IterType /\ OnSymbol(arr, first) /\ Beg(d) <= first.idx
      /\ \A p \in Positions(arr) : p < first.idx => p < Beg(d)
  BY FirstFacts
<1>4. first.idx \in Nat
  BY <1>3 DEF IterType
<1>5. first.idx <= Beg(c) + 3
  BY <1>1, <1>2, <1>3, <1>4
<1>6. \A j \in PrologueWrites(d) : j \in Int /\ j < Beg(c) + Word
  BY <1>1 DEF PrologueWrites
<1>7. CASE NoSymbols(d)
  <2>1. PrologueReads(d) = Beg(d) .. first.idx
    BY <1>7 DEF PrologueReads
  <2> HIDE DEF first
  <2> QED
    BY <1>1, <1>4, <1>5, <1>6, <2>1
<1>8. CASE ~NoSymbols(d)
  <2> DEFINE itY == MoveToNext(arr, first)
             itB == MoveToNext(arr, itY)
             n == MoveToNext(arr, itB)
             nn == MoveToNext(arr, n)
             prev == MoveToPrev(arr, first)
             scan == IF d + 1 < NChunks THEN Min({EndLock(arr, d), Beg(d + 1)}) .. Beg(d + 1) - 1 ELSE {}
  <2>1. PrologueReads(d) = (Max({prev, 0}) .. nn.idx) \cup scan
    BY <1>8 DEF PrologueReads
  <2>2. first.idx < Top(d)
    <3>1. arr.end[d] \in Nat /\ ~(first.idx >= arr.end[d])
      BY <1>8, ArrayType DEF NoSymbols, Sane
    <3>2. first.idx < arr.end[d]
      BY <1>4, <3>1
    <3> HIDE DEF first
    <3> QED
      BY <3>2, FirstFacts DEF first
  <2>3. itY \in IterType /\ OnSymbol(arr, itY) /\ NoneBetween(arr, first.idx, itY.idx)
    BY <1>3, NextFacts DEF OnSymbol
  <2> HIDE DEF first, itY
  <2>4. itB \in IterType /\ OnSymbol(arr, itB) /\ NoneBetween(arr, itY.idx, itB.idx)
    BY <2>3, NextFacts DEF OnSymbol
  <2> HIDE DEF itB
  <2>5. n \in IterType /\ OnSymbol(arr, n) /\ NoneBetween(arr, itB.idx, n.idx)
    BY <2>4, NextFacts DEF OnSymbol
  <2> HIDE DEF n
  <2>6. nn \in IterType /\ NoneBetween(arr, n.idx, nn.idx)
    BY <2>5, NextFacts DEF OnSymbol
  <2> HIDE DEF nn
  <2>7. itY.idx \in Nat /\ itB.idx \in Nat /\ n.idx \in Nat /\ nn.idx \in Nat
    BY <2>3, <2>4, <2>5, <2>6 DEF IterType
  <2>8. itY.idx <= Beg(c) + 3
    BY <1>1, <1>2, <1>4, <2>2, <2>3, <2>7
  <2>9. itB.idx <= Beg(c) + 5
    BY <1>1, <1>2, <2>4, <2>7, <2>8
  <2>10. n.idx <= Beg(c) + 7
    BY <1>1, <1>2, <2>5, <2>7, <2>9
  <2>11. nn.idx <= Beg(c) + 9
    BY <1>1, <1>2, <2>6, <2>7, <2>10
  <2>12. \A j \in Max({prev, 0}) .. nn.idx : j \in Int /\ j < Beg(c) + Word
    BY <1>1, <2>7, <2>11
  <2>13. \A j \in scan : j \in Int /\ j < Beg(c) + Word
    BY <1>1
  <2> HIDE DEF scan
  <2> QED
    BY <1>6, <2>1, <2>12, <2>13
<1> QED
  BY <1>7, <1>8

(* What a task reads in its prologue is not before the last symbol in front *)
(* of its chunk.                                                            *)
LEMMA BeginAfter ==
    ASSUME ShapeOK, Sane(arr), NEW d \in Chunk, NEW l \in Positions(arr), l < Beg(d)
    PROVE  \A j \in PrologueReads(d) \cup PrologueWrites(d) : j \in Int /\ l <= j
<1>1. /\ Beg(d) \in Nat /\ Top(d) \in Nat /\ Beg(d) < Top(d) /\ d \in Nat /\ l \in Nat /\ Beg(d + 1) = Top(d)
  BY Chunks, Begins, PositionFacts
<1> DEFINE first == FirstIn(arr, d)
<1>2. /\ first \in IterType /\ OnSymbol(arr, first) /\ Beg(d) <= first.idx
  BY FirstFacts
<1>3. first.idx \in Nat
  BY <1>2 DEF IterType
<1>4. \A j \in PrologueWrites(d) : j \in Int /\ l <= j
  BY <1>1 DEF PrologueWrites
<1>5. CASE NoSymbols(d)
  <2>1. PrologueReads(d) = Beg(d) .. first.idx
    BY <1>5 DEF PrologueReads
  <2> HIDE DEF first
  <2> QED
    BY <1>1, <1>3, <1>4, <2>1
<1>6. CASE ~NoSymbols(d)
  <2> DEFINE prev == MoveToPrev(arr, first)
             low == Max({prev, 0})
             top == MoveToNext(arr, MoveToNext(arr, MoveToNext(arr, MoveToNext(arr, first)))).idx
             scan == IF d + 1 < NChunks THEN Min({EndLock(arr, d), Beg(d + 1)}) .. Beg(d + 1) - 1 ELSE {}
  <2>1. PrologueReads(d) = (low .. top) \cup scan
    BY <1>6 DEF PrologueReads
  <2>2. first.idx < Top(d) /\ first.idx \in Positions(arr)
    <3>1. arr.end[d] \in Nat /\ ~(first.idx >= arr.end[d])
      BY <1>6, ArrayType DEF NoSymbols, Sane
    <3>2. first.idx < arr.end[d]
      BY <1>3, <3>1
    <3> HIDE DEF first
    <3> QED
      BY <3>2, FirstFacts DEF first
  <2> HIDE DEF first
  <2>3. first.chunk = d
    <3>1. ~Beyond(arr, first)
      BY <1>3, <2>2 DEF Beyond, Past
    <3>2. first.chunk = ChunkIdx(first.idx)
      BY <1>2, <3>1 DEF OnSymbol, Inside
    <3> QED
      BY <1>1, <1>2, <1>3, <2>2, <3>2, ChunkOf
  <2>4. prev \in Nat /\ l <= prev
    <3> DEFINE here == {i \in Beg(first.chunk) .. first.idx - 1 : arr.used[i]}
               earlier == {i \in Positions(arr) : ChunkIdx(i) < first.chunk}
    <3>1. prev = CASE here # {} -> Max(here)
                   [] here = {} /\ earlier # {} -> Max(earlier)
                   [] OTHER -> -1
      BY DEF MoveToPrev
    <3> HIDE DEF prev
    <3>2. CASE here # {}
      <4>1. here \in SUBSET Nat /\ \A i \in here : i <= first.idx
        BY <1>1, <1>3, <2>3
      <4>2. Max(here) \in here
        BY <1>3, <3>2, <4>1, MaxFact
      <4>3. prev = Max(here)
        BY <3>1, <3>2
      <4> HIDE DEF here
      <4>4. prev \in here
        BY <4>2, <4>3
      <4> QED
        BY <1>1, <2>3, <4>4 DEF here
    <3>3. CASE here = {}
      <4>1. l \in earlier
        <5>1. ChunkIdx(l) \in Nat /\ Beg(ChunkIdx(l)) <= l
          BY <1>1, ChunkOf
        <5>2. ChunkIdx(l) < d
          <6>1. SUFFICES ASSUME ChunkIdx(l) >= d PROVE FALSE
            BY <1>1, <5>1
          <6>2. ChunkIdx(l) = d \/ Beg(d) < Beg(ChunkIdx(l))
            <7>1. d < ChunkIdx(l) => Beg(d) < Beg(ChunkIdx(l))
              BY <1>1, <5>1, Begins
            <7>2. ChunkIdx(l) = d \/ d < ChunkIdx(l)
              BY <1>1, <5>1, <6>1
            <7> QED
              BY <7>1, <7>2
          <6>3. Beg(ChunkIdx(l)) \in Nat
            BY <5>1, Begins
          <6> QED
            BY <1>1, <5>1, <6>2, <6>3
        <5> QED
          BY <1>1, <2>3, <5>1, <5>2
      <4>2. earlier \in SUBSET Nat /\ \A i \in earlier : i <= Size
        BY PositionFacts, Numbers
      <4>3. prev = Max(earlier)
        BY <3>1, <3>3, <4>1
      <4>4. Size \in Nat
        BY Numbers
      <4> HIDE DEF earlier
      <4>5. Max(earlier) \in earlier /\ l <= Max(earlier)
        BY <4>1, <4>2, <4>4, MaxFact
      <4> QED
        BY <4>2, <4>3, <4>5
    <3> QED
      BY <3>2, <3>3
  <2>5. low \in Nat /\ l <= low
    <3>1. low = IF prev >= 0 THEN prev ELSE 0
      BY <2>4, MaxOfTwo
    <3> QED
      BY <2>4, <3>1
  <2> HIDE DEF low, top, prev
  <2>6. \A j \in low .. top : j \in Int /\ l <= j
    BY <1>1, <2>5
  <2>7. \A j \in scan : j \in Int /\ l <= j
    <3> DEFINE el == EndLock(arr, d)
               start == Min({el, Beg(d + 1)})
    <3>1. el \in Nat /\ Beg(d) <= el
      BY EndLockFacts
    <3> HIDE DEF el
    <3>2. start = IF el <= Beg(d + 1) THEN el ELSE Beg(d + 1)
      BY <1>1, <3>1, MinOfTwo
    <3>3. start \in Nat /\ l <= start
      BY <1>1, <3>1, <3>2
    <3>4. scan \subseteq start .. Beg(d + 1) - 1
      BY DEF el
    <3> HIDE DEF start, scan
    <3> QED
      BY <1>1, <3>3, <3>4
  <2> HIDE DEF scan
  <2> QED
    BY <1>4, <2>1, <2>6, <2>7
<1> QED
  BY <1>5, <1>6

(* Places that are a word apart, or on both sides of a multiple of the word *)
(* size, are in different words.                                            *)
LEMMA WordsApart ==
    ASSUME ShapeOK, Word < Size, NEW c \in Chunk, NEW i \in Nat, NEW j \in Nat,
           \/ j < Beg(c) + Word /\ Beg(c) + Word <= i
           \/ i + Word <= j
    PROVE  i \div Word # j \div Word
<1>1. Word \in Nat \ {0} /\ c \in Nat
  BY WordType, Chunks
<1>2. PICK k \in Nat : Beg(c) = k * Word
  BY <1>1, Aligned
<1>3. k + 1 \in Nat /\ (k + 1) * Word = Beg(c) + Word
  BY <1>1, <1>2
<1>4. i \div Word \in Nat /\ j \div Word \in Nat
  BY <1>1, Quotient
<1>5. CASE j < Beg(c) + Word /\ Beg(c) + Word <= i
  <2>1. j < (k + 1) * Word /\ (k + 1) * Word <= i
    BY <1>3, <1>5
  <2>2. j \div Word < i \div Word
    BY <1>1, <1>3, <2>1, QuotientOrder
  <2> QED
    BY <1>4, <2>2
<1>6. CASE i + Word <= j
  <2>1. i \div Word < j \div Word
    BY <1>1, <1>6, QuotientOrder
  <2> QED
    BY <1>4, <2>1
<1> QED
  BY <1>5, <1>6

(* What a task at work touches, seen from the middle part of a later chunk. *)
LEMMA TouchedBefore ==
    ASSUME ShapeOK, Sane(arr), TasksOK(arr, task, mutex), NEW c \in Chunk, NEW d \in Chunk, d < c,
           Loop(task, c), mutex # c, CanStep(d) \/ WillBegin(d) \/ WillEnd(d)
    PROVE  \A j \in Touched(d) : j \in Int /\ j < Beg(c) + Word
<1>1. /\ Beg(c) \in Nat /\ Beg(d) \in Nat /\ Top(d) \in Nat /\ Top(d) <= Beg(c) /\ Word \in Nat /\ Word >= 12
  BY Chunks, Begins, WordType
<1>2. CASE WillBegin(d)
  <2>1. Touched(d) = PrologueReads(d) \cup PrologueWrites(d)
    <3>1. ~WillEnd(d)
      BY <1>2 DEF WillBegin, WillEnd
    <3> QED
      BY <1>2, <3>1 DEF Touched
  <2> QED
    BY <2>1, BeginBefore
<1>3. CASE WillEnd(d)
  <2>1. Touched(d) = {task[d].out} /\ Loop(task, d)
    BY <1>3 DEF WillBegin, WillEnd, Touched, Loop
  <2>2. TaskType(task[d]) /\ Window(arr, d, task[d])
    BY <2>1 DEF TasksOK, TaskOK
  <2>3. task[d].out \in Nat
    BY <2>2, TaskTypes
  <2>4. task[d].out <= Top(d) + 1
    BY <2>2 DEF Window
  <2> QED
    BY <1>1, <2>1, <2>3, <2>4
<1>4. CASE CanStep(d) /\ ~WillBegin(d) /\ ~WillEnd(d)
  <2>1. Touched(d) = IterationReads(d) \cup IterationWrites(d)
    BY <1>4 DEF Touched
  <2>2. Loop(task, d) /\ task[d].idxX < arr.end[d]
    BY <1>4 DEF CanStep, InLoop, Loop
  <2>3. \A j \in IterationReads(d) \cup IterationWrites(d) : j \in Int /\ j < Beg(c) + Word
    BY <2>2, HeldBefore
  <2> QED
    BY <2>1, <2>3
<1> QED
  BY <1>2, <1>3, <1>4

(* The same, seen from an earlier chunk.                                   *)
LEMMA TouchedAfter ==
    ASSUME ShapeOK, Sane(arr), TasksOK(arr, task, mutex), NEW d \in Chunk,
           CanStep(d) \/ WillBegin(d) \/ WillEnd(d), NEW l \in Positions(arr), l < Beg(d)
    PROVE  \A j \in Touched(d) : j \in Int /\ l <= j
<1>1. Beg(d) \in Nat /\ l \in Nat
  BY Chunks, Begins, PositionFacts
<1>2. CASE WillBegin(d)
  <2>1. Touched(d) = PrologueReads(d) \cup PrologueWrites(d)
    <3>1. ~WillEnd(d)
      BY <1>2 DEF WillBegin, WillEnd
    <3> QED
      BY <1>2, <3>1 DEF Touched
  <2> QED
    BY <2>1, BeginAfter
<1>3. CASE ~WillBegin(d)
  <2>1. Loop(task, d)
    BY <1>3 DEF CanStep, InLoop, WillEnd, Loop
  <2> DEFINE t == task[d]
  <2>2. t = task[d] /\ TaskType(t) /\ Window(arr, d, t)
    BY <2>1 DEF TasksOK, TaskOK
  <2>3. t.out \in Nat /\ Beg(d) <= t.out
    <3>1. t.out \in Nat
      BY <2>2, TaskTypes
    <3> QED
      BY <2>2, <3>1 DEF Window
  <2> HIDE DEF t
  <2>4. \A j \in IterationReads(d) \cup IterationWrites(d) : j \in Int /\ t.out <= j
    BY <2>2, IterationFacts
  <2>5. Touched(d) = {t.out} \/ Touched(d) = IterationReads(d) \cup IterationWrites(d)
    BY <1>3, <2>2 DEF Touched
  <2> QED
    BY <1>1, <2>3, <2>4, <2>5
<1> QED
  BY <1>2, <1>3

(* A task without the mutex and any other one touch different words.       *)
LEMMA Disjoint ==
    ASSUME ShapeOK, Sane(arr), TasksOK(arr, task, mutex), NEW c \in Chunk, NEW d \in Chunk, c # d,
           CanStep(c), mutex # c, CanStep(d) \/ WillBegin(d) \/ WillEnd(d)
    PROVE  Words(Touched(c)) \cap Words(Touched(d)) = {}
<1>1. /\ Beg(c) \in Nat /\ Top(c) \in Nat /\ Beg(d) \in Nat /\ Top(d) \in Nat /\ c \in Nat /\ d \in Nat
      /\ c < NChunks /\ d < NChunks /\ NChunks \in Nat /\ Word \in Nat /\ Word >= 12 /\ BitCount \in Nat
  BY Chunks, Begins, WordType, Bits
<1>2. Loop(task, c)
  BY DEF CanStep, InLoop, Loop
<1>3. Word < Size
  BY ONLY ShapeOK, Sane(arr), TasksOK(arr, task, mutex), c \in Chunk, <1>2, mutex # c, MiddleFacts
<1>4. \A i \in Touched(c) :
              /\ i \in Int /\ Beg(c) + Word <= i
              /\ c + 1 < NChunks => \E l \in Positions(arr) : i + Word < l /\ l < Top(c)
  BY MiddleTouched
<1>5. \A i \in Touched(c), j \in Touched(d) :
          j \in Int /\ ((j < Beg(c) + Word /\ Beg(c) + Word <= i) \/ i + Word <= j)
  <2>1. CASE d < c
    <3>1. \A j \in Touched(d) : j \in Int /\ j < Beg(c) + Word
      BY <1>2, <2>1, TouchedBefore
    <3> QED
      BY <1>4, <3>1
  <2>2. CASE c < d
    <3> SUFFICES ASSUME NEW i \in Touched(c), NEW j \in Touched(d) PROVE j \in Int /\ i + Word <= j
      OBVIOUS
    <3>1. c + 1 < NChunks /\ Top(c) <= Beg(d)
      BY <1>1, <2>2, Begins
    <3>2. PICK l \in Positions(arr) : i + Word < l /\ l < Top(c)
      BY <1>4, <3>1
    <3>3. l \in Nat /\ i \in Int
      BY <1>4, PositionFacts
    <3>4. l < Beg(d)
      BY <1>1, <3>1, <3>2, <3>3
    <3>5. j \in Int /\ l <= j
      BY <3>4, TouchedAfter
    <3> QED
      BY <1>1, <3>2, <3>3, <3>5
  <2> QED
    BY <1>1, <2>1, <2>2
<1>6. SUFFICES ASSUME NEW i \in Touched(c) \cap (0 .. BitCount - 1), NEW j \in Touched(d) \cap (0 .. BitCount - 1)
               PROVE  i \div Word # j \div Word
  BY DEF Words
<1>7. i \in Nat /\ j \in Nat
  BY <1>1
<1>8. (j < Beg(c) + Word /\ Beg(c) + Word <= i) \/ i + Word <= j
  BY <1>5
<1> QED
  BY <1>3, <1>7, <1>8, WordsApart

(* NoRace and EndsWithMutex, in every state of the invariant.              *)
LEMMA InvSafe == Inv /\ Sound => MutexDiscipline
<1> SUFFICES ASSUME Inv, Sound PROVE MutexDiscipline
  OBVIOUS
<1>1. SUFFICES ASSUME phase = "replace" PROVE MutexDiscipline
  BY DEF MutexDiscipline, NoRace, EndsWithMutex
<1>2. ShapeOK /\ Sane(arr) /\ TasksOK(arr, task, mutex)
  BY <1>1, ReplaceState
<1>3. NoRace
  <2>1. SUFFICES ASSUME NEW c \in Chunk, NEW d \in Chunk, c # d, CanStep(c), mutex # c,
                        CanStep(d) \/ WillBegin(d) \/ WillEnd(d)
                 PROVE  Writes(c) \cap (Reads(d) \cup Writes(d)) = {} /\ Reads(c) \cap Writes(d) = {}
    BY DEF NoRace
  <2>2. Words(Touched(c)) \cap Words(Touched(d)) = {}
    BY <1>2, <2>1, Disjoint
  <2>3. /\ Reads(c) \subseteq Words(Touched(c)) /\ Writes(c) \subseteq Words(Touched(c))
        /\ Reads(d) \subseteq Words(Touched(d)) /\ Writes(d) \subseteq Words(Touched(d))
    BY TouchedFacts
  <2> QED
    BY <2>2, <2>3
<1>4. EndsWithMutex
  <2>1. SUFFICES ASSUME NEW c \in Chunk, WillEnd(c), mutex # c PROVE FALSE
    BY DEF EndsWithMutex
  <2>2. Loop(task, c) /\ task[c].idxX >= arr.end[c]
    BY <2>1 DEF WillEnd, Loop
  <2>3. TaskType(task[c])
    BY <1>2, <2>2 DEF TasksOK, TaskOK
  <2>4. task[c].idxX \in Nat /\ arr.end[c] \in Nat
    BY <1>2, <2>3, TaskTypes
  <2>5. task[c].idxX < arr.end[c]
    BY <1>2, <2>1, <2>2, MiddleFacts
  <2> QED
    BY <2>2, <2>4, <2>5
<1> QED
  BY <1>3, <1>4 DEF MutexDiscipline

(***************************************************************************)
(* What compress keeps.                                                    *)
(***************************************************************************)
(* The lists of symbols and of positions.                                  *)
IsList(q) == \E S : q \in Seq(S)
CandOK(c) ==
    c = [freq |-> c.freq, depth |-> c.depth, indices |-> c.indices] /\ c.freq \in Int /\ IsList(c.indices)
CandsOK(cs) == IsFiniteSet(DOMAIN cs) /\ \A p \in DOMAIN cs : CandOK(cs[p])
DeltaOK(d) ==
    /\ d = [AZ |-> d.AZ, ZB |-> d.ZB, AX |-> d.AX, YB |-> d.YB,
            vecAZ |-> d.vecAZ, vecZB |-> d.vecZB, nRepl |-> d.nRepl]
    /\ {d.AZ, d.ZB, d.AX, d.YB} \subseteq [SymId -> Int] /\ d.nRepl \in Int
    /\ d.vecAZ = [s \in SymId |-> d.vecAZ[s]] /\ d.vecZB = [s \in SymId |-> d.vecZB[s]]
    /\ \A s \in SymId : IsList(d.vecAZ[s]) /\ IsList(d.vecZB[s])
Refilling == {"refill", "fill", "start"}
Replacing == {"visit", "replace", "update"}
(* Every candidate is a pair of symbols that were there before the pass.    *)
Pairs(n) == (0 .. n - 1) \X (0 .. n - 1)
Known == IF phase \in Replacing THEN Z ELSE Len(symbols)
Types ==
    /\ CandsOK(cands) /\ DOMAIN cands \subseteq Pairs(Known) /\ DeltaOK(delta)
    /\ IsList(toVisit) /\ IsList(symbols) /\ comprSize \in Int
    /\ phase = "init" => symbols = <<>> /\ arr \in SymbolArrays
    /\ phase \in Refilling => cur \in DOMAIN cands /\ Len(symbols) < MaxSyms
    /\ phase \in Replacing => cur \in DOMAIN cands /\ Len(symbols) \in 1 .. MaxSyms

LEMMA EmptyList == IsList(<<>>)
<1>1. <<>> \in Seq({})
  OBVIOUS
<1> QED
  BY <1>1 DEF IsList

LEMMA LongerList == ASSUME NEW q, IsList(q), NEW e PROVE IsList(Append(q, e))
<1>1. PICK S : q \in Seq(S)
  BY DEF IsList
<1>2. Append(q, e) \in Seq(S \cup {e})
  BY <1>1, Longer
<1> QED
  BY <1>2 DEF IsList

LEMMA RestOfList ==
    ASSUME NEW q, IsList(q), q # <<>>
    PROVE  IsList(Tail(q)) /\ Len(q) \in Nat \ {0} /\ Len(Tail(q)) = Len(q) - 1
<1>1. PICK S : q \in Seq(S)
  BY DEF IsList
<1>2. Tail(q) \in Seq(S) /\ Len(q) \in Nat \ {0} /\ Len(Tail(q)) = Len(q) - 1
  BY <1>1
<1> QED
  BY <1>2 DEF IsList

LEMMA AscendingList ==
    ASSUME NEW V, IsFiniteSet(V) PROVE IsList(Ascending(V)) /\ Len(Ascending(V)) \in Nat
<1> DEFINE n == Cardinality(V)
           q == Ascending(V)
           S == {q[k] : k \in 1 .. n}
<1>1. n \in Nat
  BY FS_CardinalityType
<1>2. q = [k \in 1 .. n |-> CHOOSE i \in V : Cardinality({j \in V : j < i}) = k - 1]
  BY DEF Ascending
<1> HIDE DEF n, q
<1>3. q \in [1 .. n -> S]
  BY <1>2
<1>4. q \in Seq(S)
  BY <1>1, <1>3, AFunction
<1> QED
  BY <1>4 DEF IsList, q

LEMMA NoDeltaOK == DeltaOK(NoDelta)
  BY EmptyList DEF DeltaOK, NoDelta

LEMMA CountedOK ==
    ASSUME NEW d, DeltaOK(d), NEW f \in [SymId -> Int]
    PROVE  /\ DeltaOK([d EXCEPT !.AZ = f]) /\ DeltaOK([d EXCEPT !.ZB = f])
           /\ DeltaOK([d EXCEPT !.AX = f]) /\ DeltaOK([d EXCEPT !.YB = f])
<1>1. DeltaOK([d EXCEPT !.AZ = f])
  BY DEF DeltaOK
<1>2. DeltaOK([d EXCEPT !.ZB = f])
  BY DEF DeltaOK
<1>3. DeltaOK([d EXCEPT !.AX = f])
  BY DEF DeltaOK
<1>4. DeltaOK([d EXCEPT !.YB = f])
  BY DEF DeltaOK
<1> QED
  BY <1>1, <1>2, <1>3, <1>4

LEMMA CountReplacedOK == ASSUME NEW d, DeltaOK(d), NEW a, NEW b PROVE DeltaOK(CountReplaced(d, a, b))
<1> DEFINE before == IF a = -1 THEN d ELSE [d EXCEPT !.AZ[a] = @ + 1, !.AX[a] = @ - 1]
           both == IF b = -1 THEN before ELSE [before EXCEPT !.ZB[b] = @ + 1, !.YB[b] = @ - 1]
<1>1. ASSUME NEW e, DeltaOK(e), NEW s
      PROVE  /\ DeltaOK([e EXCEPT !.AZ[s] = @ + 1, !.AX[s] = @ - 1])
             /\ DeltaOK([e EXCEPT !.ZB[s] = @ + 1, !.YB[s] = @ - 1])
             /\ DeltaOK([e EXCEPT !.nRepl = @ + 1])
  <2>1. {e.AZ, e.ZB, e.AX, e.YB} \subseteq [SymId -> Int] /\ e.nRepl \in Int
    BY <1>1 DEF DeltaOK
  <2>2. ASSUME NEW f \in [SymId -> Int]
        PROVE  [f EXCEPT ![s] = @ + 1] \in [SymId -> Int] /\ [f EXCEPT ![s] = @ - 1] \in [SymId -> Int]
    <3>1. ASSUME s \notin SymId PROVE [f EXCEPT ![s] = @ + 1] = f /\ [f EXCEPT ![s] = @ - 1] = f
      BY <3>1
    <3>2. ASSUME s \in SymId
          PROVE  [f EXCEPT ![s] = @ + 1] \in [SymId -> Int] /\ [f EXCEPT ![s] = @ - 1] \in [SymId -> Int]
      BY <3>2
    <3> QED
      BY <3>1, <3>2
  <2> DEFINE az == [e.AZ EXCEPT ![s] = @ + 1]
             ax == [e.AX EXCEPT ![s] = @ - 1]
             zb == [e.ZB EXCEPT ![s] = @ + 1]
             yb == [e.YB EXCEPT ![s] = @ - 1]
  <2>3. {az, ax, zb, yb} \subseteq [SymId -> Int]
    BY <2>1, <2>2
  <2> HIDE DEF az, ax, zb, yb
  <2>4. DeltaOK([e EXCEPT !.AZ = az, !.AX = ax]) /\ DeltaOK([e EXCEPT !.ZB = zb, !.YB = yb])
    <3> DEFINE q == [e EXCEPT !.AZ = az]
               r == [e EXCEPT !.ZB = zb]
    <3>1. DeltaOK(q) /\ DeltaOK(r)
      BY <1>1, <2>3, CountedOK
    <3>2. /\ [e EXCEPT !.AZ = az, !.AX = ax] = [q EXCEPT !.AX = ax]
          /\ [e EXCEPT !.ZB = zb, !.YB = yb] = [r EXCEPT !.YB = yb]
      OBVIOUS
    <3> HIDE DEF q, r
    <3>3. DeltaOK([q EXCEPT !.AX = ax]) /\ DeltaOK([r EXCEPT !.YB = yb])
      BY <2>3, <3>1, CountedOK
    <3> QED
      BY <3>2, <3>3
  <2>5. DeltaOK([e EXCEPT !.nRepl = @ + 1])
    BY <1>1, <2>1 DEF DeltaOK
  <2> QED
    BY <2>4, <2>5 DEF az, ax, zb, yb
<1>2. DeltaOK(before)
  BY <1>1
<1> HIDE DEF before
<1>3. DeltaOK(both)
  BY <1>1, <1>2
<1> HIDE DEF both
<1>4. DeltaOK([both EXCEPT !.nRepl = @ + 1])
  BY <1>1, <1>3
<1> QED
  BY <1>4 DEF CountReplaced, both, before

LEMMA VecOK ==
    ASSUME NEW d, DeltaOK(d), NEW a, NEW i
    PROVE  /\ DeltaOK([d EXCEPT !.vecAZ[a] = Append(@, i)])
           /\ DeltaOK([d EXCEPT !.vecZB[a] = Append(@, i)])
<1> DEFINE az == [d.vecAZ EXCEPT ![a] = Append(@, i)]
           zb == [d.vecZB EXCEPT ![a] = Append(@, i)]
<1>1. /\ az = [s \in SymId |-> az[s]] /\ \A s \in SymId : IsList(az[s])
      /\ zb = [s \in SymId |-> zb[s]] /\ \A s \in SymId : IsList(zb[s])
  BY LongerList DEF DeltaOK
<1> HIDE DEF az, zb
<1>2. DeltaOK([d EXCEPT !.vecAZ = az]) /\ DeltaOK([d EXCEPT !.vecZB = zb])
  BY <1>1 DEF DeltaOK
<1> QED
  BY <1>2 DEF az, zb

(* Fewer candidates, without their positions or with other frequencies.    *)
LEMMA FewerCandsOK == ASSUME NEW cs, CandsOK(cs), NEW D, D \subseteq DOMAIN cs PROVE CandsOK(Restrict(cs, D))
<1>1. DOMAIN Restrict(cs, D) = D /\ \A p \in D : Restrict(cs, D)[p] = cs[p]
  BY DEF Restrict
<1>2. IsFiniteSet(D)
  BY FS_Subset DEF CandsOK
<1> QED
  BY <1>1, <1>2 DEF CandsOK

LEMMA PrunedOK ==
    ASSUME NEW cs, CandsOK(cs), NEW P
    PROVE  CandsOK(Pruned(cs, P)) /\ DOMAIN Pruned(cs, P) = DOMAIN cs
<1>1. /\ DOMAIN Pruned(cs, P) = DOMAIN cs
      /\ \A p \in DOMAIN cs : Pruned(cs, P)[p] = IF p \in P THEN [cs[p] EXCEPT !.indices = <<>>] ELSE cs[p]
  BY DEF Pruned
<1>2. \A c : CandOK(c) => CandOK([c EXCEPT !.indices = <<>>])
  BY EmptyList DEF CandOK
<1> QED
  BY <1>1, <1>2 DEF CandsOK

LEMMA LoweredOK ==
    ASSUME NEW cs, CandsOK(cs), DOMAIN cs \subseteq SymId \X SymId, DeltaOK(delta)
    PROVE  CandsOK(Lowered(cs)) /\ DOMAIN Lowered(cs) = DOMAIN cs
<1>1. /\ DOMAIN Lowered(cs) = DOMAIN cs
      /\ \A p \in DOMAIN cs : Lowered(cs)[p] = [cs[p] EXCEPT !.freq = @ + DeltaOf(p)]
  BY DEF Lowered
<1>2. \A c : \A f \in Int : CandOK(c) => CandOK([c EXCEPT !.freq = f])
  BY DEF CandOK
<1>3. ASSUME NEW p \in DOMAIN cs PROVE CandOK(Lowered(cs)[p])
  <2>1. p[1] \in SymId /\ p[2] \in SymId
    OBVIOUS
  <2>2. delta.AX[p[1]] \in Int /\ delta.YB[p[2]] \in Int
    BY <2>1 DEF DeltaOK
  <2>3. DeltaOf(p) \in Int
    BY <2>2 DEF DeltaOf
  <2>4. CandOK(cs[p]) /\ cs[p].freq + DeltaOf(p) \in Int
    BY <2>3 DEF CandsOK, CandOK
  <2> QED
    BY <1>1, <1>2, <2>4
<1> QED
  BY <1>1, <1>3 DEF CandsOK

LEMMA NewCandsOK ==
    ASSUME DeltaOK(delta), MaxSyms \in Nat, Len(symbols) \in 1 .. MaxSyms
    PROVE  CandsOK(NewCands) /\ DOMAIN NewCands \subseteq ((0 .. Z) \X {Z}) \cup ({Z} \X (0 .. Z))
<1>1. DOMAIN NewFreq = ((0 .. Z) \X {Z}) \cup ({Z} \X (0 .. Z))
  BY DEF NewFreq
<1>2. Z \in Int /\ 0 .. Z \subseteq SymId
  BY DEF Z, SymId
<1>3. IsFiniteSet(DOMAIN NewFreq)
  <2>1. IsFiniteSet(0 .. Z)
    BY <1>2, FS_Interval
  <2>2. IsFiniteSet({Z})
    BY FS_Singleton
  <2>3. IsFiniteSet((0 .. Z) \X {Z}) /\ IsFiniteSet({Z} \X (0 .. Z))
    BY <2>1, <2>2, FS_Product
  <2>4. IsFiniteSet(((0 .. Z) \X {Z}) \cup ({Z} \X (0 .. Z)))
    BY <2>3, FS_Union
  <2> QED
    BY <1>1, <2>4
<1> DEFINE D == {q \in DOMAIN NewFreq : NewFreq[q] >= MinFreq}
<1>4. IsFiniteSet(D)
  BY <1>3, FS_Subset
<1>5. DOMAIN NewCands = D
  BY DEF NewCands
<1>6. ASSUME NEW p \in D PROVE CandOK(NewCands[p])
  <2>1. IsList(NewIndices(p))
    <3>1. CASE p \in (0 .. Z) \X {Z}
      BY <1>2, <3>1 DEF NewIndices, DeltaOK
    <3>2. CASE p \in {Z} \X (0 .. Z)
      BY <1>2, <3>2 DEF NewIndices, DeltaOK
    <3> QED
      BY <1>1, <3>1, <3>2
  <2>2. NewCands[p] = [freq |-> NewFreq[p], depth |-> PairDepth(p[1], p[2]), indices |-> NewIndices(p)]
    BY DEF NewCands
  <2>3. NewFreq[p] \in Int
    <3> DEFINE d == [delta.AZ EXCEPT ![Z] = @ + delta.ZB[Z]]
    <3>1. delta.AZ \in [SymId -> Int] /\ delta.ZB \in [SymId -> Int] /\ Z \in SymId
      BY <1>2 DEF DeltaOK, Z, SymId
    <3>2. d \in [SymId -> Int]
      BY <3>1
    <3> HIDE DEF d
    <3>3. p[1] \in SymId /\ p[2] \in SymId
      BY <1>1, <1>2, <3>1
    <3>4. NewFreq[p] = IF p[2] = Z THEN d[p[1]] ELSE delta.ZB[p[2]]
      BY <1>1 DEF NewFreq, d
    <3> QED
      BY <3>1, <3>2, <3>3, <3>4
  <2> QED
    BY <2>1, <2>2, <2>3 DEF CandOK
<1> QED
  BY <1>1, <1>4, <1>5, <1>6 DEF CandsOK

(* The bytes of the array are finitely many.                               *)
LEMMA FiniteBytes ==
    ASSUME ShapeOK, arr \in SymbolArrays PROVE IsFiniteSet({SymbolAt(arr, i) : i \in Index})
<1>1. Base \in Nat \ {0} /\ Byte = 0 .. Base - 1 /\ Base * Base \in Nat /\ Index \subseteq Nat
  BY WordType, Numbers DEF Byte
<1>2. \A i \in Index : arr.data[i] \in Byte
  BY DEF SymbolArrays
<1>3. \A i \in Index : DataAt(arr, i + 1) \in Byte
  BY <1>1, Numbers DEF SymbolArrays, DataAt, Index
<1>4. ASSUME NEW i \in Index PROVE SymbolAt(arr, i) \in -1 .. Base * Base
  <2>1. \/ SymbolAt(arr, i) = arr.data[i] + 0
        \/ SymbolAt(arr, i) = arr.data[i] + Base * DataAt(arr, i + 1)
        \/ SymbolAt(arr, i) = -1
    BY DEF SymbolAt, GetSymbol, Iter
  <2>2. ASSUME NEW a \in Byte, NEW b \in Byte PROVE a + Base * b \in -1 .. Base * Base /\ a + 0 \in -1 .. Base * Base
    <3>1. Base * b <= Base * (Base - 1) /\ 0 <= Base * b /\ Base <= Base * Base /\ Base * b \in Int
      BY <1>1
    <3>2. Base * (Base - 1) = Base * Base - Base
      BY <1>1
    <3> QED
      BY <1>1, <3>1, <3>2
  <2>3. -1 \in -1 .. Base * Base
    BY <1>1
  <2> QED
    BY <1>2, <1>3, <2>1, <2>2, <2>3
<1>5. {SymbolAt(arr, i) : i \in Index} \subseteq -1 .. Base * Base
  BY <1>4
<1>6. IsFiniteSet(-1 .. Base * Base)
  BY <1>1, FS_Interval
<1> QED
  BY <1>5, <1>6, FS_Subset

LEMMA InitSymbolsTypes ==
    ASSUME ShapeOK, arr \in SymbolArrays, InitSymbols
    PROVE  /\ CandsOK(cands') /\ IsList(symbols')
           /\ \A p \in DOMAIN cands' : cands'[p].indices = <<>>
           /\ DOMAIN cands' \subseteq (0 .. Len(symbols') - 1) \X (0 .. Len(symbols') - 1)
<1> DEFINE bytes == Ascending({SymbolAt(arr, i) : i \in Index})
           Renamed(i) == CHOOSE s \in 0 .. Len(bytes) - 1 : bytes[s + 1] = SymbolAt(arr, i)
           after == [arr EXCEPT !.data = [i \in Index |-> Renamed(i)]]
           prims == 0 .. Len(bytes) - 1
           frequent == {p \in prims \X prims : Cardinality(Occurs(after, p)) >= MinFreq}
<1>1. cands' = [p \in frequent |-> [freq |-> Cardinality(Occurs(after, p)), depth |-> 2, indices |-> <<>>]]
  BY DEF InitSymbols
<1>2. IsFiniteSet(prims) /\ Len(bytes) \in Nat
  <2>1. Len(bytes) \in Nat
    BY FiniteBytes, AscendingList
  <2> QED
    BY <2>1, FS_Interval
<1>3. IsFiniteSet(frequent)
  <2>1. IsFiniteSet(prims \X prims)
    BY <1>2, FS_Product
  <2> QED
    BY <2>1, FS_Subset
<1>4. frequent \subseteq prims \X prims
  OBVIOUS
<1>5. IsList(symbols') /\ Len(symbols') = Len(bytes)
  <2>1. symbols' = [k \in 1 .. Len(bytes) |-> Primitive(bytes[k])]
    BY DEF InitSymbols
  <2> HIDE DEF bytes
  <2> DEFINE S == {Primitive(bytes[k]) : k \in 1 .. Len(bytes)}
  <2>2. symbols' \in [1 .. Len(bytes) -> S]
    BY <2>1
  <2> HIDE DEF S
  <2>3. symbols' \in Seq(S)
    BY <1>2, <2>2, AFunction
  <2> QED
    BY <1>2, <2>2, <2>3 DEF IsList
<1> HIDE DEF frequent, after
<1>6. \A p : Cardinality(Occurs(after, p)) \in Int
  <2> TAKE p
  <2>1. Occurs(after, p) \subseteq Index
    BY DEF Occurs, Positions
  <2>2. IsFiniteSet(Index)
    BY Numbers, FS_Interval DEF Index
  <2> QED
    BY <2>1, <2>2, FS_Subset, FS_CardinalityType
<1>7. DOMAIN cands' = frequent /\ \A p \in frequent : CandOK(cands'[p]) /\ cands'[p].indices = <<>>
  BY <1>1, <1>6, EmptyList DEF CandOK
<1> QED
  BY <1>3, <1>4, <1>5, <1>7 DEF CandsOK

LEMMA FilledTypes == ASSUME ShapeOK, Types, RefillFill PROVE CandsOK(cands') /\ DOMAIN cands' = DOMAIN cands
<1>1. /\ DOMAIN cands' = DOMAIN cands
      /\ \A p \in DOMAIN cands : cands'[p] = IF p \in toCache
                                               THEN [cands[p] EXCEPT !.indices = Ascending(Occurs(arr, p))]
                                               ELSE cands[p]
  BY DEF RefillFill
<1>2. \A p : IsList(Ascending(Occurs(arr, p)))
  <2> TAKE p
  <2>1. IsFiniteSet(Index)
    BY Numbers, FS_Interval DEF Index
  <2>2. Occurs(arr, p) \subseteq Index
    BY DEF Occurs, Positions
  <2>3. IsFiniteSet(Occurs(arr, p))
    BY <2>1, <2>2, FS_Subset
  <2> QED
    BY <2>3, AscendingList
<1>3. \A c, q : CandOK(c) /\ IsList(q) => CandOK([c EXCEPT !.indices = q])
  BY DEF CandOK
<1>4. \A p \in DOMAIN cands : CandOK(cands'[p])
  BY <1>1, <1>2, <1>3 DEF Types, CandsOK
<1> QED
  BY <1>1, <1>4 DEF Types, CandsOK

LEMMA UpdatedTypes == ASSUME Types, Update PROVE CandsOK(cands') /\ DOMAIN cands' \subseteq Pairs(Len(symbols))
<1> DEFINE added == WithNew(NewCands)
<1>1. MaxSyms \in Nat /\ phase = "update"
  BY RePairAssumption DEF Update
<1>2. /\ CandsOK(cands) /\ DOMAIN cands \subseteq Pairs(Z) /\ DeltaOK(delta) /\ Len(symbols) \in 1 .. MaxSyms
  BY <1>1 DEF Types, Replacing, Known
<1>3. Z \in Nat /\ Len(symbols) = Z + 1 /\ 0 .. Z \subseteq SymId
  BY <1>1, <1>2 DEF Z, SymId
<1>4. CandsOK(NewCands) /\ DOMAIN NewCands \subseteq ((0 .. Z) \X {Z}) \cup ({Z} \X (0 .. Z))
  BY <1>1, <1>2, NewCandsOK
<1>5. CandsOK(added) /\ DOMAIN added \subseteq (0 .. Z) \X (0 .. Z)
  <2>1. IsFiniteSet(DOMAIN cands \ {cur})
    BY <1>2, FS_Subset DEF CandsOK
  <2>2. /\ DOMAIN added = DOMAIN NewCands \cup (DOMAIN cands \ {cur})
        /\ \A p \in DOMAIN added : added[p] = IF p \in DOMAIN NewCands THEN NewCands[p] ELSE cands[p]
    BY DEF WithNew
  <2>3. IsFiniteSet(DOMAIN added)
    <3> DEFINE old == DOMAIN cands \ {cur}
    <3>1. IsFiniteSet(DOMAIN NewCands) /\ IsFiniteSet(old)
      BY <1>4, <2>1 DEF CandsOK
    <3> HIDE DEF old, added
    <3>2. IsFiniteSet(DOMAIN NewCands \cup old)
      BY <3>1, FS_Union
    <3> QED
      BY <2>2, <3>2 DEF old
  <2> HIDE DEF added
  <2>4. CandsOK(added)
    BY <1>2, <1>4, <2>2, <2>3 DEF CandsOK
  <2>5. Pairs(Z) \subseteq (0 .. Z) \X (0 .. Z)
    BY <1>3 DEF Pairs
  <2>6. ((0 .. Z) \X {Z}) \cup ({Z} \X (0 .. Z)) \subseteq (0 .. Z) \X (0 .. Z)
    BY <1>3
  <2> QED
    BY <1>2, <1>4, <2>2, <2>4, <2>5, <2>6
<1>6. PICK P, Q : cands' = Restrict(Frequent(Lowered(Pruned(added, P))),
                                    DOMAIN Frequent(Lowered(Pruned(added, P))) \ Q)
  BY DEF Update
<1> HIDE DEF added
<1>7. CandsOK(Pruned(added, P)) /\ DOMAIN Pruned(added, P) = DOMAIN added
  BY <1>5, PrunedOK
<1>8. DOMAIN added \subseteq SymId \X SymId
  BY <1>3, <1>5
<1> DEFINE lowered == Lowered(Pruned(added, P))
<1>9. CandsOK(lowered) /\ DOMAIN lowered = DOMAIN added
  BY <1>2, <1>7, <1>8, LoweredOK
<1> HIDE DEF lowered
<1> DEFINE kept == Frequent(lowered)
<1>10. CandsOK(kept) /\ DOMAIN kept \subseteq DOMAIN lowered
  <2> DEFINE D == {p \in DOMAIN lowered : lowered[p].freq >= MinFreq \/ lowered[p].freq < 0}
  <2>1. kept = Restrict(lowered, D) /\ D \subseteq DOMAIN lowered
    BY DEF Frequent
  <2> HIDE DEF D, kept
  <2>2. CandsOK(kept)
    BY <1>9, <2>1, FewerCandsOK
  <2>3. DOMAIN kept = D
    BY <2>1 DEF Restrict
  <2> QED
    BY <2>1, <2>2, <2>3
<1>11. cands' = Restrict(kept, DOMAIN kept \ Q)
  BY <1>6 DEF lowered
<1> HIDE DEF kept
<1>12. CandsOK(cands') /\ DOMAIN cands' \subseteq DOMAIN kept
  <2>1. CandsOK(Restrict(kept, DOMAIN kept \ Q))
    BY <1>10, FewerCandsOK
  <2>2. DOMAIN Restrict(kept, DOMAIN kept \ Q) = DOMAIN kept \ Q
    BY DEF Restrict
  <2> QED
    BY <1>11, <2>1, <2>2
<1>13. (0 .. Z) \X (0 .. Z) = Pairs(Len(symbols))
  BY <1>3 DEF Pairs
<1> QED
  BY <1>5, <1>9, <1>10, <1>12, <1>13

LEMMA VisitedTypes == ASSUME Types, VisitIndex PROVE DeltaOK(delta') /\ IsList(toVisit')
<1> DEFINE i == Head(toVisit)
           it == Iter(arr, i)
           itY == MoveToNext(arr, it)
           idxA == MoveToPrev(arr, it)
           a == SymbolAt(arr, idxA)
           b == GetSymbol(arr, MoveToNext(arr, itY))
           d == CountReplaced(delta, a, b)
           withA == IF a = -1 THEN d ELSE [d EXCEPT !.vecAZ[a] = Append(@, idxA)]
           withB == IF b = -1 THEN withA ELSE [withA EXCEPT !.vecZB[b] = Append(@, i)]
<1>1. (delta' = withB \/ delta' = delta) /\ toVisit # <<>> /\ toVisit' = Tail(toVisit)
  BY DEF VisitIndex
<1> HIDE DEF idxA, a, b, i
<1>2. DeltaOK(d)
  BY CountReplacedOK DEF Types
<1> HIDE DEF d
<1>3. DeltaOK(withA)
  BY <1>2, VecOK
<1> HIDE DEF withA
<1>4. DeltaOK(withB)
  BY <1>3, VecOK
<1> HIDE DEF withB
<1> QED
  BY <1>1, <1>4, RestOfList DEF Types

LEMMA ReplacedTypes == ASSUME DeltaOK(delta), NEW c, ReplacePair(c) PROVE DeltaOK(delta')
<1>1. \E a, b : delta' = CountReplaced(delta, a, b)
  BY DEF ReplacePair
<1> QED
  BY <1>1, CountReplacedOK

LEMMA TypesInit == Init => Types
<1> SUFFICES ASSUME Init PROVE Types
  OBVIOUS
<1>1. cands = <<>> /\ delta = NoDelta /\ toVisit = <<>> /\ phase = "init" /\ symbols = <<>>
  BY DEF Init
<1>2. DOMAIN cands = {}
  BY <1>1
<1>3. CandsOK(cands)
  BY <1>2, FS_EmptySet DEF CandsOK
<1>4. arr \in SymbolArrays /\ Size \in Int
  BY InitInv, Numbers DEF Inv
<1>5. comprSize = Size
  BY DEF Init
<1> QED
  BY <1>1, <1>2, <1>3, <1>4, <1>5, EmptyList, NoDeltaOK DEF Types, Refilling, Replacing

(* After the first step.                                                   *)
LEMMA TypesPrimed ==
    ASSUME CandsOK(cands'), DeltaOK(delta'), IsList(toVisit'), IsList(symbols'), comprSize' \in Int,
           phase' # "init",
           NEW n, DOMAIN cands' \subseteq Pairs(n),
           n = IF phase' \in Replacing THEN Len(symbols') - 1 ELSE Len(symbols'),
           phase' \in Refilling => cur' \in DOMAIN cands' /\ Len(symbols') < MaxSyms,
           phase' \in Replacing => cur' \in DOMAIN cands' /\ Len(symbols') \in 1 .. MaxSyms
    PROVE  Types'
<1>1. CandsOK(cands)' /\ DeltaOK(delta)'
  BY DEF CandsOK, DeltaOK, CandOK, IsList, SymId
<1>2. n = Known'
  BY DEF Known, Replacing, Z
<1>3. Pairs(Known)' = Pairs(n)
  BY <1>2 DEF Pairs
<1> QED
  BY <1>1, <1>3 DEF Types, IsList, Refilling, Replacing

(* A step that makes no symbol and leaves the candidates in the pass.      *)
LEMMA TypesSame ==
    ASSUME Types, CandsOK(cands'), DOMAIN cands' = DOMAIN cands, DeltaOK(delta'), IsList(toVisit'),
           symbols' = symbols, comprSize' = comprSize, phase' # "init",
           phase \in Replacing <=> phase' \in Replacing,
           phase' \in Refilling => cur' \in DOMAIN cands' /\ Len(symbols') < MaxSyms,
           phase' \in Replacing => cur' = cur
    PROVE  Types'
<1>1. /\ IsList(symbols') /\ comprSize' \in Int /\ DOMAIN cands' \subseteq Pairs(Known)
      /\ phase' \in Replacing => cur' \in DOMAIN cands' /\ Len(symbols') \in 1 .. MaxSyms
  BY DEF Types, Replacing
<1>2. Known = IF phase' \in Replacing THEN Len(symbols') - 1 ELSE Len(symbols')
  BY DEF Known, Replacing, Z
<1> QED
  BY <1>1, <1>2, TypesPrimed

(* A pass begins.                                                          *)
LEMMA PassBegins ==
    ASSUME Types, phase = "start", symbols' = Append(symbols, NewSymbol)
    PROVE  /\ IsList(symbols') /\ Len(symbols) \in Nat /\ Len(symbols') = Len(symbols) + 1
           /\ Len(symbols') \in 1 .. MaxSyms
<1>1. IsList(symbols) /\ Len(symbols) < MaxSyms /\ MaxSyms \in Nat
  BY RePairAssumption DEF Types, Refilling
<1>2. PICK S : symbols \in Seq(S)
  BY <1>1 DEF IsList
<1>3. Len(symbols') = Len(symbols) + 1 /\ Len(symbols) \in Nat
  BY <1>2, Longer
<1> QED
  BY <1>1, <1>3, LongerList

LEMMA TypesNext == ASSUME ShapeOK, Types, [Next]_vars PROVE Types'
<1> USE DEF table, parallel, setting, Refilling, Replacing
<1>1. /\ CandsOK(cands) /\ DeltaOK(delta) /\ IsList(toVisit) /\ comprSize \in Int
      /\ phase \in Refilling => cur \in DOMAIN cands /\ Len(symbols) < MaxSyms
      /\ phase \in Replacing => cur \in DOMAIN cands /\ Len(symbols) \in 1 .. MaxSyms
  BY DEF Types
<1>3. ASSUME InitSymbols PROVE Types'
  <2>1. phase = "init" /\ phase' = "pick" /\ delta' = delta /\ toVisit' = toVisit /\ comprSize' = comprSize
    BY <1>3 DEF InitSymbols
  <2>2. arr \in SymbolArrays
    BY <2>1 DEF Types
  <2>3. CandsOK(cands') /\ IsList(symbols') /\ DOMAIN cands' \subseteq Pairs(Len(symbols'))
    BY <1>3, <2>2, InitSymbolsTypes DEF Pairs
  <2> QED
    BY <1>1, <2>1, <2>3, TypesPrimed
<1>4. ASSUME NEW p \in DOMAIN cands, Pick(p) PROVE Types'
  BY <1>1, <1>4, TypesSame DEF Pick
<1>5. ASSUME Stop \/ RefillNoMore \/ AllVisited \/ AllReplaced PROVE Types'
  BY <1>1, <1>5, TypesSame DEF Stop, RefillNoMore, AllVisited, AllReplaced
<1>6. ASSUME NEW p \in DOMAIN cands, RefillConsider(p) PROVE Types'
  <2>1. \E P : cands' = Pruned(cands, P)
    BY <1>6 DEF RefillConsider
  <2>2. CandsOK(cands') /\ DOMAIN cands' = DOMAIN cands
    BY <1>1, <2>1, PrunedOK
  <2>3. /\ phase = "refill" /\ cur' = cur /\ delta' = delta /\ toVisit' = toVisit /\ symbols' = symbols
        /\ phase' \in {"refill", "fill"} /\ comprSize' = comprSize
    BY <1>6 DEF RefillConsider
  <2> QED
    BY <1>1, <2>2, <2>3, TypesSame
<1>7. ASSUME RefillFill PROVE Types'
  <2>1. /\ phase = "fill" /\ cur' = cur /\ delta' = delta /\ toVisit' = toVisit /\ symbols' = symbols
        /\ phase' = "start" /\ comprSize' = comprSize
    BY <1>7 DEF RefillFill
  <2>2. CandsOK(cands') /\ DOMAIN cands' = DOMAIN cands
    BY <1>7, FilledTypes
  <2> QED
    BY <1>1, <2>1, <2>2, TypesSame
<1>8. ASSUME StartIdxCache \/ StartReplacePairs PROVE Types'
  <2>1. /\ phase = "start" /\ cands' = cands /\ cur' = cur /\ delta' = NoDelta /\ comprSize' = comprSize
        /\ phase' \in {"visit", "replace"} /\ toVisit' \in {toVisit, cands[cur].indices}
        /\ symbols' = Append(symbols, NewSymbol)
    BY <1>8 DEF StartIdxCache, StartReplacePairs
  <2>2. IsList(toVisit')
    BY <1>1, <2>1 DEF CandsOK, CandOK
  <2>3. /\ IsList(symbols') /\ Len(symbols) \in Nat /\ Len(symbols') = Len(symbols) + 1
        /\ Len(symbols') \in 1 .. MaxSyms
    BY <2>1, PassBegins
  <2>4. DOMAIN cands' \subseteq Pairs(Len(symbols') - 1)
    BY <2>1, <2>3 DEF Types, Known
  <2> QED
    BY <1>1, <2>1, <2>2, <2>3, <2>4, NoDeltaOK, TypesPrimed
<1>9. ASSUME VisitIndex PROVE Types'
  <2>1. /\ phase = "visit" /\ phase' = phase /\ cands' = cands /\ cur' = cur /\ symbols' = symbols
        /\ comprSize' = comprSize
    BY <1>9 DEF VisitIndex
  <2>2. DeltaOK(delta') /\ IsList(toVisit')
    BY <1>9, VisitedTypes
  <2> QED
    BY <1>1, <2>1, <2>2, TypesSame
<1>11. ASSUME Update PROVE Types'
  <2>1. /\ phase' = "pick" /\ delta' = NoDelta /\ toVisit' = toVisit /\ symbols' = symbols
        /\ comprSize' = comprSize - delta.nRepl
    BY <1>11 DEF Update
  <2>2. CandsOK(cands') /\ DOMAIN cands' \subseteq Pairs(Len(symbols'))
    BY <1>11, <2>1, UpdatedTypes
  <2>3. comprSize' \in Int /\ IsList(symbols') /\ IsList(toVisit')
    BY <1>1, <2>1 DEF DeltaOK, Types
  <2> QED
    BY <2>1, <2>2, <2>3, NoDeltaOK, TypesPrimed
<1>12. ASSUME NEW c \in Chunk, ChunkTask(c) PROVE Types'
  <2>1. /\ phase = "replace" /\ phase' = phase /\ cands' = cands /\ toVisit' = toVisit
        /\ cur' = cur /\ symbols' = symbols /\ comprSize' = comprSize
    BY <1>12 DEF ChunkTask, BeginNothing, Begin, LockTail, UnlockMiddle, ReplacePair, CopySymbol,
                 EndChunk, CanStep, InLoop
  <2>2. DeltaOK(delta')
    <3>1. CASE ReplacePair(c)
      BY <1>1, <3>1, ReplacedTypes
    <3>2. CASE ~ReplacePair(c)
      BY <1>1, <1>12, <3>2 DEF ChunkTask, BeginNothing, Begin, LockTail, UnlockMiddle, CopySymbol,
                 EndChunk
    <3> QED
      BY <3>1, <3>2
  <2> QED
    BY <1>1, <2>1, <2>2, TypesSame
<1>13. ASSUME UNCHANGED vars PROVE Types'
  <2>1. /\ cands' = cands /\ delta' = delta /\ toVisit' = toVisit /\ symbols' = symbols
        /\ phase' = phase /\ cur' = cur /\ arr' = arr /\ shape' = shape /\ comprSize' = comprSize
    BY <1>13 DEF vars
  <2>2. SymbolArrays' = SymbolArrays
    BY <2>1 DEF SymbolArrays, Index, Chunk, BitCount, NChunks, CeilDiv, Size, ChunkSize
  <2>3. Pairs(Known)' = Pairs(Known)
    BY <2>1 DEF Pairs, Known, Z
  <2> QED
    BY <1>1, <2>1, <2>2, <2>3 DEF Types, CandsOK, DeltaOK
<1> QED
  BY <1>3, <1>4, <1>5, <1>6, <1>7, <1>8, <1>9, <1>11, <1>12, <1>13 DEF Next, Compress, Done

(***************************************************************************)
(* The size of the cache.                                                  *)
(***************************************************************************)
Places(cs, P) == UNION {{p} \X (1 .. Len(cs[p].indices)) : p \in P}

LEMMA ListLength ==
    ASSUME NEW q, IsList(q)
    PROVE  Len(q) \in Nat /\ IsFiniteSet(1 .. Len(q)) /\ Cardinality(1 .. Len(q)) = Len(q)
<1>1. Len(q) \in Nat
  BY DEF IsList
<1>2. ASSUME NEW n \in Nat PROVE IsFiniteSet(1 .. n) /\ Cardinality(1 .. n) = n
  BY FS_Interval
<1> QED
  BY <1>1, <1>2

LEMMA SizeFacts ==
    ASSUME NEW cs, CandsOK(cs), NEW P, P \subseteq DOMAIN cs
    PROVE  /\ IsFiniteSet(Places(cs, P)) /\ SizeOf(cs, P) = Cardinality(Places(cs, P))
           /\ SizeOf(cs, P) \in Nat
<1> DEFINE Row(p) == {p} \X (1 .. Len(cs[p].indices))
           f == [p \in P |-> Row(p)]
           S == {Row(p) : p \in P}
<1>1. IsFiniteSet(P)
  BY FS_Subset DEF CandsOK
<1>2. ASSUME NEW p \in P PROVE IsFiniteSet(Row(p))
  <2>1. IsList(cs[p].indices)
    BY DEF CandsOK, CandOK
  <2>2. IsFiniteSet({p}) /\ IsFiniteSet(1 .. Len(cs[p].indices))
    BY <2>1, ListLength, FS_Singleton
  <2> QED
    BY <2>2, FS_Product
<1> HIDE DEF Row
<1>3. IsFiniteSet(S)
  <2>1. f \in Surjection(P, S)
    BY DEF Surjection
  <2> QED
    BY <1>1, <2>1, FS_Surjection
<1>4. IsFiniteSet(UNION S)
  BY <1>2, <1>3, FS_UNION
<1>5. UNION S = Places(cs, P)
  BY DEF Places, Row
<1>6. SizeOf(cs, P) = Cardinality(Places(cs, P))
  BY DEF SizeOf, Places
<1> QED
  BY <1>4, <1>5, <1>6, FS_CardinalityType

(* The parts of a set of candidates add up.                                *)
LEMMA SizeParts ==
    ASSUME NEW cs, CandsOK(cs), NEW P, NEW Q, P \cup Q \subseteq DOMAIN cs, P \cap Q = {}
    PROVE  SizeOf(cs, P \cup Q) = SizeOf(cs, P) + SizeOf(cs, Q)
<1>1. Places(cs, P \cup Q) = Places(cs, P) \cup Places(cs, Q)
  BY DEF Places
<1>2. Places(cs, P) \cap Places(cs, Q) = {}
  <2>1. \A R, e : e \in Places(cs, R) => e[1] \in R
    BY DEF Places
  <2> QED
    BY <2>1
<1>3. /\ IsFiniteSet(Places(cs, P)) /\ SizeOf(cs, P) = Cardinality(Places(cs, P))
      /\ IsFiniteSet(Places(cs, Q)) /\ SizeOf(cs, Q) = Cardinality(Places(cs, Q))
      /\ SizeOf(cs, P \cup Q) = Cardinality(Places(cs, P \cup Q))
      /\ SizeOf(cs, P) \in Nat /\ SizeOf(cs, Q) \in Nat
  BY SizeFacts
<1> DEFINE A == Places(cs, P)
           B == Places(cs, Q)
<1> HIDE DEF A, B
<1>4. IsFiniteSet(A) /\ IsFiniteSet(B) /\ A \cap B = {} /\ Cardinality(A) \in Nat /\ Cardinality(B) \in Nat
  BY <1>2, <1>3 DEF A, B
<1>5. Cardinality(A \cup B) = Cardinality(A) + Cardinality(B) - Cardinality(A \cap B)
  BY <1>4, FS_Union
<1>6. Cardinality(A \cup B) = Cardinality(A) + Cardinality(B)
  <2>1. Cardinality({}) = 0
    BY FS_EmptySet
  <2>2. Cardinality(A \cap B) = 0
    BY <1>4, <2>1
  <2> QED
    BY <1>4, <1>5, <2>2
<1> QED
  BY <1>1, <1>3, <1>6 DEF A, B

LEMMA SizeWithout ==
    ASSUME NEW cs, CandsOK(cs), NEW Q, Q \subseteq DOMAIN cs
    PROVE  /\ SizeOf(cs, DOMAIN cs \ Q) = SizeOf(cs, DOMAIN cs) - SizeOf(cs, Q)
           /\ SizeOf(cs, DOMAIN cs) \in Nat /\ SizeOf(cs, Q) \in Nat
<1> DEFINE R == DOMAIN cs \ Q
<1>1. R \cup Q = DOMAIN cs /\ R \cap Q = {} /\ R \subseteq DOMAIN cs
  OBVIOUS
<1> HIDE DEF R
<1>2. SizeOf(cs, R \cup Q) = SizeOf(cs, R) + SizeOf(cs, Q)
  BY <1>1, SizeParts
<1>3. SizeOf(cs, R) \in Nat /\ SizeOf(cs, Q) \in Nat /\ SizeOf(cs, DOMAIN cs) \in Nat
  BY <1>1, SizeFacts
<1>4. SizeOf(cs, R) = SizeOf(cs, DOMAIN cs) - SizeOf(cs, Q)
  BY <1>1, <1>2, <1>3
<1> QED
  BY <1>3, <1>4 DEF R

(* Only the positions count.                                               *)
LEMMA SizeSame ==
    ASSUME NEW cs, NEW ds, NEW P, \A p \in P : cs[p].indices = ds[p].indices
    PROVE  SizeOf(cs, P) = SizeOf(ds, P)
<1>1. {{p} \X (1 .. Len(cs[p].indices)) : p \in P} = {{p} \X (1 .. Len(ds[p].indices)) : p \in P}
  OBVIOUS
<1> QED
  BY <1>1 DEF SizeOf

LEMMA SizeNone ==
    ASSUME NEW cs, NEW P, \A p \in P : cs[p].indices = <<>> PROVE SizeOf(cs, P) = 0
<1>1. \A p \in P : {p} \X (1 .. Len(cs[p].indices)) = {}
  OBVIOUS
<1>2. UNION {{p} \X (1 .. Len(cs[p].indices)) : p \in P} = {}
  BY <1>1
<1> QED
  BY <1>2, FS_EmptySet DEF SizeOf

LEMMA SizeOne ==
    ASSUME NEW cs, CandsOK(cs), NEW p \in DOMAIN cs PROVE SizeOf(cs, {p}) = Len(cs[p].indices)
<1> DEFINE n == Len(cs[p].indices)
<1>1. IsList(cs[p].indices)
  BY DEF CandsOK, CandOK
<1>2. n \in Nat /\ IsFiniteSet(1 .. n) /\ Cardinality(1 .. n) = n
  BY <1>1, ListLength
<1>3. UNION {{q} \X (1 .. Len(cs[q].indices)) : q \in {p}} = {p} \X (1 .. n)
  OBVIOUS
<1> HIDE DEF n
<1>4. IsFiniteSet({p}) /\ Cardinality({p}) = 1
  BY FS_Singleton
<1>5. Cardinality({p} \X (1 .. n)) = 1 * n
  BY <1>2, <1>4, FS_Product
<1>6. SizeOf(cs, {p}) = Cardinality({p} \X (1 .. n))
  BY <1>3 DEF SizeOf
<1> QED
  BY <1>2, <1>5, <1>6 DEF n

(* What may leave is a part of the set.                                    *)
LEMMA LeavingPart ==
    ASSUME NEW S, NEW key, NEW weight, NEW excess, NEW P \in LowestFirst(S, key, weight, excess)
    PROVE  P \subseteq S
  BY DEF LowestFirst

LEMMA PrunedPart ==
    ASSUME NEW cs, NEW size, NEW max, NEW freq, NEW P \in PruneSets(cs, size, max, freq)
    PROVE  P \subseteq DOMAIN cs
  BY LeavingPart DEF PruneSets, Cached

(* Pruning and erasing.                                                    *)
LEMMA PrunedSize ==
    ASSUME NEW cs, CandsOK(cs), NEW P, P \subseteq DOMAIN cs
    PROVE  /\ SizeOf(Pruned(cs, P), DOMAIN Pruned(cs, P)) = SizeOf(cs, DOMAIN cs) - SizeOf(cs, P)
           /\ \A p \in DOMAIN cs : Pruned(cs, P)[p].indices \in {<<>>, cs[p].indices}
<1> DEFINE ds == Pruned(cs, P)
<1>1. CandsOK(ds) /\ DOMAIN ds = DOMAIN cs
  BY PrunedOK
<1>2. /\ \A p \in P : ds[p].indices = <<>>
      /\ \A p \in DOMAIN cs \ P : ds[p].indices = cs[p].indices
  BY DEF Pruned, CandsOK, CandOK
<1> HIDE DEF ds
<1>3. SizeOf(ds, P) = 0 /\ SizeOf(ds, DOMAIN cs \ P) = SizeOf(cs, DOMAIN cs \ P)
  BY <1>2, SizeNone, SizeSame
<1>4. /\ SizeOf(ds, DOMAIN ds \ P) = SizeOf(ds, DOMAIN ds) - SizeOf(ds, P)
      /\ SizeOf(ds, DOMAIN ds) \in Nat
  BY <1>1, SizeWithout
<1>5. /\ SizeOf(cs, DOMAIN cs \ P) = SizeOf(cs, DOMAIN cs) - SizeOf(cs, P)
      /\ SizeOf(cs, DOMAIN cs) \in Nat /\ SizeOf(cs, P) \in Nat
  BY SizeWithout
<1>6. SizeOf(ds, DOMAIN ds) = SizeOf(cs, DOMAIN cs) - SizeOf(cs, P)
  <2>1. SizeOf(cs, DOMAIN cs \ P) = SizeOf(ds, DOMAIN ds) - 0
    BY <1>1, <1>3, <1>4
  <2> QED
    BY <1>4, <1>5, <2>1
<1>7. \A p \in DOMAIN cs : ds[p].indices \in {<<>>, cs[p].indices}
  BY <1>2
<1> QED
  BY <1>6, <1>7 DEF ds

LEMMA RestrictedSize ==
    ASSUME NEW cs, CandsOK(cs), NEW D, D \subseteq DOMAIN cs
    PROVE  /\ DOMAIN Restrict(cs, D) = D
           /\ SizeOf(Restrict(cs, D), D) = SizeOf(cs, DOMAIN cs) - SizeOf(cs, DOMAIN cs \ D)
<1>1. DOMAIN Restrict(cs, D) = D /\ \A p \in D : Restrict(cs, D)[p] = cs[p]
  BY DEF Restrict
<1>2. SizeOf(Restrict(cs, D), D) = SizeOf(cs, D)
  BY <1>1, SizeSame
<1>3. DOMAIN cs \ (DOMAIN cs \ D) = D
  OBVIOUS
<1>4. SizeOf(cs, D) = SizeOf(cs, DOMAIN cs) - SizeOf(cs, DOMAIN cs \ D)
  <2> DEFINE R == DOMAIN cs \ D
  <2>1. R \subseteq DOMAIN cs /\ DOMAIN cs \ R = D
    OBVIOUS
  <2> HIDE DEF R
  <2>2. SizeOf(cs, DOMAIN cs \ R) = SizeOf(cs, DOMAIN cs) - SizeOf(cs, R)
    BY <2>1, SizeWithout
  <2> QED
    BY <2>1, <2>2 DEF R
<1> QED
  BY <1>1, <1>2, <1>4

(* Update: the pairs of the new symbol are new, the other changes only leave*)
(* out positions or pairs.                                                  *)
LEMMA AddedSize ==
    ASSUME CandsOK(cands), cur \in DOMAIN cands, NEW new, CandsOK(new), DOMAIN new \cap DOMAIN cands = {}
    PROVE  LET added == WithNew(new)
           IN  /\ CandsOK(added) /\ DOMAIN added \subseteq DOMAIN new \cup DOMAIN cands
               /\ DOMAIN new \subseteq DOMAIN added
               /\ SizeOf(added, DOMAIN added)
                     = SizeOf(cands, DOMAIN cands) - Len(cands[cur].indices) + SizeOf(added, DOMAIN new)
<1> DEFINE added == WithNew(new)
           old == DOMAIN cands \ {cur}
<1>1. /\ DOMAIN added = DOMAIN new \cup old
      /\ \A p \in DOMAIN new : added[p] = new[p]
      /\ \A p \in old : added[p] = cands[p]
  BY DEF WithNew
<1>2. CandsOK(added)
  <2>1. IsFiniteSet(DOMAIN new) /\ IsFiniteSet(old)
    BY FS_Subset DEF CandsOK
  <2>2. IsFiniteSet(DOMAIN added)
    <3> HIDE DEF added, old
    <3>1. IsFiniteSet(DOMAIN new \cup old)
      BY <2>1, FS_Union
    <3> QED
      BY <1>1, <3>1
  <2> HIDE DEF added
  <2> QED
    BY <1>1, <2>2 DEF CandsOK
<1> HIDE DEF added
<1>3. SizeOf(added, DOMAIN added) = SizeOf(added, DOMAIN new) + SizeOf(added, old)
  <2>1. DOMAIN new \cup old \subseteq DOMAIN added /\ DOMAIN new \cap old = {}
    BY <1>1
  <2> HIDE DEF old
  <2>2. SizeOf(added, DOMAIN new \cup old) = SizeOf(added, DOMAIN new) + SizeOf(added, old)
    BY <1>2, <2>1, SizeParts
  <2> QED
    BY <1>1, <2>2
<1>4. SizeOf(added, old) = SizeOf(cands, old)
  BY <1>1, SizeSame
<1>5. SizeOf(cands, old) = SizeOf(cands, DOMAIN cands) - SizeOf(cands, {cur})
  BY SizeWithout
<1>6. SizeOf(cands, {cur}) = Len(cands[cur].indices)
  BY SizeOne
<1>7. /\ SizeOf(cands, DOMAIN cands) \in Nat /\ SizeOf(cands, {cur}) \in Nat
      /\ SizeOf(added, DOMAIN new) \in Nat
  BY <1>1, <1>2, SizeFacts
<1>8. SizeOf(added, DOMAIN added)
        = SizeOf(cands, DOMAIN cands) - Len(cands[cur].indices) + SizeOf(added, DOMAIN new)
  BY <1>3, <1>4, <1>5, <1>6, <1>7
<1> QED
  BY <1>1, <1>2, <1>8 DEF added

LEMMA CutSize ==
    ASSUME NEW cs, CandsOK(cs), DOMAIN cs \subseteq SymId \X SymId, DeltaOK(delta),
           NEW P, P \subseteq DOMAIN cs,
           NEW kept, kept = Frequent(Lowered(Pruned(cs, P))), NEW Q, Q \subseteq DOMAIN kept
    PROVE  LET lowered == Lowered(Pruned(cs, P))
               rest == Restrict(kept, DOMAIN kept \ Q)
           IN  /\ DOMAIN rest \subseteq DOMAIN cs
               /\ SizeOf(rest, DOMAIN rest)
                    = SizeOf(cs, DOMAIN cs) - SizeOf(cs, P) - SizeOf(lowered, DOMAIN lowered \ DOMAIN kept)
                        - SizeOf(kept, Q)
<1> DEFINE pruned == Pruned(cs, P)
           lowered == Lowered(pruned)
           rest == Restrict(kept, DOMAIN kept \ Q)
<1>1. CandsOK(pruned) /\ DOMAIN pruned = DOMAIN cs
  BY PrunedOK
<1>2. SizeOf(pruned, DOMAIN pruned) = SizeOf(cs, DOMAIN cs) - SizeOf(cs, P)
  BY PrunedSize
<1> HIDE DEF pruned
<1>3. CandsOK(lowered) /\ DOMAIN lowered = DOMAIN pruned
  BY <1>1, LoweredOK
<1>4. \A p \in DOMAIN pruned : lowered[p].indices = pruned[p].indices
  <2> TAKE p \in DOMAIN pruned
  <2>1. lowered[p] = [pruned[p] EXCEPT !.freq = @ + DeltaOf(p)]
    BY DEF Lowered
  <2>2. CandOK(pruned[p])
    BY <1>1 DEF CandsOK
  <2> HIDE DEF lowered
  <2> QED
    BY <2>1, <2>2 DEF CandOK
<1> HIDE DEF lowered
<1>5. SizeOf(lowered, DOMAIN lowered) = SizeOf(pruned, DOMAIN pruned)
  BY <1>3, <1>4, SizeSame
<1> DEFINE D == {p \in DOMAIN lowered : lowered[p].freq >= MinFreq \/ lowered[p].freq < 0}
<1>6. kept = Restrict(lowered, D) /\ D \subseteq DOMAIN lowered
  BY DEF Frequent, lowered, pruned
<1> HIDE DEF D
<1>7. /\ DOMAIN kept = D /\ CandsOK(kept)
      /\ SizeOf(kept, D) = SizeOf(lowered, DOMAIN lowered) - SizeOf(lowered, DOMAIN lowered \ D)
  BY <1>3, <1>6, RestrictedSize, FewerCandsOK
<1> DEFINE E == DOMAIN kept \ Q
<1>8. E \subseteq DOMAIN kept /\ DOMAIN kept \ E = Q
  OBVIOUS
<1> HIDE DEF E
<1>9. DOMAIN Restrict(kept, E) = E /\ SizeOf(Restrict(kept, E), E) = SizeOf(kept, DOMAIN kept) - SizeOf(kept, Q)
  BY <1>7, <1>8, RestrictedSize
<1>10. DOMAIN rest = E /\ SizeOf(rest, DOMAIN rest) = SizeOf(kept, DOMAIN kept) - SizeOf(kept, Q)
  BY <1>9 DEF E
<1> HIDE DEF rest
<1>11. SizeOf(rest, DOMAIN rest)
        = SizeOf(cs, DOMAIN cs) - SizeOf(cs, P) - SizeOf(lowered, DOMAIN lowered \ DOMAIN kept) - SizeOf(kept, Q)
  BY <1>2, <1>5, <1>7, <1>10
<1>12. DOMAIN rest \subseteq DOMAIN cs
  BY <1>1, <1>3, <1>6, <1>7, <1>8, <1>10
<1> QED
  BY <1>11, <1>12 DEF rest, lowered, pruned

(* The pairs that are to be cached have no positions yet.                  *)
Accounted ==
    /\ phase = "init" => cacheSize = 0
    /\ toCache \subseteq DOMAIN cands /\ \A p \in toCache : cands[p].indices = <<>>
    /\ phase \notin {"refill", "fill"} => toCache = {}
    /\ CacheSizeExact

LEMMA AccountedInit == Init => Accounted
<1> SUFFICES ASSUME Init PROVE Accounted
  OBVIOUS
<1>1. cands = <<>> /\ phase = "init" /\ symbols = <<>> /\ toCache = {} /\ cacheSize = 0
  BY DEF Init
<1>2. DOMAIN cands = {}
  BY <1>1
<1>3. SizeOf(cands, DOMAIN cands) = 0
  BY <1>2, SizeNone
<1> QED
  BY <1>1, <1>2, <1>3 DEF Accounted, CacheSizeExact

LEMMA InitSymbolsAccounted == ASSUME ShapeOK, Types, Accounted, InitSymbols PROVE Accounted'
<1>1. phase = "init" /\ phase' = "pick" /\ cacheSize' = cacheSize /\ toCache' = toCache
  BY DEF InitSymbols
<1>2. \A p \in DOMAIN cands' : cands'[p].indices = <<>>
  BY <1>1, InitSymbolsTypes DEF Types
<1>3. SizeOf(cands', DOMAIN cands') = 0
  BY <1>2, SizeNone
<1>4. cacheSize' = 0 /\ toCache' = {}
  BY <1>1 DEF Accounted
<1>5. CacheSizeExact'
  BY <1>3, <1>4 DEF CacheSizeExact, SizeOf
<1> QED
  BY <1>1, <1>4, <1>5 DEF Accounted

LEMMA ConsiderAccounted ==
    ASSUME Types, Accounted, NEW p \in DOMAIN cands, RefillConsider(p) PROVE Accounted'
<1>1. PICK P \in PruneSets(cands, cacheSize, limit.maxCache - NewCacheSize - cands[p].freq, cands[p].freq) :
            /\ cands' = Pruned(cands, P) /\ cacheSize' = cacheSize - SizeOf(cands, P)
            /\ phase' \in {"refill", "fill"} /\ toCache' \subseteq toCache \cup {p}
  BY DEF RefillConsider
<1>2. phase = "refill" /\ symbols' = symbols /\ p \notin Cached(cands)
  BY DEF RefillConsider, NextToCache, Uncached
<1>3. P \subseteq DOMAIN cands
  BY <1>1, PrunedPart
<1>4. CandsOK(cands) /\ CacheSizeExact
  BY DEF Types, Accounted
<1>5. DOMAIN cands' = DOMAIN cands
  BY <1>1, <1>4, PrunedOK
<1>6. /\ SizeOf(cands', DOMAIN cands') = SizeOf(cands, DOMAIN cands) - SizeOf(cands, P)
      /\ \A q \in DOMAIN cands : cands'[q].indices \in {<<>>, cands[q].indices}
  BY <1>1, <1>3, <1>4, PrunedSize
<1>7. CacheSizeExact'
  BY <1>1, <1>4, <1>6 DEF CacheSizeExact, SizeOf
<1>8. toCache' \subseteq DOMAIN cands' /\ \A q \in toCache' : cands'[q].indices = <<>>
  <2>1. \A q \in toCache \cup {p} : q \in DOMAIN cands /\ cands[q].indices = <<>>
    BY <1>2 DEF Accounted, Cached
  <2> QED
    BY <1>1, <1>5, <1>6, <2>1
<1> QED
  BY <1>1, <1>7, <1>8 DEF Accounted

LEMMA FillAccounted == ASSUME ShapeOK, Types, Accounted, RefillFill PROVE Accounted'
<1>1. /\ phase = "fill" /\ phase' = "start" /\ symbols' = symbols /\ toCache' = {}
      /\ cacheSize' = cacheSize + SizeOf(cands', toCache)
      /\ \A p \in DOMAIN cands \ toCache : cands'[p] = cands[p]
  BY DEF RefillFill
<1>2. CandsOK(cands') /\ DOMAIN cands' = DOMAIN cands /\ CandsOK(cands)
  BY FilledTypes DEF Types
<1>3. toCache \subseteq DOMAIN cands /\ (\A p \in toCache : cands[p].indices = <<>>) /\ CacheSizeExact
  BY DEF Accounted
<1>4. SizeOf(cands, toCache) = 0
  BY <1>3, SizeNone
<1>5. /\ SizeOf(cands, DOMAIN cands \ toCache) = SizeOf(cands, DOMAIN cands) - SizeOf(cands, toCache)
      /\ SizeOf(cands, DOMAIN cands) \in Nat
  BY <1>2, <1>3, SizeWithout
<1>6. SizeOf(cands', DOMAIN cands \ toCache) = SizeOf(cands, DOMAIN cands \ toCache)
  BY <1>1, SizeSame
<1> DEFINE new == cands'
<1>7. CandsOK(new) /\ DOMAIN new = DOMAIN cands /\ toCache \subseteq DOMAIN new
  BY <1>2, <1>3
<1> HIDE DEF new
<1>8. /\ SizeOf(new, DOMAIN new \ toCache) = SizeOf(new, DOMAIN new) - SizeOf(new, toCache)
      /\ SizeOf(new, DOMAIN new) \in Nat /\ SizeOf(new, toCache) \in Nat
  BY <1>7, SizeWithout
<1>9. SizeOf(new, DOMAIN new) = SizeOf(cands, DOMAIN cands) + SizeOf(new, toCache)
  <2>1. SizeOf(new, DOMAIN new \ toCache) = SizeOf(cands, DOMAIN cands) - 0
    BY <1>4, <1>5, <1>6, <1>7 DEF new
  <2> QED
    BY <1>5, <1>8, <2>1
<1>10. cacheSize' = SizeOf(cands', DOMAIN cands')
  BY <1>1, <1>3, <1>9 DEF CacheSizeExact, new
<1>11. CacheSizeExact'
  BY <1>10 DEF CacheSizeExact, SizeOf
<1> QED
  BY <1>1, <1>2, <1>11 DEF Accounted

LEMMA UpdateAccounted == ASSUME Types, Accounted, Update PROVE Accounted'
<1> DEFINE new == NewCands
           added == WithNew(new)
           size == cacheSize - Len(cands[cur].indices) + SizeOf(added, DOMAIN new)
           kept(P) == Frequent(Lowered(Pruned(added, P)))
           sizeKept(P) == size - SizeOf(added, P) - SizeOf(Lowered(Pruned(added, P)),
                                                   DOMAIN Lowered(Pruned(added, P)) \ DOMAIN kept(P))
           Erased(P, Q) == /\ cands' = Restrict(kept(P), DOMAIN kept(P) \ Q)
                           /\ cacheSize' = sizeKept(P) - SizeOf(kept(P), Q)
           Erasable(P) == LowestFirst(DOMAIN kept(P), [p \in DOMAIN kept(P) |-> FreqPrio(kept(P)[p])],
                             [p \in DOMAIN kept(P) |-> 1], Cardinality(DOMAIN kept(P)) - MaxCands)
<1>1. phase = "update" /\ phase' = "pick" /\ symbols' = symbols /\ toCache' = toCache
  BY DEF Update
<1>2. \E P \in PruneSets(added, size, limit.maxCache, comprSize) : \E Q \in Erasable(P) : Erased(P, Q)
  BY DEF Update
<1>3. PICK P \in PruneSets(added, size, limit.maxCache, comprSize) : \E Q \in Erasable(P) : Erased(P, Q)
  BY <1>2
<1>4. PICK Q \in Erasable(P) : Erased(P, Q)
  BY <1>3
<1>5. /\ CandsOK(cands) /\ cur \in DOMAIN cands /\ Len(symbols) \in 1 .. MaxSyms /\ CacheSizeExact
      /\ DOMAIN cands \subseteq Pairs(Z) /\ toCache = {} /\ DeltaOK(delta)
  BY <1>1 DEF Types, Accounted, Replacing, Known
<1>6. CandsOK(new) /\ DOMAIN new \subseteq ((0 .. Z) \X {Z}) \cup ({Z} \X (0 .. Z))
  BY <1>5, NewCandsOK, RePairAssumption
<1>7. Z \in Nat /\ 0 .. Z \subseteq SymId
  BY <1>5, RePairAssumption DEF Z, SymId
<1> HIDE DEF new
<1>8. DOMAIN new \cap DOMAIN cands = {}
  <2>1. SUFFICES ASSUME NEW p \in DOMAIN new, p \in DOMAIN cands PROVE FALSE
    OBVIOUS
  <2>2. p[1] = Z \/ p[2] = Z
    BY <1>6
  <2>3. p[1] \in 0 .. Z - 1 /\ p[2] \in 0 .. Z - 1
    BY <1>5, <2>1 DEF Pairs
  <2> QED
    BY <1>7, <2>2, <2>3
<1>9. /\ CandsOK(added) /\ DOMAIN added \subseteq DOMAIN new \cup DOMAIN cands
      /\ SizeOf(added, DOMAIN added)
            = SizeOf(cands, DOMAIN cands) - Len(cands[cur].indices) + SizeOf(added, DOMAIN new)
  BY <1>5, <1>6, <1>8, AddedSize
<1>10. SizeOf(added, DOMAIN added) = size
  BY <1>5, <1>9 DEF CacheSizeExact
<1>11. DOMAIN added \subseteq SymId \X SymId
  <2>1. Pairs(Z) \subseteq SymId \X SymId
    BY <1>7 DEF Pairs
  <2>2. ((0 .. Z) \X {Z}) \cup ({Z} \X (0 .. Z)) \subseteq SymId \X SymId
    BY <1>7
  <2> QED
    BY <1>5, <1>6, <1>9, <2>1, <2>2
<1> HIDE DEF added
<1>12. P \subseteq DOMAIN added /\ Q \subseteq DOMAIN kept(P)
  BY <1>3, <1>4, PrunedPart, LeavingPart
<1>13. SizeOf(cands', DOMAIN cands') = sizeKept(P) - SizeOf(kept(P), Q)
  <2> HIDE DEF size
  <2> QED
    BY <1>4, <1>5, <1>9, <1>10, <1>12, <1>11, CutSize
<1>14. CacheSizeExact'
  BY <1>4, <1>13 DEF CacheSizeExact, SizeOf
<1> QED
  BY <1>1, <1>5, <1>14 DEF Accounted

LEMMA AccountedNext == ASSUME ShapeOK, Types, Accounted, [Next]_vars PROVE Accounted'
<1> USE DEF table, parallel, setting
<1>1. ASSUME UNCHANGED <<cands, cacheSize, toCache>>, phase' = phase PROVE Accounted'
  BY <1>1 DEF Accounted, CacheSizeExact, SizeOf
<1>2. ASSUME UNCHANGED <<cands, cacheSize, toCache>>, phase' # "init",
             phase' \in {"refill", "fill"} \/ phase \notin {"refill", "fill"}
      PROVE  Accounted'
  BY <1>2 DEF Accounted, CacheSizeExact, SizeOf
<1>3. CASE InitSymbols
  BY <1>3, InitSymbolsAccounted
<1>4. ASSUME NEW p \in DOMAIN cands, Pick(p) PROVE Accounted'
  BY <1>2, <1>4 DEF Pick
<1>5. CASE Stop \/ RefillNoMore
  BY <1>2, <1>5 DEF Stop, RefillNoMore
<1>6. CASE AllVisited \/ AllReplaced
  BY <1>2, <1>6 DEF AllVisited, AllReplaced
<1>7. ASSUME NEW p \in DOMAIN cands, RefillConsider(p) PROVE Accounted'
  BY <1>7, ConsiderAccounted
<1>8. CASE RefillFill
  BY <1>8, FillAccounted
<1>9. CASE StartIdxCache \/ StartReplacePairs
  BY <1>2, <1>9 DEF StartIdxCache, StartReplacePairs
<1>10. CASE VisitIndex
  BY <1>1, <1>10 DEF VisitIndex
<1>11. CASE Update
  BY <1>11, UpdateAccounted
<1>12. ASSUME NEW c \in Chunk, ChunkTask(c) PROVE Accounted'
  BY <1>1, <1>12 DEF ChunkTask, BeginNothing, Begin, LockTail, UnlockMiddle, ReplacePair, CopySymbol,
                 EndChunk, CanStep, InLoop
<1>13. CASE UNCHANGED vars
  BY <1>1, <1>13 DEF vars
<1> QED
  BY <1>3, <1>4, <1>5, <1>6, <1>7, <1>8, <1>9, <1>10, <1>11, <1>12, <1>13 DEF Next, Compress, Done

LEMMA ShapeSame == ASSUME [Next]_vars PROVE shape' = shape
<1> USE DEF setting
<1>1. ASSUME NEW c \in Chunk, ChunkTask(c) PROVE shape' = shape
  BY <1>1 DEF ChunkTask, BeginNothing, Begin, LockTail, UnlockMiddle, ReplacePair, CopySymbol, EndChunk
<1>2. ASSUME NEW p \in DOMAIN cands, Pick(p) \/ RefillConsider(p) PROVE shape' = shape
  BY <1>2 DEF Pick, RefillConsider
<1>3. InitSymbols \/ Stop \/ RefillNoMore \/ RefillFill \/ AllVisited \/ AllReplaced \/ Update
        => shape' = shape
  BY DEF InitSymbols, Stop, RefillNoMore, RefillFill, AllVisited, AllReplaced, Update
<1>4. StartIdxCache \/ VisitIndex \/ StartReplacePairs => shape' = shape
  BY DEF StartIdxCache, VisitIndex, StartReplacePairs
<1> QED
  BY <1>1, <1>2, <1>3, <1>4 DEF Next, Compress, Done, vars

LEMMA ShapeStays == ShapeOK /\ [Next]_vars => ShapeOK'
  BY ShapeSame DEF ShapeOK, Size, ChunkSize

(* The running count of the cached positions, which refills, prunings and   *)
(* erasures change by differences, is always exact, whatever is compressed  *)
(* and whatever the limits are; so it never falls below zero, which         *)
(* compress asserts (repair.cpp:143).                                       *)
THEOREM CacheAccounted == Spec => [](CacheSizeExact /\ cacheSize \in Nat)
<1>1. Init => ShapeOK /\ Types /\ Accounted
  BY InitInv, TypesInit, AccountedInit DEF Inv
<1>2. ShapeOK /\ Types /\ Accounted /\ [Next]_vars => ShapeOK' /\ Types' /\ Accounted'
  BY ShapeStays, TypesNext, AccountedNext
<1>3. Types /\ Accounted => CacheSizeExact /\ cacheSize \in Nat
  BY SizeFacts DEF Types, Accounted, CacheSizeExact
<1> QED
  BY <1>1, <1>2, <1>3, PTL DEF Spec

(***************************************************************************)
(* Types.                                                                  *)
(***************************************************************************)
(* Each rank in a set of numbers is that of one of them.                   *)
LEMMA RanksInto ==
    ASSUME NEW V \in SUBSET Nat, IsFiniteSet(V), NEW k \in 1 .. Len(Ascending(V))
    PROVE  Ascending(V)[k] \in V
<1> DEFINE q == Ascending(V)
           n == Cardinality(V)
           S == {q[j] : j \in 1 .. n}
           f == [j \in 1 .. n |-> q[j]]
<1>1. n \in Nat /\ \A v \in V : Len(q) = n /\ \E j \in 1 .. n : q[j] = v
  BY Ranks, FS_CardinalityType
<1>2. Len(q) = n
  BY <1>1 DEF Ascending
<1> HIDE DEF q, n
<1>3. V \subseteq S
  BY <1>1
<1>4. f \in Surjection(1 .. n, S)
  BY DEF Surjection
<1>5. IsFiniteSet(1 .. n) /\ Cardinality(1 .. n) = n
  BY <1>1, FS_Interval
<1> HIDE DEF f
<1>6. IsFiniteSet(S) /\ Cardinality(S) <= n /\ Cardinality(S) \in Nat
  BY <1>4, <1>5, FS_Surjection, FS_CardinalityType
<1>7. q[k] \in S
  BY <1>2 DEF q
<1> HIDE DEF S
<1>8. Cardinality(V) <= Cardinality(S) /\ (Cardinality(S) = Cardinality(V) => S = V)
  BY <1>3, <1>6, FS_Subset
<1>9. S = V
  BY <1>1, <1>6, <1>8 DEF n
<1> QED
  BY <1>7, <1>9 DEF q

(* A replaced pair consists of older symbols.                              *)
LEMMA PairOlder == Types /\ phase \in Replacing => {X, Y} \subseteq 0 .. Z - 1
<1> SUFFICES ASSUME Types, phase \in Replacing PROVE {X, Y} \subseteq 0 .. Z - 1
  OBVIOUS
<1>1. cur \in Pairs(Z)
  BY DEF Types, Known
<1> QED
  BY <1>1 DEF Pairs, X, Y

LEMMA SoundNow == Types /\ RangesSound => Sound
  BY PairOlder DEF Sound, Replacing

Older ==
    \A k \in DOMAIN symbols :
        ~symbols[k].primitive => {symbols[k].left, symbols[k].right} \subseteq 0 .. k - 2
Bytes == \A k \in DOMAIN symbols : symbols[k].primitive => symbols[k].right \in Byte
PhaseOK == phase \in {"init", "pick", "refill", "fill", "start", "visit", "replace", "update", "done"}
TasksTyped ==
    /\ mutex \in Chunk \cup {NoTask}
    /\ task = [c \in Chunk |-> task[c]]
    /\ \A c \in Chunk : "pc" \in DOMAIN task[c] /\ task[c].pc \in {"todo", "loop", "done"}

(* What a step does to the symbols.                                        *)
LEMMA SymbolsStep ==
    ASSUME [Next]_vars
    PROVE  symbols' = symbols \/ InitSymbols \/ (phase = "start" /\ symbols' = Append(symbols, NewSymbol))
<1> USE DEF table, parallel, setting
<1>1. ASSUME NEW c \in Chunk, ChunkTask(c) PROVE symbols' = symbols
  BY <1>1 DEF ChunkTask, BeginNothing, Begin, LockTail, UnlockMiddle, ReplacePair, CopySymbol, EndChunk
<1>2. ASSUME NEW p \in DOMAIN cands, Pick(p) \/ RefillConsider(p) PROVE symbols' = symbols
  BY <1>2 DEF Pick, RefillConsider
<1>3. Stop \/ RefillNoMore \/ RefillFill \/ AllVisited \/ AllReplaced \/ Update => symbols' = symbols
  BY DEF Stop, RefillNoMore, RefillFill, AllVisited, AllReplaced, Update
<1>4. VisitIndex => symbols' = symbols
  BY DEF VisitIndex
<1>5. StartIdxCache \/ StartReplacePairs => phase = "start" /\ symbols' = Append(symbols, NewSymbol)
  BY DEF StartIdxCache, StartReplacePairs
<1>6. UNCHANGED vars => symbols' = symbols
  BY DEF vars
<1> QED
  BY <1>1, <1>2, <1>3, <1>4, <1>5, <1>6 DEF Next, Compress, Done

LEMMA PassSymbols ==
    ASSUME Types, phase = "start", symbols' = Append(symbols, NewSymbol)
    PROVE  /\ DOMAIN symbols' = DOMAIN symbols \cup {Len(symbols) + 1} /\ Len(symbols) \in Nat
           /\ \A k \in DOMAIN symbols : symbols'[k] = symbols[k]
           /\ symbols'[Len(symbols) + 1] = NewSymbol
           /\ {X, Y} \subseteq 0 .. Len(symbols) - 1
<1>1. PICK S : symbols \in Seq(S)
  BY DEF Types, IsList
<1>2. /\ DOMAIN symbols' = DOMAIN symbols \cup {Len(symbols) + 1} /\ Len(symbols) \in Nat
      /\ \A k \in DOMAIN symbols : symbols'[k] = symbols[k]
      /\ symbols'[Len(symbols) + 1] = NewSymbol
  <2> DEFINE z == NewSymbol
  <2>1. symbols \in Seq(S \cup {z}) /\ symbols' = Append(symbols, z)
    BY <1>1
  <2> HIDE DEF z
  <2>2. /\ DOMAIN symbols = 1 .. Len(symbols) /\ Len(symbols) \in Nat
        /\ DOMAIN symbols' = 1 .. Len(symbols) + 1
        /\ \A k \in 1 .. Len(symbols) : symbols'[k] = symbols[k]
        /\ symbols'[Len(symbols) + 1] = z
    BY <2>1
  <2> QED
    BY <2>2 DEF z
<1>3. cur \in Pairs(Len(symbols))
  BY DEF Types, Refilling, Replacing, Known
<1> QED
  BY <1>2, <1>3 DEF Pairs, X, Y

LEMMA OlderNext == ASSUME Types, Older, [Next]_vars PROVE Older'
<1>1. CASE symbols' = symbols
  BY <1>1 DEF Older
<1>2. CASE InitSymbols
  <2>1. \E q : symbols' = [k \in 1 .. Len(q) |-> Primitive(q[k])]
    BY <1>2 DEF InitSymbols
  <2> QED
    BY <2>1 DEF Older, Primitive
<1>3. CASE phase = "start" /\ symbols' = Append(symbols, NewSymbol)
  <2>1. /\ DOMAIN symbols' = DOMAIN symbols \cup {Len(symbols) + 1} /\ Len(symbols) \in Nat
        /\ \A k \in DOMAIN symbols : symbols'[k] = symbols[k]
        /\ symbols'[Len(symbols) + 1] = NewSymbol
        /\ {X, Y} \subseteq 0 .. Len(symbols) - 1
    BY <1>3, PassSymbols
  <2>2. NewSymbol.left = X /\ NewSymbol.right = Y
    BY DEF NewSymbol, Composite
  <2>3. Len(symbols) - 1 = (Len(symbols) + 1) - 2
    BY <2>1
  <2> QED
    BY <2>1, <2>2, <2>3 DEF Older
<1> QED
  BY <1>1, <1>2, <1>3, SymbolsStep

LEMMA BytesNext == ASSUME Inv, Sound, Types, Bytes, [Next]_vars PROVE Bytes'
<1>1. CASE symbols' = symbols
  BY <1>1 DEF Bytes
<1>2. CASE InitSymbols
  <2> DEFINE V == {SymbolAt(arr, i) : i \in Index}
             bytes == Ascending(V)
  <2>1. V \subseteq Byte
    BY <1>2, InitSymbolsKeeps
  <2>2. IsFiniteSet(V)
    BY FiniteBytes DEF Inv
  <2>3. symbols' = [k \in 1 .. Len(bytes) |-> Primitive(bytes[k])]
    BY <1>2 DEF InitSymbols
  <2> HIDE DEF V
  <2>4. V \in SUBSET Nat
    BY <2>1, WordType DEF Byte
  <2>5. \A k \in 1 .. Len(bytes) : bytes[k] \in Byte
    BY <2>1, <2>2, <2>4, RanksInto
  <2> HIDE DEF bytes
  <2> QED
    BY <2>3, <2>5 DEF Bytes, Primitive
<1>3. CASE phase = "start" /\ symbols' = Append(symbols, NewSymbol)
  <2>1. ~NewSymbol.primitive
    BY DEF NewSymbol, Composite
  <2> QED
    BY <1>3, <2>1, PassSymbols DEF Bytes
<1> QED
  BY <1>1, <1>2, <1>3, SymbolsStep

LEMMA PhaseNext == ASSUME PhaseOK, [Next]_vars PROVE PhaseOK'
<1> USE DEF PhaseOK
<1>1. ASSUME NEW c \in Chunk, ChunkTask(c) PROVE phase' = phase
  BY <1>1 DEF ChunkTask, BeginNothing, Begin, LockTail, UnlockMiddle, ReplacePair, CopySymbol, EndChunk
<1>2. ASSUME NEW p \in DOMAIN cands, Pick(p) \/ RefillConsider(p) PROVE PhaseOK'
  BY <1>2 DEF Pick, RefillConsider
<1>3. InitSymbols \/ Stop \/ RefillNoMore \/ RefillFill \/ AllVisited \/ AllReplaced \/ Update => PhaseOK'
  BY DEF InitSymbols, Stop, RefillNoMore, RefillFill, AllVisited, AllReplaced, Update
<1>4. VisitIndex => phase' = phase
  BY DEF VisitIndex
<1>5. StartIdxCache \/ StartReplacePairs => PhaseOK'
  BY DEF StartIdxCache, StartReplacePairs
<1>6. UNCHANGED vars => phase' = phase
  BY DEF vars
<1> QED
  BY <1>1, <1>2, <1>3, <1>4, <1>5, <1>6 DEF Next, Compress, Done

LEMMA TasksNext == ASSUME TasksTyped, [Next]_vars PROVE TasksTyped'
<1> USE DEF parallel
<1>1. Chunk' = Chunk
  BY ShapeSame DEF Chunk, NChunks, CeilDiv, Size, ChunkSize
<1>2. ASSUME task' = task, mutex' = mutex PROVE TasksTyped'
  BY <1>1, <1>2 DEF TasksTyped
<1>3. ASSUME NEW c \in Chunk, NEW t, task' = [task EXCEPT ![c] = t], mutex' \in {mutex, c, NoTask},
             "pc" \in DOMAIN t, t.pc \in {"todo", "loop", "done"}
      PROVE  TasksTyped'
  BY <1>1, <1>3 DEF TasksTyped
<1>4. ASSUME StartReplacePairs PROVE TasksTyped'
  <2>1. task' = [c \in Chunk |-> [pc |-> "todo"]] /\ mutex' = NoTask
    BY <1>4 DEF StartReplacePairs
  <2> QED
    BY <1>1, <2>1 DEF TasksTyped
<1>5. ASSUME NEW c \in Chunk, ChunkTask(c) PROVE TasksTyped'
  <2>1. CASE BeginNothing(c) \/ EndChunk(c)
    <3> DEFINE t == [pc |-> "done"]
    <3>1. task' = [task EXCEPT ![c] = t] /\ mutex' \in {mutex, NoTask}
      BY <2>1 DEF BeginNothing, EndChunk
    <3>2. "pc" \in DOMAIN t /\ t.pc = "done"
      OBVIOUS
    <3> HIDE DEF t
    <3> QED
      BY <1>3, <3>1, <3>2
  <2>2. CASE Begin(c)
    <3> DEFINE first == FirstIn(arr, c)
               straddled == first.idx # Beg(c) /\ Beg(c) > 0 /\ Used(arr, Beg(c) - 1)
               out == IF straddled THEN Beg(c) + 1 ELSE Beg(c)
               val == GetSymbol(arr, first)
               after == IF skipFirst[c] THEN PutSymbol(arr, out, val) ELSE arr
               itX == IF skipFirst[c] THEN MoveToNext(arr, first) ELSE first
               t == Fresh(after, itX, IF skipFirst[c] THEN PutEnd(out, val) ELSE out,
                          SymbolAt(after, MoveToPrev(after, itX)), EndLock(after, c))
    <3>1. task' = [task EXCEPT ![c] = t] /\ mutex' = c
      BY <2>2 DEF Begin, Fresh
    <3>2. "pc" \in DOMAIN t /\ t.pc = "loop"
      BY DEF Fresh
    <3> HIDE DEF t
    <3> QED
      BY <1>3, <3>1, <3>2
  <2>3. CASE LockTail(c) \/ UnlockMiddle(c)
    <3>1. task' = task /\ mutex' \in {c, NoTask}
      BY <2>3 DEF LockTail, UnlockMiddle
    <3> QED
      BY <1>1, <3>1 DEF TasksTyped
  <2>4. CASE ReplacePair(c) \/ CopySymbol(c)
    <3>1. "pc" \in DOMAIN task[c] /\ task[c].pc \in {"todo", "loop", "done"}
      BY DEF TasksTyped
    <3>2. CASE ReplacePair(c)
      <4> DEFINE t == AfterReplace(arr', task[c], PutEnd(task[c].out, Z), Z)
      <4>1. task' = [task EXCEPT ![c] = t] /\ mutex' = mutex
        BY <3>2 DEF ReplacePair, AfterReplace
      <4>2. "pc" \in DOMAIN t /\ t.pc = task[c].pc
        BY <3>1 DEF AfterReplace
      <4> HIDE DEF t
      <4> QED
        BY <1>3, <3>1, <4>1, <4>2
    <3>3. CASE CopySymbol(c)
      <4> DEFINE t == AfterCopy(arr', task[c], PutEnd(task[c].out, task[c].x))
      <4>1. task' = [task EXCEPT ![c] = t] /\ mutex' = mutex
        BY <3>3 DEF CopySymbol, AfterCopy
      <4>2. "pc" \in DOMAIN t /\ t.pc = task[c].pc
        BY <3>1 DEF AfterCopy
      <4> HIDE DEF t
      <4> QED
        BY <1>3, <3>1, <4>1, <4>2
    <3> QED
      BY <2>4, <3>2, <3>3
  <2> QED
    BY <1>5, <2>1, <2>2, <2>3, <2>4 DEF ChunkTask
<1>6. ASSUME NEW p \in DOMAIN cands, Pick(p) \/ RefillConsider(p) PROVE task' = task /\ mutex' = mutex
  BY <1>6 DEF Pick, RefillConsider
<1>7. InitSymbols \/ Stop \/ RefillNoMore \/ RefillFill \/ AllVisited \/ AllReplaced \/ Update
        => task' = task /\ mutex' = mutex
  BY DEF InitSymbols, Stop, RefillNoMore, RefillFill, AllVisited, AllReplaced, Update
<1>8. StartIdxCache \/ VisitIndex => task' = task /\ mutex' = mutex
  BY DEF StartIdxCache, VisitIndex
<1>9. UNCHANGED vars => task' = task /\ mutex' = mutex
  BY DEF vars
<1> QED
  BY <1>2, <1>4, <1>5, <1>6, <1>7, <1>8, <1>9 DEF Next, Compress, Done

(* What holds without any condition.                                       *)
Kept0 == ShapeOK /\ Types /\ Accounted /\ Older /\ PhaseOK /\ TasksTyped
LEMMA KeptInit == Init => Inv /\ Kept0 /\ Bytes
<1> SUFFICES ASSUME Init PROVE Inv /\ Kept0 /\ Bytes
  OBVIOUS
<1>1. Inv /\ ShapeOK /\ Types /\ Accounted
  BY InitInv, TypesInit, AccountedInit DEF Inv
<1>2. symbols = <<>> /\ phase = "init" /\ mutex = NoTask /\ task = [c \in Chunk |-> [pc |-> "done"]]
  BY DEF Init
<1>3. DOMAIN symbols = {}
  BY <1>2
<1>4. TasksTyped
  BY <1>2 DEF TasksTyped
<1> QED
  BY <1>1, <1>2, <1>3, <1>4 DEF Kept0, Older, Bytes, PhaseOK

LEMMA KeptNext == Kept0 /\ [Next]_vars => Kept0'
  BY ShapeStays, TypesNext, AccountedNext, OlderNext, PhaseNext, TasksNext DEF Kept0

LEMMA TypesSafe == Inv /\ Kept0 /\ Bytes /\ RangesSound => TypeOK
<1> SUFFICES ASSUME Inv, Kept0, Bytes, RangesSound PROVE TypeOK
  OBVIOUS
<1>1. Len(symbols) \in Nat
  BY ListLength DEF Kept0, Types
<1>2. DOMAIN cands \subseteq (0 .. Len(symbols) - 1) \X (0 .. Len(symbols) - 1)
  <2>1. Pairs(Known) \subseteq (0 .. Len(symbols) - 1) \X (0 .. Len(symbols) - 1)
    BY <1>1 DEF Pairs, Known, Z
  <2> QED
    BY <2>1 DEF Kept0, Types
<1>3. cacheSize \in Nat
  BY SizeFacts DEF Kept0, Types, Accounted, CacheSizeExact
<1>4. \A p \in DOMAIN cands : cands[p].freq \in Int
  BY DEF Kept0, Types, CandsOK, CandOK
<1>5. \A k \in DOMAIN symbols : IF symbols[k].primitive THEN symbols[k].right \in Byte
                                ELSE {symbols[k].left, symbols[k].right} \subseteq 0 .. k - 2
  BY DEF Kept0, Older, Bytes
<1>6. arr \in SymbolArrays /\ comprSize \in Int /\ toCache \subseteq DOMAIN cands
  BY DEF Inv, Kept0, Types, Accounted
<1> QED
  BY <1>2, <1>3, <1>4, <1>5, <1>6 DEF TypeOK, Kept0, PhaseOK, TasksTyped

(* Whatever is compressed, in chunks of any number of words: no iteration of*)
(* replacePairs that runs without the mutex touches a word of usedIdx that  *)
(* another task could be changing, or changes one that another could be     *)
(* reading, and skipFirst is written under the mutex only, as long as the   *)
(* used ranges of the chunks are sound.                                     *)
THEOREM RaceFree == Spec /\ []RangesSound => []MutexDiscipline
<1>1. Init => Inv /\ Kept0
  BY KeptInit
<1>2. Kept0 /\ [Next]_vars => Kept0'
  BY KeptNext
<1>3. Kept0 /\ RangesSound => Sound
  BY SoundNow DEF Kept0
<1>5. Inv /\ Sound /\ Sound' /\ [Next]_vars => Inv'
  BY NextKeeps
<1>6. Inv /\ Sound => MutexDiscipline
  BY InvSafe
<1> QED
  BY <1>1, <1>2, <1>3, <1>5, <1>6, PTL DEF Spec

(* However long it runs, with sound ranges compress makes symbols of bytes  *)
(* and of pairs of older symbols only, so every symbol can be unfolded;     *)
(* candidates are pairs of symbols there are, and the number of cached      *)
(* positions does not fall below zero.                                      *)
THEOREM TypeCorrect == Spec /\ []RangesSound => []TypeOK
<1>1. Init => Inv /\ Kept0 /\ Bytes
  BY KeptInit
<1>2. Kept0 /\ [Next]_vars => Kept0'
  BY KeptNext
<1>3. Kept0 /\ RangesSound => Sound
  BY SoundNow DEF Kept0
<1>5. Inv /\ Sound /\ Sound' /\ [Next]_vars => Inv'
  BY NextKeeps
<1>6. Inv /\ Kept0 /\ Sound /\ Bytes /\ [Next]_vars => Bytes'
  BY BytesNext DEF Kept0
<1>7. Inv /\ Kept0 /\ Bytes /\ RangesSound => TypeOK
  BY TypesSafe
<1> QED
  BY <1>1, <1>2, <1>3, <1>5, <1>6, <1>7, PTL DEF Spec

(***************************************************************************)
(* Every step leaves less to do.                                           *)
(***************************************************************************)
LEMMA LaterPhases ==
    /\ Later("init", "pick") /\ Later("visit", "update") /\ Later("replace", "update")
    /\ Later("update", "pick") /\ Later("pick", "refill") /\ Later("pick", "start")
    /\ Later("pick", "done") /\ Later("refill", "fill") /\ Later("fill", "start")
<1>1. DOMAIN Phases = 1 .. 9
  BY DEF Phases
<1>2. /\ Phases[1] = "init" /\ Phases[2] = "visit" /\ Phases[3] = "replace" /\ Phases[4] = "update"
      /\ Phases[5] = "pick" /\ Phases[6] = "refill" /\ Phases[7] = "fill" /\ Phases[8] = "start"
      /\ Phases[9] = "done"
  BY DEF Phases
<1>3. /\ 1 \in 1 .. 9 /\ 2 \in 1 .. 9 /\ 3 \in 1 .. 9 /\ 4 \in 1 .. 9 /\ 5 \in 1 .. 9 /\ 6 \in 1 .. 9
      /\ 7 \in 1 .. 9 /\ 8 \in 1 .. 9 /\ 9 \in 1 .. 9
      /\ 1 < 5 /\ 2 < 4 /\ 3 < 4 /\ 4 < 5 /\ 5 < 6 /\ 5 < 8 /\ 5 < 9 /\ 6 < 7 /\ 7 < 8
  OBVIOUS
<1> HIDE DEF Phases
<1> QED
  BY <1>1, <1>2, <1>3, Zenon DEF Later

(* A pass that begins makes one symbol.                                    *)
LEMMA FewerSymbols ==
    ASSUME Inv, phase = "start", symbols' = Append(symbols, NewSymbol)
    PROVE  Fewer(SymbolsToCome', SymbolsToCome)
<1>1. PICK S : symbols \in Seq(S)
  BY DEF Inv, SymbolsOK
<1>2. Len(symbols') = Len(symbols) + 1 /\ Len(symbols) \in Nat
  BY <1>1, Longer
<1>3. Len(symbols) < MaxSyms /\ MaxSyms \in Nat
  BY RePairAssumption DEF Inv, SymbolsOK
<1>4. Len(symbols) + 1 \in SymbolsToCome /\ Len(symbols) + 1 \notin SymbolsToCome'
  BY <1>2, <1>3 DEF SymbolsToCome
<1>5. SymbolsToCome' \subseteq SymbolsToCome
  BY <1>2, <1>3 DEF SymbolsToCome
<1> QED
  BY <1>4, <1>5 DEF Fewer

(* A step of one task.                                                     *)
LEMMA OneTask ==
    ASSUME ShapeOK, shape' = shape, phase = "replace", phase' = "replace", NEW c \in Chunk,
           task = [d \in Chunk |-> task[d]], NEW t, task' = [task EXCEPT ![c] = t],
           \A i \in -1 .. Size : WillPass(c, i)' => WillPass(c, i),
           NEW i \in -1 .. Size, WillPass(c, i), ~WillPass(c, i)'
    PROVE  Fewer(StepsToCome', StepsToCome)
<1>1. Size' = Size /\ Chunk' = Chunk
  BY DEF Size, Chunk, NChunks, ChunkSize, CeilDiv
<1>2. /\ StepsToCome = {s \in Chunk \X (-1 .. Size) : WillPass(s[1], s[2])}
      /\ StepsToCome' = {s \in Chunk \X (-1 .. Size) : WillPass(s[1], s[2])'}
  BY <1>1 DEF StepsToCome
<1>3. \A d \in Chunk : \A j \in -1 .. Size : WillPass(d, j)' => WillPass(d, j)
  <2> TAKE d \in Chunk
  <2>1. CASE d = c
    BY <2>1
  <2>2. CASE d # c
    <3>1. task'[d] = task[d]
      BY <2>2
    <3> QED
      BY <1>1, <3>1 DEF WillPass
  <2> QED
    BY <2>1, <2>2
<1>4. StepsToCome' \subseteq StepsToCome
  BY <1>2, <1>3
<1>5. <<c, i>> \in StepsToCome /\ <<c, i>> \notin StepsToCome'
  BY <1>2
<1> QED
  BY <1>4, <1>5 DEF Fewer

LEMMA TaskAdvances ==
    ASSUME Inv, Inv', NEW c \in Chunk, ChunkTask(c)
    PROVE  Advances
<1> DEFINE t == task[c]
<1>1. phase = "replace" /\ phase' = "replace" /\ shape' = shape /\ symbols' = symbols
  BY DEF ChunkTask, BeginNothing, Begin, LockTail, UnlockMiddle, ReplacePair, CopySymbol,
         EndChunk, CanStep, InLoop, setting, table
<1>2. ShapeOK /\ TasksOK(arr, task, mutex) /\ Size \in Nat /\ arr \in SymbolArrays
  BY <1>1, Numbers DEF Inv
<1>3. Size' = Size /\ Chunk' = Chunk
  BY <1>1 DEF Size, Chunk, NChunks, ChunkSize, CeilDiv
<1>4. task = [d \in Chunk |-> task[d]]
  BY <1>2 DEF TasksOK
<1>5. ASSUME Fewer(StepsToCome', StepsToCome) PROVE Advances
  BY <1>1, <1>5 DEF Advances
<1>6. ASSUME Loop(task, c)
      PROVE  /\ t.idxX \in Nat /\ t.idxY \in Nat /\ t.idxB \in Nat
             /\ t.idxX < t.idxY /\ t.idxX < t.idxB /\ arr.end[c] \in 0 .. Size
  <2>1. TaskType(t) /\ Window(arr, c, t)
    BY <1>2, <1>6 DEF TasksOK, TaskOK
  <2>2. t.idxX \in Nat /\ t.idxY \in Nat /\ t.idxB \in Nat
    BY <2>1 DEF TaskType
  <2>3. t.idxX < t.idxY /\ t.idxY < t.idxB
    BY <2>1 DEF Window
  <2>4. arr.end[c] \in 0 .. Size
    BY <1>2 DEF SymbolArrays
  <2> HIDE DEF t
  <2> QED
    BY <2>2, <2>3, <2>4
<1>7. CASE BeginNothing(c)
  <2>1. t.pc = "todo" /\ task' = [task EXCEPT ![c] = [pc |-> "done"]]
    BY <1>7 DEF BeginNothing
  <2>2. task'[c].pc = "done"
    BY <1>4, <2>1
  <2>3. \A i \in -1 .. Size : WillPass(c, i) /\ ~WillPass(c, i)'
    BY <2>1, <2>2 DEF WillPass
  <2>4. -1 \in -1 .. Size
    BY <1>2
  <2> QED
    BY <1>1, <1>2, <1>4, <1>5, <2>1, <2>3, <2>4, OneTask
<1>8. CASE Begin(c)
  <2>1. t.pc = "todo" /\ \E t2 : task' = [task EXCEPT ![c] = t2] /\ t2.pc = "loop"
    <3> DEFINE first == FirstIn(arr, c)
               straddled == first.idx # Beg(c) /\ Beg(c) > 0 /\ Used(arr, Beg(c) - 1)
               out == IF straddled THEN Beg(c) + 1 ELSE Beg(c)
               val == GetSymbol(arr, first)
               after == IF skipFirst[c] THEN PutSymbol(arr, out, val) ELSE arr
               itX == IF skipFirst[c] THEN MoveToNext(arr, first) ELSE first
               fresh == Fresh(after, itX, IF skipFirst[c] THEN PutEnd(out, val) ELSE out,
                              SymbolAt(after, MoveToPrev(after, itX)), EndLock(after, c))
    <3>1. task' = [task EXCEPT ![c] = fresh]
      BY <1>8 DEF Begin, Fresh
    <3>2. t.pc = "todo"
      BY <1>8 DEF Begin
    <3>3. fresh.pc = "loop"
      BY DEF Fresh
    <3> HIDE DEF fresh
    <3> QED
      BY <3>1, <3>2, <3>3
  <2>2. PICK t2 : task' = [task EXCEPT ![c] = t2] /\ t2.pc = "loop"
    BY <2>1
  <2>3. task'[c] = t2
    BY <1>4, <2>2
  <2>4. t2.idxX \in Nat
    <3>1. TasksOK(arr, task, mutex)'
      BY <1>1 DEF Inv
    <3>2. TaskType(task'[c])
      BY <1>3, <2>2, <2>3, <3>1 DEF TasksOK, TaskOK, Loop
    <3> QED
      BY <2>3, <3>2 DEF TaskType
  <2>5. \A i \in -1 .. Size : WillPass(c, i)
    BY <2>1 DEF WillPass
  <2>6. ~WillPass(c, -1)'
    <3>1. ~(-1 >= t2.idxX) /\ -1 # Size
      BY <1>2, <2>4
    <3> QED
      BY <1>3, <2>2, <2>3, <3>1 DEF WillPass
  <2>7. -1 \in -1 .. Size
    BY <1>2
  <2> QED
    BY <1>1, <1>2, <1>4, <1>5, <2>2, <2>5, <2>6, <2>7, OneTask
<1>9. CASE CopySymbol(c) \/ ReplacePair(c)
  <2>1. /\ Loop(task, c) /\ t.idxX < arr.end[c]
        /\ \E t2 : /\ task' = [task EXCEPT ![c] = t2]
                   /\ t2.pc = t.pc /\ (t2.idxX = t.idxY \/ t2.idxX = t.idxB)
    <3>1. Loop(task, c) /\ t.idxX < arr.end[c]
      BY <1>9 DEF CopySymbol, ReplacePair, CanStep, InLoop, Loop
    <3>2. TaskType(t)
      BY <1>2, <3>1 DEF TasksOK, TaskOK
    <3>3. CASE CopySymbol(c)
      <4>1. task' = [task EXCEPT ![c] = AfterCopy(arr', t, PutEnd(t.out, t.x))]
        BY <3>3 DEF CopySymbol, AfterCopy
      <4>2. /\ AfterCopy(arr', t, PutEnd(t.out, t.x)).pc = t.pc
            /\ AfterCopy(arr', t, PutEnd(t.out, t.x)).idxX = t.idxY
        <5> HIDE DEF t
        <5> QED
          BY <3>2 DEF AfterCopy, TaskType
      <4> QED
        BY <3>1, <4>1, <4>2
    <3>4. CASE ReplacePair(c)
      <4>1. task' = [task EXCEPT ![c] = AfterReplace(arr', t, PutEnd(t.out, Z), Z)]
        BY <3>4 DEF ReplacePair, AfterReplace
      <4>2. /\ AfterReplace(arr', t, PutEnd(t.out, Z), Z).pc = t.pc
            /\ AfterReplace(arr', t, PutEnd(t.out, Z), Z).idxX = t.idxB
        <5> HIDE DEF t
        <5> QED
          BY <3>2 DEF AfterReplace, TaskType
      <4> QED
        BY <3>1, <4>1, <4>2
    <3> QED
      BY <1>9, <3>3, <3>4
  <2>2. PICK t2 : /\ task' = [task EXCEPT ![c] = t2]
                  /\ t2.pc = t.pc /\ (t2.idxX = t.idxY \/ t2.idxX = t.idxB)
    BY <2>1
  <2>3. task'[c] = t2
    BY <1>4, <2>2
  <2>4. t.pc = "loop" /\ t2.pc = "loop"
    BY <2>1, <2>2 DEF Loop
  <2>5. /\ t.idxX \in Nat /\ t2.idxX \in Nat /\ t.idxX < t2.idxX /\ t.idxX < Size
    BY <1>2, <1>6, <2>1, <2>2
  <2>6. ASSUME NEW i \in -1 .. Size
        PROVE  /\ WillPass(c, i) <=> (i >= t.idxX \/ i = Size)
               /\ WillPass(c, i)' <=> (i >= t2.idxX \/ i = Size)
    <3>1. task[c].pc = "loop" /\ task'[c].pc = "loop" /\ task'[c].idxX = t2.idxX
      BY <2>3, <2>4
    <3> QED
      BY <1>3, <3>1 DEF WillPass
  <2>7. PICK k \in -1 .. Size : k = t.idxX
    BY <1>2, <2>5
  <2> HIDE DEF t
  <2>8. \A i \in -1 .. Size : WillPass(c, i)' => WillPass(c, i)
    BY <1>2, <2>5, <2>6
  <2>9. WillPass(c, k) /\ ~WillPass(c, k)'
    <3>1. ~(k >= t2.idxX) /\ k # Size /\ k >= t.idxX
      BY <1>2, <2>5, <2>7
    <3> QED
      BY <2>6, <3>1
  <2> QED
    BY <1>1, <1>2, <1>4, <1>5, <2>2, <2>7, <2>8, <2>9, OneTask
<1>10. CASE EndChunk(c)
  <2>1. t.pc = "loop" /\ task' = [task EXCEPT ![c] = [pc |-> "done"]]
    BY <1>10 DEF EndChunk
  <2>2. task'[c].pc = "done"
    BY <1>4, <2>1
  <2>3. \A i : ~WillPass(c, i)'
    BY <2>2 DEF WillPass
  <2>4. PICK k \in -1 .. Size : k = Size
    BY <1>2
  <2>5. WillPass(c, k)
    BY <2>1, <2>4 DEF WillPass
  <2> QED
    BY <1>1, <1>2, <1>4, <1>5, <2>1, <2>3, <2>5, OneTask
<1>11. CASE LockTail(c) \/ UnlockMiddle(c)
  <2>1. task' = task /\ arr' = arr /\ InLoop(c)
    BY <1>11 DEF LockTail, UnlockMiddle
  <2>2. StepsToCome' = StepsToCome
    BY <1>1, <1>3, <2>1 DEF StepsToCome, WillPass
  <2>3. /\ \A d \in Chunk : InLoop(d)' <=> InLoop(d)
        /\ \A d \in Chunk : NeedsMutex(d)' <=> NeedsMutex(d)
        /\ \A d \in Chunk : GivesMutex(d)' <=> GivesMutex(d)
    BY <1>1, <2>1 DEF InLoop, NeedsMutex, GivesMutex, Beg, ChunkSize
  <2>0. NoTask \notin Chunk
    BY <1>2, Chunks DEF NoTask
  <2>4. \/ NeedsMutex(c) /\ ~GivesMutex(c) /\ mutex # c /\ mutex' = c
        \/ GivesMutex(c) /\ ~NeedsMutex(c) /\ mutex = c /\ mutex' # c
    BY <1>11, <2>0 DEF LockTail, UnlockMiddle, GivesMutex
  <2>5. \A d \in Chunk \ {c} : mutex' = d <=> mutex = d
    BY <1>11, <2>0 DEF LockTail, UnlockMiddle
  <2>6. Waits(c) /\ ~Waits(c)' /\ \A d \in Chunk \ {c} : Waits(d)' <=> Waits(d)
    BY <2>3, <2>4, <2>5 DEF Waits
  <2>7. Waiting' = {d \in Chunk : InLoop(d)' /\ Waits(d)'}
    BY <1>3 DEF Waiting
  <2>8. Waiting' \subseteq Waiting /\ c \in Waiting /\ c \notin Waiting'
    BY <2>1, <2>3, <2>6, <2>7 DEF Waiting
  <2> QED
    BY <1>1, <2>2, <2>8 DEF Advances, Fewer
<1> QED
  BY <1>7, <1>8, <1>9, <1>10, <1>11 DEF ChunkTask

LEMMA NextAdvances == Inv /\ Inv' /\ Types /\ [Next]_vars => [Advances]_vars
<1> SUFFICES ASSUME Inv, Inv', Types, Next PROVE Advances \/ UNCHANGED vars
  OBVIOUS
<1> USE DEF table, parallel, setting
<1>1. ASSUME symbols' = symbols, Later(phase, phase') PROVE Advances
  <2>1. SymbolsToCome' = SymbolsToCome
    BY <1>1 DEF SymbolsToCome
  <2> QED
    BY <1>1, <2>1 DEF Advances
<1>2. ASSUME InitSymbols PROVE Advances
  <2>1. SymbolsToCome' \subseteq SymbolsToCome
    <3>1. Len(symbols) = 0
      BY <1>2 DEF Types, InitSymbols
    <3>2. Len(symbols') \in Nat
      BY Inv' DEF Inv, SymbolsOK
    <3>3. MaxSyms \in Nat
      BY RePairAssumption
    <3> QED
      BY <3>1, <3>2, <3>3 DEF SymbolsToCome
  <2>2. phase = "init" /\ phase' = "pick"
    BY <1>2 DEF InitSymbols
  <2> QED
    BY <2>1, <2>2, LaterPhases DEF Advances
<1>3. ASSUME \E p \in DOMAIN cands : Pick(p) PROVE Advances
  <2>1. symbols' = symbols /\ phase = "pick" /\ (phase' = "refill" \/ phase' = "start")
    BY <1>3 DEF Pick
  <2> QED
    BY <1>1, <2>1, LaterPhases
<1>4. ASSUME Stop PROVE Advances
  BY <1>1, <1>4, LaterPhases DEF Stop
<1>5. ASSUME NEW p \in DOMAIN cands, RefillConsider(p) PROVE Advances
  <2>1. PICK P : /\ phase = "refill" /\ p \in Uncached /\ cands' = Pruned(cands, P) /\ symbols' = symbols
                 /\ \/ toCache' = toCache \cup {p} /\ phase' = phase
                    \/ phase' = "fill" /\ toCache' = toCache
    BY <1>5 DEF RefillConsider, NextToCache
  <2>2. CASE phase' = "fill"
    BY <1>1, <2>1, <2>2, LaterPhases
  <2>3. CASE toCache' = toCache \cup {p} /\ phase' = phase
    <3>1. DOMAIN cands' = DOMAIN cands
      BY <2>1, PrunedOK DEF Types
    <3>2. StepsToCome = DOMAIN cands \ toCache /\ StepsToCome' = DOMAIN cands \ (toCache \cup {p})
      BY <2>1, <2>3, <3>1 DEF StepsToCome
    <3>3. p \in DOMAIN cands \ toCache
      BY <2>1 DEF Uncached
    <3>4. Fewer(StepsToCome', StepsToCome)
      BY <3>2, <3>3 DEF Fewer
    <3> QED
      BY <2>1, <2>3, <3>4 DEF Advances
  <2> QED
    BY <2>1, <2>2, <2>3
<1>6. ASSUME RefillNoMore PROVE Advances
  BY <1>1, <1>6, LaterPhases DEF RefillNoMore
<1>7. ASSUME RefillFill PROVE Advances
  BY <1>1, <1>7, LaterPhases DEF RefillFill
<1>8. ASSUME StartIdxCache \/ StartReplacePairs PROVE Advances
  <2>1. phase = "start" /\ symbols' = Append(symbols, NewSymbol)
    BY <1>8 DEF StartIdxCache, StartReplacePairs
  <2> QED
    BY <2>1, FewerSymbols DEF Advances
<1>9. ASSUME VisitIndex PROVE Advances
  <2>1. /\ phase = "visit" /\ phase' = phase /\ symbols' = symbols
        /\ toVisit # <<>> /\ toVisit' = Tail(toVisit)
    BY <1>9 DEF VisitIndex
  <2>2. Len(toVisit) \in Nat \ {0} /\ Len(toVisit') = Len(toVisit) - 1
    BY <2>1, RestOfList DEF Types
  <2>3. StepsToCome = 1 .. Len(toVisit) /\ StepsToCome' = 1 .. Len(toVisit')
    BY <2>1 DEF StepsToCome
  <2>4. StepsToCome' \subseteq StepsToCome /\ Len(toVisit) \in StepsToCome /\ Len(toVisit) \notin StepsToCome'
    BY <2>2, <2>3
  <2>5. Fewer(StepsToCome', StepsToCome)
    BY <2>4 DEF Fewer
  <2> QED
    BY <2>1, <2>5 DEF Advances
<1>10. ASSUME AllVisited PROVE Advances
  BY <1>1, <1>10, LaterPhases DEF AllVisited
<1>11. ASSUME AllReplaced PROVE Advances
  BY <1>1, <1>11, LaterPhases DEF AllReplaced
<1>12. ASSUME Update PROVE Advances
  BY <1>1, <1>12, LaterPhases DEF Update
<1>13. ASSUME NEW c \in Chunk, ChunkTask(c) PROVE Advances
  BY <1>13, TaskAdvances
<1> QED
  BY <1>2, <1>3, <1>4, <1>5, <1>6, <1>7, <1>8, <1>9, <1>10, <1>11, <1>12, <1>13 DEF Next, Compress, Done

(* Each of these sets is finite.                                           *)
LEMMA FinitelyMuch ==
    ASSUME Inv, Types
    PROVE  IsFiniteSet(SymbolsToCome) /\ IsFiniteSet(StepsToCome) /\ IsFiniteSet(Waiting)
<1>1. IsFiniteSet(SymbolsToCome)
  <2>1. PICK S : symbols \in Seq(S)
    BY DEF Inv, SymbolsOK
  <2>2. Len(symbols) + 1 \in Int /\ MaxSyms \in Int
    BY <2>1, RePairAssumption
  <2> QED
    BY <2>2, FS_Interval DEF SymbolsToCome
<1>2. IsFiniteSet(Chunk)
  BY Chunks, FS_Interval DEF Inv, Chunk
<1>3. IsFiniteSet(Waiting)
  BY <1>2, FS_Subset DEF Waiting
<1>4. CASE phase = "refill"
  <2>1. StepsToCome \subseteq DOMAIN cands
    BY <1>4 DEF StepsToCome
  <2> QED
    BY <1>1, <1>3, <2>1, FS_Subset DEF Types, CandsOK
<1>5. CASE phase = "visit"
  <2>1. StepsToCome = 1 .. Len(toVisit)
    BY <1>5 DEF StepsToCome
  <2>2. Len(toVisit) \in Int
    BY DEF Types, IsList
  <2> QED
    BY <1>1, <1>3, <2>1, <2>2, FS_Interval
<1>6. CASE phase = "replace"
  <2>1. StepsToCome \subseteq Chunk \X (-1 .. Size)
    BY <1>6 DEF StepsToCome
  <2>2. IsFiniteSet(-1 .. Size)
    BY Numbers, FS_Interval DEF Inv
  <2>3. IsFiniteSet(Chunk \X (-1 .. Size))
    BY <1>2, <2>2, FS_Product
  <2> QED
    BY <1>1, <1>3, <2>1, <2>3, FS_Subset
<1>7. CASE phase \notin {"refill", "visit", "replace"}
  <2>1. StepsToCome = {}
    BY <1>7 DEF StepsToCome
  <2> QED
    BY <1>1, <1>3, <2>1, FS_EmptySet
<1> QED
  BY <1>4, <1>5, <1>6, <1>7

(* Whatever is compressed, and in whatever order the tasks run, each step   *)
(* of compress begins a pass of which there are finitely many, a later phase*)
(* of the pass, or leaves less of finitely many things to do in it: a pair  *)
(* to consider, a cached position, a symbol of a chunk, or a task that has  *)
(* to take or give back the mutex.                                          *)
THEOREM Advancing ==
    Spec /\ []RangesSound =>
        EveryStepAdvances /\ [](IsFiniteSet(SymbolsToCome) /\ IsFiniteSet(StepsToCome) /\ IsFiniteSet(Waiting))
<1>1. Init => Inv /\ Kept0
  BY KeptInit
<1>2. Kept0 /\ [Next]_vars => Kept0'
  BY KeptNext
<1>3. Kept0 /\ RangesSound => Sound
  BY SoundNow DEF Kept0
<1>4. Inv /\ Sound /\ Sound' /\ [Next]_vars => Inv'
  BY NextKeeps
<1>5. Inv /\ Inv' /\ Kept0 /\ [Next]_vars => [Advances]_vars
  BY NextAdvances DEF Kept0
<1>6. Inv /\ Kept0 => IsFiniteSet(SymbolsToCome) /\ IsFiniteSet(StepsToCome) /\ IsFiniteSet(Waiting)
  BY FinitelyMuch DEF Kept0
<1> QED
  BY <1>1, <1>2, <1>3, <1>4, <1>5, <1>6, PTL DEF Spec, EveryStepAdvances

(* With sound ranges the array stays well formed, in every phase of every   *)
(* pass: no used byte lies outside it, and no chunk's range ends more than  *)
(* one byte inside the next chunk, however the tasks interleave.            *)
THEOREM ArrayWellFormed == Spec /\ []RangesSound => [](arr \in SymbolArrays /\ Sizes(arr))
<1>1. Init => Inv /\ Kept0
  BY KeptInit
<1>2. Kept0 /\ [Next]_vars => Kept0'
  BY KeptNext
<1>3. Kept0 /\ RangesSound => Sound
  BY SoundNow DEF Kept0
<1>4. Inv /\ Sound /\ Sound' /\ [Next]_vars => Inv'
  BY NextKeeps
<1>5. Inv => arr \in SymbolArrays /\ Sizes(arr)
  BY DEF Inv
<1> QED
  BY <1>1, <1>2, <1>3, <1>4, <1>5, PTL DEF Spec
=============================================================================
