-------------------------- MODULE TransTableProofs --------------------------
(* What a probe finds was inserted for the position probed (ProbeFaithful), *)
(* and no thread writes to an endgame table in use (TbIntact): for any      *)
(* threads, positions, contempts and sizes.                                 *)
EXTENDS TransTable, FiniteSetTheorems, WellFoundedInduction, TLAPS

(***************************************************************************)
(* The inductive invariant.                                                *)
(***************************************************************************)
(* What may be stored about the position of a key.                          *)
KeyOffers(key) == Offers(CHOOSE k \in Keys : k \in key)
Genuine(key, d) ==
    /\ d \in DataWords
    /\ \E o \in KeyOffers(key) : d.score = o.score /\ d.depth = o.depth /\ d.type = o.type
    /\ \E o \in KeyOffers(key) : d.move = o.move
(* What an insert was asked to store.                                       *)
OfferType == [move : Moves, score : Int, depth : Nat, type : Types, ply : Nat, busy : BOOLEAN]
Offered(key, o) ==
    /\ o \in OfferType
    /\ \E p \in KeyOffers(key) :
          SetScore(o.score, o.ply) = p.score /\ o.depth = p.depth /\ o.type = p.type
    /\ \E p \in KeyOffers(key) : o.move = p.move

(* The words that may be in the place of a key: an empty entry's, those of  *)
(* an endgame table, and the coded keys of genuine entries.                 *)
TbEntries == [material : Materials, entry : Nat]
IsKeyWord(word) ==
    \/ word = {}
    \/ \E e \in word : e \in TbEntries /\ word = {e}
    \/ \E key \in HashKeys, d \in word : Genuine(key, d) /\ word = Coded(key, d)
IsWord(w, word) == IF w = "key" THEN IsKeyWord(word) ELSE word \in DataWords

Sizes ==
    /\ \E s \in TableSizes : /\ DOMAIN table = 0 .. s - 1
                             /\ usedSize \in 0 .. s
    /\ 2 * usedSize >= TopLimit * Ways
    /\ tbGen.complete => usedSize <= TableSize - TbSize
Settings ==
    /\ generation \in Nat
    /\ contemptHash \in ContemptHashes
    /\ tbGen = NoTable \/ tbGen \in [material : Materials, words : DataWords, complete : BOOLEAN]
Contents ==
    \A i \in DOMAIN table : /\ DOMAIN table[i] = Words
                            /\ IsKeyWord(table[i].key) /\ table[i].data \in DataWords

(* What a thread may know while it looks for its entry, when it has found   *)
(* what to store, and when it has found what it was looking for.            *)
CallFields == {"pc", "what", "key", "offer", "i", "word", "value", "at", "ent"}
IsCall(th) ==
    /\ DOMAIN th = CallFields
    /\ th.pc \in {"load", "store", "found"} /\ th.what \in {"insert", "probe"}
    /\ th.key \in HashKeys /\ th.word \in Words \cup {NoWord}
    /\ th.what = "insert" => th.pc # "found" /\ Offered(th.key, th.offer)
    /\ th.what = "probe" => \E k \in Keys : th.key = Xor({k}, contemptHash)
Loading(th) ==
    /\ th.i \in 0 .. Ways - 1
    /\ th.word \in Words => IsWord(th.word, th.value)
    /\ th.what = "insert" /\ th.i > 0 =>
          /\ th.at \in 0 .. usedSize - 1 /\ th.ent.data \in DataWords
          /\ th.ent.key \in HashKeys => Genuine(th.ent.key, th.ent.data)
Known(th) ==
    /\ th.ent.key = th.key /\ Genuine(th.key, th.ent.data)
    /\ th.pc = "store" => th.at \in 0 .. usedSize - 1
IsThread(th) ==
    \/ th = Idle
    \/ IsCall(th) /\ IF th.pc = "load" THEN Loading(th) ELSE Known(th)
Calls ==
    /\ DOMAIN thread = Threads
    /\ \A t \in Threads : IsThread(thread[t])
    /\ phase = "setup" => \A t \in Threads : thread[t] = Idle

IInv == Sizes /\ Settings /\ Contents /\ Calls /\ TbIntact

(***************************************************************************)
(* Powers of two and the index of a bucket.                                *)
(***************************************************************************)
(* A nonempty set of natural numbers has a least element.                   *)
LEMMA Least ==
    ASSUME NEW T \in SUBSET Nat, T # {}
    PROVE  \E x \in T : \A y \in T : x <= y
<1> DEFINE R == OpToRel(<, Nat)
<1>1. IsWellFoundedOn(R, Nat)
  BY NatLessThanWellFounded
<1>2. \A x, y \in Nat : y < x => <<y, x>> \in R
  BY Zenon DEF OpToRel
<1> HIDE DEF R
<1>3. \E x \in T : \A y \in T : ~ (<<y, x>> \in R)
  BY <1>1, WFMin
<1>4. PICK x \in T : \A y \in T : ~ (<<y, x>> \in R)
  BY <1>3, Zenon
<1>5. ASSUME NEW y \in T PROVE x <= y
  <2>1. ~ (<<y, x>> \in R)
    BY <1>4, Zenon
  <2>2. x \in Nat /\ y \in Nat
    OBVIOUS
  <2>3. ~(y < x)
    BY <1>2, <2>1, <2>2, Zenon
  <2> QED
    BY <2>2, <2>3
<1> QED
  BY <1>5

(* Induction, for a property given as the set of the numbers that have it.  *)
LEMMA Induction ==
    ASSUME NEW S, 0 \in S, \A n \in Nat : n \in S => n + 1 \in S
    PROVE  Nat \subseteq S
<1>1. SUFFICES ASSUME Nat \ S # {} PROVE FALSE
  OBVIOUS
<1>2. PICK n \in Nat \ S : \A m \in Nat \ S : n <= m
  BY <1>1, Least
<1>3. n # 0 /\ n - 1 \in Nat /\ n - 1 \in S
  BY <1>2
<1>4. (n - 1) + 1 = n
  BY <1>2
<1> QED
  BY <1>2, <1>3, <1>4

(* The recursive definition of Pow2 has a solution: functions on 0..n agree *)
(* where they are both defined, and their values make up one on Nat.        *)
LEMMA Powers ==
    /\ Pow2[0] = 1
    /\ \A k \in Nat : Pow2[k] \in Nat \ {0} /\ Pow2[k + 1] = 2 * Pow2[k]
<1> DEFINE Upto(f, n) == f \in [0 .. n -> Nat] /\ f[0] = 1 /\ \A k \in 1 .. n : f[k] = 2 * f[k - 1]
           S == {n \in Nat : \E f : Upto(f, n)}
<1>1. 0 \in S
  <2>1. Upto([k \in 0 .. 0 |-> 1], 0)
    OBVIOUS
  <2> QED
    BY <2>1
<1>2. ASSUME NEW n \in Nat, n \in S PROVE n + 1 \in S
  <2>1. PICK f : Upto(f, n)
    BY <1>2
  <2> DEFINE g == [k \in 0 .. n + 1 |-> IF k = n + 1 THEN 2 * f[n] ELSE f[k]]
  <2>2. g \in [0 .. n + 1 -> Nat] /\ g[0] = 1
    BY <2>1
  <2>3. ASSUME NEW k \in 1 .. n + 1 PROVE g[k] = 2 * g[k - 1]
    <3>1. k - 1 \in 0 .. n + 1 /\ k - 1 # n + 1
      OBVIOUS
    <3>2. CASE k = n + 1
      BY <3>1, <3>2
    <3>3. CASE k # n + 1
      <4>1. k \in 1 .. n
        BY <3>3
      <4> QED
        BY <2>1, <3>1, <3>3, <4>1
    <3> QED
      BY <3>2, <3>3
  <2>4. Upto(g, n + 1)
    BY <2>2, <2>3
  <2> HIDE DEF g, Upto
  <2> QED
    BY <2>4
<1>3. \A n \in Nat : \E f : Upto(f, n)
  BY <1>1, <1>2, Induction
<1>4. ASSUME NEW n \in Nat, NEW f, NEW g, Upto(f, n), Upto(g, n + 1)
      PROVE  f[n] = g[n]
  <2> DEFINE A == {k \in Nat : k <= n => f[k] = g[k]}
  <2>1. 0 \in A
    BY <1>4
  <2>2. ASSUME NEW k \in Nat, k \in A PROVE k + 1 \in A
    <3>1. SUFFICES ASSUME k + 1 <= n PROVE f[k + 1] = g[k + 1]
      OBVIOUS
    <3>2. k + 1 \in 1 .. n /\ k + 1 \in 1 .. n + 1 /\ (k + 1) - 1 = k /\ f[k] = g[k]
      BY <2>2, <3>1
    <3> QED
      BY <1>4, <3>2
  <2>3. n \in A
    <3> HIDE DEF A
    <3> QED
      BY <2>1, <2>2, Induction
  <2> QED
    BY <2>3
<1> DEFINE Part(n) == CHOOSE f : Upto(f, n)
           F == [n \in Nat |-> Part(n)[n]]
<1>5. \A n \in Nat : Upto(Part(n), n)
  BY <1>3
<1> HIDE DEF Part
<1>6. F[0] = 1
  BY <1>5
<1>7. ASSUME NEW n \in Nat PROVE F[n] \in Nat /\ F[n + 1] = 2 * F[n]
  <2>1. Upto(Part(n), n) /\ Upto(Part(n + 1), n + 1)
    <3> HIDE DEF Upto
    <3> QED
      BY <1>5
  <2>2. Part(n)[n] = Part(n + 1)[n]
    BY <1>4, <2>1
  <2>3. n + 1 \in 1 .. n + 1 /\ (n + 1) - 1 = n
    OBVIOUS
  <2> QED
    BY <2>1, <2>2, <2>3
<1> HIDE DEF F
<1>8. F = [k \in Nat |-> IF k = 0 THEN 1 ELSE 2 * F[k - 1]]
  <2>1. ASSUME NEW k \in Nat PROVE F[k] = IF k = 0 THEN 1 ELSE 2 * F[k - 1]
    <3>1. CASE k # 0
      <4>1. k - 1 \in Nat /\ (k - 1) + 1 = k
        BY <3>1
      <4> QED
        BY <1>7, <3>1, <4>1
    <3> QED
      BY <1>6, <3>1
  <2> QED
    BY <2>1 DEF F
<1>9. Pow2 = [k \in Nat |-> IF k = 0 THEN 1 ELSE 2 * Pow2[k - 1]]
  BY <1>8, Zenon DEF Pow2
<1>10. Pow2[0] = 1 /\ \A k \in Nat : Pow2[k + 1] = 2 * Pow2[k]
  <2>1. ASSUME NEW k \in Nat PROVE k + 1 \in Nat /\ k + 1 # 0 /\ (k + 1) - 1 = k
    OBVIOUS
  <2> QED
    BY <1>9, <2>1
<1>11. \A k \in Nat : Pow2[k] \in Nat \ {0}
  <2> DEFINE A == {k \in Nat : Pow2[k] \in Nat \ {0}}
  <2>1. 0 \in A /\ \A k \in Nat : k \in A => k + 1 \in A
    BY <1>10
  <2>2. Nat \subseteq A
    <3> HIDE DEF A
    <3> QED
      BY <2>1, Induction
  <2> QED
    BY <2>2
<1> QED
  BY <1>10, <1>11

(* A power of two is larger than its exponent, and divides the larger ones. *)
LEMMA PowersGrow ==
    ASSUME NEW w \in Nat
    PROVE  /\ Pow2[w] > w
           /\ \A k \in Nat : k >= w => \E m \in Nat \ {0} : Pow2[k] = m * Pow2[w]
           /\ \A k \in Nat : k < w => 2 * Pow2[k] <= Pow2[w]
<1>1. ASSUME NEW v \in Nat PROVE Pow2[v] > v
  <2> DEFINE S == {k \in Nat : Pow2[k] > k}
  <2>1. 0 \in S /\ \A k \in Nat : k \in S => k + 1 \in S
    BY Powers
  <2>2. Nat \subseteq S
    <3> HIDE DEF S
    <3> QED
      BY <2>1, Induction
  <2> QED
    BY <2>2
<1>2. ASSUME NEW v \in Nat
      PROVE  \A k \in Nat : k >= v => \E m \in Nat \ {0} : Pow2[k] = m * Pow2[v]
  <2> DEFINE S == {k \in Nat : k >= v => \E m \in Nat \ {0} : Pow2[k] = m * Pow2[v]}
  <2>1. \A k \in Nat : k = v => k \in S
    BY Powers
  <2>2. ASSUME NEW k \in Nat, k \in S PROVE k + 1 \in S
    <3>1. CASE k >= v
      <4>1. PICK m \in Nat \ {0} : Pow2[k] = m * Pow2[v]
        BY <2>2, <3>1
      <4>2. Pow2[k + 1] = (2 * m) * Pow2[v] /\ 2 * m \in Nat \ {0}
        BY <4>1, Powers
      <4> QED
        BY <4>2
    <3>2. CASE k < v
      <4>1. k + 1 >= v => k + 1 = v
        BY <3>2
      <4> QED
        BY <2>1, <4>1
    <3> QED
      BY <3>1, <3>2
  <2>3. 0 \in S
    BY <2>1
  <2>4. Nat \subseteq S
    <3> HIDE DEF S
    <3> QED
      BY <2>2, <2>3, Induction
  <2> QED
    BY <2>4
<1>3. ASSUME NEW k \in Nat, k < w PROVE 2 * Pow2[k] <= Pow2[w]
  <2>1. PICK m \in Nat \ {0} : Pow2[w] = m * Pow2[k + 1]
    BY <1>2, <1>3
  <2>2. Pow2[k + 1] \in Nat /\ Pow2[k + 1] = 2 * Pow2[k] /\ Pow2[k] \in Nat
    BY Powers
  <2> QED
    BY <2>1, <2>2
<1> QED
  BY <1>1, <1>2, <1>3

(* Division rounds down.                                                    *)
LEMMA Euclid ==
    ASSUME NEW a \in Int, NEW c \in Int, c > 0
    PROVE  a = c * (a \div c) + (a % c)
OBVIOUS

LEMMA Quotient ==
    ASSUME NEW a \in Nat, NEW c \in Nat \ {0}
    PROVE  /\ a \div c \in Nat /\ c * (a \div c) <= a /\ a < c * (a \div c) + c
           /\ \A b \in Nat : b * c <= a => b <= a \div c
           /\ a % c \in 0 .. c - 1 /\ a = c * (a \div c) + (a % c)
<1>1. a \div c \in Nat /\ a % c \in 0 .. c - 1 /\ a = c * (a \div c) + (a % c)
  <2>1. a \div c \in Nat
    OBVIOUS
  <2>2. a % c \in 0 .. c - 1
    OBVIOUS
  <2>3. a = c * (a \div c) + (a % c)
    <3>1. a \in Int /\ c \in Int /\ c > 0
      OBVIOUS
    <3> QED
      BY <3>1, Euclid, Zenon
  <2> QED
    BY <2>1, <2>2, <2>3
<1> DEFINE q == a \div c
           r == a % c
<1>2. q \in Nat /\ r \in 0 .. c - 1 /\ a = c * q + r
  BY <1>1
<1> HIDE DEF q, r
<1>3. ASSUME NEW b \in Nat, b * c <= a PROVE b <= q
  <2>1. SUFFICES ASSUME b >= q + 1 PROVE FALSE
    BY <1>2
  <2>2. b * c >= (q + 1) * c
    BY <1>2, <2>1
  <2>3. (q + 1) * c = c * q + c
    BY <1>2
  <2> QED
    BY <1>2, <1>3, <2>2, <2>3
<1>4. c * q <= a /\ a < c * q + c
  <2>1. c * q \in Nat
    BY <1>2
  <2> QED
    BY <1>2, <2>1
<1> QED
  BY <1>1, <1>3, <1>4 DEF q

(* setUsedSize finds its shift; the table holds TopBits blocks of a power   *)
(* of two, each of them a number of whole buckets.                          *)
LEMMA ShiftFacts ==
    ASSUME usedSize \in Nat, 2 * usedSize >= TopLimit * Ways
    PROVE  /\ Shift \in Nat /\ TopBits \in Nat \ {0}
           /\ TopBits * Pow2[Shift] <= usedSize
           /\ \E m \in Nat \ {0} : Pow2[Shift] = m * Ways
<1>1. PICK w \in Nat : Ways = Pow2[w]
  BY TableAssumption
<1>2. Ways \in Nat \ {0} /\ TopLimit \in Nat /\ TopLimit >= 2
  BY <1>1, Powers, TableAssumption
<1>3. usedSize # 0
  BY <1>2
<1> DEFINE L == {k \in Nat : usedSize \div Pow2[k] < TopLimit}
<1>4. usedSize \in L
  <2>1. Pow2[usedSize] > usedSize /\ Pow2[usedSize] \in Nat \ {0}
    BY Powers, PowersGrow
  <2>2. usedSize \div Pow2[usedSize] = 0
    BY <2>1
  <2> QED
    BY <1>2, <2>2
<1>5. PICK k \in L : \A l \in L : k <= l
  <2> HIDE DEF L
  <2>1. L \in SUBSET Nat
    BY DEF L
  <2> QED
    BY <1>4, <2>1, Least
<1>6. k \in 0 .. usedSize
  BY <1>4, <1>5
<1>7. k > 0 => usedSize \div Pow2[k - 1] >= TopLimit
  <2>1. SUFFICES ASSUME k > 0 PROVE usedSize \div Pow2[k - 1] >= TopLimit
    OBVIOUS
  <2>2. k - 1 \in Nat /\ k - 1 \notin L
    BY <1>5, <2>1
  <2>3. usedSize \div Pow2[k - 1] \in Nat
    BY <2>2, Powers, Quotient
  <2> QED
    BY <1>2, <2>2, <2>3
<1>8. /\ Shift \in 0 .. usedSize /\ usedSize \div Pow2[Shift] < TopLimit
      /\ Shift > 0 => usedSize \div Pow2[Shift - 1] >= TopLimit
  BY <1>5, <1>6, <1>7 DEF Shift
<1>9. Shift \in Nat /\ Pow2[Shift] \in Nat \ {0}
  BY <1>8, Powers
<1>10. TopBits \in Nat /\ TopBits * Pow2[Shift] <= usedSize
  <2>1. /\ usedSize \div Pow2[Shift] \in Nat
        /\ Pow2[Shift] * (usedSize \div Pow2[Shift]) <= usedSize
    BY <1>9, Quotient
  <2> QED
    BY <1>9, <2>1 DEF TopBits
<1>11. TopBits # 0
  <2>1. CASE Shift = 0
    <3>1. 1 <= usedSize \div Pow2[Shift]
      BY <1>3, <2>1, Powers
    <3> QED
      BY <3>1, <1>10 DEF TopBits
  <2>2. CASE Shift > 0
    <3>1. /\ Shift - 1 \in Nat /\ (Shift - 1) + 1 = Shift
      BY <1>9, <2>2
    <3>2. Pow2[Shift - 1] \in Nat \ {0} /\ Pow2[Shift] = 2 * Pow2[Shift - 1]
      BY <3>1, Powers
    <3> DEFINE q == usedSize \div Pow2[Shift - 1]
    <3>3. q \in Nat /\ Pow2[Shift - 1] * q <= usedSize
      BY <3>2, Quotient
    <3>6. q >= 2
      BY <1>2, <1>8, <2>2, <3>3
    <3> HIDE DEF q
    <3>4. 1 * Pow2[Shift] <= usedSize
      <4>1. Pow2[Shift - 1] * q >= Pow2[Shift - 1] * 2
        BY <3>2, <3>3, <3>6
      <4> QED
        BY <3>2, <3>3, <4>1
    <3>5. 1 <= usedSize \div Pow2[Shift]
      BY <1>9, <3>4, Quotient
    <3> QED
      BY <1>10, <3>5 DEF TopBits
  <2> QED
    BY <1>9, <2>1, <2>2
<1>12. Shift >= w
  <2>1. SUFFICES ASSUME Shift < w PROVE FALSE
    BY <1>9
  <2>2. 2 * Pow2[Shift] <= Ways
    BY <1>1, <1>9, <2>1, PowersGrow
  <2>3. TopLimit * (2 * Pow2[Shift]) <= TopLimit * Ways
    BY <1>2, <1>9, <2>2
  <2>4. TopLimit * (2 * Pow2[Shift]) = 2 * (TopLimit * Pow2[Shift]) /\ TopLimit * Pow2[Shift] \in Nat
        /\ TopLimit * Ways \in Nat
    BY <1>2, <1>9
  <2>5. TopLimit * Pow2[Shift] <= usedSize
    BY <2>3, <2>4
  <2>6. TopLimit <= usedSize \div Pow2[Shift] /\ usedSize \div Pow2[Shift] \in Nat
    BY <1>2, <1>9, <2>5, Quotient
  <2> QED
    BY <1>2, <1>8, <2>6
<1>13. \E m \in Nat \ {0} : Pow2[Shift] = m * Ways
  BY <1>1, <1>9, <1>12, PowersGrow
<1> QED
  BY <1>9, <1>10, <1>11, <1>13

(* The bucket of every key lies within the part of the table that is used.  *)
LEMMA IndexBound ==
    ASSUME usedSize \in Nat, 2 * usedSize >= TopLimit * Ways, NEW key \in HashKeys
    PROVE  GetIndex(key) \in Nat /\ GetIndex(key) + Ways <= usedSize
<1>1. /\ Ways \in Nat \ {0} /\ TopRange \in Nat \ {0}
      /\ Top(key) \in 0 .. TopRange - 1 /\ Low(key) \in Nat
  BY TableAssumption, WordAssumption, Powers
<1>2. /\ Shift \in Nat /\ TopBits \in Nat \ {0} /\ TopBits * Pow2[Shift] <= usedSize
      /\ Pow2[Shift] \in Nat \ {0}
  BY ShiftFacts, Powers
<1>3. PICK m \in Nat \ {0} : Pow2[Shift] = m * Ways
  BY ShiftFacts
<1> DEFINE P == Pow2[Shift]
           low == Low(key) % P
           block == (Top(key) * TopBits) \div TopRange
<1>4. block \in Nat /\ block + 1 <= TopBits
  <2>1. Top(key) * TopBits \in Nat /\ Top(key) * TopBits < TopRange * TopBits
    BY <1>1, <1>2
  <2>2. block \in Nat /\ TopRange * block <= Top(key) * TopBits
    BY <1>1, <2>1, Quotient
  <2> HIDE DEF block
  <2>3. TopRange * block < TopRange * TopBits
    BY <1>1, <1>2, <2>1, <2>2
  <2> QED
    BY <1>1, <1>2, <2>2, <2>3
<1>5. low - (low % Ways) \in Nat /\ low - (low % Ways) + Ways <= P
  <2>1. low \in 0 .. P - 1
    BY <1>1, <1>2
  <2> HIDE DEF low
  <2>2. /\ low \div Ways \in Nat /\ low % Ways \in 0 .. Ways - 1
        /\ low = Ways * (low \div Ways) + (low % Ways)
    <3>1. low \in Nat
      BY <1>2, <2>1 DEF P
    <3> QED
      BY <1>1, <3>1, Quotient
  <2> DEFINE q == low \div Ways
  <2>3. q \in Nat /\ low = Ways * q + (low % Ways) /\ Ways * q \in Nat
    BY <1>1, <2>2
  <2> HIDE DEF q
  <2>4. low - (low % Ways) = Ways * q /\ Ways * q < m * Ways
    <3> DEFINE r == low % Ways
    <3>1. r \in 0 .. Ways - 1
      BY <2>2
    <3>2. low = Ways * q + r
      BY <2>3, Zenon
    <3> HIDE DEF r
    <3>3. low \in 0 .. m * Ways - 1 /\ m * Ways \in Nat
      BY <1>1, <1>2, <1>3, <2>1
    <3>4. low - r = Ways * q /\ Ways * q < m * Ways
      BY <2>3, <3>1, <3>2, <3>3
    <3> QED
      BY <3>4 DEF r
  <2>5. q + 1 <= m
    BY <1>1, <2>3, <2>4
  <2>6. Ways * q + Ways <= m * Ways
    <3>1. (q + 1) * Ways <= m * Ways
      BY <1>1, <2>3, <2>5
    <3>2. (q + 1) * Ways = Ways * q + Ways
      BY <1>1, <2>3
    <3> QED
      BY <3>1, <3>2
  <2> QED
    BY <1>3, <2>3, <2>4, <2>6
<1>6. GetIndex(key) = block * P + (low - (low % Ways))
  BY DEF GetIndex
<1> HIDE DEF block, low, P
<1>7. P \in Nat \ {0} /\ TopBits * P <= usedSize
  BY <1>2 DEF P
<1>8. block * P + P <= TopBits * P
  <2>1. (block + 1) * P <= TopBits * P
    BY <1>2, <1>4, <1>7
  <2>2. (block + 1) * P = block * P + P
    BY <1>4, <1>7
  <2> QED
    BY <2>1, <2>2
<1>9. block * P \in Nat /\ TopBits * P \in Nat
  BY <1>2, <1>4, <1>7
<1> QED
  BY <1>1, <1>5, <1>6, <1>7, <1>8, <1>9

(***************************************************************************)
(* Words.                                                                  *)
(***************************************************************************)
(* A hash key is one position's key and a contempt; applied twice, the      *)
(* contempt is gone.                                                        *)
LEMMA KeyFacts ==
    ASSUME NEW k \in Keys, NEW c \in ContemptHashes
    PROVE  /\ Xor({k}, c) = {k} \cup c /\ Xor({k}, c) \in HashKeys
           /\ KeyOffers(Xor({k}, c)) = Offers(k)
           /\ Xor(Xor({k}, c), c) = Xor({k}, {}) /\ Xor({k}, {}) \in HashKeys
           /\ KeyOffers(Xor({k}, {})) = Offers(k)
<1>1. k \notin c /\ \A j \in Keys : j \notin c
  BY WordAssumption DEF ContemptHashes
<1>2. ASSUME NEW b \in {c, {}}
      PROVE  /\ Xor({k}, b) = {k} \cup b /\ Xor({k}, b) \in HashKeys
             /\ KeyOffers(Xor({k}, b)) = Offers(k)
  <2>1. Xor({k}, b) = {k} \cup b
    BY <1>1 DEF Xor
  <2>2. (CHOOSE j \in Keys : j \in Xor({k}, b)) = k
    BY <1>1, <2>1
  <2>3. KeyOffers(Xor({k}, b)) = Offers(k)
    BY <2>2 DEF KeyOffers
  <2>4. \A a \in ContemptHashes : Xor({k}, a) \in HashKeys
    BY DEF HashKeys
  <2>5. b \in ContemptHashes
    BY <1>2 DEF ContemptHashes
  <2> QED
    BY <2>1, <2>3, <2>4, <2>5
<1>3. Xor(Xor({k}, c), c) = Xor({k}, {})
  BY <1>1 DEF Xor
<1> QED
  BY <1>2, <1>3

(* A hash key holds the key of a position, and neither data nor a word of   *)
(* an endgame table.                                                        *)
LEMMA KeyParts ==
    ASSUME NEW key \in HashKeys
    PROVE  /\ \E k \in Keys : k \in key /\ KeyOffers(key) = Offers(k)
           /\ \A e \in key : e \notin DataWords /\ e \notin TbEntries
<1>1. PICK k \in Keys, c \in ContemptHashes : key = Xor({k}, c)
  BY DEF HashKeys
<1>2. key = {k} \cup c /\ KeyOffers(key) = Offers(k)
  BY <1>1, KeyFacts
<1>3. \A e \in key : e \in Keys \cup UNION Contempts
  BY <1>2 DEF ContemptHashes
<1> QED
  BY <1>2, <1>3, WordAssumption DEF TbEntries

(* What is genuine is not empty, and part of the word stored for it.        *)
LEMMA GenuineFacts ==
    ASSUME NEW key \in HashKeys, NEW d, Genuine(key, d)
    PROVE  /\ d.type \in Types /\ Bits(d) = {d} /\ d \notin key
           /\ Coded(key, d) = key \cup {d} /\ IsKeyWord(Coded(key, d))
<1>1. d.type \in Types /\ d \in DataWords
  BY KeyParts, WordAssumption DEF Genuine
<1>2. d # NoData
  BY <1>1 DEF Types, NoData
<1>3. Bits(d) = {d} /\ d \notin key
  BY <1>1, <1>2, KeyParts DEF Bits
<1>4. Coded(key, d) = key \cup {d}
  BY <1>3 DEF Coded, Xor
<1> QED
  BY <1>1, <1>3, <1>4 DEF IsKeyWord

(* The words of two stores are never taken for one entry: if two words     *)
(* decode to a hash key, the data word is genuine for it.                   *)
LEMMA Decoded ==
    ASSUME NEW word, IsKeyWord(word), NEW d \in DataWords, Coded(word, d) \in HashKeys
    PROVE  Genuine(Coded(word, d), d)
<1> DEFINE key == Coded(word, d)
<1>1. \E k \in Keys : k \in key
  BY KeyParts
<1>2. \A e \in key : e \notin DataWords /\ e \notin TbEntries
  BY KeyParts
<1>3. Bits(d) \subseteq {d}
  BY DEF Bits
<1>4. CASE word = {}
  <2>1. key \subseteq {d}
    BY <1>3, <1>4 DEF Coded, Xor
  <2> QED
    BY <1>1, <1>2, <2>1
<1>5. CASE \E e \in word : e \in TbEntries /\ word = {e}
  <2>1. PICK e \in TbEntries : word = {e}
    BY <1>5
  <2>2. e # d
    BY <2>1 DEF TbEntries, DataWords
  <2>3. e \in key
    BY <1>3, <2>1, <2>2 DEF Coded, Xor
  <2> QED
    BY <1>2, <2>1, <2>3
<1>6. CASE \E j \in HashKeys, b \in word : Genuine(j, b) /\ word = Coded(j, b)
  <2>1. PICK j \in HashKeys, b \in word : Genuine(j, b) /\ word = Coded(j, b)
    BY <1>6
  <2>2. Bits(b) = {b} /\ b \notin j /\ word = j \cup {b} /\ b \in DataWords
    BY <2>1, GenuineFacts DEF Genuine
  <2>3. b = d
    <3>1. SUFFICES ASSUME b # d PROVE FALSE
      OBVIOUS
    <3>2. b \in key
      BY <1>3, <2>2, <3>1 DEF Coded, Xor
    <3> QED
      BY <1>2, <2>2, <3>2
  <2>4. key = j
    BY <2>2, <2>3 DEF Coded, Xor
  <2> QED
    BY <2>1, <2>3, <2>4
<1> QED
  BY <1>4, <1>5, <1>6 DEF IsKeyWord

(* Empty entries and endgame tables consist of words.                       *)
LEMMA EmptyWords ==
    /\ NoData \in DataWords /\ DOMAIN EmptyEntry = Words
    /\ IsKeyWord(EmptyEntry.key) /\ EmptyEntry.data \in DataWords
<1>1. NoData \in DataWords
  BY DEF NoData, DataWords, Moves, NoMove
<1> QED
  BY <1>1 DEF EmptyEntry, IsKeyWord, Words

LEMMA TbWords ==
    ASSUME NEW tb \in [material : Materials, words : DataWords, complete : BOOLEAN], NEW i \in Nat
    PROVE  /\ DOMAIN TbEntry(tb, i) = Words
           /\ IsKeyWord(TbEntry(tb, i).key) /\ TbEntry(tb, i).data \in DataWords
<1> DEFINE e == [material |-> tb.material, entry |-> i]
<1>1. e \in TbEntries
  BY DEF TbEntries
<1>2. TbEntry(tb, i) = [key |-> {e}, data |-> tb.words]
  BY DEF TbEntry
<1> HIDE DEF e
<1>3. IsKeyWord({e})
  BY <1>1 DEF IsKeyWord
<1> QED
  BY <1>2, <1>3 DEF Words

(***************************************************************************)
(* States.                                                                 *)
(***************************************************************************)
LEMMA TableFacts ==
    ASSUME Sizes
    PROVE  /\ TableSize \in TableSizes /\ TableSize \in Nat /\ DOMAIN table = 0 .. TableSize - 1
           /\ usedSize \in 0 .. TableSize /\ Ways \in Nat \ {0}
<1>1. PICK s \in TableSizes : DOMAIN table = 0 .. s - 1 /\ usedSize \in 0 .. s
  BY DEF Sizes
<1>2. s \in Nat
  BY TableAssumption
<1>3. TableSize = s
  <2>1. Cardinality(0 .. s - 1) = s
    BY <1>2, FS_Interval
  <2> QED
    BY <1>1, <2>1 DEF TableSize
<1> QED
  BY <1>1, <1>2, <1>3, TableAssumption, Powers

(* The entries of a bucket are entries of the part of the table in use.     *)
LEMMA SlotFacts ==
    ASSUME Sizes, NEW key \in HashKeys, NEW i \in 0 .. Ways - 1
    PROVE  GetIndex(key) + i \in 0 .. usedSize - 1 /\ GetIndex(key) + i \in DOMAIN table
<1>1. usedSize \in Nat /\ 2 * usedSize >= TopLimit * Ways
  BY TableFacts DEF Sizes
<1>2. GetIndex(key) \in Nat /\ GetIndex(key) + Ways <= usedSize
  BY <1>1, IndexBound
<1> QED
  BY <1>2, TableFacts

(* A thread that changes nothing but its own state keeps the invariant if   *)
(* its new state is a legal one.                                            *)
LEMMA ThreadStep ==
    ASSUME IInv, NEW t \in Threads, phase # "setup", UNCHANGED <<table, settings, phase>>,
           thread' = [thread EXCEPT ![t] = thread'[t]], IsThread(thread'[t])
    PROVE  IInv'
<1>1. UNCHANGED <<usedSize, contemptHash, generation, tbGen, table>> /\ TableSize' = TableSize
  BY DEF settings, TableSize
<1>2. Sizes' /\ Settings' /\ Contents'
  BY <1>1 DEF IInv, Sizes, Settings, Contents
<1>3. TbIntact'
  BY <1>1 DEF IInv, TbIntact, TbRegion
<1>4. DOMAIN thread' = Threads /\ \A u \in Threads : u # t => thread'[u] = thread[u]
  BY DEF IInv, Calls
<1>5. \A th : IsThread(th) => IsThread(th)'
  BY <1>1 DEF IsThread, IsCall, Loading, Known, IsWord
<1>6. Calls'
  BY <1>4, <1>5 DEF IInv, Calls
<1> QED
  BY <1>2, <1>3, <1>6 DEF IInv

LEMMA CallFacts ==
    ASSUME IInv, NEW t \in Threads, thread[t].pc # "idle"
    PROVE  /\ phase # "setup" /\ IsCall(thread[t])
           /\ thread[t].pc = "load" => Loading(thread[t]) /\ Slot(t) \in 0 .. usedSize - 1
                                       /\ Slot(t) \in DOMAIN table
           /\ thread[t].pc # "load" => Known(thread[t])
<1>1. IsThread(thread[t]) /\ thread[t] # Idle
  BY DEF IInv, Calls, Idle
<1>2. phase # "setup"
  BY <1>1 DEF IInv, Calls
<1>3. IsCall(thread[t]) /\ IF thread[t].pc = "load" THEN Loading(thread[t]) ELSE Known(thread[t])
  BY <1>1 DEF IsThread
<1>4. thread[t].pc = "load" => Slot(t) \in 0 .. usedSize - 1 /\ Slot(t) \in DOMAIN table
  <2>1. thread[t].pc = "load" => thread[t].key \in HashKeys /\ thread[t].i \in 0 .. Ways - 1
    BY <1>3 DEF IsCall, Loading
  <2> QED
    BY <2>1, SlotFacts DEF IInv, Slot
<1> QED
  BY <1>2, <1>3, <1>4

(* The entry decoded from the two words a thread has read.                  *)
LEMMA LoadedFacts ==
    ASSUME IInv, NEW t \in Threads, thread[t].pc = "load", thread[t].word # NoWord
    PROVE  /\ Loaded(t).data \in DataWords
           /\ Loaded(t).key \in HashKeys => Genuine(Loaded(t).key, Loaded(t).data)
<1>1. /\ thread[t].word \in Words /\ IsWord(thread[t].word, thread[t].value)
      /\ IsKeyWord(table[Slot(t)].key) /\ table[Slot(t)].data \in DataWords
  BY CallFacts DEF IsCall, Loading, IInv, Contents
<1> DEFINE value(w) == IF w = thread[t].word THEN thread[t].value ELSE table[Slot(t)][w]
<1>2. IsKeyWord(value("key")) /\ value("data") \in DataWords
  BY <1>1 DEF IsWord, Words
<1>3. Loaded(t) = [key |-> Coded(value("key"), value("data")), data |-> value("data")]
  BY DEF Loaded
<1> HIDE DEF value
<1>4. Loaded(t).key = Coded(value("key"), value("data")) /\ Loaded(t).data = value("data")
  BY <1>3
<1> QED
  BY <1>2, <1>4, Decoded

(***************************************************************************)
(* The steps of the threads.                                               *)
(***************************************************************************)
(* A new call has nothing read yet.                                         *)
LEMMA NewCalls ==
    ASSUME Sizes, NEW what \in {"insert", "probe"}, NEW key \in HashKeys, NEW offer,
           what = "insert" => Offered(key, offer),
           what = "probe" => \E k \in Keys : key = Xor({k}, contemptHash)
    PROVE  IsThread(Call(what, key, offer))
<1> DEFINE th == Call(what, key, offer)
<1>1. /\ th.pc = "load" /\ th.what = what /\ th.key = key /\ th.offer = offer /\ th.i = 0
      /\ th.word = NoWord /\ DOMAIN th = CallFields
  BY DEF Call, CallFields
<1> HIDE DEF th
<1>2. 0 \in 0 .. Ways - 1 /\ NoWord \notin Words
  BY TableFacts DEF NoWord, Words
<1>3. IsCall(th)
  BY <1>1 DEF IsCall
<1>4. Loading(th)
  BY <1>1, <1>2 DEF Loading
<1> QED
  BY <1>1, <1>3, <1>4 DEF IsThread, th

LEMMA InsertStep ==
    ASSUME IInv, NEW t \in Threads, Insert(t)
    PROVE  IInv'
<1>1. /\ phase = "search" /\ UNCHANGED <<table, settings, phase>>
  BY DEF Insert, NewCall
<1>2. PICK k \in Keys, ply \in Plies : \E o \in Offers(k) :
        Become(t, Call("insert", Xor({k}, contemptHash),
                       [move |-> o.move, score |-> GetScore(o.score, ply), depth |-> o.depth,
                        type |-> o.type, ply |-> ply, busy |-> FALSE]))
  BY DEF Insert
<1>3. PICK o \in Offers(k) :
        Become(t, Call("insert", Xor({k}, contemptHash),
                       [move |-> o.move, score |-> GetScore(o.score, ply), depth |-> o.depth,
                        type |-> o.type, ply |-> ply, busy |-> FALSE]))
  BY <1>2
<1> DEFINE key == Xor({k}, contemptHash)
           offer == [move |-> o.move, score |-> GetScore(o.score, ply), depth |-> o.depth,
                     type |-> o.type, ply |-> ply, busy |-> FALSE]
<1>4. key \in HashKeys /\ KeyOffers(key) = Offers(k)
  BY KeyFacts DEF IInv, Settings
<1>5. /\ o \in [move : Moves, score : Int, depth : Nat, type : Types] /\ ply \in Nat
      /\ offer \in OfferType /\ SetScore(offer.score, offer.ply) = o.score
  <2>1. /\ o \in [move : Moves, score : Int, depth : Nat, type : Types] /\ ply \in Nat
        /\ IsWinScore(o.score) => IsWinScore(o.score - ply)
        /\ IsLoseScore(o.score) => IsLoseScore(o.score + ply)
    BY WordAssumption
  <2>2. /\ SetScore(GetScore(o.score, ply), ply) = o.score /\ GetScore(o.score, ply) \in Int
    BY <2>1 DEF SetScore, GetScore, IsWinScore, IsLoseScore, MATE0
  <2> QED
    BY <2>1, <2>2 DEF OfferType
<1>6. Offered(key, offer)
  BY <1>4, <1>5 DEF Offered
<1>7. thread' = [thread EXCEPT ![t] = Call("insert", key, offer)]
  BY <1>3 DEF Become
<1> HIDE DEF key, offer
<1>8. IsThread(Call("insert", key, offer))
  BY <1>4, <1>6, NewCalls DEF IInv
<1>9. thread'[t] = Call("insert", key, offer)
  BY <1>7 DEF IInv, Calls
<1> QED
  BY <1>1, <1>7, <1>8, <1>9, ThreadStep

LEMMA ProbeStep ==
    ASSUME IInv, NEW t \in Threads, Probe(t)
    PROVE  IInv'
<1>1. /\ phase = "search" /\ UNCHANGED <<table, settings, phase>>
  BY DEF Probe, NewCall
<1>2. PICK k \in Keys : Become(t, Call("probe", Xor({k}, contemptHash), NoOffer))
  BY DEF Probe
<1> DEFINE key == Xor({k}, contemptHash)
<1>3. key \in HashKeys
  BY KeyFacts DEF IInv, Settings
<1>4. thread' = [thread EXCEPT ![t] = Call("probe", key, NoOffer)]
  BY <1>2 DEF Become
<1>5. IsThread(Call("probe", key, NoOffer))
  BY <1>3, NewCalls DEF IInv
<1>6. thread'[t] = Call("probe", key, NoOffer)
  BY <1>4 DEF IInv, Calls
<1> QED
  BY <1>1, <1>4, <1>5, <1>6, ThreadStep

LEMMA LoadOneStep ==
    ASSUME IInv, NEW t \in Threads, LoadOne(t)
    PROVE  IInv'
<1>1. /\ UNCHANGED <<table, settings, phase>> /\ thread[t].pc = "load" /\ thread[t].word = NoWord
  BY DEF LoadOne
<1>2. PICK w \in Words : thread' = [thread EXCEPT ![t] =
                                    [thread[t] EXCEPT !.word = w, !.value = table[Slot(t)][w]]]
  BY DEF LoadOne, Become
<1> DEFINE th == [thread[t] EXCEPT !.word = w, !.value = table[Slot(t)][w]]
<1>3. /\ phase # "setup" /\ IsCall(thread[t]) /\ Loading(thread[t]) /\ Slot(t) \in DOMAIN table
  BY <1>1, CallFacts
<1>4. /\ DOMAIN th = CallFields /\ th.word = w /\ th.value = table[Slot(t)][w]
      /\ \A f \in CallFields \ {"word", "value"} : th[f] = thread[t][f]
  BY <1>3 DEF IsCall, CallFields
<1>5. thread'[t] = th
  BY <1>2 DEF IInv, Calls
<1> HIDE DEF th
<1>6. IsWord(w, table[Slot(t)][w])
  BY <1>3 DEF IInv, Contents, IsWord, Words
<1>7. IsCall(th)
  BY <1>3, <1>4 DEF IsCall, CallFields
<1>8. Loading(th)
  BY <1>3, <1>4, <1>6 DEF Loading, CallFields
<1>9. IsThread(th)
  BY <1>1, <1>4, <1>7, <1>8 DEF IsThread, CallFields
<1> QED
  BY <1>1, <1>2, <1>3, <1>5, <1>9, ThreadStep DEF th

(* The entry to be replaced, as chosen so far.                              *)
LEMMA ChosenFacts ==
    ASSUME IInv, NEW t \in Threads, thread[t].pc = "load", thread[t].word # NoWord,
           thread[t].what = "insert"
    PROVE  /\ DOMAIN Chosen(t) = CallFields
           /\ \A f \in CallFields \ {"ent", "at"} : Chosen(t)[f] = thread[t][f]
           /\ Chosen(t).at \in 0 .. usedSize - 1 /\ Chosen(t).ent.data \in DataWords
           /\ Chosen(t).ent.key \in HashKeys => Genuine(Chosen(t).ent.key, Chosen(t).ent.data)
<1>1. IsCall(thread[t]) /\ Loading(thread[t]) /\ Slot(t) \in 0 .. usedSize - 1
  BY CallFacts
<1> DEFINE found == Loaded(t)
           new == [thread[t] EXCEPT !.ent = found, !.at = Slot(t)]
<1>2. found.data \in DataWords /\ (found.key \in HashKeys => Genuine(found.key, found.data))
  BY LoadedFacts
<1> HIDE DEF found
<1>3. /\ DOMAIN new = CallFields /\ new.ent = found /\ new.at = Slot(t)
      /\ \A f \in CallFields \ {"ent", "at"} : new[f] = thread[t][f]
  BY <1>1 DEF IsCall, CallFields
<1> HIDE DEF new
<1>4. CASE Chosen(t) = new
  BY <1>1, <1>2, <1>3, <1>4
<1>5. CASE Chosen(t) # new
  <2>1. Chosen(t) = thread[t] /\ thread[t].i # 0
    BY <1>5 DEF Chosen, found, new
  <2>2. thread[t].i > 0
    BY <1>1, <2>1, TableFacts DEF Loading, IInv
  <2> QED
    BY <1>1, <2>1, <2>2 DEF Loading, IsCall
<1> QED
  BY <1>4, <1>5

(* The entry that insert writes is genuine.                                 *)
LEMMA NewEntryFacts ==
    ASSUME Settings, NEW ent, NEW key \in HashKeys, NEW o, Offered(key, o),
           ent.key \in HashKeys => Genuine(ent.key, ent.data)
    PROVE  NewEntry(ent, key, o).key = key /\ Genuine(key, NewEntry(ent, key, o).data)
<1> DEFINE d == NewEntry(ent, key, o).data
<1>1. /\ NewEntry(ent, key, o).key = key
      /\ d = [move |-> IF ent.key # key \/ o.move # NoMove THEN o.move ELSE ent.data.move,
              score |-> SetScore(o.score, o.ply), depth |-> o.depth, type |-> o.type,
              gen |-> generation, busy |-> o.busy]
  BY DEF NewEntry
<1> HIDE DEF d
<1>2. /\ d.score = SetScore(o.score, o.ply) /\ d.depth = o.depth /\ d.type = o.type
      /\ d.move = IF ent.key # key \/ o.move # NoMove THEN o.move ELSE ent.data.move
  BY <1>1
<1>3. \E p \in KeyOffers(key) : d.move = p.move
  BY <1>2 DEF Offered, Genuine
<1>4. \E p \in KeyOffers(key) : d.score = p.score /\ d.depth = p.depth /\ d.type = p.type
  BY <1>2 DEF Offered
<1>5. d \in DataWords
  <2>1. PICK k \in Keys : KeyOffers(key) = Offers(k)
    BY KeyParts
  <2>2. \A p \in Offers(k) : p.move \in Moves /\ p.score \in Int /\ p.type \in Types
    BY WordAssumption
  <2>3. d.move \in Moves /\ d.score \in Int /\ d.type \in Types
    BY <1>3, <1>4, <2>1, <2>2
  <2>4. o.depth \in Nat /\ o.busy \in BOOLEAN /\ generation \in Nat
    BY DEF Offered, OfferType, Settings
  <2> QED
    BY <1>1, <2>3, <2>4 DEF DataWords
<1> QED
  BY <1>1, <1>3, <1>4, <1>5 DEF Genuine, d

LEMMA LoadOtherInsertStep ==
    ASSUME IInv, NEW t \in Threads, LoadOtherInsert(t)
    PROVE  IInv'
<1>1. /\ UNCHANGED <<table, settings, phase>> /\ thread[t].pc = "load" /\ thread[t].word # NoWord
      /\ thread[t].what = "insert"
  BY DEF LoadOtherInsert
<1>2. phase # "setup" /\ IsCall(thread[t]) /\ Loading(thread[t]) /\ DOMAIN thread = Threads
  BY <1>1, CallFacts DEF IInv, Calls
<1> DEFINE th == Chosen(t)
           last == Loaded(t).key = th.key \/ th.i = Ways - 1
           next == [th EXCEPT !.i = @ + 1, !.word = NoWord, !.value = {}]
           store == [th EXCEPT !.pc = "store", !.word = NoWord, !.value = {},
                               !.ent = NewEntry(th.ent, th.key, th.offer)]
<1>3. /\ DOMAIN th = CallFields /\ \A f \in CallFields \ {"ent", "at"} : th[f] = thread[t][f]
      /\ th.at \in 0 .. usedSize - 1 /\ th.ent.data \in DataWords
      /\ th.ent.key \in HashKeys => Genuine(th.ent.key, th.ent.data)
  BY <1>1, ChosenFacts
<1>4. thread' = [thread EXCEPT ![t] = IF ~last THEN next
                                      ELSE IF ~DoStore(th.ent, th.key, th.offer) THEN Idle ELSE store]
  BY DEF LoadOtherInsert, Become
<1> HIDE DEF th
<1>5. /\ th.pc = "load" /\ th.what = "insert" /\ th.key = thread[t].key /\ th.offer = thread[t].offer
      /\ th.i = thread[t].i
  BY <1>1, <1>3 DEF CallFields
<1>6. CASE ~last
  <2>1. /\ DOMAIN next = CallFields /\ next.i = th.i + 1 /\ next.word = NoWord
        /\ \A f \in CallFields \ {"i", "word", "value"} : next[f] = th[f]
    BY <1>3 DEF CallFields
  <2>2. thread'[t] = next
    BY <1>2, <1>4, <1>6
  <2>3. th.i # Ways - 1
    BY <1>6
  <2> HIDE DEF next
  <2>4. next.i \in 0 .. Ways - 1
    BY <1>2, <1>5, <2>1, <2>3, TableFacts DEF Loading, IInv
  <2>5. IsCall(next)
    BY <1>2, <1>3, <1>5, <2>1 DEF IsCall, CallFields
  <2>6. Loading(next)
    BY <1>3, <2>1, <2>4 DEF Loading, CallFields, NoWord, Words
  <2>7. IsThread(next)
    BY <2>5, <2>6, <2>1, <1>5 DEF IsThread, CallFields
  <2> QED
    BY <1>1, <1>2, <1>4, <1>6, <2>2, <2>7, ThreadStep
<1>7. CASE last /\ ~DoStore(th.ent, th.key, th.offer)
  <2>1. thread'[t] = Idle /\ thread' = [thread EXCEPT ![t] = Idle]
    BY <1>2, <1>4, <1>7
  <2> QED
    BY <1>1, <1>2, <2>1, ThreadStep DEF IsThread
<1>8. CASE last /\ DoStore(th.ent, th.key, th.offer)
  <2> DEFINE ent == NewEntry(th.ent, th.key, th.offer)
  <2>1. ent.key = th.key /\ Genuine(th.key, ent.data)
    BY <1>1, <1>2, <1>3, <1>5, NewEntryFacts DEF IsCall, IInv
  <2> HIDE DEF ent
  <2>2. thread' = [thread EXCEPT ![t] = store] /\ thread'[t] = store
    BY <1>2, <1>4, <1>8
  <2>3. /\ DOMAIN store = CallFields /\ store.pc = "store" /\ store.word = NoWord /\ store.ent = ent
        /\ \A f \in CallFields \ {"pc", "word", "value", "ent"} : store[f] = th[f]
    BY <1>3 DEF CallFields, ent
  <2> HIDE DEF store
  <2>4. IsCall(store)
    BY <1>1, <1>2, <1>3, <1>5, <2>3 DEF IsCall, CallFields
  <2>5. Known(store)
    BY <1>3, <1>5, <2>1, <2>3 DEF Known, CallFields
  <2>6. IsThread(store)
    BY <2>3, <2>4, <2>5 DEF IsThread
  <2> QED
    BY <1>1, <1>2, <2>2, <2>6, ThreadStep
<1> QED
  BY <1>6, <1>7, <1>8

LEMMA LoadOtherProbeStep ==
    ASSUME IInv, NEW t \in Threads, LoadOtherProbe(t)
    PROVE  IInv'
<1>1. /\ UNCHANGED <<table, settings, phase>> /\ thread[t].pc = "load" /\ thread[t].word # NoWord
      /\ thread[t].what = "probe"
  BY DEF LoadOtherProbe
<1>2. /\ phase # "setup" /\ IsCall(thread[t]) /\ Loading(thread[t]) /\ DOMAIN thread = Threads
      /\ Slot(t) \in 0 .. usedSize - 1
  BY <1>1, CallFacts DEF IInv, Calls
<1> DEFINE th == [thread[t] EXCEPT !.word = NoWord, !.value = {}]
           ent == Loaded(t)
           found == [th EXCEPT !.pc = IF ent.data.gen = generation THEN "found" ELSE "store",
                               !.at = Slot(t), !.ent = [ent EXCEPT !.data.gen = generation]]
           next == [th EXCEPT !.i = @ + 1]
<1>3. thread' = [thread EXCEPT ![t] = IF ent.key = th.key THEN found
                                      ELSE IF th.i = Ways - 1 THEN Idle ELSE next]
  BY DEF LoadOtherProbe, Become
<1>4. /\ DOMAIN th = CallFields /\ th.word = NoWord
      /\ \A f \in CallFields \ {"word", "value"} : th[f] = thread[t][f]
  BY <1>2 DEF IsCall, CallFields
<1> HIDE DEF th
<1>5. CASE ent.key = th.key
  <2>1. ent.data \in DataWords /\ (ent.key \in HashKeys => Genuine(ent.key, ent.data))
    BY <1>1, LoadedFacts
  <2>2. DOMAIN ent = {"key", "data"}
    BY DEF Loaded
  <2> DEFINE new == [ent EXCEPT !.data.gen = generation]
  <2>3. /\ new.key = ent.key /\ new.data.move = ent.data.move /\ new.data.score = ent.data.score
        /\ new.data.depth = ent.data.depth /\ new.data.type = ent.data.type
        /\ new.data \in DataWords
    BY <2>1, <2>2 DEF DataWords, IInv, Settings
  <2>4. thread' = [thread EXCEPT ![t] = found] /\ thread'[t] = found
    BY <1>2, <1>3, <1>5
  <2> HIDE DEF ent
  <2>5. /\ DOMAIN found = CallFields /\ found.pc \in {"found", "store"} /\ found.ent = new
        /\ found.at = Slot(t)
        /\ \A f \in CallFields \ {"pc", "at", "ent"} : found[f] = th[f]
    BY <1>4 DEF CallFields
  <2> HIDE DEF found, new
  <2>6. Genuine(th.key, new.data)
    <3>1. th.key \in HashKeys
      BY <1>2, <1>4 DEF IsCall, CallFields
    <3>2. Genuine(th.key, ent.data)
      BY <1>5, <2>1, <3>1
    <3> QED
      BY <2>3, <3>2 DEF Genuine
  <2>7. IsCall(found)
    <3>1. /\ found.what = thread[t].what /\ found.key = thread[t].key
          /\ found.word = NoWord /\ found.what # "insert"
      BY <1>1, <1>4, <2>5 DEF CallFields
    <3> QED
      BY <1>2, <2>5, <3>1 DEF IsCall
  <2>8. Known(found)
    BY <1>2, <1>4, <1>5, <2>3, <2>5, <2>6 DEF Known, CallFields
  <2>9. IsThread(found)
    BY <2>5, <2>7, <2>8 DEF IsThread
  <2> QED
    BY <1>1, <1>2, <2>4, <2>9, ThreadStep
<1>6. CASE ent.key # th.key /\ th.i = Ways - 1
  <2>1. thread'[t] = Idle /\ thread' = [thread EXCEPT ![t] = Idle]
    BY <1>2, <1>3, <1>6
  <2> QED
    BY <1>1, <1>2, <2>1, ThreadStep DEF IsThread
<1>7. CASE ent.key # th.key /\ th.i # Ways - 1
  <2>1. thread' = [thread EXCEPT ![t] = next] /\ thread'[t] = next
    BY <1>2, <1>3, <1>7
  <2>2. /\ DOMAIN next = CallFields /\ next.i = th.i + 1
        /\ \A f \in CallFields \ {"i"} : next[f] = th[f]
    BY <1>4 DEF CallFields
  <2> HIDE DEF next
  <2>3. th.i = thread[t].i
    BY <1>4 DEF CallFields
  <2>4. next.i \in 0 .. Ways - 1
    BY <1>2, <1>7, <2>2, <2>3, TableFacts DEF Loading, IInv
  <2>5. IsCall(next)
    BY <1>1, <1>2, <1>4, <2>2 DEF IsCall, CallFields
  <2>6. Loading(next)
    BY <1>1, <1>4, <2>2, <2>4 DEF Loading, CallFields, NoWord, Words
  <2>7. IsThread(next)
    BY <1>1, <1>4, <2>2, <2>5, <2>6 DEF IsThread, CallFields
  <2> QED
    BY <1>1, <1>2, <2>1, <2>7, ThreadStep
<1> QED
  BY <1>5, <1>6, <1>7

(* Storing a word of a genuine entry below usedSize.                        *)
LEMMA StoreWord ==
    ASSUME IInv, NEW at \in 0 .. usedSize - 1, NEW w \in Words, UNCHANGED settings,
           NEW ent, NEW key \in HashKeys, ent.key = key, Genuine(key, ent.data),
           table' = [table EXCEPT ![at][w] = StoredWord(ent, w)]
    PROVE  Sizes' /\ Settings' /\ Contents' /\ TbIntact'
<1>1. UNCHANGED <<usedSize, contemptHash, generation, tbGen>>
  BY DEF settings
<1>2. DOMAIN table' = DOMAIN table /\ TableSize' = TableSize
  BY DEF TableSize
<1>3. Sizes' /\ Settings'
  BY <1>1, <1>2 DEF IInv, Sizes, Settings
<1>4. DOMAIN table = 0 .. TableSize - 1 /\ TableSize \in Nat /\ usedSize \in 0 .. TableSize /\ TbSize \in Nat
  BY TableFacts, TableAssumption DEF IInv
<1>5. at \in DOMAIN table /\ DOMAIN table[at] = Words
  BY <1>4 DEF IInv, Contents
<1>6. \A i \in DOMAIN table : i # at => table'[i] = table[i]
  BY <1>5
<1>7. /\ DOMAIN table'[at] = Words /\ table'[at][w] = StoredWord(ent, w)
      /\ \A v \in Words : v # w => table'[at][v] = table[at][v]
  BY <1>5
<1>8. /\ w = "key" => IsKeyWord(StoredWord(ent, w))
      /\ w = "data" => StoredWord(ent, w) \in DataWords
  BY GenuineFacts DEF StoredWord, Genuine
<1>9. Contents'
  <2>1. IsKeyWord(table'[at].key) /\ table'[at].data \in DataWords
    BY <1>5, <1>7, <1>8 DEF IInv, Contents, Words
  <2> QED
    BY <1>2, <1>6, <1>7, <2>1 DEF IInv, Contents
<1>10. TbIntact'
  <2>1. SUFFICES ASSUME tbGen.complete, NEW i \in TbRegion PROVE table'[i] = TbEntry(tbGen, i)
    BY <1>1, <1>2 DEF TbIntact, TbRegion
  <2>2. table[i] = TbEntry(tbGen, i)
    BY <2>1 DEF IInv, TbIntact
  <2>3. usedSize <= TableSize - TbSize
    BY <2>1 DEF IInv, Sizes
  <2>4. i # at
    BY <1>4, <2>3 DEF TbRegion
  <2> QED
    BY <1>6, <2>2, <2>4, <1>4, <2>3 DEF TbRegion
<1> QED
  BY <1>3, <1>9, <1>10

LEMMA StoreOneStep ==
    ASSUME IInv, NEW t \in Threads, StoreOne(t)
    PROVE  IInv'
<1>1. thread[t].pc = "store" /\ UNCHANGED <<settings, phase>>
  BY DEF StoreOne
<1>2. phase # "setup" /\ IsCall(thread[t]) /\ Known(thread[t]) /\ DOMAIN thread = Threads
  BY <1>1, CallFacts DEF IInv, Calls
<1>3. PICK w \in Words : /\ table' = [table EXCEPT ![thread[t].at][w] = StoredWord(thread[t].ent, w)]
                         /\ thread' = [thread EXCEPT ![t] = [thread[t] EXCEPT !.word = w]]
  BY DEF StoreOne, Become
<1>4. Sizes' /\ Settings' /\ Contents' /\ TbIntact'
  BY <1>1, <1>2, <1>3, StoreWord DEF IsCall, Known
<1> DEFINE th == [thread[t] EXCEPT !.word = w]
<1>5. thread'[t] = th /\ \A u \in Threads : u # t => thread'[u] = thread[u]
  BY <1>2, <1>3
<1>6. /\ DOMAIN th = CallFields /\ th.word = w
      /\ \A f \in CallFields \ {"word"} : th[f] = thread[t][f]
  BY <1>2 DEF IsCall, CallFields
<1> HIDE DEF th
<1>7. IsCall(th) /\ Known(th)
  BY <1>1, <1>2, <1>6 DEF IsCall, Known, CallFields
<1>8. IsThread(th)
  BY <1>1, <1>6, <1>7 DEF IsThread, CallFields
<1>9. \A h : IsThread(h) => IsThread(h)'
  BY <1>1 DEF settings, IsThread, IsCall, Loading, Known, IsWord
<1>10. Calls'
  <2>1. DOMAIN thread' = Threads
    BY <1>2, <1>3
  <2> QED
    BY <1>1, <1>2, <1>5, <1>8, <1>9, <2>1 DEF IInv, Calls
<1> QED
  BY <1>4, <1>10 DEF IInv

LEMMA StoreOtherStep ==
    ASSUME IInv, NEW t \in Threads, StoreOther(t)
    PROVE  IInv'
<1>1. thread[t].pc = "store" /\ UNCHANGED <<settings, phase>>
  BY DEF StoreOther
<1>2. phase # "setup" /\ IsCall(thread[t]) /\ Known(thread[t]) /\ DOMAIN thread = Threads
  BY <1>1, CallFacts DEF IInv, Calls
<1>3. PICK w \in Words : table' = [table EXCEPT ![thread[t].at][w] = StoredWord(thread[t].ent, w)]
  BY DEF StoreOther
<1>4. Sizes' /\ Settings' /\ Contents' /\ TbIntact'
  BY <1>1, <1>2, <1>3, StoreWord DEF IsCall, Known
<1> DEFINE th == [thread[t] EXCEPT !.pc = "found", !.word = NoWord]
<1>5. thread' = [thread EXCEPT ![t] = IF thread[t].what = "probe" THEN th ELSE Idle]
  BY DEF StoreOther, Become
<1>6. /\ DOMAIN thread' = Threads /\ thread'[t] = IF thread[t].what = "probe" THEN th ELSE Idle
      /\ \A u \in Threads : u # t => thread'[u] = thread[u]
  BY <1>2, <1>5
<1>7. /\ DOMAIN th = CallFields /\ th.word = NoWord /\ th.pc = "found"
      /\ \A f \in CallFields \ {"pc", "word"} : th[f] = thread[t][f]
  BY <1>2 DEF IsCall, CallFields
<1> HIDE DEF th
<1>8. thread[t].what = "probe" => IsCall(th) /\ Known(th)
  BY <1>1, <1>2, <1>7 DEF IsCall, Known, CallFields
<1>9. IsThread(thread'[t])
  BY <1>6, <1>7, <1>8 DEF IsThread
<1>10. \A h : IsThread(h) => IsThread(h)'
  BY <1>1 DEF settings, IsThread, IsCall, Loading, Known, IsWord
<1>11. Calls'
  BY <1>1, <1>2, <1>6, <1>9, <1>10 DEF IInv, Calls
<1> QED
  BY <1>4, <1>11 DEF IInv

LEMMA UseStep ==
    ASSUME IInv, NEW t \in Threads, Use(t)
    PROVE  IInv'
<1>1. thread[t].pc = "found" /\ UNCHANGED <<table, settings, phase>> /\ thread' = [thread EXCEPT ![t] = Idle]
  BY DEF Use, Become
<1>2. phase # "setup" /\ thread'[t] = Idle
  BY <1>1, CallFacts DEF IInv, Calls
<1> QED
  BY <1>1, <1>2, ThreadStep DEF IsThread

LEMMA SetBusyStep ==
    ASSUME IInv, NEW t \in Threads, SetBusy(t)
    PROVE  IInv'
<1>1. thread[t].pc = "found" /\ UNCHANGED <<table, settings, phase>>
  BY DEF SetBusy
<1>2. phase # "setup" /\ IsCall(thread[t]) /\ Known(thread[t]) /\ DOMAIN thread = Threads
  BY <1>1, CallFacts DEF IInv, Calls
<1> DEFINE ent == thread[t].ent
           d == ent.data
           offer(ply) == [move |-> d.move, score |-> GetScore(d.score, ply), depth |-> d.depth,
                          type |-> d.type, ply |-> ply, busy |-> TRUE]
           key == Xor(ent.key, contemptHash)
<1>3. PICK ply \in Plies : thread' = [thread EXCEPT ![t] = Call("insert", key, offer(ply))]
  BY DEF SetBusy, Become
<1>4. PICK k \in Keys : ent.key = Xor({k}, contemptHash) /\ Genuine(ent.key, d)
  BY <1>1, <1>2 DEF IsCall, Known
<1>5. /\ key \in HashKeys /\ KeyOffers(key) = Offers(k) /\ KeyOffers(ent.key) = Offers(k)
  BY <1>4, KeyFacts DEF IInv, Settings
<1>6. PICK p \in Offers(k) : d.score = p.score /\ d.depth = p.depth /\ d.type = p.type
  BY <1>4, <1>5 DEF Genuine
<1>7. PICK q \in Offers(k) : d.move = q.move
  BY <1>4, <1>5 DEF Genuine
<1> HIDE DEF d
<1>8. /\ p \in [move : Moves, score : Int, depth : Nat, type : Types] /\ q.move \in Moves /\ ply \in Nat
      /\ IsWinScore(p.score) => IsWinScore(p.score - ply)
      /\ IsLoseScore(p.score) => IsLoseScore(p.score + ply)
  BY WordAssumption
<1>9. /\ SetScore(GetScore(p.score, ply), ply) = p.score /\ GetScore(p.score, ply) \in Int
  BY <1>8 DEF SetScore, GetScore, IsWinScore, IsLoseScore, MATE0
<1>10. offer(ply) \in OfferType
  BY <1>6, <1>7, <1>8, <1>9 DEF OfferType
<1>11. Offered(key, offer(ply))
  BY <1>5, <1>6, <1>7, <1>9, <1>10 DEF Offered
<1> HIDE DEF key, offer
<1>12. IsThread(Call("insert", key, offer(ply)))
  BY <1>5, <1>11, NewCalls DEF IInv
<1>13. thread'[t] = Call("insert", key, offer(ply))
  BY <1>2, <1>3
<1> QED
  BY <1>1, <1>2, <1>3, <1>12, <1>13, ThreadStep

(***************************************************************************)
(* The steps between searches.                                             *)
(***************************************************************************)
(* A table of whatever words between searches, with nothing in use yet.     *)
LEMMA SetupStep ==
    ASSUME IInv, phase = "setup", UNCHANGED thread, Sizes', Settings', Contents', TbIntact'
    PROVE  IInv'
<1>1. \A t \in Threads : thread'[t] = Idle
  BY DEF IInv, Calls
<1> QED
  BY <1>1 DEF IInv, Calls, IsThread

(* A new table is empty, and all of it is used.                             *)
LEMMA NewTable ==
    ASSUME NEW s \in TableSizes, table' = [i \in 0 .. s - 1 |-> EmptyEntry], usedSize' = s,
           tbGen' = NoTable
    PROVE  Sizes' /\ Contents' /\ TbIntact' /\ TableSize' = s
<1>1. s \in Nat /\ 2 * s >= TopLimit * Ways
  BY TableAssumption
<1>2. ~tbGen'.complete
  BY DEF NoTable
<1>3. TableSize' = s
  <2>1. Cardinality(0 .. s - 1) = s
    BY <1>1, FS_Interval
  <2> QED
    BY <2>1 DEF TableSize
<1>4. Sizes'
  BY <1>1, <1>2 DEF Sizes
<1>5. Contents'
  BY EmptyWords DEF Contents
<1> QED
  BY <1>2, <1>3, <1>4, <1>5 DEF TbIntact

LEMMA ReSizeStep ==
    ASSUME IInv, ReSize
    PROVE  IInv'
<1>1. PICK s \in TableSizes : table' = [i \in 0 .. s - 1 |-> EmptyEntry] /\ usedSize' = s
  BY DEF ReSize
<1>2. /\ phase = "setup" /\ UNCHANGED thread /\ generation' = 0 /\ tbGen' = NoTable
      /\ contemptHash' = contemptHash
  BY DEF ReSize, Setup
<1>3. Sizes' /\ Contents' /\ TbIntact'
  BY <1>1, <1>2, NewTable
<1>4. Settings'
  BY <1>2 DEF IInv, Settings
<1> QED
  BY <1>2, <1>3, <1>4, SetupStep

LEMMA ClearStep ==
    ASSUME IInv, Clear
    PROVE  IInv'
<1>1. /\ phase = "setup" /\ UNCHANGED <<thread, generation, contemptHash>> /\ tbGen' = NoTable
      /\ table' = [i \in DOMAIN table |-> EmptyEntry] /\ usedSize' = TableSize
  BY DEF Clear, Setup
<1>2. DOMAIN table = 0 .. TableSize - 1 /\ TableSize \in TableSizes
  BY TableFacts DEF IInv
<1>3. Sizes' /\ Contents' /\ TbIntact'
  <2> DEFINE s == TableSize
  <2>1. s \in TableSizes /\ table' = [i \in 0 .. s - 1 |-> EmptyEntry] /\ usedSize' = s
    BY <1>1, <1>2
  <2> HIDE DEF s
  <2> QED
    BY <1>1, <2>1, NewTable
<1>4. Settings'
  BY <1>1 DEF IInv, Settings
<1> QED
  BY <1>1, <1>3, <1>4, SetupStep

LEMMA SetWhiteContemptStep ==
    ASSUME IInv, SetWhiteContempt
    PROVE  IInv'
<1>1. /\ phase = "setup" /\ UNCHANGED <<table, usedSize, tbGen, thread>>
      /\ contemptHash' \in Contempts /\ generation' = (generation + 1) % Generations
  BY DEF SetWhiteContempt, Setup
<1>2. TableSize' = TableSize
  BY <1>1 DEF TableSize
<1>3. Sizes' /\ Contents' /\ TbIntact'
  BY <1>1, <1>2 DEF IInv, Sizes, Contents, TbIntact, TbRegion
<1>4. (generation + 1) % Generations \in Nat
  BY TableAssumption DEF IInv, Settings
<1>5. Settings'
  BY <1>1, <1>4 DEF IInv, Settings, ContemptHashes
<1> QED
  BY <1>1, <1>3, <1>5, SetupStep

(* A search starts with the table as it is.                                 *)
LEMMA StartStep ==
    ASSUME IInv, phase = "setup",
           UNCHANGED <<table, usedSize, generation, contemptHash, tbGen, thread>>
    PROVE  IInv'
<1>1. TableSize' = TableSize
  BY DEF TableSize
<1>2. Sizes' /\ Settings' /\ Contents' /\ TbIntact'
  BY <1>1 DEF IInv, Sizes, Settings, Contents, TbIntact, TbRegion
<1> QED
  BY <1>2, SetupStep

LEMMA UpdateTBUnsuitableStep ==
    ASSUME IInv, UpdateTBUnsuitable
    PROVE  IInv'
<1> DEFINE drop == tbGen # NoTable /\ notUsedCnt > UnusedLimit
<1>1. /\ phase = "setup" /\ UNCHANGED <<table, generation, contemptHash, thread>>
      /\ tbGen' = IF drop THEN NoTable ELSE tbGen
      /\ usedSize' = IF drop THEN TableSize ELSE usedSize
  BY DEF UpdateTBUnsuitable
<1> HIDE DEF drop
<1>2. CASE drop
  <2>1. tbGen' = NoTable /\ ~tbGen'.complete /\ usedSize' = TableSize /\ TableSize' = TableSize
    BY <1>1, <1>2 DEF NoTable, TableSize
  <2>2. /\ TableSize \in TableSizes /\ TableSize \in Nat /\ DOMAIN table = 0 .. TableSize - 1
        /\ 2 * TableSize >= TopLimit * Ways
    BY TableFacts, TableAssumption DEF IInv
  <2>3. Sizes'
    <3> DEFINE s == TableSize
    <3>1. s \in TableSizes /\ s \in Nat /\ DOMAIN table' = 0 .. s - 1 /\ usedSize' = s
          /\ 2 * s >= TopLimit * Ways
      BY <1>1, <2>1, <2>2
    <3> HIDE DEF s
    <3> QED
      BY <2>1, <3>1 DEF Sizes
  <2>4. Settings' /\ Contents' /\ TbIntact'
    BY <1>1, <2>1 DEF IInv, Settings, Contents, TbIntact
  <2> QED
    BY <1>1, <2>3, <2>4, SetupStep
<1>3. CASE ~drop
  BY <1>1, <1>3, StartStep
<1> QED
  BY <1>2, <1>3

(* An endgame table written over the end of the hash table, or a part of it.*)
LEMMA UpdateTBGenerateStep ==
    ASSUME IInv, NEW m \in Materials, UpdateTBGenerate(m)
    PROVE  IInv'
<1>1. /\ phase = "setup" /\ UNCHANGED <<generation, contemptHash, thread>>
      /\ TableSize >= TbSize + MinRest
  BY DEF UpdateTBGenerate, Setup
<1>2. PICK words \in Garbage, complete \in BOOLEAN :
        \E n \in IF complete THEN {TbSize} ELSE Parts :
          /\ tbGen' = [material |-> m, words |-> words, complete |-> complete]
          /\ table' = [i \in DOMAIN table |->
                        IF i \in TbRegion /\ i < TableSize - TbSize + n THEN TbEntry(tbGen', i)
                                                                       ELSE table[i]]
          /\ usedSize' = IF complete THEN TableSize - TbSize ELSE usedSize
  BY DEF UpdateTBGenerate
<1>3. PICK n \in IF complete THEN {TbSize} ELSE Parts :
        /\ tbGen' = [material |-> m, words |-> words, complete |-> complete]
        /\ table' = [i \in DOMAIN table |->
                      IF i \in TbRegion /\ i < TableSize - TbSize + n THEN TbEntry(tbGen', i)
                                                                     ELSE table[i]]
        /\ usedSize' = IF complete THEN TableSize - TbSize ELSE usedSize
  BY <1>2
<1>4. /\ TableSize \in TableSizes /\ TableSize \in Nat /\ DOMAIN table = 0 .. TableSize - 1
      /\ usedSize \in 0 .. TableSize
  BY TableFacts DEF IInv
<1>5. TbSize \in Nat /\ MinRest \in Nat /\ 2 * MinRest >= TopLimit * Ways
  BY TableAssumption
<1>6. DOMAIN table' = DOMAIN table /\ TableSize' = TableSize
  BY <1>3 DEF TableSize
<1>7. tbGen' \in [material : Materials, words : DataWords, complete : BOOLEAN] /\ tbGen'.complete = complete
  BY <1>3, WordAssumption
<1>8. Settings'
  BY <1>1, <1>7 DEF IInv, Settings
<1>9. Sizes'
  <2> DEFINE s == TableSize
  <2>1. s \in TableSizes /\ s \in Nat /\ DOMAIN table' = 0 .. s - 1 /\ TableSize' = s
        /\ usedSize \in 0 .. s /\ s >= TbSize + MinRest
        /\ usedSize' = IF complete THEN s - TbSize ELSE usedSize
    BY <1>1, <1>3, <1>4, <1>6
  <2> HIDE DEF s
  <2>2. usedSize' \in 0 .. s
    BY <1>5, <2>1
  <2>3. 2 * usedSize' >= TopLimit * Ways
    <3>1. TopLimit * Ways \in Nat
      BY TableFacts, TableAssumption DEF IInv
    <3>2. CASE complete
      <4>1. usedSize' \in Nat /\ usedSize' >= MinRest
        BY <1>5, <2>1, <3>2
      <4> QED
        BY <1>5, <3>1, <4>1
    <3>3. CASE ~complete
      BY <2>1, <3>3 DEF IInv, Sizes
    <3> QED
      BY <3>2, <3>3
  <2>4. complete => usedSize' <= s - TbSize
    BY <1>5, <2>1
  <2> QED
    BY <1>7, <2>1, <2>2, <2>3, <2>4 DEF Sizes
<1>10. Contents'
  <2>1. ASSUME NEW i \in DOMAIN table
        PROVE  DOMAIN table'[i] = Words /\ IsKeyWord(table'[i].key) /\ table'[i].data \in DataWords
    <3>1. CASE table'[i] = TbEntry(tbGen', i)
      <4>1. i \in Nat
        BY <1>4
      <4> QED
        BY <1>7, <3>1, <4>1, TbWords
    <3>2. CASE table'[i] = table[i]
      BY <3>2 DEF IInv, Contents
    <3> QED
      BY <1>3, <3>1, <3>2
  <2> QED
    BY <1>6, <2>1 DEF Contents
<1>11. TbIntact'
  <2>1. SUFFICES ASSUME complete, NEW i \in TbRegion PROVE table'[i] = TbEntry(tbGen', i)
    BY <1>6, <1>7 DEF TbIntact, TbRegion
  <2>2. n = TbSize
    BY <1>3, <2>1
  <2>3. i \in DOMAIN table /\ i < TableSize - TbSize + n
    BY <1>1, <1>4, <1>5, <2>1, <2>2 DEF TbRegion
  <2> QED
    BY <1>3, <2>1, <2>3
<1> QED
  BY <1>1, <1>8, <1>9, <1>10, <1>11, SetupStep

LEMMA EndSearchStep ==
    ASSUME IInv, EndSearch
    PROVE  IInv'
<1>1. /\ \A t \in Threads : thread[t] = Idle
      /\ UNCHANGED <<table, settings, thread>>
  BY DEF EndSearch
<1>2. TableSize' = TableSize /\ UNCHANGED <<usedSize, generation, contemptHash, tbGen>>
  BY <1>1 DEF TableSize, settings
<1>3. Sizes' /\ Settings' /\ Contents' /\ TbIntact'
  BY <1>1, <1>2 DEF IInv, Sizes, Settings, Contents, TbIntact, TbRegion
<1> QED
  BY <1>1, <1>3 DEF IInv, Calls, IsThread

(***************************************************************************)
(* The theorems.                                                           *)
(***************************************************************************)
LEMMA Initially == Init => IInv
<1> SUFFICES ASSUME Init PROVE IInv
  OBVIOUS
<1>1. PICK s \in TableSizes : table = [i \in 0 .. s - 1 |-> EmptyEntry] /\ usedSize = s
  BY DEF Init
<1>2. s \in Nat /\ 2 * s >= TopLimit * Ways
  BY TableAssumption
<1>3. ~tbGen.complete
  BY DEF Init, NoTable
<1>4. Sizes /\ TbIntact
  BY <1>1, <1>2, <1>3 DEF Sizes, TbIntact
<1>5. Contents
  BY <1>1, EmptyWords DEF Contents
<1>6. Settings /\ Calls
  BY DEF Init, Settings, Calls, IsThread, ContemptHashes
<1> QED
  BY <1>4, <1>5, <1>6 DEF IInv

LEMMA Stuttering == IInv /\ UNCHANGED vars => IInv'
<1> SUFFICES ASSUME IInv, UNCHANGED vars PROVE IInv'
  OBVIOUS
<1>1. /\ UNCHANGED <<table, usedSize, generation, contemptHash, tbGen, phase, thread>>
      /\ TableSize' = TableSize
  BY DEF vars, settings, TableSize
<1>2. Sizes' /\ Settings' /\ Contents' /\ TbIntact'
  BY <1>1 DEF IInv, Sizes, Settings, Contents, TbIntact, TbRegion
<1>3. \A h : IsThread(h) => IsThread(h)'
  BY <1>1 DEF IsThread, IsCall, Loading, Known, IsWord
<1> QED
  BY <1>1, <1>2, <1>3 DEF IInv, Calls

LEMMA Invariance == IInv /\ [Next]_vars => IInv'
<1> SUFFICES ASSUME IInv, [Next]_vars PROVE IInv'
  OBVIOUS
<1>1. CASE ReSize
  BY <1>1, ReSizeStep
<1>2. CASE Clear
  BY <1>2, ClearStep
<1>3. CASE SetWhiteContempt
  BY <1>3, SetWhiteContemptStep
<1>4. CASE StartSearch
  BY <1>4, StartStep DEF StartSearch, settings
<1>5. CASE UpdateTBUnsuitable
  BY <1>5, UpdateTBUnsuitableStep
<1>6. ASSUME NEW m \in Materials, UpdateTBHit(m) PROVE IInv'
  BY <1>6, StartStep DEF UpdateTBHit
<1>7. ASSUME NEW m \in Materials, UpdateTBGenerate(m) PROVE IInv'
  BY <1>7, UpdateTBGenerateStep
<1>8. CASE EndSearch
  BY <1>8, EndSearchStep
<1>9. ASSUME NEW t \in Threads,
             \/ Insert(t) \/ Probe(t) \/ LoadOne(t) \/ LoadOtherInsert(t) \/ LoadOtherProbe(t)
             \/ StoreOne(t) \/ StoreOther(t) \/ Use(t) \/ SetBusy(t)
      PROVE  IInv'
  BY <1>9, InsertStep, ProbeStep, LoadOneStep, LoadOtherInsertStep, LoadOtherProbeStep,
     StoreOneStep, StoreOtherStep, UseStep, SetBusyStep
<1>10. CASE UNCHANGED vars
  BY <1>10, Stuttering
<1> QED
  BY <1>1, <1>2, <1>3, <1>4, <1>5, <1>6, <1>7, <1>8, <1>9, <1>10 DEF Next

(* The words of the table and what the threads know stay consistent, for    *)
(* any threads, positions, contempts, offers and sizes.                     *)
THEOREM Inductive == Spec => []IInv
BY Initially, Invariance, PTL DEF Spec

(* What a probe finds was inserted as a whole for the position probed.      *)
THEOREM Faithful == Spec => []ProbeFaithful
<1>1. IInv => ProbeFaithful
  <2> SUFFICES ASSUME IInv, NEW t \in Threads, Found(t)
               PROVE  LET d == thread[t].ent.data
                          offers == Offers(CHOOSE k \in Keys : k \in thread[t].key)
                      IN  /\ \E o \in offers : d.score = o.score /\ d.depth = o.depth /\ d.type = o.type
                          /\ \E o \in offers : d.move = o.move
    BY DEF ProbeFaithful
  <2>1. Known(thread[t])
    BY CallFacts DEF Found
  <2> QED
    BY <2>1 DEF Known, Genuine, KeyOffers
<1> QED
  BY <1>1, Inductive, PTL

(* No thread writes to an endgame table that is in use.                     *)
THEOREM TablesKept == Spec => []TbIntact
<1>1. IInv => TbIntact
  BY DEF IInv
<1> QED
  BY <1>1, Inductive, PTL
=============================================================================
