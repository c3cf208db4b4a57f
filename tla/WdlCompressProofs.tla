------------------------- MODULE WdlCompressProofs -------------------------
(* Proofs about WdlCompress: whatever the material, its values and the      *)
(* sizes of batches and words, only values that need no table are left out, *)
(* the statistics are exact, and the codes can be decoded with the tree.    *)
(* They begin with lemmas about decision trees and what is done with them.  *)
EXTENDS WdlCompress, FiniteSetTheorems, SequenceTheorems, WellFoundedInduction, TLAPS

(***************************************************************************)
(* Numbers, finite sets and sums.                                          *)
(***************************************************************************)
(* A nonempty set of natural numbers has a least element.                   *)
LEMMA Least ==
    ASSUME NEW T \in SUBSET Nat, T # {}
    PROVE  \E x \in T : \A y \in T : x <= y
<1> DEFINE R == OpToRel(<, Nat)
<1>1. IsWellFoundedOn(R, Nat)
  BY NatLessThanWellFounded
<1>2. \A x, y \in Nat : y < x => <<y, x>> \in R
  BY Zenon DEF OpToRel
<1> HIDE DEF R
<1>3. \E x \in T : \A y \in T : ~ (<<y, x>> \in R)
  BY <1>1, WFMin
<1>4. PICK x \in T : \A y \in T : ~ (<<y, x>> \in R)
  BY <1>3, Zenon
<1>5. ASSUME NEW y \in T PROVE x <= y
  <2>1. ~ (<<y, x>> \in R)
    BY <1>4, Zenon
  <2>2. x \in Nat /\ y \in Nat
    OBVIOUS
  <2>3. ~(y < x)
    BY <1>2, <2>1, <2>2, Zenon
  <2> QED
    BY <2>2, <2>3
<1> QED
  BY <1>5

(* Induction, for a property given as the set of the numbers that have it.  *)
LEMMA Induction ==
    ASSUME NEW S, 0 \in S, \A n \in Nat : n \in S => n + 1 \in S
    PROVE  Nat \subseteq S
<1>1. SUFFICES ASSUME Nat \ S # {} PROVE FALSE
  OBVIOUS
<1>2. PICK n \in Nat \ S : \A m \in Nat \ S : n <= m
  BY <1>1, Least
<1>3. n # 0 /\ n - 1 \in Nat /\ n - 1 \in S
  BY <1>2
<1>4. (n - 1) + 1 = n
  BY <1>2
<1> QED
  BY <1>2, <1>3, <1>4

(* The values of a function with a finite domain are finitely many.         *)
LEMMA Image ==
    ASSUME NEW f, IsFiniteSet(DOMAIN f)
    PROVE  IsFiniteSet({f[x] : x \in DOMAIN f})
<1> DEFINE T == {f[x] : x \in DOMAIN f}
           g == [x \in DOMAIN f |-> f[x]]
<1>1. g \in Surjection(DOMAIN f, T)
  BY DEF Surjection
<1> QED
  BY <1>1, FS_Surjection

(* The sum that merging a subtree makes for one of the values.              *)
LeafSum(tr, v, S) == MapThenSumSet(LAMBDA leaf : tr[leaf].stats[v], S)
(* The recursive definition behind a sum has a solution: one step after the *)
(* other, there is one for the subsets with up to so many elements.         *)
LEMMA LeafSums ==
    ASSUME NEW tr, NEW v, NEW S, IsFiniteSet(S), \A x \in S : tr[x].stats[v] \in Int
    PROVE  LeafSum(tr, v, S) \in Int
<1> DEFINE one(s) == CHOOSE x \in s : TRUE
           Solves(f, D) == f = [s \in D |-> IF s = {} THEN 0 ELSE tr[one(s)].stats[v] + f[s \ {one(s)}]]
           Small(n) == {s \in SUBSET S : Cardinality(s) <= n}
<1>1. \A s \in SUBSET S : IsFiniteSet(s) /\ Cardinality(s) \in Nat
  BY FS_Subset, FS_CardinalityType
<1>2. ASSUME NEW s \in SUBSET S, s # {}
      PROVE  /\ s \ {one(s)} \in SUBSET S /\ Cardinality(s \ {one(s)}) = Cardinality(s) - 1
             /\ one(s) \in S
  <2>1. one(s) \in s
    BY <1>2, Zenon
  <2> HIDE DEF one
  <2> QED
    BY <1>1, <2>1, FS_RemoveElement
<1>3. Cardinality({}) = 0 /\ \A s \in SUBSET S : Cardinality(s) = 0 => s = {}
  BY <1>1, FS_EmptySet
<1> HIDE DEF one
<1> DEFINE A == {n \in Nat : \E f \in [Small(n) -> Int] : Solves(f, Small(n))}
<1>4. 0 \in A
  <2> DEFINE f == [s \in Small(0) |-> 0]
  <2>1. \A s \in Small(0) : s = {}
    BY <1>1, <1>3
  <2>2. f \in [Small(0) -> Int] /\ Solves(f, Small(0))
    BY <2>1
  <2> QED
    BY <2>2
<1>5. ASSUME NEW n \in Nat, n \in A PROVE n + 1 \in A
  <2>1. PICK f \in [Small(n) -> Int] : Solves(f, Small(n))
    BY <1>5
  <2> DEFINE g == [s \in Small(n + 1) |-> IF s = {} THEN 0 ELSE tr[one(s)].stats[v] + f[s \ {one(s)}]]
  <2>2. ASSUME NEW s \in Small(n + 1), s # {}
        PROVE  /\ s \in SUBSET S /\ s \ {one(s)} \in Small(n) /\ s \ {one(s)} \in Small(n + 1)
               /\ tr[one(s)].stats[v] \in Int
    BY <1>1, <1>2, <2>2
  <2>3. \A s \in Small(n) : s \in Small(n + 1) /\ g[s] = f[s]
    <3>1. ASSUME NEW s \in Small(n) PROVE s \in Small(n + 1)
      BY <1>1
    <3> HIDE DEF Small
    <3> QED
      BY <2>1, <3>1
  <2> HIDE DEF Small
  <2>4. g \in [Small(n + 1) -> Int]
    BY <2>2
  <2>5. Solves(g, Small(n + 1))
    BY <2>2, <2>3
  <2> HIDE DEF g, Solves
  <2> QED
    BY <2>4, <2>5
<1>6. PICK F \in [SUBSET S -> Int] : Solves(F, SUBSET S)
  <2>1. Cardinality(S) \in A
    <3> HIDE DEF A
    <3> QED
      BY <1>4, <1>5, Induction, FS_CardinalityType
  <2>2. Small(Cardinality(S)) = SUBSET S
    BY FS_Subset
  <2> HIDE DEF Small, Solves
  <2> QED
    BY <2>1, <2>2
<1> DEFINE it == CHOOSE f : Solves(f, SUBSET S)
<1>7. Solves(it, SUBSET S)
  BY <1>6, Zenon
<1>8. LeafSum(tr, v, S) = it[S]
  BY Zenon DEF LeafSum, MapThenSumSet, MapThenFoldSet, one
<1> HIDE DEF it
<1> DEFINE B == {n \in Nat : \A s \in SUBSET S : Cardinality(s) = n => it[s] \in Int}
<1>9. 0 \in B
  BY <1>3, <1>7
<1>10. ASSUME NEW n \in Nat, n \in B PROVE n + 1 \in B
  <2>1. ASSUME NEW s \in SUBSET S, Cardinality(s) = n + 1 PROVE it[s] \in Int
    <3>1. s # {}
      BY <1>3, <2>1
    <3>2. s \ {one(s)} \in SUBSET S /\ Cardinality(s \ {one(s)}) = n /\ tr[one(s)].stats[v] \in Int
      BY <1>2, <2>1, <3>1
    <3>3. it[s \ {one(s)}] \in Int
      BY <1>10, <3>2
    <3>4. it[s] = tr[one(s)].stats[v] + it[s \ {one(s)}]
      BY <1>7, <3>1
    <3> QED
      BY <3>2, <3>3, <3>4
  <2> QED
    BY <2>1
<1>11. Cardinality(S) \in B
  <2> HIDE DEF B
  <2> QED
    BY <1>9, <1>10, Induction, FS_CardinalityType
<1> QED
  BY <1>8, <1>11

(***************************************************************************)
(* Paths in a tree.                                                        *)
(***************************************************************************)
(* The beginning of a path is a path, and its beginnings are those of it.   *)
LEMMA PrefixFacts ==
    ASSUME NEW path \in Seq(BOOLEAN), NEW n \in 0 .. Len(path)
    PROVE  /\ SubSeq(path, 1, n) \in Seq(BOOLEAN) /\ Len(SubSeq(path, 1, n)) = n
           /\ \A k \in 1 .. n : SubSeq(path, 1, n)[k] = path[k]
           /\ \A m \in 0 .. n : SubSeq(SubSeq(path, 1, n), 1, m) = SubSeq(path, 1, m)
           /\ n = Len(path) => SubSeq(path, 1, n) = path
<1>1. Len(path) \in Nat /\ \A k \in 1 .. n : path[k] \in BOOLEAN
  BY ElementOfSeq, LenProperties
<1>2. /\ SubSeq(path, 1, n) \in Seq(BOOLEAN) /\ Len(SubSeq(path, 1, n)) = n
      /\ \A k \in 1 .. n : SubSeq(path, 1, n)[k] = path[k]
  <2>1. /\ SubSeq(path, 1, n) \in Seq(BOOLEAN) /\ Len(SubSeq(path, 1, n)) = IF 1 <= n THEN n - 1 + 1 ELSE 0
        /\ \A k \in 1 .. n - 1 + 1 : SubSeq(path, 1, n)[k] = path[1 + k - 1]
    BY <1>1, SubSeqProperties
  <2> QED
    BY <2>1
<1>3. ASSUME NEW m \in 0 .. n
      PROVE  SubSeq(SubSeq(path, 1, n), 1, m) = SubSeq(path, 1, m)
  <2> DEFINE p == SubSeq(path, 1, n)
             q == SubSeq(path, 1, m)
             r == SubSeq(p, 1, m)
  <2>1. p \in Seq(BOOLEAN) /\ Len(p) = n /\ \A k \in 1 .. n : p[k] = path[k]
    BY <1>2
  <2> HIDE DEF p
  <2>2. /\ q \in Seq(BOOLEAN) /\ Len(q) = IF 1 <= m THEN m - 1 + 1 ELSE 0
        /\ \A k \in 1 .. m - 1 + 1 : q[k] = path[1 + k - 1]
    BY <1>1, SubSeqProperties
  <2>3. /\ r \in Seq(BOOLEAN) /\ Len(r) = IF 1 <= m THEN m - 1 + 1 ELSE 0
        /\ \A k \in 1 .. m - 1 + 1 : r[k] = p[1 + k - 1]
    BY <1>1, <2>1, SubSeqProperties
  <2> HIDE DEF q, r
  <2> QED
    <3>1. Len(q) = Len(r) /\ Len(q) = m
      BY <2>2, <2>3
    <3>2. \A k \in 1 .. Len(q) : q[k] = r[k]
      BY <2>1, <2>2, <2>3, <3>1
    <3>3. r = q
      BY <2>2, <2>3, <3>1, <3>2, SeqEqual
    <3> QED
      BY <3>3 DEF q, r, p
<1>4. n = Len(path) => SubSeq(path, 1, n) = path
  BY SubSeqFull
<1> QED
  BY <1>2, <1>3, <1>4

(* The path to a child begins like that of its parent.                      *)
LEMMA Child ==
    ASSUME NEW path \in Seq(BOOLEAN), NEW b \in BOOLEAN
    PROVE  /\ Append(path, b) \in Seq(BOOLEAN) /\ Len(Append(path, b)) = Len(path) + 1
           /\ Append(path, b)[Len(path) + 1] = b
           /\ \A k \in 1 .. Len(path) : Append(path, b)[k] = path[k]
           /\ \A n \in 0 .. Len(path) : SubSeq(Append(path, b), 1, n) = SubSeq(path, 1, n)
           /\ SubSeq(Append(path, b), 1, Len(path)) = path
           /\ Front(Append(path, b)) = path /\ Last(Append(path, b)) = b
<1> DEFINE c == Append(path, b)
<1>1. /\ c \in Seq(BOOLEAN) /\ Len(c) = Len(path) + 1 /\ c[Len(path) + 1] = b
      /\ \A k \in 1 .. Len(path) : c[k] = path[k]
      /\ Len(path) \in Nat
  BY AppendProperties, LenProperties
<1> HIDE DEF c
<1>2. ASSUME NEW n \in 0 .. Len(path) PROVE SubSeq(c, 1, n) = SubSeq(path, 1, n)
  <2> DEFINE p == SubSeq(c, 1, n)
             q == SubSeq(path, 1, n)
  <2>0. n \in 0 .. Len(c)
    BY <1>1
  <2>1. p \in Seq(BOOLEAN) /\ Len(p) = n /\ \A k \in 1 .. n : p[k] = c[k]
    BY <1>1, <2>0, PrefixFacts
  <2>2. q \in Seq(BOOLEAN) /\ Len(q) = n /\ \A k \in 1 .. n : q[k] = path[k]
    BY PrefixFacts
  <2> HIDE DEF p, q
  <2>3. p = q
    BY <1>1, <2>1, <2>2, SeqEqual
  <2> QED
    BY <2>3 DEF p, q
<1>3. SubSeq(c, 1, Len(path)) = path
  BY <1>1, <1>2, SubSeqFull
<1>4. Front(c) = path /\ Last(c) = b
  BY <1>1, <1>3 DEF Front, Last
<1> QED
  BY <1>1, <1>2, <1>3, <1>4 DEF c

(* The counts of a merged subtree are numbers.                              *)
LEMMA SumsAreInt ==
    ASSUME NEW tr, NEW path, IsFiniteSet(DOMAIN tr),
           \A leaf \in Below(tr, path) \cap NodesOf(tr, "stats") : tr[leaf].stats \in [WdlVals -> Int]
    PROVE  SumStats(tr, path) \in [WdlVals -> Int]
<1> DEFINE S == Below(tr, path) \cap NodesOf(tr, "stats")
<1>1. S \in SUBSET (DOMAIN tr) /\ IsFiniteSet(S)
  <2>1. S \in SUBSET (DOMAIN tr)
    BY DEF Below
  <2> QED
    BY <2>1, FS_Subset
<1>2. SumStats(tr, path) = [v \in WdlVals |-> LeafSum(tr, v, S)]
  BY Zenon DEF SumStats, LeafSum
<1>3. \A v \in WdlVals : LeafSum(tr, v, S) \in Int
  <2> HIDE DEF S
  <2> TAKE v \in WdlVals
  <2>1. \A leaf \in S : tr[leaf].stats[v] \in Int
    BY DEF S
  <2> QED
    BY <1>1, <2>1, LeafSums
<1> QED
  BY <1>2, <1>3

(***************************************************************************)
(* Leaves.                                                                 *)
(***************************************************************************)
(* A tree without gaps: what is above a node is a predicate, and below a    *)
(* predicate are two nodes.                                                 *)
IsPredicate(tr, path) == path \in DOMAIN tr /\ tr[path].kind = "predicate"
Shape(tr) ==
    /\ IsFiniteSet(DOMAIN tr) /\ <<>> \in DOMAIN tr
    /\ \A path \in DOMAIN tr :
        /\ path \in Seq(BOOLEAN) /\ Len(path) <= MaxDepth
        /\ \A n \in 0 .. Len(path) - 1 : IsPredicate(tr, SubSeq(path, 1, n))
        /\ IsPredicate(tr, path) => \A b \in BOOLEAN : Append(path, b) \in DOMAIN tr
(* A path that a position takes, and one that takes it to a leaf.           *)
Followed(tr, holds, path) ==
    path \in DOMAIN tr /\ \A n \in DOMAIN path : path[n] = (tr[SubSeq(path, 1, n - 1)].pred \in holds)
Ends(tr, holds, path) == Followed(tr, holds, path) /\ ~IsPredicate(tr, path)

(* Whatever holds for a position, it ends in one leaf of the tree.          *)
LEMMA LeafFacts ==
    ASSUME NEW tr, Shape(tr), NEW holds
    PROVE  /\ Ends(tr, holds, Leaf(tr, holds))
           /\ \A path : Ends(tr, holds, path) => path = Leaf(tr, holds)
<1>1. \E path : Ends(tr, holds, path)
  <2> DEFINE Q == {path \in DOMAIN tr : Followed(tr, holds, path)}
             T == {MaxDepth - Len(path) : path \in Q}
  <2>1. T \in SUBSET Nat /\ T # {}
    <3>1. <<>> \in Q
      BY DEF Shape, Followed
    <3>2. \A path \in Q : MaxDepth - Len(path) \in Nat
      BY TreeAssumption, LenProperties DEF Shape
    <3> QED
      BY <3>1, <3>2
  <2>2. PICK t \in T : \A y \in T : t <= y
    BY <2>1, Least
  <2>3. PICK path \in Q : \A p \in Q : MaxDepth - Len(path) <= MaxDepth - Len(p)
    BY <2>2
  <2>4. ASSUME IsPredicate(tr, path) PROVE FALSE
    <3>1. path \in Seq(BOOLEAN) /\ Followed(tr, holds, path) /\ Len(path) \in Nat
      BY LenProperties DEF Shape
    <3> DEFINE b == tr[path].pred \in holds
               p == Append(path, b)
    <3>2. b \in BOOLEAN
      OBVIOUS
    <3> HIDE DEF b
    <3>3. /\ p \in DOMAIN tr /\ p \in Seq(BOOLEAN) /\ Len(p) = Len(path) + 1 /\ p[Len(path) + 1] = b
          /\ \A k \in 1 .. Len(path) : p[k] = path[k]
          /\ \A n \in 0 .. Len(path) : SubSeq(p, 1, n) = SubSeq(path, 1, n)
          /\ SubSeq(p, 1, Len(path)) = path
      BY <2>4, <3>1, <3>2, Child DEF Shape
    <3> HIDE DEF p
    <3>4. ASSUME NEW n \in DOMAIN p PROVE p[n] = (tr[SubSeq(p, 1, n - 1)].pred \in holds)
      <4>1. n \in 1 .. Len(path) + 1 /\ DOMAIN path = 1 .. Len(path)
        BY <3>1, <3>3, LenProperties
      <4>2. CASE n = Len(path) + 1
        <5>1. p[n] = b /\ n - 1 = Len(path)
          BY <3>1, <3>3, <4>2
        <5>2. SubSeq(p, 1, n - 1) = path
          BY <3>3, <5>1
        <5> QED
          BY <5>1, <5>2 DEF b
      <4>3. CASE n # Len(path) + 1
        <5>1. n \in DOMAIN path /\ n - 1 \in 0 .. Len(path) /\ p[n] = path[n]
          BY <3>1, <3>3, <4>1, <4>3
        <5> QED
          BY <3>1, <3>3, <5>1 DEF Followed
      <4> QED
        BY <4>2, <4>3
    <3>5. p \in Q
      BY <3>3, <3>4 DEF Followed
    <3> QED
      BY <2>3, <3>1, <3>3, <3>5, TreeAssumption
  <2> QED
    BY <2>3, <2>4 DEF Ends
<1>2. ASSUME NEW p, NEW q, Ends(tr, holds, p), Ends(tr, holds, q), Len(p) <= Len(q) PROVE p = q
  <2>1. /\ p \in Seq(BOOLEAN) /\ q \in Seq(BOOLEAN) /\ Len(p) \in Nat /\ Len(q) \in Nat
        /\ DOMAIN p = 1 .. Len(p) /\ DOMAIN q = 1 .. Len(q)
    BY <1>2, LenProperties DEF Ends, Followed, Shape
  <2> DEFINE S == {n \in Nat : n <= Len(p) => SubSeq(p, 1, n) = SubSeq(q, 1, n)}
  <2>2. 0 \in S
    <3>1. SubSeq(p, 1, 0) = <<>> /\ SubSeq(q, 1, 0) = <<>>
      BY SubSeqEmpty
    <3> QED
      BY <3>1
  <2>3. ASSUME NEW n \in Nat, n \in S PROVE n + 1 \in S
    <3>1. SUFFICES ASSUME n + 1 <= Len(p) PROVE SubSeq(p, 1, n + 1) = SubSeq(q, 1, n + 1)
      OBVIOUS
    <3>2. SubSeq(p, 1, n) = SubSeq(q, 1, n) /\ n + 1 \in DOMAIN p /\ n + 1 \in DOMAIN q /\ (n + 1) - 1 = n
      BY <1>2, <2>1, <2>3, <3>1
    <3>3. /\ p[n + 1] = (tr[SubSeq(p, 1, n)].pred \in holds)
          /\ q[n + 1] = (tr[SubSeq(q, 1, n)].pred \in holds)
      BY <1>2, <3>2 DEF Ends, Followed
    <3>4. p[n + 1] = q[n + 1]
      BY <3>2, <3>3
    <3>5. /\ n \in 0 .. Len(p) /\ n + 1 \in 0 .. Len(p) /\ n \in 0 .. Len(q) /\ n + 1 \in 0 .. Len(q)
      BY <1>2, <2>1, <3>1
    <3> DEFINE pn == SubSeq(p, 1, n + 1)
               qn == SubSeq(q, 1, n + 1)
    <3>6. pn \in Seq(BOOLEAN) /\ Len(pn) = n + 1 /\ \A k \in 1 .. n + 1 : pn[k] = p[k]
      BY <2>1, <3>5, PrefixFacts
    <3>7. qn \in Seq(BOOLEAN) /\ Len(qn) = n + 1 /\ \A k \in 1 .. n + 1 : qn[k] = q[k]
      BY <2>1, <3>5, PrefixFacts
    <3>8. \A k \in 1 .. n : p[k] = SubSeq(p, 1, n)[k]
      BY <2>1, <3>5, PrefixFacts
    <3>9. \A k \in 1 .. n : q[k] = SubSeq(q, 1, n)[k]
      BY <2>1, <3>5, PrefixFacts
    <3> HIDE DEF pn, qn
    <3>10. \A k \in 1 .. n + 1 : k \in 1 .. n \/ k = n + 1
      OBVIOUS
    <3>11. \A k \in 1 .. n + 1 : p[k] = q[k]
      BY <3>2, <3>4, <3>8, <3>9, <3>10
    <3>12. pn = qn
      BY <3>6, <3>7, <3>11, SeqEqual
    <3> QED
      BY <3>12 DEF pn, qn
  <2>4. Len(p) \in S
    <3> HIDE DEF S
    <3> QED
      BY <2>1, <2>2, <2>3, Induction
  <2>5. SubSeq(q, 1, Len(p)) = p
    BY <2>1, <2>4, SubSeqFull
  <2>6. Len(p) = Len(q)
    <3>1. SUFFICES ASSUME Len(p) # Len(q) PROVE FALSE
      OBVIOUS
    <3>2. Len(p) \in 0 .. Len(q) - 1
      <4>1. Len(p) \in Nat /\ Len(q) \in Nat /\ Len(p) <= Len(q)
        BY <1>2, <2>1
      <4> QED
        BY <3>1, <4>1
    <3>3. IsPredicate(tr, p)
      <4>1. q \in DOMAIN tr
        BY <1>2 DEF Ends, Followed
      <4> QED
        BY <2>5, <3>2, <4>1 DEF Shape
    <3> QED
      BY <1>2, <3>3 DEF Ends
  <2> QED
    BY <2>1, <2>5, <2>6, SubSeqFull
<1>3. ASSUME NEW p, NEW q, Ends(tr, holds, p), Ends(tr, holds, q) PROVE p = q
  <2>1. Len(p) \in Nat /\ Len(q) \in Nat
    BY <1>3, LenProperties DEF Ends, Followed, Shape
  <2>2. Len(p) <= Len(q) \/ Len(q) <= Len(p)
    BY <2>1
  <2> QED
    BY <1>2, <1>3, <2>2
<1>4. Leaf(tr, holds) = CHOOSE path \in DOMAIN tr : Ends(tr, holds, path)
  <2>1. \A path \in DOMAIN tr : Ends(tr, holds, path) <=>
            /\ tr[path].kind # "predicate"
            /\ \A n \in DOMAIN path : path[n] = (tr[SubSeq(path, 1, n - 1)].pred \in holds)
    BY DEF Ends, Followed, IsPredicate
  <2> QED
    BY <2>1, Zenon DEF Leaf
<1>5. Ends(tr, holds, Leaf(tr, holds))
  <2>1. \E path \in DOMAIN tr : Ends(tr, holds, path)
    BY <1>1 DEF Ends, Followed
  <2> QED
    BY <1>4, <2>1, Zenon
<1> QED
  BY <1>3, <1>5

(* A node that stays, with all above it, keeps the positions that end there. *)
LEMMA SameLeaf ==
    ASSUME NEW tr, NEW new, Shape(tr), Shape(new), NEW path \in DOMAIN tr, path \in DOMAIN new,
           ~IsPredicate(tr, path), ~IsPredicate(new, path),
           \A n \in 0 .. Len(path) - 1 : new[SubSeq(path, 1, n)].pred = tr[SubSeq(path, 1, n)].pred
    PROVE  \A holds : Leaf(new, holds) = path <=> Leaf(tr, holds) = path
<1> TAKE holds
<1>1. DOMAIN path = 1 .. Len(path) /\ Len(path) \in Nat
  BY LenProperties DEF Shape
<1>2. \A n \in DOMAIN path : new[SubSeq(path, 1, n - 1)].pred = tr[SubSeq(path, 1, n - 1)].pred
  <2>1. \A n \in DOMAIN path : n - 1 \in 0 .. Len(path) - 1
    BY <1>1
  <2> QED
    BY <2>1
<1>3. Ends(new, holds, path) <=> Ends(tr, holds, path)
  BY <1>2 DEF Ends, Followed
<1> QED
  BY <1>3, LeafFacts

(***************************************************************************)
(* Replacing collectors.                                                   *)
(***************************************************************************)
(* A collector is not too deep, and what others have counted are numbers.   *)
Nodes(tr) ==
    \A path \in DOMAIN tr :
        \/ tr[path].kind = "predicate"
        \/ tr[path].kind = "stats" /\ tr[path].stats \in [WdlVals -> Int]
        \/ tr[path].kind = "collector" /\ Len(path) < MaxDepth
(* A collector that was given a sample.                                     *)
Ready(node) ==
    /\ node.applied \in Nat \ {0}
    /\ \A p \in Preds, b \in BOOLEAN : node.stats[p][b] \in [WdlVals -> Int]

(* New collectors are below those that they replace, and not too deep.      *)
Deepens(grown, chosen) ==
    \A path \in grown : \E c \in chosen, b \in BOOLEAN : Len(c) + 1 < MaxDepth /\ path = Append(c, b)

(* What replacing collectors makes of each node.                            *)
NewNode(tr, pred, grown, path) ==
    IF path \in Children(tr, pred)
    THEN IF path \in grown THEN StatsCollector ELSE StatsNode(Half(tr, pred, Front(path), Last(path)))
    ELSE IF path \in Split(tr, pred) THEN PredicateNode(pred[path])
    ELSE IF path \in DOMAIN pred
    THEN StatsNode(AddStats(Half(tr, pred, path, FALSE), Half(tr, pred, path, TRUE)))
    ELSE tr[path]
(* Children of replaced collectors are new nodes; each node has one case.   *)
LEMMA ReplacedNodes ==
    ASSUME NEW tr, NEW pred, NEW grown, Children(tr, pred) \cap DOMAIN pred = {}
    PROVE  /\ DOMAIN Replaced(tr, pred, grown) = DOMAIN tr \cup Children(tr, pred)
           /\ \A path \in DOMAIN tr \cup Children(tr, pred) :
                Replaced(tr, pred, grown)[path] = NewNode(tr, pred, grown, path)
<1> DEFINE new == Replaced(tr, pred, grown)
<1>1. Split(tr, pred) \subseteq DOMAIN pred
  BY DEF Split
<1>2. DOMAIN new = DOMAIN tr \cup Children(tr, pred)
  BY DEF Replaced
<1>3. ASSUME NEW path \in DOMAIN tr \cup Children(tr, pred), path \in Children(tr, pred), path \in grown
      PROVE  new[path] = StatsCollector
  BY <1>1, <1>3 DEF Replaced
<1>4. ASSUME NEW path \in DOMAIN tr \cup Children(tr, pred), path \in Children(tr, pred), path \notin grown
      PROVE  new[path] = StatsNode(Half(tr, pred, Front(path), Last(path)))
  BY <1>1, <1>4 DEF Replaced
<1>5. ASSUME NEW path \in DOMAIN tr \cup Children(tr, pred), path \notin Children(tr, pred), path \in Split(tr, pred)
      PROVE  new[path] = PredicateNode(pred[path])
  BY <1>1, <1>5 DEF Replaced
<1>6. ASSUME NEW path \in DOMAIN tr \cup Children(tr, pred), path \notin Children(tr, pred),
             path \in DOMAIN pred \ Split(tr, pred)
      PROVE  new[path] = StatsNode(AddStats(Half(tr, pred, path, FALSE), Half(tr, pred, path, TRUE)))
  BY <1>1, <1>6 DEF Replaced
<1>7. ASSUME NEW path \in DOMAIN tr \cup Children(tr, pred), path \notin Children(tr, pred), path \notin DOMAIN pred
      PROVE  new[path] = tr[path]
  BY <1>1, <1>7 DEF Replaced
<1> HIDE DEF new
<1>8. \A path \in DOMAIN tr \cup Children(tr, pred) : new[path] = NewNode(tr, pred, grown, path)
  BY <1>1, <1>3, <1>4, <1>5, <1>6, <1>7 DEF NewNode
<1> QED
  BY <1>2, <1>8 DEF new

(* Replacing collectors leaves a tree without gaps, in which all other      *)
(* nodes are where they were and new collectors have counted nothing.       *)
LEMMA ReplacedFacts ==
    ASSUME NEW tr, Shape(tr), Nodes(tr),
           NEW chosen \in SUBSET Collectors(tr), \A c \in chosen : Ready(tr[c]),
           NEW pred \in [chosen -> Preds],
           NEW grown, Deepens(grown, chosen),
           NEW new, new = Replaced(tr, pred, grown)
    PROVE  /\ Shape(new) /\ Nodes(new)
           /\ \A path \in DOMAIN tr \ chosen : path \in DOMAIN new /\ new[path] = tr[path]
           /\ \A c \in Collectors(new) : c \in Collectors(tr) \ chosen \/ new[c] = StatsCollector
<1> DEFINE half(c, b) == Half(tr, pred, c, b)
           split == Split(tr, pred)
           children == Children(tr, pred)
<1>1. DOMAIN pred = chosen /\ split \subseteq chosen
  BY DEF Split
<1>2. \A c \in chosen : /\ c \in DOMAIN tr /\ tr[c].kind = "collector" /\ ~IsPredicate(tr, c)
                        /\ c \in Seq(BOOLEAN) /\ Len(c) \in Nat /\ Len(c) < MaxDepth
  <2>1. \A c \in chosen : c \in DOMAIN tr /\ tr[c].kind = "collector"
    BY DEF Collectors, NodesOf
  <2> QED
    BY <2>1, LenProperties DEF Shape, Nodes, IsPredicate
<1>3. \A c \in chosen, b \in BOOLEAN : half(c, b) \in [WdlVals -> Int]
  <2> TAKE c \in chosen, b \in BOOLEAN
  <2>1. tr[c].applied \in Nat \ {0} /\ tr[c].stats[pred[c]][b] \in [WdlVals -> Int]
    BY DEF Ready
  <2>2. \A stats \in [WdlVals -> Int], k \in Nat \ {0} : ScaleCounts(stats, k) \in [WdlVals -> Int]
    BY TreeAssumption DEF ScaleCounts
  <2>3. half(c, b) = ScaleCounts(tr[c].stats[pred[c]][b], tr[c].applied)
    BY DEF Half
  <2> HIDE DEF half
  <2> QED
    BY <2>1, <2>2, <2>3
<1>4. \A path : path \in children <=> \E c \in split, b \in BOOLEAN : path = Append(c, b)
  BY DEF Children
<1> HIDE DEF half, split, children
<1>5. ASSUME NEW c \in split, NEW b \in BOOLEAN
      PROVE  /\ Append(c, b) \notin DOMAIN tr /\ Append(c, b) \in Seq(BOOLEAN)
             /\ Len(Append(c, b)) = Len(c) + 1
             /\ Front(Append(c, b)) = c /\ Last(Append(c, b)) = b
             /\ SubSeq(Append(c, b), 1, Len(c)) = c
             /\ \A n \in 0 .. Len(c) : SubSeq(Append(c, b), 1, n) = SubSeq(c, 1, n)
  <2>1. c \in chosen /\ c \in Seq(BOOLEAN) /\ Len(c) \in Nat /\ ~IsPredicate(tr, c)
    BY <1>1, <1>2
  <2>2. /\ Append(c, b) \in Seq(BOOLEAN) /\ Len(Append(c, b)) = Len(c) + 1
        /\ Front(Append(c, b)) = c /\ Last(Append(c, b)) = b
        /\ SubSeq(Append(c, b), 1, Len(c)) = c
        /\ \A n \in 0 .. Len(c) : SubSeq(Append(c, b), 1, n) = SubSeq(c, 1, n)
    BY <2>1, Child
  <2>3. Append(c, b) \notin DOMAIN tr
    <3> DEFINE a == Append(c, b)
    <3>1. SubSeq(a, 1, Len(c)) = c /\ Len(c) \in 0 .. Len(a) - 1
      BY <2>1, <2>2
    <3> HIDE DEF a
    <3>2. a \in DOMAIN tr => IsPredicate(tr, SubSeq(a, 1, Len(c)))
      BY <3>1 DEF Shape
    <3> QED
      BY <2>1, <3>1, <3>2 DEF a
  <2> QED
    BY <2>2, <2>3
<1>6. \A path \in children : path \notin DOMAIN tr /\ path \notin chosen
  <2> TAKE path \in children
  <2>1. PICK c \in split, b \in BOOLEAN : path = Append(c, b)
    BY <1>4
  <2>2. path \notin DOMAIN tr
    BY <1>5, <2>1
  <2> QED
    BY <1>2, <2>2
<1>7. /\ DOMAIN new = DOMAIN tr \cup children
      /\ \A path \in DOMAIN new :
            /\ path \in children \cap grown => new[path] = StatsCollector
            /\ path \in children \ grown => new[path] = StatsNode(half(Front(path), Last(path)))
            /\ path \notin children =>
                IF path \in split THEN new[path] = PredicateNode(pred[path])
                ELSE IF path \in chosen
                THEN new[path] = StatsNode(AddStats(half(path, FALSE), half(path, TRUE)))
                ELSE new[path] = tr[path]
  <2>1. Children(tr, pred) \cap DOMAIN pred = {}
    BY <1>1, <1>6 DEF children
  <2>2. /\ DOMAIN new = DOMAIN tr \cup Children(tr, pred)
        /\ \A path \in DOMAIN tr \cup Children(tr, pred) : new[path] = NewNode(tr, pred, grown, path)
    BY <2>1, ReplacedNodes
  <2> QED
    BY <1>1, <2>2 DEF half, split, children, NewNode
<1>8. ASSUME NEW path \in DOMAIN tr \ chosen PROVE path \in DOMAIN new /\ new[path] = tr[path]
  BY <1>1, <1>6, <1>7
<1>9. ASSUME NEW path \in split PROVE path \in DOMAIN new /\ new[path].kind = "predicate"
  <2>1. path \notin children /\ path \in DOMAIN tr
    BY <1>1, <1>2, <1>6
  <2>2. path \in DOMAIN new /\ new[path] = PredicateNode(pred[path])
    BY <1>7, <2>1
  <2> QED
    BY <2>2 DEF PredicateNode
<1>10. ASSUME NEW path \in chosen \ split
      PROVE  path \in DOMAIN new /\ new[path].kind = "stats" /\ new[path].stats \in [WdlVals -> Int]
  <2>1. path \notin children /\ path \in DOMAIN tr
    BY <1>2, <1>6
  <2>2. AddStats(half(path, FALSE), half(path, TRUE)) \in [WdlVals -> Int]
    <3>1. half(path, FALSE) \in [WdlVals -> Int] /\ half(path, TRUE) \in [WdlVals -> Int]
      BY <1>3
    <3>2. \A a, b \in [WdlVals -> Int] : AddStats(a, b) \in [WdlVals -> Int]
      BY DEF AddStats
    <3> QED
      BY <3>1, <3>2
  <2>3. path \in DOMAIN new /\ new[path] = StatsNode(AddStats(half(path, FALSE), half(path, TRUE)))
    BY <1>7, <2>1
  <2> DEFINE sum == AddStats(half(path, FALSE), half(path, TRUE))
  <2>4. new[path] = StatsNode(sum) /\ sum \in [WdlVals -> Int]
    BY <2>2, <2>3
  <2> HIDE DEF sum
  <2>5. StatsNode(sum).kind = "stats" /\ StatsNode(sum).stats = sum
    BY DEF StatsNode
  <2>6. path \in DOMAIN new
    BY <2>3
  <2> QED
    BY <2>4, <2>5, <2>6
<1>11. ASSUME NEW path \in children
      PROVE  /\ path \in DOMAIN new
             /\ \/ path \in grown /\ new[path] = StatsCollector
                \/ new[path].kind = "stats" /\ new[path].stats \in [WdlVals -> Int]
  <2>1. CASE path \in grown
    BY <1>7, <2>1
  <2>2. CASE path \notin grown
    <3>1. PICK c \in split, b \in BOOLEAN : path = Append(c, b)
      BY <1>4
    <3>2. half(Front(path), Last(path)) \in [WdlVals -> Int]
      BY <1>1, <1>3, <1>5, <3>1
    <3>3. path \in DOMAIN new /\ new[path] = StatsNode(half(Front(path), Last(path)))
      BY <1>7, <2>2
    <3> QED
      BY <3>2, <3>3 DEF StatsNode
  <2> QED
    BY <2>1, <2>2
<1>12. ASSUME NEW path \in DOMAIN new
       PROVE  path \in DOMAIN tr \ chosen \/ path \in split \/ path \in chosen \ split \/ path \in children
  BY <1>7
<1>13. IsFiniteSet(DOMAIN new)
  <2> DEFINE f == [c \in split |-> Append(c, TRUE)]
             g == [c \in split |-> Append(c, FALSE)]
  <2>1. IsFiniteSet(split)
    <3>1. split \in SUBSET (DOMAIN tr)
      BY <1>1, <1>2
    <3> QED
      BY <3>1, FS_Subset DEF Shape
  <2>2. DOMAIN f = split /\ DOMAIN g = split
    OBVIOUS
  <2>3. children = {f[c] : c \in DOMAIN f} \cup {g[c] : c \in DOMAIN g}
    <3>1. ASSUME NEW path \in children PROVE path \in {f[c] : c \in DOMAIN f} \cup {g[c] : c \in DOMAIN g}
      <4>1. PICK c \in split, b \in BOOLEAN : path = Append(c, b)
        BY <1>4
      <4> QED
        BY <4>1
    <3>2. ASSUME NEW c \in split PROVE f[c] \in children /\ g[c] \in children
      BY <1>4
    <3> QED
      BY <2>2, <3>1, <3>2
  <2> HIDE DEF f, g
  <2>4. IsFiniteSet({f[c] : c \in DOMAIN f}) /\ IsFiniteSet({g[c] : c \in DOMAIN g})
    BY <2>1, <2>2, Image
  <2>5. IsFiniteSet(children)
    BY <2>3, <2>4, FS_Union
  <2>6. IsFiniteSet(DOMAIN tr)
    BY DEF Shape
  <2> QED
    <3>1. IsFiniteSet(DOMAIN tr \cup children)
      BY <2>5, <2>6, FS_Union
    <3> QED
      BY <1>7, <3>1
<1>14. \A path \in DOMAIN tr : IsPredicate(tr, path) => IsPredicate(new, path)
  <2> TAKE path \in DOMAIN tr
  <2> HAVE IsPredicate(tr, path)
  <2>1. path \notin chosen
    BY <1>2
  <2> QED
    BY <1>8, <2>1 DEF IsPredicate
<1>15. ASSUME NEW path \in DOMAIN new, NEW b \in BOOLEAN, IsPredicate(new, path)
       PROVE  Append(path, b) \in DOMAIN new
  <2>1. CASE path \in DOMAIN tr \ chosen
    <3>1. IsPredicate(tr, path)
      BY <1>8, <1>15, <2>1 DEF IsPredicate
    <3>2. Append(path, b) \in DOMAIN tr
      BY <2>1, <3>1 DEF Shape
    <3> QED
      BY <1>7, <3>2
  <2>2. CASE path \in split
    <3>1. Append(path, b) \in children
      BY <1>4, <2>2
    <3> QED
      BY <1>7, <3>1
  <2>3. CASE path \in chosen \ split
    <3> QED
      BY <1>10, <1>15, <2>3 DEF IsPredicate
  <2>4. CASE path \in children
    <3> QED
      BY <1>11, <1>15, <2>4 DEF IsPredicate, StatsCollector
  <2> QED
    BY <1>12, <2>1, <2>2, <2>3, <2>4
<1>16. ASSUME NEW path \in DOMAIN tr
       PROVE  /\ path \in Seq(BOOLEAN) /\ Len(path) <= MaxDepth
              /\ \A n \in 0 .. Len(path) - 1 : IsPredicate(new, SubSeq(path, 1, n))
  BY <1>14 DEF Shape, IsPredicate
<1>17. ASSUME NEW path \in children
       PROVE  /\ path \in Seq(BOOLEAN) /\ Len(path) <= MaxDepth
              /\ \A n \in 0 .. Len(path) - 1 : IsPredicate(new, SubSeq(path, 1, n))
  <2>1. PICK c \in split, b \in BOOLEAN : path = Append(c, b)
    BY <1>4
  <2>2. c \in chosen /\ c \in DOMAIN tr /\ Len(c) \in Nat /\ Len(c) < MaxDepth
    BY <1>1, <1>2
  <2>3. /\ path \in Seq(BOOLEAN) /\ Len(path) = Len(c) + 1 /\ SubSeq(path, 1, Len(c)) = c
        /\ \A n \in 0 .. Len(c) : SubSeq(path, 1, n) = SubSeq(c, 1, n)
    BY <1>5, <2>1
  <2>4. IsPredicate(new, c)
    BY <1>9 DEF IsPredicate
  <2>5. ASSUME NEW n \in 0 .. Len(path) - 1 PROVE IsPredicate(new, SubSeq(path, 1, n))
    <3>1. CASE n = Len(c)
      BY <2>3, <2>4, <3>1
    <3>2. CASE n # Len(c)
      <4>1. n \in 0 .. Len(c) - 1 /\ n \in 0 .. Len(c)
        <5>1. n \in 0 .. Len(c) + 1 - 1 /\ Len(c) \in Nat
          BY <2>2, <2>3
        <5> QED
          BY <3>2, <5>1
      <4> QED
        BY <1>16, <2>2, <2>3, <4>1
    <3> QED
      BY <3>1, <3>2
  <2> QED
    BY <2>2, <2>3, <2>5, TreeAssumption
<1>18. Shape(new)
  <2>1. <<>> \in DOMAIN new
    BY <1>7 DEF Shape
  <2>2. ASSUME NEW path \in DOMAIN new
        PROVE  /\ path \in Seq(BOOLEAN) /\ Len(path) <= MaxDepth
               /\ \A n \in 0 .. Len(path) - 1 : IsPredicate(new, SubSeq(path, 1, n))
    BY <1>7, <1>16, <1>17
  <2> QED
    BY <1>13, <1>15, <2>1, <2>2 DEF Shape
<1>19. ASSUME NEW path \in grown PROVE Len(path) < MaxDepth
  <2>1. PICK c \in chosen, b \in BOOLEAN : Len(c) + 1 < MaxDepth /\ path = Append(c, b)
    BY DEF Deepens
  <2> QED
    BY <1>2, <2>1, Child
<1>20. Nodes(new)
  <2> SUFFICES ASSUME NEW path \in DOMAIN new
               PROVE  \/ new[path].kind = "predicate"
                      \/ new[path].kind = "stats" /\ new[path].stats \in [WdlVals -> Int]
                      \/ new[path].kind = "collector" /\ Len(path) < MaxDepth
    BY DEF Nodes
  <2>1. CASE path \in DOMAIN tr \ chosen
    BY <1>8, <2>1 DEF Nodes
  <2>2. CASE path \in children
    BY <1>11, <1>19, <2>2 DEF StatsCollector
  <2> QED
    BY <1>9, <1>10, <1>12, <2>1, <2>2
<1>21. ASSUME NEW c \in Collectors(new) PROVE c \in Collectors(tr) \ chosen \/ new[c] = StatsCollector
  <2>1. c \in DOMAIN new /\ new[c].kind = "collector"
    BY DEF Collectors, NodesOf
  <2>2. CASE c \in DOMAIN tr \ chosen
    BY <1>8, <2>1, <2>2 DEF Collectors, NodesOf
  <2>3. CASE c \in children
    BY <1>11, <2>1, <2>3
  <2> QED
    BY <1>9, <1>10, <1>12, <2>1, <2>2, <2>3
<1> QED
  BY <1>8, <1>18, <1>20, <1>21

(***************************************************************************)
(* Merging nodes.                                                          *)
(***************************************************************************)
(* A node is below those that its path begins with, and below no others.    *)
LEMMA PrefixOf ==
    ASSUME NEW tr, Shape(tr), NEW path \in DOMAIN tr
    PROVE  /\ path \in Seq(BOOLEAN) /\ Len(path) \in Nat
           /\ \A m \in DOMAIN tr : path \in Below(tr, m) \ {m} =>
                Len(m) < Len(path) /\ m = SubSeq(path, 1, Len(m))
           /\ \A n \in 0 .. Len(path) - 1 :
                path \in Below(tr, SubSeq(path, 1, n)) \ {SubSeq(path, 1, n)}
<1>1. \A p \in DOMAIN tr : p \in Seq(BOOLEAN) /\ Len(p) \in Nat
  BY LenProperties DEF Shape
<1>2. ASSUME NEW m \in DOMAIN tr, path \in Below(tr, m) \ {m}
      PROVE  Len(m) < Len(path) /\ m = SubSeq(path, 1, Len(m))
  <2>1. Len(m) <= Len(path) /\ SubSeq(m, 1, Len(m)) = SubSeq(path, 1, Len(m)) /\ path # m
    BY <1>2 DEF Below, IsPrefix
  <2>2. SubSeq(m, 1, Len(m)) = m /\ SubSeq(path, 1, Len(path)) = path
    BY <1>1, SubSeqFull
  <2> QED
    BY <1>1, <2>1, <2>2
<1>3. ASSUME NEW n \in 0 .. Len(path) - 1
      PROVE  path \in Below(tr, SubSeq(path, 1, n)) \ {SubSeq(path, 1, n)}
  <2> DEFINE q == SubSeq(path, 1, n)
  <2>1. n \in 0 .. Len(path) /\ n < Len(path)
    BY <1>1
  <2>2. q \in Seq(BOOLEAN) /\ Len(q) = n
    BY <1>1, <2>1, PrefixFacts
  <2>3. SubSeq(q, 1, n) = SubSeq(path, 1, n)
    BY <2>2, SubSeqFull
  <2>4. SubSeq(q, 1, Len(q)) = SubSeq(path, 1, Len(q))
    BY <2>2, <2>3
  <2> HIDE DEF q
  <2> QED
    BY <1>1, <2>1, <2>2, <2>4 DEF Below, IsPrefix, q
<1> QED
  BY <1>1, <1>2, <1>3

(* Merging nodes takes away all that is below them and nothing else.        *)
LEMMA SimplifiedFacts ==
    ASSUME NEW tr, Shape(tr), Nodes(tr), Collectors(tr) = {}, NEW chosen,
           NEW new, new = SimplifyTree(tr, chosen)
    PROVE  Shape(new) /\ Nodes(new) /\ Collectors(new) = {}
<1>1. PICK merged \in SUBSET NodesOf(tr, "predicate") :
        new = [path \in DOMAIN tr \ UNION {Below(tr, p) \ {p} : p \in merged} |->
                IF path \in merged THEN StatsNode(SumStats(tr, path)) ELSE tr[path]]
  <2> DEFINE merges(path) ==
                \/ path \in chosen
                \/ SameEncoding(SumStats(tr, Append(path, FALSE)), SumStats(tr, Append(path, TRUE)))
             merged == {path \in NodesOf(tr, "predicate") :
                            \A p \in Below(tr, path) \cap NodesOf(tr, "predicate") : merges(p)}
  <2>1. new = [path \in DOMAIN tr \ UNION {Below(tr, p) \ {p} : p \in merged} |->
                IF path \in merged THEN StatsNode(SumStats(tr, path)) ELSE tr[path]]
    BY DEF SimplifyTree
  <2>2. merged \in SUBSET NodesOf(tr, "predicate")
    OBVIOUS
  <2> HIDE DEF merged
  <2> QED
    BY <2>1, <2>2
<1> DEFINE gone == UNION {Below(tr, p) \ {p} : p \in merged}
<1>2. \A path : path \in gone <=> \E m \in merged : path \in Below(tr, m) \ {m}
  OBVIOUS
<1>3. /\ DOMAIN new = DOMAIN tr \ gone
      /\ \A path \in DOMAIN tr \ gone :
            new[path] = IF path \in merged THEN StatsNode(SumStats(tr, path)) ELSE tr[path]
  BY <1>1
<1> HIDE DEF gone
<1>4. \A m \in merged : m \in DOMAIN tr /\ tr[m].kind = "predicate" /\ IsPredicate(tr, m)
  BY DEF NodesOf, IsPredicate
<1>5. \A path \in DOMAIN tr : path \in Seq(BOOLEAN) /\ Len(path) \in Nat
  BY PrefixOf
<1>6. <<>> \in DOMAIN new
  <2>1. <<>> \in DOMAIN tr /\ Len(<<>>) = 0
    BY DEF Shape
  <2>2. ASSUME <<>> \in gone PROVE FALSE
    <3>1. PICK m \in merged : <<>> \in Below(tr, m) \ {m}
      BY <1>2, <2>2
    <3>2. m \in DOMAIN tr /\ Len(m) \in Nat
      BY <1>4, <1>5
    <3> QED
      BY <2>1, <3>1, <3>2, PrefixOf
  <2> QED
    BY <1>3, <2>1, <2>2
<1>7. ASSUME NEW path \in DOMAIN new, NEW n \in 0 .. Len(path) - 1
      PROVE  IsPredicate(new, SubSeq(path, 1, n))
  <2> DEFINE q == SubSeq(path, 1, n)
  <2>1. path \in DOMAIN tr /\ path \notin gone /\ path \in Seq(BOOLEAN) /\ Len(path) \in Nat
    BY <1>3, <1>5
  <2>2. IsPredicate(tr, q) /\ path \in Below(tr, q) \ {q}
    BY <2>1, PrefixOf DEF Shape
  <2>3. q \in DOMAIN tr /\ tr[q].kind = "predicate" /\ q \notin merged
    BY <1>2, <2>1, <2>2 DEF IsPredicate
  <2>4. ASSUME q \in gone PROVE FALSE
    <3>1. PICK m \in merged : q \in Below(tr, m) \ {m}
      BY <1>2, <2>4
    <3>2. m \in DOMAIN tr /\ Len(m) \in Nat
      BY <1>4, <1>5
    <3> HIDE DEF q
    <3>3. Len(m) < Len(q) /\ m = SubSeq(q, 1, Len(m))
      BY <2>3, <3>1, <3>2, PrefixOf
    <3>4. Len(q) = n /\ n \in 0 .. Len(path)
      <4>1. n \in 0 .. Len(path)
        BY <2>1
      <4> QED
        BY <2>1, <4>1, PrefixFacts DEF q
    <3>5. SubSeq(SubSeq(path, 1, n), 1, Len(m)) = SubSeq(path, 1, Len(m))
      BY <2>1, <3>2, <3>3, <3>4, PrefixFacts
    <3>6. m = SubSeq(path, 1, Len(m)) /\ Len(m) \in 0 .. Len(path) - 1
      BY <2>1, <3>2, <3>3, <3>4, <3>5 DEF q
    <3>7. path \in Below(tr, m) \ {m}
      BY <2>1, <3>6, PrefixOf
    <3> QED
      BY <1>2, <2>1, <3>7
  <2> HIDE DEF q
  <2>5. q \in DOMAIN new /\ new[q] = tr[q]
    BY <1>3, <2>3, <2>4
  <2>6. IsPredicate(new, q)
    BY <2>3, <2>5 DEF IsPredicate
  <2> QED
    BY <2>6 DEF q
<1>8. ASSUME NEW path \in DOMAIN new
      PROVE  path \in DOMAIN tr /\ IF path \in merged THEN new[path] = StatsNode(SumStats(tr, path))
                                                      ELSE new[path] = tr[path]
  BY <1>3
<1>9. ASSUME NEW path \in DOMAIN new, IsPredicate(new, path), NEW b \in BOOLEAN
      PROVE  Append(path, b) \in DOMAIN new
  <2> DEFINE c == Append(path, b)
  <2>1. path \notin merged /\ new[path] = tr[path] /\ path \in DOMAIN tr /\ path \notin gone
    BY <1>3, <1>8, <1>9 DEF IsPredicate, StatsNode
  <2>2. c \in DOMAIN tr
    BY <1>9, <2>1 DEF Shape, IsPredicate
  <2>3. /\ path \in Seq(BOOLEAN) /\ Len(path) \in Nat /\ Len(c) = Len(path) + 1
        /\ \A n \in 0 .. Len(path) : SubSeq(c, 1, n) = SubSeq(path, 1, n)
        /\ SubSeq(c, 1, Len(path)) = path
    BY <1>5, <2>1, Child
  <2> HIDE DEF c
  <2>4. ASSUME c \in gone PROVE FALSE
    <3>1. PICK m \in merged : c \in Below(tr, m) \ {m}
      BY <1>2, <2>4
    <3>2. m \in DOMAIN tr /\ Len(m) \in Nat
      BY <1>4, <1>5
    <3>3. Len(m) < Len(c) /\ m = SubSeq(c, 1, Len(m))
      BY <2>2, <3>1, <3>2, PrefixOf
    <3>4. m # path
      BY <2>1
    <3>5. Len(m) \in 0 .. Len(path) - 1
      BY <2>3, <3>2, <3>3, <3>4
    <3>6. m = SubSeq(path, 1, Len(m))
      BY <2>3, <3>3, <3>5
    <3>7. path \in Below(tr, m) \ {m}
      BY <2>1, <3>5, <3>6, PrefixOf
    <3> QED
      BY <1>2, <2>1, <3>7
  <2>5. c \in DOMAIN new
    BY <1>3, <2>2, <2>4
  <2> QED
    BY <2>5 DEF c
<1>10. IsFiniteSet(DOMAIN new)
  <2>1. DOMAIN new \in SUBSET (DOMAIN tr) /\ IsFiniteSet(DOMAIN tr)
    BY <1>3 DEF Shape
  <2> QED
    BY <2>1, FS_Subset
<1>11. Shape(new)
  BY <1>6, <1>7, <1>8, <1>9, <1>10 DEF Shape
<1>12. ASSUME NEW path \in DOMAIN new
       PROVE  \/ new[path].kind = "predicate"
              \/ new[path].kind = "stats" /\ new[path].stats \in [WdlVals -> Int]
  <2>1. CASE path \in merged
    <3> DEFINE sum == SumStats(tr, path)
    <3>1. sum \in [WdlVals -> Int]
      <4>1. IsFiniteSet(DOMAIN tr)
        BY DEF Shape
      <4>2. \A leaf \in Below(tr, path) \cap NodesOf(tr, "stats") : tr[leaf].stats \in [WdlVals -> Int]
        BY DEF NodesOf, Nodes
      <4> QED
        BY <4>1, <4>2, SumsAreInt
    <3>2. new[path] = StatsNode(sum)
      BY <1>8, <2>1
    <3> HIDE DEF sum
    <3> QED
      BY <3>1, <3>2 DEF StatsNode
  <2>2. CASE path \notin merged
    <3>1. path \in DOMAIN tr /\ new[path] = tr[path]
      BY <1>8, <2>2
    <3>2. tr[path].kind # "collector"
      BY <3>1 DEF Collectors, NodesOf
    <3> QED
      BY <3>1, <3>2 DEF Nodes
  <2> QED
    BY <2>1, <2>2
<1> QED
  BY <1>11, <1>12 DEF Nodes, Collectors, NodesOf

(***************************************************************************)
(* Encoders.                                                               *)
(***************************************************************************)
(* The values that come before another one in a table, and the n-th value.  *)
Before(stats, v) == {u \in WdlVals : stats[u] > stats[v] \/ (stats[u] = stats[v] /\ u < v)}
Nth(stats, n) == CHOOSE v \in WdlVals : Cardinality(Before(stats, v)) = n - 1

(* There are five values, and so many or fewer in a set of some of them.    *)
LEMMA NumValues == IsFiniteSet(WdlVals) /\ Cardinality(WdlVals) = 5
<1>1. -2 \in Int /\ 2 \in Int
  OBVIOUS
<1>2. IsFiniteSet(-2 .. 2) /\ Cardinality(-2 .. 2) = IF -2 > 2 THEN 0 ELSE 2 - (-2) + 1
  BY <1>1, FS_Interval
<1> QED
  BY <1>2 DEF WdlVals

LEMMA ValueSets ==
    ASSUME NEW S \in SUBSET WdlVals
    PROVE  IsFiniteSet(S) /\ Cardinality(S) \in 0 .. 5 /\ (S # WdlVals => Cardinality(S) < 5)
<1>2. IsFiniteSet(S) /\ Cardinality(S) <= 5 /\ (Cardinality(S) = 5 => S = WdlVals)
  <2>1. S \in SUBSET WdlVals
    OBVIOUS
  <2>2. IsFiniteSet(S) /\ Cardinality(S) <= Cardinality(WdlVals)
        /\ (Cardinality(WdlVals) = Cardinality(S) => WdlVals = S)
    BY NumValues, <2>1, FS_Subset, Zenon
  <2> QED
    BY NumValues, <2>2
<1>3. Cardinality(S) \in Nat
  BY <1>2, FS_CardinalityType
<1> QED
  BY <1>2, <1>3

(* Every value has a place in a table for all of them: it is told by how    *)
(* many come before it, and no two values have the same number before them. *)
LEMMA Places ==
    ASSUME NEW stats \in [WdlVals -> Int], NEW v \in WdlVals
    PROVE  \E n \in 1 .. 5 : EncTable(stats, TRUE)[n] = v
<1> DEFINE rank(u) == Cardinality(Before(stats, u))
<1>1. \A u \in WdlVals : stats[u] \in Int /\ u \in Int
  BY DEF WdlVals
<1>2. ASSUME NEW u \in WdlVals PROVE rank(u) \in 0 .. 4
  <2>1. Before(stats, u) \in SUBSET WdlVals /\ u \notin Before(stats, u)
    BY <1>1 DEF Before
  <2> QED
    BY <2>1, ValueSets
<1>3. ASSUME NEW u \in WdlVals, NEW w \in WdlVals, u \in Before(stats, w) PROVE rank(u) < rank(w)
  <2>1. Before(stats, u) \in SUBSET Before(stats, w) /\ Before(stats, u) # Before(stats, w)
    BY <1>1, <1>3 DEF Before
  <2>2. IsFiniteSet(Before(stats, w))
    <3>1. Before(stats, w) \in SUBSET WdlVals
      BY DEF Before
    <3> QED
      BY <3>1, ValueSets
  <2>3. rank(u) <= rank(w) /\ rank(u) # rank(w)
    BY <2>1, <2>2, FS_Subset, Zenon
  <2> QED
    BY <1>2, <2>3
<1>4. ASSUME NEW u \in WdlVals, NEW w \in WdlVals, rank(u) = rank(w) PROVE u = w
  <2>1. SUFFICES ASSUME u # w PROVE FALSE
    OBVIOUS
  <2>2. u \in Before(stats, w) \/ w \in Before(stats, u)
    BY <1>1, <2>1 DEF Before
  <2>3. rank(u) \in Int
    BY <1>2
  <2> HIDE DEF rank
  <2> QED
    BY <1>3, <1>4, <2>2, <2>3
<1>5. rank(v) + 1 \in 1 .. 5 /\ (rank(v) + 1) - 1 = rank(v)
  BY <1>2
<1>6. Nth(stats, rank(v) + 1) = v
  <2> DEFINE n == rank(v) + 1
             it == CHOOSE u \in WdlVals : rank(u) = n - 1
  <2>1. rank(v) = n - 1
    BY <1>5
  <2> HIDE DEF n, rank
  <2>2. it \in WdlVals /\ rank(it) = n - 1
    BY <2>1, Zenon
  <2>3. it = v
    BY <1>4, <2>1, <2>2
  <2> QED
    BY <2>3, Zenon DEF Nth, n, rank
<1>7. EncTable(stats, TRUE) = [n \in 1 .. Cardinality(WdlVals) |->
                                    IF TRUE \/ stats[Nth(stats, n)] > 0 THEN Nth(stats, n) ELSE NoValue]
  BY Zenon DEF EncTable, Nth, Before
<1> HIDE DEF rank
<1>8. EncTable(stats, TRUE)[rank(v) + 1] = v
  BY <1>5, <1>6, <1>7, NumValues
<1> QED
  BY <1>5, <1>8

(* A table in which all values are.                                         *)
Ranking(tb) == DOMAIN tb = 1 .. 5 /\ \A v \in WdlVals : \E n \in 1 .. 5 : tb[n] = v
LEMMA Ranked == ASSUME NEW stats \in [WdlVals -> Int] PROVE Ranking(EncTable(stats, TRUE))
<1>1. DOMAIN EncTable(stats, TRUE) = 1 .. 5
  BY NumValues DEF EncTable
<1> QED
  BY <1>1, Places DEF Ranking

(* Two values that the side to move can have have different codes, because  *)
(* the one whose place is later has the other one before it.                *)
Counting(tb, wtm, capt, last) == {n \in 1 .. last - 1 : tb[n] # BlessedLoss /\ CanHave(tb[n], wtm, capt)}
LEMMA DifferentCodes ==
    ASSUME NEW tb, Ranking(tb), NEW x \in WdlVals, NEW y \in WdlVals, x # y,
           x # BlessedLoss, y # BlessedLoss, NEW wtm, NEW capt, CanHave(x, wtm, capt), CanHave(y, wtm, capt)
    PROVE  EncodeValue(tb, wtm, capt, x) # EncodeValue(tb, wtm, capt, y)
<1> DEFINE last(v) == CHOOSE n \in DOMAIN tb : tb[n] = v
<1>1. DOMAIN tb = 1 .. 5
  BY DEF Ranking
<1>2. ASSUME NEW v \in WdlVals PROVE last(v) \in 1 .. 5 /\ tb[last(v)] = v
  <2>1. \E n \in DOMAIN tb : tb[n] = v
    BY <1>1 DEF Ranking
  <2>2. last(v) \in DOMAIN tb /\ tb[last(v)] = v
    BY <2>1, Zenon
  <2> QED
    BY <1>1, <2>2
<1>3. \A v \in WdlVals : EncodeValue(tb, wtm, capt, v) = Cardinality(Counting(tb, wtm, capt, last(v)))
  BY Zenon DEF EncodeValue, Counting
<1> HIDE DEF last
<1>4. ASSUME NEW n \in 1 .. 5
      PROVE  IsFiniteSet(Counting(tb, wtm, capt, n))
  <2>1. IsFiniteSet(1 .. n - 1)
    BY FS_Interval
  <2>2. Counting(tb, wtm, capt, n) \in SUBSET (1 .. n - 1)
    BY DEF Counting
  <2> QED
    BY <2>1, <2>2, FS_Subset
<1>5. ASSUME NEW u \in WdlVals, NEW v \in WdlVals, last(u) < last(v),
             u # BlessedLoss, CanHave(u, wtm, capt)
      PROVE  EncodeValue(tb, wtm, capt, u) # EncodeValue(tb, wtm, capt, v)
  <2> DEFINE U == Counting(tb, wtm, capt, last(u))
             V == Counting(tb, wtm, capt, last(v))
  <2>1. last(u) \in 1 .. 5 /\ last(v) \in 1 .. 5 /\ tb[last(u)] = u
    BY <1>2
  <2>2. U \in SUBSET V /\ last(u) \in V /\ last(u) \notin U
    BY <1>5, <2>1 DEF Counting
  <2>3. IsFiniteSet(V)
    BY <1>4, <2>1
  <2> HIDE DEF U, V
  <2>4. Cardinality(U) # Cardinality(V)
    BY <2>2, <2>3, FS_Subset
  <2> QED
    BY <1>3, <2>4 DEF U, V
<1>6. last(x) # last(y) /\ last(x) \in 1 .. 5 /\ last(y) \in 1 .. 5
  BY <1>2
<1>7. last(x) < last(y) \/ last(y) < last(x)
  BY <1>6
<1> QED
  BY <1>5, <1>7

(* Every node but the predicates is an encoder, with all values in it.      *)
Encoders(tr) ==
    /\ Shape(tr)
    /\ \A path \in DOMAIN tr : IsPredicate(tr, path) \/ Ranking(tr[path].table)
LEMMA EncoderFacts ==
    ASSUME NEW tr, Shape(tr), Nodes(tr), Collectors(tr) = {}
    PROVE  Encoders(EncoderTree(tr))
<1> DEFINE new == EncoderTree(tr)
<1>1. ASSUME NEW path \in DOMAIN tr
      PROVE  IF tr[path].kind = "stats" THEN new[path] = EncoderNode(EncTable(tr[path].stats, TRUE))
                                        ELSE new[path] = tr[path]
  BY DEF EncoderTree
<1>2. DOMAIN new = DOMAIN tr
  BY DEF EncoderTree
<1> HIDE DEF new
<1>3. \A path \in DOMAIN tr : tr[path].kind # "collector"
  BY DEF Collectors, NodesOf
<1>4. ASSUME NEW path \in DOMAIN tr
      PROVE  \/ IsPredicate(tr, path) /\ IsPredicate(new, path)
             \/ ~IsPredicate(tr, path) /\ ~IsPredicate(new, path) /\ Ranking(new[path].table)
  <2>1. CASE tr[path].kind = "stats"
    <3> DEFINE tb == EncTable(tr[path].stats, TRUE)
    <3>1. tr[path].stats \in [WdlVals -> Int]
      BY <2>1 DEF Nodes
    <3>2. Ranking(tb)
      BY <3>1, Ranked
    <3>3. new[path] = EncoderNode(tb)
      BY <1>1, <2>1
    <3> HIDE DEF tb
    <3> QED
      BY <2>1, <3>2, <3>3 DEF EncoderNode, IsPredicate
  <2>2. CASE tr[path].kind # "stats"
    BY <1>1, <1>2, <1>3, <2>2 DEF IsPredicate, Nodes
  <2> QED
    BY <2>1, <2>2
<1>5. \A path : IsPredicate(new, path) <=> IsPredicate(tr, path)
  BY <1>2, <1>4 DEF IsPredicate
<1>6. Shape(new)
  BY <1>2, <1>5 DEF Shape
<1> QED
  BY <1>2, <1>4, <1>6 DEF Encoders, new

(***************************************************************************)
(* The invariant of the reduction.                                          *)
(***************************************************************************)
Info(i) == InfoOf(position[i])
Wtm(i) == position[i].pos.wtm
(* No position that was looked up has a better value for its side.          *)
Bounded(i) ==
    IsValue(Info(i)) /\ Probed(Info(i), Wtm(i)) =>
        IF Wtm(i) THEN Info(i).wdl <= best.wtm ELSE best.btm <= Info(i).wdl
(* A batch is named by its first index.                                     *)
Home(i, size) == size * (i \div size)
Waiting(i) == Home(i, BatchSize) \in todo

Settled(i) == truth[i].wdl \notin {Invalid, GameEnd} /\ truth[i].capt = BestOf(position[i].pos)
Kept(i) == IsValue(truth[i]) /\ ~Settled(i)
Marked(i) == IF Settled(i) THEN [truth[i] EXCEPT !.wdl = OptimalCapture] ELSE truth[i]

Growth == {"stats", "select", "simplify", "encode", "done"}
Setup ==
    /\ table \in Tables /\ posIndex = Material(table.white, table.black)
    /\ phase \in {"start", "initialize", "captures", "replace"} \cup Growth
    /\ best.wtm \in WdlVals /\ best.btm \in WdlVals
    /\ phase # "start" => position = [i \in Indices |-> Index2Pos(posIndex, i)]
Initialized ==
    phase = "initialize" =>
        /\ DOMAIN data = Indices /\ active = Indices /\ todo \subseteq Batches(BatchSize)
        /\ \A i \in Indices : ~Waiting(i) => data[i] = Info(i) /\ Bounded(i)
Recorded ==
    phase \notin {"start", "initialize"} =>
        DOMAIN truth = Indices /\ \A i \in Indices : truth[i] = Info(i) /\ Bounded(i)
Captured ==
    phase = "captures" =>
        /\ DOMAIN data = Indices /\ active = Indices /\ todo \subseteq Batches(BatchSize)
        /\ \A i \in Indices : data[i] = IF Waiting(i) THEN truth[i] ELSE Marked(i)

(* A task has dealt with the words before its own, and the bits that it has *)
(* loaded are those in memory, because no other task changes that word.     *)
Writer(i) == writer[Home(i, WriteBatchSize)]
WriterOK(b) ==
    /\ DOMAIN writer[b] = {"word", "register", "loaded"}
    /\ writer[b].word \in Nat /\ b \div ActiveWord <= writer[b].word
    /\ writer[b].loaded \in BOOLEAN
    /\ writer[b].loaded => /\ InReach(b) # {}
                           /\ writer[b].register = active \cap Word(writer[b].word)
Left(i) ==
    IF Kept(i) THEN i \in active /\ data[i] = truth[i] ELSE i \notin active /\ data[i] = NoInfo
Clearing ==
    phase = "replace" =>
        /\ DOMAIN data = Indices /\ active \subseteq Indices
        /\ DOMAIN writer = Batches(WriteBatchSize) /\ \A b \in DOMAIN writer : WriterOK(b)
        /\ \A i \in Indices : IF i \div ActiveWord < Writer(i).word THEN Left(i)
                              ELSE i \in active /\ data[i] = Marked(i)
Reduced ==
    phase \in Growth =>
        /\ DOMAIN data = Indices /\ active = {i \in Indices : Kept(i)}
        /\ \A i \in active : /\ DOMAIN data[i] = {"wdl", "capt", "handled"}
                             /\ data[i].wdl = truth[i].wdl /\ data[i].capt = truth[i].capt
        /\ \A i \in Indices \ active : data[i] = NoInfo
Reduction == Setup /\ Initialized /\ Recorded /\ Captured /\ Clearing /\ Reduced

(***************************************************************************)
(* Numbers, batches and words.                                             *)
(***************************************************************************)
LEMMA MaxOfTwo == ASSUME NEW a \in Int, NEW b \in Int PROVE Max({a, b}) = IF a >= b THEN a ELSE b
  BY DEF Max

(* A nonempty set of values has a least and a greatest one.                 *)
LEMMA Extremes ==
    ASSUME NEW S \in SUBSET WdlVals, S # {}
    PROVE  /\ Max(S) \in S /\ \A y \in S : y <= Max(S)
           /\ Min(S) \in S /\ \A y \in S : Min(S) <= y
<1>1. \A y \in S : y \in {-2, -1, 0, 1, 2}
  BY DEF WdlVals
<1>2. \E x \in S : \A y \in S : x >= y
  <2>1. CASE 2 \in S
    BY <1>1, <2>1
  <2>2. CASE 2 \notin S /\ 1 \in S
    BY <1>1, <2>2
  <2>3. CASE 2 \notin S /\ 1 \notin S /\ 0 \in S
    BY <1>1, <2>3
  <2>4. CASE 2 \notin S /\ 1 \notin S /\ 0 \notin S /\ -1 \in S
    BY <1>1, <2>4
  <2>5. CASE 2 \notin S /\ 1 \notin S /\ 0 \notin S /\ -1 \notin S
    BY <1>1, <2>5
  <2> QED
    BY <2>1, <2>2, <2>3, <2>4, <2>5
<1>3. \E x \in S : \A y \in S : x <= y
  <2>1. CASE -2 \in S
    BY <1>1, <2>1
  <2>2. CASE -2 \notin S /\ -1 \in S
    BY <1>1, <2>2
  <2>3. CASE -2 \notin S /\ -1 \notin S /\ 0 \in S
    BY <1>1, <2>3
  <2>4. CASE -2 \notin S /\ -1 \notin S /\ 0 \notin S /\ 1 \in S
    BY <1>1, <2>4
  <2>5. CASE -2 \notin S /\ -1 \notin S /\ 0 \notin S /\ 1 \notin S
    BY <1>1, <2>5
  <2> QED
    BY <2>1, <2>2, <2>3, <2>4, <2>5
<1>4. /\ Max(S) \in S /\ \A y \in S : Max(S) >= y
      /\ Min(S) \in S /\ \A y \in S : Min(S) <= y
  BY <1>2, <1>3 DEF Max, Min
<1> QED
  BY <1>1, <1>4

LEMMA Sizes ==
    ASSUME Setup
    PROVE  /\ Size \in Nat /\ BatchSize \in Nat \ {0}
           /\ \E m \in Nat \ {0} : WriteBatchSize = m * ActiveWord
           /\ Indices \subseteq Nat
<1>1. Size \in Nat
  BY ProbeAssumption DEF Setup, Size
<1> DEFINE c == CeilDiv(Size, MaxTasks)
<1>2. c \in Nat
  BY <1>1, BatchAssumption DEF CeilDiv
<1>3. BatchSize \in Nat \ {0}
  BY <1>2, MaxOfTwo, BatchAssumption DEF BatchSize
<1>4. PICK k \in Nat \ {0} : MinBatch = k * ActiveWord
  <2>1. MinBatch = (MinBatch \div ActiveWord) * ActiveWord /\ MinBatch \div ActiveWord \in Nat
    BY BatchAssumption
  <2>2. MinBatch \div ActiveWord # 0
    BY <2>1, BatchAssumption
  <2> QED
    BY <2>1, <2>2
<1>5. PICK l \in Nat : l = c \div ActiveWord
  BY <1>2, BatchAssumption
<1>6. \E m \in Nat \ {0} : WriteBatchSize = m * ActiveWord
  <2>1. WriteBatchSize = Max({MinBatch, l * ActiveWord}) /\ l * ActiveWord \in Int
    BY <1>5, BatchAssumption DEF WriteBatchSize
  <2> HIDE DEF c
  <2>2. WriteBatchSize = IF MinBatch >= l * ActiveWord THEN MinBatch ELSE l * ActiveWord
    BY <2>1, MaxOfTwo, BatchAssumption
  <2>3. CASE MinBatch >= l * ActiveWord
    BY <1>4, <2>2, <2>3
  <2>4. CASE ~(MinBatch >= l * ActiveWord)
    <3>1. l # 0
      BY <2>4, BatchAssumption
    <3> QED
      BY <2>2, <2>4, <3>1
  <2> QED
    BY <2>3, <2>4
<1> QED
  BY <1>1, <1>3, <1>6 DEF Indices

(* An index is in the batch of its home, and in no other.                   *)
LEMMA Homes ==
    ASSUME NEW size \in Nat \ {0}, Size \in Nat
    PROVE  \A i \in Indices :
              /\ Home(i, size) \in Batches(size) /\ i \in Batch(Home(i, size), size)
              /\ \A b \in Batches(size) : i \in Batch(b, size) => b = Home(i, size)
<1> TAKE i \in Indices
<1> DEFINE q == i \div size
<1>1. i \in Nat /\ i < Size
  BY DEF Indices
<1>2. q \in Nat /\ size * q <= i /\ i < size * q + size
  BY <1>1
<1>3. size * q \in Indices /\ (size * q) % size = 0
  BY <1>1, <1>2 DEF Indices
<1>4. Home(i, size) \in Batches(size) /\ i \in Batch(Home(i, size), size)
  BY <1>1, <1>2, <1>3 DEF Home, Batches, Batch
<1>5. ASSUME NEW b \in Batches(size), i \in Batch(b, size) PROVE b = Home(i, size)
  <2>1. b \in Nat /\ b % size = 0 /\ i >= b /\ i < b + size
    BY <1>5 DEF Batches, Batch, Indices
  <2>2. b = size * (b \div size) /\ b \div size \in Nat
    BY <2>1
  <2>3. b \div size = q
    BY <1>1, <2>1, <2>2
  <2> QED
    BY <2>2, <2>3 DEF Home
<1> QED
  BY <1>4, <1>5

(* Batches of writing tasks are made of whole words.                        *)
LEMMA WholeWords ==
    ASSUME Setup, NEW i \in Indices, NEW j \in Indices, i \div ActiveWord = j \div ActiveWord
    PROVE  Home(i, WriteBatchSize) = Home(j, WriteBatchSize)
<1>1. PICK m \in Nat \ {0} : WriteBatchSize = m * ActiveWord
  BY Sizes
<1>2. i \in Nat /\ j \in Nat
  BY Sizes
<1>3. \A k \in Nat : k \div (m * ActiveWord) = (k \div ActiveWord) \div m
  BY BatchAssumption
<1> QED
  BY <1>1, <1>2, <1>3 DEF Home

(***************************************************************************)
(* What is known of a position from its captures and its value.            *)
(***************************************************************************)
LEMMA Sides == ASSUME NEW t, NEW i PROVE Index2Pos(t, i).pos.wtm \in BOOLEAN
  BY Zenon DEF Index2Pos

InfoFields == {"wdl", "capt", "handled"}
LEMMA PositionFacts ==
    ASSUME Setup, phase # "start", NEW i \in Indices
    PROVE  /\ position[i] = Index2Pos(posIndex, i) /\ Wtm(i) \in BOOLEAN
           /\ Chunk(i) \in 0 .. NStatsChunks - 1
           /\ position[i].valid /\ ~CanTakeKing(position[i].pos) /\ HasLegalMoves(position[i].pos) =>
                 /\ ProbeWdl(table, position[i].pos) \in WdlVals
                 /\ CaptureResults(table, position[i].pos) \subseteq -2 .. ProbeWdl(table, position[i].pos)
<1>1. position[i] = Index2Pos(posIndex, i)
  BY DEF Setup
<1>2. Wtm(i) \in BOOLEAN
  BY <1>1, Sides DEF Wtm
<1>3. /\ Chunk(i) \in 0 .. NStatsChunks - 1
      /\ \E at \in {Index2Pos(posIndex, i)} :
            at.valid /\ ~CanTakeKing(at.pos) /\ HasLegalMoves(at.pos) =>
                    /\ ProbeWdl(table, at.pos) \in WdlVals
                    /\ CaptureResults(table, at.pos) \subseteq -2 .. ProbeWdl(table, at.pos)
  BY ProbeAssumption DEF Setup, Indices, Size
<1> QED
  BY <1>1, <1>2, <1>3

LEMMA InfoFacts ==
    ASSUME Setup, phase # "start", NEW i \in Indices
    PROVE  /\ DOMAIN Info(i) = InfoFields
           /\ Info(i).wdl \in WdlVals \cup {Invalid, GameEnd}
           /\ IsValue(Info(i)) =>
                /\ Info(i).capt \in WdlVals
                /\ IF Wtm(i) THEN Info(i).capt <= Info(i).wdl ELSE Info(i).wdl <= Info(i).capt
                /\ ~Probed(Info(i), Wtm(i)) => Info(i).wdl = Info(i).capt
<1> DEFINE pos == position[i].pos
           c == WdlBestCapture(pos)
           v == WhiteValue(pos)
<1>0. DOMAIN NoInfo = InfoFields /\ Wtm(i) = pos.wtm /\ Wtm(i) \in BOOLEAN
  BY PositionFacts DEF NoInfo, InfoFields, Wtm
<1>1. CASE ~position[i].valid \/ CanTakeKing(pos)
  <2>1. Info(i) = [NoInfo EXCEPT !.wdl = Invalid]
    BY <1>1 DEF Info, InfoOf
  <2> QED
    BY <1>0, <2>1 DEF IsValue, Invalid, WdlVals, InfoFields
<1>2. CASE ~(~position[i].valid \/ CanTakeKing(pos)) /\ ~HasLegalMoves(pos)
  <2>1. Info(i) = [NoInfo EXCEPT !.wdl = GameEnd]
    BY <1>2 DEF Info, InfoOf
  <2> QED
    BY <1>0, <2>1 DEF IsValue, GameEnd, WdlVals, InfoFields
<1>3. CASE position[i].valid /\ ~CanTakeKing(pos) /\ HasLegalMoves(pos)
  <2>1. /\ ProbeWdl(table, pos) \in WdlVals
        /\ CaptureResults(table, pos) \subseteq -2 .. ProbeWdl(table, pos)
    BY <1>3, PositionFacts
  <2> DEFINE p == ProbeWdl(table, pos)
             S == {-2} \cup CaptureResults(table, pos)
  <2>2. S \in SUBSET WdlVals /\ S # {} /\ \A y \in S : y <= p
    BY <2>1 DEF WdlVals
  <2>3. Max(S) \in WdlVals /\ Max(S) <= p
    BY <2>2, Extremes
  <2>4. /\ c = IF pos.wtm THEN Max(S) ELSE -Max(S)
        /\ v = IF pos.wtm THEN p ELSE -p
    BY DEF WdlBestCapture, WhiteValue
  <2> HIDE DEF S, p, c, v
  <2>5. /\ c \in WdlVals /\ v \in WdlVals
        /\ IF pos.wtm THEN c <= v ELSE v <= c
    BY <2>1, <2>3, <2>4 DEF WdlVals, p
  <2> DEFINE capture == [NoInfo EXCEPT !.capt = c]
  <2>6. Info(i) = [capture EXCEPT !.wdl = IF Probed(capture, pos.wtm) THEN v ELSE capture.capt]
    BY <1>3 DEF Info, InfoOf, c, v
  <2>7. /\ DOMAIN capture = InfoFields /\ capture.capt = c
    BY <1>0 DEF InfoFields
  <2> HIDE DEF capture
  <2>8. /\ DOMAIN Info(i) = InfoFields /\ Info(i).capt = c
        /\ Info(i).wdl = IF Probed(capture, pos.wtm) THEN v ELSE c
    BY <2>6, <2>7 DEF InfoFields
  <2>9. Probed(Info(i), pos.wtm) = Probed(capture, pos.wtm)
    BY <2>7, <2>8 DEF Probed
  <2>10. CASE Probed(capture, pos.wtm)
    BY <1>0, <2>5, <2>8, <2>9, <2>10
  <2>11. CASE ~Probed(capture, pos.wtm)
    BY <1>0, <2>5, <2>8, <2>11 DEF WdlVals
  <2> QED
    BY <2>10, <2>11
<1> QED
  BY <1>1, <1>2, <1>3

(* Where positions and what was found about them stay the same.             *)
LEMMA SameSetup ==
    ASSUME UNCHANGED <<table, posIndex, position>>
    PROVE  /\ Size' = Size /\ Indices' = Indices /\ BatchSize' = BatchSize
           /\ WriteBatchSize' = WriteBatchSize
           /\ \A size : Batches(size)' = Batches(size)
           /\ \A i : Info(i)' = Info(i) /\ Wtm(i)' = Wtm(i)
  BY DEF Size, Indices, BatchSize, WriteBatchSize, Batches, Info, Wtm, InfoOf, WdlBestCapture,
         WhiteValue

LEMMA SameTruth ==
    ASSUME UNCHANGED <<position, truth, best>>
    PROVE  \A i : Kept(i)' = Kept(i) /\ Marked(i)' = Marked(i) /\ Settled(i)' = Settled(i)
  BY DEF Kept, Marked, Settled, BestOf

(* A value that is left out is that of the best capture.                    *)
LEMMA SettledByCapture ==
    ASSUME Setup, Recorded, phase \notin {"start", "initialize"}, NEW i \in Indices,
           IsValue(truth[i]), Settled(i)
    PROVE  truth[i].wdl = truth[i].capt
<1>1. truth[i] = Info(i) /\ Bounded(i)
  BY DEF Recorded
<1>2. Info(i).capt = IF Wtm(i) THEN best.wtm ELSE best.btm
  BY <1>1 DEF Settled, BestOf, Wtm
<1>3. /\ Info(i).wdl \in Int /\ Info(i).capt \in Int
      /\ IF Wtm(i) THEN Info(i).capt <= Info(i).wdl ELSE Info(i).wdl <= Info(i).capt
      /\ ~Probed(Info(i), Wtm(i)) => Info(i).wdl = Info(i).capt
  BY <1>1, InfoFacts DEF WdlVals, IsValue
<1> QED
  BY <1>1, <1>2, <1>3 DEF Bounded

(***************************************************************************)
(* The steps of the reduction.                                             *)
(***************************************************************************)
LEMMA ReductionInit == ASSUME Init PROVE Reduction
  BY DEF Init, Reduction, WdlVals, Setup, Initialized, Recorded, Captured, Clearing, Reduced, Growth

(* Every index is in a batch.                                               *)
LEMMA Everywhere ==
    ASSUME Setup
    PROVE  \A i \in Indices : /\ Home(i, BatchSize) \in Batches(BatchSize)
                              /\ i \in Batch(Home(i, BatchSize), BatchSize)
                              /\ \A b \in Batches(BatchSize) :
                                    i \in Batch(b, BatchSize) <=> b = Home(i, BatchSize)
<1>1. Size \in Nat /\ BatchSize \in Nat \ {0}
  BY Sizes
<1> QED
  BY <1>1, Homes

LEMMA StartStep == ASSUME Reduction, Start PROVE Reduction'
<1>1. /\ phase = "start" /\ phase' = "initialize" /\ UNCHANGED <<table, posIndex, best>>
      /\ position' = [i \in Indices |-> Index2Pos(posIndex, i)]
      /\ data' = [i \in Indices |-> NoInfo] /\ active' = Indices /\ todo' = Batches(BatchSize)
  BY DEF Start
<1>2. Size' = Size /\ Indices' = Indices /\ BatchSize' = BatchSize /\ Batches(BatchSize)' = Batches(BatchSize)
  BY <1>1 DEF Size, Indices, BatchSize, Batches
<1>3. Setup'
  BY <1>1, <1>2 DEF Reduction, Setup
<1>4. Initialized'
  <2>1. \A i \in Indices : Waiting(i)'
    BY <1>1, <1>2, Everywhere DEF Waiting, Home, Reduction
  <2> QED
    BY <1>1, <1>2, <2>1 DEF Initialized
<1> QED
  BY <1>1, <1>3, <1>4 DEF Reduction, Recorded, Captured, Clearing, Reduced, Growth

LEMMA InitializeDataStep ==
    ASSUME Reduction, NEW b \in todo, InitializeData(b)
    PROVE  Reduction'
<1> DEFINE batch == Batch(b, BatchSize)
           V(wtm) == {data'[i].wdl : i \in {j \in batch : /\ IsValue(data'[j])
                                                           /\ position[j].pos.wtm = wtm
                                                           /\ Probed(data'[j], wtm)}}
           W == {best.wtm} \cup V(TRUE)
           B == {best.btm} \cup V(FALSE)
<1>1. /\ phase = "initialize" /\ phase' = "initialize" /\ UNCHANGED <<table, posIndex, position, active>>
      /\ data' = [i \in Indices |-> IF i \in batch THEN InfoOf(position[i]) ELSE data[i]]
      /\ best' = [wtm |-> Max(W), btm |-> Min(B)] /\ todo' = todo \ {b}
  BY DEF InitializeData
<1>2. /\ Setup /\ Initialized /\ b \in Batches(BatchSize) /\ DOMAIN data = Indices
      /\ active = Indices /\ todo \subseteq Batches(BatchSize)
      /\ \A i \in Indices : ~Waiting(i) => data[i] = Info(i) /\ Bounded(i)
      /\ best.wtm \in WdlVals /\ best.btm \in WdlVals
  BY <1>1 DEF Reduction, Initialized, Setup
<1>3. batch \subseteq Indices /\ \A i \in Indices : i \in batch <=> Home(i, BatchSize) = b
  BY <1>2, Everywhere DEF Batch
<1>4. \A i \in batch : data'[i] = Info(i)
  BY <1>1, <1>3 DEF Info
<1>5. W \in SUBSET WdlVals /\ B \in SUBSET WdlVals /\ W # {} /\ B # {}
  BY <1>2 DEF IsValue
<1> HIDE DEF W, B
<1>6. /\ best'.wtm \in WdlVals /\ \A y \in W : y <= best'.wtm
      /\ best'.btm \in WdlVals /\ \A y \in B : best'.btm <= y
  BY <1>1, <1>5, Extremes
<1>7. \A i : Info(i)' = Info(i) /\ Wtm(i)' = Wtm(i)
  BY <1>1, SameSetup
<1>8. Indices' = Indices /\ BatchSize' = BatchSize /\ Batches(BatchSize)' = Batches(BatchSize)
      /\ \A i : Home(i, BatchSize)' = Home(i, BatchSize)
  BY <1>1, SameSetup DEF Home
<1>9. Setup'
  BY <1>1, <1>2, <1>6, <1>8 DEF Setup
<1>10. ASSUME NEW i \in Indices, ~Waiting(i)' PROVE data'[i] = Info(i) /\ Bounded(i)'
  <2>1. CASE i \in batch
    <3>1. Wtm(i) \in BOOLEAN /\ Wtm(i) = position[i].pos.wtm
      BY <1>1, <1>2, PositionFacts DEF Wtm
    <3>2. ASSUME IsValue(Info(i)), Probed(Info(i), Wtm(i))
          PROVE  IF Wtm(i) THEN Info(i).wdl <= best'.wtm ELSE best'.btm <= Info(i).wdl
      <4>1. CASE Wtm(i) = TRUE
        <5>1. Info(i).wdl \in W
          BY <1>4, <2>1, <3>1, <3>2, <4>1 DEF W
        <5> QED
          BY <1>6, <4>1, <5>1
      <4>2. CASE Wtm(i) = FALSE
        <5>1. Info(i).wdl \in B
          BY <1>4, <2>1, <3>1, <3>2, <4>2 DEF B
        <5> QED
          BY <1>6, <4>2, <5>1
      <4> QED
        BY <3>1, <4>1, <4>2
    <3> QED
      BY <1>4, <1>7, <2>1, <3>2 DEF Bounded
  <2>2. CASE i \notin batch
    <3>1. ~Waiting(i)
      BY <1>1, <1>3, <1>8, <1>10, <2>2 DEF Waiting
    <3>2. data'[i] = data[i] /\ data[i] = Info(i) /\ Bounded(i)
      BY <1>1, <1>2, <2>2, <3>1
    <3>3. best.wtm <= best'.wtm /\ best'.btm <= best.btm
      BY <1>6 DEF W, B
    <3>4. best.wtm \in Int /\ best'.wtm \in Int /\ best.btm \in Int /\ best'.btm \in Int
      BY <1>2, <1>6 DEF WdlVals
    <3>5. IsValue(Info(i)) => Info(i).wdl \in Int
      BY DEF IsValue, WdlVals
    <3> QED
      BY <1>7, <3>2, <3>3, <3>4, <3>5 DEF Bounded
  <2> QED
    BY <2>1, <2>2
<1>11. DOMAIN data' = Indices /\ todo' \subseteq Batches(BatchSize)
  BY <1>1, <1>2
<1>12. Initialized'
  BY <1>1, <1>2, <1>7, <1>8, <1>10, <1>11 DEF Initialized
<1> QED
  BY <1>1, <1>9, <1>12 DEF Reduction, Recorded, Captured, Clearing, Reduced, Growth

LEMMA DataInitializedStep == ASSUME Reduction, DataInitialized PROVE Reduction'
<1>1. /\ phase = "initialize" /\ todo = {} /\ truth' = data /\ phase' = "captures"
      /\ todo' = Batches(BatchSize) /\ UNCHANGED <<table, posIndex, position, data, best, active>>
  BY DEF DataInitialized
<1>2. /\ DOMAIN data = Indices /\ active = Indices
      /\ \A i \in Indices : data[i] = Info(i) /\ Bounded(i)
  BY <1>1 DEF Reduction, Initialized, Waiting
<1>3. Indices' = Indices /\ BatchSize' = BatchSize /\ Batches(BatchSize)' = Batches(BatchSize)
      /\ \A i : Info(i)' = Info(i) /\ Wtm(i)' = Wtm(i)
  BY <1>1, SameSetup
<1>4. Setup'
  BY <1>1, <1>3 DEF Reduction, Setup
<1>5. Recorded'
  <2>1. \A i \in Indices : Bounded(i)'
    BY <1>1, <1>2, <1>3 DEF Bounded
  <2> QED
    BY <1>1, <1>2, <1>3, <2>1 DEF Recorded
<1>6. Captured'
  <2>1. \A i \in Indices : Waiting(i)'
    BY <1>1, <1>3, Everywhere DEF Waiting, Home, Reduction
  <2> QED
    BY <1>1, <1>2, <1>3, <2>1 DEF Captured
<1> QED
  BY <1>1, <1>4, <1>5, <1>6 DEF Reduction, Initialized, Clearing, Reduced, Growth

LEMMA SameRecorded ==
    ASSUME Recorded, phase \notin {"start", "initialize"},
           UNCHANGED <<table, posIndex, position, truth, best>>
    PROVE  Recorded'
<1>1. Indices' = Indices /\ \A i : Info(i)' = Info(i) /\ Wtm(i)' = Wtm(i)
  BY SameSetup
<1>2. \A i \in Indices : Bounded(i)'
  BY <1>1 DEF Recorded, Bounded
<1> QED
  BY <1>1, <1>2 DEF Recorded

LEMMA ComputeOptimalCapturesStep ==
    ASSUME Reduction, NEW b \in todo, ComputeOptimalCaptures(b)
    PROVE  Reduction'
<1> DEFINE batch == Batch(b, BatchSize)
<1>1. /\ phase = "captures" /\ phase' = "captures" /\ todo' = todo \ {b}
      /\ data' = [i \in Indices |->
                    IF /\ i \in batch /\ data[i].wdl \notin {Invalid, GameEnd}
                       /\ data[i].capt = BestOf(position[i].pos)
                    THEN [data[i] EXCEPT !.wdl = OptimalCapture] ELSE data[i]]
      /\ UNCHANGED <<table, posIndex, position, truth, best, active>>
  BY DEF ComputeOptimalCaptures
<1>2. /\ Setup /\ Recorded /\ b \in Batches(BatchSize) /\ active = Indices
      /\ todo \subseteq Batches(BatchSize) /\ \A i \in Indices : data[i] = IF Waiting(i) THEN truth[i] ELSE Marked(i)
  BY <1>1 DEF Reduction, Captured
<1>3. \A i \in Indices : i \in batch <=> Home(i, BatchSize) = b
  BY <1>2, Everywhere
<1>4. Indices' = Indices /\ BatchSize' = BatchSize /\ Batches(BatchSize)' = Batches(BatchSize)
      /\ \A i : Home(i, BatchSize)' = Home(i, BatchSize) /\ Marked(i)' = Marked(i)
  BY <1>1, SameSetup, SameTruth DEF Home
<1>5. Setup'
  BY <1>1, <1>2, <1>4 DEF Setup
<1>6. Recorded'
  BY <1>1, <1>2, SameRecorded
<1>7. ASSUME NEW i \in Indices PROVE data'[i] = IF Waiting(i)' THEN truth[i] ELSE Marked(i)
  <2>1. CASE i \in batch
    <3>1. Waiting(i) /\ ~Waiting(i)' /\ data[i] = truth[i]
      BY <1>1, <1>2, <1>3, <1>4, <2>1 DEF Waiting
    <3>2. data'[i] = IF Settled(i) THEN [data[i] EXCEPT !.wdl = OptimalCapture] ELSE data[i]
      BY <1>1, <2>1, <3>1 DEF Settled
    <3> QED
      BY <3>1, <3>2 DEF Marked
  <2>2. CASE i \notin batch
    <3>1. (Waiting(i)' <=> Waiting(i)) /\ data'[i] = data[i]
      BY <1>1, <1>3, <1>4, <2>2 DEF Waiting
    <3> QED
      BY <1>2, <3>1
  <2> QED
    BY <2>1, <2>2
<1>8. DOMAIN data' = Indices /\ todo' \subseteq Batches(BatchSize)
  BY <1>1, <1>2
<1>9. Captured'
  BY <1>1, <1>2, <1>4, <1>7, <1>8 DEF Captured
<1> QED
  BY <1>1, <1>5, <1>6, <1>9 DEF Reduction, Initialized, Clearing, Reduced, Growth

LEMMA CapturesComputedStep == ASSUME Reduction, CapturesComputed PROVE Reduction'
<1>1. /\ phase = "captures" /\ todo = {} /\ phase' = "replace"
      /\ writer' = [b \in Batches(WriteBatchSize) |-> [Idle EXCEPT !.word = b \div ActiveWord]]
      /\ UNCHANGED <<table, posIndex, position, data, truth, best, active>>
  BY DEF CapturesComputed
<1>2. /\ Setup /\ Recorded /\ DOMAIN data = Indices /\ active = Indices
      /\ \A i \in Indices : data[i] = Marked(i)
  BY <1>1 DEF Reduction, Captured, Waiting
<1>3. /\ Indices' = Indices /\ WriteBatchSize' = WriteBatchSize
      /\ Batches(WriteBatchSize)' = Batches(WriteBatchSize) /\ \A i : Marked(i)' = Marked(i)
      /\ \A i : Home(i, WriteBatchSize)' = Home(i, WriteBatchSize)
  BY <1>1, SameSetup, SameTruth DEF Home
<1>4. Setup' /\ Recorded'
  BY <1>1, <1>2, <1>3, SameRecorded DEF Setup
<1>5. ASSUME NEW b \in Batches(WriteBatchSize)
      PROVE  /\ DOMAIN writer'[b] = {"word", "register", "loaded"}
             /\ writer'[b].word = b \div ActiveWord /\ writer'[b].loaded = FALSE
  <2>1. writer'[b] = [Idle EXCEPT !.word = b \div ActiveWord]
    BY <1>1
  <2>2. Idle = [word |-> 0, register |-> {}, loaded |-> FALSE]
    BY DEF Idle
  <2> QED
    BY <2>1, <2>2
<1>6. \A b \in Batches(WriteBatchSize) : b \div ActiveWord \in Nat /\ WriterOK(b)'
  <2>1. \A b \in Batches(WriteBatchSize) : b \in Nat
    BY <1>2, Sizes DEF Batches
  <2>2. \A b \in Batches(WriteBatchSize) : b \div ActiveWord \in Nat
    BY <2>1, BatchAssumption
  <2>3. ASSUME NEW b \in Batches(WriteBatchSize) PROVE WriterOK(b)'
    <3>1. writer'[b].word \in Nat /\ b \div ActiveWord <= writer'[b].word
      <4>1. b \div ActiveWord \in Nat /\ \A k \in Nat : k <= k
        BY <2>2
      <4> QED
        BY <1>5, <4>1
    <3>2. DOMAIN writer'[b] = {"word", "register", "loaded"} /\ writer'[b].loaded = FALSE
      BY <1>5
    <3> QED
      BY <3>1, <3>2 DEF WriterOK
  <2> QED
    BY <2>2, <2>3
<1>8. ASSUME NEW i \in Indices PROVE ~(i \div ActiveWord < Writer(i)'.word)
  <2>1. Home(i, WriteBatchSize) \in Batches(WriteBatchSize) /\ Writer(i)'.word = Home(i, WriteBatchSize) \div ActiveWord
    <3>1. WriteBatchSize \in Nat \ {0} /\ Size \in Nat
      BY <1>2, Sizes, BatchAssumption
    <3>2. Home(i, WriteBatchSize) \in Batches(WriteBatchSize)
      BY <3>1, Homes
    <3>3. Writer(i)' = writer'[Home(i, WriteBatchSize)]
      BY <1>3 DEF Writer
    <3> QED
      BY <1>5, <3>2, <3>3
  <2>2. Home(i, WriteBatchSize) <= i /\ Home(i, WriteBatchSize) \in Nat /\ i \in Nat
    <3>1. WriteBatchSize \in Nat \ {0} /\ i \in Nat
      BY <1>2, Sizes, BatchAssumption
    <3> QED
      BY <3>1 DEF Home
  <2>3. Home(i, WriteBatchSize) \div ActiveWord <= i \div ActiveWord
    BY <2>2, BatchAssumption
  <2>4. Home(i, WriteBatchSize) \div ActiveWord \in Int /\ i \div ActiveWord \in Int
    BY <2>2, BatchAssumption
  <2> QED
    BY <2>1, <2>3, <2>4
<1>9. Clearing'
  BY <1>1, <1>2, <1>3, <1>6, <1>8 DEF Clearing
<1> QED
  BY <1>1, <1>4, <1>9 DEF Reduction, Initialized, Captured, Reduced, Growth

(* A word that a writing task reaches is all its own.                       *)
LEMMA OwnWord ==
    ASSUME Setup, NEW b \in Batches(WriteBatchSize), InReach(b) # {}
    PROVE  /\ Word(writer[b].word) = InReach(b)
           /\ \A i \in InReach(b) : i \in Indices /\ Home(i, WriteBatchSize) = b
                                    /\ i \div ActiveWord = writer[b].word
<1>1. WriteBatchSize \in Nat \ {0} /\ Size \in Nat
  BY Sizes, BatchAssumption
<1>2. \A i \in InReach(b) : /\ i \in Indices /\ Home(i, WriteBatchSize) = b
                            /\ i \div ActiveWord = writer[b].word
  BY <1>1, Homes DEF InReach, Word, Batch
<1>3. PICK i \in InReach(b) : TRUE
  OBVIOUS
<1>4. ASSUME NEW j \in Word(writer[b].word) PROVE j \in InReach(b)
  <2>1. j \in Indices /\ j \div ActiveWord = writer[b].word
    BY <1>4 DEF Word
  <2>2. Home(j, WriteBatchSize) = b
    BY <1>2, <1>3, <2>1, WholeWords
  <2> QED
    BY <1>1, <2>1, <2>2, Homes DEF InReach, Word
<1> QED
  BY <1>2, <1>4 DEF InReach

LEMMA LoadWordStep ==
    ASSUME Reduction, NEW b \in DOMAIN writer, LoadWord(b)
    PROVE  Reduction'
<1>1. /\ phase = "replace" /\ phase' = "replace" /\ InReach(b) # {} /\ ~writer[b].loaded
      /\ writer' = [writer EXCEPT ![b].register = active \cap Word(writer[b].word), ![b].loaded = TRUE]
      /\ UNCHANGED <<table, posIndex, position, data, truth, best, active>>
  BY DEF LoadWord
<1>2. /\ Setup /\ Recorded /\ DOMAIN data = Indices /\ active \subseteq Indices
      /\ DOMAIN writer = Batches(WriteBatchSize) /\ \A c \in DOMAIN writer : WriterOK(c)
      /\ \A i \in Indices : IF i \div ActiveWord < Writer(i).word THEN Left(i)
                              ELSE i \in active /\ data[i] = Marked(i)
  BY <1>1 DEF Reduction, Clearing
<1>3. /\ Indices' = Indices /\ WriteBatchSize' = WriteBatchSize
      /\ Batches(WriteBatchSize)' = Batches(WriteBatchSize)
      /\ \A i : Marked(i)' = Marked(i) /\ Kept(i)' = Kept(i)
      /\ \A i : Home(i, WriteBatchSize)' = Home(i, WriteBatchSize)
  BY <1>1, SameSetup, SameTruth DEF Home
<1>4. Setup' /\ Recorded'
  BY <1>1, <1>2, <1>3, SameRecorded DEF Setup
<1>5. /\ DOMAIN writer' = DOMAIN writer /\ \A c \in DOMAIN writer : c # b => writer'[c] = writer[c]
      /\ DOMAIN writer'[b] = DOMAIN writer[b] /\ writer'[b].word = writer[b].word
      /\ writer'[b].loaded = TRUE /\ writer'[b].register = active \cap Word(writer[b].word)
  <2>1. DOMAIN writer[b] = {"word", "register", "loaded"}
    BY <1>2 DEF WriterOK
  <2> QED
    BY <1>1, <2>1
<1>6. \A c \in DOMAIN writer : writer'[c].word = writer[c].word
  BY <1>5
<1>7. \A w : Word(w)' = Word(w)
  BY <1>3 DEF Word
<1>8. \A c \in DOMAIN writer : InReach(c)' = InReach(c)
  BY <1>3, <1>6 DEF InReach, Batch, Word
<1>9. ASSUME NEW c \in DOMAIN writer PROVE WriterOK(c)'
  <2>1. WriterOK(c) /\ WriterOK(b)
    BY <1>2
  <2>2. CASE c = b
    BY <1>1, <1>5, <1>7, <1>8, <2>1, <2>2 DEF WriterOK
  <2>3. CASE c # b
    <3>1. writer'[c] = writer[c] /\ active' = active /\ InReach(c)' = InReach(c)
      BY <1>1, <1>5, <1>8, <2>3
    <3> QED
      BY <1>7, <2>1, <3>1 DEF WriterOK
  <2> QED
    BY <2>2, <2>3
<1>10. ASSUME NEW i \in Indices
       PROVE  IF i \div ActiveWord < Writer(i)'.word THEN Left(i)'
              ELSE i \in active' /\ data'[i] = Marked(i)'
  <2>1. Home(i, WriteBatchSize) \in DOMAIN writer
    <3>1. WriteBatchSize \in Nat \ {0} /\ Size \in Nat
      BY <1>2, Sizes, BatchAssumption
    <3> QED
      BY <1>2, <3>1, Homes
  <2>2. Writer(i)'.word = Writer(i).word
    BY <1>3, <1>6, <2>1 DEF Writer
  <2>3. Left(i)' <=> Left(i)
    BY <1>1, <1>3 DEF Left
  <2> QED
    BY <1>1, <1>2, <1>3, <2>2, <2>3
<1>11. Clearing'
  BY <1>1, <1>2, <1>3, <1>5, <1>9, <1>10 DEF Clearing
<1> QED
  BY <1>1, <1>4, <1>11 DEF Reduction, Initialized, Captured, Reduced, Growth

LEMMA ReplaceDontCaresStep ==
    ASSUME Reduction, NEW b \in DOMAIN writer, ReplaceDontCares(b)
    PROVE  Reduction'
<1> DEFINE w == writer[b].word
           D == DontCares(b)
<1>1. /\ phase = "replace" /\ phase' = "replace" /\ writer[b].loaded
      /\ data' = [i \in Indices |-> IF i \in D THEN NoInfo ELSE data[i]]
      /\ active' = IF D = {} THEN active ELSE (active \ Word(w)) \cup (writer[b].register \ D)
      /\ writer' = [writer EXCEPT ![b] = [Idle EXCEPT !.word = w + 1]]
      /\ UNCHANGED <<table, posIndex, position, truth, best>>
  BY DEF ReplaceDontCares
<1>2. /\ Setup /\ Recorded /\ DOMAIN data = Indices /\ active \subseteq Indices
      /\ DOMAIN writer = Batches(WriteBatchSize) /\ \A c \in DOMAIN writer : WriterOK(c)
      /\ \A i \in Indices : IF i \div ActiveWord < Writer(i).word THEN Left(i)
                              ELSE i \in active /\ data[i] = Marked(i)
  BY <1>1 DEF Reduction, Clearing
<1>3. /\ Indices' = Indices /\ WriteBatchSize' = WriteBatchSize
      /\ Batches(WriteBatchSize)' = Batches(WriteBatchSize)
      /\ \A i : Marked(i)' = Marked(i) /\ Kept(i)' = Kept(i)
      /\ \A i : Home(i, WriteBatchSize)' = Home(i, WriteBatchSize)
      /\ \A k : Word(k)' = Word(k)
  BY <1>1, SameSetup, SameTruth DEF Home, Word
<1>4. Setup' /\ Recorded'
  BY <1>1, <1>2, <1>3, SameRecorded DEF Setup
<1>5. /\ InReach(b) # {} /\ writer[b].register = active \cap Word(w) /\ w \in Nat
      /\ b \div ActiveWord <= w /\ b \div ActiveWord \in Nat
  <2>1. b \in Nat
    BY <1>2, Sizes DEF Batches
  <2> QED
    BY <1>1, <1>2, <2>1, BatchAssumption DEF WriterOK
<1>6. /\ Word(w) = InReach(b)
      /\ \A i \in InReach(b) : i \in Indices /\ Home(i, WriteBatchSize) = b /\ i \div ActiveWord = w
  BY <1>2, <1>5, OwnWord
<1>7. ASSUME NEW i \in InReach(b) PROVE i \in active /\ data[i] = Marked(i) /\ (i \in D <=> ~Kept(i))
  <2>1. Writer(i).word = i \div ActiveWord /\ i \div ActiveWord = w
    BY <1>6 DEF Writer
  <2>2. i \in active /\ data[i] = Marked(i)
    BY <1>2, <1>5, <1>6, <2>1
  <2>3. /\ truth[i].wdl \in WdlVals \cup {Invalid, GameEnd} /\ DOMAIN truth[i] = InfoFields
    BY <1>1, <1>2, <1>6, InfoFacts DEF Recorded
  <2>4. CASE Settled(i)
    <3>1. Marked(i).wdl = 5
      BY <2>3, <2>4 DEF Marked, OptimalCapture, InfoFields
    <3> QED
      BY <2>2, <2>4, <3>1 DEF DontCares, Kept
  <2>5. CASE ~Settled(i)
    <3>1. data[i] = truth[i]
      BY <2>2, <2>5 DEF Marked
    <3>2. truth[i].wdl > 2 <=> truth[i].wdl \notin WdlVals
      BY <2>3 DEF WdlVals, Invalid, GameEnd
    <3> QED
      BY <2>2, <2>5, <3>1, <3>2 DEF DontCares, Kept, IsValue
  <2> QED
    BY <2>4, <2>5
<1>8. D \subseteq InReach(b)
  BY DEF DontCares
<1> HIDE DEF w, D
<1>9. active' = active \ D
  <2>1. CASE D = {}
    BY <1>1, <2>1
  <2>2. CASE D # {}
    BY <1>1, <1>5, <1>6, <1>8, <2>2
  <2> QED
    BY <2>1, <2>2
<1>10. /\ DOMAIN writer' = DOMAIN writer /\ \A c \in DOMAIN writer : c # b => writer'[c] = writer[c]
       /\ DOMAIN writer'[b] = {"word", "register", "loaded"} /\ writer'[b].word = w + 1
       /\ writer'[b].loaded = FALSE
  BY <1>1 DEF Idle
<1>11. ASSUME NEW c \in DOMAIN writer PROVE WriterOK(c)'
  <2>1. WriterOK(c)
    BY <1>2
  <2>2. CASE c = b
    <3>1. w + 1 \in Nat /\ b \div ActiveWord <= w + 1
      BY <1>5
    <3> QED
      BY <1>10, <2>2, <3>1 DEF WriterOK
  <2>3. CASE c # b
    <3>1. writer'[c] = writer[c]
      BY <1>10, <2>3
    <3>2. InReach(c)' = InReach(c)
      BY <1>3, <3>1 DEF InReach, Batch, Word
    <3>3. writer[c].loaded => active' \cap Word(writer[c].word) = active \cap Word(writer[c].word)
      <4>1. SUFFICES ASSUME writer[c].loaded PROVE D \cap Word(writer[c].word) = {}
        BY <1>9
      <4>2. InReach(c) # {} /\ c \in Batches(WriteBatchSize)
        BY <1>2, <2>1, <4>1 DEF WriterOK
      <4>3. /\ Word(writer[c].word) = InReach(c)
            /\ \A i \in InReach(c) : Home(i, WriteBatchSize) = c
        BY <1>2, <4>2, OwnWord
      <4> QED
        BY <1>6, <1>8, <2>3, <4>3
    <3>4. Word(writer[c].word)' = Word(writer[c].word)
      BY <1>3, <3>1 DEF Word
    <3> QED
      BY <1>3, <2>1, <3>1, <3>2, <3>3, <3>4 DEF WriterOK
  <2> QED
    BY <2>2, <2>3
<1>12. ASSUME NEW i \in Indices
       PROVE  IF i \div ActiveWord < Writer(i)'.word THEN Left(i)'
              ELSE i \in active' /\ data'[i] = Marked(i)'
  <2>1. Home(i, WriteBatchSize) \in DOMAIN writer /\ i \in Batch(Home(i, WriteBatchSize), WriteBatchSize)
    <3>1. WriteBatchSize \in Nat \ {0} /\ Size \in Nat
      BY <1>2, Sizes, BatchAssumption
    <3> QED
      BY <1>2, <3>1, Homes
  <2>2. Writer(i)' = writer'[Home(i, WriteBatchSize)]
    BY <1>3 DEF Writer
  <2>3. CASE i \in InReach(b)
    <3>1. Writer(i)'.word = w + 1 /\ i \div ActiveWord = w
      BY <1>6, <1>10, <2>2, <2>3
    <3>2. Left(i)'
      <4>1. CASE Kept(i)
        <5>1. data[i] = truth[i]
          BY <1>7, <2>3, <4>1 DEF Marked, Kept
        <5>2. i \notin D
          BY <1>7, <2>3, <4>1 DEF D
        <5>3. i \in active' /\ data'[i] = truth[i]
          BY <1>1, <1>7, <1>9, <2>3, <5>1, <5>2
        <5> QED
          BY <1>1, <1>3, <4>1, <5>3 DEF Left
      <4>2. CASE ~Kept(i)
        <5>1. i \in D
          BY <1>7, <2>3, <4>2 DEF D
        <5>2. i \notin active' /\ data'[i] = NoInfo
          BY <1>1, <1>9, <5>1
        <5> QED
          BY <1>1, <1>3, <4>2, <5>2 DEF Left
      <4> QED
        BY <4>1, <4>2
    <3> QED
      BY <1>5, <3>1, <3>2
  <2>4. CASE i \notin InReach(b)
    <3>1. (i \in active' <=> i \in active) /\ data'[i] = data[i]
      BY <1>1, <1>8, <1>9, <2>4
    <3>2. Left(i)' <=> Left(i)
      BY <1>1, <1>3, <3>1 DEF Left
    <3>3. i \div ActiveWord < Writer(i)'.word <=> i \div ActiveWord < Writer(i).word
      <4>1. CASE Home(i, WriteBatchSize) = b
        <5>1. i \div ActiveWord # w
          BY <2>1, <2>4, <4>1 DEF InReach, Word, w
        <5>2. Writer(i)'.word = w + 1 /\ Writer(i).word = w
          BY <1>10, <2>2, <4>1 DEF Writer, w
        <5>3. i \div ActiveWord \in Nat
          BY <1>2, Sizes, BatchAssumption
        <5> QED
          BY <1>5, <5>1, <5>2, <5>3
      <4>2. CASE Home(i, WriteBatchSize) # b
        BY <1>10, <2>1, <2>2, <4>2 DEF Writer
      <4> QED
        BY <4>1, <4>2
    <3> QED
      BY <1>2, <1>3, <3>1, <3>2, <3>3
  <2> QED
    BY <2>3, <2>4
<1>13. DOMAIN data' = Indices /\ active' \subseteq Indices
  BY <1>1, <1>2, <1>9
<1>14. Clearing'
  BY <1>1, <1>2, <1>3, <1>10, <1>11, <1>12, <1>13 DEF Clearing
<1> QED
  BY <1>1, <1>4, <1>14 DEF Reduction, Initialized, Captured, Reduced, Growth

LEMMA DontCaresReplacedStep == ASSUME Reduction, DontCaresReplaced PROVE Reduction'
<1>1. /\ phase = "replace" /\ \A b \in DOMAIN writer : InReach(b) = {}
      /\ phase' = "stats"
      /\ UNCHANGED <<table, posIndex, position, data, truth, best, active>>
  BY DEF DontCaresReplaced
<1>2. /\ Setup /\ Recorded /\ DOMAIN data = Indices /\ active \subseteq Indices
      /\ DOMAIN writer = Batches(WriteBatchSize) /\ \A c \in DOMAIN writer : WriterOK(c)
      /\ \A i \in Indices : IF i \div ActiveWord < Writer(i).word THEN Left(i)
                              ELSE i \in active /\ data[i] = Marked(i)
  BY <1>1 DEF Reduction, Clearing
<1>3. Indices' = Indices /\ \A i : Kept(i)' = Kept(i)
  BY <1>1, SameSetup, SameTruth
<1>4. Setup' /\ Recorded'
  BY <1>1, <1>2, <1>3, SameRecorded DEF Setup, Growth
<1>5. ASSUME NEW i \in Indices PROVE Left(i)
  <2> DEFINE b == Home(i, WriteBatchSize)
             w == writer[b].word
             k == i \div ActiveWord
             j == w * ActiveWord
  <2>1. PICK m \in Nat \ {0} : WriteBatchSize = m * ActiveWord
    BY <1>2, Sizes
  <2>2. WriteBatchSize \in Nat \ {0} /\ Size \in Nat /\ i \in Nat /\ i < Size
    BY <1>2, <2>1, Sizes, BatchAssumption, SMTT(40) DEF Indices
  <2>3. b \in DOMAIN writer /\ i \in Batch(b, WriteBatchSize) /\ b \in Indices
    BY <1>2, <2>2, Homes DEF Batches
  <2>4. /\ w \in Nat /\ b \div ActiveWord <= w /\ k \in Nat /\ k * ActiveWord <= i
        /\ b \in Nat /\ b <= i /\ i < b + WriteBatchSize
    <3>1. WriterOK(b)
      BY <1>2, <2>3
    <3>2. w \in Nat /\ b \div ActiveWord <= w
      BY <3>1 DEF WriterOK
    <3>3. b \in Nat /\ i >= b /\ i < b + WriteBatchSize
      <4> HIDE DEF b
      <4> QED
        BY <1>2, <2>3, Sizes DEF Batch
    <3>4. k \in Nat /\ k * ActiveWord <= i
      BY <2>2, BatchAssumption
    <3> HIDE DEF b, w, k
    <3> QED
      BY <2>2, <3>2, <3>3, <3>4
  <2>5. b = (b \div ActiveWord) * ActiveWord /\ b \div ActiveWord \in Nat
    <3> DEFINE q == i \div WriteBatchSize
    <3>1. b = WriteBatchSize * q /\ q \in Nat
      BY <2>2 DEF Home
    <3> HIDE DEF b, q
    <3>2. b = (m * q) * ActiveWord /\ m * q \in Nat
      BY <2>1, <3>1, BatchAssumption
    <3>3. b \div ActiveWord = m * q
      BY <3>2, BatchAssumption
    <3> QED
      BY <3>2, <3>3
  <2> HIDE DEF b, w, k, j
  <2>6. ASSUME w <= k PROVE FALSE
    <3>1. j <= k * ActiveWord /\ b <= j
      BY <2>4, <2>5, <2>6, BatchAssumption DEF j
    <3>2. j \in Nat /\ k * ActiveWord \in Nat /\ j \div ActiveWord = w
      BY <2>4, BatchAssumption DEF j
    <3>3. j <= i
      BY <2>2, <2>4, <3>1, <3>2
    <3>4. j \in Indices /\ j < b + WriteBatchSize
      BY <2>2, <2>4, <3>2, <3>3 DEF Indices
    <3>5. j \in InReach(b)
      BY <3>1, <3>2, <3>4 DEF InReach, Word, Batch, w
    <3> QED
      BY <1>1, <2>3, <3>5
  <2>7. k < w
    BY <2>4, <2>6
  <2> QED
    BY <1>2, <2>7 DEF Writer, b, w, k
<1>6. Reduced'
  <2>1. active = {i \in Indices : Kept(i)}
    BY <1>2, <1>5 DEF Left
  <2>2. ASSUME NEW i \in active
        PROVE  /\ DOMAIN data[i] = {"wdl", "capt", "handled"}
               /\ data[i].wdl = truth[i].wdl /\ data[i].capt = truth[i].capt
    <3>1. i \in Indices /\ data[i] = truth[i]
      BY <1>2, <1>5, <2>2 DEF Left
    <3>2. DOMAIN truth[i] = InfoFields
      BY <1>1, <1>2, <3>1, InfoFacts DEF Recorded
    <3> QED
      BY <3>1, <3>2 DEF InfoFields
  <2>3. \A i \in Indices \ active : data[i] = NoInfo
    BY <1>5, <2>1 DEF Left
  <2> QED
    BY <1>1, <1>2, <1>3, <2>1, <2>2, <2>3 DEF Reduced
<1> QED
  BY <1>1, <1>4, <1>6 DEF Reduction, Initialized, Captured, Clearing

(* Growing the tree and encoding leave the reduced data as they are, except *)
(* for the marks of the positions that have been counted.                   *)
LEMMA SameReduced ==
    ASSUME Reduction, phase \in Growth, phase' \in Growth,
           UNCHANGED <<table, posIndex, position, truth, best, active>>,
           DOMAIN data' = Indices,
           \A i \in Indices \ active : data'[i] = data[i],
           \A i \in active : /\ DOMAIN data'[i] = DOMAIN data[i]
                             /\ data'[i].wdl = data[i].wdl /\ data'[i].capt = data[i].capt
    PROVE  Reduction'
<1>1. Setup /\ Recorded /\ Reduced
  BY DEF Reduction
<1>2. Indices' = Indices /\ \A i : Kept(i)' = Kept(i)
  BY SameSetup, SameTruth
<1>3. phase \notin {"start", "initialize"} /\ phase' \notin {"start", "initialize", "captures", "replace"}
  BY DEF Growth
<1>4. Setup' /\ Recorded'
  BY <1>1, <1>2, <1>3, SameRecorded DEF Setup
<1>5. Reduced'
  BY <1>1, <1>2 DEF Reduced
<1> QED
  BY <1>3, <1>4, <1>5 DEF Reduction, Initialized, Captured, Clearing

LEMMA UpdateStatsStep == ASSUME Reduction, UpdateStats PROVE Reduction'
<1>1. /\ phase = "stats" /\ phase' = "select"
      /\ UNCHANGED <<table, posIndex, position, truth, best, active>>
  BY DEF UpdateStats
<1>2. Reduced /\ phase \in Growth /\ phase' \in Growth
  BY <1>1 DEF Reduction, Growth
<1>3. PICK counted \in SUBSET Samples :
        data' = [i \in Indices |-> IF \E s \in counted : s.at = i
                                   THEN [data[i] EXCEPT !.handled = TRUE] ELSE data[i]]
  <2>1. {s \in Samples : tree[Leaf(tree, s.holds)].kind = "stats"} \in SUBSET Samples
    OBVIOUS
  <2> QED
    BY <2>1 DEF UpdateStats
<1>4. \A s \in counted : s.at \in active
  BY DEF Samples, SampleAt
<1>5. ASSUME NEW i \in active
      PROVE  /\ DOMAIN data'[i] = DOMAIN data[i]
             /\ data'[i].wdl = data[i].wdl /\ data'[i].capt = data[i].capt
  <2>1. i \in Indices /\ DOMAIN data[i] = {"wdl", "capt", "handled"}
    BY <1>2 DEF Reduced
  <2> QED
    BY <1>3, <2>1
<1>6. DOMAIN data' = Indices /\ \A i \in Indices \ active : data'[i] = data[i]
  BY <1>3, <1>4
<1> QED
  BY <1>1, <1>2, <1>5, <1>6, SameReduced

LEMMA SameVars == ASSUME Reduction, UNCHANGED vars PROVE Reduction'
<1>1. UNCHANGED <<table, posIndex, position, data, truth, best, active, phase, todo, writer>>
  BY DEF vars
<1>2. /\ Indices' = Indices /\ BatchSize' = BatchSize /\ WriteBatchSize' = WriteBatchSize
      /\ \A size : Batches(size)' = Batches(size)
      /\ \A i : Info(i)' = Info(i) /\ Wtm(i)' = Wtm(i)
      /\ \A i : Kept(i)' = Kept(i) /\ Marked(i)' = Marked(i)
  BY <1>1, SameSetup, SameTruth
<1>3. Setup'
  BY <1>1, <1>2 DEF Reduction, Setup
<1>4. Recorded'
  <2>1. \A i : Bounded(i)' <=> Bounded(i)
    BY <1>1, <1>2 DEF Bounded
  <2> QED
    BY <1>1, <1>2, <2>1 DEF Reduction, Recorded
<1>5. Initialized' /\ Captured'
  <2>1. \A i : (Waiting(i)' <=> Waiting(i)) /\ (Bounded(i)' <=> Bounded(i))
    BY <1>1, <1>2 DEF Waiting, Home, Bounded
  <2> QED
    BY <1>1, <1>2, <2>1 DEF Reduction, Initialized, Captured
<1>6. Clearing'
  <2>1. \A w : Word(w)' = Word(w)
    BY <1>2 DEF Word
  <2>2. \A b : InReach(b)' = InReach(b)
    BY <1>1, <1>2 DEF InReach, Batch, Word
  <2>3. \A b : WriterOK(b)' <=> WriterOK(b)
    BY <1>1, <2>1, <2>2 DEF WriterOK
  <2>4. \A i : Writer(i)' = Writer(i) /\ (Left(i)' <=> Left(i))
    BY <1>1, <1>2 DEF Writer, Home, Left
  <2> QED
    BY <1>1, <1>2, <2>3, <2>4 DEF Reduction, Clearing
<1>7. Reduced'
  BY <1>1, <1>2 DEF Reduction, Reduced
<1> QED
  BY <1>3, <1>4, <1>5, <1>6, <1>7 DEF Reduction

LEMMA Invariance == ASSUME Reduction, [Next]_vars PROVE Reduction'
<1>1. CASE Start
  BY <1>1, StartStep
<1>2. ASSUME NEW b \in todo, InitializeData(b) PROVE Reduction'
  BY <1>2, InitializeDataStep
<1>3. ASSUME NEW b \in todo, ComputeOptimalCaptures(b) PROVE Reduction'
  BY <1>3, ComputeOptimalCapturesStep
<1>4. ASSUME phase \in Growth, phase' \in Growth, UNCHANGED <<table, posIndex, position, data, truth, best, active>>
      PROVE  Reduction'
  BY <1>4, SameReduced DEF Reduction, Reduced
<1>5. ASSUME NEW b \in todo, EncodeValues(b) PROVE Reduction'
  BY <1>4, <1>5 DEF EncodeValues, Growth
<1>6. ASSUME NEW b \in DOMAIN writer, LoadWord(b) PROVE Reduction'
  BY <1>6, LoadWordStep
<1>7. ASSUME NEW b \in DOMAIN writer, ReplaceDontCares(b) PROVE Reduction'
  BY <1>7, ReplaceDontCaresStep
<1>8. CASE DataInitialized
  BY <1>8, DataInitializedStep
<1>9. CASE CapturesComputed
  BY <1>9, CapturesComputedStep
<1>10. CASE DontCaresReplaced
  BY <1>10, DontCaresReplacedStep
<1>11. CASE UpdateStats
  BY <1>11, UpdateStatsStep
<1>12. CASE SelectBestPreds
  <2>1. phase = "select" /\ UNCHANGED <<table, posIndex, position, data, truth, best, active>>
    BY <1>12 DEF SelectBestPreds
  <2>2. phase' = IF Collectors(tree') # {} THEN "stats" ELSE "simplify"
    BY <1>12 DEF SelectBestPreds
  <2> QED
    BY <1>4, <2>1, <2>2 DEF Growth
<1>13. CASE SimplifyAndMakeEncoders
  BY <1>4, <1>13 DEF SimplifyAndMakeEncoders, Growth
<1>14. CASE ValuesEncoded
  BY <1>4, <1>14 DEF ValuesEncoded, Growth
<1>15. CASE UNCHANGED vars
  BY <1>15, SameVars
<1>16. Terminated => UNCHANGED vars
  BY DEF Terminated
<1> QED
  BY <1>1, <1>2, <1>3, <1>5, <1>6, <1>7, <1>8, <1>9, <1>10, <1>11, <1>12, <1>13, <1>14, <1>15, <1>16
  DEF Next

(* What the later phases start from is kept in every step of the dump.      *)
THEOREM Inductive == Spec => []Reduction
<1>1. Init => Reduction
  BY ReductionInit
<1>2. Reduction /\ [Next]_vars => Reduction'
  BY Invariance
<1> QED
  BY <1>1, <1>2, PTL DEF Spec

(* The values that the reduction leaves out can be known without the table, *)
(* and all others are still there, whatever the order of the tasks.         *)
THEOREM NothingElseLeftOut == Spec => []DontCaresAreKnown
<1>1. ASSUME Reduction PROVE DontCaresAreKnown
  <2>1. SUFFICES ASSUME phase \in Growth, NEW i \in Indices
                 PROVE  /\ i \in active => IsValue(truth[i]) /\ data[i].wdl = truth[i].wdl
                        /\ i \notin active =>
                            /\ data[i] = NoInfo
                            /\ \/ ~IsValue(truth[i])
                               \/ truth[i].wdl = truth[i].capt /\ truth[i].capt = BestOf(position[i].pos)
    BY DEF DontCaresAreKnown, Growth
  <2>2. Setup /\ Recorded /\ Reduced /\ phase \notin {"start", "initialize"}
    BY <1>1, <2>1 DEF Reduction, Growth
  <2>3. i \in active => Kept(i) /\ data[i].wdl = truth[i].wdl
    BY <2>1, <2>2 DEF Reduced
  <2>4. ASSUME i \notin active PROVE data[i] = NoInfo /\ ~Kept(i)
    BY <2>1, <2>2, <2>4 DEF Reduced
  <2>5. ASSUME ~Kept(i), IsValue(truth[i])
        PROVE  truth[i].wdl = truth[i].capt /\ truth[i].capt = BestOf(position[i].pos)
    <3>1. Settled(i)
      BY <2>5 DEF Kept
    <3> QED
      BY <2>1, <2>2, <2>5, <3>1, SettledByCapture DEF Settled
  <2> QED
    BY <2>3, <2>4, <2>5 DEF Kept
<1> QED
  BY <1>1, Inductive, PTL

(***************************************************************************)
(* The invariant of growing the tree and of encoding.                      *)
(***************************************************************************)
Early == {"start", "initialize", "captures", "replace"}
Untouched == phase \in Early => tree = [path \in {<<>>} |-> StatsCollector] /\ chunkNo = 0
CollectorOK(c) ==
    /\ DOMAIN tree[c] = {"kind", "applied", "stats"}
    /\ tree[c].applied \in Nat
    /\ IF phase = "stats" THEN tree[c].applied < NStatsChunks
                          ELSE tree[c].applied # 0 /\ tree[c].applied <= NStatsChunks
    /\ tree[c].stats = ApplyData(StatsCollector, Counted(c)).stats
(* A position that is done with is in a node that only counts.              *)
DoneWith(i) ==
    data[i].handled \in BOOLEAN /\ (data[i].handled => tree[Leaf(tree, HoldsAt(i))].kind = "stats")
Collecting ==
    phase \in Growing =>
        /\ Shape(tree) /\ Nodes(tree) /\ chunkNo \in 0 .. NStatsChunks - 1
        /\ \A c \in Collectors(tree) : CollectorOK(c)
        /\ \A i \in active : DoneWith(i)
Collected == phase = "simplify" => Shape(tree) /\ Nodes(tree) /\ Collectors(tree) = {}
CodeOf(i) ==
    EncodeValue(tree[Leaf(tree, HoldsAt(i))].table, position[i].pos.wtm, data[i].capt, data[i].wdl)
Encoding ==
    /\ phase \in {"encode", "done"} => Encoders(tree) /\ DOMAIN code = Indices
    /\ phase = "encode" => /\ todo \subseteq Batches(BatchSize)
                           /\ \A i \in active : ~Waiting(i) => code[i] = CodeOf(i)
    /\ phase = "done" => \A i \in active : code[i] = CodeOf(i)
Grown == Untouched /\ Collecting /\ Collected /\ Encoding

(***************************************************************************)
(* Samples and what is counted of them.                                    *)
(***************************************************************************)
(* Division rounds down.                                                    *)
LEMMA Euclid ==
    ASSUME NEW a \in Int, NEW c \in Int, c > 0
    PROVE  a = c * (a \div c) + (a % c)
OBVIOUS

(* The chunk looked at n samples ago is the same one sample later.          *)
LEMMA ChunkOrder ==
    ASSUME NEW c \in 0 .. NStatsChunks - 1
    PROVE  /\ (c + 1) % NStatsChunks \in 0 .. NStatsChunks - 1
           /\ (((c + 1) % NStatsChunks) - 1) % NStatsChunks = c
           /\ \A n \in 1 .. NStatsChunks - 1 :
                /\ (c - n) % NStatsChunks # c
                /\ (((c + 1) % NStatsChunks) - (n + 1)) % NStatsChunks = (c - n) % NStatsChunks
<1>1. NStatsChunks \in Nat \ {0} /\ c \in Int
  BY TreeAssumption
<1>2. \A k \in -NStatsChunks .. NStatsChunks - 1 :
        k % NStatsChunks = IF k >= 0 THEN k ELSE k + NStatsChunks
  <2> TAKE k \in -NStatsChunks .. NStatsChunks - 1
  <2>1. CASE k >= 0
    BY <1>1, <2>1
  <2>2. CASE k < 0
    <3>1. k \in Int /\ k + NStatsChunks \in 0 .. NStatsChunks - 1
      BY <1>1, <2>2
    <3>2. k % NStatsChunks \in 0 .. NStatsChunks - 1
      BY <1>1, <3>1
    <3>3. k = NStatsChunks * (k \div NStatsChunks) + (k % NStatsChunks) /\ k \div NStatsChunks \in Int
      <4>1. NStatsChunks \in Int /\ NStatsChunks > 0
        BY <1>1
      <4>2. k = NStatsChunks * (k \div NStatsChunks) + (k % NStatsChunks)
        BY <3>1, <4>1, Euclid, Zenon
      <4> QED
        BY <3>1, <4>1, <4>2
    <3>4. k \div NStatsChunks = -1
      BY <1>1, <3>1, <3>2, <3>3
    <3> QED
      BY <1>1, <2>2, <3>3, <3>4
  <2> QED
    BY <1>1, <2>1, <2>2
<1>3. (c + 1) % NStatsChunks = IF c + 1 = NStatsChunks THEN 0 ELSE c + 1
  <2>1. CASE c + 1 = NStatsChunks
    BY <1>1, <2>1
  <2>2. CASE c + 1 # NStatsChunks
    BY <1>1, <1>2, <2>2
  <2> QED
    BY <2>1, <2>2
<1> DEFINE d == (c + 1) % NStatsChunks
<1> HIDE DEF d
<1>4. d = IF c + 1 = NStatsChunks THEN 0 ELSE c + 1
  BY <1>3 DEF d
<1>5. d \in 0 .. NStatsChunks - 1
  BY <1>1, <1>4
<1>6. (d - 1) % NStatsChunks = c
  <2>1. (d - 1) \in -NStatsChunks .. NStatsChunks - 1
    BY <1>1, <1>4
  <2>2. (d - 1) % NStatsChunks = IF d - 1 >= 0 THEN d - 1 ELSE d - 1 + NStatsChunks
    BY <1>2, <2>1
  <2> QED
    BY <1>1, <1>4, <2>2
<1>7. ASSUME NEW n \in 1 .. NStatsChunks - 1
      PROVE  /\ (c - n) % NStatsChunks # c
             /\ (d - (n + 1)) % NStatsChunks = (c - n) % NStatsChunks
  <2>1. c - n \in -NStatsChunks .. NStatsChunks - 1 /\ d - (n + 1) \in -NStatsChunks .. NStatsChunks - 1
    BY <1>1, <1>4
  <2>2. /\ (c - n) % NStatsChunks = IF c - n >= 0 THEN c - n ELSE c - n + NStatsChunks
        /\ (d - (n + 1)) % NStatsChunks =
                IF d - (n + 1) >= 0 THEN d - (n + 1) ELSE d - (n + 1) + NStatsChunks
    BY <1>2, <2>1
  <2> QED
    BY <1>1, <1>4, <2>2
<1> QED
  BY <1>5, <1>6, <1>7 DEF d

(* How many samples have a value and hold a predicate or do not, and what a *)
(* node has counted once they are added to it.                              *)
CountOf(samples, p, b, v) == Cardinality({s \in samples : s.value = v /\ (p \in s.holds) = b})
Counts(node, samples) ==
    [p \in Preds |-> [b \in BOOLEAN |-> [v \in WdlVals |-> node.stats[p][b][v] + CountOf(samples, p, b, v)]]]
LEMMA Applied ==
    ASSUME NEW node, DOMAIN node = {"kind", "applied", "stats"}, NEW samples
    PROVE  /\ DOMAIN ApplyData(node, samples) = {"kind", "applied", "stats"}
           /\ ApplyData(node, samples).kind = node.kind
           /\ ApplyData(node, samples).applied = node.applied
           /\ ApplyData(node, samples).stats = Counts(node, samples)
<1> DEFINE new == ApplyData(node, samples)
<1>1. new = [node EXCEPT !.stats = Counts(node, samples)]
  BY Zenon DEF ApplyData, Counts, CountOf
<1> HIDE DEF new
<1> QED
  BY <1>1 DEF new

(* Counting samples after others is counting both.                          *)
LEMMA CountsAdd ==
    ASSUME NEW S, NEW T, IsFiniteSet(S), IsFiniteSet(T), S \cap T = {},
           NEW node, node.stats = Counts(StatsCollector, S)
    PROVE  Counts(node, T) = Counts(StatsCollector, S \cup T)
<1>1. \A p \in Preds, b \in BOOLEAN, v \in WdlVals : StatsCollector.stats[p][b][v] = 0
  BY DEF StatsCollector, NoStats
<1>2. ASSUME NEW p \in Preds, NEW b \in BOOLEAN, NEW v \in WdlVals
      PROVE  /\ CountOf(S \cup T, p, b, v) = CountOf(S, p, b, v) + CountOf(T, p, b, v)
             /\ CountOf(S, p, b, v) \in Nat /\ CountOf(T, p, b, v) \in Nat
  <2> DEFINE A == {s \in S : s.value = v /\ (p \in s.holds) = b}
             B == {s \in T : s.value = v /\ (p \in s.holds) = b}
             C == {s \in S \cup T : s.value = v /\ (p \in s.holds) = b}
  <2>1. A \in SUBSET S /\ B \in SUBSET T /\ A \cap B = {} /\ C = A \cup B
    OBVIOUS
  <2>2. IsFiniteSet(A) /\ IsFiniteSet(B)
    BY <2>1, FS_Subset
  <2>3. /\ CountOf(S, p, b, v) = Cardinality(A) /\ CountOf(T, p, b, v) = Cardinality(B)
        /\ CountOf(S \cup T, p, b, v) = Cardinality(C)
    BY DEF CountOf
  <2> HIDE DEF A, B, C
  <2>4. Cardinality(A) \in Nat /\ Cardinality(B) \in Nat
    BY <2>2, FS_CardinalityType
  <2>5. Cardinality(A \cup B) = Cardinality(A) + Cardinality(B) - Cardinality(A \cap B)
    BY <2>2, FS_Union
  <2>6. Cardinality(A \cap B) = 0
    BY <2>1, FS_EmptySet
  <2> QED
    BY <2>1, <2>3, <2>4, <2>5, <2>6
<1>3. \A p \in Preds, b \in BOOLEAN, v \in WdlVals :
        node.stats[p][b][v] + CountOf(T, p, b, v) = StatsCollector.stats[p][b][v] + CountOf(S \cup T, p, b, v)
  <2> TAKE p \in Preds, b \in BOOLEAN, v \in WdlVals
  <2>1. node.stats[p][b][v] = StatsCollector.stats[p][b][v] + CountOf(S, p, b, v)
    BY DEF Counts
  <2>2. StatsCollector.stats[p][b][v] = 0
    BY <1>1
  <2>3. /\ CountOf(S \cup T, p, b, v) = CountOf(S, p, b, v) + CountOf(T, p, b, v)
        /\ CountOf(S, p, b, v) \in Nat /\ CountOf(T, p, b, v) \in Nat
    BY <1>2
  <2> QED
    BY <2>1, <2>2, <2>3
<1> DEFINE row(p, b) == [v \in WdlVals |-> node.stats[p][b][v] + CountOf(T, p, b, v)]
           sum(p, b) == [v \in WdlVals |-> StatsCollector.stats[p][b][v] + CountOf(S \cup T, p, b, v)]
<1>4. \A p \in Preds, b \in BOOLEAN : row(p, b) = sum(p, b)
  BY <1>3
<1>5. /\ Counts(node, T) = [p \in Preds |-> [b \in BOOLEAN |-> row(p, b)]]
      /\ Counts(StatsCollector, S \cup T) = [p \in Preds |-> [b \in BOOLEAN |-> sum(p, b)]]
  BY Zenon DEF Counts
<1> HIDE DEF row, sum
<1> QED
  BY <1>4, <1>5

(* What has been counted are numbers.                                       *)
LEMMA CountsAreInt ==
    ASSUME NEW S, IsFiniteSet(S), NEW p \in Preds, NEW b \in BOOLEAN
    PROVE  Counts(StatsCollector, S)[p][b] \in [WdlVals -> Int]
<1>1. \A v \in WdlVals : StatsCollector.stats[p][b][v] = 0
  BY DEF StatsCollector, NoStats
<1>2. ASSUME NEW v \in WdlVals PROVE CountOf(S, p, b, v) \in Nat
  <2> DEFINE U == {s \in S : s.value = v /\ (p \in s.holds) = b}
  <2>1. U \in SUBSET S
    OBVIOUS
  <2>2. CountOf(S, p, b, v) = Cardinality(U)
    BY DEF CountOf
  <2> HIDE DEF U
  <2> QED
    BY <2>1, <2>2, FS_Subset, FS_CardinalityType
<1>3. Counts(StatsCollector, S)[p][b] = [v \in WdlVals |-> StatsCollector.stats[p][b][v] + CountOf(S, p, b, v)]
  BY DEF Counts
<1> QED
  BY <1>1, <1>2, <1>3

(* What a collector has counted, if that is nothing.                        *)
LEMMA NothingCounted == Counts(StatsCollector, {}) = StatsCollector.stats
<1>1. \A p \in Preds, b \in BOOLEAN, v \in WdlVals :
        StatsCollector.stats[p][b][v] + CountOf({}, p, b, v) = 0
  <2> TAKE p \in Preds, b \in BOOLEAN, v \in WdlVals
  <2>1. StatsCollector.stats[p][b][v] = 0
    BY DEF StatsCollector, NoStats
  <2>2. CountOf({}, p, b, v) = 0
    <3>1. {s \in {} : s.value = v /\ (p \in s.holds) = b} = {}
      OBVIOUS
    <3> QED
      BY <3>1, FS_EmptySet DEF CountOf
  <2> QED
    BY <2>1, <2>2
<1>2. StatsCollector.stats = [p \in Preds |-> [b \in BOOLEAN |-> [v \in WdlVals |-> 0]]]
  BY DEF StatsCollector, NoStats
<1> QED
  BY <1>1, <1>2 DEF Counts

(* What a collector should have counted is finite, and each of it is the    *)
(* sample of an active position.                                            *)
LEMMA CountedFacts ==
    ASSUME Reduction, phase \in Growth, NEW c
    PROVE  /\ IsFiniteSet(Counted(c))
           /\ \A s : s \in Counted(c) <=>
                \E i \in active : /\ s = SampleAt(i) /\ Leaf(tree, s.holds) = c
                                  /\ \E n \in 1 .. tree[c].applied : Chunk(i) = (chunkNo - n) % NStatsChunks
<1>1. ASSUME NEW s
      PROVE  s \in Counted(c) <=>
                \E i \in active : /\ s = SampleAt(i) /\ Leaf(tree, s.holds) = c
                                  /\ \E n \in 1 .. tree[c].applied : Chunk(i) = (chunkNo - n) % NStatsChunks
  <2> DEFINE given == {j \in active : \E n \in 1 .. tree[c].applied : Chunk(j) = (chunkNo - n) % NStatsChunks}
  <2>1. Counted(c) = {t \in {SampleAt(i) : i \in given} : Leaf(tree, t.holds) = c}
    BY Zenon DEF Counted, Reaching
  <2>2. s \in Counted(c) <=> Leaf(tree, s.holds) = c /\ \E i \in given : s = SampleAt(i)
    BY <2>1, Zenon
  <2>3. \A i : i \in given <=> i \in active /\ \E n \in 1 .. tree[c].applied : Chunk(i) = (chunkNo - n) % NStatsChunks
    BY Zenon
  <2> HIDE DEF given
  <2> QED
    BY <2>2, <2>3, Zenon
<1>2. IsFiniteSet(active)
  <2>1. active \in SUBSET Indices /\ Size \in Nat
    BY Sizes DEF Reduction, Reduced
  <2>2. IsFiniteSet(0 .. Size - 1)
    BY <2>1, FS_Interval
  <2> QED
    BY <2>1, <2>2, FS_Subset DEF Indices
<1>3. IsFiniteSet(Counted(c))
  <2> DEFINE f == [i \in active |-> SampleAt(i)]
  <2>1. DOMAIN f = active
    OBVIOUS
  <2>2. \A i \in active : f[i] = SampleAt(i)
    OBVIOUS
  <2> HIDE DEF f
  <2>3. IsFiniteSet({f[i] : i \in DOMAIN f})
    BY <1>2, <2>1, Image
  <2>4. Counted(c) \in SUBSET {f[i] : i \in DOMAIN f}
    BY <1>1, <2>1, <2>2
  <2> QED
    BY <2>3, <2>4, FS_Subset
<1> QED
  BY <1>1, <1>3

LEMMA SampleFields ==
    \A i : SampleAt(i).at = i /\ SampleAt(i).holds = HoldsAt(i) /\ SampleAt(i).value = data[i].wdl
  BY DEF SampleAt

(* What a sample makes of the nodes.                                        *)
LEMMA SampledNodes ==
    ASSUME UpdateStats, \A c \in Collectors(tree) : DOMAIN tree[c] = {"kind", "applied", "stats"}
    PROVE  /\ DOMAIN tree' = DOMAIN tree /\ Collectors(tree') = Collectors(tree)
           /\ \A path \in DOMAIN tree \ Collectors(tree) : tree'[path] = tree[path]
           /\ \A c \in Collectors(tree) :
                /\ DOMAIN tree'[c] = {"kind", "applied", "stats"} /\ tree'[c].kind = "collector"
                /\ tree'[c].applied = tree[c].applied + 1
                /\ tree'[c].stats = Counts(tree[c], Reaching(Samples, c))
<1> DEFINE tr == [path \in DOMAIN tree |->
                    IF path \in Collectors(tree) THEN ApplyData(tree[path], Reaching(Samples, path))
                                                 ELSE tree[path]]
<1>1. tree' = ChunkAdded(tr)
  BY Zenon DEF UpdateStats
<1>2. \A c : c \in Collectors(tree) <=> c \in DOMAIN tree /\ tree[c].kind = "collector"
  BY DEF Collectors, NodesOf
<1>3. DOMAIN tr = DOMAIN tree
  OBVIOUS
<1>4. \A path \in DOMAIN tree \ Collectors(tree) : tr[path] = tree[path]
  OBVIOUS
<1>5. ASSUME NEW c \in Collectors(tree)
      PROVE  /\ DOMAIN tr[c] = {"kind", "applied", "stats"} /\ tr[c].kind = "collector"
             /\ tr[c].applied = tree[c].applied /\ tr[c].stats = Counts(tree[c], Reaching(Samples, c))
  <2>1. tr[c] = ApplyData(tree[c], Reaching(Samples, c))
    BY <1>2
  <2> DEFINE node == tree[c]
             samples == Reaching(Samples, c)
  <2> HIDE DEF tr
  <2>2. DOMAIN node = {"kind", "applied", "stats"} /\ node.kind = "collector"
    BY <1>2
  <2> HIDE DEF node, samples
  <2>3. /\ DOMAIN ApplyData(node, samples) = {"kind", "applied", "stats"}
        /\ ApplyData(node, samples).kind = node.kind
        /\ ApplyData(node, samples).applied = node.applied
        /\ ApplyData(node, samples).stats = Counts(node, samples)
    BY <2>2, Applied
  <2> QED
    BY <2>1, <2>2, <2>3 DEF node, samples
<1> HIDE DEF tr
<1>6. Collectors(tr) = Collectors(tree)
  BY <1>2, <1>3, <1>4, <1>5 DEF Collectors, NodesOf
<1>7. /\ DOMAIN tree' = DOMAIN tree
      /\ \A path \in DOMAIN tree : tree'[path] = IF path \in Collectors(tree) THEN [tr[path] EXCEPT !.applied = @ + 1]
                                                                              ELSE tr[path]
  BY <1>1, <1>3, <1>6 DEF ChunkAdded
<1>8. ASSUME NEW c \in Collectors(tree)
      PROVE  /\ DOMAIN tree'[c] = {"kind", "applied", "stats"} /\ tree'[c].kind = "collector"
             /\ tree'[c].applied = tree[c].applied + 1
             /\ tree'[c].stats = Counts(tree[c], Reaching(Samples, c))
  <2>1. tree'[c] = [tr[c] EXCEPT !.applied = @ + 1]
    BY <1>2, <1>7
  <2>2. /\ DOMAIN tr[c] = {"kind", "applied", "stats"} /\ tr[c].kind = "collector"
        /\ tr[c].applied = tree[c].applied /\ tr[c].stats = Counts(tree[c], Reaching(Samples, c))
    BY <1>5
  <2> QED
    BY <2>1, <2>2
<1>9. \A path \in DOMAIN tree \ Collectors(tree) : tree'[path] = tree[path]
  BY <1>4, <1>7
<1>10. Collectors(tree') = Collectors(tree)
  BY <1>2, <1>7, <1>8, <1>9 DEF Collectors, NodesOf
<1> QED
  BY <1>7, <1>8, <1>9, <1>10

(* The same leaves are reached if domain, kinds and predicates are kept.    *)
LEMMA SampledLeaf ==
    ASSUME NEW tr, NEW new, Shape(tr), DOMAIN new = DOMAIN tr,
           \A path \in DOMAIN tr : new[path].kind = tr[path].kind,
           \A path \in DOMAIN tr : IsPredicate(tr, path) => new[path] = tr[path]
    PROVE  Shape(new) /\ \A holds : Leaf(new, holds) = Leaf(tr, holds)
<1>1. \A path : IsPredicate(new, path) <=> IsPredicate(tr, path)
  BY DEF IsPredicate
<1>2. Shape(new)
  BY <1>1 DEF Shape
<1>3. ASSUME NEW holds PROVE Leaf(new, holds) = Leaf(tr, holds)
  <2> DEFINE path == Leaf(tr, holds)
  <2>1. Ends(tr, holds, path)
    BY LeafFacts
  <2>2. path \in DOMAIN tr /\ ~IsPredicate(tr, path) /\ ~IsPredicate(new, path)
    BY <1>1, <2>1 DEF Ends, Followed
  <2>3. \A n \in 0 .. Len(path) - 1 : new[SubSeq(path, 1, n)].pred = tr[SubSeq(path, 1, n)].pred
    BY <2>2 DEF Shape, IsPredicate
  <2> HIDE DEF path
  <2>4. Leaf(new, holds) = path <=> Leaf(tr, holds) = path
    BY <1>2, <2>2, <2>3, SameLeaf
  <2> QED
    BY <2>4 DEF path
<1> QED
  BY <1>2, <1>3

(***************************************************************************)
(* The steps of growing the tree and of encoding.                          *)
(***************************************************************************)
(* The same of what it should have counted after a step.                    *)
LEMMA CountedNext ==
    ASSUME NEW c
    PROVE  \A s : s \in Counted(c)' <=>
                \E i \in active' : /\ s = SampleAt(i)' /\ Leaf(tree', s.holds) = c
                                   /\ \E n \in 1 .. tree'[c].applied : Chunk(i) = (chunkNo' - n) % NStatsChunks
<1> TAKE s
<1> DEFINE given == {j \in active' : \E n \in 1 .. tree'[c].applied : Chunk(j) = (chunkNo' - n) % NStatsChunks}
<1>1. Counted(c)' = {t \in {SampleAt(i)' : i \in given} : Leaf(tree', t.holds) = c}
  BY Zenon DEF Counted, Reaching
<1>2. s \in Counted(c)' <=> Leaf(tree', s.holds) = c /\ \E i \in given : s = SampleAt(i)'
  BY <1>1, Zenon
<1>3. \A i : i \in given <=> i \in active' /\ \E n \in 1 .. tree'[c].applied : Chunk(i) = (chunkNo' - n) % NStatsChunks
  BY Zenon
<1> HIDE DEF given
<1> QED
  BY <1>2, <1>3, Zenon

(* What is counted now was not counted before, because the chunk is another *)
(* one, and all of the chunk that ends in a collector is counted, because   *)
(* no position that ends there has been done with.                          *)
LEMMA SampleStep == ASSUME Reduction, Grown, UpdateStats PROVE Grown'
<1>1. /\ phase = "stats" /\ phase' = "select" /\ UNCHANGED <<position, active>>
      /\ chunkNo' = (chunkNo + 1) % NStatsChunks
  BY DEF UpdateStats
<1>2. /\ Shape(tree) /\ Nodes(tree) /\ chunkNo \in 0 .. NStatsChunks - 1
      /\ \A c \in Collectors(tree) : CollectorOK(c)
      /\ \A i \in active : DoneWith(i)
  BY <1>1 DEF Grown, Collecting, Growing
<1>3. /\ DOMAIN tree' = DOMAIN tree /\ Collectors(tree') = Collectors(tree)
      /\ \A path \in DOMAIN tree \ Collectors(tree) : tree'[path] = tree[path]
      /\ \A c \in Collectors(tree) :
            /\ DOMAIN tree'[c] = {"kind", "applied", "stats"} /\ tree'[c].kind = "collector"
            /\ tree'[c].applied = tree[c].applied + 1
            /\ tree'[c].stats = Counts(tree[c], Reaching(Samples, c))
  BY <1>2, SampledNodes DEF CollectorOK
<1>4. \A c : c \in Collectors(tree) <=> c \in DOMAIN tree /\ tree[c].kind = "collector"
  BY DEF Collectors, NodesOf
<1>5. \A path \in DOMAIN tree : tree'[path].kind = tree[path].kind
  BY <1>3, <1>4
<1>6. Shape(tree') /\ \A holds : Leaf(tree', holds) = Leaf(tree, holds)
  <2>1. \A path \in DOMAIN tree : IsPredicate(tree, path) => tree'[path] = tree[path]
    BY <1>3, <1>4 DEF IsPredicate
  <2> DEFINE new == tree'
  <2>2. DOMAIN new = DOMAIN tree /\ \A path \in DOMAIN tree : new[path].kind = tree[path].kind
    BY <1>3, <1>5
  <2> HIDE DEF new
  <2>3. Shape(new) /\ \A holds : Leaf(new, holds) = Leaf(tree, holds)
    BY <1>2, <2>1, <2>2, SampledLeaf DEF new
  <2> QED
    BY <2>3 DEF new
<1>7. Nodes(tree')
  BY <1>2, <1>3, <1>4 DEF Nodes
<1>8. Reduced /\ phase \in Growth
  BY <1>1 DEF Reduction, Growth
<1>9. PICK counted \in SUBSET Samples :
        /\ data' = [i \in Indices |-> IF \E s \in counted : s.at = i
                                      THEN [data[i] EXCEPT !.handled = TRUE] ELSE data[i]]
        /\ \A s \in counted : tree[Leaf(tree, s.holds)].kind = "stats"
  <2> DEFINE counted == {s \in Samples : tree[Leaf(tree, s.holds)].kind = "stats"}
  <2>1. data' = [i \in Indices |-> IF \E s \in counted : s.at = i
                                   THEN [data[i] EXCEPT !.handled = TRUE] ELSE data[i]]
    BY Zenon DEF UpdateStats
  <2>2. counted \in SUBSET Samples /\ \A s \in counted : tree[Leaf(tree, s.holds)].kind = "stats"
    OBVIOUS
  <2> HIDE DEF counted
  <2> QED
    BY <2>1, <2>2
<1>10. ASSUME NEW i \in active
       PROVE  /\ data'[i].wdl = data[i].wdl /\ data'[i].capt = data[i].capt
              /\ \/ data'[i].handled = data[i].handled
                 \/ data'[i].handled = TRUE /\ tree[Leaf(tree, HoldsAt(i))].kind = "stats"
  <2>1. i \in Indices /\ DOMAIN data[i] = {"wdl", "capt", "handled"}
    BY <1>8 DEF Reduced
  <2>2. CASE \E s \in counted : s.at = i
    <3>1. PICK s \in counted : s.at = i
      BY <2>2
    <3>2. PICK j \in active : s = SampleAt(j)
      BY <3>1 DEF Samples
    <3>3. s.holds = HoldsAt(i)
      BY <3>1, <3>2, SampleFields
    <3>4. data'[i] = [data[i] EXCEPT !.handled = TRUE]
      BY <1>9, <2>1, <2>2
    <3> QED
      BY <1>9, <2>1, <3>1, <3>3, <3>4
  <2>3. CASE ~ \E s \in counted : s.at = i
    BY <1>9, <2>1, <2>3
  <2> QED
    BY <2>2, <2>3
<1>11. \A i \in active : HoldsAt(i)' = HoldsAt(i) /\ SampleAt(i)' = SampleAt(i)
  BY <1>1, <1>10 DEF HoldsAt, SampleAt
<1>12. ASSUME NEW i \in active PROVE DoneWith(i)'
  <2> DEFINE path == Leaf(tree, HoldsAt(i))
  <2>1. DoneWith(i)
    BY <1>2
  <2>2. path \in DOMAIN tree
    <3>1. Ends(tree, HoldsAt(i), path)
      BY <1>2, LeafFacts
    <3> QED
      BY <3>1 DEF Ends, Followed
  <2>3. Leaf(tree', HoldsAt(i)') = path /\ tree'[path].kind = tree[path].kind
    BY <1>5, <1>6, <1>11, <2>2
  <2> HIDE DEF path
  <2>4. data'[i].handled \in BOOLEAN /\ (data'[i].handled => tree[path].kind = "stats")
    BY <1>10, <2>1 DEF DoneWith, path
  <2> QED
    BY <2>3, <2>4 DEF DoneWith
<1>13. ASSUME NEW c \in Collectors(tree) PROVE CollectorOK(c)'
  <2> DEFINE now == Reaching(Samples, c)
             was == Counted(c)
             k == tree[c].applied
  <2>1. /\ DOMAIN tree[c] = {"kind", "applied", "stats"} /\ k \in Nat /\ k < NStatsChunks
        /\ tree[c].stats = ApplyData(StatsCollector, was).stats
    BY <1>1, <1>2 DEF CollectorOK
  <2>2. \A s : s \in was <=> \E i \in active : /\ s = SampleAt(i) /\ Leaf(tree, s.holds) = c
                                               /\ \E n \in 1 .. k : Chunk(i) = (chunkNo - n) % NStatsChunks
    BY <1>8, CountedFacts
  <2>3. \A s : s \in now <=> \E i \in active : /\ s = SampleAt(i) /\ Leaf(tree, s.holds) = c
                                               /\ Chunk(i) = chunkNo
    <3> TAKE s
    <3>1. s \in now <=> Leaf(tree, s.holds) = c /\ \E i \in active : s = SampleAt(i) /\ Chunk(i) = chunkNo /\ ~data[i].handled
      BY DEF Reaching, Samples
    <3>2. ASSUME NEW i \in active, s = SampleAt(i), Leaf(tree, s.holds) = c PROVE ~data[i].handled
      <4>1. tree[Leaf(tree, HoldsAt(i))].kind = "collector"
        BY <1>4, <3>2, SampleFields
      <4> QED
        BY <1>2, <4>1 DEF DoneWith
    <3> HIDE DEF now
    <3> QED
      BY <3>1, <3>2
  <2>4. \A s : s \in Counted(c)' <=>
            \E i \in active : /\ s = SampleAt(i) /\ Leaf(tree, s.holds) = c
                              /\ \E n \in 1 .. k + 1 : Chunk(i) = (chunkNo' - n) % NStatsChunks
    <3>1. \A s : s \in Counted(c)' <=>
                \E i \in active' : /\ s = SampleAt(i)' /\ Leaf(tree', s.holds) = c
                                   /\ \E n \in 1 .. tree'[c].applied : Chunk(i) = (chunkNo' - n) % NStatsChunks
      BY CountedNext
    <3>2. tree'[c].applied = k + 1 /\ active' = active
      BY <1>1, <1>3
    <3> QED
      BY <1>6, <1>11, <3>1, <3>2
  <2> HIDE DEF now, was, k
  <2>5. ASSUME NEW i
        PROVE  (\E n \in 1 .. k + 1 : Chunk(i) = (chunkNo' - n) % NStatsChunks) <=>
                    \/ Chunk(i) = chunkNo
                    \/ \E n \in 1 .. k : Chunk(i) = (chunkNo - n) % NStatsChunks
    <3>1. /\ (chunkNo' - 1) % NStatsChunks = chunkNo
          /\ \A n \in 1 .. NStatsChunks - 1 : (chunkNo' - (n + 1)) % NStatsChunks = (chunkNo - n) % NStatsChunks
      BY <1>1, <1>2, ChunkOrder
    <3>2. \A n \in 1 .. k : n \in 1 .. NStatsChunks - 1 /\ n + 1 \in 1 .. k + 1
      BY <2>1, TreeAssumption
    <3>3. \A n \in 1 .. k + 1 : n = 1 \/ (n - 1 \in 1 .. k /\ (n - 1) + 1 = n)
      BY <2>1
    <3>4. 1 \in 1 .. k + 1
      BY <2>1
    <3> QED
      BY <3>1, <3>2, <3>3, <3>4
  <2>6. Counted(c)' = was \cup now
    <3>1. ASSUME NEW s PROVE s \in Counted(c)' <=> s \in was \/ s \in now
      BY <2>2, <2>3, <2>4, <2>5, ZenonT(40)
    <3> QED
      BY <3>1
  <2>7. was \cap now = {}
    <3>1. SUFFICES ASSUME NEW s \in was, s \in now PROVE FALSE
      OBVIOUS
    <3>2. PICK i \in active : s = SampleAt(i) /\ \E n \in 1 .. k : Chunk(i) = (chunkNo - n) % NStatsChunks
      BY <2>2
    <3>3. PICK j \in active : s = SampleAt(j) /\ Chunk(j) = chunkNo
      BY <2>3, <3>1
    <3>4. i = j
      <4>1. SampleAt(i).at = i /\ SampleAt(j).at = j
        BY SampleFields
      <4> QED
        BY <3>2, <3>3, <4>1
    <3>5. PICK n \in 1 .. k : chunkNo = (chunkNo - n) % NStatsChunks
      BY <3>2, <3>3, <3>4
    <3>6. n \in 1 .. NStatsChunks - 1
      BY <2>1, TreeAssumption
    <3> QED
      BY <1>2, <3>5, <3>6, ChunkOrder
  <2>8. IsFiniteSet(was)
    BY <1>8, CountedFacts DEF was
  <2>9. IsFiniteSet(now)
    <3> DEFINE f == [i \in active |-> SampleAt(i)]
    <3>1. DOMAIN f = active /\ \A i \in active : f[i] = SampleAt(i)
      OBVIOUS
    <3> HIDE DEF f
    <3>2. IsFiniteSet(active)
      <4>1. active \in SUBSET Indices /\ Size \in Nat
        BY <1>8, Sizes DEF Reduced, Reduction
      <4>2. IsFiniteSet(0 .. Size - 1)
        BY <4>1, FS_Interval
      <4> QED
        BY <4>1, <4>2, FS_Subset DEF Indices
    <3>3. IsFiniteSet({f[i] : i \in DOMAIN f})
      BY <3>1, <3>2, Image
    <3>4. now \in SUBSET {f[i] : i \in DOMAIN f}
      BY <2>3, <3>1
    <3> QED
      BY <3>3, <3>4, FS_Subset
  <2>10. \A samples : ApplyData(StatsCollector, samples).stats = Counts(StatsCollector, samples)
    <3>1. DOMAIN StatsCollector = {"kind", "applied", "stats"}
      BY DEF StatsCollector
    <3> QED
      BY <3>1, Applied
  <2> DEFINE node == tree[c]
  <2>11. node.stats = Counts(StatsCollector, was)
    BY <2>1, <2>10
  <2> HIDE DEF node
  <2>12. Counts(node, now) = Counts(StatsCollector, was \cup now)
    BY <2>7, <2>8, <2>9, <2>11, CountsAdd
  <2>13. tree'[c].stats = ApplyData(StatsCollector, Counted(c)').stats
    BY <1>3, <2>6, <2>10, <2>12 DEF node, now
  <2>14. /\ DOMAIN tree'[c] = {"kind", "applied", "stats"} /\ tree'[c].applied = k + 1
    BY <1>3 DEF k
  <2> QED
    BY <1>1, <2>1, <2>13, <2>14, TreeAssumption DEF CollectorOK
<1>14. chunkNo' \in 0 .. NStatsChunks - 1
  BY <1>1, <1>2, ChunkOrder
<1>15. Collecting'
  BY <1>1, <1>3, <1>6, <1>7, <1>12, <1>13, <1>14 DEF Collecting
<1> QED
  BY <1>1, <1>15 DEF Grown, Untouched, Collected, Encoding, Early

(* A collector that was given no sample has counted nothing.                *)
LEMMA NewCollector ==
    ASSUME NEW c, tree'[c] = StatsCollector, phase' = "stats"
    PROVE  CollectorOK(c)'
<1>1. tree'[c].applied = 0 /\ DOMAIN tree'[c] = {"kind", "applied", "stats"} /\ tree'[c].stats = StatsCollector.stats
  BY DEF StatsCollector
<1>2. Counted(c)' = {}
  BY <1>1, CountedNext
<1>3. ApplyData(StatsCollector, {}).stats = StatsCollector.stats
  <2>1. DOMAIN StatsCollector = {"kind", "applied", "stats"}
    BY DEF StatsCollector
  <2> QED
    BY <2>1, Applied, NothingCounted
<1> QED
  BY <1>1, <1>2, <1>3, TreeAssumption DEF CollectorOK

(* Nothing is marked as done with before the tree is grown.                 *)
LEMMA NotHandled ==
    ASSUME Reduction, phase = "replace", NEW i \in Indices
    PROVE  data[i].handled = FALSE
<1>1. Clearing /\ Recorded /\ Setup
  BY DEF Reduction
<1>2. truth[i] = Info(i) /\ DOMAIN Info(i) = {"wdl", "capt", "handled"}
  BY <1>1, InfoFacts DEF Recorded, InfoFields
<1>3. Info(i).handled = FALSE
  <2> DEFINE c == WdlBestCapture(position[i].pos)
             v == WhiteValue(position[i].pos)
  <2>1. \/ Info(i) = [NoInfo EXCEPT !.wdl = Invalid]
        \/ Info(i) = [NoInfo EXCEPT !.wdl = GameEnd]
        \/ Info(i) = [[NoInfo EXCEPT !.capt = c] EXCEPT !.wdl =
                        IF Probed([NoInfo EXCEPT !.capt = c], position[i].pos.wtm) THEN v ELSE [NoInfo EXCEPT !.capt = c].capt]
    BY DEF Info, InfoOf
  <2> HIDE DEF c, v
  <2> QED
    BY <2>1 DEF NoInfo
<1>4. Marked(i).handled = FALSE
  BY <1>2, <1>3 DEF Marked
<1>5. Left(i) \/ data[i] = Marked(i)
  BY <1>1 DEF Clearing
<1> QED
  BY <1>2, <1>3, <1>4, <1>5 DEF Left, NoInfo

LEMMA BeginStep == ASSUME Reduction, Grown, DontCaresReplaced PROVE Grown'
<1>1. /\ phase = "replace" /\ phase' = "stats" /\ UNCHANGED <<data, active, tree, chunkNo>>
  BY DEF DontCaresReplaced
<1>2. tree = [path \in {<<>>} |-> StatsCollector] /\ chunkNo = 0
  BY <1>1 DEF Grown, Untouched, Early
<1>3. DOMAIN tree = {<<>>} /\ tree[<<>>] = StatsCollector /\ StatsCollector.kind = "collector"
  BY <1>2 DEF StatsCollector
<1>4. Shape(tree)
  <2>1. IsFiniteSet({<<>>})
    BY FS_Singleton
  <2>2. ~IsPredicate(tree, <<>>) /\ <<>> \in Seq(BOOLEAN) /\ Len(<<>>) = 0
    BY <1>3 DEF IsPredicate
  <2> QED
    BY <1>3, <2>1, <2>2, TreeAssumption DEF Shape
<1>5. Nodes(tree)
  <2>1. Len(<<>>) = 0
    OBVIOUS
  <2> QED
    BY <1>3, <2>1, TreeAssumption DEF Nodes
<1>6. \A c \in Collectors(tree') : CollectorOK(c)'
  <2>1. \A c \in Collectors(tree') : tree'[c] = StatsCollector
    BY <1>1, <1>3 DEF Collectors, NodesOf
  <2> QED
    BY <1>1, <2>1, NewCollector
<1>7. ASSUME NEW i \in active' PROVE DoneWith(i)'
  <2>1. i \in Indices
    BY <1>1 DEF DontCaresReplaced, Reduction, Clearing
  <2>2. data'[i].handled = FALSE
    BY <1>1, <2>1, NotHandled
  <2> QED
    BY <2>2 DEF DoneWith
<1>8. Collecting'
  BY <1>1, <1>2, <1>4, <1>5, <1>6, <1>7, TreeAssumption DEF Collecting
<1> QED
  BY <1>1, <1>8 DEF Grown, Untouched, Collected, Encoding, Early

(* Replacing collectors keeps the positions of the other leaves.            *)
LEMMA KeptLeaf ==
    ASSUME NEW tr, NEW new, NEW chosen, Shape(tr), Shape(new), \A c \in chosen : ~IsPredicate(tr, c),
           \A path \in DOMAIN tr \ chosen : path \in DOMAIN new /\ new[path] = tr[path],
           NEW path \in DOMAIN tr \ chosen, ~IsPredicate(tr, path)
    PROVE  \A holds : Leaf(new, holds) = path <=> Leaf(tr, holds) = path
<1>1. path \in DOMAIN new /\ new[path] = tr[path] /\ ~IsPredicate(new, path)
  BY DEF IsPredicate
<1>2. ASSUME NEW n \in 0 .. Len(path) - 1
      PROVE  new[SubSeq(path, 1, n)].pred = tr[SubSeq(path, 1, n)].pred
  <2> DEFINE q == SubSeq(path, 1, n)
  <2>1. IsPredicate(tr, q)
    BY DEF Shape
  <2> HIDE DEF q
  <2>2. q \in DOMAIN tr \ chosen
    BY <2>1 DEF IsPredicate
  <2>3. new[q] = tr[q]
    BY <2>2
  <2> QED
    BY <2>3 DEF q
<1> QED
  BY <1>1, <1>2, SameLeaf

(* What is replaced, and where the tree may grow on.                        *)
LEMMA Selected ==
    ASSUME SelectBestPreds
    PROVE  \E chosen, pred, grown :
             /\ chosen \in SUBSET Collectors(tree) /\ pred \in [chosen -> Preds] /\ MustReplace \subseteq chosen
             /\ Deepens(grown, chosen) /\ tree' = Replaced(tree, pred, grown)
<1>1. PICK chosen \in Selections : \E pred \in [chosen -> Preds] :
          \E grown \in SUBSET NextCollectors(chosen) : tree' = Replaced(tree, pred, grown)
  BY DEF SelectBestPreds
<1>2. PICK pred \in [chosen -> Preds], grown \in SUBSET NextCollectors(chosen) : tree' = Replaced(tree, pred, grown)
  BY <1>1
<1>3. chosen \in SUBSET Collectors(tree) /\ MustReplace \subseteq chosen
  BY DEF Selections, MustReplace
<1>4. \A path \in NextCollectors(chosen) : \E c \in chosen, b \in BOOLEAN : MayGrow(c) /\ path = Append(c, b)
  <2>1. \A path \in NextCollectors(chosen) : \E c \in Growable(chosen), b \in BOOLEAN : path = Append(c, b)
    BY DEF NextCollectors
  <2> QED
    BY <2>1 DEF Growable
<1> QED
  BY <1>2, <1>3, <1>4 DEF Deepens, MayGrow

(* Collectors that stay have not seen all samples, and new ones have seen   *)
(* none; positions that were done with stay in their leaves.                *)
LEMMA SelectStep == ASSUME Reduction, Grown, SelectBestPreds PROVE Grown'
<1>1. /\ phase = "select" /\ UNCHANGED <<position, data, active, chunkNo>>
      /\ phase' = IF Collectors(tree') # {} THEN "stats" ELSE "simplify"
  BY DEF SelectBestPreds
<1>2. /\ Shape(tree) /\ Nodes(tree) /\ chunkNo \in 0 .. NStatsChunks - 1
      /\ \A c \in Collectors(tree) : CollectorOK(c)
      /\ \A i \in active : DoneWith(i)
  BY <1>1 DEF Grown, Collecting, Growing
<1>3. PICK chosen, pred, grown :
        /\ chosen \in SUBSET Collectors(tree) /\ pred \in [chosen -> Preds] /\ MustReplace \subseteq chosen
        /\ Deepens(grown, chosen) /\ tree' = Replaced(tree, pred, grown)
  BY Selected
<1>4. \A c : c \in Collectors(tree) <=> c \in DOMAIN tree /\ tree[c].kind = "collector"
  BY DEF Collectors, NodesOf
<1>5. ASSUME NEW c \in chosen PROVE Ready(tree[c]) /\ ~IsPredicate(tree, c)
  <2> DEFINE was == Counted(c)
  <2>1. /\ tree[c].applied \in Nat \ {0}
        /\ tree[c].stats = ApplyData(StatsCollector, was).stats
    BY <1>1, <1>2, <1>3 DEF CollectorOK
  <2>2. DOMAIN StatsCollector = {"kind", "applied", "stats"}
    BY DEF StatsCollector
  <2>3. IsFiniteSet(was)
    BY <1>1, CountedFacts DEF Growth
  <2> HIDE DEF was
  <2>4. tree[c].stats = Counts(StatsCollector, was)
    BY <2>1, <2>2, Applied
  <2>5. \A p \in Preds, b \in BOOLEAN : tree[c].stats[p][b] \in [WdlVals -> Int]
    BY <2>3, <2>4, CountsAreInt
  <2> QED
    BY <1>3, <1>4, <2>1, <2>5 DEF Ready, IsPredicate
<1> DEFINE new == tree'
<1>6. new = Replaced(tree, pred, grown)
  BY <1>3
<1> HIDE DEF new
<1>7. /\ Shape(new) /\ Nodes(new)
      /\ \A path \in DOMAIN tree \ chosen : path \in DOMAIN new /\ new[path] = tree[path]
      /\ \A c \in Collectors(new) : c \in Collectors(tree) \ chosen \/ new[c] = StatsCollector
  <2>1. chosen \in SUBSET Collectors(tree) /\ pred \in [chosen -> Preds] /\ Deepens(grown, chosen)
    BY <1>3
  <2>2. Shape(tree) /\ Nodes(tree) /\ \A c \in chosen : Ready(tree[c])
    BY <1>2, <1>5
  <2> QED
    BY <1>6, <2>1, <2>2, ReplacedFacts
<1>8. ASSUME NEW path \in DOMAIN tree \ chosen, ~IsPredicate(tree, path)
      PROVE  \A holds : Leaf(new, holds) = path <=> Leaf(tree, holds) = path
  BY <1>2, <1>5, <1>7, <1>8, KeptLeaf
<1>9. \A i : HoldsAt(i)' = HoldsAt(i) /\ SampleAt(i)' = SampleAt(i)
  BY <1>1 DEF HoldsAt, SampleAt
<1>10. ASSUME NEW i \in active PROVE DoneWith(i)'
  <2> DEFINE path == Leaf(tree, HoldsAt(i))
  <2>1. DoneWith(i) /\ data' = data /\ HoldsAt(i)' = HoldsAt(i)
    BY <1>1, <1>2, <1>9
  <2>2. ASSUME data[i].handled PROVE tree'[Leaf(tree', HoldsAt(i))].kind = "stats"
    <3>1. tree[path].kind = "stats"
      BY <2>1, <2>2 DEF DoneWith
    <3>2. Ends(tree, HoldsAt(i), path)
      BY <1>2, LeafFacts
    <3>3. path \in DOMAIN tree \ chosen /\ ~IsPredicate(tree, path)
      BY <1>3, <1>4, <3>1, <3>2 DEF Ends, Followed
    <3>4. Leaf(new, HoldsAt(i)) = path /\ new[path] = tree[path]
      BY <1>7, <1>8, <3>3
    <3> QED
      BY <3>1, <3>4 DEF new
  <2> QED
    BY <2>1, <2>2 DEF DoneWith
<1>11. ASSUME phase' = "stats", NEW c \in Collectors(tree') PROVE CollectorOK(c)'
  <2>1. CASE new[c] = StatsCollector
    BY <1>11, <2>1, NewCollector DEF new
  <2>2. CASE c \in Collectors(tree) \ chosen
    <3>1. tree'[c] = tree[c] /\ ~IsPredicate(tree, c) /\ c \in DOMAIN tree \ chosen
      BY <1>4, <1>7, <2>2 DEF new, IsPredicate
    <3>2. \A holds : Leaf(tree', holds) = c <=> Leaf(tree, holds) = c
      BY <1>8, <3>1 DEF new
    <3>3. Counted(c)' = Counted(c)
      <4>1. ASSUME NEW s PROVE s \in Counted(c)' <=> s \in Counted(c)
        <5>1. s \in Counted(c) <=>
                \E i \in active : /\ s = SampleAt(i) /\ Leaf(tree, s.holds) = c
                                  /\ \E n \in 1 .. tree[c].applied : Chunk(i) = (chunkNo - n) % NStatsChunks
          BY <1>1, CountedFacts DEF Growth
        <5>2. s \in Counted(c)' <=>
                \E i \in active' : /\ s = SampleAt(i)' /\ Leaf(tree', s.holds) = c
                                   /\ \E n \in 1 .. tree'[c].applied : Chunk(i) = (chunkNo' - n) % NStatsChunks
          BY CountedNext
        <5> QED
          BY <1>1, <1>9, <3>1, <3>2, <5>1, <5>2
      <4> QED
        BY <4>1
    <3>4. /\ DOMAIN tree[c] = {"kind", "applied", "stats"} /\ tree[c].applied \in Nat
          /\ tree[c].applied <= NStatsChunks /\ tree[c].stats = ApplyData(StatsCollector, Counted(c)).stats
      BY <1>1, <1>2, <2>2 DEF CollectorOK
    <3>5. tree[c].applied # NStatsChunks
      BY <1>3, <2>2 DEF MustReplace
    <3> QED
      BY <1>11, <3>1, <3>3, <3>4, <3>5, TreeAssumption DEF CollectorOK
  <2> QED
    BY <1>7, <1>11, <2>1, <2>2 DEF new
<1>12. Collecting'
  <2>1. phase' \in Growing => phase' = "stats"
    BY <1>1 DEF Growing
  <2> QED
    BY <1>1, <1>2, <1>7, <1>10, <1>11, <2>1 DEF Collecting, new
<1>13. Collected'
  BY <1>1, <1>7 DEF Collected, new
<1> QED
  BY <1>1, <1>12, <1>13 DEF Grown, Untouched, Encoding, Early

(* Without collectors every leaf gets an encoder that has all values.       *)
LEMMA SimplifyStep == ASSUME Reduction, Grown, SimplifyAndMakeEncoders PROVE Grown'
<1>1. /\ phase = "simplify" /\ phase' = "encode" /\ UNCHANGED <<table, posIndex, active>>
      /\ code' = [i \in Indices |-> 0] /\ todo' = Batches(BatchSize)
  BY DEF SimplifyAndMakeEncoders
<1>2. PICK chosen : tree' = EncoderTree(SimplifyTree(tree, chosen))
  BY DEF SimplifyAndMakeEncoders
<1>3. Shape(tree) /\ Nodes(tree) /\ Collectors(tree) = {}
  BY <1>1 DEF Grown, Collected
<1> DEFINE simple == SimplifyTree(tree, chosen)
<1>4. Shape(simple) /\ Nodes(simple) /\ Collectors(simple) = {}
  BY <1>3, SimplifiedFacts
<1> HIDE DEF simple
<1>5. Encoders(EncoderTree(simple))
  BY <1>4, EncoderFacts
<1>6. Encoders(tree')
  BY <1>2, <1>5 DEF simple
<1>7. Indices' = Indices /\ BatchSize' = BatchSize /\ Batches(BatchSize)' = Batches(BatchSize)
  BY <1>1 DEF Indices, Size, BatchSize, Batches
<1>8. \A i \in active' : Waiting(i)'
  <2>1. active' \subseteq Indices
    BY <1>1 DEF Reduction, Reduced, Growth
  <2>2. \A i \in Indices : Home(i, BatchSize) \in Batches(BatchSize)
    BY Everywhere DEF Reduction
  <2> QED
    BY <1>1, <1>7, <2>1, <2>2 DEF Waiting, Home
<1>9. Encoding'
  BY <1>1, <1>6, <1>7, <1>8 DEF Encoding
<1> QED
  BY <1>1, <1>9 DEF Grown, Untouched, Collecting, Collected, Early, Growing

LEMMA EncodeStep == ASSUME Reduction, Grown, NEW b \in todo, EncodeValues(b) PROVE Grown'
<1>1. /\ phase = "encode" /\ phase' = "encode" /\ todo' = todo \ {b}
      /\ UNCHANGED <<table, posIndex, position, data, active, tree>>
      /\ code' = [i \in Indices |-> IF i \in Batch(b, BatchSize) \cap active THEN CodeOf(i) ELSE code[i]]
  BY DEF EncodeValues, CodeOf
<1>2. /\ Encoders(tree) /\ DOMAIN code = Indices /\ todo \subseteq Batches(BatchSize)
      /\ \A i \in active : ~Waiting(i) => code[i] = CodeOf(i)
  BY <1>1 DEF Grown, Encoding
<1>3. /\ Indices' = Indices /\ BatchSize' = BatchSize /\ Batches(BatchSize)' = Batches(BatchSize)
      /\ \A i : Home(i, BatchSize)' = Home(i, BatchSize)
  BY <1>1, SameSetup DEF Home
<1>4. \A i : CodeOf(i)' = CodeOf(i)
  BY <1>1 DEF CodeOf, HoldsAt
<1>5. ASSUME NEW i \in active, ~Waiting(i)' PROVE code'[i] = CodeOf(i)
  <2>1. i \in Indices
    BY <1>1 DEF Reduction, Reduced, Growth
  <2>2. i \in Batch(b, BatchSize) <=> b = Home(i, BatchSize)
    BY <1>2, <2>1, Everywhere DEF Reduction
  <2>3. CASE i \in Batch(b, BatchSize)
    BY <1>1, <2>1, <2>3
  <2>4. CASE i \notin Batch(b, BatchSize)
    <3>1. ~Waiting(i)
      BY <1>1, <1>3, <1>5, <2>2, <2>4 DEF Waiting
    <3> QED
      BY <1>1, <1>2, <2>1, <2>4, <3>1
  <2> QED
    BY <2>3, <2>4
<1>6. Encoding'
  BY <1>1, <1>2, <1>3, <1>4, <1>5 DEF Encoding
<1> QED
  BY <1>1, <1>6 DEF Grown, Untouched, Collecting, Collected, Early, Growing

LEMMA EncodedStep == ASSUME Reduction, Grown, ValuesEncoded PROVE Grown'
<1>1. /\ phase = "encode" /\ todo = {} /\ phase' = "done"
      /\ UNCHANGED <<table, posIndex, position, data, active, tree, code>>
  BY DEF ValuesEncoded
<1>2. /\ Encoders(tree) /\ DOMAIN code = Indices
      /\ \A i \in active : code[i] = CodeOf(i)
  BY <1>1 DEF Grown, Encoding, Waiting
<1>3. Indices' = Indices /\ \A i : CodeOf(i)' = CodeOf(i)
  BY <1>1, SameSetup DEF CodeOf, HoldsAt
<1>4. Encoding'
  BY <1>1, <1>2, <1>3 DEF Encoding
<1> QED
  BY <1>1, <1>4 DEF Grown, Untouched, Collecting, Collected, Early, Growing

LEMMA SameGrown == ASSUME Grown, UNCHANGED vars PROVE Grown'
<1>1. UNCHANGED <<table, posIndex, position, data, active, tree, chunkNo, code, phase, todo>>
  BY DEF vars
<1>2. /\ \A i : HoldsAt(i)' = HoldsAt(i) /\ SampleAt(i)' = SampleAt(i) /\ CodeOf(i)' = CodeOf(i)
      /\ Indices' = Indices /\ BatchSize' = BatchSize /\ Batches(BatchSize)' = Batches(BatchSize)
      /\ \A i : Waiting(i)' = Waiting(i)
  BY <1>1, SameSetup DEF HoldsAt, SampleAt, CodeOf, Waiting, Home
<1>3. \A c : Counted(c)' = Counted(c)
  BY <1>1 DEF Counted, Reaching, SampleAt, HoldsAt
<1>4. \A c : CollectorOK(c)' <=> CollectorOK(c)
  BY <1>1, <1>3 DEF CollectorOK
<1>5. \A i : DoneWith(i)' <=> DoneWith(i)
  BY <1>1, <1>2 DEF DoneWith
<1>6. Collecting'
  BY <1>1, <1>4, <1>5 DEF Grown, Collecting
<1>7. Encoding'
  BY <1>1, <1>2 DEF Grown, Encoding
<1> QED
  BY <1>1, <1>6, <1>7 DEF Grown, Untouched, Collected

LEMMA GrownNext == ASSUME Reduction, Grown, [Next]_vars PROVE Grown'
<1>1. ASSUME phase' \in Early, phase \in Early, UNCHANGED <<tree, chunkNo>> PROVE Grown'
  BY <1>1 DEF Grown, Untouched, Collecting, Collected, Encoding, Early, Growing
<1>2. CASE Start
  BY <1>1, <1>2 DEF Start, Early
<1>3. ASSUME NEW b \in todo, InitializeData(b) PROVE Grown'
  BY <1>1, <1>3 DEF InitializeData, Early
<1>4. ASSUME NEW b \in todo, ComputeOptimalCaptures(b) PROVE Grown'
  BY <1>1, <1>4 DEF ComputeOptimalCaptures, Early
<1>5. ASSUME NEW b \in todo, EncodeValues(b) PROVE Grown'
  BY <1>5, EncodeStep
<1>6. ASSUME NEW b \in DOMAIN writer, LoadWord(b) PROVE Grown'
  BY <1>1, <1>6 DEF LoadWord, Early
<1>7. ASSUME NEW b \in DOMAIN writer, ReplaceDontCares(b) PROVE Grown'
  BY <1>1, <1>7 DEF ReplaceDontCares, Early
<1>8. CASE DataInitialized
  BY <1>1, <1>8 DEF DataInitialized, Early
<1>9. CASE CapturesComputed
  BY <1>1, <1>9 DEF CapturesComputed, Early
<1>10. CASE DontCaresReplaced
  BY <1>10, BeginStep
<1>11. CASE UpdateStats
  BY <1>11, SampleStep
<1>12. CASE SelectBestPreds
  BY <1>12, SelectStep
<1>13. CASE SimplifyAndMakeEncoders
  BY <1>13, SimplifyStep
<1>14. CASE ValuesEncoded
  BY <1>14, EncodedStep
<1>15. CASE UNCHANGED vars
  BY <1>15, SameGrown
<1>16. Terminated => UNCHANGED vars
  BY DEF Terminated
<1> QED
  BY <1>2, <1>3, <1>4, <1>5, <1>6, <1>7, <1>8, <1>9, <1>10, <1>11, <1>12, <1>13, <1>14, <1>15, <1>16
  DEF Next

LEMMA GrownInit == ASSUME Init PROVE Grown
  BY DEF Init, Grown, Untouched, Collecting, Collected, Encoding, Early, Growing

(* A value and the best capture agree for the side to move.                 *)
LEMMA CanBeHad ==
    ASSUME Reduction, phase = "done", NEW i \in active
    PROVE  /\ truth[i].wdl \in WdlVals /\ data[i].wdl = truth[i].wdl
           /\ CanHave(truth[i].wdl, position[i].pos.wtm, data[i].capt)
<1>1. /\ Setup /\ i \in Indices /\ Kept(i) /\ truth[i] = Info(i)
      /\ data[i].wdl = truth[i].wdl /\ data[i].capt = truth[i].capt
  BY DEF Reduction, Reduced, Recorded, Growth
<1>2. IsValue(Info(i))
  BY <1>1 DEF Kept
<1>3. /\ Info(i).wdl \in WdlVals /\ Info(i).capt \in WdlVals
      /\ IF Wtm(i) THEN Info(i).capt <= Info(i).wdl ELSE Info(i).wdl <= Info(i).capt
  BY <1>1, <1>2, InfoFacts DEF IsValue
<1> QED
  BY <1>1, <1>3 DEF CanHave, Wtm, WdlVals

(* Two positions of the same leaf are encoded with one table, in which      *)
(* their values have different places.                                      *)
LEMMA CodesDiffer ==
    ASSUME Reduction, Grown, phase = "done", NEW i \in active, NEW j \in active,
           Leaf(tree, HoldsAt(i)) = Leaf(tree, HoldsAt(j)), position[i].pos.wtm = position[j].pos.wtm,
           data[i].capt = data[j].capt, truth[i].wdl # truth[j].wdl,
           truth[i].wdl # BlessedLoss, truth[j].wdl # BlessedLoss
    PROVE  code[i] # code[j]
<1> DEFINE path == Leaf(tree, HoldsAt(i))
<1>1. Encoders(tree) /\ code[i] = CodeOf(i) /\ code[j] = CodeOf(j)
  BY DEF Grown, Encoding
<1>2. Ranking(tree[path].table)
  <2>1. Ends(tree, HoldsAt(i), path)
    BY <1>1, LeafFacts DEF Encoders
  <2> QED
    BY <1>1, <2>1 DEF Encoders, Ends, Followed
<1>3. /\ truth[i].wdl \in WdlVals /\ data[i].wdl = truth[i].wdl
      /\ CanHave(truth[i].wdl, position[i].pos.wtm, data[i].capt)
      /\ truth[j].wdl \in WdlVals /\ data[j].wdl = truth[j].wdl
      /\ CanHave(truth[j].wdl, position[i].pos.wtm, data[i].capt)
  BY CanBeHad
<1> DEFINE tb == tree[path].table
           x == truth[i].wdl
           y == truth[j].wdl
           wtm == position[i].pos.wtm
           capt == data[i].capt
<1>4. EncodeValue(tb, wtm, capt, x) = code[i] /\ EncodeValue(tb, wtm, capt, y) = code[j]
  BY <1>1, <1>3 DEF CodeOf
<1>5. /\ Ranking(tb) /\ x \in WdlVals /\ y \in WdlVals /\ x # y /\ x # BlessedLoss /\ y # BlessedLoss
      /\ CanHave(x, wtm, capt) /\ CanHave(y, wtm, capt)
  BY <1>2, <1>3
<1> HIDE DEF tb, x, y, wtm, capt
<1>6. EncodeValue(tb, wtm, capt, x) # EncodeValue(tb, wtm, capt, y)
  BY <1>5, DifferentCodes
<1> QED
  BY <1>4, <1>6

(* Every collector has counted what it was given, and every value that is   *)
(* encoded has the code that its leaf's table gives it.                     *)
THEOREM CountingAndCoding == Spec => []Grown
<1>1. Init => Grown
  BY GrownInit
<1>2. Reduction /\ Grown /\ [Next]_vars => Grown'
  BY GrownNext
<1> QED
  BY <1>1, <1>2, Inductive, PTL DEF Spec

(* The counts that the tree is grown from are exact, and positions that a   *)
(* reader of the table cannot tell apart have different codes if their      *)
(* values differ, for every tree that the choices of predicates can grow.   *)
THEOREM TreeFaithful == Spec => []TreeIsFaithful
<1>1. ASSUME Grown PROVE CollectorsExact
  <2>1. ASSUME phase \in Growing, NEW c \in Collectors(tree)
        PROVE  tree[c].applied <= NStatsChunks /\ tree[c].stats = ApplyData(StatsCollector, Counted(c)).stats
    <3>1. CollectorOK(c)
      BY <1>1, <2>1 DEF Grown, Collecting
    <3> QED
      BY <3>1, TreeAssumption DEF CollectorOK
  <2> QED
    BY <2>1 DEF CollectorsExact, Growing
<1>2. ASSUME Reduction, Grown PROVE Decodable
  <2>1. ASSUME phase = "done", NEW x \in Encoded, NEW y \in Encoded, x.seen = y.seen, x.value # y.value,
               BlessedLoss \notin {x.value, y.value}
        PROVE  x.code # y.code
    <3> DEFINE E(i) == [seen |-> <<Leaf(tree, HoldsAt(i)), position[i].pos.wtm, data[i].capt>>,
                        value |-> truth[i].wdl, code |-> code[i]]
    <3>1. PICK i \in active, j \in active : x = E(i) /\ y = E(j)
      BY Zenon DEF Encoded
    <3>2. /\ Leaf(tree, HoldsAt(i)) = Leaf(tree, HoldsAt(j)) /\ position[i].pos.wtm = position[j].pos.wtm
          /\ data[i].capt = data[j].capt /\ truth[i].wdl # truth[j].wdl
          /\ truth[i].wdl # BlessedLoss /\ truth[j].wdl # BlessedLoss
          /\ x.code = code[i] /\ y.code = code[j]
      BY <2>1, <3>1
    <3> QED
      BY <1>2, <2>1, <3>2, CodesDiffer
  <2> QED
    BY <2>1 DEF Decodable
<1> QED
  BY <1>1, <1>2, Inductive, CountingAndCoding, PTL DEF TreeIsFaithful

(***************************************************************************)
(* Every step leads nearer to the end.                                     *)
(***************************************************************************)
LEMMA LaterPhases ==
    /\ Later("start", "initialize") /\ Later("initialize", "captures") /\ Later("captures", "replace")
    /\ Later("replace", "stats") /\ Later("select", "simplify") /\ Later("simplify", "encode")
    /\ Later("encode", "done")
<1>1. DOMAIN Phases = 1 .. 9
  BY DEF Phases
<1>2. /\ Phases[1] = "start" /\ Phases[2] = "initialize" /\ Phases[3] = "captures" /\ Phases[4] = "replace"
      /\ Phases[5] = "stats" /\ Phases[6] = "select" /\ Phases[7] = "simplify" /\ Phases[8] = "encode"
      /\ Phases[9] = "done"
  BY DEF Phases
<1>3. /\ 1 \in 1 .. 9 /\ 2 \in 1 .. 9 /\ 3 \in 1 .. 9 /\ 4 \in 1 .. 9 /\ 5 \in 1 .. 9 /\ 6 \in 1 .. 9
      /\ 7 \in 1 .. 9 /\ 8 \in 1 .. 9 /\ 9 \in 1 .. 9
      /\ 1 < 2 /\ 2 < 3 /\ 3 < 4 /\ 4 < 5 /\ 6 < 7 /\ 7 < 8 /\ 8 < 9
  OBVIOUS
<1> HIDE DEF Phases
<1> QED
  BY <1>1, <1>2, <1>3, Zenon DEF Later

(* The tree is grown only while there are collectors.                       *)
SomeCollector == phase = "stats" => Collectors(tree) # {}

LEMMA SomeCollectorNext == ASSUME Grown, SomeCollector, [Next]_vars PROVE SomeCollector'
<1>1. ASSUME phase' # "stats" PROVE SomeCollector'
  BY <1>1 DEF SomeCollector
<1>2. CASE UNCHANGED vars
  BY <1>2 DEF SomeCollector, vars
<1>3. CASE DontCaresReplaced
  <2>1. phase = "replace" /\ tree' = tree
    BY <1>3 DEF DontCaresReplaced
  <2>2. tree = [path \in {<<>>} |-> StatsCollector]
    BY <2>1 DEF Grown, Untouched, Early
  <2>3. <<>> \in Collectors(tree)
    BY <2>2 DEF Collectors, NodesOf, StatsCollector
  <2> QED
    BY <2>1, <2>3 DEF SomeCollector
<1>4. CASE SelectBestPreds
  BY <1>4 DEF SelectBestPreds, SomeCollector
<1>5. CASE Start
  BY <1>1, <1>5 DEF Start
<1>6. ASSUME NEW b \in todo, InitializeData(b) \/ ComputeOptimalCaptures(b) \/ EncodeValues(b)
      PROVE  SomeCollector'
  BY <1>1, <1>6 DEF InitializeData, ComputeOptimalCaptures, EncodeValues
<1>7. ASSUME NEW b \in DOMAIN writer, LoadWord(b) \/ ReplaceDontCares(b) PROVE SomeCollector'
  BY <1>1, <1>7 DEF LoadWord, ReplaceDontCares
<1>8. CASE DataInitialized \/ CapturesComputed \/ UpdateStats \/ SimplifyAndMakeEncoders \/ ValuesEncoded
  BY <1>1, <1>8 DEF DataInitialized, CapturesComputed, UpdateStats, SimplifyAndMakeEncoders, ValuesEncoded
<1>9. CASE Terminated
  BY <1>2, <1>9 DEF Terminated
<1> QED
  BY <1>2, <1>3, <1>4, <1>5, <1>6, <1>7, <1>8, <1>9 DEF Next

LEMMA TreePath ==
    /\ \A path \in Seq(BOOLEAN) : Len(path) < MaxDepth => path \in TreePaths
    /\ \A path \in TreePaths : path \in Seq(BOOLEAN) /\ Len(path) \in Nat
<1>1. ASSUME NEW path \in Seq(BOOLEAN), Len(path) < MaxDepth PROVE path \in TreePaths
  <2>1. Len(path) \in 0 .. MaxDepth - 1 /\ path \in [1 .. Len(path) -> BOOLEAN]
    BY <1>1, LenProperties, TreeAssumption
  <2> QED
    BY <2>1 DEF TreePaths
<1>2. ASSUME NEW path \in TreePaths PROVE path \in Seq(BOOLEAN) /\ Len(path) \in Nat
  <2>1. PICK n \in 0 .. MaxDepth - 1 : path \in [1 .. n -> BOOLEAN]
    BY <1>2 DEF TreePaths
  <2>2. n \in Nat
    OBVIOUS
  <2>3. path \in Seq(BOOLEAN)
    BY <2>1, <2>2, SeqDef
  <2> QED
    BY <2>3, LenProperties
<1> QED
  BY <1>1, <1>2

(* No collector is below another, because it has no children.               *)
LEMMA Separately ==
    ASSUME NEW tr, Shape(tr), NEW c \in Collectors(tr), NEW d \in Collectors(tr), IsPrefix(d, c)
    PROVE  d = c
<1>1. /\ c \in DOMAIN tr /\ d \in DOMAIN tr /\ tr[d].kind = "collector"
  BY DEF Collectors, NodesOf
<1>2. SUFFICES ASSUME d # c PROVE FALSE
  OBVIOUS
<1>3. c \in Below(tr, d) \ {d}
  BY <1>1, <1>2 DEF Below
<1>4. Len(d) < Len(c) /\ d = SubSeq(c, 1, Len(d)) /\ Len(d) \in Nat /\ Len(c) \in Nat
  BY <1>1, <1>3, PrefixOf
<1>5. IsPredicate(tr, SubSeq(c, 1, Len(d)))
  BY <1>1, <1>4 DEF Shape
<1> QED
  BY <1>1, <1>4, <1>5 DEF IsPredicate

(* Each collector is given a sample, which it cannot be given again.        *)
LEMMA FewerSamples ==
    ASSUME Grown, SomeCollector, UpdateStats
    PROVE  Fewer(SamplesToCome', SamplesToCome)
<1>1. /\ phase = "stats" /\ Shape(tree) /\ Nodes(tree)
      /\ \A c \in Collectors(tree) : CollectorOK(c)
  BY DEF UpdateStats, Grown, Collecting, Growing
<1>2. /\ Collectors(tree') = Collectors(tree)
      /\ \A c \in Collectors(tree) : tree'[c].applied = tree[c].applied + 1
  BY <1>1, SampledNodes DEF CollectorOK
<1>3. \A c \in Collectors(tree) : tree[c].applied \in Nat /\ tree[c].applied < NStatsChunks
  BY <1>1 DEF CollectorOK
<1>4. ASSUME NEW path, NEW k \in 0 .. NStatsChunks - 1, MayCollect(path, k)' PROVE MayCollect(path, k)
  BY <1>2, <1>3, <1>4, TreeAssumption DEF MayCollect
<1>5. SamplesToCome' \subseteq SamplesToCome
  BY <1>4 DEF SamplesToCome
<1>6. PICK c \in Collectors(tree) : TRUE
  BY <1>1 DEF SomeCollector
<1>k. PICK k \in 0 .. NStatsChunks - 1 : k = tree[c].applied
  BY <1>3, TreeAssumption
<1>7. c \in TreePaths
  <2>1. c \in DOMAIN tree /\ tree[c].kind = "collector"
    BY <1>6 DEF Collectors, NodesOf
  <2>2. c \in Seq(BOOLEAN) /\ Len(c) < MaxDepth
    BY <1>1, <2>1 DEF Shape, Nodes
  <2> QED
    BY <1>3, <1>6, <2>2, TreePath, TreeAssumption
<1>8. IsPrefix(c, c)
  BY DEF IsPrefix
<1>9. MayCollect(c, k)
  BY <1>k, <1>8 DEF MayCollect
<1>10. ~MayCollect(c, k)'
  <2>1. ASSUME NEW d \in Collectors(tree'), IsPrefix(d, c), c = d => tree'[d].applied <= k PROVE FALSE
    <3>1. d = c
      BY <1>1, <1>2, <2>1, Separately
    <3> QED
      BY <1>2, <1>3, <1>k, <2>1, <3>1
  <2> QED
    BY <2>1 DEF MayCollect
<1>11. <<c, k>> \in SamplesToCome /\ <<c, k>> \notin SamplesToCome'
  BY <1>7, <1>9, <1>10 DEF SamplesToCome
<1> QED
  BY <1>5, <1>11 DEF Fewer

(* A collector after a selection was one before, or is a child of one.      *)
LEMMA NewCollectors ==
    ASSUME NEW tr, Shape(tr), NEW chosen \in SUBSET Collectors(tr), NEW pred \in [chosen -> Preds],
           NEW grown, NEW new, new = Replaced(tr, pred, grown)
    PROVE  \A c \in Collectors(new) :
             \/ c \in Collectors(tr) /\ new[c] = tr[c]
             \/ \E d \in chosen, b \in BOOLEAN : c = Append(d, b)
<1>1. DOMAIN pred = chosen /\ Split(tr, pred) \subseteq chosen
  BY DEF Split
<1>2. \A d \in chosen : /\ d \in DOMAIN tr /\ tr[d].kind = "collector" /\ d \in Seq(BOOLEAN) /\ Len(d) \in Nat
  <2>1. \A d \in chosen : d \in DOMAIN tr /\ tr[d].kind = "collector"
    BY DEF Collectors, NodesOf
  <2> QED
    BY <2>1, LenProperties DEF Shape
<1>3. \A path \in Children(tr, pred) : \E d \in chosen, b \in BOOLEAN : path = Append(d, b)
  BY <1>1 DEF Children
<1>4. Children(tr, pred) \cap DOMAIN pred = {}
  <2>1. ASSUME NEW d \in chosen, NEW b \in BOOLEAN, NEW c \in chosen, c = Append(d, b) PROVE FALSE
    <3>1. SubSeq(c, 1, Len(d)) = d /\ Len(c) = Len(d) + 1 /\ Len(d) \in 0 .. Len(c) - 1
      BY <1>2, <2>1, Child
    <3>2. IsPredicate(tr, SubSeq(c, 1, Len(d)))
      BY <1>2, <3>1 DEF Shape
    <3> QED
      BY <1>2, <3>1, <3>2 DEF IsPredicate
  <2> QED
    BY <1>1, <1>3, <2>1
<1>5. /\ DOMAIN new = DOMAIN tr \cup Children(tr, pred)
      /\ \A path \in DOMAIN tr \cup Children(tr, pred) : new[path] = NewNode(tr, pred, grown, path)
  BY <1>4, ReplacedNodes
<1>6. ASSUME NEW c \in Collectors(new), c \notin Children(tr, pred)
      PROVE  c \in Collectors(tr) /\ new[c] = tr[c]
  <2>1. c \in DOMAIN new /\ new[c].kind = "collector"
    BY <1>6 DEF Collectors, NodesOf
  <2>2. c \in DOMAIN tr /\ new[c] = NewNode(tr, pred, grown, c)
    BY ONLY <1>5, <1>6, <2>1
  <2>3. c \notin Split(tr, pred)
    <3>1. SUFFICES ASSUME c \in Split(tr, pred) PROVE FALSE
      OBVIOUS
    <3>2. new[c] = PredicateNode(pred[c])
      BY <1>6, <2>2, <3>1 DEF NewNode
    <3>3. PredicateNode(pred[c]).kind = "predicate"
      BY DEF PredicateNode
    <3> QED
      BY <2>1, <3>2, <3>3
  <2>4. c \notin DOMAIN pred
    BY <1>6, <2>1, <2>2, <2>3 DEF NewNode, StatsNode
  <2>5. new[c] = tr[c]
    BY <1>6, <2>2, <2>3, <2>4 DEF NewNode
  <2> QED
    BY <2>1, <2>2, <2>5 DEF Collectors, NodesOf
<1> QED
  BY <1>3, <1>6

(* What is below a child is below its parent, and is not the parent.        *)
LEMMA BelowChild ==
    ASSUME NEW d \in Seq(BOOLEAN), NEW b \in BOOLEAN, NEW path \in Seq(BOOLEAN), IsPrefix(Append(d, b), path)
    PROVE  IsPrefix(d, path) /\ path # d
<1> DEFINE c == Append(d, b)
           n == Len(d)
<1>1. /\ c \in Seq(BOOLEAN) /\ Len(c) = n + 1 /\ SubSeq(c, 1, n) = d /\ n \in Nat
  BY Child, LenProperties
<1> HIDE DEF c
<1>2. Len(path) \in Nat /\ n + 1 <= Len(path) /\ SubSeq(c, 1, n + 1) = SubSeq(path, 1, n + 1)
  BY <1>1, LenProperties DEF IsPrefix, c
<1>3. SubSeq(c, 1, n) = SubSeq(SubSeq(c, 1, n + 1), 1, n)
  <2>1. n + 1 \in 0 .. Len(c) /\ n \in 0 .. n + 1
    BY <1>1
  <2> QED
    BY <1>1, <2>1, PrefixFacts
<1>4. SubSeq(path, 1, n) = SubSeq(SubSeq(path, 1, n + 1), 1, n)
  <2>1. n + 1 \in 0 .. Len(path) /\ n \in 0 .. n + 1
    BY <1>1, <1>2
  <2> QED
    BY <2>1, PrefixFacts
<1>5. SubSeq(path, 1, n) = d /\ SubSeq(d, 1, n) = d
  <2>1. n \in 0 .. Len(d)
    BY <1>1
  <2>2. SubSeq(d, 1, n) = d
    BY <2>1, PrefixFacts
  <2> QED
    BY <1>1, <1>2, <1>3, <1>4, <2>2
<1>6. n <= Len(path) /\ n # Len(path)
  BY <1>1, <1>2
<1> HIDE DEF n
<1>7. IsPrefix(d, path)
  BY <1>5, <1>6 DEF IsPrefix, n
<1> QED
  BY <1>6, <1>7 DEF n

(* Its children take the place of a collector, and can be given no more.    *)
LEMMA NoMoreSamples ==
    ASSUME Grown, SelectBestPreds PROVE SamplesToCome' \subseteq SamplesToCome
<1>1. Shape(tree)
  BY DEF SelectBestPreds, Grown, Collecting, Growing
<1>2. PICK chosen, pred, grown :
        /\ chosen \in SUBSET Collectors(tree) /\ pred \in [chosen -> Preds]
        /\ tree' = Replaced(tree, pred, grown)
  BY Selected
<1>3. \A c \in Collectors(tree') : \/ c \in Collectors(tree) /\ tree'[c] = tree[c]
                                   \/ \E d \in chosen, b \in BOOLEAN : c = Append(d, b)
  BY <1>1, <1>2, NewCollectors
<1>4. \A d \in chosen : d \in Collectors(tree) /\ d \in Seq(BOOLEAN)
  BY <1>1, <1>2 DEF Collectors, NodesOf, Shape
<1>5. ASSUME NEW path \in TreePaths, NEW k \in 0 .. NStatsChunks - 1, MayCollect(path, k)'
      PROVE  MayCollect(path, k)
  <2>1. PICK c \in Collectors(tree') : IsPrefix(c, path) /\ (c = path => tree'[c].applied <= k)
    BY <1>5 DEF MayCollect
  <2>2. CASE c \in Collectors(tree) /\ tree'[c] = tree[c]
    BY <2>1, <2>2 DEF MayCollect
  <2>3. ASSUME NEW d \in chosen, NEW b \in BOOLEAN, c = Append(d, b) PROVE MayCollect(path, k)
    <3>1. IsPrefix(d, path) /\ path # d
      BY <1>4, <2>1, <2>3, TreePath, BelowChild
    <3> QED
      BY <1>4, <2>3, <3>1 DEF MayCollect
  <2> QED
    BY <1>3, <2>2, <2>3
<1> QED
  BY <1>5 DEF SamplesToCome

(* A word is loaded once and stored once.                                   *)
LEMMA FewerWords ==
    ASSUME Reduction, NEW b \in DOMAIN writer, LoadWord(b) \/ ReplaceDontCares(b)
    PROVE  Fewer(WordsToCome', WordsToCome)
<1>1. /\ phase = "replace" /\ Size' = Size /\ Size \in Nat /\ DOMAIN writer' = DOMAIN writer
      /\ \A x \in DOMAIN writer : x # b => writer'[x] = writer[x]
  <2>1. phase = "replace" /\ posIndex' = posIndex /\ DOMAIN writer' = DOMAIN writer
        /\ \A x \in DOMAIN writer : x # b => writer'[x] = writer[x]
    BY DEF LoadWord, ReplaceDontCares
  <2>2. Size \in Nat
    BY Sizes DEF Reduction
  <2> QED
    BY <2>1, <2>2 DEF Size
<1>2. \A x \in DOMAIN writer : writer[x].word \in Nat /\ writer[x].loaded \in BOOLEAN
  BY <1>1 DEF Reduction, Clearing, WriterOK
<1>3. InReach(b) # {} /\ DOMAIN writer[b] = {"word", "register", "loaded"}
  BY <1>1 DEF Reduction, Clearing, WriterOK, LoadWord, ReplaceDontCares
<1>4. writer[b].word \in 0 .. Size - 1
  <2>1. PICK i \in Indices : i \div ActiveWord = writer[b].word
    BY <1>3 DEF InReach, Word
  <2>2. i \in Nat /\ i < Size /\ ActiveWord \in Nat \ {0}
    BY <1>1, BatchAssumption DEF Indices
  <2>3. i \div ActiveWord <= i
    BY <2>2
  <2> QED
    BY <1>1, <1>2, <2>1, <2>2, <2>3
<1>5. CASE LoadWord(b)
  <2>1. ~writer[b].loaded /\ writer'[b].loaded = TRUE /\ writer'[b].word = writer[b].word
    BY <1>3, <1>5 DEF LoadWord
  <2>2. ASSUME NEW x \in DOMAIN writer, NEW w \in 0 .. Size - 1, NEW store \in BOOLEAN, WillWrite(x, w, store)'
        PROVE  WillWrite(x, w, store)
    BY <1>1, <2>1, <2>2, Zenon DEF WillWrite
  <2>3. WordsToCome' \subseteq WordsToCome
    BY <1>1, <2>2 DEF WordsToCome
  <2>4. WillWrite(b, writer[b].word, FALSE) /\ ~(writer'[b].loaded => FALSE)
    BY <2>1 DEF WillWrite
  <2>5. <<b, writer[b].word, FALSE>> \in WordsToCome
    BY <1>4, <2>4 DEF WordsToCome
  <2>6. <<b, writer[b].word, FALSE>> \notin WordsToCome'
    <3>1. ~(writer'[b].word < writer[b].word)
      BY <1>2, <2>1
    <3> QED
      BY <2>4, <3>1 DEF WordsToCome, WillWrite
  <2> QED
    BY <2>3, <2>5, <2>6 DEF Fewer
<1>6. CASE ReplaceDontCares(b)
  <2>1. writer[b].loaded /\ writer'[b].loaded = FALSE /\ writer'[b].word = writer[b].word + 1
    BY <1>6 DEF ReplaceDontCares, Idle
  <2>2. ASSUME NEW x \in DOMAIN writer, NEW w \in 0 .. Size - 1, NEW store \in BOOLEAN, WillWrite(x, w, store)'
        PROVE  WillWrite(x, w, store)
    <3>1. CASE x = b
      <4>1. writer[b].word < w
        BY <1>1, <1>2, <2>1, <2>2, <3>1 DEF WillWrite
      <4> QED
        BY <3>1, <4>1 DEF WillWrite
    <3>2. CASE x # b
      BY <1>1, <2>2, <3>2 DEF WillWrite
    <3> QED
      BY <3>1, <3>2
  <2>3. WordsToCome' \subseteq WordsToCome
    BY <1>1, <2>2 DEF WordsToCome
  <2>4. WillWrite(b, writer[b].word, TRUE)
    BY DEF WillWrite
  <2>5. <<b, writer[b].word, TRUE>> \in WordsToCome
    BY <1>4, <2>4 DEF WordsToCome
  <2>6. ~(writer'[b].word < writer[b].word) /\ writer'[b].word # writer[b].word
    BY <1>2, <2>1
  <2>7. <<b, writer[b].word, TRUE>> \notin WordsToCome'
    BY <2>6 DEF WordsToCome, WillWrite
  <2> QED
    BY <2>3, <2>5, <2>7 DEF Fewer
<1> QED
  BY <1>5, <1>6

LEMMA NearerStep == ASSUME Reduction, Grown, SomeCollector, [Next]_vars PROVE [Nearer]_vars
<1>1. ASSUME NEW b \in todo, InitializeData(b) \/ ComputeOptimalCaptures(b) \/ EncodeValues(b) PROVE Nearer
  <2>1. phase' = phase /\ todo' = todo \ {b}
    BY <1>1 DEF InitializeData, ComputeOptimalCaptures, EncodeValues
  <2>2. Fewer(todo', todo)
    BY <2>1 DEF Fewer
  <2> QED
    BY <2>1, <2>2 DEF Nearer
<1>2. ASSUME NEW b \in DOMAIN writer, LoadWord(b) \/ ReplaceDontCares(b) PROVE Nearer
  <2>1. phase' = phase /\ phase = "replace"
    BY <1>2 DEF LoadWord, ReplaceDontCares
  <2> QED
    BY <1>2, <2>1, FewerWords DEF Nearer
<1>3. CASE Start
  BY <1>3, LaterPhases DEF Start, Nearer, Growing
<1>4. CASE DataInitialized
  BY <1>4, LaterPhases DEF DataInitialized, Nearer, Growing
<1>5. CASE CapturesComputed
  BY <1>5, LaterPhases DEF CapturesComputed, Nearer, Growing
<1>6. CASE DontCaresReplaced
  BY <1>6, LaterPhases DEF DontCaresReplaced, Nearer, Growing
<1>7. CASE UpdateStats
  BY <1>7, FewerSamples DEF UpdateStats, Nearer
<1>8. CASE SelectBestPreds
  <2>1. phase = "select" /\ phase' \in {"stats", "simplify"}
    BY <1>8 DEF SelectBestPreds
  <2>2. CASE phase' = "stats"
    BY <1>8, <2>1, <2>2, NoMoreSamples DEF Nearer
  <2>3. CASE phase' = "simplify"
    BY <2>1, <2>3, LaterPhases DEF Nearer, Growing
  <2> QED
    BY <2>1, <2>2, <2>3
<1>9. CASE SimplifyAndMakeEncoders
  BY <1>9, LaterPhases DEF SimplifyAndMakeEncoders, Nearer, Growing
<1>10. CASE ValuesEncoded
  BY <1>10, LaterPhases DEF ValuesEncoded, Nearer, Growing
<1> QED
  BY <1>1, <1>2, <1>3, <1>4, <1>5, <1>6, <1>7, <1>8, <1>9, <1>10 DEF Next, Terminated

(* Every step of wdlDump begins a later phase or leaves less to be done in  *)
(* a loop, whatever the order of the tasks and whatever tree is grown; so   *)
(* every dump ends.                                                         *)
THEOREM DumpEnds == Spec => StepsLeadToTheEnd
<1>1. Init => Grown /\ SomeCollector
  BY GrownInit DEF Init, SomeCollector
<1>2. Grown /\ SomeCollector /\ [Next]_vars => SomeCollector'
  BY SomeCollectorNext
<1>3. Reduction /\ Grown /\ SomeCollector /\ [Next]_vars => [Nearer]_vars
  BY NearerStep
<1> QED
  BY <1>1, <1>2, <1>3, Inductive, CountingAndCoding, PTL DEF Spec, StepsLeadToTheEnd
=============================================================================
