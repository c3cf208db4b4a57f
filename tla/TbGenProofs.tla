---------------------------- MODULE TbGenProofs ----------------------------
(* Proofs about TbGen: if takebacks invert moves, as MovesInverse says of   *)
(* each batch when it is classified, then the counts and the finished table *)
(* are exact, whatever the graph, its size and the batch and block sizes.   *)
EXTENDS TbGen, FiniteSetTheorems, TLAPS

ValueKinds == {"mate", "mated", "remaining", "draw", "invalid", "uninitialized"}
Value == ValueKinds \X Nat
Sweeping == pc \in {"sweep", "next", "unmove"}

TypeOK ==
    /\ tb \in Tables
    /\ table \in [Pos -> Value]
    /\ pc \in {"classify", "count", "sweep", "next", "unmove", "done", "aborted"}
    /\ idx \in Nat /\ n \in Nat /\ modified \in BOOLEAN

(* The loop over takebacks is at a position mated in n-1.                   *)
AtMated ==
    /\ pc \in {"next", "unmove"} => n # 0
    /\ pc = "unmove" => /\ idx \in Pos /\ table[idx] = MatedIn(n - 1)
                        /\ lst \subseteq UnMoves(tb, idx)

(* MovesInverse of the batches classified so far, at last of all of them.   *)
InverseSoFar ==
    \A i \in Pos : Live(i) /\ (pc = "classify" => i < idx) /\ pc # "aborted" => InverseAt(i)

(* What classification gives an index.                                      *)
Class(i) ==
    table[i] = IF ~Valid(tb, i) THEN Invalid ELSE IF TakesKing(tb, i) THEN MateIn(0) ELSE Unknown
Classified ==
    /\ pc = "classify" => \A i \in Pos : i < idx => Class(i)
    /\ pc \in {"classify", "count"} => n = 0
    /\ pc = "count" \/ Sweeping => \A i \in Pos : ~Live(i) => Class(i)

NoMoves(i) ==
    /\ LegalMoves(i) = {}
    /\ table[i] = IF TakesKing(tb, Swap(tb, i)) THEN MatedIn(0) ELSE Draw

(* What the second pass gives a live index.                                 *)
Counted(i) ==
    \/ NoMoves(i) /\ (table[i] = MatedIn(0) => i \div Block \in newMated)
    \/ LegalMoves(i) # {} /\ table[i] = Remaining(Cardinality(LegalMoves(i)))
CountedSoFar ==
    pc = "count" => \A i \in Pos : Live(i) => IF i < idx THEN Counted(i) ELSE Class(i)

(* The value of a live index is explained by those of its legal moves.      *)
Undecided(i) == {j \in LegalMoves(i) : table[j][1] # "mate"}
Won(i) ==
    \E k \in 1 .. n : table[i] = MateIn(k) /\ \E j \in LegalMoves(i) : table[j] = MatedIn(k - 1)
Lost(i) ==
    \E k \in 1 .. n :
        /\ table[i] = MatedIn(k)
        /\ \A j \in LegalMoves(i) : \E l \in 1 .. k : table[j] = MateIn(l)
        /\ \E j \in LegalMoves(i) : table[j] = MateIn(k)
Open(i) ==
    /\ Cardinality(Undecided(i)) # 0
    /\ table[i] = Remaining(Cardinality(Undecided(i)))
Explained ==
    Sweeping => \A i \in Pos : Live(i) => Won(i) \/ NoMoves(i) \/ Lost(i) \/ Open(i)

(* A position mated in k that this sweep or the next has still to take a    *)
(* move back from.                                                          *)
Pending(i, m, k) ==
    \/ k = n
    \/ pc = "next" /\ k = n - 1 /\ m >= idx
    \/ pc = "unmove" /\ k = n - 1 /\ (m > idx \/ (m = idx /\ i \in lst))
TakenBack ==
    Sweeping =>
        \A i \in Pos : Live(i) => \A m \in LegalMoves(i) : \A k \in 0 .. n :
            table[m] = MatedIn(k) =>
                Pending(i, m, k) \/ \E l \in 1 .. k + 1 : table[i] = MateIn(l)

(* Every position mated in n or n-1 is in a block that is marked.           *)
Marked ==
    /\ Sweeping => \A i \in Pos : table[i] = MatedIn(n) => i \div Block \in newMated
    /\ pc \in {"next", "unmove"} =>
        \A i \in Pos : /\ table[i] = MatedIn(n - 1) => i \div Block \in oldMated
                       /\ table[i] = MatedIn(n) => modified

IInv ==
    /\ TypeOK /\ AtMated /\ InverseSoFar /\ Classified /\ CountedSoFar
    /\ Explained /\ TakenBack /\ Marked /\ ValuesExact

(***************************************************************************)
(* Facts about values and about the graph.                                  *)
(***************************************************************************)
LEMMA Values ==
    /\ \A k \in Nat : {MateIn(k), MatedIn(k), Remaining(k)} \cup {Unknown, Draw, Invalid} \subseteq Value
    /\ \A k : MateIn(k)[1] = "mate" /\ MateIn(k)[2] = k
    /\ \A k : MatedIn(k)[1] = "mated" /\ MatedIn(k)[2] = k
    /\ \A k : Remaining(k)[1] = "remaining" /\ Remaining(k)[2] = k
    /\ Unknown = Remaining(0) /\ Draw[1] = "draw" /\ Invalid[1] = "invalid"
    /\ \A v \in Value : /\ v[1] = "mate" => v = MateIn(v[2])
                        /\ v[1] = "remaining" => v = Remaining(v[2])
                        /\ v[2] \in Nat
BY DEF MateIn, MatedIn, Remaining, Unknown, Draw, Invalid, Value, ValueKinds

LEMMA SameGraph ==
    ASSUME tb' = tb
    PROVE  /\ Pos' = Pos
           /\ \A i : Live(i)' = Live(i)
           /\ \A i : LegalMoves(i)' = LegalMoves(i)
           /\ \A i : InverseAt(i)' = InverseAt(i)
<1>1. Pos' = Pos
  BY DEF Pos
<1>2. \A i : Live(i)' = Live(i)
  BY DEF Live
<1>3. \A i : LegalMoves(i)' = LegalMoves(i)
  BY <1>2 DEF LegalMoves
<1>4. \A i : InverseAt(i)' = InverseAt(i)
  BY <1>1, <1>2, <1>3 DEF InverseAt
<1> QED
  BY <1>1, <1>2, <1>3, <1>4

LEMMA Indexes ==
    ASSUME TypeOK
    PROVE  /\ Pos \subseteq Nat /\ IsFiniteSet(Pos)
           /\ \A i \in Pos : 0 <= i /\ i < NPositions(tb)
           /\ NPositions(tb) \in Nat /\ Batch \in Nat \ {0}
<1>1. NPositions(tb) \in Nat /\ Batch \in Nat \ {0}
  BY GeneratorAssumption DEF TypeOK
<1>2. IsFiniteSet(Pos)
  BY <1>1, FS_Interval DEF Pos
<1> QED
  BY <1>1, <1>2 DEF Pos

(* Legal moves of an index with inverse takebacks.                          *)
LEMMA Moving ==
    ASSUME TypeOK, NEW i \in Pos, InverseAt(i)
    PROVE  /\ LegalMoves(i) \subseteq Pos /\ IsFiniteSet(LegalMoves(i))
           /\ \A j \in LegalMoves(i) : Live(j) /\ i \in UnMoves(tb, j)
           /\ \A j \in UnMoves(tb, i) : j \in Pos /\ (Live(j) /\ Live(i) => i \in LegalMoves(j))
           /\ Swap(tb, i) \in Pos /\ Valid(tb, Swap(tb, i))
<1>1. LegalMoves(i) \subseteq Pos
  BY DEF InverseAt, LegalMoves
<1>2. IsFiniteSet(LegalMoves(i))
  BY <1>1, Indexes, FS_Subset
<1> QED
  BY <1>1, <1>2 DEF InverseAt, LegalMoves

LEMMA SameValues ==
    ASSUME UNCHANGED <<tb, table>>
    PROVE  \A i : /\ Class(i)' = Class(i) /\ NoMoves(i)' = NoMoves(i)
                  /\ Undecided(i)' = Undecided(i)
                  /\ n' = n => Won(i)' = Won(i) /\ Lost(i)' = Lost(i)
                  /\ Open(i)' = Open(i)
<1> \A i : LegalMoves(i)' = LegalMoves(i)
  BY SameGraph
<1>1. \A i : Undecided(i)' = Undecided(i)
  BY DEF Undecided
<1>2. \A i : Class(i)' = Class(i)
  BY DEF Class
<1>3. \A i : NoMoves(i)' = NoMoves(i)
  BY DEF NoMoves
<1>4. \A i : n' = n => Won(i)' = Won(i)
  BY DEF Won
<1>5. \A i : n' = n => Lost(i)' = Lost(i)
  BY DEF Lost
<1>6. \A i : Open(i)' = Open(i)
  BY <1>1 DEF Open
<1> QED
  BY <1>1, <1>2, <1>3, <1>4, <1>5, <1>6

(* During the sweeps.                                                       *)
LEMMA SweepFacts ==
    ASSUME IInv, Sweeping
    PROVE  /\ \A i \in Pos : Live(i) => InverseAt(i)
           /\ \A i \in Pos : table[i][1] \in {"mated", "remaining", "draw"} => Live(i)
           /\ \A i \in Pos : Live(i) => Won(i) \/ NoMoves(i) \/ Lost(i) \/ Open(i)
<1>1. \A i \in Pos : Live(i) => InverseAt(i)
  BY DEF IInv, InverseSoFar, Sweeping
<1>2. ASSUME NEW i \in Pos, table[i][1] \in {"mated", "remaining", "draw"}, ~Live(i)
      PROVE  FALSE
  <2>1. table[i] \in {Invalid, MateIn(0)}
    BY <1>2 DEF IInv, Classified, Class, Live, Sweeping
  <2> QED
    BY <1>2, <2>1, Values
<1> QED
  BY <1>1, <1>2 DEF IInv, Explained

(* The values of a live index by their kind.                                *)
LEMMA LiveKinds ==
    ASSUME IInv, Sweeping, NEW i \in Pos, Live(i)
    PROVE  /\ table[i] \in Value
           /\ Won(i) <=> table[i][1] = "mate"
           /\ Open(i) <=> table[i][1] = "remaining"
           /\ Lost(i) => table[i][1] = "mated"
           /\ NoMoves(i) => table[i][1] \in {"mated", "draw"} /\ LegalMoves(i) = {}
           /\ ~IsComputed(table[i]) => Open(i)
           /\ IsRemainingN(table[i]) <=> Open(i)
<1>1. table[i] \in Value
  BY DEF IInv, TypeOK
<1>2. Won(i) => table[i][1] = "mate"
  BY Values DEF Won
<1>3. Open(i) => table[i][1] = "remaining"
  BY Values DEF Open
<1>4. Lost(i) => table[i][1] = "mated"
  BY Values DEF Lost
<1>5. NoMoves(i) => table[i][1] \in {"mated", "draw"} /\ LegalMoves(i) = {}
  BY Values DEF NoMoves
<1>6. Won(i) \/ NoMoves(i) \/ Lost(i) \/ Open(i)
  BY SweepFacts
<1>7. Open(i) => IsRemainingN(table[i])
  <2> SUFFICES ASSUME Open(i) PROVE IsRemainingN(table[i])
    OBVIOUS
  <2>1. IsFiniteSet(Undecided(i))
    BY Moving, SweepFacts, FS_Subset DEF Undecided, IInv
  <2>2. Cardinality(Undecided(i)) \in Nat
    BY <2>1, FS_CardinalityType
  <2> QED
    BY <2>2, Values DEF Open, IsRemainingN
<1> QED
  BY <1>1, <1>2, <1>3, <1>4, <1>5, <1>6, <1>7 DEF IsComputed, IsRemainingN

(***************************************************************************)
(* A takeback of an undecided position j.                                   *)
(***************************************************************************)
LEMMA TakeBack ==
    ASSUME IInv, pc = "unmove", UNCHANGED <<tb, pc, idx, n, oldMated>>,
           NEW j \in lst, lst' = lst \ {j}, ~IsComputed(table[j]),
           NEW less, less = {k \in UnMoves(tb, j) \ {j} : IsRemainingN(table[k])},
           table' = [k \in Pos |-> IF k = j THEN MateIn(n)
                                   ELSE IF k \in less THEN DecRemaining(table[k])
                                   ELSE table[k]],
           newMated' = newMated \cup
                {k \div Block : k \in {l \in less : table[l] = Remaining(1)}},
           modified' = TRUE
    PROVE  IInv'
<1> Sweeping /\ Sweeping'
  BY DEF Sweeping
<1>1. /\ n \in Nat \ {0} /\ idx \in Pos /\ table[idx] = MatedIn(n - 1)
      /\ lst \subseteq UnMoves(tb, idx)
  BY DEF IInv, TypeOK, AtMated
<1>2. Live(idx)
  BY <1>1, SweepFacts, Values
<1>3. j \in Pos /\ Live(j) /\ idx \in LegalMoves(j) /\ Open(j)
  <2>1. j \in Pos
    BY <1>1, <1>2, Moving, SweepFacts DEF IInv
  <2>2. Live(j)
    <3>1. SUFFICES ASSUME ~Live(j) PROVE FALSE
      OBVIOUS
    <3>2. Class(j)
      BY <2>1, <3>1 DEF IInv, Classified
    <3> QED
      BY <3>1, <3>2, Values DEF Class, Live, IsComputed
  <2>3. idx \in LegalMoves(j)
    BY <1>1, <1>2, <2>1, <2>2, Moving, SweepFacts DEF IInv
  <2> QED
    BY <2>1, <2>2, <2>3, LiveKinds
<1>4. /\ less \subseteq Pos /\ j \notin less
      /\ \A k \in less : Live(k) /\ Open(k) /\ j \in LegalMoves(k)
      /\ \A k \in Pos : Live(k) /\ Open(k) /\ j \in LegalMoves(k) /\ k # j => k \in less
  <2>1. less \subseteq Pos /\ j \notin less
    BY <1>3, Moving, SweepFacts DEF IInv
  <2>2. ASSUME NEW k \in less
        PROVE  Live(k) /\ Open(k) /\ j \in LegalMoves(k)
    <3>1. Live(k)
      BY <2>1, SweepFacts DEF IsRemainingN
    <3>2. Open(k)
      BY <2>1, <3>1, LiveKinds
    <3>3. j \in LegalMoves(k)
      BY <1>3, <2>1, <3>1, Moving, SweepFacts DEF IInv
    <3> QED
      BY <3>1, <3>2, <3>3
  <2>3. ASSUME NEW k \in Pos, Live(k), Open(k), j \in LegalMoves(k), k # j
        PROVE  k \in less
    <3>1. k \in UnMoves(tb, j)
      BY <2>3, Moving, SweepFacts DEF IInv
    <3>2. IsRemainingN(table[k])
      BY <2>3, LiveKinds
    <3> QED
      BY <2>3, <3>1, <3>2
  <2> QED
    BY <2>1, <2>2, <2>3
(* What is computed stays, and what is undecided becomes mated in n, or     *)
(* stays undecided.                                                         *)
<1>5. /\ table' \in [Pos -> Value]
      /\ \A k \in Pos : k # j /\ k \notin less => table'[k] = table[k]
      /\ table'[j] = MateIn(n)
      /\ \A k \in less :
            /\ table[k] = Remaining(1) => table'[k] = MatedIn(n)
            /\ table[k] # Remaining(1) => table'[k] = Remaining(table[k][2] - 1)
            /\ table[k][2] \in Nat \ {0}
  <2>1. \A k \in less : table[k][2] \in Nat \ {0} /\ table[k] \in Value
    BY <1>4, Values, LiveKinds DEF IsRemainingN
  <2>2. \A k \in Pos : table[k] \in Value
    BY DEF IInv, TypeOK
  <2>3. \A k \in less : DecRemaining(table[k]) \in Value
    BY <2>1, <1>1, Values DEF DecRemaining
  <2>4. MateIn(n) \in Value
    BY <1>1, Values
  <2>5. table' \in [Pos -> Value]
    BY <2>2, <2>3, <2>4
  <2> QED
    BY <1>3, <1>4, <2>1, <2>5 DEF DecRemaining
<1>6. /\ \A k \in Pos : table[k][1] \in {"mate", "mated", "draw", "invalid"} => table'[k] = table[k]
      /\ \A k \in Pos : table'[k][1] = "mate" <=> table[k][1] = "mate" \/ k = j
      /\ \A k \in Pos : table'[k][1] = "mated" =>
            table'[k] = table[k] \/ (k \in less /\ table[k] = Remaining(1) /\ table'[k] = MatedIn(n))
  <2>1. \A k \in less \cup {j} : table[k][1] = "remaining"
    BY <1>3, <1>4, LiveKinds
  <2>2. ASSUME NEW k \in Pos
        PROVE  /\ table[k][1] \in {"mate", "mated", "draw", "invalid"} => table'[k] = table[k]
               /\ table'[k][1] = "mate" <=> table[k][1] = "mate" \/ k = j
               /\ table'[k][1] = "mated" =>
                    table'[k] = table[k] \/ (k \in less /\ table[k] = Remaining(1) /\ table'[k] = MatedIn(n))
    <3>1. CASE k = j
      BY <3>1, <1>5, <2>1, Values
    <3>2. CASE k \in less
      <4>1. table[k][1] = "remaining" /\ k # j
        BY <3>2, <1>4, <2>1
      <4>2. CASE table[k] = Remaining(1)
        BY <3>2, <4>1, <4>2, <1>5, Values
      <4>3. CASE table[k] # Remaining(1)
        <5>1. table'[k][1] = "remaining"
          <6>1. table'[k] = Remaining(table[k][2] - 1)
            BY <3>2, <4>3, <1>5
          <6>2. \A r : Remaining(r)[1] = "remaining"
            BY Values
          <6> QED
            BY <6>1, <6>2
        <5> QED
          BY <4>1, <5>1
      <4> QED
        BY <4>2, <4>3
    <3>3. CASE k # j /\ k \notin less
      BY <3>3, <1>5
    <3> QED
      BY <3>1, <3>2, <3>3
  <2> QED
    BY <2>2
<1>7. /\ Pos' = Pos
      /\ \A i : Live(i)' = Live(i) /\ LegalMoves(i)' = LegalMoves(i) /\ InverseAt(i)' = InverseAt(i)
  BY SameGraph
<1>8. TypeOK'
  BY <1>5, <1>7 DEF IInv, TypeOK
<1>9. AtMated'
  BY <1>1, <1>6, <1>7, Values DEF AtMated
<1>10. InverseSoFar'
  BY <1>7 DEF IInv, InverseSoFar
<1>11. Classified'
  <2>1. ASSUME NEW i \in Pos, ~Live(i) PROVE Class(i)'
    <3>1. Class(i)
      BY <2>1 DEF IInv, Classified
    <3>2. table'[i] = table[i]
      BY <2>1, <3>1, <1>6, Values DEF Class, Live
    <3> QED
      BY <3>1, <3>2 DEF Class
  <2> QED
    BY <2>1, <1>7 DEF Classified
<1>12. CountedSoFar' /\ ValuesExact'
  BY DEF CountedSoFar, ValuesExact
<1>13. Explained'
  <2>1. ASSUME NEW i \in Pos, Live(i), Won(i) PROVE Won(i)'
    <3>1. PICK k \in 1 .. n, m \in LegalMoves(i) : table[i] = MateIn(k) /\ table[m] = MatedIn(k - 1)
      BY <2>1 DEF Won
    <3>2. m \in Pos
      BY <2>1, Moving, SweepFacts DEF IInv
    <3>3. table'[i] = MateIn(k) /\ table'[m] = MatedIn(k - 1)
      BY <3>1, <3>2, <1>6, Values
    <3> QED
      BY <3>1, <3>3, <1>7 DEF Won
  <2>2. ASSUME NEW i \in Pos, Live(i), NoMoves(i) PROVE NoMoves(i)'
    <3>1. table'[i] = table[i]
      BY <2>2, <1>6, LiveKinds
    <3> QED
      BY <2>2, <3>1, <1>7 DEF NoMoves
  <2>3. ASSUME NEW i \in Pos, Live(i), Lost(i) PROVE Lost(i)'
    <3>1. PICK k \in 1 .. n :
            /\ table[i] = MatedIn(k)
            /\ \A m \in LegalMoves(i) : \E l \in 1 .. k : table[m] = MateIn(l)
            /\ \E m \in LegalMoves(i) : table[m] = MateIn(k)
      BY <2>3 DEF Lost
    <3>2. \A m \in LegalMoves(i) : m \in Pos /\ table'[m] = table[m]
      BY <2>3, <3>1, Moving, SweepFacts, <1>6, Values DEF IInv
    <3>3. table'[i] = table[i]
      BY <3>1, <1>6, Values
    <3> QED
      BY <3>1, <3>2, <3>3, <1>7 DEF Lost
  <2>4. ASSUME NEW i \in Pos, Live(i), Open(i), i # j, i \notin less PROVE Open(i)'
    <3>1. j \notin LegalMoves(i)
      BY <2>4, <1>4
    <3>2. \A m \in LegalMoves(i) : m \in Pos /\ (table'[m][1] = "mate" <=> table[m][1] = "mate")
      BY <2>4, <3>1, Moving, SweepFacts, <1>6 DEF IInv
    <3>3. Undecided(i)' = Undecided(i)
      BY <3>2, <1>7 DEF Undecided
    <3>4. table'[i] = table[i]
      BY <2>4, <1>5
    <3> QED
      BY <2>4, <3>3, <3>4 DEF Open
  <2>5. Won(j)'
    <3>1. table'[idx] = MatedIn(n - 1)
      BY <1>1, <1>6, Values
    <3> QED
      BY <1>1, <1>3, <1>5, <1>7, <3>1 DEF Won
  <2>6. ASSUME NEW i \in less PROVE Open(i)' \/ Lost(i)'
    <3>1. /\ i \in Pos /\ Live(i) /\ Open(i) /\ j \in LegalMoves(i)
          /\ LegalMoves(i) \subseteq Pos /\ IsFiniteSet(LegalMoves(i))
      BY <1>4, <2>6, Moving, SweepFacts DEF IInv
    <3>2. j \in Undecided(i)
      BY <1>3, <3>1, LiveKinds DEF Undecided
    <3>3. Undecided(i)' = Undecided(i) \ {j}
      BY <3>1, <1>6, <1>7 DEF Undecided
    <3>4. IsFiniteSet(Undecided(i))
      BY <3>1, FS_Subset DEF Undecided
    <3>5. /\ Cardinality(Undecided(i)) \in Nat \ {0}
          /\ Cardinality(Undecided(i)') = Cardinality(Undecided(i)) - 1
      <4>1. Cardinality(Undecided(i)) \in Nat
        BY <3>4, FS_CardinalityType
      <4>2. Cardinality(Undecided(i)) # 0
        BY <3>2, <3>4, FS_EmptySet
      <4>3. Cardinality(Undecided(i) \ {j}) = Cardinality(Undecided(i)) - 1
        BY <3>2, <3>4, FS_RemoveElement
      <4> QED
        BY <3>3, <4>1, <4>2, <4>3
    <3>6. table[i] = Remaining(Cardinality(Undecided(i)))
      BY <3>1 DEF Open
    <3>7. CASE Cardinality(Undecided(i)) # 1
      <4>1. table'[i] = Remaining(Cardinality(Undecided(i)) - 1)
        <5>1. table[i][2] = Cardinality(Undecided(i)) /\ table[i] # Remaining(1)
          BY <3>6, <3>7, Values
        <5> QED
          BY <2>6, <5>1, <1>5
      <4> QED
        BY <3>5, <3>7, <4>1 DEF Open
    <3>8. CASE Cardinality(Undecided(i)) = 1
      <4>1. table'[i] = MatedIn(n)
        BY <2>6, <3>6, <3>8, <1>5
      <4>2. \A m \in LegalMoves(i) : m # j => m \notin Undecided(i)
        <5>1. Undecided(i)' = {}
          <6>1. IsFiniteSet(Undecided(i)') /\ Cardinality(Undecided(i)') = 0
            BY <3>3, <3>4, <3>5, <3>8, FS_RemoveElement
          <6> QED
            BY <6>1, FS_EmptySet
        <5> QED
          BY <3>3, <5>1
      <4>3. ASSUME NEW m \in LegalMoves(i), m # j PROVE \E l \in 1 .. n : table'[m] = MateIn(l)
        <5>1. m \in Pos /\ Live(m) /\ table[m][1] = "mate"
          BY <3>1, <4>2, <4>3, Moving, SweepFacts DEF Undecided, IInv
        <5>2. Won(m) /\ table'[m] = table[m]
          BY <5>1, LiveKinds, <1>6
        <5> QED
          BY <5>2 DEF Won
      <4>4. table'[j] = MateIn(n) /\ n \in 1 .. n
        BY <1>1, <1>5
      <4> QED
        BY <3>1, <4>1, <4>3, <4>4, <1>7 DEF Lost
    <3> QED
      BY <3>7, <3>8
  <2> QED
    BY <2>1, <2>2, <2>3, <2>4, <2>5, <2>6, <1>7, SweepFacts DEF Explained
<1>14. TakenBack'
  <2>1. SUFFICES ASSUME NEW i \in Pos, Live(i), NEW m \in LegalMoves(i), NEW k \in 0 .. n,
                        table'[m] = MatedIn(k), ~Pending(i, m, k)'
                 PROVE  \E l \in 1 .. k + 1 : table'[i] = MateIn(l)
    BY <1>7 DEF TakenBack
  <2>2. m \in Pos /\ table[m] = MatedIn(k) /\ k # n
    BY <2>1, Moving, SweepFacts, <1>6, Values DEF IInv, Pending
  <2>3. CASE i = j
    <3>1. ~\E l \in 1 .. k + 1 : table[i] = MateIn(l)
      BY <1>3, <2>3, LiveKinds, Values
    <3>2. Pending(i, m, k)
      BY <2>1, <2>2, <3>1 DEF IInv, TakenBack
    <3>3. k = n - 1
      BY <2>2, <3>2 DEF Pending
    <3> QED
      BY <1>1, <1>5, <2>3, <3>3
  <2>4. CASE i # j
    <3>1. ~Pending(i, m, k)
      BY <2>1, <2>4 DEF Pending
    <3>2. PICK l \in 1 .. k + 1 : table[i] = MateIn(l)
      BY <2>1, <2>2, <3>1 DEF IInv, TakenBack
    <3>3. table'[i] = MateIn(l)
      BY <3>2, <1>6, Values
    <3> QED
      BY <3>3
  <2> QED
    BY <2>3, <2>4
<1>15. Marked'
  <2>1. ASSUME NEW i \in Pos, table'[i] = MatedIn(n) PROVE i \div Block \in newMated'
    <3>1. table[i] = MatedIn(n) \/ (i \in less /\ table[i] = Remaining(1))
      BY <2>1, <1>6, Values
    <3> QED
      BY <3>1 DEF IInv, Marked
  <2>2. ASSUME NEW i \in Pos, table'[i] = MatedIn(n - 1) PROVE i \div Block \in oldMated'
    <3>1. table[i] = MatedIn(n - 1)
      BY <2>2, <1>1, <1>6, Values
    <3> QED
      BY <3>1 DEF IInv, Marked
  <2> QED
    BY <2>1, <2>2, <1>7 DEF Marked
<1> QED
  BY <1>8, <1>9, <1>10, <1>11, <1>12, <1>13, <1>14, <1>15 DEF IInv

(***************************************************************************)
(* One step of each kind.                                                   *)
(***************************************************************************)
LEMMA UnMoveStep ==
    ASSUME IInv, UnMove
    PROVE  IInv'
<1>1. PICK j \in lst :
        /\ \A k \in lst : j <= k
        /\ lst' = lst \ {j}
        /\ IF IsComputed(table[j]) THEN UNCHANGED <<table, newMated, modified>>
           ELSE LET less == {k \in UnMoves(tb, j) \ {j} : IsRemainingN(table[k])}
                IN  /\ table' = [k \in Pos |-> IF k = j THEN MateIn(n)
                                               ELSE IF k \in less THEN DecRemaining(table[k])
                                               ELSE table[k]]
                    /\ newMated' = newMated \cup
                            {k \div Block : k \in {l \in less : table[l] = Remaining(1)}}
                    /\ modified' = TRUE
  BY DEF UnMove
<1>2. CASE ~IsComputed(table[j])
  BY <1>1, <1>2, TakeBack DEF UnMove
<1>3. CASE IsComputed(table[j])
  <2> Sweeping /\ Sweeping'
    BY DEF UnMove, Sweeping
  <2>1. UNCHANGED <<tb, table, pc, idx, n, oldMated, newMated, modified>> /\ pc = "unmove"
    BY <1>1, <1>3 DEF UnMove
  <2>2. TypeOK' /\ AtMated'
    BY <1>1, <2>1, SameGraph DEF IInv, TypeOK, AtMated
  <2>3. InverseSoFar' /\ CountedSoFar' /\ ValuesExact'
    BY <2>1, SameGraph DEF IInv, InverseSoFar, CountedSoFar, ValuesExact
  <2>4. Classified' /\ Explained' /\ Marked'
    BY <2>1, SameGraph, SameValues DEF IInv, Classified, Explained, Marked
  <2>5. TakenBack'
    <3>1. SUFFICES ASSUME NEW i \in Pos, Live(i), NEW m \in LegalMoves(i), NEW k \in 0 .. n,
                          table[m] = MatedIn(k), ~Pending(i, m, k)'
                   PROVE  \E l \in 1 .. k + 1 : table[i] = MateIn(l)
      BY <2>1, SameGraph DEF TakenBack
    <3>2. CASE ~Pending(i, m, k)
      BY <3>1, <3>2 DEF IInv, TakenBack
    <3>3. CASE Pending(i, m, k)
      <4>1. i = j /\ k = n - 1 /\ n \in Nat
        BY <1>1, <2>1, <3>1, <3>3 DEF Pending, IInv, TypeOK
      <4>2. Won(i)
        <5>1. table[i][1] # "remaining"
          BY <1>3, <4>1 DEF IsComputed
        <5>2. ~Lost(i)
          BY <3>1, Values DEF Lost
        <5> QED
          BY <3>1, <5>1, <5>2, LiveKinds, SweepFacts
      <4> QED
        BY <4>1, <4>2 DEF Won
    <3> QED
      BY <3>2, <3>3
  <2> QED
    BY <2>2, <2>3, <2>4, <2>5 DEF IInv
<1> QED
  BY <1>2, <1>3

LEMMA AbortStep ==
    ASSUME IInv, Abort
    PROVE  IInv'
<1> UNCHANGED <<tb, table, idx, n, modified>> /\ pc' = "aborted"
  BY DEF Abort
<1>1. TypeOK'
  BY SameGraph DEF IInv, TypeOK
<1> QED
  BY <1>1 DEF IInv, AtMated, InverseSoFar, Classified, CountedSoFar, Explained, TakenBack,
              Marked, ValuesExact, Sweeping

LEMMA StartSweepStep ==
    ASSUME IInv, StartSweep
    PROVE  IInv'
<1> /\ UNCHANGED <<tb, table, lst>> /\ n' = n + 1 /\ idx' = 0 /\ modified' = FALSE
    /\ pc = "sweep" /\ pc' = "next" /\ oldMated' = newMated
  BY DEF StartSweep
<1> Sweeping /\ Sweeping'
  BY DEF Sweeping
<1>1. n \in Nat /\ n' \in Nat /\ n' # 0 /\ n = n' - 1 /\ \A k : k \in 1 .. n => k \in 1 .. n'
  BY DEF IInv, TypeOK
<1>2. TypeOK' /\ AtMated'
  BY <1>1, SameGraph DEF IInv, TypeOK, AtMated
<1>3. InverseSoFar' /\ CountedSoFar' /\ ValuesExact' /\ Classified'
  BY SameGraph, SameValues DEF IInv, InverseSoFar, CountedSoFar, ValuesExact, Classified
<1>4. Explained'
  <2>1. ASSUME NEW i \in Pos, Won(i) PROVE Won(i)'
    BY <1>1, <2>1, SameGraph DEF Won
  <2>2. ASSUME NEW i \in Pos, Lost(i) PROVE Lost(i)'
    BY <1>1, <2>2, SameGraph DEF Lost
  <2> QED
    BY <2>1, <2>2, SameGraph, SameValues DEF IInv, Explained
<1>5. \A i \in Pos : table[i] # MatedIn(n')
  <2> SUFFICES ASSUME NEW i \in Pos, table[i] = MatedIn(n') PROVE FALSE
    OBVIOUS
  <2>1. Live(i) /\ (NoMoves(i) \/ Lost(i))
    BY Values, SweepFacts, LiveKinds
  <2> QED
    BY <1>1, <2>1, Values DEF NoMoves, Lost
<1>6. TakenBack'
  <2>1. SUFFICES ASSUME NEW i \in Pos, Live(i), NEW m \in LegalMoves(i), NEW k \in 0 .. n',
                        table[m] = MatedIn(k), ~Pending(i, m, k)'
                 PROVE  \E l \in 1 .. k + 1 : table[i] = MateIn(l)
    BY SameGraph DEF TakenBack
  <2>2. m \in Pos
    BY <2>1, Moving, SweepFacts DEF IInv
  <2>3. k # n' /\ k # n
    BY <1>1, <2>1, <2>2, Indexes DEF Pending, IInv
  <2>4. ~Pending(i, m, k) /\ k \in 0 .. n
    BY <1>1, <2>3 DEF Pending
  <2> QED
    BY <2>1, <2>4 DEF IInv, TakenBack
<1>7. Marked'
  BY <1>1, <1>5, SameGraph DEF IInv, Marked
<1> QED
  BY <1>2, <1>3, <1>4, <1>6, <1>7 DEF IInv

LEMMA NextMatedStep ==
    ASSUME IInv, NextMated
    PROVE  IInv'
<1>1. PICK s \in Sources : (\A j \in Sources : s <= j) /\ idx' = s /\ lst' = UnMoves(tb, s)
  BY DEF NextMated
<1> /\ UNCHANGED <<tb, table, n, oldMated, newMated, modified>> /\ pc = "next" /\ pc' = "unmove"
  BY DEF NextMated
<1> Sweeping /\ Sweeping'
  BY DEF Sweeping
<1>2. s \in Pos /\ table[s] = MatedIn(n - 1)
  BY DEF Sources
<1>3. TypeOK' /\ AtMated'
  BY <1>1, <1>2, SameGraph, Indexes DEF IInv, TypeOK, AtMated
<1>4. InverseSoFar' /\ CountedSoFar' /\ ValuesExact' /\ Classified' /\ Explained' /\ Marked'
  BY SameGraph, SameValues
  DEF IInv, InverseSoFar, CountedSoFar, ValuesExact, Classified, Explained, Marked
<1>5. TakenBack'
  <2>1. SUFFICES ASSUME NEW i \in Pos, Live(i), NEW m \in LegalMoves(i), NEW k \in 0 .. n,
                        table[m] = MatedIn(k), Pending(i, m, k)
                 PROVE  Pending(i, m, k)'
    BY SameGraph DEF IInv, TakenBack
  <2>2. m \in Pos /\ i \in UnMoves(tb, m)
    BY <2>1, Moving, SweepFacts DEF IInv
  <2>3. CASE k # n
    <3>1. k = n - 1 /\ m >= idx
      BY <2>1, <2>3 DEF Pending
    <3>2. m \in Sources
      BY <2>1, <2>2, <3>1 DEF Sources, IInv, Marked
    <3>3. m = s \/ m > s
      BY <1>1, <1>2, <2>2, <3>2, Indexes DEF IInv
    <3> QED
      BY <1>1, <2>2, <3>1, <3>3 DEF Pending
  <2> QED
    BY <2>3 DEF Pending
<1> QED
  BY <1>3, <1>4, <1>5 DEF IInv

LEMMA EndUnMoveStep ==
    ASSUME IInv, EndUnMove
    PROVE  IInv'
<1> /\ UNCHANGED <<tb, table, n, oldMated, newMated, lst, modified>>
    /\ pc = "unmove" /\ pc' = "next" /\ lst = {} /\ idx' = idx + 1
  BY DEF EndUnMove
<1> Sweeping /\ Sweeping'
  BY DEF Sweeping
<1>1. TypeOK' /\ AtMated'
  BY SameGraph DEF IInv, TypeOK, AtMated
<1>2. InverseSoFar' /\ CountedSoFar' /\ ValuesExact' /\ Classified' /\ Explained' /\ Marked'
  BY SameGraph, SameValues
  DEF IInv, InverseSoFar, CountedSoFar, ValuesExact, Classified, Explained, Marked
<1>3. TakenBack'
  <2>1. SUFFICES ASSUME NEW i \in Pos, Live(i), NEW m \in LegalMoves(i), NEW k \in 0 .. n,
                        table[m] = MatedIn(k), Pending(i, m, k)
                 PROVE  Pending(i, m, k)'
    BY SameGraph DEF IInv, TakenBack
  <2>2. m \in Nat /\ idx \in Nat
    BY <2>1, Moving, SweepFacts, Indexes DEF IInv, TypeOK
  <2> QED
    BY <2>1, <2>2 DEF Pending
<1> QED
  BY <1>1, <1>2, <1>3 DEF IInv

(* What the next sweep starts from.                                         *)
LEMMA NothingPending ==
    ASSUME IInv, pc = "next", Sources = {}, NEW i \in Pos, Live(i), NEW m \in LegalMoves(i),
           NEW k \in 0 .. n, table[m] = MatedIn(k), k # n
    PROVE  \E l \in 1 .. k + 1 : table[i] = MateIn(l)
<1> Sweeping
  BY DEF Sweeping
<1>1. m \in Pos
  BY Moving, SweepFacts DEF IInv
<1>2. ASSUME Pending(i, m, k) PROVE FALSE
  <2>1. k = n - 1 /\ m >= idx
    BY <1>2 DEF Pending
  <2>2. m \in Sources
    BY <1>1, <2>1 DEF Sources, IInv, Marked
  <2> QED
    BY <2>2
<1> QED
  BY <1>2 DEF IInv, TakenBack

LEMMA Smallest ==
    ASSUME NEW S, NEW k \in S, k \in Int, \A l \in S : l \in Int /\ k <= l
    PROVE  (CHOOSE m \in S : \A l \in S : m <= l) = k
<1> DEFINE c == CHOOSE m \in S : \A l \in S : m <= l
<1>1. c \in S /\ \A l \in S : c <= l
  OBVIOUS
<1> HIDE DEF c
<1>2. c = k
  BY <1>1
<1> QED
  BY <1>2 DEF c

LEMMA Largest ==
    ASSUME NEW S, NEW k \in S, k \in Int, \A l \in S : l \in Int /\ k >= l
    PROVE  (CHOOSE m \in S : \A l \in S : m >= l) = k
<1> DEFINE c == CHOOSE m \in S : \A l \in S : m >= l
<1>1. c \in S /\ \A l \in S : c >= l
  OBVIOUS
<1> HIDE DEF c
<1>2. c = k
  BY <1>1
<1> QED
  BY <1>2 DEF c

(* The last sweep: every position is a win by its quickest loss, a loss by  *)
(* its slowest win, or drawn.                                               *)
LEMMA Finished ==
    ASSUME IInv, EndSweep, ~modified
    PROVE  ValuesExact'
<1> /\ UNCHANGED tb /\ pc = "next" /\ Sources = {}
    /\ table' = [i \in Pos |-> IF IsRemainingN(table[i]) THEN Draw ELSE table[i]]
  BY DEF EndSweep
<1> Sweeping
  BY DEF Sweeping
<1>1. SUFFICES ASSUME NEW i \in Pos, Live(i) PROVE table'[i] = ValueOf(i)'
  BY SameGraph DEF ValuesExact
<1> DEFINE after == {table'[j] : j \in LegalMoves(i)}
           losses == {v[2] : v \in {w \in after : w[1] = "mated"}}
           wins == {v[2] : v \in {w \in after : w[1] = "mate"}}
<1>2. LegalMoves(i) \subseteq Pos /\ \A j \in LegalMoves(i) : Live(j)
  BY <1>1, Moving, SweepFacts DEF IInv
<1>3. n \in Nat /\ \A j \in Pos : table[j] \in Value
  BY DEF IInv, TypeOK
<1>4. \A j \in Pos : /\ table[j][1] # "remaining" => table'[j] = table[j]
                     /\ Live(j) /\ table[j][1] = "remaining" => table'[j] = Draw
  BY LiveKinds DEF IsRemainingN
<1>5. \A j \in Pos : /\ table'[j][1] = "mate" <=> table[j][1] = "mate"
                     /\ table'[j][1] = "mated" <=> table[j][1] = "mated"
  BY <1>4, SweepFacts, Values
<1>6. ValueOf(i)' = ValueAfter(after, TakesKing(tb, Swap(tb, i)))
  <2>1. tb' = tb /\ LegalMoves(i)' = LegalMoves(i)
    BY SameGraph
  <2> QED
    BY <2>1, Zenon DEF ValueOf
<1>7. /\ losses # {} => ValueOf(i)' = MateIn(1 + CHOOSE k \in losses : \A l \in losses : k <= l)
      /\ losses = {} /\ after = {} =>
            ValueOf(i)' = IF TakesKing(tb, Swap(tb, i)) THEN MatedIn(0) ELSE Draw
      /\ losses = {} /\ after # {} =>
            ValueOf(i)' = IF \A v \in after : v[1] = "mate"
                          THEN MatedIn(CHOOSE k \in wins : \A l \in wins : k >= l) ELSE Draw
  BY <1>6, Zenon DEF ValueAfter
<1> HIDE DEF wins
(* A move to a position mated in k wins in k+1 at most.                     *)
<1>8. ASSUME NEW k \in losses
      PROVE  k \in Nat /\ \E l \in 1 .. k + 1 : table[i] = MateIn(l)
  <2>1. PICK j \in LegalMoves(i) : table'[j][1] = "mated" /\ k = table'[j][2]
    BY <1>8 DEF losses
  <2>2. j \in Pos /\ Live(j) /\ table[j][1] = "mated" /\ k = table[j][2] /\ k \in Nat
    BY <2>1, <1>2, <1>3, <1>4, <1>5, Values
  <2>3. table[j] = MatedIn(k) /\ k \in 0 .. n
    <3>1. NoMoves(j) \/ Lost(j)
      BY <2>2, LiveKinds, SweepFacts
    <3> QED
      BY <2>2, <3>1, <1>3, Values DEF NoMoves, Lost
  <2>4. k # n
    BY <2>2, <2>3 DEF IInv, Marked
  <2> QED
    BY <1>1, <2>2, <2>3, <2>4, NothingPending
<1> HIDE DEF losses, after
<1>9. CASE Won(i)
  <2>1. PICK k \in 1 .. n, j \in LegalMoves(i) : table[i] = MateIn(k) /\ table[j] = MatedIn(k - 1)
    BY <1>9 DEF Won
  <2>2. k - 1 \in losses
    <3>0. table[j][1] = "mated" /\ MatedIn(k - 1)[1] = "mated" /\ MatedIn(k - 1)[2] = k - 1
      BY <2>1, Values
    <3>1. table'[j] = table[j] /\ j \in LegalMoves(i)
      BY <2>1, <3>0, <1>2, <1>4
    <3>2. table'[j] \in after /\ table'[j][1] = "mated" /\ table'[j][2] = k - 1
      BY <2>1, <3>0, <3>1 DEF after
    <3> QED
      BY <3>2 DEF losses
  <2>3. ASSUME NEW l \in losses PROVE l \in Int /\ k - 1 <= l
    <3>1. l \in Nat /\ \E q \in 1 .. l + 1 : table[i] = MateIn(q)
      BY <1>8
    <3>2. PICK q \in 1 .. l + 1 : table[i] = MateIn(q)
      BY <3>1
    <3>3. MateIn(q)[2] = q /\ MateIn(k)[2] = k
      BY Values
    <3>4. q = k
      BY <2>1, <3>2, <3>3
    <3> QED
      BY <3>1, <3>2, <3>4
  <2>5. (CHOOSE m \in losses : \A l \in losses : m <= l) = k - 1
    BY <2>2, <2>3, Smallest
  <2>6. ValueOf(i)' = MateIn(k)
    <3>1. ValueOf(i)' = MateIn(1 + (k - 1))
      BY <1>7, <2>2, <2>5, Zenon
    <3>2. 1 + (k - 1) = k
      OBVIOUS
    <3> QED
      BY <3>1, <3>2
  <2> QED
    BY <1>1, <1>4, <2>1, <2>6, Values
<1>10. CASE ~Won(i)
  <2>1. losses = {}
    <3>1. \A l : table[i] # MateIn(l)
      BY <1>1, <1>10, LiveKinds, Values
    <3> QED
      BY <3>1, <1>8
  <2>2. CASE NoMoves(i)
    <3>1. after = {}
      BY <2>2 DEF NoMoves, after
    <3>2. table'[i] = table[i]
      BY <1>1, <1>4, <2>2, LiveKinds
    <3> QED
      BY <1>7, <2>1, <2>2, <3>1, <3>2 DEF NoMoves
  <2>3. CASE Lost(i)
    <3>1. PICK k \in 1 .. n :
            /\ table[i] = MatedIn(k)
            /\ \A m \in LegalMoves(i) : \E l \in 1 .. k : table[m] = MateIn(l)
            /\ \E m \in LegalMoves(i) : table[m] = MateIn(k)
      BY <2>3 DEF Lost
    <3>2. \A m \in LegalMoves(i) : \E l \in 1 .. k : table'[m] = MateIn(l)
      BY <3>1, <1>2, <1>4, Values
    <3>3. PICK m \in LegalMoves(i) : table'[m] = MateIn(k)
      BY <3>1, <1>2, <1>4, Values
    <3>4. table'[m] \in after /\ \A v \in after : \E l \in 1 .. k : v = MateIn(l)
      BY <3>2, <3>3 DEF after
    <3>5. k \in wins
      BY <3>3, <3>4, Values DEF wins
    <3>6. \A l \in wins : l \in Int /\ k >= l
      BY <3>4, Values DEF wins
    <3>8. (CHOOSE w \in wins : \A l \in wins : w >= l) = k
      BY <3>5, <3>6, Largest
    <3>9. after # {} /\ \A v \in after : v[1] = "mate"
      BY <3>4, Values
    <3>7. table'[i] = MatedIn(k)
      BY <1>1, <1>4, <3>1, Values
    <3> QED
      BY <1>7, <2>1, <3>7, <3>8, <3>9
  <2>4. CASE Open(i)
    <3>1. PICK j : j \in Undecided(i)
      BY <2>4, FS_EmptySet DEF Open
    <3>2. table'[j] \in after /\ table'[j][1] # "mate"
      BY <3>1, <1>2, <1>5 DEF Undecided, after
    <3>3. table'[i] = Draw
      BY <1>1, <1>4, <2>4, LiveKinds
    <3> QED
      BY <1>7, <2>1, <3>2, <3>3
  <2> QED
    BY <1>1, <1>10, <2>2, <2>3, <2>4, SweepFacts
<1> QED
  BY <1>9, <1>10

LEMMA EndSweepStep ==
    ASSUME IInv, EndSweep
    PROVE  IInv'
<1> UNCHANGED <<tb, idx, n, oldMated, newMated, lst, modified>> /\ pc = "next" /\ Sources = {}
  BY DEF EndSweep
<1>1. CASE modified
  <2> UNCHANGED table /\ pc' = "sweep"
    BY <1>1 DEF EndSweep
  <2> Sweeping /\ Sweeping'
    BY DEF Sweeping
  <2>1. TypeOK' /\ AtMated'
    BY SameGraph DEF IInv, TypeOK, AtMated
  <2>2. InverseSoFar' /\ CountedSoFar' /\ ValuesExact' /\ Classified' /\ Explained' /\ Marked'
    BY SameGraph, SameValues
    DEF IInv, InverseSoFar, CountedSoFar, ValuesExact, Classified, Explained, Marked
  <2>3. TakenBack'
    BY NothingPending, SameGraph DEF TakenBack, Pending
  <2> QED
    BY <2>1, <2>2, <2>3 DEF IInv
<1>2. CASE ~modified
  <2> /\ pc' = "done"
      /\ table' = [i \in Pos |-> IF IsRemainingN(table[i]) THEN Draw ELSE table[i]]
    BY <1>2 DEF EndSweep
  <2>1. TypeOK'
    <3>1. \A i \in Pos : table[i] \in Value /\ Draw \in Value
      BY Values DEF IInv, TypeOK
    <3> QED
      BY <3>1, SameGraph DEF IInv, TypeOK
  <2>2. InverseSoFar'
    BY SameGraph DEF IInv, InverseSoFar
  <2> QED
    BY <1>2, <2>1, <2>2, Finished
    DEF IInv, AtMated, Classified, CountedSoFar, Explained, TakenBack, Marked, Sweeping
<1> QED
  BY <1>1, <1>2 DEF IInv, TypeOK

(* The end of a batch: every index of it is done, and those done are the    *)
(* ones before the next batch, or all of them.                              *)
LEMMA BatchDone ==
    ASSUME TypeOK, NEW here, NEW next, here # next, NextBatch(here, next), tb' = tb
    PROVE  /\ idx' \in Nat
           /\ pc' = here => \A i \in Pos : i < idx' <=> i < idx \/ InBatch(i)
           /\ pc' # here => pc' = next /\ \A i \in Pos : i < idx \/ InBatch(i)
BY Indexes DEF TypeOK, NextBatch, InBatch

LEMMA ClassifyStep ==
    ASSUME IInv, MovesInverse, Classify
    PROVE  IInv'
<1> /\ UNCHANGED <<tb, n, oldMated, newMated, lst, modified>> /\ pc = "classify"
    /\ NextBatch("classify", "count")
    /\ table' = [i \in Pos |-> IF ~InBatch(i) THEN table[i]
                               ELSE IF ~Valid(tb, i) THEN Invalid
                               ELSE IF TakesKing(tb, i) THEN MateIn(0)
                               ELSE Unknown]
  BY DEF Classify
<1>1. /\ idx' \in Nat
      /\ pc' = "classify" => \A i \in Pos : i < idx' <=> i < idx \/ InBatch(i)
      /\ pc' # "classify" => pc' = "count" /\ \A i \in Pos : i < idx \/ InBatch(i)
  BY BatchDone DEF IInv
<1>2. pc' = "count" => idx' = 0
  BY DEF NextBatch
<1>3. TypeOK'
  <2>1. table' \in [Pos -> Value]
    <3>1. \A i \in Pos : table[i] \in Value
      BY DEF IInv, TypeOK
    <3>2. {Invalid, MateIn(0), Unknown} \subseteq Value
      BY Values
    <3> QED
      BY <3>1, <3>2
  <2> QED
    BY <1>1, <2>1, SameGraph DEF IInv, TypeOK
<1>4. InverseSoFar'
  BY <1>1, SameGraph DEF IInv, InverseSoFar, MovesInverse
<1>5. \A i \in Pos : i < idx \/ InBatch(i) => Class(i)'
  BY SameGraph DEF IInv, Classified, Class
<1>6. Classified'
  BY <1>1, <1>5, SameGraph DEF IInv, Classified, Sweeping
<1>7. CountedSoFar'
  BY <1>1, <1>2, <1>5, SameGraph, Indexes DEF IInv, CountedSoFar
<1> QED
  BY <1>1, <1>3, <1>4, <1>6, <1>7
  DEF IInv, AtMated, Explained, TakenBack, Marked, ValuesExact, Sweeping

LEMMA CountStep ==
    ASSUME IInv, Count
    PROVE  IInv'
<1> DEFINE counted == {i \in Pos : InBatch(i) /\ table[i] = Unknown}
           mated == {i \in counted : CountMoves(i) = MatedIn(0)}
<1> /\ UNCHANGED <<tb, n, oldMated, lst, modified>> /\ pc = "count" /\ n = 0
    /\ NextBatch("count", "sweep")
    /\ table' = [i \in Pos |-> IF i \in counted THEN CountMoves(i) ELSE table[i]]
    /\ newMated' = newMated \cup {i \div Block : i \in mated}
  BY DEF Count, IInv, Classified
<1>1. /\ idx' \in Nat
      /\ pc' = "count" => \A i \in Pos : i < idx' <=> i < idx \/ InBatch(i)
      /\ pc' # "count" => pc' = "sweep" /\ \A i \in Pos : i < idx \/ InBatch(i)
  BY BatchDone DEF IInv
<1>2. \A i \in Pos : /\ Live(i) => InverseAt(i)
                     /\ ~Live(i) => Class(i)
                     /\ Live(i) /\ ~(i < idx) => Class(i)
                     /\ Live(i) /\ i < idx => Counted(i)
  BY DEF IInv, InverseSoFar, Classified, CountedSoFar
(* No live index has been given a mate.                                     *)
<1>3. \A i \in Pos : Live(i) => table[i][1] # "mate"
  BY <1>2, Values DEF Counted, NoMoves, Class, Live
<1>4. \A i \in counted : Live(i) /\ ~(i < idx)
  <2>1. \A i \in Pos : ~Live(i) => table[i] # Unknown
    BY <1>2, Values DEF Class, Live
  <2> QED
    BY <2>1, Indexes DEF InBatch, IInv, TypeOK
<1>5. ASSUME NEW i \in Pos, Live(i)
      PROVE  /\ Legal(i) = LegalMoves(i)
             /\ InCheck(i) <=> TakesKing(tb, Swap(tb, i))
             /\ CountMoves(i) \in Value
             /\ LegalMoves(i) # {} => Cardinality(LegalMoves(i)) \in Nat \ {0}
  <2>1. ASSUME NEW j \in Pos, Valid(tb, j) PROVE table[j] = MateIn(0) <=> TakesKing(tb, j)
    <3>1. CASE TakesKing(tb, j)
      BY <1>2, <2>1, <3>1 DEF Class, Live
    <3>2. CASE ~TakesKing(tb, j)
      BY <1>3, <2>1, <3>2, Values DEF Live
    <3> QED
      BY <3>1, <3>2
  <2>2. \A j \in Moves(tb, i) \cup {Swap(tb, i)} : j \in Pos /\ Valid(tb, j)
    BY <1>2, <1>5 DEF InverseAt
  <2>3. Legal(i) = LegalMoves(i)
    BY <2>1, <2>2 DEF Legal, LegalMoves, Live
  <2>4. InCheck(i) <=> TakesKing(tb, Swap(tb, i))
    BY <2>1, <2>2 DEF InCheck
  <2>5. LegalMoves(i) # {} => Cardinality(LegalMoves(i)) \in Nat \ {0}
    BY <1>2, <1>5, Moving, FS_CardinalityType, FS_EmptySet DEF IInv
  <2>6. CountMoves(i) \in Value
    BY <2>3, <2>5, Values DEF CountMoves
  <2> QED
    BY <2>3, <2>4, <2>5, <2>6
<1>6. TypeOK'
  <2>1. \A i \in Pos : table[i] \in Value
    BY DEF IInv, TypeOK
  <2>2. table' \in [Pos -> Value]
    BY <1>4, <1>5, <2>1
  <2> QED
    BY <1>1, <2>2, SameGraph DEF IInv, TypeOK
<1>7. InverseSoFar'
  BY <1>1, <1>2, SameGraph DEF InverseSoFar
<1>8. \A i \in Pos : i \notin counted => table'[i] = table[i]
  OBVIOUS
<1>9. ASSUME NEW i \in Pos, Live(i), i < idx \/ InBatch(i)
      PROVE  Counted(i)'
  <2>1. CASE i < idx
    <3>1. table'[i] = table[i] /\ Counted(i)
      BY <1>2, <1>4, <1>8, <1>9, <2>1
    <3> QED
      BY <3>1, SameGraph DEF Counted, NoMoves
  <2>2. CASE ~(i < idx)
    <3>1. i \in counted
      BY <1>2, <1>9, <2>2 DEF Class, Live
    <3>2. table'[i] = CountMoves(i)
      BY <3>1
    <3>3. CountMoves(i) = MatedIn(0) => i \div Block \in newMated'
      BY <3>1
    <3> QED
      BY <1>5, <1>9, <3>2, <3>3, SameGraph DEF CountMoves, Counted, NoMoves
  <2> QED
    BY <2>1, <2>2
<1>10. Classified'
  <2>1. ASSUME NEW i \in Pos, ~Live(i) PROVE Class(i)'
    BY <2>1, <1>2, <1>4, <1>8 DEF Class
  <2> QED
    BY <1>1, <2>1, SameGraph DEF Classified, Sweeping
<1>11. CASE pc' = "count"
  <2>1. ASSUME NEW i \in Pos, Live(i), ~(i < idx') PROVE Class(i)'
    <3>1. i \notin counted /\ Class(i)
      BY <1>1, <1>2, <1>11, <2>1
    <3> QED
      BY <1>8, <3>1 DEF Class
  <2>2. CountedSoFar'
    BY <1>1, <1>9, <1>11, <2>1, SameGraph DEF CountedSoFar
  <2> QED
    BY <1>6, <1>7, <1>10, <1>11, <2>2
    DEF IInv, AtMated, Explained, TakenBack, Marked, ValuesExact, Sweeping
<1>12. CASE pc' = "sweep"
  <2>1. \A i \in Pos : Live(i) => Counted(i)'
    BY <1>1, <1>9, <1>12
  <2>2. \A i \in Pos : Live(i) => table'[i][1] # "mate"
    BY <2>1, SameGraph, Values DEF Counted, NoMoves
  <2>3. Explained'
    <3>1. ASSUME NEW i \in Pos, Live(i) PROVE NoMoves(i)' \/ Open(i)'
      <4>1. Undecided(i)' = LegalMoves(i)
        BY <1>2, <2>2, <3>1, Moving, SameGraph DEF Undecided, IInv
      <4> QED
        BY <1>5, <2>1, <3>1, <4>1, SameGraph DEF Counted, Open
    <3> QED
      BY <3>1, SameGraph DEF Explained
  <2>4. TakenBack'
    BY SameGraph DEF TakenBack, Pending
  <2>5. Marked'
    <3>1. ASSUME NEW i \in Pos, table'[i] = MatedIn(0) PROVE i \div Block \in newMated'
      <4>1. Live(i)
        BY <1>2, <1>4, <1>8, <3>1, Values DEF Class, Live
      <4> QED
        BY <2>1, <3>1, <4>1, Values DEF Counted
    <3> QED
      BY <1>12, <3>1, SameGraph DEF Marked
  <2> QED
    BY <1>6, <1>7, <1>10, <1>12, <2>3, <2>4, <2>5
    DEF IInv, AtMated, CountedSoFar, ValuesExact
<1> QED
  BY <1>1, <1>11, <1>12

(***************************************************************************)
(* The theorems.                                                            *)
(***************************************************************************)
(* The invariant holds as long as takebacks are the inverse of moves in the *)
(* batch that generate is about to classify.                                *)
THEOREM Inductive == Spec /\ []MovesInverse => []IInv
<1>1. Init => IInv
  <2> SUFFICES ASSUME Init PROVE IInv
    OBVIOUS
  <2>1. TypeOK
    <3>1. UnInitialized \in Value
      BY DEF UnInitialized, Value, ValueKinds
    <3> QED
      BY <3>1 DEF Init, TypeOK
  <2>2. \A i \in Pos : ~(i < idx)
    BY <2>1, Indexes DEF Init
  <2> QED
    BY <2>1, <2>2 DEF Init, IInv, AtMated, InverseSoFar, Classified, CountedSoFar, Explained,
                      TakenBack, Marked, ValuesExact, Sweeping
<1>2. IInv /\ MovesInverse /\ [Next]_vars => IInv'
  <2> SUFFICES ASSUME IInv, MovesInverse, [Next]_vars PROVE IInv'
    OBVIOUS
  <2>1. CASE Abort
    BY <2>1, AbortStep
  <2>2. CASE Classify
    BY <2>2, ClassifyStep
  <2>3. CASE Count
    BY <2>3, CountStep
  <2>4. CASE StartSweep
    BY <2>4, StartSweepStep
  <2>5. CASE NextMated
    BY <2>5, NextMatedStep
  <2>6. CASE UnMove
    BY <2>6, UnMoveStep
  <2>7. CASE EndUnMove
    BY <2>7, EndUnMoveStep
  <2>8. CASE EndSweep
    BY <2>8, EndSweepStep
  <2>9. CASE UNCHANGED vars
    <3> UNCHANGED <<tb, table, pc, idx, n, oldMated, newMated, lst, modified>>
      BY <2>9 DEF vars
    <3>1. TypeOK' /\ AtMated' /\ InverseSoFar'
      BY SameGraph DEF IInv, TypeOK, AtMated, InverseSoFar
    <3>2. Classified' /\ Explained' /\ Marked'
      BY SameGraph, SameValues DEF IInv, Classified, Explained, Marked, Sweeping
    <3>3. CountedSoFar' /\ TakenBack'
      BY SameGraph, SameValues DEF IInv, CountedSoFar, Counted, TakenBack, Pending, Sweeping
    <3>4. ValuesExact'
      BY SameGraph DEF IInv, ValuesExact, ValueOf
    <3> QED
      BY <3>1, <3>2, <3>3, <3>4 DEF IInv
  <2> QED
    BY <2>1, <2>2, <2>3, <2>4, <2>5, <2>6, <2>7, <2>8, <2>9 DEF Next
<1> QED
  BY <1>1, <1>2, PTL DEF Spec

(* The counts of remaining moves are exact between two sweeps.              *)
THEOREM CountsExact == Spec /\ []MovesInverse => []RemainingExact
<1>1. IInv => RemainingExact
  <2> SUFFICES ASSUME IInv, pc = "sweep", NEW i \in Pos, IsRemainingN(table[i])
               PROVE  table[i] = Remaining(Cardinality({j \in LegalMoves(i) : table[j][1] # "mate"}))
    BY DEF RemainingExact
  <2> Sweeping
    BY DEF Sweeping
  <2>1. Live(i) /\ Open(i)
    BY SweepFacts, LiveKinds DEF IsRemainingN
  <2> QED
    BY <2>1 DEF Open, Undecided
<1> QED
  BY <1>1, Inductive, PTL

(* A finished table holds the distances to mate of every position.          *)
THEOREM TableExact == Spec /\ []MovesInverse => []ValuesExact
<1>1. IInv => ValuesExact
  BY DEF IInv
<1> QED
  BY <1>1, Inductive, PTL
=============================================================================
