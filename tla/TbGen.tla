------------------------------- MODULE TbGen -------------------------------
(* TBGenerator of tbgen.cpp: retrograde analysis of one endgame table, and  *)
(* the probe of its values.  The generator sees chess only through indexes, *)
(* their moves and takebacks, so it is stated for any such graph; TbIndex   *)
(* gives the graphs of chess.                                               *)
EXTENDS Integers, FiniteSets

CONSTANTS Tables,           \* the tables that may be generated
          NPositions(_),    \* a table's indexes are 0 .. NPositions(tb) - 1
          Valid(_, _),      \* whether an index is one of a position
          TakesKing(_, _),  \* whether the side to move can take the king
          Moves(_, _),      \* the indexes after a move
          UnMoves(_, _),    \* the indexes before a move
          Swap(_, _),       \* the index with the other side to move
          Batch,            \* positions between two looks at the clock (65536)
          Block             \* positions for one flag of newMated (64)

ASSUME GeneratorAssumption ==
    /\ Batch \in Nat \ {0} /\ Block \in Nat \ {0}
    /\ \A t \in Tables : NPositions(t) \in Nat

VARIABLES tb,       \* the table (pieceCount)
          table,    \* the value of each index
          pc,       \* where generate is
          idx,      \* the loop variable over indexes
          n,        \* the distance in moves of the current sweep
          oldMated, newMated, \* blocks with positions mated in n-1 and in n
          lst,      \* takebacks from idx not yet looked at
          modified  \* whether the sweep has found a position mate in n
vars == <<tb, table, pc, idx, n, oldMated, newMated, lst, modified>>

Pos == 0 .. NPositions(tb) - 1

(* PositionValue; UNKNOWN is REMAINING_0, as in the code.                   *)
MateIn(k) == <<"mate", k>>
MatedIn(k) == <<"mated", k>>
Remaining(k) == <<"remaining", k>>
Unknown == Remaining(0)
Draw == <<"draw", 0>>
Invalid == <<"invalid", 0>>
UnInitialized == <<"uninitialized", 0>>
IsComputed(v) == v[1] \in {"mate", "mated", "draw", "invalid"}
IsRemainingN(v) == v[1] = "remaining" /\ v[2] > 0

Init ==
    /\ tb \in Tables
    /\ table = [i \in Pos |-> UnInitialized]
    /\ pc = "classify" /\ idx = 0 /\ n = 0
    /\ oldMated = {} /\ newMated = {} /\ lst = {} /\ modified = FALSE

(* The thinking time may be used up, or the search stopped, at every look.  *)
Abort ==
    /\ pc \in {"classify", "count", "sweep"}
    /\ pc' = "aborted"
    /\ UNCHANGED <<tb, table, idx, n, oldMated, newMated, lst, modified>>

(* The two loops over all positions, one batch at a time.                   *)
InBatch(i) == idx <= i /\ i < idx + Batch
NextBatch(here, next) ==
    IF idx + Batch < NPositions(tb) THEN idx' = idx + Batch /\ pc' = here
                                    ELSE idx' = 0 /\ pc' = next

Classify ==
    /\ pc = "classify"
    /\ table' = [i \in Pos |->
                    IF ~InBatch(i) THEN table[i]
                    ELSE IF ~Valid(tb, i) THEN Invalid
                    ELSE IF TakesKing(tb, i) THEN MateIn(0)
                    ELSE Unknown]
    /\ NextBatch("classify", "count")
    /\ UNCHANGED <<tb, n, oldMated, newMated, lst, modified>>

(* Moves that leave the own king to be taken are not counted; the others    *)
(* are counted once for each index they lead to.                            *)
Legal(i) == {j \in Moves(tb, i) : table[j] # MateIn(0)}
InCheck(i) == table[Swap(tb, i)] = MateIn(0)
(* A bug: all moves are counted.                                            *)
CountMovesAll(i) ==
    IF Legal(i) # {} THEN Remaining(Cardinality(Moves(tb, i)))
    ELSE IF InCheck(i) THEN MatedIn(0) ELSE Draw
CountMoves(i) ==
    IF Legal(i) # {} THEN Remaining(Cardinality(Legal(i)))
    ELSE IF InCheck(i) THEN MatedIn(0) ELSE Draw

Count ==
    /\ pc = "count"
    /\ LET counted == {i \in Pos : InBatch(i) /\ table[i] = Unknown}
           mated == {i \in counted : CountMoves(i) = MatedIn(0)}
       IN  /\ table' = [i \in Pos |-> IF i \in counted THEN CountMoves(i) ELSE table[i]]
           /\ newMated' = newMated \cup {i \div Block : i \in mated}
    /\ NextBatch("count", "sweep")
    /\ UNCHANGED <<tb, n, oldMated, lst, modified>>

StartSweep ==
    /\ pc = "sweep"
    /\ n' = n + 1 /\ modified' = FALSE
    /\ oldMated' = newMated /\ newMated' = {}
    /\ idx' = 0 /\ pc' = "next"
    /\ UNCHANGED <<tb, table, lst>>

(* The next position mated in n-1, in blocks that are marked to have some.  *)
Sources == {i \in Pos : i >= idx /\ i \div Block \in oldMated /\ table[i] = MatedIn(n - 1)}
NextMated ==
    /\ pc = "next"
    /\ \E i \in Sources :
        /\ \A j \in Sources : i <= j
        /\ idx' = i
        /\ lst' = UnMoves(tb, i)
    /\ pc' = "unmove"
    /\ UNCHANGED <<tb, table, n, oldMated, newMated, modified>>

(* A takeback j of idx becomes mate in n; each takeback of j has one move   *)
(* less, and is mated in n if that was the last.                            *)
(* A bug: the mated position gets the distance of the one it came from.     *)
DecRemainingEarly(v) == IF v = Remaining(1) THEN MatedIn(n - 1) ELSE Remaining(v[2] - 1)
DecRemaining(v) == IF v = Remaining(1) THEN MatedIn(n) ELSE Remaining(v[2] - 1)
UnMove ==
    /\ pc = "unmove" /\ lst # {}
    /\ \E j \in lst :
        /\ \A k \in lst : j <= k
        /\ lst' = lst \ {j}
        /\ IF IsComputed(table[j]) THEN UNCHANGED <<table, newMated, modified>>
           ELSE LET less == {k \in UnMoves(tb, j) \ {j} : IsRemainingN(table[k])}
                IN  /\ table' = [k \in Pos |-> IF k = j THEN MateIn(n)
                                               ELSE IF k \in less THEN DecRemaining(table[k])
                                               ELSE table[k]]
                    /\ newMated' = newMated \cup
                            {k \div Block : k \in {l \in less : table[l] = Remaining(1)}}
                    /\ modified' = TRUE
    /\ UNCHANGED <<tb, pc, idx, n, oldMated>>

EndUnMove ==
    /\ pc = "unmove" /\ lst = {}
    /\ idx' = idx + 1 /\ pc' = "next"
    /\ UNCHANGED <<tb, table, n, oldMated, newMated, lst, modified>>

(* After the last sweep what is left is drawn.                              *)
(* A bug: the first sweep is the last.                                      *)
EndSweepAtOnce ==
    /\ pc = "next" /\ Sources = {}
    /\ pc' = "done"
    /\ table' = [i \in Pos |-> IF IsRemainingN(table[i]) THEN Draw ELSE table[i]]
    /\ UNCHANGED <<tb, idx, n, oldMated, newMated, lst, modified>>
EndSweep ==
    /\ pc = "next" /\ Sources = {}
    /\ IF modified THEN pc' = "sweep" /\ UNCHANGED table
       ELSE /\ pc' = "done"
            /\ table' = [i \in Pos |-> IF IsRemainingN(table[i]) THEN Draw ELSE table[i]]
    /\ UNCHANGED <<tb, idx, n, oldMated, newMated, lst, modified>>

Next ==
    \/ Abort \/ Classify \/ Count \/ StartSweep \/ NextMated
    \/ UnMove \/ EndUnMove \/ EndSweep
Spec == Init /\ [][Next]_vars

(***************************************************************************)
(* What is checked.  A position is live if it is one and no king can be     *)
(* taken; its legal moves are those to live positions.                      *)
(***************************************************************************)
Live(i) == Valid(tb, i) /\ ~TakesKing(tb, i)
LegalMoves(i) == {j \in Moves(tb, i) : Live(j)}

(* getUnMoves finds exactly the positions from which getMoves finds the     *)
(* move: the counts of remaining moves are right only if every move that is *)
(* counted is taken back once.  It must hold for mirrored boards, captured  *)
(* pieces, and equal pieces that change places when they are sorted.  Moves *)
(* lead to positions, and so does giving the move to the other side.        *)
InverseAt(i) ==
    /\ \A j \in Moves(tb, i) \cup {Swap(tb, i)} : j \in Pos /\ Valid(tb, j)
    /\ UnMoves(tb, i) \subseteq Pos
    /\ \A j \in LegalMoves(i) : i \in UnMoves(tb, j)
    /\ \A j \in {k \in UnMoves(tb, i) : Live(k)} : i \in Moves(tb, j)
MovesInverse == pc = "classify" => \A i \in {j \in Pos : InBatch(j) /\ Live(j)} : InverseAt(i)

(* Between two sweeps the number of remaining moves of an undecided         *)
(* position is that of its legal moves that do not yet win for the opponent.*)
RemainingExact ==
    pc = "sweep" =>
        \A i \in {j \in Pos : IsRemainingN(table[j])} :
            table[i] = Remaining(Cardinality({j \in LegalMoves(i) : table[j][1] # "mate"}))

(* A finished table holds the distances to mate: a win goes to the quickest *)
(* loss, a loss to the slowest wins only, and all else is drawn.            *)
ValueAfter(after, check) ==
    LET losses == {v[2] : v \in {w \in after : w[1] = "mated"}}
        wins == {v[2] : v \in {w \in after : w[1] = "mate"}}
    IN  IF losses # {} THEN MateIn(1 + CHOOSE k \in losses : \A l \in losses : k <= l)
        ELSE IF after = {} THEN IF check THEN MatedIn(0) ELSE Draw
        ELSE IF \A v \in after : v[1] = "mate"
        THEN MatedIn(CHOOSE k \in wins : \A l \in wins : k >= l)
        ELSE Draw
ValueOf(i) == ValueAfter({table[j] : j \in LegalMoves(i)}, TakesKing(tb, Swap(tb, i)))
ValuesExact == pc = "done" => \A i \in {j \in Pos : Live(j)} : table[i] = ValueOf(i)
=============================================================================
