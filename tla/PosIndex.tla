------------------------------ MODULE PosIndex ------------------------------
(* PosIndex and KingIndex (posindex.cpp): the numbering of the positions of *)
(* one material, on a board of Side x Side squares.  A position is the side *)
(* to move and a bit board for each type of piece.                          *)
(* An index is a number with mixed radix: the side to move, the kings, then *)
(* for every type of piece which of the squares left to it are occupied.    *)
EXTENDS BitBoard, TLC, SequencesExt

CONSTANTS WordBits    \* bits of an index (64)
ASSUME WordAssumption == WordBits \in Nat \ {0}

(* The order in which the types are numbered.                               *)
PieceKinds == <<"Q", "R", "B", "N", "P">>
PieceTypes == {"w", "b"} \X {"K", "Q", "R", "B", "N", "P"}
TypeOrder == <<<<"w", "P">>, <<"b", "P">>, <<"w", "N">>, <<"b", "N">>, <<"w", "B">>,
               <<"b", "B">>, <<"w", "R">>, <<"b", "R">>, <<"w", "Q">>, <<"b", "Q">>>>
IsPawn(type) == type[2] = "P"
Other(color) == IF color = "w" THEN "b" ELSE "w"

(* Number of ways to put b pieces on a squares.                             *)
BinCoeff[a \in 0 .. Side * Side, b \in 0 .. 8] ==
    IF b = 0 THEN 1 ELSE (BinCoeff[a, b - 1] * (a - b + 1)) \div b

(* modDiv of a Divider divides by multiplying with a scaled inverse.        *)
FloorLog2(d) == CHOOSE s \in 0 .. d : 2 ^ s <= d /\ d < 2 ^ (s + 1)
DividesExactly(d) == d = 1 \/ 2 ^ FloorLog2(d) # d      \* the assertion
ModDiv(d, n) ==
    LET s == FloorLog2(d)
        m == (2 ^ (WordBits + s) + d - 1) \div d
        q == ((n * m) \div 2 ^ WordBits) \div 2 ^ s
    IN  IF d = 1 THEN [q |-> n, r |-> 0] ELSE [q |-> q, r |-> n - q * d]

-----------------------------------------------------------------------------
(* Kings.  A symmetry may mirror left and right, up and down, and in the    *)
(* diagonal; with pawns only left and right.                                *)
SymmetryTypes(hasPawn) == IF hasPawn THEN {0, 4} ELSE 0 .. 7
SymmetryRemap(type, sq) ==
    LET x == IF type \div 4 = 1 THEN Side - 1 - X(sq) ELSE X(sq)
        y == IF (type \div 2) % 2 = 1 THEN Side - 1 - Y(sq) ELSE Y(sq)
    IN  IF type % 2 = 1 THEN SquareAt(y, x) ELSE SquareAt(x, y)
KingScore(w, b) == w * Side * Side + b
KingPairs == {kings \in Squares \X Squares :
                kings[1] # kings[2] /\ kings[2] \notin KingAttacks[kings[1]]}
SymmetryType(hasPawn, w, b) ==
    LET score(type) == KingScore(SymmetryRemap(type, w), SymmetryRemap(type, b))
    IN  CHOOSE type \in SymmetryTypes(hasPawn) :
            \A other \in SymmetryTypes(hasPawn) :
                \/ score(type) < score(other)
                \/ score(type) = score(other) /\ type <= other
(* The pairs of kings that stand for all pairs that mirror each other, in   *)
(* the order in which a scan of all pairs first meets them.                 *)
Representatives(hasPawn) ==
    SelectSeq([n \in 1 .. Side ^ 4 |-> <<(n - 1) \div (Side * Side), (n - 1) % (Side * Side)>>],
              LAMBDA kings : /\ kings \in KingPairs
                             /\ SymmetryType(hasPawn, kings[1], kings[2]) = 0)
IdxToKingNoPawn == Representatives(FALSE)
IdxToKingPawn == Representatives(TRUE)
IdxToKings(hasPawn) == IF hasPawn THEN IdxToKingPawn ELSE IdxToKingNoPawn
KingFactor(hasPawn) == Len(IdxToKings(hasPawn))
KingPairNumber(hasPawn, kings) ==
    (CHOOSE n \in DOMAIN IdxToKings(hasPawn) : IdxToKings(hasPawn)[n] = kings) - 1

-----------------------------------------------------------------------------
(* All sets of b of the numbers below a, each the successor of the last.    *)
NextComb(set) ==
    LET i == CHOOSE k \in set : k + 1 \notin set /\ \A j \in set : j < k => j + 1 \in set
    IN  {j \in set : j > i} \cup {i + 1} \cup (0 .. Cardinality({j \in set : j < i}) - 1)
CombInverse(a, b) ==
    FoldLeft(LAMBDA combs, n : Append(combs, NextComb(Last(combs))), <<0 .. b - 1>>,
             [n \in 1 .. BinCoeff[a, b] - 1 |-> n])

(* The description of a material: counts of queens, rooks, bishops, knights *)
(* and pawns of both sides.  White gets the stronger side.                  *)
PieceCount(counts) == FoldLeft(LAMBDA sum, n : sum + n, 0, counts)
Weaker(a, b) == \/ PieceCount(a) < PieceCount(b)
                \/ /\ PieceCount(a) = PieceCount(b)
                   /\ \E n \in DOMAIN a : a[n] < b[n] /\ \A m \in 1 .. n - 1 : a[m] = b[m]
Material(white, black) ==
    LET w == IF Weaker(white, black) THEN black ELSE white
        b == IF Weaker(white, black) THEN white ELSE black
        kind(type) == CHOOSE n \in DOMAIN PieceKinds : PieceKinds[n] = type[2]
        count == [type \in ToSet(TypeOrder) |->
                    IF type[1] = "w" THEN w[kind(type)] ELSE b[kind(type)]]
        earlier(n) == {TypeOrder[m] : m \in 1 .. n - 1}
        placed(n) == FoldLeft(LAMBDA sum, m : sum + count[TypeOrder[m]], 0, [m \in 1 .. n - 1 |-> m])
        free(n) == Side * Side - placed(n) - (IF IsPawn(TypeOrder[n]) THEN 2 * Side ELSE 2)
        ways(n) == BinCoeff[free(n), count[TypeOrder[n]]]
    IN  [count |-> count, hasPawn |-> w[5] + b[5] > 0, symmetric |-> w = b,
         side |-> IF w = b THEN 1 ELSE 2,
         \* the types that there are, in how many ways they can be placed, and
         \* the product of these numbers for the later ones
         present |-> SelectSeq([n \in DOMAIN TypeOrder |-> n], LAMBDA n : count[TypeOrder[n]] > 0),
         factor |-> [n \in DOMAIN TypeOrder |-> ways(n)],
         unit |-> [n \in DOMAIN TypeOrder |->
                    FoldLeft(LAMBDA u, m : IF m > n THEN u * ways(m) ELSE u, 1,
                             [m \in DOMAIN TypeOrder |-> m])],
         size |-> FoldLeft(LAMBDA prod, n : prod * ways(n), (IF w = b THEN 1 ELSE 2) * KingFactor(w[5] + b[5] > 0),
                           [n \in DOMAIN TypeOrder |-> n]),
         combInv |-> [n \in DOMAIN TypeOrder |-> CombInverse(free(n), count[TypeOrder[n]])]]

(* Squares that a type cannot have: before the pieces, pawns are placed on  *)
(* the ranks between the first and the last.                                *)
FirstAndLastRank == {sq \in Squares : Y(sq) \in {0, Side - 1}}
Occupied(bb, n) ==
    LET earlier == UNION {bb[TypeOrder[m]] : m \in 1 .. n - 1}
    IN  IF IsPawn(TypeOrder[n]) THEN FirstAndLastRank \cup earlier
        ELSE bb[<<"w", "K">>] \cup bb[<<"b", "K">>] \cup earlier
FreeBelow(sq, occupied) == Cardinality({s \in Squares \ occupied : s < sq})

MirrorRank(sq) == SquareAt(X(sq), Side - 1 - Y(sq))
SwapColors(pos) ==
    [wtm |-> ~pos.wtm,
     bb |-> [type \in PieceTypes |-> {MirrorRank(sq) : sq \in pos.bb[<<Other(type[1]), type[2]>>]}]]
King(pos, color) == CHOOSE sq \in pos.bb[<<color, "K">>] : TRUE

(* The number of a set of squares among those of its size.                  *)
CombIndex(squares, occupied) ==
    FoldLeft(LAMBDA sum, n : sum + n, 0, [n \in 1 .. Cardinality(squares) |->
        LET sq == CHOOSE s \in squares : Cardinality({r \in squares : r <= s}) = n
        IN  BinCoeff[FreeBelow(sq, occupied), n]])
(* A bug: the squares are counted without the occupied ones before them.    *)
FreeSquareAny(n, occupied) == n
FreeSquare(n, occupied) ==
    CHOOSE sq \in Squares \ occupied : FreeBelow(sq, occupied) = n

-----------------------------------------------------------------------------
(* The number of a position.  The one that it returns with it stands for    *)
(* all its mirror images, and always has white to move.                     *)
MustSwap(t, pos) ==
    \/ t.symmetric /\ ~pos.wtm
    \/ \E n \in DOMAIN TypeOrder : /\ TypeOrder[n][1] = "w"
                                  /\ Cardinality(pos.bb[TypeOrder[n]]) # t.count[TypeOrder[n]]
Pos2Index(t, pos0) ==
    LET pos == IF MustSwap(t, pos0) THEN SwapColors(pos0) ELSE pos0
        kings == <<King(pos, "w"), King(pos, "b")>>
        sym == SymmetryType(t.hasPawn, kings[1], kings[2])
        bb == [type \in PieceTypes |-> {SymmetryRemap(sym, sq) : sq \in pos.bb[type]}]
        symKings == <<SymmetryRemap(sym, kings[1]), SymmetryRemap(sym, kings[2])>>
        first == (IF pos.wtm THEN 0 ELSE 1) * KingFactor(t.hasPawn)
                    + KingPairNumber(t.hasPawn, symKings)
        add(ret, n) == ret * BinCoeff[Side * Side - Cardinality(Occupied(bb, n)),
                                      Cardinality(bb[TypeOrder[n]])]
                        + CombIndex(bb[TypeOrder[n]], Occupied(bb, n))
    IN  [index |-> FoldLeft(add, first, t.present),
         pos |-> [wtm |-> TRUE, bb |-> bb]]

(* A digit of an index.  The dividers of the digits behind it, which are    *)
(* exact, leave the quotient by the product of their factors.               *)
Digit(t, idx, n) == ModDiv(t.factor[n], idx \div t.unit[n]).r
KingsAndSide(t, idx) == ModDiv(KingFactor(t.hasPawn), idx \div (t.unit[1] * t.factor[1]))
(* The position of a number; not valid when a pawn stands on a king.        *)
Index2Pos(t, idx) ==
    LET front == KingsAndSide(t, idx)
        kings == IdxToKings(t.hasPawn)[front.r + 1]
        empty == [type \in PieceTypes |-> CASE type = <<"w", "K">> -> {kings[1]}
                                            [] type = <<"b", "K">> -> {kings[2]}
                                            [] OTHER -> {}]
        place(bb, n) ==
            (TypeOrder[n] :> {FreeSquare(k, Occupied(bb, n)) : k \in t.combInv[n][Digit(t, idx, n) + 1]})
                @@ bb
        pawns == FoldLeft(place, empty, SelectSeq(t.present, LAMBDA n : n <= 2))
        valid == {kings[1], kings[2]} \cap (pawns[TypeOrder[1]] \cup pawns[TypeOrder[2]]) = {}
    IN  [valid |-> valid,
         pos |-> [wtm |-> t.side = 1 \/ front.q = 0,
                  bb |-> IF valid THEN FoldLeft(place, pawns, SelectSeq(t.present, LAMBDA n : n > 2))
                         ELSE pawns]]
=============================================================================
