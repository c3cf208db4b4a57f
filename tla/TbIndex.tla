------------------------------ MODULE TbIndex ------------------------------
(* TBIndex and TBPosition of tbgen.cpp: positions without pawns, numbered,  *)
(* with moves and takebacks of a move.  Piece 0 is the white king and piece *)
(* nWhite the black one; a captured piece stands on the black king's square.*)
(* An index is a king number, the side to move and the squares of pieces    *)
(* 1 .. p-1.                                                                *)
EXTENDS BitBoard, Sequences, SequencesExt

Rep(kind, n) == [k \in 1 .. n |-> kind]
(* The pieces of one side for its counts of queens, rooks, bishops, knights.*)
SideKinds(c) == <<"K">> \o Rep("N", c[4]) \o Rep("B", c[3]) \o Rep("R", c[2]) \o Rep("Q", c[1])
(* t describes the pieces of one table; pc holds the counts of both sides.  *)
TBPosition(pc) ==
    LET kinds == SideKinds(pc.white) \o SideKinds(pc.black)
        nw == Len(SideKinds(pc.white))
        type == [n \in 0 .. Len(kinds) - 1 |-> <<n < nw, kinds[n + 1]>>]
    IN  [p |-> Len(kinds), nWhite |-> nw, type |-> type,
         dup |-> \E m, n \in DOMAIN type : m # n /\ type[m] = type[n]]

MirrorX(sq) == SquareAt(Side - 1 - X(sq), Y(sq))
MirrorY(sq) == SquareAt(X(sq), Side - 1 - Y(sq))
MirrorD(sq) == SquareAt(Y(sq), X(sq))
Images(sq) ==
    LET xy == {sq, MirrorX(sq), MirrorY(sq), MirrorX(MirrorY(sq))} IN xy \cup {MirrorD(s) : s \in xy}
(* The squares the white king is mapped to, in ascending order.             *)
KingMapInverse == SetToSortSeq({Min(Images(sq)) : sq \in Squares}, <)
KingMap == [sq \in Squares |-> CHOOSE k \in DOMAIN KingMapInverse : KingMapInverse[k] = Min(Images(sq))]
OnDiagonal(sq) == X(sq) = Y(sq)

(* The mirror operations that take a white king on sq to its king square,   *)
(* applied to another square s.                                             *)
SymType(sq, s) ==
    LET right == X(sq) >= Side \div 2
        top == Y(sq) >= Side \div 2
        x == IF right THEN Side - 1 - X(sq) ELSE X(sq)
        y == IF top THEN Side - 1 - Y(sq) ELSE Y(sq)
        s1 == IF right THEN MirrorX(s) ELSE s
        s2 == IF top THEN MirrorY(s1) ELSE s1
    IN  IF y > x THEN MirrorD(s2) ELSE s2

GetSquare(i, n) == IF n = 0 THEN KingMapInverse[i.king] ELSE i.sq[n]
SwapSide(i) == [i EXCEPT !.white = ~i.white]
SetSquare(t, i, n, square) ==
    IF n = 0 THEN [i EXCEPT !.king = KingMap[square],
                            !.sq = [m \in DOMAIN i.sq |-> SymType(square, i.sq[m])]]
    ELSE IF n = t.nWhite
    THEN [i EXCEPT !.sq = [m \in DOMAIN i.sq |-> IF i.sq[m] = i.sq[n] THEN square ELSE i.sq[m]]]
    ELSE [i EXCEPT !.sq[n] = square]

(* The number of an index; the fields are bit fields of it, king first.     *)
Number(i) == FoldLeft(LAMBDA acc, s : acc * Side * Side + s,
                      2 * (i.king - 1) + (IF i.white THEN 1 ELSE 0), i.sq)
NPos(t) == 2 * Len(KingMapInverse) * (Side * Side) ^ (t.p - 1)
IndexOf(t, number) ==
    LET unit(m) == (Side * Side) ^ (t.p - 1 - m)
    IN  [king |-> number \div (2 * unit(0)) + 1,
         white |-> (number \div unit(0)) % 2 = 1,
         sq |-> [m \in 1 .. t.p - 1 |-> (number \div unit(m)) % (Side * Side)]]

(* Equal pieces in ascending order of their squares.                        *)
SortPieces(t, i) ==
    LET same(n) == {m \in DOMAIN i.sq : t.type[m] = t.type[n]}
        rank(n) == Cardinality({m \in same(n) : m < n})
        sorted(n) == CHOOSE s \in {i.sq[m] : m \in same(n)} :
                        /\ Cardinality({m \in same(n) : i.sq[m] < s}) <= rank(n)
                        /\ Cardinality({m \in same(n) : i.sq[m] <= s}) > rank(n)
    IN  IF t.dup THEN [i EXCEPT !.sq = [n \in DOMAIN i.sq |-> sorted(n)]] ELSE i
(* With the white king on the diagonal there are two mirror images; the one *)
(* with the smaller number is used.                                         *)
Canonize(t, i) ==
    LET a == SortPieces(t, i)
        b == SortPieces(t, [a EXCEPT !.sq = [n \in DOMAIN a.sq |-> MirrorD(a.sq[n])]])
    IN  IF OnDiagonal(GetSquare(i, 0)) /\ Number(b) < Number(a) THEN b ELSE a

Occupied(t, i) == {GetSquare(i, n) : n \in DOMAIN t.type}
BKing(t, i) == i.sq[t.nWhite]
Present(t, i, n) == n = t.nWhite \/ GetSquare(i, n) # BKing(t, i)
SideToMove(t, i) == {n \in DOMAIN t.type : t.type[n][1] = i.white}
OtherSide(t, i) == DOMAIN t.type \ SideToMove(t, i)
Kings(t) == {0, t.nWhite}

IndexValid(t, i) ==
    /\ GetSquare(i, 0) # BKing(t, i)
    /\ \A m, n \in DOMAIN t.type :
        m # n /\ GetSquare(i, m) = GetSquare(i, n) => GetSquare(i, m) = BKing(t, i)
    /\ Canonize(t, i) = i

CanTakeKing(t, i) ==
    LET king == GetSquare(i, IF i.white THEN t.nWhite ELSE 0)
    IN  \E n \in SideToMove(t, i) :
            /\ Present(t, i, n)
            /\ king \in Attacks(t.type[n][2], GetSquare(i, n), Occupied(t, i))

(* All indexes after a pseudo-legal move.                                   *)
GetMoves(t, i) ==
    LET occupied == Occupied(t, i)
        after(n, to) ==
            LET hit == {m \in OtherSide(t, i) \ Kings(t) : GetSquare(i, m) = to}
                taken == IF hit = {} THEN i ELSE SetSquare(t, i, Min(hit), BKing(t, i))
            IN  Canonize(t, SwapSide(SetSquare(t, taken, n, to)))
        free(to) == \/ to \notin occupied
                    \/ \E m \in OtherSide(t, i) \ Kings(t) : GetSquare(i, m) = to
    IN  UNION {{after(n, to) : to \in {s \in Attacks(t.type[n][2], GetSquare(i, n), occupied)
                                            : s # BKing(t, i) /\ free(s)}}
                : n \in {m \in SideToMove(t, i) : Present(t, i, m)}}

(* A bug: the step comes first for every piece.                             *)
UntakeStepFirst(t, i, n, from, m, to) == SetSquare(t, SetSquare(t, i, n, from), m, to)

(* Piece n steps back from square to, and piece m reappears there.  A step  *)
(* of the black king takes the missing pieces along, so it comes first; one *)
(* of the white king may mirror the board, so it comes last.                *)
Untake(t, i, n, from, m, to) ==
    IF n = t.nWhite THEN SetSquare(t, SetSquare(t, i, n, from), m, to)
                    ELSE SetSquare(t, SetSquare(t, i, m, to), n, from)
(* All indexes from which a pseudo-legal move leads to i: a piece of the    *)
(* other side steps back, and a missing piece may reappear where it stood.  *)
GetUnMoves(t, i) ==
    LET occupied == Occupied(t, i)
        missing == {m \in SideToMove(t, i) \ Kings(t) : ~Present(t, i, m)}
        before(n, from) ==
            {SetSquare(t, i, n, from)} \cup
            {Untake(t, i, n, from, m, GetSquare(i, n)) : m \in missing}
    IN  {Canonize(t, SwapSide(b)) : b \in
            UNION {UNION {before(n, from)
                        : from \in Attacks(t.type[n][2], GetSquare(i, n), occupied) \ occupied}
                : n \in {m \in OtherSide(t, i) : Present(t, i, m)}}}
=============================================================================
