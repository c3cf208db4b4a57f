--------------------------- MODULE MCWdlCompress ---------------------------
(* Small tables for TLC, on a board of 3 x 3 squares.  The rules of chess   *)
(* are those of the game; pawns neither promote nor move two squares.       *)
EXTENDS WdlCompress

None == <<0, 0, 0, 0, 0>>
KRK == [white |-> None, black |-> <<0, 1, 0, 0, 0>>, values |-> "won"]
KPK == [white |-> <<0, 0, 0, 0, 1>>, black |-> None, values |-> "drawish"]
KNNK == [white |-> <<0, 0, 0, 2, 0>>, black |-> None, values |-> "mixed"]
AllTables == {KRK, KPK, KNNK}

Color(pos) == IF pos.wtm THEN "w" ELSE "b"
PiecesOf(pos, color) == UNION {pos.bb[type] : type \in {t \in PieceTypes : t[1] = color}}
Men(pos) == PiecesOf(pos, "w") \cup PiecesOf(pos, "b")
Forward(color) == IF color = "w" THEN 1 ELSE -1
Attacked(pos, type, sq) ==
    IF type[2] = "P" THEN Jumps(sq, {<<1, Forward(type[1])>>, <<-1, Forward(type[1])>>})
    ELSE Attacks(type[2], sq, Men(pos))
TakesKing(pos) ==
    \E type \in PieceTypes :
        /\ type[1] = Color(pos)
        /\ \E sq \in pos.bb[type] : King(pos, Other(Color(pos))) \in Attacked(pos, type, sq)

Moved(pos, type, from, to) ==
    [wtm |-> ~pos.wtm,
     bb |-> [t \in PieceTypes |-> IF t = type THEN (pos.bb[t] \ {from}) \cup {to} ELSE pos.bb[t] \ {to}]]
Targets(pos, type, sq) ==
    LET enemies == PiecesOf(pos, Other(type[1]))
        hit == Attacked(pos, type, sq)
    IN  IF type[2] = "P" THEN (hit \cap enemies) \cup (Jumps(sq, {<<0, Forward(type[1])>>}) \ Men(pos))
        ELSE hit \ PiecesOf(pos, type[1])
PseudoMoves(pos) ==
    UNION {UNION {{<<type, sq, to>> : to \in Targets(pos, type, sq)} : sq \in pos.bb[type]}
            : type \in {t \in PieceTypes : t[1] = Color(pos)}}
IsLegal(pos, m) == ~TakesKing(Moved(pos, m[1], m[2], m[3]))
LegalMove(pos) == \E m \in PseudoMoves(pos) : IsLegal(pos, m)
Captures(pos) == {m \in PseudoMoves(pos) : m[3] \in Men(pos) /\ IsLegal(pos, m)}

(* Values: taking the last piece draws; else the side with more pieces has  *)
(* one of several values, which depends on where the pieces are.            *)
Squared(pos) == SumSet(Men(pos)) + King(pos, "w")
AfterCapture(tb, pos) == IF Captures(pos) = {} THEN {} ELSE {0}
Value(tb, pos) ==
    LET n == Squared(pos)
        white == CASE tb.values = "won" -> IF n % 5 = 0 THEN 1 ELSE 2
                   [] tb.values = "drawish" -> n % 3
                   [] tb.values = "mixed" -> (n % 5) - 2
        mover == IF pos.wtm THEN white ELSE -white
    IN  Max({mover} \cup AfterCapture(tb, pos))

Predicates == {"wtm", "near"}
PredicateHolds(p, pos, capt) ==
    CASE p = "wtm" -> pos.wtm
      [] p = "near" -> King(pos, "b") - King(pos, "w") <= 4
ChunkOf(i) == (i \div 2) % 2
=============================================================================
