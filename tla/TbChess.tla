------------------------------ MODULE TbChess ------------------------------
(* The tables of tbgen.cpp for chess: TbGen on the graphs of TbIndex, and   *)
(* what probeDTM answers for a position on the board.  A table is given by  *)
(* its PieceCount, the numbers of queens, rooks, bishops and knights of each*)
(* side.                                                                    *)
EXTENDS TbIndex, TbGen

Numbers(indexes) == {Number(i) : i \in indexes}
ChessNPositions(b) == NPos(TBPosition(b))
ChessValid(b, i) == LET t == TBPosition(b) IN IndexValid(t, IndexOf(t, i))
ChessTakesKing(b, i) == LET t == TBPosition(b) IN CanTakeKing(t, IndexOf(t, i))
ChessMoves(b, i) == LET t == TBPosition(b) IN Numbers(GetMoves(t, IndexOf(t, i)))
ChessUnMoves(b, i) == LET t == TBPosition(b) IN Numbers(GetUnMoves(t, IndexOf(t, i)))
ChessSwap(b, i) == Number(SwapSide(IndexOf(TBPosition(b), i)))

(***************************************************************************)
(* Positions on the board: who moves, and the piece on each occupied square*)
(***************************************************************************)
(* All boards with at most the pieces of the table.                         *)
Boards(b) ==
    LET t == TBPosition(b)
        placements == {f \in [DOMAIN t.type -> Squares \cup {-1}] :
                        /\ \A m \in Kings(t) : f[m] # -1
                        /\ \A l, m \in DOMAIN t.type : l # m /\ f[l] = f[m] => f[l] = -1}
        board(f) == [s \in {f[m] : m \in DOMAIN t.type} \ {-1} |->
                        t.type[CHOOSE m \in DOMAIN t.type : f[m] = s]]
    IN  [white : BOOLEAN, at : {board(f) : f \in placements}]

KingOf(pos, white) == CHOOSE s \in DOMAIN pos.at : pos.at[s] = <<white, "K">>
(* The side that moves can take the other king.                             *)
KingHangs(pos) ==
    \E s \in DOMAIN pos.at :
        /\ pos.at[s][1] = pos.white
        /\ KingOf(pos, ~pos.white) \in Attacks(pos.at[s][2], s, DOMAIN pos.at)
IsCheck(pos) == KingHangs([pos EXCEPT !.white = ~pos.white])
MovePiece(pos, from, to) ==
    [white |-> ~pos.white,
     at |-> [s \in (DOMAIN pos.at \cup {to}) \ {from} |->
                IF s = to THEN pos.at[from] ELSE pos.at[s]]]
LegalSuccessors(pos) ==
    {q \in UNION {{MovePiece(pos, from, to) :
                        to \in {s \in Attacks(pos.at[from][2], from, DOMAIN pos.at) :
                                    s \in DOMAIN pos.at => pos.at[s][1] # pos.white}}
                    : from \in {s \in DOMAIN pos.at : pos.at[s][1] = pos.white}}
        : ~KingHangs(q)}

(* Squares go to equal pieces in ascending order; pieces that are not on the*)
(* board are put on the black king's square.                                *)
Placed(t, pos) ==
    LET on(p) == {s \in DOMAIN pos.at : pos.at[s] = p}
        before(m) == Cardinality({l \in 0 .. m - 1 : t.type[l] = t.type[m]})
        place(m) ==
            IF Cardinality(on(t.type[m])) <= before(m) THEN KingOf(pos, FALSE)
            ELSE CHOOSE s \in on(t.type[m]) :
                    Cardinality({r \in on(t.type[m]) : r < s}) = before(m)
        i == [king |-> 1, white |-> pos.white, sq |-> [m \in 1 .. t.p - 1 |-> place(m)]]
    IN  SetSquare(t, i, 0, KingOf(pos, TRUE))
SetPosition(t, pos) == Canonize(t, Placed(t, pos))

MATE0 == 32000
NoScore == -2 * MATE0
(* probeDTM for a value found in the table.                                 *)
Score(v, ply) ==
    CASE v[1] = "mate" /\ v[2] > 0 -> MATE0 - ply - v[2] * 2
      [] v[1] = "mated" -> -(MATE0 - ply - v[2] * 2 - 1)
      [] v = Draw -> 0
      [] OTHER -> NoScore
ProbeDTM(pos, ply) ==
    LET t == TBPosition(tb) i == SetPosition(t, pos)
    IN  IF IndexValid(t, i) THEN Score(table[Number(i)], ply) ELSE NoScore

(***************************************************************************)
(* What is checked.                                                        *)
(***************************************************************************)
(* The score of every legal position is the best of the negated scores of   *)
(* its successors one ply on, a mate if there is none and the king is in    *)
(* check, and a draw if there is none and it is not.  The comparison that   *)
(* testMoveGen leaves out as too hard, a white king on the diagonal, is     *)
(* included.                                                                *)
Negamax(pos) ==
    LET next == LegalSuccessors(pos)
    IN  IF next # {} THEN Max({-ProbeDTM(q, 1) : q \in next})
        ELSE IF IsCheck(pos) THEN -(MATE0 - 1) ELSE 0
ProbesAreNegamax ==
    pc = "done" => \A pos \in Boards(tb) : ~KingHangs(pos) => ProbeDTM(pos, 0) = Negamax(pos)
=============================================================================
