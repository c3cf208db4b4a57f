----------------------------- MODULE MCTbChess -----------------------------
(* Small tables for TLC, on a board of 4 x 4 squares.                       *)
EXTENDS TbChess
None == <<0, 0, 0, 0>>
Queen == <<1, 0, 0, 0>>
Rook == <<0, 1, 0, 0>>
KQK == [white |-> Queen, black |-> None]
KKR == [white |-> None, black |-> Rook]
KNNK == [white |-> <<0, 0, 0, 2>>, black |-> None]
AllTables == {KQK, KKR, KNNK}
(* Of the largest table only some moves are looked at: the white king is in *)
(* the corner, black moves, and the other white pieces are equal.           *)
Generated == tb = KNNK => pc = "classify" /\ idx < 4096
=============================================================================
