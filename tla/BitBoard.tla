------------------------------ MODULE BitBoard ------------------------------
(* Attacked squares on a board of Side x Side squares (8 x 8 in the code).  *)
(* A bit board is a set of squares; the magic tables that the code uses are *)
(* filled by the ray walks modelled here.                                   *)
EXTENDS Integers, FiniteSets

CONSTANT Side
ASSUME SideAssumption == Side \in Nat \ {0}

Squares == 0 .. Side * Side - 1
X(sq) == sq % Side
Y(sq) == sq \div Side
OnBoard(x, y) == x \in 0 .. Side - 1 /\ y \in 0 .. Side - 1
SquareAt(x, y) == y * Side + x

Jumps(sq, steps) ==
    {SquareAt(X(sq) + d[1], Y(sq) + d[2]) :
        d \in {e \in steps : OnBoard(X(sq) + e[1], Y(sq) + e[2])}}
RookDirections == {<<1, 0>>, <<-1, 0>>, <<0, 1>>, <<0, -1>>}
BishopDirections == {<<1, 1>>, <<-1, -1>>, <<1, -1>>, <<-1, 1>>}
KingAttacks == [sq \in Squares |-> Jumps(sq, RookDirections \cup BishopDirections)]
KnightAttacks ==
    [sq \in Squares |->
        Jumps(sq, {d \in {-2, -1, 1, 2} \X {-2, -1, 1, 2} : d[1] # d[2] /\ d[1] # -d[2]})]

(* The first n squares from sq in direction d.                              *)
Line(sq, d, n) == {SquareAt(X(sq) + k * d[1], Y(sq) + k * d[2]) : k \in 1 .. n}
(* A ray ends at the first occupied square, which belongs to it.            *)
AddRay(sq, d, occupied) ==
    {SquareAt(X(sq) + n * d[1], Y(sq) + n * d[2]) :
        n \in {k \in 1 .. Side - 1 : /\ OnBoard(X(sq) + k * d[1], Y(sq) + k * d[2])
                                     /\ Line(sq, d, k - 1) \cap occupied = {}}}
RookAttacks(sq, occupied) == UNION {AddRay(sq, d, occupied) : d \in RookDirections}
BishopAttacks(sq, occupied) == UNION {AddRay(sq, d, occupied) : d \in BishopDirections}

(* What a piece of a kind attacks from a square.                            *)
Kinds == {"K", "Q", "R", "B", "N"}
Attacks(kind, sq, occupied) ==
    CASE kind = "K" -> KingAttacks[sq]
      [] kind = "N" -> KnightAttacks[sq]
      [] kind = "R" -> RookAttacks(sq, occupied)
      [] kind = "B" -> BishopAttacks(sq, occupied)
      [] kind = "Q" -> RookAttacks(sq, occupied) \cup BishopAttacks(sq, occupied)
=============================================================================
