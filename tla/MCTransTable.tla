---------------------------- MODULE MCTransTable ----------------------------
(* Small instances of TransTable for TLC.                                   *)
EXTENDS TransTable, TLC
CONSTANTS t1, t2, k1, k2, white, krk, kqk, m1, m2

TwoContempts == {{}, {white}}
(* In a table of seven entries the two positions have buckets of their own, *)
(* in one of five, or next to an endgame table, they share one; contempt    *)
(* moves them to other buckets.                                             *)
SmallTop(word) == CASE word = {k1} -> 2 [] word = {k2} -> 3
                    [] word = {k1, white} -> 0 [] word = {k2, white} -> 2
SmallLow(word) == IF word = {k1} THEN 1 ELSE 0
(* A mate with its move, and for one of the positions a bound without.      *)
SmallOffers(k) ==
    IF k = k1 THEN {[move |-> m1, score |-> MATE0 - 7, depth |-> 1, type |-> "EXACT"],
                    [move |-> NoMove, score |-> 30, depth |-> 0, type |-> "GE"]}
              ELSE {[move |-> m2, score |-> 7 - MATE0, depth |-> 1, type |-> "EXACT"]}
SmallGarbage == {[NoData EXCEPT !.type = "LE", !.depth = 2, !.gen = 1]}
Symmetry == Permutations(Threads)
=============================================================================
