----------------------------- MODULE UciSession -----------------------------
(***************************************************************************)
(* What the engine promises the GUI about "go" and "bestmove"              *)
(* (app/texel): every go command is answered by one bestmove, before the   *)
(* next search starts, and never while the engine has been told to ponder  *)
(* or to search until it is stopped.  EngineControl implements this.       *)
(***************************************************************************)
EXTENDS Naturals

VARIABLES gos,        \* number of searches started
          bestmoves,  \* number of bestmove answers
          held        \* the GUI has not yet allowed an answer

svars == <<gos, bestmoves, held>>

Init == gos = 0 /\ bestmoves = 0 /\ held = FALSE

\* A search starts; if it ponders or is infinite the answer is held back.
Go ==
    /\ bestmoves = gos
    /\ gos' = gos + 1
    /\ held' \in BOOLEAN
    /\ UNCHANGED bestmoves

\* "stop", "ponderhit", or the stop implied by the next command
Release == held /\ held' = FALSE /\ UNCHANGED <<gos, bestmoves>>

BestMove ==
    /\ bestmoves < gos /\ ~held
    /\ bestmoves' = bestmoves + 1
    /\ UNCHANGED <<gos, held>>

Next == Go \/ Release \/ BestMove

Spec == Init /\ [][Next]_svars
=============================================================================
