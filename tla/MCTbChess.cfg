\* King and queen against king, king against king and rook; of two knights
\* against king some of the moves.
CONSTANTS
    Side = 4
    Tables <- AllTables
    NPositions <- ChessNPositions
    Valid <- ChessValid
    TakesKing <- ChessTakesKing
    Moves <- ChessMoves
    UnMoves <- ChessUnMoves
    Swap <- ChessSwap
    Batch = 512
    Block = 64
\* generate returns.
CHECK_DEADLOCK FALSE
CONSTRAINT Generated
SPECIFICATION Spec
INVARIANTS
    MovesInverse
    RemainingExact
    ValuesExact
    ProbesAreNegamax
