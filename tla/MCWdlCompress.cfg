\* King and rook, pawn or two knights against king.
CONSTANTS
    Side = 3
    WordBits = 16
    Tables <- AllTables
    CanTakeKing <- TakesKing
    HasLegalMoves <- LegalMove
    CaptureResults <- AfterCapture
    ProbeWdl <- Value
    Preds <- Predicates
    Holds <- PredicateHolds
    Chunk <- ChunkOf
    NStatsChunks = 2
    MaxDepth = 2
    MinBatch = 8
    MaxTasks = 2
    ActiveWord = 8
SPECIFICATION Spec
INVARIANTS
    IndexInvertible
    DontCaresAreKnown
    TreeIsFaithful
PROPERTY
    StepsLeadToTheEnd
