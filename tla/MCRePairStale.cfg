\* A symbol across a chunk border is taken into another one by a cached pass, and
\* a pass over all chunks follows.
CONSTANTS
    Base = 3
    Word = 12
    Cases <- StaleCases
    MinFreq = 1
    MaxSyms = 8
    FieldBits = 4
    BufBits = 7
SPECIFICATION Spec
INVARIANTS
    Lossless
