\* Two of three byte values are used, so the first new symbol takes one byte.
CONSTANTS
    Base = 3
    Word = 12
    Cases <- BorderCases
    MinFreq = 1
    MaxSyms = 8
    FieldBits = 4
    BufBits = 7
SPECIFICATION Spec
INVARIANTS
    Lossless
