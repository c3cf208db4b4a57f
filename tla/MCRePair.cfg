\* Passes over all chunks, then over cached positions; little room in the cache;
\* long chunks, with a middle part that tasks rewrite without the mutex.
CONSTANTS
    Base = 3
    Word = 12
    Cases <- PassCases
    MinFreq = 1
    MaxSyms = 8
    FieldBits = 4
    BufBits = 7
SPECIFICATION Spec
INVARIANTS
    TypeOK
    RangesSound
    Lossless
    StreamReadsBack
    CandidatesExact
    MutexDiscipline
PROPERTIES
    EveryStepAdvances
    ImplementsGrammar
