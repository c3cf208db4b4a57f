\* Two options, three setoption and two go commands.
CONSTANTS
    hash = hash
    threads = threads
    Options = {hash, threads}
    MaxSets = 3
    MaxGos = 2
\* The program stops after quit; a thread that waits for ever before that is
\* what the temporal properties look for.
CHECK_DEADLOCK FALSE
SPECIFICATION FairSpec
INVARIANTS
    TypeOK
    Exclusive
    OptionsInEffect
PROPERTIES
    ImplementsSession
    CommandsReturn
    OptionsGetSet
    LimitedSearchEnds
