\* The tree Chain: a search of two jobs, one of one job, quit.
CONSTANTS
    main = main
    w1 = w1
    w2 = w2
    Nodes = {main, w1, w2}
    Root = main
    Parent <- Chain
    Jobs <- TwoThenOne
\* The program stops after quit; a thread that sleeps for ever before that is
\* what the temporal properties look for.
CHECK_DEADLOCK FALSE
SPECIFICATION FairSpec
INVARIANTS
    TypeOK
    StopsAreExact
    NoLostNotification
    SearchesAreSeparate
PROPERTIES
    StopAndQuitTerminate
    JobsAreSearched
