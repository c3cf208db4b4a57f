\* Two clients that share the pool, two workers, three tasks.
CONSTANTS
    Workers = {w1, w2}
    Clients = {c1, c2}
    Owner = c1
    MaxTasks = 3
    CopyMayThrow = FALSE
SPECIFICATION FairSpec
INVARIANTS
    TypeOK
    ActiveCount
    NoneSleepsForever
PROPERTIES
    ImplementsFairBag
    DestructorReturns
