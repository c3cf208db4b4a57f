\* What survives a result whose copy throws.
CONSTANTS
    Workers = {w1, w2}
    Clients = {c1, c2}
    Owner = c1
    MaxTasks = 2
    CopyMayThrow = TRUE
SPECIFICATION Spec
INVARIANTS
    TasksConserved
