\* Trees of up to three workers, two go commands.
CONSTANTS
    Ids = {1, 2, 3, 4, 5, 6}
    MaxChildren = 2
    Sizes = {0, 1, 2, 3}
    MaxGos = 2
\* The bound on go commands stops the program.
CHECK_DEADLOCK FALSE
SPECIFICATION FairSpec
INVARIANTS
    TreeComplete
PROPERTIES
    RacesOnlyIfDestroyed
    GoAndStopReturn
