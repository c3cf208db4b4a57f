\* Two threads, two positions, tables of five entries and of seven.
CONSTANTS
    t1 = t1
    t2 = t2
    k1 = k1
    k2 = k2
    white = white
    krk = krk
    kqk = kqk
    m1 = m1
    m2 = m2
    Threads = {t1, t2}
    Keys = {k1, k2}
    Contempts <- TwoContempts
    Top <- SmallTop
    Low <- SmallLow
    TopRange = 4
    TopLimit = 4
    Ways = 2
    TableSizes = {5, 7}
    TbSize = 3
    MinRest = 4
    Materials = {krk, kqk}
    Plies = {3}
    Offers <- SmallOffers
    Parts = {1}
    Garbage <- SmallGarbage
    Generations = 2
    UnusedLimit = 0
    MaxSetups = 2
    MaxCalls = 3
\* The bounds stop the program.
CHECK_DEADLOCK FALSE
SYMMETRY Symmetry
SPECIFICATION Spec
INVARIANTS
    ProbeFaithful
    TbIntact
