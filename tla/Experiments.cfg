SPECIFICATION SpecExperiment
CONSTANTS
    Threads <- Workers
    Sems = {"free", "full", "access"}
    Stocks = {"elements"}
    Program <- Roles
    InitCount <- do_tests
    Producers = {p1, p2}
    Consumers = {c1, c2}
    Capacity = 3
    LagerFree = 2
    RampeFree = 1
    G1Free = 1
    G2bFree = 1
    G2sFree = 1
INVARIANTS MutualExclusion StocksFit OnlyTheRampJams
PROPERTIES ImplementsAtomic LockReleased
CHECK_DEADLOCK FALSE
