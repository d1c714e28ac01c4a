SPECIFICATION Spec
CONSTANTS
    Procs = {p1}
    Sizes = {2, 3, 5}
    H = 2
    Page = 4
    ExpandStep = 4
    InitialPages = 2
    Frames = 5
    Preemptive = FALSE
INVARIANTS HeapSound GrowthSound MoveFits
VIEW ReadableState
