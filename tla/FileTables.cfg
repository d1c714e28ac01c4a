SPECIFICATION MCSpec
CONSTANTS
    Procs = {p1, p2}
    Paths = {a, b}
    Root = root
    NumFiles = 3
    NumInodes = 3
    NumProcFiles = 1
    Switches = {"search", "create", "alloc", "insert", "opened", "closing",
                "remove", "shrink", "delete"}
    Careless = {"unlink_open", "exit_open", "close_unopened"}
INVARIANTS DescriptorsDenote InodesAreThoseOpen EntriesSurvive
PROPERTY HandlesAreValid
SYMMETRY Symmetry
