SPECIFICATION KeyboardSpec
CONSTANTS
    Size = 2
    Bytes = {"+", "*", "~"}
    Counts = {1, 3}
    Interrupts = FALSE
    Keys = {27, 42, 54, 56, 29, 91, 72}
INVARIANT NothingStuck
PROPERTY ImplementsQueue
