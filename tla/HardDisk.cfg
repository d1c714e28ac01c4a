SPECIFICATION Spec
CONSTANTS
    Procs = {p1, p2}
    Cylinders = 2
    Heads = 2
    Sectors = 2
    Byte = 2
    CallBlocks = {1, 6}
    Data = {0, 1}
    Junk = junk
    Speeds = {"fast", "slow"}
    EEEPC = FALSE
    Preempt = FALSE
    MaxCalls = 4
INVARIANT TransferWhenAsked
PROPERTIES EveryCallReturns ImplementsBlockStore
CHECK_DEADLOCK FALSE
