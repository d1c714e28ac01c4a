SPECIFICATION Spec
CONSTANTS
    BLOCK_SIZE = 2
    NUM_DIRECT_POINTER = 1
    ADDRS_PER_BLOCK = 2
    LastBlock = 16
    Names = {0, 1}
    Seek = FALSE
    OpenSucceeds = {TRUE}
    CrashIn = {"write"}
    MaxCrashes = 1
    Lengths = {1, 5, 14}
    Sizes = {0, 3, 9}
    MaxOps = 6
INVARIANTS BlocksOwnedOnce ReferencedAreMarked NothingLeaks ReadableToTheEnd
