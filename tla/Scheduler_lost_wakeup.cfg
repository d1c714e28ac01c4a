SPECIFICATION Spec
CONSTANTS
    MaxPid = 2
    Priorities = {}
    StdinSize = 1
    Sizes = {1}
    Killable = {}
    Exiting = {}
    Preempt = {"dev_stdin_read"}
INVARIANT SleepersLackInput
