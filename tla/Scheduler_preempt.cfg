SPECIFICATION Spec
CONSTANTS
    MaxPid = 2
    Priorities = {2}
    StdinSize = 1
    Sizes = {1}
    Killable = {1}
    Exiting = {}
    Preempt = {"pm_kill_proc", "dev_stdin_read", "switch_monitor"}
INVARIANT RingWhole
