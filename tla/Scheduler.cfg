SPECIFICATION FairSpec
CONSTANTS
    MaxPid = 3
    Priorities = {}
    StdinSize = 1
    Sizes = {1}
    Killable = {1, 2}
    Exiting = {3}
    Preempt = {}
INVARIANTS RunningNeverFreed MonitorsOwned FocusOnScreen SleepersLackInput
PROPERTIES AliveRuns DeadLeaves
