----------------------------- MODULE Scheduler -----------------------------
(***************************************************************************)
(* The process manager of POTATOES: the circular process list of           *)
(* pm_main.c, its round robin scheduler, thread creation, exit and kill,   *)
(* the input focus, the virtual monitors the processes own, and the sleep  *)
(* and wake-up protocol of /dev/stdin.                                     *)
(*                                                                         *)
(* There is one CPU.  A process runs on its own stack with interrupts      *)
(* enabled (pm_syscall() enables them), so the timer interrupt may switch  *)
(* processes between any two steps.  pm_schedule() itself runs with        *)
(* interrupts disabled, on the stack of the process it interrupted: phase  *)
(* "sched" is its sweep along the list, which nothing else interleaves     *)
(* with, and onstack is the process whose stack the CPU is using.          *)
(*                                                                         *)
(* A process is identified with its pid, which pm_create_thread() never    *)
(* reuses.  procs is the set of process_t structures that are allocated.   *)
(***************************************************************************)
EXTENDS Integers, FiniteSets

CONSTANTS
    MaxPid,      \* bound: the highest pid handed out
    Priorities,  \* the priorities set with the shell's "nice"
    StdinSize,   \* STDIN_QUEUE_SIZE
    Sizes,       \* the byte counts passed to _read(STDIN, ...)
    Killable,    \* the pids some process passes to _kill()
    Exiting,     \* the processes whose program calls _exit()
    Preempt      \* the functions inside which a timer tick may fall

\* num_vmonitor_limit: start_vmonitor() does not check it, so it bounds the
\* number of processes.
NumVmonitorLimit == 1000

ASSUME SchedulerAssumption ==
    /\ MaxPid \in 0 .. NumVmonitorLimit - 1
    /\ Priorities \subseteq Nat
    /\ StdinSize \in Nat \ {0}
    /\ Sizes \subseteq Nat \ {0}
    /\ Killable \subseteq Nat
    /\ Exiting \subseteq Nat \ {0}
    /\ Preempt \subseteq {"pm_kill_proc", "dev_stdin_read", "switch_monitor"}

Pid    == 0 .. MaxPid
Kernel == 0     \* the pid of kernel_proc, which is also procs_head
None   == -1    \* NULL, and "no process"

VARIABLES
    procs,      \* the allocated process_t structures
    next,       \* proc->next
    state,      \* proc->state
    priority,   \* proc->priority
    slices,     \* proc->remaining_timeslices
    active,     \* active_proc
    focus,      \* focus_proc
    nextPid,    \* next_pid
    phase,      \* "run", or "sched" while pm_schedule() sweeps the list
    onstack,    \* the process whose stack the CPU is on
    vmonitor,   \* proc->vmonitor, an index into vmonitors[]
    monPid,     \* vmonitors[i].pid
    activeMon,  \* active_monitor
    maxMon,     \* maxvmonitor
    queued,     \* rf_getlength(proc->stdin)
    pc,         \* where each process stands in the system call it makes
    arg,        \* the process pm_kill_proc() found, for the calling process
    want,       \* the size argument of a pending read of /dev/stdin
    kb,         \* the shortcut function that the keyboard interrupt runs
    wild        \* TRUE once freed memory or memory outside an array was used

ringVars == <<procs, next, nextPid>>
monVars  == <<vmonitor, monPid, maxMon>>
sliceVars == <<priority, slices>>
cpuVars  == <<active, phase, onstack>>
callVars == <<pc, arg, want>>
vars == <<ringVars, state, sliceVars, cpuVars, focus, monVars, activeMon,
          queued, callVars, kb, wild>>

States == {"ALIVE", "DEAD", "STDINSLEEP"}

KbIdle == [pc |-> "idle", on |-> None, br |-> "none", found |-> None]

\* The width of active_monitor, a uint16.
UInt16 == 65536
----------------------------------------------------------------------------
(* pm_get_proc(): the walk of the list from procs_head.  That the list     *)
(* holds exactly the allocated processes is the invariant RingWhole.       *)
GetProc(pid) == IF pid \in procs THEN pid ELSE None

(* pm_init(), after init_vmonitors(): the kernel is the only process, it   *)
(* owns monitor 0, and no process has the input focus yet.                 *)
Init ==
    /\ procs = {Kernel}
    /\ next = [p \in Pid |-> Kernel]
    /\ state = [p \in Pid |-> "ALIVE"]
    /\ priority = [p \in Pid |-> 1]
    /\ slices = [p \in Pid |-> 1]
    /\ active = Kernel
    /\ focus = None
    /\ nextPid = 1
    /\ phase = "run"
    /\ onstack = Kernel
    /\ vmonitor = [p \in Pid |-> 0]
    /\ monPid = [i \in Pid |-> Kernel]
    /\ activeMon = 0
    /\ maxMon = 0
    /\ queued = [p \in Pid |-> 0]
    /\ pc = [p \in Pid |-> "user"]
    /\ arg = [p \in Pid |-> None]
    /\ want = [p \in Pid |-> 0]
    /\ kb = KbIdle
    /\ wild = FALSE

(* The program of the kernel process is main(): it starts a shell and      *)
(* idles.  It makes none of the system calls below.                        *)
(*                                                                         *)
(* Code outside pm_schedule() runs on the stack of onstack: the process's  *)
(* own, or a shortcut function that interrupted it and has not returned.   *)
Running(p) == phase = "run" /\ onstack = p /\ ~wild
InProcess(p, label) == Running(p) /\ kb.on # p /\ pc[p] = label
InShortcut(label) == Running(kb.on) /\ kb.pc = label
----------------------------------------------------------------------------
(* A halted process goes on when an interrupt returned to it.              *)
Woken(p) == [pc EXCEPT ![p] = IF @ = "halt" THEN "read" ELSE @]

(* pm_create_thread() with start_vmonitor() and new_virt_monitor(), called *)
(* by a program or by a shortcut function.  It disables interrupts.        *)
CreateThread ==
    /\ Running(onstack)
    /\ kb.pc = "idle" \/ InProcess(onstack, "user")
    /\ nextPid <= MaxPid
    /\ procs' = procs \cup {nextPid}
    /\ next' = [next EXCEPT ![nextPid] = next[Kernel], ![Kernel] = nextPid]
    /\ state' = [state EXCEPT ![nextPid] = "ALIVE"]
    /\ slices' = [slices EXCEPT ![nextPid] = 1]
    /\ priority' = [priority EXCEPT ![nextPid] = 1]
    /\ focus' = nextPid
    /\ maxMon' = maxMon + 1
    /\ monPid' = [monPid EXCEPT ![maxMon + 1] = nextPid]
    /\ vmonitor' = [vmonitor EXCEPT ![nextPid] = maxMon + 1]
    /\ activeMon' = maxMon + 1
    /\ nextPid' = nextPid + 1
    /\ pc' = Woken(onstack)
    /\ UNCHANGED <<cpuVars, queued, arg, want, kb, wild>>

(* sys_exit() and the endless loop of _exit() behind it.  For the kernel   *)
(* sys_exit() panics; its program, main(), never calls _exit().            *)
Exit(p) ==
    /\ InProcess(p, "user")
    /\ p \in Exiting
    /\ state' = [state EXCEPT ![p] = "DEAD"]
    /\ pc' = [pc EXCEPT ![p] = "exited"]
    /\ UNCHANGED <<ringVars, sliceVars, cpuVars, focus, monVars, activeMon,
                   queued, arg, want, kb, wild>>

(* pm_kill_proc(), first half: p = pm_get_proc(pid); if (p) ...            *)
KillLookup(p, pid) ==
    /\ "pm_kill_proc" \in Preempt
    /\ InProcess(p, "user")
    /\ p # Kernel /\ pid \in Killable
    /\ GetProc(pid) # None
    /\ arg' = [arg EXCEPT ![p] = GetProc(pid)]
    /\ pc' = [pc EXCEPT ![p] = "kill"]
    /\ UNCHANGED <<ringVars, state, sliceVars, cpuVars, focus, monVars,
                   activeMon, queued, want, kb, wild>>

(* pm_kill_proc(), second half: p->state = PSTATE_DEAD, whatever became of *)
(* the structure p points to since it was found.                           *)
KillMark(p) ==
    /\ InProcess(p, "kill")
    /\ state' = [state EXCEPT ![arg[p]] = "DEAD"]
    /\ wild' = (arg[p] \notin procs)
    /\ pc' = [pc EXCEPT ![p] = "user"]
    /\ arg' = [arg EXCEPT ![p] = None]
    /\ UNCHANGED <<ringVars, sliceVars, cpuVars, focus, monVars, activeMon,
                   queued, want, kb>>

(* sys_kill() when no tick falls between the two halves.                   *)
Kill(p, pid) ==
    /\ "pm_kill_proc" \notin Preempt
    /\ InProcess(p, "user")
    /\ p # Kernel /\ pid \in Killable
    /\ GetProc(pid) # None
    /\ state' = [state EXCEPT ![pid] = "DEAD"]
    /\ UNCHANGED <<ringVars, sliceVars, cpuVars, focus, monVars, activeMon,
                   queued, callVars, kb, wild>>

(* pm_set_thread_priority(), from the shell's "nice".                      *)
SetPriority(p, pid, prio) ==
    /\ InProcess(p, "user")
    /\ p # Kernel /\ GetProc(pid) # None
    /\ priority' = [priority EXCEPT ![pid] = prio]
    /\ UNCHANGED <<ringVars, state, slices, cpuVars, focus, monVars,
                   activeMon, queued, callVars, kb, wild>>
----------------------------------------------------------------------------
(* dev_stdin_read(): the call, and the test at the head of its loop.       *)
MustSleep(p) == want[p] > queued[p] /\ p # focus

ReadStdin(p, size) ==
    /\ InProcess(p, "user")
    /\ p # Kernel
    /\ want' = [want EXCEPT ![p] = size]
    /\ pc' = [pc EXCEPT ![p] = "read"]
    /\ UNCHANGED <<ringVars, state, sliceVars, cpuVars, focus, monVars,
                   activeMon, queued, arg, kb, wild>>

\* The test fails: rf_read() takes what is there, up to the size asked for.
ReadReturn(p) ==
    /\ InProcess(p, "read")
    /\ ~MustSleep(p)
    /\ queued' = [queued EXCEPT ![p] = IF want[p] < @ THEN @ - want[p] ELSE 0]
    /\ want' = [want EXCEPT ![p] = 0]
    /\ pc' = [pc EXCEPT ![p] = "user"]
    /\ UNCHANGED <<ringVars, state, sliceVars, cpuVars, focus, monVars,
                   activeMon, arg, kb, wild>>

\* The test succeeds, and a tick may fall before the assignment.
ReadTest(p) ==
    /\ "dev_stdin_read" \in Preempt
    /\ InProcess(p, "read")
    /\ MustSleep(p)
    /\ pc' = [pc EXCEPT ![p] = "sleep"]
    /\ UNCHANGED <<ringVars, state, sliceVars, cpuVars, focus, monVars,
                   activeMon, queued, arg, want, kb, wild>>

\* state = PSTATE_STDINSLEEP; halt(): back to the test after an interrupt.
ReadSleep(p) ==
    /\ \/ InProcess(p, "sleep")
       \/ "dev_stdin_read" \notin Preempt /\ InProcess(p, "read") /\ MustSleep(p)
    /\ state' = [state EXCEPT ![p] = "STDINSLEEP"]
    /\ pc' = [pc EXCEPT ![p] = "halt"]
    /\ UNCHANGED <<ringVars, sliceVars, cpuVars, focus, monVars, activeMon,
                   queued, arg, want, kb, wild>>

\* What pm_handle_input() makes of the state of the process it writes to.
InputStateNoWake(s) == s
InputState(s) == IF s = "STDINSLEEP" THEN "ALIVE" ELSE s

\* rf_write() of one byte: nothing is written to a full queue.
EnqueuedUnchecked(n) == n + 1
Enqueued(n) == IF n < StdinSize THEN n + 1 ELSE n

(* pm_handle_input(): a key other than a shortcut.  The keyboard interrupt *)
(* is not delivered while the previous one has not been acknowledged.      *)
HandleInput ==
    /\ Running(onstack)
    /\ kb.pc = "idle"
    /\ focus # None
    /\ state' = [state EXCEPT ![focus] = InputState(@)]
    /\ queued' = [queued EXCEPT ![focus] = Enqueued(@)]
    /\ pc' = Woken(onstack)
    /\ wild' = (focus \notin procs)
    /\ UNCHANGED <<ringVars, sliceVars, cpuVars, focus, monVars, activeMon,
                   arg, want, kb>>

(* Any other interrupt: a key release, a modifier, the hard disk, or a key *)
(* while no process has the focus.                                         *)
OtherInterrupt ==
    /\ Running(onstack)
    /\ kb.on # onstack
    /\ pc' = Woken(onstack)
    /\ UNCHANGED <<ringVars, state, sliceVars, cpuVars, focus, monVars,
                   activeMon, queued, arg, want, kb, wild>>
----------------------------------------------------------------------------
(* switch_monitor_up() and switch_monitor_down(): the branch they take and *)
(* the value they give active_monitor.                                     *)
SwitchBranch(dir) ==
    CASE dir = "up" /\ activeMon < maxMon   -> "inc"
      [] dir = "up" /\ activeMon = maxMon   -> "first"
      [] dir = "up" /\ activeMon > maxMon   -> "none"
      [] dir = "down" /\ activeMon > 0      -> "dec"
      [] dir = "down" /\ activeMon = 0      -> "last"

Moved(br) ==
    CASE br = "inc"   -> (activeMon + 1) % UInt16
      [] br = "dec"   -> (activeMon - 1) % UInt16
      [] br = "first" -> 0
      [] br = "last"  -> maxMon
      [] br = "none"  -> activeMon

(* The shortcut runs to its end before the next tick.                      *)
SwitchMonitor(dir) ==
    /\ "switch_monitor" \notin Preempt
    /\ Running(onstack)
    /\ kb.pc = "idle"
    /\ activeMon' = Moved(SwitchBranch(dir))
    /\ focus' = GetProc(monPid[Moved(SwitchBranch(dir))])
    /\ pc' = Woken(onstack)
    /\ UNCHANGED <<ringVars, state, sliceVars, cpuVars, monVars, queued, arg,
                   want, kb, wild>>

(* The shortcut in steps.  kb_handler() enables interrupts before it calls *)
(* the function, and irq_handler() acknowledges only after it returned.    *)
SwitchBegin(dir) ==
    /\ "switch_monitor" \in Preempt
    /\ Running(onstack)
    /\ kb.pc = "idle"
    /\ kb' = [pc |-> "move", on |-> onstack, br |-> SwitchBranch(dir),
              found |-> None]
    /\ UNCHANGED <<ringVars, state, sliceVars, cpuVars, focus, monVars,
                   activeMon, queued, callVars, wild>>

SwitchMove ==
    /\ InShortcut("move")
    /\ activeMon' = Moved(kb.br)
    /\ kb' = [kb EXCEPT !.pc = "lookup"]
    /\ UNCHANGED <<ringVars, state, sliceVars, cpuVars, focus, monVars,
                   queued, callVars, wild>>

\* vmonitors[active_monitor] is outside the array when the index is wrong.
SwitchLookup ==
    /\ InShortcut("lookup")
    /\ wild' = (activeMon \notin Pid)
    /\ kb' = [kb EXCEPT !.pc = "store",
                        !.found = IF activeMon \in Pid
                                  THEN GetProc(monPid[activeMon]) ELSE None]
    /\ UNCHANGED <<ringVars, state, sliceVars, cpuVars, focus, monVars,
                   activeMon, queued, callVars>>

\* focus_proc = ...; the function returns and the interrupt is acknowledged.
SwitchEnd ==
    /\ InShortcut("store")
    /\ focus' = kb.found
    /\ kb' = KbIdle
    /\ pc' = Woken(onstack)
    /\ UNCHANGED <<ringVars, state, sliceVars, cpuVars, monVars, activeMon,
                   queued, arg, want, wild>>
----------------------------------------------------------------------------
\* The test of pm_schedule() that lets the active process go on.
KeepsCpu == slices[active] > 1

(* timer_handler() calling pm_schedule(): either the active process keeps  *)
(* the CPU, and leaves the halt() it may be in, or the sweep starts.       *)
TimerKeep ==
    /\ Running(onstack)
    /\ KeepsCpu
    /\ slices' = [slices EXCEPT ![active] = @ - 1]
    /\ pc' = IF kb.on # onstack THEN Woken(onstack) ELSE pc
    /\ UNCHANGED <<ringVars, state, priority, cpuVars, focus, monVars,
                   activeMon, queued, arg, want, kb, wild>>

TimerSwitch ==
    /\ Running(onstack)
    /\ ~KeepsCpu
    /\ phase' = "sched"
    /\ UNCHANGED <<ringVars, state, sliceVars, active, onstack, focus,
                   monVars, activeMon, queued, callVars, kb, wild>>

\* The process the sweep looks at: active_proc->next.
Candidate == next[active]

(* free_virt_monitor(): the last monitor moves into the slot that becomes  *)
(* free, its owner follows it, and the screen and the focus follow too.    *)
OwnerNotTold(slot) == vmonitor
OwnerMoved(slot) ==
    IF slot = maxMon THEN vmonitor
    ELSE [vmonitor EXCEPT ![monPid[maxMon]] = slot]

FocusKept(slot) == focus
FocusAfterFree(slot) ==
    CASE slot = maxMon /\ activeMon = maxMon -> GetProc(monPid[activeMon - 1])
      [] slot # maxMon /\ activeMon = slot   -> GetProc(monPid[maxMon])
      [] OTHER                               -> focus

FreeVirtMonitor(slot) ==
    /\ activeMon' = CASE slot = maxMon /\ activeMon = maxMon -> activeMon - 1
                      [] slot # maxMon /\ activeMon = maxMon -> slot
                      [] OTHER                               -> activeMon
    /\ focus' = FocusAfterFree(slot)
    /\ vmonitor' = OwnerMoved(slot)
    /\ monPid' = [monPid EXCEPT ![slot] = monPid[maxMon], ![maxMon] = Kernel]
    /\ maxMon' = maxMon - 1

(* pm_destroy_thread(), and the unlinking behind it.  The input queue and  *)
(* the stack, with the calls in progress on it, are released.              *)
LeftLinked(dead) == next
Unlinked(dead) == [next EXCEPT ![active] = next[dead]]

SchedDestroy ==
    /\ phase = "sched"
    /\ state[Candidate] = "DEAD"
    /\ FreeVirtMonitor(vmonitor[Candidate])
    /\ procs' = procs \ {Candidate}
    /\ next' = Unlinked(Candidate)
    /\ queued' = [queued EXCEPT ![Candidate] = 0]
    /\ pc' = [pc EXCEPT ![Candidate] = "user"]
    /\ arg' = [arg EXCEPT ![Candidate] = None]
    /\ want' = [want EXCEPT ![Candidate] = 0]
    /\ UNCHANGED <<nextPid, state, sliceVars, cpuVars, kb, wild>>

\* Which states the sweep jumps over.
SkippedUnlessAlive(s) == s # "ALIVE"
SkippedUnlessDead(s) == s # "DEAD"
Skipped(s) == s = "STDINSLEEP"

(* Jump over a process that waits for input.                               *)
SchedSkip ==
    /\ phase = "sched"
    /\ Skipped(state[Candidate])
    /\ active' = Candidate
    /\ UNCHANGED <<ringVars, state, sliceVars, phase, onstack, focus, monVars,
                   activeMon, queued, callVars, kb, wild>>

(* The first process alive gets the CPU: its stack, its context.           *)
SchedPick ==
    LET p == Candidate
    IN  /\ phase = "sched"
        /\ state[p] = "ALIVE"
        /\ active' = p
        /\ onstack' = p
        /\ phase' = "run"
        /\ slices' = [slices EXCEPT ![p] = priority[p]]
        /\ pc' = IF kb.on # p THEN Woken(p) ELSE pc
        /\ UNCHANGED <<ringVars, state, priority, focus, monVars, activeMon,
                       queued, arg, want, kb, wild>>

(* Once undefined memory was used the model says nothing more.             *)
Undefined == wild /\ UNCHANGED vars
----------------------------------------------------------------------------
Process(p) ==
    \/ Exit(p)
    \/ \E pid \in Pid : KillLookup(p, pid) \/ Kill(p, pid)
    \/ KillMark(p)
    \/ \E pid \in Pid, prio \in Priorities : SetPriority(p, pid, prio)
    \/ \E size \in Sizes : ReadStdin(p, size)
    \/ ReadReturn(p)
    \/ ReadTest(p)
    \/ ReadSleep(p)

Shortcut ==
    \/ \E dir \in {"up", "down"} : SwitchMonitor(dir) \/ SwitchBegin(dir)
    \/ SwitchMove
    \/ SwitchLookup
    \/ SwitchEnd

Tick == TimerKeep \/ TimerSwitch

Sweep == SchedDestroy \/ SchedSkip \/ SchedPick

Next ==
    \/ CreateThread
    \/ \E p \in Pid : Process(p)
    \/ HandleInput
    \/ OtherInterrupt
    \/ Shortcut
    \/ Tick
    \/ Sweep
    \/ Undefined

Spec == Init /\ [][Next]_vars

(* The timer keeps ticking, pm_schedule() runs to its end once called, and *)
(* a shortcut function that gets the CPU again and again makes progress.   *)
(* Nothing is assumed of the programs or of the user at the keyboard.      *)
FairSpec ==
    /\ Spec
    /\ WF_vars(Tick)
    /\ WF_vars(Sweep)
    /\ SF_vars(SwitchMove \/ SwitchLookup \/ SwitchEnd)
----------------------------------------------------------------------------
(* Types.  A byte count never exceeds the queue (rf_write() refuses), and  *)
(* no index or pointer leaves the range the code declares.                 *)
RingTypes ==
    /\ procs \in SUBSET Pid
    /\ next \in [Pid -> Pid]
    /\ nextPid \in 1 .. MaxPid + 1
    /\ state \in [Pid -> States]

CpuTypes ==
    /\ priority \in [Pid -> Priorities \cup {1}]
    /\ slices \in [Pid -> Nat]
    /\ active \in Pid
    /\ onstack \in Pid
    /\ phase \in {"run", "sched"}
    /\ focus \in Pid \cup {None}

MonTypes ==
    /\ vmonitor \in [Pid -> Pid]
    /\ monPid \in [Pid -> Pid]
    /\ maxMon \in Pid
    /\ activeMon \in 0 .. UInt16 - 1

CallTypes ==
    /\ queued \in [Pid -> 0 .. StdinSize]
    /\ pc \in [Pid -> {"user", "kill", "read", "sleep", "halt", "exited"}]
    /\ arg \in [Pid -> Pid \cup {None}]
    /\ want \in [Pid -> Sizes \cup {0}]

KbTypes ==
    /\ kb \in [pc : {"idle", "move", "lookup", "store"},
               on : Pid \cup {None},
               br : {"inc", "dec", "first", "last", "none"},
               found : Pid \cup {None}]
    /\ wild \in BOOLEAN

TypeOK == RingTypes /\ CpuTypes /\ MonTypes /\ CallTypes /\ KbTypes

(* pm_schedule() frees stacks while it runs on one.  The process whose     *)
(* stack the CPU is on, and the one active_proc points to, are never among *)
(* the structures pm_destroy_thread() released.                            *)
RunningNeverFreed == onstack \in procs /\ active \in procs

(* The circular list: walking next from procs_head meets every allocated   *)
(* process once, none that was freed, and comes back to procs_head.  This  *)
(* is what pm_get_proc() and the sweep of pm_schedule() rely on.           *)
RingWhole ==
    LET n == Cardinality(procs)
        walk[i \in 0 .. n] == IF i = 0 THEN Kernel ELSE next[walk[i - 1]]
    IN  /\ {walk[i] : i \in 0 .. n - 1} = procs
        /\ walk[n] = Kernel

(* The kernel thread cannot be ended: sys_exit() panics rather than let it *)
(* exit, and the scheduler depends on finding it alive.                    *)
KernelNeverDies == Kernel \in procs /\ state[Kernel] = "ALIVE"

(* Monitors and processes own each other one to one: free_virt_monitor()   *)
(* moves the last monitor and must tell its owner, who is still in the     *)
(* list, so pm_get_proc(...)->vmonitor there never follows NULL.           *)
MonitorsOwned ==
    /\ \A p \in procs : vmonitor[p] <= maxMon /\ monPid[vmonitor[p]] = p
    /\ \A i \in 0 .. maxMon : monPid[i] \in procs /\ vmonitor[monPid[i]] = i

(* The keys go to what the user sees: whenever no switch is under way, the *)
(* process with the focus exists and owns the monitor on the screen, whose *)
(* index is in range.                                                      *)
FocusOnScreen ==
    kb.pc = "idle" =>
        /\ activeMon <= maxMon
        /\ focus # None => focus \in procs /\ monPid[activeMon] = focus

(* No lost wake-up: a process that went to sleep inside dev_stdin_read()   *)
(* and lost the CPU has less input queued than it asked for.               *)
SleepersLackInput ==
    \A p \in procs :
        p # onstack /\ pc[p] = "halt" /\ state[p] = "STDINSLEEP"
            => want[p] > queued[p]

(* A process sleeps only while it is inside dev_stdin_read(): the state    *)
(* STDINSLEEP does not outlive the read that set it.                       *)
SleepOnlyInRead ==
    \A p \in procs :
        state[p] = "STDINSLEEP" => pc[p] \in {"read", "sleep", "halt"}

(* No function follows a pointer to a released process_t or an index       *)
(* outside vmonitors[]: pm_kill_proc() marks the process it was asked to.  *)
NoWildAccess == ~wild

(* Round robin: a process that stays alive gets the CPU.                   *)
AliveRuns ==
    \A p \in Pid :
        p \in procs /\ state[p] = "ALIVE"
            ~> wild \/ onstack = p \/ p \notin procs \/ state[p] # "ALIVE"

(* A process that was marked dead is purged by a later pm_schedule().      *)
DeadIsPurged ==
    \A p \in Pid :
        p \in procs /\ state[p] = "DEAD" ~> wild \/ p \notin procs

(* What is left of that when processes read standard input: a dead process *)
(* is purged unless its own pending read overwrites the state, which no    *)
(* process that called _exit() does.                                       *)
DeadLeaves ==
    \A p \in Pid :
        /\ p \in procs /\ state[p] = "DEAD"
              ~> wild \/ p \notin procs \/ state[p] = "STDINSLEEP"
        /\ p \in procs /\ pc[p] = "exited" ~> wild \/ p \notin procs

(* Every keyboard interrupt is acknowledged in the end: the shortcut it    *)
(* runs returns to irq_handler(), which reactivates the PIC.               *)
KeyboardReactivated == kb.pc # "idle" ~> wild \/ kb.pc = "idle"
=============================================================================
