-------------------------- MODULE SchedulerProofs --------------------------
(***************************************************************************)
(* What Scheduler guarantees for every number of processes, every set of   *)
(* priorities and read sizes, and wherever the timer ticks fall, as long   *)
(* as no process kills the kernel (Kernel \notin Killable).                *)
(*                                                                         *)
(* The heart of the argument is an order on the circular list: followed    *)
(* from procs_head, next only goes up, until it comes back to the kernel.  *)
(* The kernel is alive, so a sweep that started at another process stops   *)
(* before it can come round to the process whose stack it is running on.   *)
(***************************************************************************)
EXTENDS Scheduler, FiniteSetTheorems, WellFoundedInduction, TLAPS

(* The list is closed, and no two processes share a successor.             *)
Linked ==
    /\ \A p \in procs : next[p] \in procs
    /\ \A p, q \in procs : next[p] = next[q] => p = q

(* ord numbers the processes along the list, and places the sweep.         *)
OrderedBy(ord) ==
    /\ ord[Kernel] = 0
    /\ \A p \in procs : next[p] # Kernel => ord[next[p]] > ord[p]
    /\ phase = "sched" /\ onstack # Kernel =>
          active = onstack \/ ord[active] > ord[onstack]

Ordered == \E ord \in [Pid -> Nat] : OrderedBy(ord)

(* A pending pm_kill_proc() never points at the kernel, and the kernel is  *)
(* never inside a system call.                                             *)
Calls ==
    /\ pc[Kernel] = "user"
    /\ \A p \in Pid : pc[p] = "kill" => arg[p] \in Pid \ {Kernel}

(* Fewer monitors and pids in use than pids handed out.                    *)
Bounded ==
    /\ \A p \in procs : p < nextPid
    /\ maxMon < nextPid

IInv ==
    /\ TypeOK
    /\ KernelNeverDies
    /\ Calls
    /\ Bounded
    /\ RunningNeverFreed
    /\ phase = "run" => active = onstack
    /\ MonitorsOwned
    /\ Linked
    /\ Ordered

(* pm_init() establishes the invariant: the kernel alone in the list.      *)
LEMMA InitIInv == Init => IInv
<1> SUFFICES ASSUME Init PROVE IInv
  OBVIOUS
<1> USE SchedulerAssumption DEF SchedulerAssumption, Init, Pid, Kernel, None, NumVmonitorLimit, UInt16
<1>1. TypeOK
  <2>1. RingTypes
    BY DEF RingTypes, States
  <2>2. CpuTypes
    BY DEF CpuTypes
  <2>3. MonTypes
    BY DEF MonTypes
  <2>4. CallTypes
    BY DEF CallTypes
  <2>5. KbTypes
    BY DEF KbTypes, KbIdle
  <2> QED
    BY <2>1, <2>2, <2>3, <2>4, <2>5 DEF TypeOK
<1>2. KernelNeverDies /\ Calls /\ Bounded /\ RunningNeverFreed /\ MonitorsOwned /\ Linked
  BY DEF KernelNeverDies, Calls, Bounded, RunningNeverFreed, MonitorsOwned, Linked
<1>3. Ordered
  <2> DEFINE ord == [p \in Pid |-> 0]
  <2>1. ord \in [Pid -> Nat] /\ OrderedBy(ord)
    BY DEF OrderedBy
  <2> QED
    BY <2>1 DEF Ordered
<1> QED
  BY <1>1, <1>2, <1>3 DEF IInv

(* A step that leaves the list, the monitors and the CPU alone keeps the   *)
(* invariant if it keeps the types, the kernel alive and the calls right.  *)
LEMMA QuietStep ==
    ASSUME IInv, UNCHANGED <<ringVars, monVars, cpuVars>>,
           TypeOK', KernelNeverDies', Calls'
    PROVE  IInv'
<1> USE DEF ringVars, monVars, cpuVars
<1>1. Bounded' /\ RunningNeverFreed' /\ (phase = "run" => active = onstack)'
  BY DEF IInv, Bounded, RunningNeverFreed
<1>2. MonitorsOwned' /\ Linked'
  BY DEF IInv, MonitorsOwned, Linked
<1>3. Ordered'
  BY DEF IInv, Ordered, OrderedBy
<1> QED
  BY <1>1, <1>2, <1>3 DEF IInv

(* rf_read() leaves a byte count that the queue can have.                  *)
LEMMA TakenInRange ==
    ASSUME NEW w \in Sizes \cup {0}, NEW q \in 0 .. StdinSize
    PROVE  (IF w < q THEN q - w ELSE 0) \in 0 .. StdinSize
<1>1. Sizes \subseteq Nat /\ StdinSize \in Nat
  BY SchedulerAssumption DEF SchedulerAssumption
<1>2. w \in Nat
  BY <1>1
<1> QED
  BY <1>1, <1>2

(* The steps of a process inside its system calls.                         *)
LEMMA ProcessStep ==
    ASSUME Kernel \notin Killable, IInv, NEW p \in Pid, Process(p)
    PROVE  IInv'
<1> USE SchedulerAssumption DEF SchedulerAssumption, Pid, Kernel, None, InProcess, Running, GetProc
<1> USE DEF ringVars, monVars, cpuVars, sliceVars, callVars, TypeOK, Calls, KernelNeverDies
<1>1. CASE Exit(p)
  <2>1. RingTypes'
    BY <1>1 DEF Exit, IInv, RingTypes, States
  <2>2. CallTypes'
    BY <1>1 DEF Exit, IInv, CallTypes
  <2>3. CpuTypes' /\ MonTypes' /\ KbTypes'
    BY <1>1 DEF Exit, IInv, CpuTypes, MonTypes, KbTypes
  <2>4. Calls' /\ KernelNeverDies'
    BY <1>1 DEF Exit, IInv, RingTypes, CallTypes
  <2> QED
    BY <1>1, <2>1, <2>2, <2>3, <2>4, QuietStep DEF Exit
<1>2. CASE KillMark(p)
  <2>1. RingTypes'
    BY <1>2 DEF KillMark, IInv, RingTypes, States
  <2>2. CallTypes'
    BY <1>2 DEF KillMark, IInv, CallTypes
  <2>3. CpuTypes' /\ MonTypes' /\ KbTypes'
    BY <1>2 DEF KillMark, IInv, CpuTypes, MonTypes, KbTypes
  <2>4. Calls' /\ KernelNeverDies'
    BY <1>2 DEF KillMark, IInv, RingTypes, CallTypes
  <2> QED
    BY <1>2, <2>1, <2>2, <2>3, <2>4, QuietStep DEF KillMark
<1>3. ASSUME NEW pid \in Pid, KillLookup(p, pid)
      PROVE  IInv'
  <2>1. TypeOK'
    BY <1>3 DEF KillLookup, IInv, RingTypes, CpuTypes, MonTypes, CallTypes, KbTypes, States
  <2>2. Calls' /\ KernelNeverDies'
    BY <1>3 DEF KillLookup, IInv, CallTypes
  <2> QED
    BY <1>3, <2>1, <2>2, QuietStep DEF KillLookup
<1>9. ASSUME NEW pid \in Pid, Kill(p, pid)
      PROVE  IInv'
  <2>1. RingTypes'
    BY <1>9 DEF Kill, IInv, RingTypes, States
  <2>2. CpuTypes' /\ MonTypes' /\ CallTypes' /\ KbTypes'
    BY <1>9 DEF Kill, IInv, CpuTypes, MonTypes, CallTypes, KbTypes
  <2>3. Calls' /\ KernelNeverDies'
    BY <1>9 DEF Kill, IInv, RingTypes
  <2> QED
    BY <1>9, <2>1, <2>2, <2>3, QuietStep DEF Kill
<1>4. ASSUME NEW pid \in Pid, NEW prio \in Priorities, SetPriority(p, pid, prio)
      PROVE  IInv'
  <2>1. CpuTypes'
    BY <1>4 DEF SetPriority, IInv, CpuTypes
  <2>2. RingTypes' /\ MonTypes' /\ CallTypes' /\ KbTypes'
    BY <1>4 DEF SetPriority, IInv, RingTypes, MonTypes, CallTypes, KbTypes
  <2>3. Calls' /\ KernelNeverDies'
    BY <1>4 DEF SetPriority, IInv
  <2> QED
    BY <1>4, <2>1, <2>2, <2>3, QuietStep DEF SetPriority
<1>5. ASSUME NEW size \in Sizes, ReadStdin(p, size)
      PROVE  IInv'
  <2>1. CallTypes'
    BY <1>5 DEF ReadStdin, IInv, CallTypes
  <2>2. RingTypes' /\ MonTypes' /\ CpuTypes' /\ KbTypes'
    BY <1>5 DEF ReadStdin, IInv, RingTypes, MonTypes, CpuTypes, KbTypes
  <2>3. Calls' /\ KernelNeverDies'
    BY <1>5 DEF ReadStdin, IInv, CallTypes
  <2> QED
    BY <1>5, <2>1, <2>2, <2>3, QuietStep DEF ReadStdin
<1>6. CASE ReadReturn(p)
  <2>0. (IF want[p] < queued[p] THEN queued[p] - want[p] ELSE 0) \in 0 .. StdinSize
    BY TakenInRange DEF IInv, CallTypes
  <2>1. CallTypes'
    BY <1>6, <2>0 DEF ReadReturn, IInv, CallTypes
  <2>2. RingTypes' /\ MonTypes' /\ CpuTypes' /\ KbTypes'
    BY <1>6 DEF ReadReturn, IInv, RingTypes, MonTypes, CpuTypes, KbTypes
  <2>3. Calls' /\ KernelNeverDies'
    BY <1>6 DEF ReadReturn, IInv, CallTypes
  <2> QED
    BY <1>6, <2>1, <2>2, <2>3, QuietStep DEF ReadReturn
<1>7. CASE ReadTest(p)
  <2>1. CallTypes'
    BY <1>7 DEF ReadTest, IInv, CallTypes
  <2>2. RingTypes' /\ CpuTypes' /\ MonTypes' /\ KbTypes'
    BY <1>7 DEF ReadTest, IInv, RingTypes, CpuTypes, MonTypes, KbTypes
  <2>3. Calls' /\ KernelNeverDies'
    BY <1>7 DEF ReadTest, IInv, CallTypes
  <2> QED
    BY <1>7, <2>1, <2>2, <2>3, QuietStep DEF ReadTest
<1>8. CASE ReadSleep(p)
  <2>1. RingTypes'
    BY <1>8 DEF ReadSleep, IInv, RingTypes, States
  <2>2. CallTypes'
    BY <1>8 DEF ReadSleep, IInv, CallTypes
  <2>3. CpuTypes' /\ MonTypes' /\ KbTypes'
    BY <1>8 DEF ReadSleep, IInv, CpuTypes, MonTypes, KbTypes
  <2>4. Calls' /\ KernelNeverDies'
    BY <1>8 DEF ReadSleep, IInv, RingTypes, CallTypes
  <2> QED
    BY <1>8, <2>1, <2>2, <2>3, <2>4, QuietStep DEF ReadSleep
<1> QED
  BY <1>1, <1>2, <1>3, <1>4, <1>5, <1>6, <1>7, <1>8, <1>9 DEF Process

(* rf_write() leaves a byte count that the queue can have.                 *)
LEMMA EnqueuedInRange ==
    ASSUME NEW q \in 0 .. StdinSize
    PROVE  Enqueued(q) \in 0 .. StdinSize
<1>1. StdinSize \in Nat
  BY SchedulerAssumption DEF SchedulerAssumption
<1> QED
  BY <1>1 DEF Enqueued

(* Interrupts that neither switch processes nor create one.                *)
LEMMA InterruptStep ==
    ASSUME IInv, HandleInput \/ OtherInterrupt \/ TimerKeep
    PROVE  IInv'
<1> USE SchedulerAssumption DEF SchedulerAssumption, Pid, Kernel, None, Running, Woken
<1> USE DEF ringVars, monVars, cpuVars, sliceVars, callVars, TypeOK, Calls, KernelNeverDies
<1>1. CASE HandleInput
  <2>1. CallTypes'
    <3>1. /\ CallTypes
          /\ focus \in Pid
          /\ queued' = [queued EXCEPT ![focus] = Enqueued(@)]
          /\ pc' = [pc EXCEPT ![onstack] = IF @ = "halt" THEN "read" ELSE @]
          /\ arg' = arg /\ want' = want
      BY <1>1 DEF HandleInput, IInv, CpuTypes
    <3>2. queued' \in [Pid -> 0 .. StdinSize]
      BY ONLY <3>1, EnqueuedInRange DEF CallTypes
    <3>3. pc' \in [Pid -> {"user", "kill", "read", "sleep", "halt", "exited"}]
      BY ONLY <3>1 DEF CallTypes
    <3> QED
      BY ONLY <3>1, <3>2, <3>3 DEF CallTypes
  <2>2. RingTypes'
    BY <1>1 DEF HandleInput, InputState, IInv, RingTypes, CpuTypes, States
  <2>3. CpuTypes' /\ MonTypes' /\ KbTypes'
    BY <1>1 DEF HandleInput, IInv, CpuTypes, MonTypes, KbTypes
  <2>4. Calls' /\ KernelNeverDies'
    BY <1>1 DEF HandleInput, InputState, IInv, RingTypes, CallTypes, CpuTypes
  <2> QED
    BY <1>1, <2>1, <2>2, <2>3, <2>4, QuietStep DEF HandleInput
<1>2. CASE OtherInterrupt
  <2>1. TypeOK'
    BY <1>2 DEF OtherInterrupt, IInv, RingTypes, CallTypes, CpuTypes, MonTypes, KbTypes
  <2>2. Calls' /\ KernelNeverDies'
    BY <1>2 DEF OtherInterrupt, IInv, CallTypes, CpuTypes
  <2> QED
    BY <1>2, <2>1, <2>2, QuietStep DEF OtherInterrupt
<1>3. CASE TimerKeep
  <2>1. CpuTypes'
    BY <1>3 DEF TimerKeep, KeepsCpu, IInv, CpuTypes
  <2>2. CallTypes'
    BY <1>3 DEF TimerKeep, IInv, CallTypes, CpuTypes
  <2>3. RingTypes' /\ MonTypes' /\ KbTypes'
    BY <1>3 DEF TimerKeep, IInv, RingTypes, MonTypes, KbTypes
  <2>4. Calls' /\ KernelNeverDies'
    BY <1>3, SMTT(30) DEF TimerKeep, IInv, CallTypes, CpuTypes
  <2> QED
    BY <1>3, <2>1, <2>2, <2>3, <2>4, QuietStep DEF TimerKeep
<1> QED
  BY <1>1, <1>2, <1>3

(* A remainder is below its divisor.                                       *)
LEMMA ModRange ==
    ASSUME NEW n \in Nat \ {0}, NEW x \in Int
    PROVE  x % n \in 0 .. n - 1
  OBVIOUS

(* What a monitor switch writes to active_monitor fits its 16 bits.        *)
LEMMA MovedType ==
    ASSUME TypeOK, NEW br \in {"inc", "dec", "first", "last", "none"}
    PROVE  Moved(br) \in 0 .. UInt16 - 1
<1>1. activeMon \in 0 .. UInt16 - 1
  BY DEF TypeOK, MonTypes
<1>2. maxMon \in 0 .. UInt16 - 1
  <2>1. maxMon \in 0 .. MaxPid /\ MaxPid \in 0 .. 999
    BY SchedulerAssumption DEF SchedulerAssumption, NumVmonitorLimit, Pid, TypeOK, MonTypes
  <2>2. maxMon \in Int /\ MaxPid \in Int
    BY <2>1
  <2>3. 0 <= maxMon /\ maxMon <= MaxPid /\ MaxPid <= 999
    BY <2>1
  <2>4. UInt16 \in Int /\ 999 <= UInt16 - 1
    BY DEF UInt16
  <2> QED
    BY <2>2, <2>3, <2>4
<1>b. UInt16 \in Nat \ {0}
  BY DEF UInt16
<1>3. \A x \in Int : x % UInt16 \in 0 .. UInt16 - 1
  BY ONLY <1>b, ModRange
<1>4. activeMon \in Int /\ 0 \in 0 .. UInt16 - 1
  BY ONLY <1>1, <1>b
<1>5. CASE br = "inc"
  <2>1. Moved(br) = (activeMon + 1) % UInt16
    BY <1>5 DEF Moved
  <2>2. activeMon + 1 \in Int
    BY <1>4
  <2> QED
    BY <2>1, <2>2, <1>3
<1>6. CASE br = "dec"
  <2>1. Moved(br) = (activeMon - 1) % UInt16
    BY <1>6 DEF Moved
  <2>2. activeMon - 1 \in Int
    BY <1>4
  <2> QED
    BY <2>1, <2>2, <1>3
<1>7. CASE br \in {"first", "last", "none"}
  BY <1>7, <1>1, <1>2, <1>4 DEF Moved
<1> QED
  BY <1>5, <1>6, <1>7

(* A monitor switch always takes one of the branches of its code.          *)
LEMMA BranchType ==
    ASSUME TypeOK, NEW dir \in {"up", "down"}
    PROVE  SwitchBranch(dir) \in {"inc", "dec", "first", "last", "none"}
<1>1. activeMon \in Int /\ maxMon \in Int /\ activeMon >= 0
  <2>1. activeMon \in 0 .. UInt16 - 1 /\ maxMon \in 0 .. MaxPid
    BY DEF TypeOK, MonTypes, Pid
  <2>2. MaxPid \in Int /\ UInt16 \in Int
    BY SchedulerAssumption DEF SchedulerAssumption, NumVmonitorLimit, UInt16
  <2> QED
    BY ONLY <2>1, <2>2
<1>2. CASE dir = "up"
  <2>1. activeMon < maxMon \/ activeMon = maxMon \/ activeMon > maxMon
    BY ONLY <1>1
  <2> QED
    BY ONLY <1>2, <2>1 DEF SwitchBranch
<1>3. CASE dir = "down"
  <2>1. activeMon > 0 \/ activeMon = 0
    BY ONLY <1>1
  <2> QED
    BY ONLY <1>3, <2>1 DEF SwitchBranch
<1> QED
  BY <1>2, <1>3

(* The shortcuts that switch monitors.                                     *)
LEMMA ShortcutStep ==
    ASSUME IInv, Shortcut
    PROVE  IInv'
<1> USE SchedulerAssumption DEF SchedulerAssumption, Pid, Kernel, None, Running, Woken, InShortcut, GetProc
<1> USE DEF ringVars, monVars, cpuVars, sliceVars, callVars, TypeOK, Calls, KernelNeverDies
<1>1. ASSUME NEW dir \in {"up", "down"}, SwitchMonitor(dir)
      PROVE  IInv'
  <2>1. MonTypes'
    BY <1>1, MovedType, BranchType DEF SwitchMonitor, IInv, MonTypes
  <2>2. RingTypes' /\ KbTypes'
    BY <1>1 DEF SwitchMonitor, IInv, RingTypes, KbTypes
  <2>3. CpuTypes'
    BY <1>1 DEF SwitchMonitor, IInv, CpuTypes, RingTypes
  <2>4. CallTypes'
    BY <1>1 DEF SwitchMonitor, IInv, CallTypes, CpuTypes
  <2>5. Calls' /\ KernelNeverDies'
    BY <1>1 DEF SwitchMonitor, IInv, CallTypes, CpuTypes
  <2> QED
    BY <1>1, <2>1, <2>2, <2>3, <2>4, <2>5, QuietStep DEF SwitchMonitor
<1>2. ASSUME NEW dir \in {"up", "down"}, SwitchBegin(dir)
      PROVE  IInv'
  <2>1. KbTypes'
    BY <1>2, BranchType DEF SwitchBegin, IInv, KbTypes, CpuTypes
  <2>2. RingTypes' /\ CpuTypes' /\ MonTypes' /\ CallTypes'
    BY <1>2 DEF SwitchBegin, IInv, RingTypes, CpuTypes, MonTypes, CallTypes
  <2>3. Calls' /\ KernelNeverDies'
    BY <1>2 DEF SwitchBegin, IInv
  <2> QED
    BY <1>2, <2>1, <2>2, <2>3, QuietStep DEF SwitchBegin
<1>3. CASE SwitchMove
  <2>1. MonTypes'
    BY <1>3, MovedType DEF SwitchMove, IInv, MonTypes, KbTypes
  <2>2. RingTypes' /\ CpuTypes' /\ CallTypes' /\ KbTypes'
    BY <1>3 DEF SwitchMove, IInv, RingTypes, CpuTypes, KbTypes, CallTypes
  <2>3. Calls' /\ KernelNeverDies'
    BY <1>3 DEF SwitchMove, IInv
  <2> QED
    BY <1>3, <2>1, <2>2, <2>3, QuietStep DEF SwitchMove
<1>4. CASE SwitchLookup
  <2>1. KbTypes'
    BY <1>4 DEF SwitchLookup, IInv, MonTypes, KbTypes
  <2>2. RingTypes' /\ CpuTypes' /\ CallTypes' /\ MonTypes'
    BY <1>4 DEF SwitchLookup, IInv, RingTypes, CpuTypes, MonTypes, CallTypes
  <2>3. Calls' /\ KernelNeverDies'
    BY <1>4 DEF SwitchLookup, IInv
  <2> QED
    BY <1>4, <2>1, <2>2, <2>3, QuietStep DEF SwitchLookup
<1>5. CASE SwitchEnd
  <2>1. CpuTypes' /\ KbTypes'
    BY <1>5 DEF SwitchEnd, KbIdle, IInv, CpuTypes, KbTypes
  <2>2. CallTypes'
    BY <1>5 DEF SwitchEnd, IInv, CallTypes, CpuTypes
  <2>3. RingTypes' /\ MonTypes'
    BY <1>5 DEF SwitchEnd, IInv, RingTypes, MonTypes
  <2>4. Calls' /\ KernelNeverDies'
    BY <1>5 DEF SwitchEnd, IInv, CallTypes, CpuTypes
  <2> QED
    BY <1>5, <2>1, <2>2, <2>3, <2>4, QuietStep DEF SwitchEnd
<1> QED
  BY <1>1, <1>2, <1>3, <1>4, <1>5 DEF Shortcut

(* The bound on the monitors fits the width of their index.                *)
LEMMA MaxPidType == MaxPid \in Nat /\ UInt16 \in Nat /\ MaxPid <= UInt16 - 1
<1>1. MaxPid \in Int /\ 0 <= MaxPid /\ MaxPid <= 999
  BY SchedulerAssumption DEF SchedulerAssumption, NumVmonitorLimit
<1>2. UInt16 \in Nat /\ 999 <= UInt16 - 1
  BY DEF UInt16
<1> QED
  BY <1>1, <1>2

(* A new process goes right behind the kernel; everyone else moves up.     *)
LEMMA CreateStep ==
    ASSUME IInv, CreateThread
    PROVE  IInv'
<1> USE MaxPidType DEF Pid, Kernel, None, Running
<1> USE DEF ringVars, monVars, cpuVars, sliceVars, callVars
<1>0. /\ nextPid \in 1 .. MaxPid /\ maxMon \in 0 .. MaxPid /\ maxMon < nextPid
      /\ \A p \in procs : p \in Pid /\ p < nextPid
  BY DEF IInv, CreateThread, Bounded, TypeOK, RingTypes, MonTypes
<1>1. /\ nextPid \in Pid /\ nextPid \notin procs /\ nextPid # Kernel
      /\ maxMon + 1 \in Pid /\ maxMon \in Pid /\ nextPid + 1 \in 1 .. MaxPid + 1
  BY <1>0
<1>2. RingTypes'
  <2>1. procs' \in SUBSET Pid /\ nextPid' \in 1 .. MaxPid + 1
    BY <1>0, <1>1 DEF CreateThread
  <2>2. next' \in [Pid -> Pid]
    <3>1. next \in [Pid -> Pid] /\ next[Kernel] \in Pid
      BY DEF IInv, TypeOK, RingTypes
    <3>2. next' = [next EXCEPT ![nextPid] = next[Kernel], ![Kernel] = nextPid]
      BY DEF CreateThread
    <3> QED
      BY <1>1, <3>1, <3>2
  <2>3. state' \in [Pid -> States]
    BY <1>1 DEF IInv, CreateThread, TypeOK, RingTypes, States
  <2> QED
    BY <2>1, <2>2, <2>3 DEF RingTypes
<1>3. CpuTypes'
  BY <1>1 DEF IInv, CreateThread, TypeOK, CpuTypes
<1>4. MonTypes'
  <2>2. activeMon' \in 0 .. UInt16 - 1
    BY <1>0 DEF CreateThread
  <2> QED
    BY <1>1, <2>2 DEF IInv, CreateThread, TypeOK, MonTypes
<1>5. CallTypes' /\ Calls'
  BY DEF IInv, CreateThread, Woken, TypeOK, CallTypes, CpuTypes, Calls
<1>6. KbTypes'
  BY DEF IInv, CreateThread, TypeOK, KbTypes
<1>7. KernelNeverDies' /\ RunningNeverFreed' /\ (phase = "run" => active = onstack)'
  BY <1>1 DEF IInv, CreateThread, KernelNeverDies, RunningNeverFreed, TypeOK, RingTypes
<1>8. Bounded'
  BY <1>0, <1>1 DEF CreateThread, Bounded
<1>9. MonitorsOwned'
  <2>1. ASSUME NEW p \in procs'
        PROVE  vmonitor'[p] <= maxMon' /\ monPid'[vmonitor'[p]] = p
    BY <1>0, <1>1 DEF IInv, CreateThread, MonitorsOwned, TypeOK, MonTypes
  <2>2. ASSUME NEW i \in 0 .. maxMon'
        PROVE  monPid'[i] \in procs' /\ vmonitor'[monPid'[i]] = i
    <3>1. i = maxMon + 1 \/ i \in 0 .. maxMon
      BY <1>0, <2>2 DEF CreateThread
    <3>2. CASE i = maxMon + 1
      BY <1>1, <3>2 DEF IInv, CreateThread, TypeOK, MonTypes
    <3>3. CASE i \in 0 .. maxMon
      <4>1. i # maxMon + 1 /\ i \in Pid
        BY <1>0, <3>3
      <4>2. monPid'[i] = monPid[i] /\ monPid[i] \in procs /\ vmonitor[monPid[i]] = i
        BY <3>3, <4>1 DEF IInv, CreateThread, TypeOK, MonTypes, MonitorsOwned
      <4> QED
        BY <1>0, <1>1, <4>2 DEF IInv, CreateThread, TypeOK, MonTypes
    <3> QED
      BY <3>1, <3>2, <3>3
  <2> QED
    BY <2>1, <2>2 DEF MonitorsOwned
<1>10. Linked'
  BY <1>1, SMTT(30) DEF IInv, CreateThread, Linked, KernelNeverDies, TypeOK, RingTypes
<1>11. Ordered'
  <2>1. PICK ord \in [Pid -> Nat] : OrderedBy(ord)
    BY DEF IInv, Ordered
  <2>2. PICK new \in [Pid -> Nat] :
            new = [p \in Pid |-> IF p = Kernel THEN 0
                                 ELSE IF p = nextPid THEN 1 ELSE ord[p] + 1]
    <3>1. [p \in Pid |-> IF p = Kernel THEN 0 ELSE IF p = nextPid THEN 1 ELSE ord[p] + 1]
              \in [Pid -> Nat]
      BY <2>1
    <3> QED
      BY <3>1
  <2>3. phase' = "run"
    BY DEF CreateThread
  <2>4. ASSUME NEW p \in procs', next'[p] # Kernel
        PROVE  new[next'[p]] > new[p]
    <3>1. CASE p = Kernel
      BY <1>1, <2>2, <2>4, <3>1 DEF IInv, CreateThread, TypeOK, RingTypes
    <3>2. CASE p = nextPid
      <4>1. next'[p] = next[Kernel] /\ next[Kernel] \in procs
        BY <1>1, <3>2 DEF IInv, CreateThread, TypeOK, RingTypes, Linked, KernelNeverDies
      <4>2. ord[next[Kernel]] > 0
        BY <2>1, <2>4, <4>1 DEF OrderedBy, IInv, KernelNeverDies
      <4>3. next[Kernel] \in Pid /\ next[Kernel] # nextPid /\ ord[next[Kernel]] \in Nat
        BY <1>0, <1>1, <2>1, <4>1
      <4>4. new[next[Kernel]] = ord[next[Kernel]] + 1 /\ new[p] = 1
        BY <1>1, <2>2, <2>4, <3>2, <4>1, <4>3
      <4> QED
        BY <4>1, <4>2, <4>3, <4>4
    <3>3. CASE p # Kernel /\ p # nextPid
      <4>1. p \in procs /\ next'[p] = next[p] /\ next[p] \in procs
        BY <1>1, <3>3 DEF IInv, CreateThread, TypeOK, RingTypes, Linked
      <4>2. ord[next[p]] > ord[p]
        BY <2>1, <2>4, <4>1 DEF OrderedBy
      <4>3. p \in Pid /\ next[p] \in Pid /\ next[p] # nextPid
        BY <1>0, <1>1, <4>1
      <4>4. new[next[p]] = ord[next[p]] + 1 /\ new[p] = ord[p] + 1
        BY <2>2, <2>4, <3>3, <4>1, <4>3
      <4> QED
        BY <2>1, <4>1, <4>2, <4>3, <4>4, SMTT(30)
    <3> QED
      BY <3>1, <3>2, <3>3
  <2>5. new[Kernel] = 0
    BY <2>2
  <2> QED
    BY <2>2, <2>3, <2>4, <2>5 DEF Ordered, OrderedBy
<1> QED
  BY <1>2, <1>3, <1>4, <1>5, <1>6, <1>7, <1>8, <1>9, <1>10, <1>11 DEF IInv, TypeOK

(* The sweep starts at the process that was interrupted.                   *)
LEMMA TimerSwitchStep ==
    ASSUME IInv, TimerSwitch
    PROVE  IInv'
<1> USE DEF ringVars, monVars, cpuVars, sliceVars, callVars, Running
<1>1. TypeOK'
  BY DEF IInv, TimerSwitch, TypeOK, RingTypes, CpuTypes, MonTypes, CallTypes, KbTypes
<1>2. KernelNeverDies' /\ Calls' /\ Bounded' /\ RunningNeverFreed'
  BY DEF IInv, TimerSwitch, KernelNeverDies, Calls, Bounded, RunningNeverFreed
<1>3. MonitorsOwned' /\ Linked' /\ (phase = "run" => active = onstack)'
  BY DEF IInv, TimerSwitch, MonitorsOwned, Linked
<1>4. Ordered'
  BY DEF IInv, TimerSwitch, Ordered, OrderedBy
<1> QED
  BY <1>1, <1>2, <1>3, <1>4 DEF IInv

(* The candidate of a sweep is allocated; unless it is the kernel it lies  *)
(* strictly ahead of the sweep, so it is not the process being run on.     *)
LEMMA CandidateAhead ==
    ASSUME IInv, phase = "sched", Candidate # Kernel
    PROVE  /\ Candidate \in procs /\ Candidate \in Pid
           /\ Candidate # active /\ Candidate # onstack
           /\ next[Candidate] # Candidate
<1> USE MaxPidType DEF Pid, Kernel, Candidate
<1>1. PICK ord \in [Pid -> Nat] : OrderedBy(ord)
  BY DEF IInv, Ordered
<1>2. active \in procs /\ onstack \in procs /\ Candidate \in procs /\ next[Candidate] \in procs
  BY DEF IInv, RunningNeverFreed, Linked
<1>3. active \in Pid /\ onstack \in Pid /\ Candidate \in Pid /\ next[Candidate] \in Pid
  BY <1>2 DEF IInv, TypeOK, RingTypes
<1>4. ord[Candidate] > ord[active]
  BY <1>1, <1>2 DEF OrderedBy
<1>5. Candidate # onstack
  BY <1>1, <1>2, <1>3, <1>4 DEF OrderedBy
<1>6. next[Candidate] # Candidate
  BY <1>1, <1>2, <1>3 DEF OrderedBy
<1> QED
  BY <1>1, <1>2, <1>3, <1>4, <1>5, <1>6

(* The sweep frees a dead process: its monitor and its place in the list.  *)
LEMMA DestroyStep ==
    ASSUME IInv, SchedDestroy
    PROVE  IInv'
<1> USE MaxPidType DEF Pid, Kernel, None
<1> DEFINE dead == Candidate
           slot == vmonitor[Candidate]
<1>1. dead # Kernel
  BY DEF SchedDestroy, IInv, KernelNeverDies
<1>2. /\ dead \in procs /\ dead \in Pid /\ dead # active /\ dead # onstack
      /\ next[dead] # dead
  BY <1>1, CandidateAhead DEF SchedDestroy
<1>3. active \in procs /\ onstack \in procs /\ active \in Pid /\ onstack \in Pid
  BY DEF IInv, RunningNeverFreed, TypeOK, CpuTypes
<1>4. next[dead] \in procs /\ next[dead] \in Pid
  BY <1>2 DEF IInv, Linked, TypeOK, RingTypes
<1>5. /\ slot \in 0 .. maxMon /\ monPid[slot] = dead
      /\ vmonitor[Kernel] \in 0 .. maxMon /\ monPid[vmonitor[Kernel]] = Kernel
      /\ maxMon \in 0 .. MaxPid
  BY <1>2 DEF IInv, MonitorsOwned, KernelNeverDies, TypeOK, MonTypes
<1>6. maxMon >= 1
  BY <1>1, <1>5
<1>7. monPid[maxMon] \in procs /\ monPid[maxMon] \in Pid /\ vmonitor[monPid[maxMon]] = maxMon
  BY <1>5 DEF IInv, MonitorsOwned, TypeOK, MonTypes
<1>8. /\ procs' = procs \ {dead}
      /\ next' = [next EXCEPT ![active] = next[dead]]
      /\ UNCHANGED <<nextPid, state, active, phase, onstack, priority, slices, kb, wild>>
  BY DEF SchedDestroy, Unlinked, sliceVars, cpuVars
<1>9. RingTypes'
  BY <1>3, <1>4, <1>8 DEF IInv, TypeOK, RingTypes
<1>10. CpuTypes'
  <2>1. focus' \in Pid \cup {None}
    <3>1. \A q : GetProc(q) \in Pid \cup {None}
      BY DEF GetProc, IInv, TypeOK, RingTypes
    <3> QED
      BY <3>1 DEF SchedDestroy, FreeVirtMonitor, FocusAfterFree, IInv, TypeOK, CpuTypes
  <2> QED
    BY <1>8, <2>1 DEF IInv, TypeOK, CpuTypes
<1>11. /\ maxMon' = maxMon - 1
       /\ vmonitor' = IF slot = maxMon THEN vmonitor
                      ELSE [vmonitor EXCEPT ![monPid[maxMon]] = slot]
       /\ monPid' = [monPid EXCEPT ![slot] = monPid[maxMon], ![maxMon] = Kernel]
  BY DEF SchedDestroy, FreeVirtMonitor, OwnerMoved
<1>12. vmonitor \in [Pid -> Pid] /\ monPid \in [Pid -> Pid] /\ slot \in Pid /\ maxMon \in Pid
       /\ procs \subseteq Pid
  <2>1. vmonitor \in [Pid -> Pid] /\ monPid \in [Pid -> Pid]
    BY DEF IInv, TypeOK, MonTypes
  <2>2. procs \subseteq Pid
    BY DEF IInv, TypeOK, RingTypes
  <2>3. maxMon \in Pid
    BY <1>5
  <2>4. slot \in Pid
    BY <1>2, <2>1
  <2> QED
    BY <2>1, <2>2, <2>3, <2>4
<1>20. MonTypes'
  <2>2. vmonitor' \in [Pid -> Pid]
    BY <1>7, <1>11, <1>12
  <2>3. monPid' \in [Pid -> Pid]
    <3>1. [monPid EXCEPT ![slot] = monPid[maxMon]] \in [Pid -> Pid]
      BY <1>7, <1>12
    <3>2. Kernel \in Pid
      BY <1>1, <1>2
    <3> HIDE DEF Pid, Kernel, slot
    <3> QED
      BY <1>11, <1>12, <3>1, <3>2
  <2>4. maxMon' \in Pid
    BY <1>5, <1>6, <1>11
  <2>5. activeMon' \in 0 .. UInt16 - 1
    <3>1. activeMon \in 0 .. UInt16 - 1
      BY DEF IInv, TypeOK, MonTypes
    <3>2. activeMon' = activeMon \/ activeMon' = slot
            \/ (activeMon = maxMon /\ activeMon' = activeMon - 1)
      BY DEF SchedDestroy, FreeVirtMonitor
    <3> QED
      BY <1>5, <1>6, <3>1, <3>2
  <2> QED
    BY <2>2, <2>3, <2>4, <2>5 DEF MonTypes
<1>13. CallTypes' /\ Calls'
  <2>1. queued \in [Pid -> 0 .. StdinSize] /\ 0 \in 0 .. StdinSize
    BY SchedulerAssumption DEF SchedulerAssumption, IInv, TypeOK, CallTypes
  <2>2. queued' \in [Pid -> 0 .. StdinSize]
    BY <1>2, <2>1 DEF SchedDestroy
  <2> QED
    BY <1>1, <1>2, <2>2 DEF SchedDestroy, IInv, TypeOK, CallTypes, Calls
<1>14. KbTypes' /\ KernelNeverDies' /\ RunningNeverFreed'
  BY <1>1, <1>2, <1>8 DEF IInv, TypeOK, KbTypes, KernelNeverDies, RunningNeverFreed
<1>15. Bounded'
  BY <1>5, <1>8, <1>11 DEF IInv, Bounded, TypeOK, RingTypes
<1>16. MonitorsOwned'
  <2>a. /\ \A p \in procs : vmonitor[p] <= maxMon /\ monPid[vmonitor[p]] = p
        /\ \A i \in 0 .. maxMon : monPid[i] \in procs /\ vmonitor[monPid[i]] = i
    BY DEF IInv, MonitorsOwned
  <2>1. ASSUME NEW p \in procs'
        PROVE  vmonitor'[p] <= maxMon' /\ monPid'[vmonitor'[p]] = p
    <3>1. p \in procs /\ p # dead /\ p \in Pid
      BY <1>8, <1>12
    <3>a. vmonitor[p] # slot
      BY <1>5, <2>a, <3>1
    <3>b. vmonitor[p] \in Pid /\ vmonitor[p] <= maxMon
      BY <1>12, <2>a, <3>1
    <3>2. vmonitor[p] # slot /\ vmonitor[p] \in 0 .. maxMon
      BY <1>5, <3>a, <3>b
    <3>3. CASE vmonitor[p] = maxMon
      <4>1. p = monPid[maxMon] /\ slot # maxMon /\ vmonitor'[p] = slot
        BY <1>11, <1>12, <2>a, <3>1, <3>2, <3>3
      <4>2. monPid'[slot] = monPid[maxMon]
        BY <1>11, <1>12, <4>1
      <4>3. slot <= maxMon'
        BY <1>5, <1>11, <4>1
      <4> QED
        BY <4>1, <4>2, <4>3
    <3>4. CASE vmonitor[p] # maxMon
      <4>1. vmonitor'[p] = vmonitor[p]
        BY <1>7, <1>11, <1>12, <3>1, <3>4
      <4>2. monPid'[vmonitor[p]] = monPid[vmonitor[p]]
        BY <1>11, <1>12, <3>1, <3>2, <3>4
      <4> QED
        BY <1>5, <1>11, <2>a, <3>1, <3>2, <3>4, <4>1, <4>2
    <3> QED
      BY <3>3, <3>4
  <2>2. ASSUME NEW i \in 0 .. maxMon'
        PROVE  monPid'[i] \in procs' /\ vmonitor'[monPid'[i]] = i
    <3>1. i \in 0 .. maxMon /\ i # maxMon /\ i \in Pid
      BY <1>5, <1>6, <1>11
    <3>2. CASE i = slot
      <4>1. monPid'[i] = monPid[maxMon] /\ monPid[maxMon] # dead
        BY <1>7, <1>11, <1>12, <3>1, <3>2
      <4> QED
        BY <1>7, <1>8, <1>11, <1>12, <3>1, <3>2, <4>1
    <3>3. CASE i # slot
      <4>1. monPid'[i] = monPid[i] /\ monPid[i] \in procs /\ vmonitor[monPid[i]] = i
        BY <1>11, <1>12, <2>a, <3>1, <3>3
      <4>2. monPid[i] # dead /\ monPid[i] # monPid[maxMon]
        BY <1>7, <3>1, <3>3, <4>1
      <4> QED
        BY <1>7, <1>8, <1>11, <1>12, <4>1, <4>2
    <3> QED
      BY <3>2, <3>3
  <2> QED
    BY <2>1, <2>2 DEF MonitorsOwned
<1>17. Linked'
  <2>1. next \in [Pid -> Pid] /\ procs \subseteq Pid
    BY DEF IInv, TypeOK, RingTypes
  <2>2. \A p \in procs : p # active => next[p] # dead
    BY <1>3 DEF IInv, Linked, Candidate
  <2>3. next'[active] = next[dead] /\ \A p \in Pid : p # active => next'[p] = next[p]
    BY <1>3, <1>8, <2>1
  <2>4. \A p \in procs' : next'[p] \in procs'
    BY <1>2, <1>4, <1>8, <2>1, <2>2, <2>3 DEF IInv, Linked
  <2>a. \A p, q \in procs : next[p] = next[q] => p = q
    BY DEF IInv, Linked
  <2>5. ASSUME NEW p \in procs', NEW q \in procs', next'[p] = next'[q]
        PROVE  p = q
    <3>1. p \in procs /\ q \in procs /\ p # dead /\ q # dead /\ p \in Pid /\ q \in Pid
      BY <1>8, <2>1
    <3>2. CASE p = active /\ q # active
      BY <1>2, <2>3, <2>5, <2>a, <3>1, <3>2
    <3>3. CASE p # active /\ q = active
      BY <1>2, <2>3, <2>5, <2>a, <3>1, <3>3
    <3>4. CASE p # active /\ q # active
      BY <2>3, <2>5, <2>a, <3>1, <3>4
    <3> QED
      BY <3>2, <3>3, <3>4
  <2> QED
    BY <2>4, <2>5 DEF Linked
<1>18. Ordered'
  <2>1. PICK ord \in [Pid -> Nat] : OrderedBy(ord)
    BY DEF IInv, Ordered
  <2>2. next \in [Pid -> Pid] /\ procs \subseteq Pid
    BY DEF IInv, TypeOK, RingTypes
  <2>3. ASSUME NEW p \in procs', next'[p] # Kernel
        PROVE  ord[next'[p]] > ord[p]
    <3>1. CASE p = active
      <4>1. next'[p] = next[dead] /\ ord[next[dead]] > ord[dead]
        BY <1>2, <1>3, <1>8, <2>1, <2>2, <2>3, <3>1 DEF OrderedBy
      <4>2. ord[dead] > ord[active]
        BY <1>1, <1>3, <2>1 DEF OrderedBy, Candidate
      <4> QED
        BY <1>2, <1>3, <1>4, <2>1, <3>1, <4>1, <4>2
    <3>2. CASE p # active
      BY <1>3, <1>8, <2>1, <2>2, <2>3, <3>2 DEF OrderedBy
    <3> QED
      BY <3>1, <3>2
  <2> QED
    BY <1>8, <2>1, <2>3 DEF Ordered, OrderedBy
<1>19. (phase = "run" => active = onstack)'
  BY <1>8 DEF SchedDestroy
<1> QED
  BY <1>9, <1>10, <1>20, <1>13, <1>14, <1>15, <1>16, <1>17, <1>18, <1>19 DEF IInv, TypeOK

(* The sweep jumps over a sleeping process.                                *)
LEMMA SkipStep ==
    ASSUME IInv, SchedSkip
    PROVE  IInv'
<1> USE MaxPidType DEF Pid, Kernel
<1> USE DEF ringVars, monVars, sliceVars, callVars
<1>1. Candidate # Kernel
  BY DEF SchedSkip, Skipped, IInv, KernelNeverDies
<1>2. Candidate \in procs /\ Candidate \in Pid
  BY <1>1, CandidateAhead DEF SchedSkip
<1>3. TypeOK'
  BY <1>2 DEF SchedSkip, IInv, TypeOK, RingTypes, CpuTypes, MonTypes, CallTypes, KbTypes
<1>4. KernelNeverDies' /\ Calls' /\ Bounded' /\ RunningNeverFreed'
      /\ (phase = "run" => active = onstack)'
  BY <1>2 DEF SchedSkip, IInv, KernelNeverDies, Calls, Bounded, RunningNeverFreed
<1>5. MonitorsOwned' /\ Linked'
  BY DEF SchedSkip, IInv, MonitorsOwned, Linked
<1>6. Ordered'
  <2>1. PICK ord \in [Pid -> Nat] : OrderedBy(ord)
    BY DEF IInv, Ordered
  <2>2. ord[Candidate] > ord[active]
    BY <1>1, <2>1 DEF OrderedBy, Candidate, IInv, RunningNeverFreed
  <2>3. active \in Pid /\ onstack \in Pid
    BY DEF IInv, TypeOK, CpuTypes
  <2>4. onstack # Kernel => ord[active'] > ord[onstack]
    BY <1>2, <2>1, <2>2, <2>3 DEF SchedSkip, OrderedBy
  <2> QED
    BY <2>1, <2>4 DEF SchedSkip, Ordered, OrderedBy
<1> QED
  BY <1>3, <1>4, <1>5, <1>6 DEF IInv

(* The sweep ends at the first process alive.                              *)
LEMMA PickStep ==
    ASSUME IInv, SchedPick
    PROVE  IInv'
<1> USE MaxPidType DEF Pid, Kernel, Woken
<1> USE DEF ringVars, monVars, sliceVars, callVars
<1>1. Candidate \in procs /\ Candidate \in Pid
  BY DEF Candidate, IInv, Linked, RunningNeverFreed, TypeOK, RingTypes
<1>2. RingTypes' /\ MonTypes' /\ KbTypes'
  BY DEF SchedPick, IInv, TypeOK, RingTypes, MonTypes, KbTypes
<1>3. CpuTypes'
  <2>a. Priorities \cup {1} \subseteq Nat
    BY SchedulerAssumption DEF SchedulerAssumption
  <2>b. priority \in [Pid -> Priorities \cup {1}]
    BY DEF IInv, TypeOK, CpuTypes
  <2>1. \A p \in Pid : priority[p] \in Nat
    BY <2>a, <2>b
  <2> QED
    BY <1>1, <2>1 DEF SchedPick, IInv, TypeOK, CpuTypes
<1>4. CallTypes' /\ Calls'
  BY <1>1 DEF SchedPick, IInv, TypeOK, CallTypes, Calls
<1>5. KernelNeverDies' /\ Bounded' /\ RunningNeverFreed' /\ (phase = "run" => active = onstack)'
  BY <1>1 DEF SchedPick, IInv, KernelNeverDies, Bounded, RunningNeverFreed
<1>6. MonitorsOwned' /\ Linked'
  BY DEF SchedPick, IInv, MonitorsOwned, Linked
<1>7. Ordered'
  BY DEF SchedPick, IInv, Ordered, OrderedBy
<1> QED
  BY <1>2, <1>3, <1>4, <1>5, <1>6, <1>7 DEF IInv, TypeOK

(* Every step of the process manager preserves the inductive invariant.    *)
LEMMA NextIInv ==
    ASSUME Kernel \notin Killable, IInv, [Next]_vars
    PROVE  IInv'
<1>1. CASE UNCHANGED vars
  BY <1>1, SMTT(30) DEF vars, ringVars, monVars, cpuVars, sliceVars, callVars, IInv, TypeOK, RingTypes,
     CpuTypes, MonTypes, CallTypes, KbTypes, KernelNeverDies, Calls, Bounded, RunningNeverFreed,
     MonitorsOwned, Linked, Ordered, OrderedBy
<1>2. CASE \E p \in Pid : Process(p)
  BY <1>2, ProcessStep
<1>3. CASE Next /\ ~(\E p \in Pid : Process(p))
  BY <1>1, <1>3, CreateStep, InterruptStep, ShortcutStep, TimerSwitchStep, DestroyStep, SkipStep,
     PickStep DEF Next, Tick, Sweep, Undefined
<1> QED
  BY <1>1, <1>2, <1>3
----------------------------------------------------------------------------
(* The inductive invariant holds in every reachable state: the list, the   *)
(* monitors, the sweep of pm_schedule() and the stack it runs on agree.    *)
THEOREM InvariantHolds ==
    ASSUME Kernel \notin Killable PROVE Spec => []IInv
<1>1. Init => IInv
  BY InitIInv
<1>2. IInv /\ [Next]_vars => IInv'
  BY NextIInv
<1> QED
  BY <1>1, <1>2, PTL DEF Spec

(* Every variable of the process manager keeps its type, for any number of *)
(* processes and wherever the timer interrupts a system call.              *)
THEOREM TypeCorrect ==
    ASSUME Kernel \notin Killable PROVE Spec => []TypeOK
<1>1. IInv => TypeOK
  BY DEF IInv
<1> QED
  BY <1>1, InvariantHolds, PTL

(* pm_schedule() never releases the process whose stack it is running on,  *)
(* nor the one active_proc points to: the sweep meets the kernel first.    *)
THEOREM RunningSafe ==
    ASSUME Kernel \notin Killable PROVE Spec => []RunningNeverFreed
<1>1. IInv => RunningNeverFreed
  BY DEF IInv
<1> QED
  BY <1>1, InvariantHolds, PTL

(* free_virt_monitor() keeps monitors and processes matched one to one,    *)
(* whichever monitor is deleted and whichever is on the screen.            *)
THEOREM MonitorsSafe ==
    ASSUME Kernel \notin Killable PROVE Spec => []MonitorsOwned
<1>1. IInv => MonitorsOwned
  BY DEF IInv
<1> QED
  BY <1>1, InvariantHolds, PTL
----------------------------------------------------------------------------
(* The walk along the list.  Every set of numbers that is not empty has a  *)
(* least one: what holds at 0, and at each n after n - 1, has no least     *)
(* exception.                                                              *)
LEMMA Least ==
    ASSUME NEW S, S \subseteq Nat, S # {}
    PROVE  \E m \in S : \A k \in S : m <= k
<1>1. PICK m \in S : \A k \in S : <<k, m>> \notin OpToRel(<, Nat)
  BY WFMin, NatLessThanWellFounded
<1>2. ASSUME NEW k \in S PROVE m <= k
  <2>1. m \in Nat /\ k \in Nat
    OBVIOUS
  <2>2. ~(k < m)
    BY <1>1, <2>1 DEF OpToRel
  <2> QED
    BY <2>1, <2>2
<1> QED
  BY <1>1, <1>2

(* w lists the processes that n steps along next lead to.                  *)
Steps(w, n) == \A i \in 1 .. n : w[i] = next[w[i - 1]]

(* From every process of a set that next does not leave, a walk of any     *)
(* length stays inside.                                                    *)
LEMMA WalkExists ==
    ASSUME NEW S, \A p \in S : next[p] \in S, NEW p \in S, NEW n \in Nat
    PROVE  \E w \in [0 .. n -> S] : w[0] = p /\ Steps(w, n)
<1> DEFINE W(m) == \E w \in [0 .. m -> S] : w[0] = p /\ Steps(w, m)
           B == {m \in Nat : ~W(m)}
<1> SUFFICES ASSUME B # {} PROVE FALSE
  OBVIOUS
<1>1. PICK m \in B : \A k \in B : m <= k
  <2> B \subseteq Nat
    OBVIOUS
  <2> HIDE DEF B
  <2> QED
    BY Least
<1>2. W(0)
  <2> DEFINE w == [i \in 0 .. 0 |-> p]
  <2>1. w \in [0 .. 0 -> S] /\ w[0] = p /\ Steps(w, 0)
    BY DEF Steps
  <2> QED
    BY <2>1
<1>3. m - 1 \in Nat /\ W(m - 1)
  <2>1. m \in Nat /\ ~W(m)
    BY <1>1
  <2> HIDE DEF W
  <2>2. m - 1 \in Nat /\ ~(m <= m - 1)
    BY <1>2, <2>1
  <2> QED
    BY <1>1, <2>2
<1>4. PICK v \in [0 .. m - 1 -> S] : v[0] = p /\ Steps(v, m - 1)
  BY <1>3
<1> DEFINE w == [i \in 0 .. m |-> IF i = m THEN next[v[m - 1]] ELSE v[i]]
<1>5. w \in [0 .. m -> S]
  <2>1. \A i \in 0 .. m : i # m => i \in 0 .. m - 1
    BY <1>1
  <2>2. m - 1 \in 0 .. m - 1 /\ next[v[m - 1]] \in S
    BY <1>3, <1>4
  <2> QED
    BY <1>4, <2>1, <2>2
<1>6. w[0] = p /\ Steps(w, m)
  <2>1. w[0] = p
    BY <1>1, <1>3, <1>4
  <2>2. ASSUME NEW i \in 1 .. m PROVE w[i] = next[w[i - 1]]
    <3>1. i - 1 \in 0 .. m /\ i - 1 # m /\ w[i - 1] = v[i - 1]
      BY <1>1, <2>2
    <3>2. i # m => i \in 1 .. m - 1 /\ i \in 0 .. m
      BY <1>1, <2>2
    <3> QED
      BY <1>1, <1>4, <2>2, <3>1, <3>2 DEF Steps
  <2> QED
    BY <2>1, <2>2 DEF Steps
<1>7. W(m)
  BY <1>5, <1>6
<1> HIDE DEF W
<1> QED
  BY <1>1, <1>7

(* Until a walk meets the kernel, it only goes forward.                    *)
LEMMA WalkAscends ==
    ASSUME NEW ord \in [Pid -> Nat], OrderedBy(ord), procs \subseteq Pid,
           NEW n \in Nat, NEW w \in [0 .. n -> procs], Steps(w, n),
           \A i \in 1 .. n : w[i] # Kernel
    PROVE  \A j \in 0 .. n : \A i \in 0 .. j - 1 : ord[w[i]] < ord[w[j]]
<1> DEFINE P(j) == \A i \in 0 .. j - 1 : ord[w[i]] < ord[w[j]]
           B == {j \in 0 .. n : ~P(j)}
<1> SUFFICES ASSUME B # {} PROVE FALSE
  OBVIOUS
<1>1. PICK j \in B : \A k \in B : j <= k
  <2> B \subseteq Nat
    OBVIOUS
  <2> HIDE DEF B
  <2> QED
    BY Least
<1>2. j \in 0 .. n /\ ~P(j)
  BY <1>1
<1>3. j # 0
  BY <1>2
<1>4. j - 1 \in 0 .. n /\ j \in 1 .. n /\ P(j - 1)
  <2>1. j - 1 \in 0 .. n /\ ~(j <= j - 1) /\ j \in 1 .. n
    BY <1>2, <1>3
  <2> QED
    BY <1>1, <2>1
<1>5. ord[w[j - 1]] < ord[w[j]]
  <2>1. w[j] = next[w[j - 1]] /\ w[j] # Kernel /\ w[j - 1] \in procs
    BY <1>4 DEF Steps
  <2> QED
    BY <2>1 DEF OrderedBy
<1>6. \A i \in 0 .. n : ord[w[i]] \in Nat
  <2>1. \A i \in 0 .. n : w[i] \in Pid
    OBVIOUS
  <2> QED
    BY <2>1
<1>7. ASSUME NEW i \in 0 .. j - 1 PROVE ord[w[i]] < ord[w[j]]
  <2>1. CASE i = j - 1
    BY <1>5, <2>1
  <2>2. CASE i # j - 1
    <3>1. i \in 0 .. (j - 1) - 1 /\ i \in 0 .. n
      BY <1>2, <1>7, <2>2
    <3>2. ord[w[i]] < ord[w[j - 1]]
      BY <1>4, <3>1
    <3> QED
      BY <1>2, <1>4, <1>5, <1>6, <3>1, <3>2
  <2> QED
    BY <2>1, <2>2
<1> QED
  BY <1>2, <1>7

(* So it meets the kernel after at most as many steps as there are         *)
(* processes: it would be at as many different ones, and one more.         *)
LEMMA WalkReturns ==
    ASSUME NEW ord \in [Pid -> Nat], OrderedBy(ord), procs \subseteq Pid, IsFiniteSet(procs),
           NEW w \in [0 .. Cardinality(procs) -> procs], Steps(w, Cardinality(procs))
    PROVE  \E i \in 1 .. Cardinality(procs) : w[i] = Kernel
<1> DEFINE n == Cardinality(procs)
<1> SUFFICES ASSUME \A i \in 1 .. n : w[i] # Kernel PROVE FALSE
  OBVIOUS
<1>1. n \in Nat
  BY FS_CardinalityType
<1>2. \A j \in 0 .. n : \A i \in 0 .. j - 1 : ord[w[i]] < ord[w[j]]
  <2> HIDE DEF n
  <2> QED
    BY <1>1, WalkAscends DEF n
<1>3. IsFiniteSet(0 .. n) /\ Cardinality(0 .. n) = n + 1
  <2> HIDE DEF n
  <2> QED
    BY <1>1, FS_Interval
<1>4. Cardinality(procs) < Cardinality(0 .. n)
  BY <1>1, <1>3
<1>5. PICK i, j \in 0 .. n : i # j /\ w[i] = w[j]
  BY <1>3, <1>4, FS_PigeonHole
<1>6. i < j \/ j < i
  BY <1>1, <1>5
<1>7. ord[w[i]] \in Nat
  OBVIOUS
<1>8. CASE i < j
  <2>1. i \in 0 .. j - 1
    BY <1>1, <1>8
  <2> QED
    BY <1>2, <1>5, <1>7, <2>1
<1>9. CASE j < i
  <2>1. j \in 0 .. i - 1
    BY <1>1, <1>9
  <2> QED
    BY <1>2, <1>5, <1>7, <2>1
<1> QED
  BY <1>6, <1>8, <1>9

(* The list as a ring: from the kernel, as many steps as there are         *)
(* processes visit each of them once and end at the kernel again.          *)
LEMMA RingClosed ==
    ASSUME IInv, IsFiniteSet(procs),
           NEW w \in [0 .. Cardinality(procs) -> procs], w[0] = Kernel, Steps(w, Cardinality(procs))
    PROVE  /\ {w[i] : i \in 0 .. Cardinality(procs) - 1} = procs
           /\ w[Cardinality(procs)] = Kernel
<1> DEFINE n == Cardinality(procs)
<1>1. n \in Nat /\ procs \subseteq Pid /\ Kernel \in procs
  BY FS_CardinalityType DEF IInv, TypeOK, RingTypes, KernelNeverDies
<1>2. PICK ord \in [Pid -> Nat] : OrderedBy(ord)
  BY DEF IInv, Ordered
<1>3. /\ \A p \in procs : next[p] \in procs
      /\ \A p, q \in procs : next[p] = next[q] => p = q
  BY DEF IInv, Linked
<1>4. \E i \in 1 .. n : w[i] = Kernel
  BY <1>1, <1>2, WalkReturns
<1>5. PICK k \in 1 .. n : w[k] = Kernel /\ \A i \in 1 .. k - 1 : w[i] # Kernel
  <2> DEFINE S == {i \in 1 .. n : w[i] = Kernel}
  <2>1. S \subseteq Nat /\ S # {}
    BY <1>4
  <2>2. PICK k \in S : \A i \in S : k <= i
    <3> HIDE DEF S
    <3> QED
      BY <2>1, Least
  <2>3. \A i \in 1 .. k - 1 : i \in 1 .. n /\ ~(k <= i)
    BY <1>1, <2>2
  <2> QED
    BY <2>2, <2>3
<1> DEFINE V == {w[i] : i \in 0 .. k - 1}
<1> HIDE DEF n
<1>6. \A i \in 0 .. k - 1 : i \in 0 .. n /\ w[i] \in procs
  BY <1>1, <1>5 DEF n
<1>7. V = procs
  <2> SUFFICES ASSUME procs \ V # {} PROVE FALSE
    BY <1>6
  <2> DEFINE R == procs \ V
  <2>1. ASSUME NEW p \in R PROVE next[p] \in R
    <3>1. p \in procs /\ next[p] \in procs /\ p \notin V
      BY <1>3, <2>1
    <3>2. ASSUME NEW i \in 0 .. k - 1, next[p] = w[i] PROVE FALSE
      <4> DEFINE j == IF i = 0 THEN k ELSE i
      <4>1. j \in 1 .. n /\ j - 1 \in 0 .. k - 1 /\ w[j] = next[p]
        BY <1>1, <1>5, <3>2
      <4>2. w[j] = next[w[j - 1]]
        BY <4>1 DEF Steps, n
      <4>3. w[j - 1] = p
        BY <1>3, <1>6, <3>1, <4>1, <4>2
      <4> QED
        BY <3>1, <4>1, <4>3
    <3> QED
      BY <3>1, <3>2
  <2>2. PICK p \in R : TRUE
    OBVIOUS
  <2> HIDE DEF R
  <2>3. PICK v \in [0 .. n -> R] : v[0] = p /\ Steps(v, n)
    BY <1>1, <2>1, WalkExists
  <2>4. R \subseteq procs /\ Kernel \notin R
    <3>1. Kernel \in V
      <4>1. 0 \in 0 .. k - 1
        BY <1>1, <1>5
      <4> QED
        BY <4>1
    <3> QED
      BY <3>1 DEF R
  <2>5. v \in [0 .. n -> procs] /\ \A i \in 1 .. n : v[i] # Kernel
    BY <1>1, <2>3, <2>4
  <2> QED
    BY <1>1, <1>2, <2>3, <2>5, WalkReturns DEF n
<1>8. k = n
  <2> DEFINE f == [i \in 0 .. k - 1 |-> w[i]]
  <2>1. f \in [0 .. k - 1 -> procs]
    BY <1>6
  <2>2. f \in Surjection(0 .. k - 1, procs)
    <3>1. \A p \in procs : \E i \in 0 .. k - 1 : f[i] = p
      BY <1>7
    <3> HIDE DEF f
    <3> QED
      BY <2>1, <3>1 DEF Surjection
  <2>3. IsFiniteSet(0 .. k - 1) /\ Cardinality(0 .. k - 1) = k
    BY <1>1, <1>5, FS_Interval, SMTT(30)
  <2>4. n <= k
    <3> HIDE DEF f
    <3> QED
      BY <2>2, <2>3, FS_Surjection DEF n
  <2> QED
    BY <1>1, <1>5, <2>4
<1> QED
  BY <1>5, <1>7, <1>8 DEF n

(* pm_get_proc() and the sweep of pm_schedule() rely on this: walking next *)
(* from procs_head meets every allocated process once, none that was       *)
(* released, and comes back, however processes are created and killed and  *)
(* wherever the timer interrupts them.                                     *)
THEOREM RingIsWhole ==
    ASSUME Kernel \notin Killable PROVE Spec => []RingWhole
<1>1. ASSUME IInv PROVE RingWhole
  <2> DEFINE n == Cardinality(procs)
             Walk(u) == [i \in 0 .. n |-> IF i = 0 THEN Kernel ELSE next[u[i - 1]]]
             w == CHOOSE u : u = Walk(u)
  <2>1. /\ n \in Nat /\ IsFiniteSet(procs) /\ Kernel \in procs
        /\ \A p \in procs : next[p] \in procs
    <3>1. IsFiniteSet(Pid) /\ procs \in SUBSET Pid
      BY <1>1, MaxPidType, FS_Interval DEF Pid, IInv, TypeOK, RingTypes
    <3>2. IsFiniteSet(procs)
      BY <3>1, FS_Subset
    <3> QED
      BY <1>1, <3>2, FS_CardinalityType DEF IInv, KernelNeverDies, Linked
  <2>2. \E u : u = Walk(u)
    <3>1. PICK u \in [0 .. n -> procs] : u[0] = Kernel /\ Steps(u, n)
      <4> HIDE DEF n
      <4> QED
        BY <2>1, WalkExists
    <3>2. \A i \in 0 .. n : u[i] = IF i = 0 THEN Kernel ELSE next[u[i - 1]]
      BY <2>1, <3>1 DEF Steps
    <3>3. u = Walk(u)
      BY <3>1, <3>2
    <3> QED
      BY <3>3
  <2>3. w = Walk(w)
    BY <2>2
  <2> HIDE DEF w, n
  <2>4. w[0] = Kernel /\ \A i \in 1 .. n : w[i] = next[w[i - 1]]
    <3>1. \A i \in 0 .. n : w[i] = IF i = 0 THEN Kernel ELSE next[w[i - 1]]
      BY <2>3, Zenon
    <3> QED
      BY <2>1, <3>1
  <2>5. \A i \in 0 .. n : w[i] \in procs
    <3> DEFINE B == {i \in 0 .. n : w[i] \notin procs}
    <3> SUFFICES ASSUME B # {} PROVE FALSE
      OBVIOUS
    <3>1. PICK j \in B : \A k \in B : j <= k
      <4> B \subseteq Nat
        OBVIOUS
      <4> HIDE DEF B
      <4> QED
        BY Least
    <3>2. j \in 1 .. n /\ j - 1 \in 0 .. n /\ ~(j <= j - 1)
      BY <2>1, <2>4, <3>1
    <3>3. w[j - 1] \in procs
      BY <3>1, <3>2
    <3> QED
      BY <2>1, <2>4, <3>1, <3>2, <3>3
  <2>6. w \in [0 .. n -> procs]
    <3>1. Walk(w) \in [0 .. n -> procs]
      <4>1. \A i \in 0 .. n : Walk(w)[i] = w[i]
        BY <2>3
      <4> QED
        BY <2>5, <4>1
    <3> QED
      BY <2>3, <3>1, Zenon
  <2>7. {w[i] : i \in 0 .. n - 1} = procs /\ w[n] = Kernel
    BY <1>1, <2>1, <2>4, <2>6, RingClosed DEF n, Steps
  <2> QED
    BY <2>7, Zenon DEF RingWhole, w, n
<1> QED
  BY <1>1, InvariantHolds, PTL
----------------------------------------------------------------------------
(* The input focus.  While the shortcuts that switch monitors run to their *)
(* end, the keyboard handler is never found inside one.                    *)
FocusInv ==
    /\ kb = KbIdle
    /\ activeMon \in 0 .. maxMon
    /\ focus # None => focus \in procs /\ monPid[activeMon] = focus

(* The monitors that a switch moves to exist, and their owners do.         *)
LEMMA SwitchKeepsFocus ==
    ASSUME IInv, FocusInv, NEW dir \in {"up", "down"}, SwitchMonitor(dir)
    PROVE  FocusInv'
<1> DEFINE new == Moved(SwitchBranch(dir))
<1>1. /\ maxMon \in Nat /\ maxMon < UInt16 /\ activeMon \in Nat /\ activeMon <= maxMon
      /\ UInt16 \in Nat
  <2>1. maxMon \in 0 .. MaxPid
    BY DEF IInv, TypeOK, MonTypes, Pid
  <2> QED
    BY <2>1, MaxPidType DEF FocusInv
<1>2. new \in 0 .. maxMon
  <2>1. CASE SwitchBranch(dir) = "inc"
    <3>1. activeMon < maxMon
      BY <1>1, <2>1 DEF SwitchBranch
    <3>2. activeMon + 1 \in 0 .. UInt16 - 1
      BY <1>1, <3>1
    <3>3. (activeMon + 1) % UInt16 = activeMon + 1
      BY <1>1, <3>2
    <3> QED
      BY <1>1, <2>1, <3>1, <3>3 DEF Moved
  <2>2. CASE SwitchBranch(dir) = "dec"
    <3>1. activeMon > 0
      BY <1>1, <2>2 DEF SwitchBranch
    <3>2. activeMon - 1 \in 0 .. UInt16 - 1
      BY <1>1, <3>1
    <3>3. (activeMon - 1) % UInt16 = activeMon - 1
      BY <1>1, <3>2
    <3> QED
      BY <1>1, <2>2, <3>1, <3>3 DEF Moved
  <2>3. CASE SwitchBranch(dir) \in {"first", "last"}
    BY <1>1, <2>3 DEF Moved
  <2>4. SwitchBranch(dir) # "none"
    BY <1>1 DEF SwitchBranch
  <2> QED
    BY <2>1, <2>2, <2>3, <2>4, BranchType DEF IInv
<1>3. activeMon' = new /\ focus' = GetProc(monPid[new]) /\ UNCHANGED <<procs, monPid, maxMon, kb>>
  BY DEF SwitchMonitor, ringVars, monVars
<1> HIDE DEF new
<1>4. monPid[new] \in procs
  BY <1>2 DEF IInv, MonitorsOwned
<1> QED
  BY <1>2, <1>3, <1>4 DEF FocusInv, GetProc

(* Whichever monitor free_virt_monitor() releases and moves, the one on    *)
(* the screen keeps the focus or passes it to its successor.               *)
LEMMA DestroyKeepsFocus ==
    ASSUME IInv, FocusInv, SchedDestroy
    PROVE  FocusInv'
<1> DEFINE dead == Candidate
           slot == vmonitor[dead]
<1>1. dead # Kernel
  BY DEF SchedDestroy, IInv, KernelNeverDies
<1>2. dead \in procs
  BY <1>1, CandidateAhead DEF SchedDestroy
<1>3. /\ \A p \in procs : vmonitor[p] \in Nat /\ vmonitor[p] <= maxMon /\ monPid[vmonitor[p]] = p
      /\ \A i \in 0 .. maxMon : monPid[i] \in procs /\ vmonitor[monPid[i]] = i
      /\ Kernel \in procs
  <2>1. procs \subseteq Pid /\ Pid \subseteq Nat
    BY MaxPidType DEF IInv, TypeOK, RingTypes, Pid
  <2>2. \A p \in procs : vmonitor[p] \in Nat
    BY <2>1 DEF IInv, TypeOK, MonTypes
  <2> QED
    BY <2>2 DEF IInv, MonitorsOwned, KernelNeverDies
<1>4. /\ monPid \in [Pid -> Pid] /\ maxMon \in Pid /\ 0 .. maxMon \subseteq Pid /\ Pid \subseteq Nat
      /\ procs \subseteq Pid /\ None \notin procs
  <2>1. monPid \in [Pid -> Pid] /\ maxMon \in Pid /\ procs \subseteq Pid
    BY DEF IInv, TypeOK, RingTypes, MonTypes
  <2>2. \A i \in Pid : i \in Nat /\ 0 .. i \subseteq Pid /\ i # None
    BY MaxPidType DEF Pid, None
  <2> QED
    BY <2>1, <2>2
<1>5. /\ procs' = procs \ {dead} /\ kb' = kb /\ maxMon' = maxMon - 1
      /\ monPid' = [monPid EXCEPT ![slot] = monPid[maxMon], ![maxMon] = Kernel]
      /\ focus' = FocusAfterFree(slot)
      /\ activeMon' = CASE slot = maxMon /\ activeMon = maxMon -> activeMon - 1
                        [] slot # maxMon /\ activeMon = maxMon -> slot
                        [] OTHER                               -> activeMon
  BY DEF SchedDestroy, FreeVirtMonitor
<1> HIDE DEF dead
<1>6. slot \in 0 .. maxMon /\ monPid[slot] = dead /\ maxMon >= 1 /\ maxMon \in Nat
  <2>1. slot \in Nat /\ slot <= maxMon /\ monPid[slot] = dead /\ maxMon \in Nat
    BY <1>2, <1>3, <1>4
  <2>2. vmonitor[Kernel] \in Nat /\ vmonitor[Kernel] <= maxMon /\ vmonitor[Kernel] # slot
    BY <1>1, <1>3, <2>1
  <2> QED
    BY <2>1, <2>2
<1> HIDE DEF slot
<1>7. \A i \in 0 .. maxMon : i # slot => monPid[i] # dead
  BY <1>2, <1>3 DEF slot
<1>8. \A i \in 0 .. maxMon - 1 : monPid'[i] = IF i = slot THEN monPid[maxMon] ELSE monPid[i]
  BY <1>4, <1>5, <1>6
<1>9. /\ activeMon \in 0 .. maxMon /\ kb = KbIdle
      /\ focus # None => focus \in procs /\ monPid[activeMon] = focus
  BY DEF FocusInv
<1>10. CASE slot = maxMon /\ activeMon = maxMon
  <2>1. activeMon' = maxMon - 1 /\ focus' = GetProc(monPid[maxMon - 1]) /\ maxMon - 1 \in 0 .. maxMon
    BY <1>5, <1>6, <1>10 DEF FocusAfterFree
  <2>2. monPid[maxMon - 1] \in procs \ {dead} /\ monPid'[maxMon - 1] = monPid[maxMon - 1]
    BY <1>3, <1>6, <1>7, <1>8, <1>10, <2>1
  <2> QED
    BY <1>5, <1>6, <1>9, <2>1, <2>2 DEF FocusInv, GetProc
<1>11. CASE slot # maxMon /\ activeMon = slot
  <2>1. activeMon' = slot /\ focus' = GetProc(monPid[maxMon]) /\ slot \in 0 .. maxMon - 1
    BY <1>5, <1>6, <1>11 DEF FocusAfterFree
  <2>2. monPid[maxMon] \in procs \ {dead} /\ monPid'[slot] = monPid[maxMon]
    BY <1>3, <1>6, <1>7, <1>8, <1>11, <2>1
  <2> QED
    BY <1>5, <1>9, <2>1, <2>2 DEF FocusInv, GetProc
<1>12. CASE slot # maxMon /\ activeMon = maxMon
  <2>1. activeMon' = slot /\ focus' = focus /\ slot \in 0 .. maxMon - 1
    BY <1>5, <1>6, <1>12 DEF FocusAfterFree
  <2>2. monPid[maxMon] \in procs \ {dead} /\ monPid'[slot] = monPid[maxMon]
    BY <1>3, <1>6, <1>7, <1>8, <1>12, <2>1
  <2> QED
    BY <1>5, <1>9, <1>12, <2>1, <2>2 DEF FocusInv
<1>13. CASE activeMon # maxMon /\ activeMon # slot
  <2>1. activeMon' = activeMon /\ focus' = focus /\ activeMon \in 0 .. maxMon - 1
    BY <1>5, <1>6, <1>9, <1>13 DEF FocusAfterFree
  <2>2. monPid[activeMon] # dead /\ monPid'[activeMon] = monPid[activeMon]
    BY <1>7, <1>8, <1>9, <1>13, <2>1
  <2> QED
    BY <1>5, <1>9, <2>1, <2>2 DEF FocusInv
<1> QED
  BY <1>10, <1>11, <1>12, <1>13

(* Every step keeps the focus with the owner of the active monitor.        *)
LEMMA NextFocus ==
    ASSUME "switch_monitor" \notin Preempt, IInv, FocusInv, [Next]_vars
    PROVE  FocusInv'
<1>1. CASE CreateThread
  <2>1. /\ procs' = procs \cup {nextPid} /\ focus' = nextPid /\ maxMon' = maxMon + 1 /\ kb' = kb
        /\ activeMon' = maxMon + 1 /\ monPid' = [monPid EXCEPT ![maxMon + 1] = nextPid]
        /\ nextPid <= MaxPid
    BY <1>1 DEF CreateThread
  <2>2. monPid \in [Pid -> Pid] /\ maxMon \in Nat /\ maxMon < nextPid /\ nextPid \in Nat
    <3>1. monPid \in [Pid -> Pid] /\ maxMon \in Pid /\ maxMon < nextPid /\ nextPid \in 1 .. MaxPid + 1
      BY DEF IInv, TypeOK, RingTypes, MonTypes, Bounded
    <3> QED
      BY <3>1, MaxPidType DEF Pid
  <2>3. maxMon + 1 \in Pid
    BY <2>1, <2>2, MaxPidType DEF Pid
  <2> QED
    BY <2>1, <2>2, <2>3 DEF FocusInv
<1>2. ASSUME NEW dir \in {"up", "down"}, SwitchMonitor(dir) PROVE FocusInv'
  BY <1>2, SwitchKeepsFocus
<1>3. CASE SchedDestroy
  BY <1>3, DestroyKeepsFocus
<1>4. ~(\E dir \in {"up", "down"} : SwitchBegin(dir)) /\ ~SwitchMove /\ ~SwitchLookup /\ ~SwitchEnd
  BY DEF FocusInv, KbIdle, SwitchBegin, SwitchMove, SwitchLookup, SwitchEnd, InShortcut
<1>5. ASSUME UNCHANGED <<procs, focus, monPid, maxMon, activeMon, kb>> PROVE FocusInv'
  BY <1>5 DEF FocusInv
<1>6. ASSUME NEW p \in Pid, Process(p) PROVE UNCHANGED <<procs, focus, monPid, maxMon, activeMon, kb>>
  BY <1>6 DEF Process, Exit, KillLookup, Kill, KillMark, SetPriority, ReadStdin, ReadReturn,
              ReadTest, ReadSleep, ringVars, monVars
<1>7. CASE \/ HandleInput \/ OtherInterrupt \/ TimerKeep \/ TimerSwitch \/ SchedSkip \/ SchedPick
           \/ Undefined \/ UNCHANGED vars
  <2>1. UNCHANGED <<procs, focus, monPid, maxMon, activeMon, kb>>
    BY <1>7 DEF HandleInput, OtherInterrupt, TimerKeep, TimerSwitch, SchedSkip, SchedPick, Undefined,
                vars, ringVars, monVars
  <2> QED
    BY <1>5, <2>1
<1> QED
  BY <1>1, <1>2, <1>3, <1>4, <1>5, <1>6, <1>7, Zenon DEF Next, Shortcut, Tick, Sweep

(* The keys go to what the user sees: as long as the timer does not        *)
(* interrupt the shortcuts that switch monitors, the process with the      *)
(* focus exists and owns the monitor on the screen, through creation,      *)
(* switches in both directions and free_virt_monitor()'s rearrangements.   *)
THEOREM FocusIsOnScreen ==
    ASSUME Kernel \notin Killable, "switch_monitor" \notin Preempt
    PROVE  Spec => []FocusOnScreen
<1>1. FocusInv /\ IInv => FocusOnScreen
  BY DEF FocusInv, FocusOnScreen, IInv, TypeOK, MonTypes, Pid
<1>2. Init => FocusInv
  BY DEF Init, FocusInv
<1>3. IInv /\ FocusInv /\ [Next]_vars => FocusInv'
  BY NextFocus
<1> QED
  BY <1>1, <1>2, <1>3, InvariantHolds, PTL DEF Spec
----------------------------------------------------------------------------
(* The wake-up protocol.  While no tick falls between the test of          *)
(* dev_stdin_read() and the assignment behind it, a process asleep has     *)
(* less input than it asked for: each key that arrives wakes it first.     *)
SleepInv ==
    /\ \A p \in Pid : pc[p] # "sleep"
    /\ \A p \in procs : pc[p] = "halt" /\ state[p] = "STDINSLEEP" => want[p] > queued[p]

(* Every step that adds input wakes, and no sleep begins with input there. *)
LEMMA NextSleep ==
    ASSUME "dev_stdin_read" \notin Preempt, IInv, SleepInv, [Next]_vars
    PROVE  SleepInv'
<1>1. /\ procs \subseteq Pid /\ pc \in [Pid -> {"user", "kill", "read", "sleep", "halt", "exited"}]
      /\ state \in [Pid -> States] /\ queued \in [Pid -> 0 .. StdinSize]
      /\ want \in [Pid -> Sizes \cup {0}]
  BY DEF IInv, TypeOK, RingTypes, CallTypes
<1>2. ASSUME NEW q \in Pid, pc' = Woken(q) \/ pc' = pc, procs' \subseteq procs,
             UNCHANGED <<state, want, queued>>
      PROVE  SleepInv'
  BY <1>1, <1>2 DEF SleepInv, Woken
<1>3. CASE CreateThread
  <2>1. /\ procs' = procs \cup {nextPid} /\ state' = [state EXCEPT ![nextPid] = "ALIVE"]
        /\ pc' = Woken(onstack) /\ want' = want /\ queued' = queued /\ nextPid \in Pid
    BY <1>3, MaxPidType DEF CreateThread, IInv, TypeOK, RingTypes, Pid
  <2> QED
    BY <1>1, <2>1 DEF SleepInv, Woken
<1>4. CASE HandleInput
  <2>1. /\ state' = [state EXCEPT ![focus] = InputState(@)] /\ pc' = Woken(onstack)
        /\ queued' = [queued EXCEPT ![focus] = Enqueued(@)] /\ want' = want /\ procs' = procs
    BY <1>4 DEF HandleInput, ringVars
  <2> QED
    BY <1>1, <2>1 DEF SleepInv, Woken, InputState
<1>5. ASSUME NEW p \in Pid, Process(p) PROVE SleepInv'
  <2>1. procs' = procs
    BY <1>5 DEF Process, Exit, KillLookup, Kill, KillMark, SetPriority, ReadStdin, ReadReturn,
                ReadTest, ReadSleep, ringVars
  <2>2. CASE Exit(p) \/ KillMark(p) \/ \E pid \in Pid : KillLookup(p, pid) \/ Kill(p, pid)
    <3>1. want' = want /\ queued' = queued /\ \A q \in Pid : state'[q] \in {state[q], "DEAD"}
      BY <1>1, <2>2 DEF Exit, KillMark, KillLookup, Kill, callVars
    <3>2. \A q \in Pid : pc'[q] \in {pc[q], "exited", "user", "kill"}
      BY <1>1, <2>2 DEF Exit, KillMark, KillLookup, Kill, callVars
    <3> QED
      BY <1>1, <2>1, <3>1, <3>2 DEF SleepInv
  <2>3. CASE \E pid \in Pid, prio \in Priorities : SetPriority(p, pid, prio)
    BY <2>1, <2>3 DEF SetPriority, callVars, SleepInv
  <2>4. CASE ReadReturn(p) \/ \E size \in Sizes : ReadStdin(p, size)
    <3>1. state' = state /\ pc'[p] \in {"user", "read"}
      BY <1>1, <2>4 DEF ReadReturn, ReadStdin
    <3>2. \A q \in Pid \ {p} : pc'[q] = pc[q] /\ want'[q] = want[q] /\ queued'[q] = queued[q]
      BY <1>1, <2>4 DEF ReadReturn, ReadStdin
    <3> QED
      BY <1>1, <2>1, <3>1, <3>2 DEF SleepInv
  <2>5. CASE ReadSleep(p) /\ p \in procs
    <3>1. /\ MustSleep(p) /\ want' = want /\ queued' = queued
          /\ state' = [state EXCEPT ![p] = "STDINSLEEP"] /\ pc' = [pc EXCEPT ![p] = "halt"]
      BY <2>5 DEF ReadSleep, SleepInv, InProcess
    <3> QED
      BY <1>1, <2>1, <3>1 DEF SleepInv, MustSleep
  <2>6. ReadSleep(p) => p \in procs
    BY DEF ReadSleep, InProcess, Running, IInv, RunningNeverFreed
  <2>7. ~ReadTest(p)
    BY DEF ReadTest
  <2> QED
    BY <1>5, <2>2, <2>3, <2>4, <2>5, <2>6, <2>7 DEF Process
<1>6. CASE Shortcut \/ OtherInterrupt
  <2>1. /\ procs' = procs /\ UNCHANGED <<state, want, queued>> /\ onstack \in Pid
        /\ pc' = Woken(onstack) \/ pc' = pc
    BY <1>6 DEF Shortcut, SwitchMonitor, SwitchBegin, SwitchMove, SwitchLookup, SwitchEnd, OtherInterrupt,
                ringVars, callVars, IInv, TypeOK, CpuTypes
  <2> QED
    BY <1>2, <2>1
<1>7. CASE Tick \/ SchedSkip \/ SchedPick
  <2>1. /\ procs' = procs /\ UNCHANGED <<state, want, queued>>
        /\ onstack \in Pid /\ Candidate \in Pid
        /\ pc' = Woken(onstack) \/ pc' = Woken(Candidate) \/ pc' = pc
    BY <1>7 DEF Tick, TimerKeep, TimerSwitch, SchedSkip, SchedPick, ringVars, callVars,
                IInv, TypeOK, RingTypes, CpuTypes, Candidate
  <2> QED
    BY <1>2, <2>1
<1>8. CASE SchedDestroy
  <2>1. /\ procs' \subseteq procs /\ state' = state
        /\ queued' = [queued EXCEPT ![Candidate] = 0]
        /\ pc' = [pc EXCEPT ![Candidate] = "user"]
        /\ want' = [want EXCEPT ![Candidate] = 0]
    BY <1>8 DEF SchedDestroy
  <2> QED
    BY <1>1, <2>1 DEF SleepInv
<1>9. CASE UNCHANGED vars \/ Undefined
  BY <1>9 DEF SleepInv, Undefined, vars, ringVars, callVars
<1> QED
  BY <1>3, <1>4, <1>5, <1>6, <1>7, <1>8, <1>9, Zenon DEF Next, Sweep

(* No wake-up is lost when the test and the assignment of dev_stdin_read() *)
(* are not torn apart: whoever sleeps lacks input, wherever else the timer *)
(* interrupts.  With the tick between the two it is lost.                  *)
THEOREM NoWakeUpLost ==
    ASSUME Kernel \notin Killable, "dev_stdin_read" \notin Preempt
    PROVE  Spec => []SleepersLackInput
<1>1. SleepInv => SleepersLackInput
  BY DEF SleepInv, SleepersLackInput
<1>2. Init => SleepInv
  BY MaxPidType DEF Init, SleepInv, Pid, Kernel
<1>3. IInv /\ SleepInv /\ [Next]_vars => SleepInv'
  BY NextSleep
<1> QED
  BY <1>1, <1>2, <1>3, InvariantHolds, PTL DEF Spec
=============================================================================
