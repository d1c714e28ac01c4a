----------------------------- MODULE Semaphores -----------------------------
(***************************************************************************)
(* The counting semaphores of init/tests.c on top of the spin lock of      *)
(* io_util.s, step by step: the timer may switch threads between any two   *)
(* of the steps below.  mutex_lock() reads and sets the lock with          *)
(* interrupts disabled, in one step; semaphore->count++ and count--, and   *)
(* the work on the shared counters, load a value and store it later.       *)
(***************************************************************************)
EXTENDS Integers, Sequences

CONSTANTS Threads, Sems, Stocks, Program, InitCount

Instructions ==
    [op : {"p", "v"}, on : Sems]
    \cup [op : {"add"}, on : Stocks, by : Int]

ASSUME SemaphoreAssumption ==
    /\ InitCount \in [Sems -> Nat]
    /\ Program \in [Threads -> Seq(Instructions)]
    /\ \A t \in Threads : Program[t] # <<>>

VARIABLES
    ip,      \* the instruction each thread is at
    count,   \* semaphore->count
    stock,   \* the shared counters
    lock,    \* semaphore->lock
    at,      \* how far each thread is in its instruction
    reg      \* the value each thread has loaded

vars == <<ip, count, stock, lock, at, reg>>

\* The value that p() and v() store.
ChangedByPOnly(op, n) == IF op = "p" THEN n - 1 ELSE n
Changed(op, n) == IF op = "p" THEN n - 1 ELSE n + 1

\* mutex_lock() finds the lock free.
FreeWhateverHeld(s) == TRUE
Free(s) == lock[s] = 0

\* p() finds something to take.
AvailableAlways(s) == TRUE
Available(s) == count[s] > 0

Instr(t) == Program[t][ip[t]]
IsSemOp(t) == Instr(t).op \in {"p", "v"}
Sem(t) == Instr(t).on

Succ(t, i) == IF i = Len(Program[t]) THEN 1 ELSE i + 1

Init ==
    /\ ip = [t \in Threads |-> 1]
    /\ count = InitCount
    /\ stock = [x \in Stocks |-> 0]
    /\ lock = [s \in Sems |-> 0]
    /\ at = [t \in Threads |-> "start"]
    /\ reg = [t \in Threads |-> 0]

(* mutex_lock(): the lock is taken, or the thread halts and tries again.   *)
MutexLock(t) ==
    /\ at[t] = "start" /\ IsSemOp(t)
    /\ Free(Sem(t))
    /\ lock' = [lock EXCEPT ![Sem(t)] = 1]
    /\ at' = [at EXCEPT ![t] = "locked"]
    /\ UNCHANGED <<ip, count, stock, reg>>

(* p() finds nothing to take and gives the lock back.                      *)
RefusedKeepsLock(t) ==
    /\ at[t] = "locked" /\ IsSemOp(t)
    /\ Instr(t).op = "p" /\ ~Available(Sem(t))
    /\ UNCHANGED vars

Refused(t) ==
    /\ at[t] = "locked" /\ IsSemOp(t)
    /\ Instr(t).op = "p" /\ ~Available(Sem(t))
    /\ at' = [at EXCEPT ![t] = "refused"]
    /\ UNCHANGED <<ip, count, stock, lock, reg>>

LoadCount(t) ==
    /\ at[t] = "locked" /\ IsSemOp(t)
    /\ Instr(t).op = "p" => Available(Sem(t))
    /\ reg' = [reg EXCEPT ![t] = count[Sem(t)]]
    /\ at' = [at EXCEPT ![t] = "loaded"]
    /\ UNCHANGED <<ip, count, stock, lock>>

StoreCount(t) ==
    /\ at[t] = "loaded" /\ IsSemOp(t)
    /\ count' = [count EXCEPT ![Sem(t)] = Changed(Instr(t).op, reg[t])]
    /\ reg' = [reg EXCEPT ![t] = 0]
    /\ at' = [at EXCEPT ![t] = "done"]
    /\ UNCHANGED <<ip, stock, lock>>

(* mutex_unlock(): a refused p() halts and starts over.                    *)
MutexUnlock(t) ==
    /\ at[t] \in {"refused", "done"} /\ IsSemOp(t)
    /\ lock' = [lock EXCEPT ![Sem(t)] = 0]
    /\ ip' = IF at[t] = "done" THEN [ip EXCEPT ![t] = Succ(t, @)] ELSE ip
    /\ at' = [at EXCEPT ![t] = "start"]
    /\ UNCHANGED <<count, stock, reg>>

(* Work on a shared counter, in the two steps the compiler makes of it.    *)
LoadStock(t) ==
    /\ at[t] = "start" /\ Instr(t).op = "add"
    /\ reg' = [reg EXCEPT ![t] = stock[Instr(t).on]]
    /\ at' = [at EXCEPT ![t] = "loaded"]
    /\ UNCHANGED <<ip, count, stock, lock>>

StoreStock(t) ==
    /\ at[t] = "loaded" /\ Instr(t).op = "add"
    /\ stock' = [stock EXCEPT ![Instr(t).on] = reg[t] + Instr(t).by]
    /\ reg' = [reg EXCEPT ![t] = 0]
    /\ at' = [at EXCEPT ![t] = "start"]
    /\ ip' = [ip EXCEPT ![t] = Succ(t, @)]
    /\ UNCHANGED <<count, lock>>

Step(t) ==
    \/ MutexLock(t) \/ Refused(t) \/ LoadCount(t) \/ StoreCount(t)
    \/ MutexUnlock(t) \/ LoadStock(t) \/ StoreStock(t)

Next == \E t \in Threads : Step(t)

Spec == Init /\ [][Next]_vars

(* The round robin scheduler runs every thread again and again.            *)
FairSpec == Spec /\ \A t \in Threads : WF_vars(Step(t))
----------------------------------------------------------------------------
(* Types.                                                                  *)
TypeOK ==
    /\ ip \in [Threads -> Nat \ {0}]
    /\ \A t \in Threads : ip[t] <= Len(Program[t])
    /\ count \in [Sems -> Nat]
    /\ stock \in [Stocks -> Int]
    /\ lock \in [Sems -> {0, 1}]
    /\ at \in [Threads -> {"start", "locked", "loaded", "refused", "done"}]
    /\ reg \in [Threads -> Int]

\* Thread t is between mutex_lock() and mutex_unlock() of semaphore s.
Holds(t, s) == IsSemOp(t) /\ Sem(t) = s /\ at[t] # "start"

(* mutex_lock() keeps all but one thread out, although it tests the lock   *)
(* with no atomic instruction: the lock is set exactly while one thread is *)
(* inside, so no unlock ever opens it for a second thread.                 *)
MutualExclusion ==
    \A s \in Sems :
        /\ \A t, u \in Threads : Holds(t, s) /\ Holds(u, s) => t = u
        /\ lock[s] = 1 <=> \E t \in Threads : Holds(t, s)

(* Whoever holds a lock gives it back: no path of p() or v() ends with the *)
(* lock taken, so with every thread running again and again it is freed.   *)
LockReleased == \A s \in Sems : lock[s] = 1 ~> lock[s] = 0

(* The refinement: p() and v() take effect when the count is stored.       *)
EffectiveIp == [t \in Threads |-> IF at[t] = "done" THEN Succ(t, ip[t]) ELSE ip[t]]

Atomic == INSTANCE AtomicSemaphores WITH ip <- EffectiveIp

(* p(), v() and the counters they protect look atomic to the threads.      *)
ImplementsAtomic == Atomic!Spec
=============================================================================
