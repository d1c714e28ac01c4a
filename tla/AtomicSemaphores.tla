-------------------------- MODULE AtomicSemaphores --------------------------
(***************************************************************************)
(* What the semaphores of init/tests.c promise the threads that use them:  *)
(* p() and v() look like single steps, and so does the work on a shared    *)
(* counter.  A thread runs its program, a sequence of instructions, round  *)
(* and round; the halt() at the end of each round only gives up the CPU.   *)
(***************************************************************************)
EXTENDS Integers, Sequences

CONSTANTS
    Threads,
    Sems,       \* the semaphores
    Stocks,     \* the shared counters the programs work on
    Program,    \* the program of each thread
    InitCount   \* the counts given to sema_init()

VARIABLES
    ip,         \* the instruction each thread is at
    count,      \* semaphore->count
    stock       \* the shared counters

vars == <<ip, count, stock>>

Instr(t) == Program[t][ip[t]]

\* Where instruction i of thread t goes on.
Succ(t, i) == IF i = Len(Program[t]) THEN 1 ELSE i + 1

\* A "switch" goes on in the other half of the program, which handles the
\* other kind of goods, when there are none of its own kind.
OtherHalf(t, i) ==
    LET half == Len(Program[t]) \div 2
    IN  IF i > half THEN i - half ELSE i + half

Target(t) == IF Instr(t).op = "switch" /\ stock[Instr(t).on] = 0
             THEN Succ(t, OtherHalf(t, ip[t]))
             ELSE Succ(t, ip[t])

Init ==
    /\ ip = [t \in Threads |-> 1]
    /\ count = InitCount
    /\ stock = [x \in Stocks |-> 0]

Go(t) == ip' = [ip EXCEPT ![t] = Target(t)]

(* p(): waits until the count is positive, and takes one.                  *)
P(t) ==
    /\ Instr(t).op = "p"
    /\ count[Instr(t).on] > 0
    /\ count' = [count EXCEPT ![Instr(t).on] = @ - 1]
    /\ Go(t)
    /\ UNCHANGED stock

(* v(): gives one back.                                                    *)
V(t) ==
    /\ Instr(t).op = "v"
    /\ count' = [count EXCEPT ![Instr(t).on] = @ + 1]
    /\ Go(t)
    /\ UNCHANGED stock

(* Work on a shared counter.                                               *)
Work(t) ==
    /\ Instr(t).op = "add"
    /\ stock' = [stock EXCEPT ![Instr(t).on] = @ + Instr(t).by]
    /\ Go(t)
    /\ UNCHANGED count

(* The test of a shared counter that decides what to handle next.          *)
Switch(t) ==
    /\ Instr(t).op = "switch"
    /\ Go(t)
    /\ UNCHANGED <<count, stock>>

Step(t) == P(t) \/ V(t) \/ Work(t) \/ Switch(t)

Next == \E t \in Threads : Step(t)

Spec == Init /\ [][Next]_vars

(* Every thread waits for a semaphore.                                     *)
Stuck == \A t \in Threads : Instr(t).op = "p" /\ count[Instr(t).on] = 0
=============================================================================
