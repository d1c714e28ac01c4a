-------------------------- MODULE SemaphoresProofs --------------------------
(***************************************************************************)
(* The semaphores of init/tests.c are safe for any number of threads, any  *)
(* semaphores and any programs that use them, the producers and consumers  *)
(* that use them keep within their places, and the furniture factory keeps *)
(* within its room and can only stop in one way.                           *)
(***************************************************************************)
EXTENDS Experiments, SequenceTheorems, FiniteSetTheorems, TLAPS

(* Only p() and v() get past the lock, and what a thread has loaded inside *)
(* the lock is still the count, positive when it is about to be lowered.   *)
LoadedFresh ==
    \A t \in Threads :
        /\ at[t] \in {"locked", "refused", "done"} => IsSemOp(t)
        /\ at[t] = "loaded" /\ IsSemOp(t) =>
              /\ reg[t] = count[Sem(t)]
              /\ Instr(t).op = "p" => reg[t] > 0

IInv == TypeOK /\ MutualExclusion /\ LoadedFresh

(* An instruction is one of the program's: its operands are of the right   *)
(* kind, and the instruction after it is in the program too.               *)
LEMMA InstrKind ==
    ASSUME TypeOK, NEW t \in Threads
    PROVE  /\ Instr(t) \in Instructions
           /\ IsSemOp(t) => Sem(t) \in Sems
           /\ Instr(t).op = "add" => Instr(t).on \in Stocks /\ Instr(t).by \in Int
           /\ Succ(t, ip[t]) \in Nat \ {0} /\ Succ(t, ip[t]) <= Len(Program[t])
<1>1. Program[t] \in Seq(Instructions) /\ Program[t] # <<>>
  BY SemaphoreAssumption DEF SemaphoreAssumption
<1>2. ip[t] \in 1 .. Len(Program[t]) /\ Len(Program[t]) \in Nat
  BY <1>1 DEF TypeOK
<1>3. Instr(t) \in Instructions
  BY <1>1, <1>2 DEF Instr
<1>4. (IsSemOp(t) => Sem(t) \in Sems)
      /\ (Instr(t).op = "add" => Instr(t).on \in Stocks /\ Instr(t).by \in Int)
  BY <1>3 DEF Instructions, IsSemOp, Sem
<1>5. Succ(t, ip[t]) \in Nat \ {0} /\ Succ(t, ip[t]) <= Len(Program[t])
  BY <1>2 DEF Succ
<1> QED
  BY <1>3, <1>4, <1>5

(* At the start every lock is free and every thread is outside.            *)
LEMMA InitIInv == Init => IInv
<1> SUFFICES ASSUME Init PROVE IInv
  OBVIOUS
<1>1. TypeOK
  <2>1. ASSUME NEW t \in Threads PROVE 1 <= Len(Program[t])
    <3>1. Program[t] \in Seq(Instructions) /\ Program[t] # <<>>
      BY SemaphoreAssumption DEF SemaphoreAssumption
    <3>2. Len(Program[t]) \in Nat \ {0}
      BY <3>1, EmptySeq
    <3> QED
      BY <3>2
  <2> QED
    BY <2>1, SemaphoreAssumption DEF SemaphoreAssumption, Init, TypeOK
<1>2. MutualExclusion /\ LoadedFresh
  BY DEF Init, MutualExclusion, Holds, LoadedFresh
<1> QED
  BY <1>1, <1>2 DEF IInv

(* One thread's step keeps the locks, the counts and the registers right.  *)
LEMMA StepIInv ==
    ASSUME IInv, NEW t \in Threads, Step(t)
    PROVE  IInv'
<1> USE DEF IInv, Instr, IsSemOp, Sem, Holds
<1>0. /\ IsSemOp(t) => Sem(t) \in Sems
      /\ Instr(t).op = "add" => Instr(t).on \in Stocks /\ Instr(t).by \in Int
      /\ Succ(t, ip[t]) \in Nat \ {0} /\ Succ(t, ip[t]) <= Len(Program[t])
  BY InstrKind
<1>a. \A u \in Threads : IsSemOp(u) => Sem(u) \in Sems
  BY InstrKind
<1>1. CASE MutexLock(t)
  <2>1. TypeOK'
    BY <1>0, <1>1 DEF MutexLock, Free, TypeOK, MutualExclusion, LoadedFresh
  <2>2. MutualExclusion'
    BY <1>0, <1>a, <1>1, SMTT(30) DEF MutexLock, Free, TypeOK, MutualExclusion, LoadedFresh
  <2>3. LoadedFresh'
    BY <1>0, <1>a, <1>1 DEF MutexLock, Free, TypeOK, MutualExclusion, LoadedFresh
  <2> QED
    BY <2>1, <2>2, <2>3
<1>2. CASE Refused(t)
  <2>1. TypeOK'
    BY <1>0, <1>2 DEF Refused, TypeOK, MutualExclusion, LoadedFresh
  <2>2. MutualExclusion'
    BY <1>0, <1>a, <1>2, SMTT(30) DEF Refused, TypeOK, MutualExclusion, LoadedFresh
  <2>3. LoadedFresh'
    BY <1>0, <1>a, <1>2 DEF Refused, TypeOK, MutualExclusion, LoadedFresh
  <2> QED
    BY <2>1, <2>2, <2>3
<1>3. CASE LoadCount(t)
  <2>1. TypeOK'
    BY <1>0, <1>3 DEF Available, LoadCount, TypeOK, MutualExclusion, LoadedFresh
  <2>2. MutualExclusion'
    BY <1>0, <1>a, <1>3, SMTT(30) DEF Available, LoadCount, TypeOK, MutualExclusion, LoadedFresh
  <2>3. LoadedFresh'
    BY <1>0, <1>a, <1>3, SMTT(30) DEF Available, LoadCount, TypeOK, MutualExclusion, LoadedFresh
  <2> QED
    BY <2>1, <2>2, <2>3
<1>4. CASE StoreCount(t)
  <2>1. TypeOK'
    BY <1>0, <1>4 DEF StoreCount, Changed, TypeOK, MutualExclusion, LoadedFresh
  <2>2. MutualExclusion'
    BY <1>0, <1>a, <1>4 DEF StoreCount, Changed, TypeOK, MutualExclusion, LoadedFresh
  <2>3. LoadedFresh'
    BY <1>0, <1>a, <1>4, ZenonT(60) DEF StoreCount, Changed, TypeOK, MutualExclusion, LoadedFresh
  <2> QED
    BY <2>1, <2>2, <2>3
<1>5. CASE MutexUnlock(t)
  <2>1. TypeOK'
    BY <1>0, <1>5 DEF MutexUnlock, TypeOK, MutualExclusion, LoadedFresh
  <2>2. MutualExclusion'
    <3>1. \A u \in Threads, s \in Sems : Holds(u, s)' <=> Holds(u, s) /\ u # t
      BY <1>5 DEF MutexUnlock, TypeOK
    <3>2. Holds(t, Sem(t)) /\ Sem(t) \in Sems /\ lock' = [lock EXCEPT ![Sem(t)] = 0]
      BY <1>0, <1>5 DEF MutexUnlock
    <3>3. \A s \in Sems : Holds(t, s) => s = Sem(t)
      OBVIOUS
    <3>4. lock \in [Sems -> {0, 1}] /\ MutualExclusion
      BY DEF TypeOK
    <3> HIDE DEF Holds, IsSemOp, Sem, Instr
    <3> QED
      BY <3>1, <3>2, <3>3, <3>4 DEF MutualExclusion
  <2>3. LoadedFresh'
    BY <1>0, <1>a, <1>5, SMTT(30) DEF MutexUnlock, TypeOK, MutualExclusion, LoadedFresh
  <2> QED
    BY <2>1, <2>2, <2>3
<1>6. CASE LoadStock(t)
  <2>1. TypeOK'
    BY <1>0, <1>6 DEF LoadStock, TypeOK, MutualExclusion, LoadedFresh
  <2>2. MutualExclusion'
    BY <1>0, <1>a, <1>6, SMTT(30) DEF LoadStock, TypeOK, MutualExclusion, LoadedFresh
  <2>3. LoadedFresh'
    BY <1>0, <1>a, <1>6, SMTT(30) DEF LoadStock, TypeOK, MutualExclusion, LoadedFresh
  <2> QED
    BY <2>1, <2>2, <2>3
<1>7. CASE StoreStock(t)
  <2>1. TypeOK'
    BY <1>0, <1>7 DEF StoreStock, TypeOK, MutualExclusion, LoadedFresh
  <2>2. MutualExclusion'
    <3>1. \A u \in Threads, s \in Sems : Holds(u, s)' <=> Holds(u, s)
      BY <1>7 DEF StoreStock, TypeOK
    <3> HIDE DEF Holds
    <3> QED
      BY <1>7, <3>1 DEF StoreStock, MutualExclusion
  <2>3. LoadedFresh'
    BY <1>0, <1>a, <1>7, SMTT(30) DEF StoreStock, TypeOK, MutualExclusion, LoadedFresh
  <2> QED
    BY <2>1, <2>2, <2>3
<1> QED
  BY <1>1, <1>2, <1>3, <1>4, <1>5, <1>6, <1>7 DEF Step

(* The strengthened invariant holds in every reachable state.              *)
THEOREM InvariantHolds == Spec => []IInv
<1>1. Init => IInv
  BY InitIInv
<1>2. IInv /\ [Next]_vars => IInv'
  <2> SUFFICES ASSUME IInv, [Next]_vars PROVE IInv'
    OBVIOUS
  <2>1. CASE Next
    BY <2>1, StepIInv DEF Next
  <2>2. CASE UNCHANGED vars
    BY <2>2 DEF vars, IInv, TypeOK, MutualExclusion, LoadedFresh, Holds, IsSemOp, Sem, Instr
  <2> QED
    BY <2>1, <2>2
<1> QED
  BY <1>1, <1>2, PTL DEF Spec

(* The counts never go below zero, and every thread stays in its program.  *)
THEOREM TypeCorrect == Spec => []TypeOK
<1>1. IInv => TypeOK
  BY DEF IInv
<1> QED
  BY <1>1, InvariantHolds, PTL

(* At most one thread is between mutex_lock() and mutex_unlock().          *)
THEOREM MutexSafe == Spec => []MutualExclusion
<1>1. IInv => MutualExclusion
  BY DEF IInv
<1> QED
  BY <1>1, InvariantHolds, PTL
----------------------------------------------------------------------------
(* Programs that keep to a discipline: each shared counter has a semaphore *)
(* that starts at 1, and is worked on between p() and v() of it only.      *)
(* inside[t][i] holds the semaphores that thread t has passed p() of and   *)
(* not v() when it is at instruction i.                                    *)
Then(s, instr, mutexes) ==
    CASE instr.op = "p" /\ instr.on \in mutexes -> s \cup {instr.on}
      [] instr.op = "v" /\ instr.on \in mutexes -> s \ {instr.on}
      [] OTHER                                  -> s

Guarded(mutexes, guard, inside) ==
    /\ mutexes \subseteq Sems /\ \A s \in mutexes : InitCount[s] = 1
    /\ guard \in [Stocks -> mutexes]
    /\ \A t \in Threads : inside[t][1] = {}
    /\ \A t \in Threads : \A i \in 1 .. Len(Program[t]) :
         /\ inside[t][Succ(t, i)] = Then(inside[t][i], Program[t][i], mutexes)
         /\ Program[t][i].op = "v" /\ Program[t][i].on \in mutexes =>
              Program[t][i].on \in inside[t][i]
         /\ Program[t][i].op = "add" => guard[Program[t][i].on] \in inside[t][i]

(* The count of such a semaphore is 0 while one thread is inside, and 1    *)
(* while none is.                                                          *)
OneInside(mutexes, inside) ==
    \A s \in mutexes :
        /\ count[s] \in {0, 1}
        /\ count[s] = 0 <=> \E t \in Threads : s \in inside[t][EffectiveIp[t]]
        /\ \A t, u \in Threads : s \in inside[t][EffectiveIp[t]] /\ s \in inside[u][EffectiveIp[u]] => t = u

(* What a thread has loaded of a counter is still its value.               *)
StockFresh ==
    \A t \in Threads : at[t] = "loaded" /\ Instr(t).op = "add" => reg[t] = stock[Instr(t).on]

(* Where the threads stand for those who see p() and v() as single steps.  *)
LEMMA Places ==
    ASSUME IInv
    PROVE  \A t \in Threads :
             /\ EffectiveIp[t] \in 1 .. Len(Program[t])
             /\ EffectiveIp[t] = IF at[t] = "done" THEN Succ(t, ip[t]) ELSE ip[t]
             /\ Program[t][EffectiveIp[t]].op \in {"p", "v", "add"}
<1> SUFFICES ASSUME NEW t \in Threads
             PROVE  /\ EffectiveIp[t] \in 1 .. Len(Program[t])
                    /\ EffectiveIp[t] = IF at[t] = "done" THEN Succ(t, ip[t]) ELSE ip[t]
                    /\ Program[t][EffectiveIp[t]].op \in {"p", "v", "add"}
  OBVIOUS
<1>1. EffectiveIp[t] = IF at[t] = "done" THEN Succ(t, ip[t]) ELSE ip[t]
  BY DEF EffectiveIp
<1>2. Program[t] \in Seq(Instructions) /\ Len(Program[t]) \in Nat
  BY SemaphoreAssumption DEF SemaphoreAssumption
<1>3. EffectiveIp[t] \in 1 .. Len(Program[t])
  BY <1>1, <1>2, InstrKind DEF IInv, TypeOK
<1>4. Program[t][EffectiveIp[t]] \in Instructions
  BY <1>2, <1>3
<1> QED
  BY <1>1, <1>3, <1>4 DEF Instructions

(* Each step is a step of what the semaphores promise, or changes nothing  *)
(* of it: the count and the counter change as if nothing came between.     *)
LEMMA StepIsAtomic ==
    ASSUME IInv, StockFresh, NEW t \in Threads, Step(t)
    PROVE  Atomic!Step(t) \/ UNCHANGED Atomic!vars
<1> USE DEF IInv
<1>1. /\ at \in [Threads -> {"start", "locked", "loaded", "refused", "done"}]
      /\ ip \in [Threads -> Nat \ {0}] /\ Program[t][ip[t]].op \in {"p", "v", "add"}
  BY InstrKind DEF TypeOK, Instr, Instructions
<1>2. EffectiveIp = [u \in Threads |-> IF at[u] = "done" THEN Succ(u, ip[u]) ELSE ip[u]]
  BY DEF EffectiveIp
<1>3. EffectiveIp' = [u \in Threads |-> IF at'[u] = "done" THEN Succ(u, ip'[u]) ELSE ip'[u]]
  BY DEF EffectiveIp, Succ
<1>4. CASE MutexLock(t) \/ Refused(t) \/ LoadCount(t) \/ MutexUnlock(t) \/ LoadStock(t)
  <2>1. \A u \in Threads : (IF at'[u] = "done" THEN Succ(u, ip'[u]) ELSE ip'[u])
                             = IF at[u] = "done" THEN Succ(u, ip[u]) ELSE ip[u]
    BY <1>1, <1>4 DEF MutexLock, Refused, LoadCount, MutexUnlock, LoadStock
  <2>2. EffectiveIp' = EffectiveIp
    BY <1>2, <1>3, <2>1
  <2>3. UNCHANGED <<count, stock>>
    BY <1>4 DEF MutexLock, Refused, LoadCount, MutexUnlock, LoadStock
  <2> QED
    BY <2>2, <2>3 DEF Atomic!vars
<1>5. CASE StoreCount(t) \/ StoreStock(t)
  <2>1. at[t] = "loaded" /\ EffectiveIp[t] = ip[t]
    BY <1>2, <1>5 DEF StoreCount, StoreStock
  <2>2. Atomic!Instr(t) = Instr(t) /\ Instr(t).op \in {"p", "v", "add"}
    BY <1>1, <2>1 DEF Atomic!Instr, Instr
  <2>3. Atomic!Target(t) = Succ(t, ip[t])
    BY <2>1, <2>2 DEF Atomic!Target, Atomic!Succ, Succ
  <2>4. Atomic!Go(t)
    <3>1. \A u \in Threads : (IF at'[u] = "done" THEN Succ(u, ip'[u]) ELSE ip'[u])
                               = IF u = t THEN Succ(t, ip[t]) ELSE EffectiveIp[u]
      BY <1>1, <1>2, <1>5 DEF StoreCount, StoreStock
    <3>2. EffectiveIp' = [EffectiveIp EXCEPT ![t] = Succ(t, ip[t])]
      BY <1>2, <1>3, <3>1
    <3> QED
      BY <2>3, <3>2 DEF Atomic!Go
  <2>5. CASE StoreCount(t)
    <3>1. /\ Instr(t).op \in {"p", "v"} /\ stock' = stock
          /\ count' = [count EXCEPT ![Instr(t).on] = Changed(Instr(t).op, count[Instr(t).on])]
      BY <2>5 DEF StoreCount, LoadedFresh, IsSemOp, Sem
    <3>2. Instr(t).op = "p" => count[Instr(t).on] > 0
      BY <2>5 DEF StoreCount, LoadedFresh, IsSemOp, Sem
    <3>3. CASE Instr(t).op = "p"
      BY <2>2, <2>4, <3>1, <3>2, <3>3 DEF Atomic!Step, Atomic!P, Changed
    <3>4. CASE Instr(t).op = "v"
      BY <2>2, <2>4, <3>1, <3>4 DEF Atomic!Step, Atomic!V, Changed
    <3> QED
      BY <3>1, <3>3, <3>4
  <2>6. CASE StoreStock(t)
    <3>1. /\ Instr(t).op = "add" /\ count' = count
          /\ stock' = [stock EXCEPT ![Instr(t).on] = stock[Instr(t).on] + Instr(t).by]
      BY <2>6 DEF StoreStock, StockFresh
    <3> QED
      BY <2>2, <2>4, <3>1 DEF Atomic!Step, Atomic!Work
  <2> QED
    BY <1>5, <2>5, <2>6
<1> QED
  BY <1>4, <1>5 DEF Step

(* At the start no thread is inside; every one of these counts is 1.       *)
LEMMA InitInside ==
    ASSUME Init, NEW mutexes, NEW guard, NEW inside, Guarded(mutexes, guard, inside)
    PROVE  OneInside(mutexes, inside) /\ StockFresh
<1>1. \A t \in Threads : EffectiveIp[t] = 1 /\ at[t] = "start"
  BY DEF Init, EffectiveIp
<1>2. \A s \in mutexes : count[s] = 1
  BY DEF Init, Guarded
<1>3. OneInside(mutexes, inside)
  BY <1>1, <1>2 DEF OneInside, Guarded
<1> QED
  BY <1>1, <1>3 DEF StockFresh

(* p() of such a semaphore lets one thread in, and v() lets it out.        *)
LEMMA InsideKept ==
    ASSUME IInv, NEW mutexes, NEW guard, NEW inside, Guarded(mutexes, guard, inside),
           OneInside(mutexes, inside), NEW t \in Threads, Atomic!Step(t)
    PROVE  OneInside(mutexes, inside)'
<1> DEFINE e == EffectiveIp[t]
           instr == Program[t][e]
<1>1. /\ e \in 1 .. Len(Program[t]) /\ instr.op \in {"p", "v", "add"}
      /\ count \in [Sems -> Nat]
  BY Places DEF IInv, TypeOK
<1>2. EffectiveIp' = [EffectiveIp EXCEPT ![t] = Succ(t, e)]
  <2>1. Atomic!Target(t) = Succ(t, e)
    BY <1>1 DEF Atomic!Target, Atomic!Instr, Atomic!Succ, Succ
  <2> QED
    BY <2>1 DEF Atomic!Step, Atomic!P, Atomic!V, Atomic!Work, Atomic!Switch, Atomic!Go
<1>3. EffectiveIp'[t] = Succ(t, e) /\ \A u \in Threads \ {t} : EffectiveIp'[u] = EffectiveIp[u]
  <2>1. DOMAIN EffectiveIp = Threads
    BY DEF EffectiveIp
  <2> QED
    BY <1>2, <2>1
<1>4. /\ inside[t][Succ(t, e)] = Then(inside[t][e], instr, mutexes)
      /\ instr.op = "v" /\ instr.on \in mutexes => instr.on \in inside[t][e]
      /\ mutexes \subseteq Sems
  BY <1>1 DEF Guarded
<1>5. \/ instr.op = "p" /\ count[instr.on] > 0 /\ count' = [count EXCEPT ![instr.on] = @ - 1]
      \/ instr.op = "v" /\ count' = [count EXCEPT ![instr.on] = @ + 1]
      \/ instr.op = "add" /\ count' = count
  BY <1>1 DEF Atomic!Step, Atomic!P, Atomic!V, Atomic!Work, Atomic!Switch, Atomic!Instr
<1> DEFINE I(u) == inside[u][EffectiveIp[u]]
<1>6. \A s \in mutexes : /\ count[s] \in {0, 1} /\ s \in Sems
                         /\ count[s] = 0 <=> \E u \in Threads : s \in I(u)
                         /\ \A u, v \in Threads : s \in I(u) /\ s \in I(v) => u = v
  BY <1>4 DEF OneInside
<1>7. I(t) = inside[t][e]
  OBVIOUS
<1> DEFINE J(u) == IF u = t THEN Then(inside[t][e], instr, mutexes) ELSE I(u)
<1>8. \A u \in Threads : inside[u][EffectiveIp'[u]] = J(u)
  BY <1>3, <1>4
<1> HIDE DEF e, instr, I
<1>9. ASSUME NEW s \in mutexes
      PROVE  /\ count'[s] \in {0, 1}
             /\ count'[s] = 0 <=> \E u \in Threads : s \in J(u)
             /\ \A u, v \in Threads : s \in J(u) /\ s \in J(v) => u = v
  <2>1. CASE s = instr.on /\ instr.op = "p"
    <3>1. count[s] = 1 /\ count'[s] = 0 /\ \A u \in Threads : s \notin I(u)
      BY <1>1, <1>5, <1>6, <2>1
    <3>2. s \in J(t)
      BY <2>1 DEF Then
    <3> QED
      BY <3>1, <3>2
  <2>2. CASE s = instr.on /\ instr.op = "v"
    <3>1. s \in I(t) /\ count[s] = 0 /\ count'[s] = 1 /\ \A u \in Threads \ {t} : s \notin I(u)
      BY <1>1, <1>4, <1>5, <1>6, <1>7, <2>2
    <3>2. s \notin J(t)
      BY <2>2 DEF Then
    <3> QED
      BY <3>1, <3>2
  <2>3. CASE s # instr.on \/ instr.op = "add"
    <3>1. count'[s] = count[s]
      BY <1>1, <1>5, <1>6, <2>3
    <3>2. s \in Then(inside[t][e], instr, mutexes) <=> s \in I(t)
      BY <1>7, <2>3 DEF Then
    <3> QED
      BY <1>6, <3>1, <3>2
  <2> QED
    BY <1>1, <2>1, <2>2, <2>3
<1> QED
  BY <1>8, <1>9 DEF OneInside

(* Nobody changes a counter between another thread's load and its store:   *)
(* both would be inside its semaphore.                                     *)
LEMMA FreshKept ==
    ASSUME IInv, NEW mutexes, NEW guard, NEW inside, Guarded(mutexes, guard, inside),
           OneInside(mutexes, inside), StockFresh, NEW t \in Threads, Step(t)
    PROVE  StockFresh'
<1> USE DEF IInv
<1>1. /\ at \in [Threads -> {"start", "locked", "loaded", "refused", "done"}]
      /\ ip \in [Threads -> Nat \ {0}] /\ reg \in [Threads -> Int] /\ stock \in [Stocks -> Int]
      /\ \A u \in Threads : EffectiveIp[u] = IF at[u] = "done" THEN Succ(u, ip[u]) ELSE ip[u]
      /\ \A u \in Threads : EffectiveIp[u] \in 1 .. Len(Program[u])
  BY Places DEF TypeOK
<1>2. CASE MutexLock(t) \/ Refused(t) \/ LoadCount(t) \/ StoreCount(t) \/ MutexUnlock(t)
  <2>1. /\ stock' = stock
        /\ \A u \in Threads \ {t} : at'[u] = at[u] /\ ip'[u] = ip[u] /\ reg'[u] = reg[u]
        /\ at'[t] # "loaded" \/ (ip'[t] = ip[t] /\ Instr(t).op # "add")
    BY <1>1, <1>2 DEF MutexLock, Refused, LoadCount, StoreCount, MutexUnlock, IsSemOp
  <2> QED
    BY <1>1, <2>1, SMTT(30) DEF StockFresh, Instr
<1>3. CASE LoadStock(t)
  BY <1>1, <1>3 DEF LoadStock, StockFresh, Instr
<1>4. CASE StoreStock(t)
  <2>1. /\ at'[t] = "start" /\ Instr(t).op = "add" /\ at[t] = "loaded"
        /\ \A u \in Threads \ {t} : at'[u] = at[u] /\ ip'[u] = ip[u] /\ reg'[u] = reg[u]
        /\ \A x \in Stocks \ {Instr(t).on} : stock'[x] = stock[x]
    BY <1>1, <1>4 DEF StoreStock
  <2>2. ASSUME NEW u \in Threads \ {t}, at[u] = "loaded", Instr(u).op = "add", Instr(u).on = Instr(t).on
        PROVE  FALSE
    <3> DEFINE s == guard[Instr(t).on]
    <3>1. s \in inside[t][ip[t]] /\ ip[t] = EffectiveIp[t]
      BY <1>1, <2>1 DEF Guarded, Instr
    <3>2. s \in inside[u][ip[u]] /\ ip[u] = EffectiveIp[u]
      BY <1>1, <2>2 DEF Guarded, Instr
    <3>3. s \in mutexes
      BY <2>1, InstrKind DEF Guarded
    <3> HIDE DEF s
    <3> QED
      BY <2>2, <3>1, <3>2, <3>3 DEF OneInside
  <2>3. \A u \in Threads : Instr(u).op = "add" => Instr(u).on \in Stocks
    BY InstrKind
  <2>4. ASSUME NEW u \in Threads, at'[u] = "loaded", Instr(u)'.op = "add"
        PROVE  reg'[u] = stock'[Instr(u)'.on]
    <3>1. u # t /\ Instr(u)' = Instr(u) /\ at[u] = "loaded"
      BY <2>1, <2>4 DEF Instr
    <3>2. Instr(u).on \in Stocks \ {Instr(t).on}
      BY <2>2, <2>3, <2>4, <3>1
    <3> QED
      BY <2>1, <2>4, <3>1, <3>2 DEF StockFresh
  <2> QED
    BY <2>4 DEF StockFresh
<1> QED
  BY <1>2, <1>3, <1>4 DEF Step

(* p(), v() and the work on the shared counters look like single steps to  *)
(* all programs that keep to the discipline, although the lock is no       *)
(* atomic instruction, the counts are loaded and stored in two steps, and  *)
(* the timer switches threads anywhere (init/tests.c, io_util.s).          *)
THEOREM SemaphoresAreAtomic ==
    ASSUME NEW mutexes, NEW guard, NEW inside, Guarded(mutexes, guard, inside)
    PROVE  Spec => ImplementsAtomic
<1> DEFINE Inv == IInv /\ OneInside(mutexes, inside) /\ StockFresh
<1>1. Init => Inv /\ Atomic!Init
  <2>1. Init => Atomic!Init
    <3> SUFFICES ASSUME Init PROVE Atomic!Init
      OBVIOUS
    <3>1. EffectiveIp = [t \in Threads |-> 1]
      BY DEF Init, EffectiveIp
    <3> QED
      BY <3>1 DEF Init, Atomic!Init
  <2> QED
    BY <2>1, InitIInv, InitInside
<1>2. Inv /\ [Next]_vars => Inv' /\ [Atomic!Next]_(Atomic!vars)
  <2> SUFFICES ASSUME Inv, [Next]_vars PROVE Inv' /\ [Atomic!Next]_(Atomic!vars)
    OBVIOUS
  <2>1. ASSUME NEW t \in Threads, Step(t) PROVE Inv' /\ [Atomic!Next]_(Atomic!vars)
    <3>1. IInv' /\ StockFresh'
      BY <2>1, StepIInv, FreshKept
    <3>2. CASE Atomic!Step(t)
      BY <3>1, <3>2, InsideKept DEF Atomic!Next
    <3>3. CASE UNCHANGED Atomic!vars
      BY <3>1, <3>3 DEF OneInside, Atomic!vars
    <3> QED
      BY <2>1, <3>2, <3>3, StepIsAtomic
  <2>2. CASE UNCHANGED vars
    <3>1. EffectiveIp' = EffectiveIp
      BY <2>2 DEF vars, EffectiveIp, Succ
    <3> QED
      BY <2>2, <3>1 DEF vars, IInv, TypeOK, MutualExclusion, LoadedFresh, Holds, IsSemOp, Sem, Instr,
                        OneInside, StockFresh, Atomic!vars
  <2> QED
    BY <2>1, <2>2 DEF Next
<1> QED
  BY <1>1, <1>2, PTL DEF Spec, ImplementsAtomic, Atomic!Spec
----------------------------------------------------------------------------
(* The producers and consumers of Ctrl-P and Ctrl-C, as many as there may  *)
(* be, with any number of places.                                          *)
ProducersConsumers ==
    /\ Threads = Workers /\ IsFiniteSet(Workers) /\ Producers \cap Consumers = {}
    /\ Sems = {"free", "full", "access"} /\ Stocks = {"elements"}
    /\ Program = Roles /\ InitCount = do_tests

\* The parts of the two programs between p(access) and v(access).
Critical == [t \in Threads |-> [i \in 1 .. 7 |->
    IF i \in (IF t \in Producers THEN {3, 4} ELSE {4, 5}) THEN {"access"} ELSE {}]]

(* What the two programs say, instruction by instruction.                  *)
LEMMA Rounds ==
    ASSUME ProducersConsumers, NEW t \in Threads
    PROVE  /\ t \in Producers =>
                /\ Len(Program[t]) = 5
                /\ Program[t][1] = P_("free") /\ Program[t][2] = P_("access")
                /\ Program[t][3] = Add("elements", 1)
                /\ Program[t][4] = V_("access") /\ Program[t][5] = V_("full")
           /\ t \notin Producers =>
                /\ Len(Program[t]) = 7 /\ t \in Consumers
                /\ Program[t][1] = P_("full") /\ Program[t][2] = P_("full")
                /\ Program[t][3] = P_("access") /\ Program[t][4] = Add("elements", -2)
                /\ Program[t][5] = V_("access")
                /\ Program[t][6] = V_("free") /\ Program[t][7] = V_("free")
<1>1. Program[t] = IF t \in Producers THEN threadProducer ELSE threadConsumer
  BY DEF ProducersConsumers, Roles
<1>2. t \in Producers \/ t \in Consumers
  BY DEF ProducersConsumers, Workers
<1> QED
  BY <1>1, <1>2 DEF threadProducer, threadConsumer

(* They work on the elements between p(access) and v(access) only.         *)
LEMMA RoundsAreGuarded ==
    ASSUME ProducersConsumers
    PROVE  Guarded({"access"}, [x \in Stocks |-> "access"], Critical)
<1> DEFINE mutexes == {"access"}
           guard == [x \in Stocks |-> "access"]
<1>1. mutexes \subseteq Sems /\ \A s \in mutexes : InitCount[s] = 1
  BY DEF ProducersConsumers, do_tests
<1>2. guard \in [Stocks -> mutexes] /\ guard["elements"] = "access"
  BY DEF ProducersConsumers
<1>3. \A t \in Threads : Critical[t][1] = {}
  BY DEF Critical
<1> HIDE DEF guard
<1>4. ASSUME NEW t \in Threads, NEW i \in 1 .. Len(Program[t])
      PROVE  /\ Critical[t][Succ(t, i)] = Then(Critical[t][i], Program[t][i], mutexes)
             /\ Program[t][i].op = "v" /\ Program[t][i].on \in mutexes => Program[t][i].on \in Critical[t][i]
             /\ Program[t][i].op = "add" => guard[Program[t][i].on] \in Critical[t][i]
  <2>1. CASE t \in Producers
    <3>1. i \in {1, 2, 3, 4, 5} /\ Succ(t, i) = IF i = 5 THEN 1 ELSE i + 1
      <4>1. Len(Program[t]) = 5
        BY <2>1, Rounds
      <4> QED
        BY <4>1 DEF Succ
    <3>2. \A j \in 1 .. 7 : Critical[t][j] = IF j \in {3, 4} THEN {"access"} ELSE {}
      BY <2>1 DEF Critical
    <3>3. /\ Program[t][1] = [op |-> "p", on |-> "free"] /\ Program[t][2] = [op |-> "p", on |-> "access"]
          /\ Program[t][3] = [op |-> "add", on |-> "elements", by |-> 1]
          /\ Program[t][4] = [op |-> "v", on |-> "access"] /\ Program[t][5] = [op |-> "v", on |-> "full"]
      BY <2>1, Rounds DEF P_, V_, Add
    <3>4. CASE i = 1
      <4>1. /\ Program[t][i].op = "p" /\ Program[t][i].on = "free"
            /\ Critical[t][i] = {} /\ Critical[t][Succ(t, i)] = {}
        BY <3>1, <3>2, <3>3, <3>4
      <4> QED
        BY <4>1 DEF Then
    <3>5. CASE i = 2
      <4>1. /\ Program[t][i].op = "p" /\ Program[t][i].on = "access"
            /\ Critical[t][i] = {} /\ Critical[t][Succ(t, i)] = {"access"}
        BY <3>1, <3>2, <3>3, <3>5
      <4> QED
        BY <4>1 DEF Then
    <3>6. CASE i = 3
      <4>1. /\ Program[t][i].op = "add" /\ Program[t][i].on = "elements"
            /\ Critical[t][i] = {"access"} /\ Critical[t][Succ(t, i)] = {"access"}
        BY <3>1, <3>2, <3>3, <3>6
      <4> QED
        BY <1>2, <4>1 DEF Then
    <3>7. CASE i = 4
      <4>1. /\ Program[t][i].op = "v" /\ Program[t][i].on = "access"
            /\ Critical[t][i] = {"access"} /\ Critical[t][Succ(t, i)] = {}
        BY <3>1, <3>2, <3>3, <3>7
      <4> QED
        BY <4>1 DEF Then
    <3>8. CASE i = 5
      <4>1. /\ Program[t][i].op = "v" /\ Program[t][i].on = "full"
            /\ Critical[t][i] = {} /\ Critical[t][Succ(t, i)] = {}
        BY <3>1, <3>2, <3>3, <3>8
      <4> QED
        BY <4>1 DEF Then
    <3> QED
      BY <3>1, <3>4, <3>5, <3>6, <3>7, <3>8
  <2>2. CASE t \notin Producers
    <3>1. i \in {1, 2, 3, 4, 5, 6, 7} /\ Succ(t, i) = IF i = 7 THEN 1 ELSE i + 1
      <4>1. Len(Program[t]) = 7
        BY <2>2, Rounds
      <4> QED
        BY <4>1 DEF Succ
    <3>2. \A j \in 1 .. 7 : Critical[t][j] = IF j \in {4, 5} THEN {"access"} ELSE {}
      BY <2>2 DEF Critical
    <3>3. /\ Program[t][1] = [op |-> "p", on |-> "full"] /\ Program[t][2] = [op |-> "p", on |-> "full"]
          /\ Program[t][3] = [op |-> "p", on |-> "access"]
          /\ Program[t][4] = [op |-> "add", on |-> "elements", by |-> -2]
          /\ Program[t][5] = [op |-> "v", on |-> "access"]
          /\ Program[t][6] = [op |-> "v", on |-> "free"] /\ Program[t][7] = [op |-> "v", on |-> "free"]
      BY <2>2, Rounds DEF P_, V_, Add
    <3>4. CASE i = 1 \/ i = 2
      <4>1. (i = 1 /\ Succ(t, i) = 2) \/ (i = 2 /\ Succ(t, i) = 3)
        BY <3>1, <3>4
      <4>2. /\ Program[t][1].op = "p" /\ Program[t][1].on = "full"
            /\ Program[t][2].op = "p" /\ Program[t][2].on = "full"
        BY <3>3
      <4>3. Critical[t][1] = {} /\ Critical[t][2] = {} /\ Critical[t][3] = {}
        BY <3>2
      <4>4. /\ Program[t][i].op = "p" /\ Program[t][i].on = "full"
            /\ Critical[t][i] = {} /\ Critical[t][Succ(t, i)] = {}
        BY <4>1, <4>2, <4>3
      <4> QED
        BY <4>4 DEF Then
    <3>5. CASE i = 3
      <4>1. /\ Program[t][i].op = "p" /\ Program[t][i].on = "access"
            /\ Critical[t][i] = {} /\ Critical[t][Succ(t, i)] = {"access"}
        BY <3>1, <3>2, <3>3, <3>5
      <4> QED
        BY <4>1 DEF Then
    <3>6. CASE i = 4
      <4>1. /\ Program[t][i].op = "add" /\ Program[t][i].on = "elements"
            /\ Critical[t][i] = {"access"} /\ Critical[t][Succ(t, i)] = {"access"}
        BY <3>1, <3>2, <3>3, <3>6
      <4> QED
        BY <1>2, <4>1 DEF Then
    <3>7. CASE i = 5
      <4>1. /\ Program[t][i].op = "v" /\ Program[t][i].on = "access"
            /\ Critical[t][i] = {"access"} /\ Critical[t][Succ(t, i)] = {}
        BY <3>1, <3>2, <3>3, <3>7
      <4> QED
        BY <4>1 DEF Then
    <3>8. CASE i = 6 \/ i = 7
      <4>1. (i = 6 /\ Succ(t, i) = 7) \/ (i = 7 /\ Succ(t, i) = 1)
        BY <3>1, <3>8
      <4>2. /\ Program[t][6].op = "v" /\ Program[t][6].on = "free"
            /\ Program[t][7].op = "v" /\ Program[t][7].on = "free"
        BY <3>3
      <4>3. Critical[t][6] = {} /\ Critical[t][7] = {} /\ Critical[t][1] = {}
        BY <3>2
      <4>4. /\ Program[t][i].op = "v" /\ Program[t][i].on = "free"
            /\ Critical[t][i] = {} /\ Critical[t][Succ(t, i)] = {}
        BY <4>1, <4>2, <4>3
      <4> QED
        BY <4>4 DEF Then
    <3> QED
      BY <3>1, <3>4, <3>5, <3>6, <3>7, <3>8
  <2> QED
    BY <2>1, <2>2
<1> QED
  BY <1>1, <1>2, <1>3, <1>4 DEF Guarded, guard

(* The sum of weights that are 0, 1 or 2.                                  *)
Weight(f) == Cardinality({t \in Threads : f[t] >= 1}) + Cardinality({t \in Threads : f[t] >= 2})

(* Changing one thread's weight changes the sum by as much.                *)
LEMMA WeightAdds ==
    ASSUME IsFiniteSet(Threads), NEW f \in [Threads -> 0 .. 2], NEW t \in Threads, NEW n \in 0 .. 2
    PROVE  Weight([f EXCEPT ![t] = n]) = Weight(f) - f[t] + n /\ Weight(f) \in Nat
<1> DEFINE g == [f EXCEPT ![t] = n]
           H(k) == {u \in Threads : f[u] >= k}
           G(k) == {u \in Threads : g[u] >= k}
<1>1. ASSUME NEW k \in 1 .. 2
      PROVE  /\ Cardinality(H(k)) \in Nat
             /\ Cardinality(G(k)) = Cardinality(H(k)) - (IF f[t] >= k THEN 1 ELSE 0) + (IF n >= k THEN 1 ELSE 0)
  <2>1. H(k) \ {t} = G(k) \ {t} /\ (t \in H(k) <=> f[t] >= k) /\ (t \in G(k) <=> n >= k)
    BY <1>1
  <2>2. IsFiniteSet(H(k)) /\ IsFiniteSet(G(k))
    BY FS_Subset
  <2> HIDE DEF H, G
  <2>3. /\ Cardinality(H(k)) \in Nat /\ Cardinality(G(k)) \in Nat
        /\ Cardinality(H(k) \ {t}) = IF t \in H(k) THEN Cardinality(H(k)) - 1 ELSE Cardinality(H(k))
        /\ Cardinality(G(k) \ {t}) = IF t \in G(k) THEN Cardinality(G(k)) - 1 ELSE Cardinality(G(k))
    BY <2>2, FS_RemoveElement, FS_CardinalityType
  <2>4. Cardinality(H(k) \ {t}) = Cardinality(G(k) \ {t})
    BY <2>1, Zenon
  <2> QED
    BY <2>1, <2>3, <2>4
<1>2. f[t] \in {0, 1, 2} /\ n \in {0, 1, 2}
  OBVIOUS
<1>3. Weight(f) = Cardinality(H(1)) + Cardinality(H(2)) /\ Weight(g) = Cardinality(G(1)) + Cardinality(G(2))
  BY DEF Weight
<1> HIDE DEF H, G, g
<1>4. Weight(g) = Weight(f) - f[t] + n /\ Weight(f) \in Nat
  BY <1>1, <1>2, <1>3
<1> QED
  BY <1>4 DEF g

(* What weighs no more for any thread weighs no more in all.               *)
LEMMA WeightOrdered ==
    ASSUME IsFiniteSet(Threads), NEW f \in [Threads -> 0 .. 2], NEW g \in [Threads -> 0 .. 2],
           \A t \in Threads : f[t] <= g[t]
    PROVE  Weight(f) <= Weight(g)
<1> DEFINE H(k) == {u \in Threads : f[u] >= k}
           G(k) == {u \in Threads : g[u] >= k}
<1>1. ASSUME NEW k \in 1 .. 2
      PROVE  Cardinality(H(k)) \in Nat /\ Cardinality(G(k)) \in Nat /\ Cardinality(H(k)) <= Cardinality(G(k))
  <2>1. H(k) \subseteq G(k) /\ G(k) \subseteq Threads
    BY <1>1
  <2> HIDE DEF H, G
  <2> QED
    BY <2>1, FS_Subset, FS_CardinalityType
<1>2. Weight(f) = Cardinality(H(1)) + Cardinality(H(2)) /\ Weight(g) = Cardinality(G(1)) + Cardinality(G(2))
  BY DEF Weight
<1> HIDE DEF H, G
<1> QED
  BY <1>1, <1>2

(* Many producers and consumers look atomic to each other.                 *)
THEOREM ProducersAreAtomic ==
    ASSUME ProducersConsumers
    PROVE  Spec => ImplementsAtomic
BY RoundsAreGuarded, SemaphoresAreAtomic

(* The places and elements a thread has taken and not yet given back, and  *)
(* the elements it accounts for that no semaphore counts.                  *)
TakenAt(t, i) ==
    CASE t \in Producers /\ i \in {2, 3, 4, 5}    -> 1
      [] t \notin Producers /\ i \in {2, 7}       -> 1
      [] t \notin Producers /\ i \in {3, 4, 5, 6} -> 2
      [] OTHER                                    -> 0

LooseAt(t, i) ==
    CASE t \in Producers /\ i \in {4, 5}          -> 1
      [] t \notin Producers /\ i = 2              -> 1
      [] t \notin Producers /\ i \in {3, 4}       -> 2
      [] OTHER                                    -> 0

Taken == [t \in Threads |-> TakenAt(t, EffectiveIp[t])]
Loose == [t \in Threads |-> LooseAt(t, EffectiveIp[t])]

(* A place is free, holds an element, or is in the hands of a thread.      *)
Counted ==
    /\ count["free"] + count["full"] + Weight(Taken) = Capacity
    /\ stock["elements"] = count["full"] + Weight(Loose)

(* At the start all places are free and there are no elements.             *)
LEMMA InitCounted ==
    ASSUME ProducersConsumers, Init
    PROVE  Counted
<1>1. \A t \in Threads : EffectiveIp[t] = 1
  BY DEF Init, EffectiveIp
<1>2. \A t \in Threads : Taken[t] = 0 /\ Loose[t] = 0
  <2>1. \A t : TakenAt(t, 1) = 0 /\ LooseAt(t, 1) = 0
    BY DEF TakenAt, LooseAt
  <2> QED
    BY <1>1, <2>1 DEF Taken, Loose
<1>3. Weight(Taken) = 0 /\ Weight(Loose) = 0
  <2>1. \A S : S = {} => Cardinality(S) = 0
    BY FS_EmptySet
  <2>2. ASSUME NEW f, \A t \in Threads : f[t] = 0
        PROVE  Weight(f) = 0
    <3> DEFINE A == {t \in Threads : f[t] >= 1}
               B == {t \in Threads : f[t] >= 2}
    <3>1. A = {} /\ B = {}
      BY <2>2
    <3>2. Weight(f) = Cardinality(A) + Cardinality(B)
      BY DEF Weight
    <3> HIDE DEF A, B
    <3> QED
      BY <2>1, <3>1, <3>2
  <2> QED
    BY <1>2, <2>2
<1>4. count["free"] = Capacity /\ count["full"] = 0 /\ stock["elements"] = 0
  BY DEF Init, ProducersConsumers, do_tests
<1> QED
  BY <1>3, <1>4, CapacityAssumption DEF Counted, CapacityAssumption

(* Each step of a thread moves a place from one of the three to another.   *)
LEMMA CountedKept ==
    ASSUME ProducersConsumers, IInv, Counted, NEW t \in Threads, Atomic!Step(t)
    PROVE  Counted'
<1> DEFINE e == EffectiveIp[t]
           instr == Program[t][e]
<1>1. /\ e \in 1 .. Len(Program[t]) /\ instr.op \in {"p", "v", "add"}
      /\ count \in [{"free", "full", "access"} -> Nat] /\ stock \in [{"elements"} -> Int]
      /\ IsFiniteSet(Threads)
  BY Places DEF IInv, TypeOK, ProducersConsumers
<1>2. EffectiveIp' = [EffectiveIp EXCEPT ![t] = Succ(t, e)]
  <2>1. Atomic!Target(t) = Succ(t, e)
    BY <1>1 DEF Atomic!Target, Atomic!Instr, Atomic!Succ, Succ
  <2> QED
    BY <2>1 DEF Atomic!Step, Atomic!P, Atomic!V, Atomic!Work, Atomic!Switch, Atomic!Go
<1>3. EffectiveIp'[t] = Succ(t, e) /\ \A u \in Threads \ {t} : EffectiveIp'[u] = EffectiveIp[u]
  <2>1. DOMAIN EffectiveIp = Threads
    BY DEF EffectiveIp
  <2> QED
    BY <1>2, <2>1
<1>4. /\ Taken \in [Threads -> 0 .. 2] /\ Loose \in [Threads -> 0 .. 2]
      /\ \A i : TakenAt(t, i) \in 0 .. 2 /\ LooseAt(t, i) \in 0 .. 2
  <2>1. \A u, i : TakenAt(u, i) \in 0 .. 2 /\ LooseAt(u, i) \in 0 .. 2
    BY DEF TakenAt, LooseAt
  <2> QED
    BY <2>1 DEF Taken, Loose
<1>5. /\ Taken' = [Taken EXCEPT ![t] = TakenAt(t, Succ(t, e))]
      /\ Loose' = [Loose EXCEPT ![t] = LooseAt(t, Succ(t, e))]
  <2>1. /\ Taken' = [u \in Threads |-> TakenAt(u, EffectiveIp'[u])]
        /\ Loose' = [u \in Threads |-> LooseAt(u, EffectiveIp'[u])]
    BY DEF Taken, Loose, TakenAt, LooseAt
  <2> QED
    BY <1>3, <2>1 DEF Taken, Loose
<1>6. /\ Weight(Taken') = Weight(Taken) - TakenAt(t, e) + TakenAt(t, Succ(t, e))
      /\ Weight(Loose') = Weight(Loose) - LooseAt(t, e) + LooseAt(t, Succ(t, e))
      /\ Weight(Taken) \in Nat /\ Weight(Loose) \in Nat
  <2>1. Taken[t] = TakenAt(t, e) /\ Loose[t] = LooseAt(t, e)
    BY DEF Taken, Loose
  <2>2. ASSUME NEW f \in [Threads -> 0 .. 2], NEW n \in 0 .. 2, NEW g, g = [f EXCEPT ![t] = n]
        PROVE  Weight(g) = Weight(f) - f[t] + n /\ Weight(f) \in Nat
    BY <1>1, <2>2, WeightAdds
  <2>3. Weight(Taken') = Weight(Taken) - Taken[t] + TakenAt(t, Succ(t, e)) /\ Weight(Taken) \in Nat
    BY <1>4, <1>5, <2>2
  <2>4. Weight(Loose') = Weight(Loose) - Loose[t] + LooseAt(t, Succ(t, e)) /\ Weight(Loose) \in Nat
    BY <1>4, <1>5, <2>2
  <2> QED
    BY <2>1, <2>3, <2>4
<1>7. Weight(Taken)' = Weight(Taken') /\ Weight(Loose)' = Weight(Loose')
  BY DEF Weight
<1>8. \/ instr.op = "p" /\ count' = [count EXCEPT ![instr.on] = @ - 1] /\ stock' = stock
      \/ instr.op = "v" /\ count' = [count EXCEPT ![instr.on] = @ + 1] /\ stock' = stock
      \/ instr.op = "add" /\ count' = count /\ stock' = [stock EXCEPT ![instr.on] = @ + instr.by]
  BY <1>1 DEF Atomic!Step, Atomic!P, Atomic!V, Atomic!Work, Atomic!Switch, Atomic!Instr
<1> HIDE DEF e, instr
<1>9. /\ count["free"] \in Int /\ count["full"] \in Int /\ stock["elements"] \in Int
      /\ {TakenAt(t, e), TakenAt(t, Succ(t, e)), LooseAt(t, e), LooseAt(t, Succ(t, e))} \subseteq Int
  BY <1>1, <1>4
<1>10. /\ count'["free"] + count'["full"] + TakenAt(t, Succ(t, e))
            = count["free"] + count["full"] + TakenAt(t, e)
       /\ stock'["elements"] - count'["full"] - LooseAt(t, Succ(t, e))
            = stock["elements"] - count["full"] - LooseAt(t, e)
       /\ count'["free"] \in Int /\ count'["full"] \in Int /\ stock'["elements"] \in Int
  <2> DEFINE Shift(frees, fulls, elements, taken, loose) ==
               /\ count'["free"] = count["free"] + frees /\ count'["full"] = count["full"] + fulls
               /\ stock'["elements"] = stock["elements"] + elements
               /\ TakenAt(t, Succ(t, e)) = TakenAt(t, e) + taken
               /\ LooseAt(t, Succ(t, e)) = LooseAt(t, e) + loose
  <2>1. CASE t \in Producers
    <3>1. e \in {1, 2, 3, 4, 5} /\ Succ(t, e) = IF e = 5 THEN 1 ELSE e + 1
      <4>1. Len(Program[t]) = 5
        BY <2>1, Rounds
      <4> QED
        BY <1>1, <4>1 DEF Succ
    <3>2. /\ \A i : TakenAt(t, i) = IF i \in {2, 3, 4, 5} THEN 1 ELSE 0
          /\ \A i : LooseAt(t, i) = IF i \in {4, 5} THEN 1 ELSE 0
      BY <2>1 DEF TakenAt, LooseAt
    <3>3. /\ Program[t][1] = [op |-> "p", on |-> "free"] /\ Program[t][2] = [op |-> "p", on |-> "access"]
          /\ Program[t][3] = [op |-> "add", on |-> "elements", by |-> 1]
          /\ Program[t][4] = [op |-> "v", on |-> "access"] /\ Program[t][5] = [op |-> "v", on |-> "full"]
      BY <2>1, Rounds DEF P_, V_, Add
    <3>4. e = 1 => Shift(-1, 0, 0, 1, 0)
      <4> SUFFICES ASSUME e = 1 PROVE Shift(-1, 0, 0, 1, 0)
        OBVIOUS
      <4>1. instr.op = "p" /\ instr.on = "free" /\ Succ(t, e) = 2
        BY <3>1, <3>3 DEF instr
      <4> QED
        BY <1>1, <1>8, <3>2, <4>1, SMTT(30)
    <3>5. e \in {2, 4} => Shift(0, 0, 0, 0, 0)
      <4> SUFFICES ASSUME e \in {2, 4} PROVE Shift(0, 0, 0, 0, 0)
        OBVIOUS
      <4>1. instr.op \in {"p", "v"} /\ instr.on = "access" /\ Succ(t, e) = e + 1
        BY <3>1, <3>3 DEF instr
      <4> QED
        BY <1>1, <1>8, <3>2, <4>1, SMTT(30)
    <3>6. e = 3 => Shift(0, 0, 1, 0, 1)
      <4> SUFFICES ASSUME e = 3 PROVE Shift(0, 0, 1, 0, 1)
        OBVIOUS
      <4>1. instr.op = "add" /\ instr.on = "elements" /\ instr.by = 1 /\ Succ(t, e) = 4
        BY <3>1, <3>3 DEF instr
      <4> QED
        BY <1>1, <1>8, <3>2, <4>1
    <3>7. e = 5 => Shift(0, 1, 0, -1, -1)
      <4> SUFFICES ASSUME e = 5 PROVE Shift(0, 1, 0, -1, -1)
        OBVIOUS
      <4>1. instr.op = "v" /\ instr.on = "full" /\ Succ(t, e) = 1
        BY <3>1, <3>3 DEF instr
      <4> QED
        BY <1>1, <1>8, <3>2, <4>1
    <3> QED
      BY <1>9, <3>1, <3>4, <3>5, <3>6, <3>7
  <2>2. CASE t \notin Producers
    <3>1. e \in {1, 2, 3, 4, 5, 6, 7} /\ Succ(t, e) = IF e = 7 THEN 1 ELSE e + 1
      <4>1. Len(Program[t]) = 7
        BY <2>2, Rounds
      <4> QED
        BY <1>1, <4>1 DEF Succ
    <3>2. /\ \A i : TakenAt(t, i) = IF i \in {3, 4, 5, 6} THEN 2 ELSE IF i \in {2, 7} THEN 1 ELSE 0
          /\ \A i : LooseAt(t, i) = IF i \in {3, 4} THEN 2 ELSE IF i = 2 THEN 1 ELSE 0
      BY <2>2 DEF TakenAt, LooseAt
    <3>3. /\ Program[t][1] = [op |-> "p", on |-> "full"] /\ Program[t][2] = [op |-> "p", on |-> "full"]
          /\ Program[t][3] = [op |-> "p", on |-> "access"]
          /\ Program[t][4] = [op |-> "add", on |-> "elements", by |-> -2]
          /\ Program[t][5] = [op |-> "v", on |-> "access"]
          /\ Program[t][6] = [op |-> "v", on |-> "free"] /\ Program[t][7] = [op |-> "v", on |-> "free"]
      BY <2>2, Rounds DEF P_, V_, Add
    <3>4. e \in {1, 2} => Shift(0, -1, 0, 1, 1)
      <4> SUFFICES ASSUME e \in {1, 2} PROVE Shift(0, -1, 0, 1, 1)
        OBVIOUS
      <4>1. instr.op = "p" /\ instr.on = "full" /\ Succ(t, e) = e + 1
        BY <3>1, <3>3 DEF instr
      <4>2. /\ TakenAt(t, Succ(t, e)) = TakenAt(t, e) + 1
            /\ LooseAt(t, Succ(t, e)) = LooseAt(t, e) + 1
        BY <3>2, <4>1
      <4>3. /\ count'["free"] = count["free"] + 0 /\ count'["full"] = count["full"] + (-1)
            /\ stock'["elements"] = stock["elements"] + 0
        BY <1>1, <1>8, <4>1
      <4> QED
        BY <4>2, <4>3
    <3>5. e \in {3, 5} => Shift(0, 0, 0, 0, 0)
      <4> SUFFICES ASSUME e \in {3, 5} PROVE Shift(0, 0, 0, 0, 0)
        OBVIOUS
      <4>1. instr.op \in {"p", "v"} /\ instr.on = "access" /\ Succ(t, e) = e + 1
        BY <3>1, <3>3 DEF instr
      <4> QED
        BY <1>1, <1>8, <3>2, <4>1, SMTT(30)
    <3>6. e = 4 => Shift(0, 0, -2, 0, -2)
      <4> SUFFICES ASSUME e = 4 PROVE Shift(0, 0, -2, 0, -2)
        OBVIOUS
      <4>1. instr.op = "add" /\ instr.on = "elements" /\ instr.by = -2 /\ Succ(t, e) = 5
        BY <3>1, <3>3 DEF instr
      <4> QED
        BY <1>1, <1>8, <3>2, <4>1
    <3>7. e \in {6, 7} => Shift(1, 0, 0, -1, 0)
      <4> SUFFICES ASSUME e \in {6, 7} PROVE Shift(1, 0, 0, -1, 0)
        OBVIOUS
      <4>1. instr.op = "v" /\ instr.on = "free" /\ Succ(t, e) = IF e = 7 THEN 1 ELSE 7
        BY <3>1, <3>3 DEF instr
      <4>2. /\ TakenAt(t, Succ(t, e)) = TakenAt(t, e) + (-1)
            /\ LooseAt(t, Succ(t, e)) = LooseAt(t, e) + 0
        BY <3>2, <4>1
      <4>3. /\ count'["free"] = count["free"] + 1 /\ count'["full"] = count["full"] + 0
            /\ stock'["elements"] = stock["elements"] + 0
        BY <1>1, <1>8, <4>1
      <4> QED
        BY <4>2, <4>3
    <3> QED
      BY <1>9, <3>1, <3>4, <3>5, <3>6, <3>7
  <2> QED
    BY <2>1, <2>2
<1> QED
  BY <1>6, <1>7, <1>9, <1>10, CapacityAssumption DEF Counted, CapacityAssumption

(* All of it, in every reachable state.                                    *)
LEMMA CountedHolds ==
    ASSUME ProducersConsumers
    PROVE  Spec => [](IInv /\ OneInside({"access"}, Critical) /\ Counted)
<1> DEFINE guard == [x \in Stocks |-> "access"]
           Inv == IInv /\ OneInside({"access"}, Critical) /\ StockFresh /\ Counted
<1>1. Guarded({"access"}, guard, Critical)
  BY RoundsAreGuarded
<1> HIDE DEF guard
<1>2. Init => Inv
  BY <1>1, InitIInv, InitInside, InitCounted
<1>3. Inv /\ [Next]_vars => Inv'
  <2> SUFFICES ASSUME Inv, [Next]_vars PROVE Inv'
    OBVIOUS
  <2>1. ASSUME NEW t \in Threads, Step(t) PROVE Inv'
    <3>1. IInv' /\ StockFresh'
      BY <1>1, <2>1, StepIInv, FreshKept
    <3>2. CASE Atomic!Step(t)
      BY <1>1, <3>1, <3>2, InsideKept, CountedKept
    <3>3. CASE UNCHANGED Atomic!vars
      BY <3>1, <3>3 DEF OneInside, Counted, Taken, Loose, Atomic!vars
    <3> QED
      BY <2>1, <3>2, <3>3, StepIsAtomic
  <2>2. CASE UNCHANGED vars
    <3>1. EffectiveIp' = EffectiveIp
      BY <2>2 DEF vars, EffectiveIp, Succ
    <3> QED
      BY <2>2, <3>1 DEF vars, IInv, TypeOK, MutualExclusion, LoadedFresh, Holds, IsSemOp, Sem, Instr,
                        OneInside, StockFresh, Counted, Taken, Loose
  <2> QED
    BY <2>1, <2>2 DEF Next
<1>4. Inv => IInv /\ OneInside({"access"}, Critical) /\ Counted
  OBVIOUS
<1> QED
  BY <1>2, <1>3, <1>4, PTL DEF Spec

(* Positions weigh as much as the steps before them took.                  *)
LEMMA WeightsAre ==
    ASSUME ProducersConsumers, IInv
    PROVE  /\ Taken \in [Threads -> 0 .. 2] /\ Loose \in [Threads -> 0 .. 2]
           /\ Weight(Loose) \in Nat /\ Weight(Taken) \in Nat
           /\ Weight(Loose) <= Weight(Taken)
<1>1. IsFiniteSet(Threads)
  BY DEF ProducersConsumers
<1>2. \A t, i : /\ TakenAt(t, i) \in 0 .. 2 /\ LooseAt(t, i) \in 0 .. 2
                /\ LooseAt(t, i) <= TakenAt(t, i)
  BY DEF TakenAt, LooseAt
<1>3. /\ Taken \in [Threads -> 0 .. 2] /\ Loose \in [Threads -> 0 .. 2]
      /\ \A t \in Threads : Loose[t] <= Taken[t]
  BY <1>2 DEF Taken, Loose
<1>4. ASSUME NEW f \in [Threads -> 0 .. 2] PROVE Weight(f) \in Nat
  <2>1. IsFiniteSet({t \in Threads : f[t] >= 1}) /\ IsFiniteSet({t \in Threads : f[t] >= 2})
    BY <1>1, FS_Subset
  <2> QED
    BY <2>1, FS_CardinalityType DEF Weight
<1> QED
  BY <1>1, <1>3, <1>4, WeightOrdered

(* There are never fewer elements than none and never more than places, so *)
(* that no figure printed by the threads of init/tests.c is absurd, with   *)
(* any number of producers and consumers started by Ctrl-P and Ctrl-C.     *)
THEOREM ElementsFit ==
    ASSUME ProducersConsumers
    PROVE  Spec => []ElementsWithinCapacity
<1>1. IInv /\ Counted => ElementsWithinCapacity
  <2> SUFFICES ASSUME IInv, Counted PROVE ElementsWithinCapacity
    OBVIOUS
  <2>1. count["free"] \in Nat /\ count["full"] \in Nat
    BY DEF IInv, TypeOK, ProducersConsumers
  <2> QED
    BY <2>1, WeightsAre, CapacityAssumption DEF Counted, CapacityAssumption, ElementsWithinCapacity
<1> QED
  BY <1>1, CountedHolds, PTL

(* With fewer consumers than places, and somebody to produce and somebody  *)
(* to consume, the threads never all wait: a consumer that holds one of    *)
(* its two elements leaves another element to somebody.                    *)
THEOREM SomeoneGoesOn ==
    ASSUME ProducersConsumers, Producers # {}, Consumers # {}
    PROVE  Spec => []NeverAllWait
<1>1. IInv /\ OneInside({"access"}, Critical) /\ Counted => NeverAllWait
  <2> SUFFICES ASSUME IInv, OneInside({"access"}, Critical), Counted,
                      Cardinality(Consumers) < Capacity, Atomic!Stuck
               PROVE  FALSE
    BY DEF NeverAllWait
  <2>1. \A t \in Threads : /\ Program[t][EffectiveIp[t]].op = "p"
                           /\ count[Program[t][EffectiveIp[t]].on] = 0
                           /\ EffectiveIp[t] \in 1 .. Len(Program[t])
    BY Places DEF Atomic!Stuck, Atomic!Instr
  <2>2. ASSUME NEW t \in Producers
        PROVE  EffectiveIp[t] \in {1, 2} /\ t \in Threads
    <3>1. t \in Threads
      BY DEF ProducersConsumers, Workers
    <3>2. /\ EffectiveIp[t] \in {1, 2, 3, 4, 5}
          /\ Program[t][3].op = "add" /\ Program[t][4].op = "v" /\ Program[t][5].op = "v"
      <4>1. Len(Program[t]) = 5
        BY <3>1, Rounds
      <4> QED
        BY <2>1, <3>1, <4>1, Rounds DEF V_, Add
    <3> QED
      BY <2>1, <3>1, <3>2
  <2>3. ASSUME NEW t \in Threads, t \notin Producers
        PROVE  EffectiveIp[t] \in {1, 2, 3}
    <3>1. /\ EffectiveIp[t] \in {1, 2, 3, 4, 5, 6, 7}
          /\ Program[t][4].op = "add" /\ Program[t][5].op = "v"
          /\ Program[t][6].op = "v" /\ Program[t][7].op = "v"
      <4>1. Len(Program[t]) = 7
        BY <2>3, Rounds
      <4>2. EffectiveIp[t] \in {1, 2, 3, 4, 5, 6, 7}
        BY <2>1, <2>3, <4>1
      <4>3. /\ Program[t][4] = [op |-> "add", on |-> "elements", by |-> -2]
            /\ Program[t][5] = [op |-> "v", on |-> "access"]
            /\ Program[t][6] = [op |-> "v", on |-> "free"] /\ Program[t][7] = [op |-> "v", on |-> "free"]
        BY <2>3, Rounds DEF V_, Add
      <4>4. /\ Program[t][4].op = "add" /\ Program[t][5].op = "v"
            /\ Program[t][6].op = "v" /\ Program[t][7].op = "v"
        BY <4>3
      <4> QED
        BY <4>2, <4>4
    <3> QED
      BY <2>1, <3>1
  <2>4. count["access"] # 0
    <3>1. \A t \in Producers : t \in Threads => Critical[t][1] = {} /\ Critical[t][2] = {}
      BY DEF Critical
    <3>2. \A t \in Threads : t \notin Producers =>
             Critical[t][1] = {} /\ Critical[t][2] = {} /\ Critical[t][3] = {}
      BY DEF Critical
    <3>3. ASSUME NEW t \in Threads PROVE Critical[t][EffectiveIp[t]] = {}
      <4>1. CASE t \in Producers
        <5>1. EffectiveIp[t] = 1 \/ EffectiveIp[t] = 2
          BY <2>2, <4>1
        <5> QED
          BY <3>1, <4>1, <5>1
      <4>2. CASE t \notin Producers
        <5>1. EffectiveIp[t] = 1 \/ EffectiveIp[t] = 2 \/ EffectiveIp[t] = 3
          BY <2>3, <4>2
        <5> QED
          BY <3>2, <4>2, <5>1
      <4> QED
        BY <4>1, <4>2
    <3> QED
      BY <3>3 DEF OneInside
  <2>5. ASSUME NEW t \in Producers
        PROVE  EffectiveIp[t] = 1 /\ count["free"] = 0
    <3>1. Program[t][1].on = "free" /\ Program[t][2].on = "access"
      BY <2>2, Rounds DEF P_
    <3> QED
      BY <2>1, <2>2, <2>4, <3>1
  <2>6. ASSUME NEW t \in Threads, t \notin Producers
        PROVE  EffectiveIp[t] \in {1, 2} /\ count["full"] = 0 /\ t \in Consumers
    <3>1. /\ Program[t][1].on = "full" /\ Program[t][2].on = "full" /\ Program[t][3].on = "access"
          /\ t \in Consumers
      BY <2>6, Rounds DEF P_
    <3> QED
      BY <2>1, <2>3, <2>4, <2>6, <3>1
  <2>7. count["free"] = 0 /\ count["full"] = 0
    BY <2>5, <2>6 DEF ProducersConsumers, Workers
  <2>8. \A t \in Threads : Taken[t] \in {0, 1} /\ (Taken[t] >= 1 => t \in Consumers)
    <3>1. \A t \in Producers : TakenAt(t, 1) = 0
      BY DEF TakenAt
    <3>2. \A t : t \notin Producers => TakenAt(t, 1) = 0 /\ TakenAt(t, 2) = 1
      BY DEF TakenAt
    <3>3. \A t \in Threads : Taken[t] = TakenAt(t, EffectiveIp[t])
      BY DEF Taken
    <3>4. ASSUME NEW t \in Producers
          PROVE  Taken[t] \in {0, 1} /\ ~ (Taken[t] >= 1)
      BY <2>2, <2>5, <3>1, <3>3
    <3>5. ASSUME NEW t \in Threads, t \notin Producers
          PROVE  Taken[t] \in {0, 1} /\ t \in Consumers
      <4>1. EffectiveIp[t] = 1 \/ EffectiveIp[t] = 2
        BY <2>6, <3>5
      <4> QED
        BY <2>6, <3>2, <3>3, <3>5, <4>1
    <3> QED
      BY <3>4, <3>5, Zenon
  <2>9. Weight(Taken) <= Cardinality(Consumers) /\ Cardinality(Consumers) \in Nat
    <3> DEFINE A == {t \in Threads : Taken[t] >= 1}
               B == {t \in Threads : Taken[t] >= 2}
    <3>1. IsFiniteSet(Consumers)
      BY FS_Subset DEF ProducersConsumers, Workers
    <3>2. A \subseteq Consumers /\ B = {}
      BY <2>8
    <3>3. Weight(Taken) = Cardinality(A) + Cardinality(B)
      BY DEF Weight
    <3> HIDE DEF A, B
    <3>4. /\ Cardinality(A) <= Cardinality(Consumers) /\ Cardinality(A) \in Nat
          /\ Cardinality(Consumers) \in Nat
      BY <3>1, <3>2, FS_Subset, FS_CardinalityType
    <3>5. Cardinality(B) = 0
      BY <3>2, FS_EmptySet
    <3> QED
      BY <3>3, <3>4, <3>5
  <2> QED
    BY <2>7, <2>9, WeightsAre, CapacityAssumption DEF Counted, CapacityAssumption
<1> QED
  BY <1>1, CountedHolds, PTL
-----------------------------------------------------------------------------
(* The furniture factory of Ctrl-M.  Each of its semaphores and stocks is  *)
(* tied to the others by a balance, in which a thread counts by the        *)
(* instruction it is at: what it has taken from a semaphore and not yet    *)
(* put elsewhere.  Every step of every thread keeps every balance.         *)

\* A thread of the factory goes on, and what it does to semaphores and stocks.
Goes(t, i, j) == place[t] = i /\ place' = [place EXCEPT ![t] = j]
Takes(s)      == counts[s] > 0 /\ counts' = [counts EXCEPT ![s] = @ - 1] /\ stocks' = stocks
Gives(s)      == counts' = [counts EXCEPT ![s] = @ + 1] /\ stocks' = stocks
Adds(x, n)    == stocks' = [stocks EXCEPT ![x] = @ + n] /\ counts' = counts
Looks         == counts' = counts /\ stocks' = stocks

(* The types of the factory.                                               *)
FactoryTypes ==
    /\ place \in [FactoryThreads -> Nat] /\ \A t \in FactoryThreads : place[t] \in 1 .. Len(Programs[t])
    /\ counts \in [FactorySems -> Nat] /\ stocks \in [FactoryStocks -> Int]

(* The moves of the factory.                                               *)
FabrikMoves ==
    \/ Goes("Fabrik", 1, 2) /\ Takes("lager_free")
    \/ Goes("Fabrik", 2, 3) /\ Takes("lager_free")
    \/ Goes("Fabrik", 3, 4) /\ Takes("lager_access")
    \/ Goes("Fabrik", 4, 5) /\ Adds("betten", 1)
    \/ Goes("Fabrik", 5, 6) /\ Adds("schraenke", 1)
    \/ Goes("Fabrik", 6, 7) /\ Gives("lager_access")
    \/ Goes("Fabrik", 7, 8) /\ Gives("lager_betten")
    \/ Goes("Fabrik", 8, 1) /\ Gives("lager_schraenke")

(* The moves of the worker.                                                *)
MitarbeiterMoves ==
    \/ Goes("Mitarbeiter", 1, 2) /\ Takes("rampe_free")
    \/ Goes("Mitarbeiter", 2, 3) /\ Takes("lager_schraenke")
    \/ Goes("Mitarbeiter", 3, 4) /\ Takes("lager_access")
    \/ Goes("Mitarbeiter", 4, 5) /\ Adds("schraenke", -1)
    \/ Goes("Mitarbeiter", 5, 6) /\ Gives("lager_access")
    \/ Goes("Mitarbeiter", 6, 7) /\ Gives("lager_free")
    \/ Goes("Mitarbeiter", 7, 8) /\ Takes("rampe_access")
    \/ Goes("Mitarbeiter", 8, 9) /\ Adds("rschraenke", 1)
    \/ Goes("Mitarbeiter", 9, 10) /\ Gives("rampe_access")
    \/ Goes("Mitarbeiter", 10, 11) /\ Gives("rampe_schraenke")
    \/ Goes("Mitarbeiter", 11, 12) /\ Takes("rampe_free")
    \/ Goes("Mitarbeiter", 12, 13) /\ Takes("lager_betten")
    \/ Goes("Mitarbeiter", 13, 14) /\ Takes("lager_access")
    \/ Goes("Mitarbeiter", 14, 15) /\ Adds("betten", -1)
    \/ Goes("Mitarbeiter", 15, 16) /\ Gives("lager_access")
    \/ Goes("Mitarbeiter", 16, 17) /\ Gives("lager_free")
    \/ Goes("Mitarbeiter", 17, 18) /\ Takes("rampe_access")
    \/ Goes("Mitarbeiter", 18, 19) /\ Adds("rbetten", 1)
    \/ Goes("Mitarbeiter", 19, 20) /\ Gives("rampe_access")
    \/ Goes("Mitarbeiter", 20, 1) /\ Gives("rampe_betten")

(* The moves of the first truck.                                           *)
Lastwagen1Moves ==
    \/ Goes("Lastwagen1", 1, 2) /\ Takes("g1_free")
    \/ Goes("Lastwagen1", 2, 3) /\ Takes("rampe_betten")
    \/ Goes("Lastwagen1", 3, 4) /\ Takes("rampe_access")
    \/ Goes("Lastwagen1", 4, 5) /\ Adds("rbetten", -1)
    \/ Goes("Lastwagen1", 5, 6) /\ Gives("rampe_access")
    \/ Goes("Lastwagen1", 6, 7) /\ Gives("rampe_free")
    \/ Goes("Lastwagen1", 7, 8) /\ Takes("g1_access")
    \/ Goes("Lastwagen1", 8, 9) /\ Adds("g1betten", 1)
    \/ Goes("Lastwagen1", 9, 10) /\ Gives("g1_access")
    \/ Goes("Lastwagen1", 10, 1) /\ Gives("g1_full")

(* The moves of the second truck.                                          *)
Lastwagen2Moves ==
    \/ Goes("Lastwagen2", 1, 2) /\ Takes("rampe_access")
    \/ Goes("Lastwagen2", 2, 3) /\ Looks
    \/ Goes("Lastwagen2", 2, 16) /\ Looks
    \/ Goes("Lastwagen2", 3, 4) /\ Gives("rampe_access")
    \/ Goes("Lastwagen2", 4, 5) /\ Takes("g2s_free")
    \/ Goes("Lastwagen2", 5, 6) /\ Takes("rampe_schraenke")
    \/ Goes("Lastwagen2", 6, 7) /\ Takes("rampe_access")
    \/ Goes("Lastwagen2", 7, 8) /\ Adds("rschraenke", -1)
    \/ Goes("Lastwagen2", 8, 9) /\ Gives("rampe_access")
    \/ Goes("Lastwagen2", 9, 10) /\ Gives("rampe_free")
    \/ Goes("Lastwagen2", 10, 11) /\ Takes("g2_access")
    \/ Goes("Lastwagen2", 11, 12) /\ Adds("g2schraenke", 1)
    \/ Goes("Lastwagen2", 12, 13) /\ Gives("g2_access")
    \/ Goes("Lastwagen2", 13, 14) /\ Gives("g2s_full")
    \/ Goes("Lastwagen2", 14, 15) /\ Takes("rampe_access")
    \/ Goes("Lastwagen2", 15, 16) /\ Looks
    \/ Goes("Lastwagen2", 15, 3) /\ Looks
    \/ Goes("Lastwagen2", 16, 17) /\ Gives("rampe_access")
    \/ Goes("Lastwagen2", 17, 18) /\ Takes("g2b_free")
    \/ Goes("Lastwagen2", 18, 19) /\ Takes("rampe_betten")
    \/ Goes("Lastwagen2", 19, 20) /\ Takes("rampe_access")
    \/ Goes("Lastwagen2", 20, 21) /\ Adds("rbetten", -1)
    \/ Goes("Lastwagen2", 21, 22) /\ Gives("rampe_access")
    \/ Goes("Lastwagen2", 22, 23) /\ Gives("rampe_free")
    \/ Goes("Lastwagen2", 23, 24) /\ Takes("g2_access")
    \/ Goes("Lastwagen2", 24, 25) /\ Adds("g2betten", 1)
    \/ Goes("Lastwagen2", 25, 26) /\ Gives("g2_access")
    \/ Goes("Lastwagen2", 26, 1) /\ Gives("g2b_full")

(* The moves of the first shop.                                            *)
Geschaeft1Moves ==
    \/ Goes("Geschaeft1", 1, 2) /\ Takes("g1_full")
    \/ Goes("Geschaeft1", 2, 3) /\ Takes("g1_access")
    \/ Goes("Geschaeft1", 3, 4) /\ Adds("g1betten", -1)
    \/ Goes("Geschaeft1", 4, 5) /\ Gives("g1_access")
    \/ Goes("Geschaeft1", 5, 1) /\ Gives("g1_free")

(* The moves of the second shop.                                           *)
Geschaeft2Moves ==
    \/ Goes("Geschaeft2", 1, 2) /\ Takes("g2_access")
    \/ Goes("Geschaeft2", 2, 3) /\ Looks
    \/ Goes("Geschaeft2", 2, 11) /\ Looks
    \/ Goes("Geschaeft2", 3, 4) /\ Gives("g2_access")
    \/ Goes("Geschaeft2", 4, 5) /\ Takes("g2b_full")
    \/ Goes("Geschaeft2", 5, 6) /\ Takes("g2_access")
    \/ Goes("Geschaeft2", 6, 7) /\ Adds("g2betten", -1)
    \/ Goes("Geschaeft2", 7, 8) /\ Gives("g2_access")
    \/ Goes("Geschaeft2", 8, 9) /\ Gives("g2b_free")
    \/ Goes("Geschaeft2", 9, 10) /\ Takes("g2_access")
    \/ Goes("Geschaeft2", 10, 11) /\ Looks
    \/ Goes("Geschaeft2", 10, 3) /\ Looks
    \/ Goes("Geschaeft2", 11, 12) /\ Gives("g2_access")
    \/ Goes("Geschaeft2", 12, 13) /\ Takes("g2s_full")
    \/ Goes("Geschaeft2", 13, 14) /\ Takes("g2_access")
    \/ Goes("Geschaeft2", 14, 15) /\ Adds("g2schraenke", -1)
    \/ Goes("Geschaeft2", 15, 16) /\ Gives("g2_access")
    \/ Goes("Geschaeft2", 16, 1) /\ Gives("g2s_free")

(* The threads and the semaphores, one by one.                             *)
LEMMA FactoryParts ==
    /\ FactoryThreads = {"Fabrik", "Mitarbeiter", "Lastwagen1", "Lastwagen2", "Geschaeft1", "Geschaeft2"}
    /\ FactorySems = {"lager_betten", "lager_schraenke", "lager_free", "lager_access",
                      "rampe_betten", "rampe_schraenke", "rampe_free", "rampe_access",
                      "g1_full", "g1_free", "g1_access",
                      "g2b_full", "g2b_free", "g2s_full", "g2s_free", "g2_access"}
  BY DEF FactoryThreads, Programs, FactorySems, paralleleModellierung

(* What a thread does is what its instruction says.                        *)
LEMMA MoveDoes ==
    ASSUME FactoryTypes, NEW t \in FactoryThreads, F!Step(t)
    PROVE  LET i == place[t]
           IN  /\ \A s : Programs[t][i] = P_(s) => Takes(s) /\ Goes(t, i, F!Succ(t, i))
               /\ \A s : Programs[t][i] = V_(s) => Gives(s) /\ Goes(t, i, F!Succ(t, i))
               /\ \A x, n : Programs[t][i] = Add(x, n) => Adds(x, n) /\ Goes(t, i, F!Succ(t, i))
               /\ \A x : Programs[t][i] = Switch_(x) =>
                      Looks /\ (Goes(t, i, F!Succ(t, i)) \/ Goes(t, i, F!Succ(t, F!OtherHalf(t, i))))
<1> DEFINE i == place[t]
<1> USE DEF F!Step, F!P, F!V, F!Work, F!Switch, F!Go, F!Target, F!Instr, Goes
<1>1. ASSUME NEW s, Programs[t][i] = P_(s) PROVE Takes(s) /\ Goes(t, i, F!Succ(t, i))
  <2>1. Programs[t][i].op = "p" /\ Programs[t][i].on = s
    BY <1>1 DEF P_
  <2> QED
    BY <2>1 DEF Takes
<1>2. ASSUME NEW s, Programs[t][i] = V_(s) PROVE Gives(s) /\ Goes(t, i, F!Succ(t, i))
  <2>1. Programs[t][i].op = "v" /\ Programs[t][i].on = s
    BY <1>2 DEF V_
  <2> QED
    BY <2>1 DEF Gives
<1>3. ASSUME NEW x, NEW n, Programs[t][i] = Add(x, n) PROVE Adds(x, n) /\ Goes(t, i, F!Succ(t, i))
  <2>1. Programs[t][i].op = "add" /\ Programs[t][i].on = x /\ Programs[t][i].by = n
    BY <1>3 DEF Add
  <2> QED
    BY <2>1 DEF Adds
<1>4. ASSUME NEW x, Programs[t][i] = Switch_(x)
      PROVE  Looks /\ (Goes(t, i, F!Succ(t, i)) \/ Goes(t, i, F!Succ(t, F!OtherHalf(t, i))))
  <2>1. Programs[t][i].op = "switch" /\ Programs[t][i].on = x
    BY <1>4 DEF Switch_
  <2> QED
    BY <2>1 DEF Looks
<1> QED
  BY <1>1, <1>2, <1>3, <1>4

(* What threadFabrik() says, instruction by instruction.                   *)
LEMMA FabrikSays ==
    LET p == Programs["Fabrik"]
    IN  /\ Len(p) = 8
        /\ p[1] = P_("lager_free")
        /\ p[2] = P_("lager_free")
        /\ p[3] = P_("lager_access")
        /\ p[4] = Add("betten", 1)
        /\ p[5] = Add("schraenke", 1)
        /\ p[6] = V_("lager_access")
        /\ p[7] = V_("lager_betten")
        /\ p[8] = V_("lager_schraenke")
  BY DEF Programs, threadFabrik

(* Every step of the factory is one of its moves.                          *)
LEMMA FabrikGoes ==
    ASSUME FactoryTypes, F!Step("Fabrik")
    PROVE  FabrikMoves
<1>1. Len(Programs["Fabrik"]) = 8
  BY FabrikSays
<1>2. place["Fabrik"] \in 1 .. 8 /\ "Fabrik" \in FactoryThreads
  BY <1>1, FactoryParts DEF FactoryTypes
<1>3. \A i \in 1 .. 8 : F!Succ("Fabrik", i) = IF i = 8 THEN 1 ELSE i + 1
  BY <1>1 DEF F!Succ
<1> QED
  BY <1>2, <1>3, MoveDoes, FabrikSays DEF FabrikMoves

(* What threadMitarbeiter() says, instruction by instruction.              *)
LEMMA MitarbeiterSays ==
    LET p == Programs["Mitarbeiter"]
    IN  /\ Len(p) = 20
        /\ p[1] = P_("rampe_free")
        /\ p[2] = P_("lager_schraenke")
        /\ p[3] = P_("lager_access")
        /\ p[4] = Add("schraenke", -1)
        /\ p[5] = V_("lager_access")
        /\ p[6] = V_("lager_free")
        /\ p[7] = P_("rampe_access")
        /\ p[8] = Add("rschraenke", 1)
        /\ p[9] = V_("rampe_access")
        /\ p[10] = V_("rampe_schraenke")
        /\ p[11] = P_("rampe_free")
        /\ p[12] = P_("lager_betten")
        /\ p[13] = P_("lager_access")
        /\ p[14] = Add("betten", -1)
        /\ p[15] = V_("lager_access")
        /\ p[16] = V_("lager_free")
        /\ p[17] = P_("rampe_access")
        /\ p[18] = Add("rbetten", 1)
        /\ p[19] = V_("rampe_access")
        /\ p[20] = V_("rampe_betten")
  BY DEF Programs, threadMitarbeiter, Carry

(* Every step of the worker is one of its moves.                           *)
LEMMA MitarbeiterGoes ==
    ASSUME FactoryTypes, F!Step("Mitarbeiter")
    PROVE  MitarbeiterMoves
<1>1. Len(Programs["Mitarbeiter"]) = 20
  BY MitarbeiterSays
<1>2. place["Mitarbeiter"] \in 1 .. 20 /\ "Mitarbeiter" \in FactoryThreads
  BY <1>1, FactoryParts DEF FactoryTypes
<1>3. \A i \in 1 .. 20 : F!Succ("Mitarbeiter", i) = IF i = 20 THEN 1 ELSE i + 1
  BY <1>1 DEF F!Succ
<1> QED
  BY <1>2, <1>3, MoveDoes, MitarbeiterSays DEF MitarbeiterMoves

(* What threadLastwagen1() says, instruction by instruction.               *)
LEMMA Lastwagen1Says ==
    LET p == Programs["Lastwagen1"]
    IN  /\ Len(p) = 10
        /\ p[1] = P_("g1_free")
        /\ p[2] = P_("rampe_betten")
        /\ p[3] = P_("rampe_access")
        /\ p[4] = Add("rbetten", -1)
        /\ p[5] = V_("rampe_access")
        /\ p[6] = V_("rampe_free")
        /\ p[7] = P_("g1_access")
        /\ p[8] = Add("g1betten", 1)
        /\ p[9] = V_("g1_access")
        /\ p[10] = V_("g1_full")
  BY DEF Programs, threadLastwagen1

(* Every step of the first truck is one of its moves.                      *)
LEMMA Lastwagen1Goes ==
    ASSUME FactoryTypes, F!Step("Lastwagen1")
    PROVE  Lastwagen1Moves
<1>1. Len(Programs["Lastwagen1"]) = 10
  BY Lastwagen1Says
<1>2. place["Lastwagen1"] \in 1 .. 10 /\ "Lastwagen1" \in FactoryThreads
  BY <1>1, FactoryParts DEF FactoryTypes
<1>3. \A i \in 1 .. 10 : F!Succ("Lastwagen1", i) = IF i = 10 THEN 1 ELSE i + 1
  BY <1>1 DEF F!Succ
<1> QED
  BY <1>2, <1>3, MoveDoes, Lastwagen1Says DEF Lastwagen1Moves

(* What threadLastwagen2() says, instruction by instruction.               *)
LEMMA Lastwagen2Says ==
    LET p == Programs["Lastwagen2"]
    IN  /\ Len(p) = 26
        /\ p[1] = P_("rampe_access")
        /\ p[2] = Switch_("rschraenke")
        /\ p[3] = V_("rampe_access")
        /\ p[4] = P_("g2s_free")
        /\ p[5] = P_("rampe_schraenke")
        /\ p[6] = P_("rampe_access")
        /\ p[7] = Add("rschraenke", -1)
        /\ p[8] = V_("rampe_access")
        /\ p[9] = V_("rampe_free")
        /\ p[10] = P_("g2_access")
        /\ p[11] = Add("g2schraenke", 1)
        /\ p[12] = V_("g2_access")
        /\ p[13] = V_("g2s_full")
        /\ p[14] = P_("rampe_access")
        /\ p[15] = Switch_("rbetten")
        /\ p[16] = V_("rampe_access")
        /\ p[17] = P_("g2b_free")
        /\ p[18] = P_("rampe_betten")
        /\ p[19] = P_("rampe_access")
        /\ p[20] = Add("rbetten", -1)
        /\ p[21] = V_("rampe_access")
        /\ p[22] = V_("rampe_free")
        /\ p[23] = P_("g2_access")
        /\ p[24] = Add("g2betten", 1)
        /\ p[25] = V_("g2_access")
        /\ p[26] = V_("g2b_full")
  BY DEF Programs, threadLastwagen2, Load

(* Every step of the second truck is one of its moves.                     *)
LEMMA Lastwagen2Goes ==
    ASSUME FactoryTypes, F!Step("Lastwagen2")
    PROVE  Lastwagen2Moves
<1>1. Len(Programs["Lastwagen2"]) = 26
  BY Lastwagen2Says
<1>2. place["Lastwagen2"] \in 1 .. 26 /\ "Lastwagen2" \in FactoryThreads
  BY <1>1, FactoryParts DEF FactoryTypes
<1>3. \A i \in 1 .. 26 : F!Succ("Lastwagen2", i) = IF i = 26 THEN 1 ELSE i + 1
  BY <1>1 DEF F!Succ
<1>4. \A i \in 1 .. 26 : F!OtherHalf("Lastwagen2", i) = IF i > 13 THEN i - 13 ELSE i + 13
  BY <1>1 DEF F!OtherHalf
<1> QED
  BY <1>2, <1>3, <1>4, MoveDoes, Lastwagen2Says DEF Lastwagen2Moves

(* What threadGeschaeft1() says, instruction by instruction.               *)
LEMMA Geschaeft1Says ==
    LET p == Programs["Geschaeft1"]
    IN  /\ Len(p) = 5
        /\ p[1] = P_("g1_full")
        /\ p[2] = P_("g1_access")
        /\ p[3] = Add("g1betten", -1)
        /\ p[4] = V_("g1_access")
        /\ p[5] = V_("g1_free")
  BY DEF Programs, threadGeschaeft1

(* Every step of the first shop is one of its moves.                       *)
LEMMA Geschaeft1Goes ==
    ASSUME FactoryTypes, F!Step("Geschaeft1")
    PROVE  Geschaeft1Moves
<1>1. Len(Programs["Geschaeft1"]) = 5
  BY Geschaeft1Says
<1>2. place["Geschaeft1"] \in 1 .. 5 /\ "Geschaeft1" \in FactoryThreads
  BY <1>1, FactoryParts DEF FactoryTypes
<1>3. \A i \in 1 .. 5 : F!Succ("Geschaeft1", i) = IF i = 5 THEN 1 ELSE i + 1
  BY <1>1 DEF F!Succ
<1> QED
  BY <1>2, <1>3, MoveDoes, Geschaeft1Says DEF Geschaeft1Moves

(* What threadGeschaeft2() says, instruction by instruction.               *)
LEMMA Geschaeft2Says ==
    LET p == Programs["Geschaeft2"]
    IN  /\ Len(p) = 16
        /\ p[1] = P_("g2_access")
        /\ p[2] = Switch_("g2betten")
        /\ p[3] = V_("g2_access")
        /\ p[4] = P_("g2b_full")
        /\ p[5] = P_("g2_access")
        /\ p[6] = Add("g2betten", -1)
        /\ p[7] = V_("g2_access")
        /\ p[8] = V_("g2b_free")
        /\ p[9] = P_("g2_access")
        /\ p[10] = Switch_("g2schraenke")
        /\ p[11] = V_("g2_access")
        /\ p[12] = P_("g2s_full")
        /\ p[13] = P_("g2_access")
        /\ p[14] = Add("g2schraenke", -1)
        /\ p[15] = V_("g2_access")
        /\ p[16] = V_("g2s_free")
  BY DEF Programs, threadGeschaeft2, Sell

(* Every step of the second shop is one of its moves.                      *)
LEMMA Geschaeft2Goes ==
    ASSUME FactoryTypes, F!Step("Geschaeft2")
    PROVE  Geschaeft2Moves
<1>1. Len(Programs["Geschaeft2"]) = 16
  BY Geschaeft2Says
<1>2. place["Geschaeft2"] \in 1 .. 16 /\ "Geschaeft2" \in FactoryThreads
  BY <1>1, FactoryParts DEF FactoryTypes
<1>3. \A i \in 1 .. 16 : F!Succ("Geschaeft2", i) = IF i = 16 THEN 1 ELSE i + 1
  BY <1>1 DEF F!Succ
<1>4. \A i \in 1 .. 16 : F!OtherHalf("Geschaeft2", i) = IF i > 8 THEN i - 8 ELSE i + 8
  BY <1>1 DEF F!OtherHalf
<1> QED
  BY <1>2, <1>3, <1>4, MoveDoes, Geschaeft2Says DEF Geschaeft2Moves

-----------------------------------------------------------------------------
(* Whether a thread is at one of these instructions.                       *)
At(t, S) == IF place[t] \in S THEN 1 ELSE 0

(* Every bed of the store is counted, was just made, or is about to be     *)
(* taken away.                                                             *)
StoredBeds ==
    stocks["betten"] = counts["lager_betten"] + At("Fabrik", 5 .. 7) + At("Mitarbeiter", 13 .. 14)

(* So is every cupboard.                                                   *)
StoredCupboards ==
    stocks["schraenke"] = counts["lager_schraenke"] + At("Fabrik", 6 .. 8) + At("Mitarbeiter", 3 .. 4)

(* All room of the store is free, taken up by a piece of furniture, or     *)
(* promised to the factory; a place that has just become free is not       *)
(* counted yet.                                                            *)
StoreRoom ==
    LagerFree = counts["lager_free"] + stocks["betten"] + stocks["schraenke"]
        + At("Fabrik", 2 .. 5) + At("Fabrik", 3 .. 4) + At("Mitarbeiter", {5, 6, 15, 16})

(* Beds and cupboards are made in pairs, and the worker takes them in      *)
(* turn, a cupboard first.                                                 *)
MadeInPairs ==
    stocks["betten"] - stocks["schraenke"] = At("Fabrik", {5}) + At("Mitarbeiter", 5 .. 14)

(* One thread at most is inside the store.                                 *)
StoreKey ==
    1 = counts["lager_access"] + At("Fabrik", 4 .. 6) + At("Mitarbeiter", {4, 5, 14, 15})

(* The balances of the store.                                              *)
Store == StoredBeds /\ StoredCupboards /\ StoreRoom /\ MadeInPairs /\ StoreKey

(* Every bed on the ramp is counted, was just brought, or is about to be   *)
(* taken away.                                                             *)
RampBeds ==
    stocks["rbetten"] = counts["rampe_betten"]
        + At("Mitarbeiter", 19 .. 20) + At("Lastwagen1", 3 .. 4) + At("Lastwagen2", 19 .. 20)

(* So is every cupboard.                                                   *)
RampCupboards ==
    stocks["rschraenke"] = counts["rampe_schraenke"] + At("Mitarbeiter", 9 .. 10) + At("Lastwagen2", 6 .. 7)

(* All room of the ramp is free, taken up, or promised to the worker, who  *)
(* looks for room before he goes to the store.                             *)
RampRoom ==
    RampeFree = counts["rampe_free"] + stocks["rbetten"] + stocks["rschraenke"]
        + At("Mitarbeiter", 2 .. 8) + At("Mitarbeiter", 12 .. 18)
        + At("Lastwagen1", 5 .. 6) + At("Lastwagen2", {8, 9, 21, 22})

(* One thread at most is on the ramp.                                      *)
RampKey ==
    1 = counts["rampe_access"] + At("Mitarbeiter", {8, 9, 18, 19}) + At("Lastwagen1", 4 .. 5)
        + At("Lastwagen2", {2, 3, 7, 8, 15, 16, 20, 21})

(* The balances of the ramp.                                               *)
Ramp == RampBeds /\ RampCupboards /\ RampRoom /\ RampKey

(* Every bed of the first shop is counted, was just brought, or is about   *)
(* to be sold.                                                             *)
Shop1Beds ==
    stocks["g1betten"] = counts["g1_full"] + At("Lastwagen1", 9 .. 10) + At("Geschaeft1", 2 .. 3)

(* All room of the first shop is free, taken up, or promised to the first  *)
(* truck.                                                                  *)
Shop1Room ==
    G1Free = counts["g1_free"] + stocks["g1betten"] + At("Lastwagen1", 2 .. 8) + At("Geschaeft1", 4 .. 5)

(* One thread at most is in the first shop.                                *)
Shop1Key ==
    1 = counts["g1_access"] + At("Lastwagen1", 8 .. 9) + At("Geschaeft1", 3 .. 4)

(* The balances of the first shop.                                         *)
Shop1 == Shop1Beds /\ Shop1Room /\ Shop1Key

(* Every cupboard of the second shop is counted, was just brought, or is   *)
(* about to be sold.                                                       *)
Shop2Cupboards ==
    stocks["g2schraenke"] = counts["g2s_full"] + At("Lastwagen2", 12 .. 13) + At("Geschaeft2", 13 .. 14)

(* All room for cupboards is free, taken up, or promised to the second     *)
(* truck.                                                                  *)
CupboardRoom ==
    G2sFree = counts["g2s_free"] + stocks["g2schraenke"] + At("Lastwagen2", 5 .. 11) + At("Geschaeft2", 15 .. 16)

(* So is every bed.                                                        *)
Shop2Beds ==
    stocks["g2betten"] = counts["g2b_full"] + At("Lastwagen2", 25 .. 26) + At("Geschaeft2", 5 .. 6)

(* So is all room for beds.                                                *)
BedRoom ==
    G2bFree = counts["g2b_free"] + stocks["g2betten"] + At("Lastwagen2", 18 .. 24) + At("Geschaeft2", 7 .. 8)

(* One thread at most is in the second shop.                               *)
Shop2Key ==
    1 = counts["g2_access"] + At("Lastwagen2", {11, 12, 24, 25})
        + At("Geschaeft2", {2, 3, 6, 7, 10, 11, 14, 15})

(* The balances of the second shop.                                        *)
Shop2 == Shop2Cupboards /\ CupboardRoom /\ Shop2Beds /\ BedRoom /\ Shop2Key

(* The counts and stocks of the store change by so much.                   *)
StoreBy(n1, n2, n3, n4, n5, n6) ==
    /\ counts'["lager_free"] = counts["lager_free"] + n1
    /\ counts'["lager_access"] = counts["lager_access"] + n2
    /\ counts'["lager_betten"] = counts["lager_betten"] + n3
    /\ counts'["lager_schraenke"] = counts["lager_schraenke"] + n4
    /\ stocks'["betten"] = stocks["betten"] + n5
    /\ stocks'["schraenke"] = stocks["schraenke"] + n6

(* The types of these counts and stocks.                                   *)
StoreTypes ==
    /\ {counts["lager_free"], counts["lager_access"],
        counts["lager_betten"], counts["lager_schraenke"]} \subseteq Nat
    /\ {stocks["betten"], stocks["schraenke"]} \subseteq Int

(* What each kind of move does to the counts and stocks of the store.      *)
LEMMA StoreChanges ==
    ASSUME FactoryTypes
    PROVE  /\ StoreTypes
           /\ Takes("lager_free") => StoreBy(-1, 0, 0, 0, 0, 0)
           /\ Gives("lager_free") => StoreBy(1, 0, 0, 0, 0, 0)
           /\ Takes("lager_access") => StoreBy(0, -1, 0, 0, 0, 0)
           /\ Gives("lager_access") => StoreBy(0, 1, 0, 0, 0, 0)
           /\ Takes("lager_betten") => StoreBy(0, 0, -1, 0, 0, 0)
           /\ Gives("lager_betten") => StoreBy(0, 0, 1, 0, 0, 0)
           /\ Takes("lager_schraenke") => StoreBy(0, 0, 0, -1, 0, 0)
           /\ Gives("lager_schraenke") => StoreBy(0, 0, 0, 1, 0, 0)
           /\ \A n \in Int : Adds("betten", n) => StoreBy(0, 0, 0, 0, n, 0)
           /\ \A n \in Int : Adds("schraenke", n) => StoreBy(0, 0, 0, 0, 0, n)
           /\ \A s \in FactorySems \ {"lager_free", "lager_access", "lager_betten", "lager_schraenke"} :
                  Takes(s) \/ Gives(s) => StoreBy(0, 0, 0, 0, 0, 0)
           /\ \A x \in FactoryStocks \ {"betten", "schraenke"}, n \in Int :
                  Adds(x, n) => StoreBy(0, 0, 0, 0, 0, 0)
           /\ Looks => StoreBy(0, 0, 0, 0, 0, 0)
<1>1. \A s \in FactorySems : counts[s] \in Nat
  BY DEF FactoryTypes
<1>2. \A x \in FactoryStocks : stocks[x] \in Int
  BY DEF FactoryTypes
<1>3. {"lager_free", "lager_access", "lager_betten", "lager_schraenke"} \subseteq FactorySems
  BY FactoryParts
<1>4. {"betten", "schraenke"} \subseteq FactoryStocks
  BY DEF FactoryStocks
<1>5. /\ Takes("lager_free") => StoreBy(-1, 0, 0, 0, 0, 0)
      /\ Gives("lager_free") => StoreBy(1, 0, 0, 0, 0, 0)
      /\ Takes("lager_access") => StoreBy(0, -1, 0, 0, 0, 0)
      /\ Gives("lager_access") => StoreBy(0, 1, 0, 0, 0, 0)
      /\ Takes("lager_betten") => StoreBy(0, 0, -1, 0, 0, 0)
      /\ Gives("lager_betten") => StoreBy(0, 0, 1, 0, 0, 0)
      /\ Takes("lager_schraenke") => StoreBy(0, 0, 0, -1, 0, 0)
      /\ Gives("lager_schraenke") => StoreBy(0, 0, 0, 1, 0, 0)
  BY <1>1, <1>2, <1>3, <1>4 DEF StoreBy, Takes, Gives, Adds, Looks, FactoryTypes
<1>6. /\ \A n \in Int : Adds("betten", n) => StoreBy(0, 0, 0, 0, n, 0)
      /\ \A n \in Int : Adds("schraenke", n) => StoreBy(0, 0, 0, 0, 0, n)
  BY <1>1, <1>2, <1>3, <1>4 DEF StoreBy, Takes, Gives, Adds, Looks, FactoryTypes
<1>7. /\ \A s \in FactorySems \ {"lager_free", "lager_access", "lager_betten", "lager_schraenke"} :
          Takes(s) \/ Gives(s) => StoreBy(0, 0, 0, 0, 0, 0)
      /\ \A x \in FactoryStocks \ {"betten", "schraenke"}, n \in Int :
          Adds(x, n) => StoreBy(0, 0, 0, 0, 0, 0)
      /\ Looks => StoreBy(0, 0, 0, 0, 0, 0)
  BY <1>1, <1>2, <1>3, <1>4 DEF StoreBy, Takes, Gives, Adds, Looks, FactoryTypes
<1> QED
  BY <1>1, <1>2, <1>3, <1>4, <1>5, <1>6, <1>7 DEF StoreTypes

(* The counts and stocks of the ramp change by so much.                    *)
RampBy(n1, n2, n3, n4, n5, n6) ==
    /\ counts'["rampe_free"] = counts["rampe_free"] + n1
    /\ counts'["rampe_access"] = counts["rampe_access"] + n2
    /\ counts'["rampe_betten"] = counts["rampe_betten"] + n3
    /\ counts'["rampe_schraenke"] = counts["rampe_schraenke"] + n4
    /\ stocks'["rbetten"] = stocks["rbetten"] + n5
    /\ stocks'["rschraenke"] = stocks["rschraenke"] + n6

(* The types of these counts and stocks.                                   *)
RampTypes ==
    /\ {counts["rampe_free"], counts["rampe_access"],
        counts["rampe_betten"], counts["rampe_schraenke"]} \subseteq Nat
    /\ {stocks["rbetten"], stocks["rschraenke"]} \subseteq Int

(* What each kind of move does to the counts and stocks of the ramp.       *)
LEMMA RampChanges ==
    ASSUME FactoryTypes
    PROVE  /\ RampTypes
           /\ Takes("rampe_free") => RampBy(-1, 0, 0, 0, 0, 0)
           /\ Gives("rampe_free") => RampBy(1, 0, 0, 0, 0, 0)
           /\ Takes("rampe_access") => RampBy(0, -1, 0, 0, 0, 0)
           /\ Gives("rampe_access") => RampBy(0, 1, 0, 0, 0, 0)
           /\ Takes("rampe_betten") => RampBy(0, 0, -1, 0, 0, 0)
           /\ Gives("rampe_betten") => RampBy(0, 0, 1, 0, 0, 0)
           /\ Takes("rampe_schraenke") => RampBy(0, 0, 0, -1, 0, 0)
           /\ Gives("rampe_schraenke") => RampBy(0, 0, 0, 1, 0, 0)
           /\ \A n \in Int : Adds("rbetten", n) => RampBy(0, 0, 0, 0, n, 0)
           /\ \A n \in Int : Adds("rschraenke", n) => RampBy(0, 0, 0, 0, 0, n)
           /\ \A s \in FactorySems \ {"rampe_free", "rampe_access", "rampe_betten", "rampe_schraenke"} :
                  Takes(s) \/ Gives(s) => RampBy(0, 0, 0, 0, 0, 0)
           /\ \A x \in FactoryStocks \ {"rbetten", "rschraenke"}, n \in Int :
                  Adds(x, n) => RampBy(0, 0, 0, 0, 0, 0)
           /\ Looks => RampBy(0, 0, 0, 0, 0, 0)
<1>1. \A s \in FactorySems : counts[s] \in Nat
  BY DEF FactoryTypes
<1>2. \A x \in FactoryStocks : stocks[x] \in Int
  BY DEF FactoryTypes
<1>3. {"rampe_free", "rampe_access", "rampe_betten", "rampe_schraenke"} \subseteq FactorySems
  BY FactoryParts
<1>4. {"rbetten", "rschraenke"} \subseteq FactoryStocks
  BY DEF FactoryStocks
<1>5. /\ Takes("rampe_free") => RampBy(-1, 0, 0, 0, 0, 0)
      /\ Gives("rampe_free") => RampBy(1, 0, 0, 0, 0, 0)
      /\ Takes("rampe_access") => RampBy(0, -1, 0, 0, 0, 0)
      /\ Gives("rampe_access") => RampBy(0, 1, 0, 0, 0, 0)
      /\ Takes("rampe_betten") => RampBy(0, 0, -1, 0, 0, 0)
      /\ Gives("rampe_betten") => RampBy(0, 0, 1, 0, 0, 0)
      /\ Takes("rampe_schraenke") => RampBy(0, 0, 0, -1, 0, 0)
      /\ Gives("rampe_schraenke") => RampBy(0, 0, 0, 1, 0, 0)
  BY <1>1, <1>2, <1>3, <1>4 DEF RampBy, Takes, Gives, Adds, Looks, FactoryTypes
<1>6. /\ \A n \in Int : Adds("rbetten", n) => RampBy(0, 0, 0, 0, n, 0)
      /\ \A n \in Int : Adds("rschraenke", n) => RampBy(0, 0, 0, 0, 0, n)
  BY <1>1, <1>2, <1>3, <1>4 DEF RampBy, Takes, Gives, Adds, Looks, FactoryTypes
<1>7. /\ \A s \in FactorySems \ {"rampe_free", "rampe_access", "rampe_betten", "rampe_schraenke"} :
          Takes(s) \/ Gives(s) => RampBy(0, 0, 0, 0, 0, 0)
      /\ \A x \in FactoryStocks \ {"rbetten", "rschraenke"}, n \in Int :
          Adds(x, n) => RampBy(0, 0, 0, 0, 0, 0)
      /\ Looks => RampBy(0, 0, 0, 0, 0, 0)
  BY <1>1, <1>2, <1>3, <1>4 DEF RampBy, Takes, Gives, Adds, Looks, FactoryTypes
<1> QED
  BY <1>1, <1>2, <1>3, <1>4, <1>5, <1>6, <1>7 DEF RampTypes

(* The counts and stocks of the first shop change by so much.              *)
Shop1By(n1, n2, n3, n4) ==
    /\ counts'["g1_free"] = counts["g1_free"] + n1
    /\ counts'["g1_access"] = counts["g1_access"] + n2
    /\ counts'["g1_full"] = counts["g1_full"] + n3
    /\ stocks'["g1betten"] = stocks["g1betten"] + n4

(* The types of these counts and stocks.                                   *)
Shop1Types ==
    /\ {counts["g1_free"], counts["g1_access"], counts["g1_full"]} \subseteq Nat
    /\ {stocks["g1betten"]} \subseteq Int

(* What each kind of move does to the counts and stocks of the first       *)
(* shop.                                                                   *)
LEMMA Shop1Changes ==
    ASSUME FactoryTypes
    PROVE  /\ Shop1Types
           /\ Takes("g1_free") => Shop1By(-1, 0, 0, 0)
           /\ Gives("g1_free") => Shop1By(1, 0, 0, 0)
           /\ Takes("g1_access") => Shop1By(0, -1, 0, 0)
           /\ Gives("g1_access") => Shop1By(0, 1, 0, 0)
           /\ Takes("g1_full") => Shop1By(0, 0, -1, 0)
           /\ Gives("g1_full") => Shop1By(0, 0, 1, 0)
           /\ \A n \in Int : Adds("g1betten", n) => Shop1By(0, 0, 0, n)
           /\ \A s \in FactorySems \ {"g1_free", "g1_access", "g1_full"} :
                  Takes(s) \/ Gives(s) => Shop1By(0, 0, 0, 0)
           /\ \A x \in FactoryStocks \ {"g1betten"}, n \in Int :
                  Adds(x, n) => Shop1By(0, 0, 0, 0)
           /\ Looks => Shop1By(0, 0, 0, 0)
<1>1. \A s \in FactorySems : counts[s] \in Nat
  BY DEF FactoryTypes
<1>2. \A x \in FactoryStocks : stocks[x] \in Int
  BY DEF FactoryTypes
<1>3. {"g1_free", "g1_access", "g1_full"} \subseteq FactorySems
  BY FactoryParts
<1>4. {"g1betten"} \subseteq FactoryStocks
  BY DEF FactoryStocks
<1>5. /\ Takes("g1_free") => Shop1By(-1, 0, 0, 0)
      /\ Gives("g1_free") => Shop1By(1, 0, 0, 0)
      /\ Takes("g1_access") => Shop1By(0, -1, 0, 0)
      /\ Gives("g1_access") => Shop1By(0, 1, 0, 0)
      /\ Takes("g1_full") => Shop1By(0, 0, -1, 0)
      /\ Gives("g1_full") => Shop1By(0, 0, 1, 0)
  BY <1>1, <1>2, <1>3, <1>4 DEF Shop1By, Takes, Gives, Adds, Looks, FactoryTypes
<1>6. /\ \A n \in Int : Adds("g1betten", n) => Shop1By(0, 0, 0, n)
  BY <1>1, <1>2, <1>3, <1>4 DEF Shop1By, Takes, Gives, Adds, Looks, FactoryTypes
<1>7. /\ \A s \in FactorySems \ {"g1_free", "g1_access", "g1_full"} :
          Takes(s) \/ Gives(s) => Shop1By(0, 0, 0, 0)
      /\ \A x \in FactoryStocks \ {"g1betten"}, n \in Int :
          Adds(x, n) => Shop1By(0, 0, 0, 0)
      /\ Looks => Shop1By(0, 0, 0, 0)
  BY <1>1, <1>2, <1>3, <1>4 DEF Shop1By, Takes, Gives, Adds, Looks, FactoryTypes
<1> QED
  BY <1>1, <1>2, <1>3, <1>4, <1>5, <1>6, <1>7 DEF Shop1Types

(* The counts and stocks of the second shop change by so much.             *)
Shop2By(n1, n2, n3, n4, n5, n6, n7) ==
    /\ counts'["g2_access"] = counts["g2_access"] + n1
    /\ counts'["g2b_free"] = counts["g2b_free"] + n2
    /\ counts'["g2b_full"] = counts["g2b_full"] + n3
    /\ counts'["g2s_free"] = counts["g2s_free"] + n4
    /\ counts'["g2s_full"] = counts["g2s_full"] + n5
    /\ stocks'["g2betten"] = stocks["g2betten"] + n6
    /\ stocks'["g2schraenke"] = stocks["g2schraenke"] + n7

(* The types of these counts and stocks.                                   *)
Shop2Types ==
    /\ {counts["g2_access"], counts["g2b_free"], counts["g2b_full"],
        counts["g2s_free"], counts["g2s_full"]} \subseteq Nat
    /\ {stocks["g2betten"], stocks["g2schraenke"]} \subseteq Int

(* What each kind of move does to the counts and stocks of the second      *)
(* shop.                                                                   *)
LEMMA Shop2Changes ==
    ASSUME FactoryTypes
    PROVE  /\ Shop2Types
           /\ Takes("g2_access") => Shop2By(-1, 0, 0, 0, 0, 0, 0)
           /\ Gives("g2_access") => Shop2By(1, 0, 0, 0, 0, 0, 0)
           /\ Takes("g2b_free") => Shop2By(0, -1, 0, 0, 0, 0, 0)
           /\ Gives("g2b_free") => Shop2By(0, 1, 0, 0, 0, 0, 0)
           /\ Takes("g2b_full") => Shop2By(0, 0, -1, 0, 0, 0, 0)
           /\ Gives("g2b_full") => Shop2By(0, 0, 1, 0, 0, 0, 0)
           /\ Takes("g2s_free") => Shop2By(0, 0, 0, -1, 0, 0, 0)
           /\ Gives("g2s_free") => Shop2By(0, 0, 0, 1, 0, 0, 0)
           /\ Takes("g2s_full") => Shop2By(0, 0, 0, 0, -1, 0, 0)
           /\ Gives("g2s_full") => Shop2By(0, 0, 0, 0, 1, 0, 0)
           /\ \A n \in Int : Adds("g2betten", n) => Shop2By(0, 0, 0, 0, 0, n, 0)
           /\ \A n \in Int : Adds("g2schraenke", n) => Shop2By(0, 0, 0, 0, 0, 0, n)
           /\ \A s \in FactorySems \ {"g2_access", "g2b_free", "g2b_full", "g2s_free", "g2s_full"} :
                  Takes(s) \/ Gives(s) => Shop2By(0, 0, 0, 0, 0, 0, 0)
           /\ \A x \in FactoryStocks \ {"g2betten", "g2schraenke"}, n \in Int :
                  Adds(x, n) => Shop2By(0, 0, 0, 0, 0, 0, 0)
           /\ Looks => Shop2By(0, 0, 0, 0, 0, 0, 0)
<1>1. \A s \in FactorySems : counts[s] \in Nat
  BY DEF FactoryTypes
<1>2. \A x \in FactoryStocks : stocks[x] \in Int
  BY DEF FactoryTypes
<1>3. {"g2_access", "g2b_free", "g2b_full", "g2s_free", "g2s_full"} \subseteq FactorySems
  BY FactoryParts
<1>4. {"g2betten", "g2schraenke"} \subseteq FactoryStocks
  BY DEF FactoryStocks
<1>5. /\ Takes("g2_access") => Shop2By(-1, 0, 0, 0, 0, 0, 0)
      /\ Gives("g2_access") => Shop2By(1, 0, 0, 0, 0, 0, 0)
      /\ Takes("g2b_free") => Shop2By(0, -1, 0, 0, 0, 0, 0)
      /\ Gives("g2b_free") => Shop2By(0, 1, 0, 0, 0, 0, 0)
      /\ Takes("g2b_full") => Shop2By(0, 0, -1, 0, 0, 0, 0)
      /\ Gives("g2b_full") => Shop2By(0, 0, 1, 0, 0, 0, 0)
      /\ Takes("g2s_free") => Shop2By(0, 0, 0, -1, 0, 0, 0)
      /\ Gives("g2s_free") => Shop2By(0, 0, 0, 1, 0, 0, 0)
      /\ Takes("g2s_full") => Shop2By(0, 0, 0, 0, -1, 0, 0)
      /\ Gives("g2s_full") => Shop2By(0, 0, 0, 0, 1, 0, 0)
  BY <1>1, <1>2, <1>3, <1>4 DEF Shop2By, Takes, Gives, Adds, Looks, FactoryTypes
<1>6. /\ \A n \in Int : Adds("g2betten", n) => Shop2By(0, 0, 0, 0, 0, n, 0)
      /\ \A n \in Int : Adds("g2schraenke", n) => Shop2By(0, 0, 0, 0, 0, 0, n)
  BY <1>1, <1>2, <1>3, <1>4 DEF Shop2By, Takes, Gives, Adds, Looks, FactoryTypes
<1>7. /\ \A s \in FactorySems \ {"g2_access", "g2b_free", "g2b_full", "g2s_free", "g2s_full"} :
          Takes(s) \/ Gives(s) => Shop2By(0, 0, 0, 0, 0, 0, 0)
      /\ \A x \in FactoryStocks \ {"g2betten", "g2schraenke"}, n \in Int :
          Adds(x, n) => Shop2By(0, 0, 0, 0, 0, 0, 0)
      /\ Looks => Shop2By(0, 0, 0, 0, 0, 0, 0)
  BY <1>1, <1>2, <1>3, <1>4 DEF Shop2By, Takes, Gives, Adds, Looks, FactoryTypes
<1> QED
  BY <1>1, <1>2, <1>3, <1>4, <1>5, <1>6, <1>7 DEF Shop2Types

(* The other threads stay where they are.                                  *)
LEMMA OthersStay ==
    ASSUME FactoryTypes, NEW t \in FactoryThreads, NEW i, NEW j, Goes(t, i, j)
    PROVE  place[t] = i /\ place'[t] = j /\ \A u \in FactoryThreads \ {t} : place'[u] = place[u]
  BY DEF FactoryTypes, Goes

(* A move of the factory keeps the balances of the store.                  *)
LEMMA FabrikKeepsStore ==
    ASSUME FactoryTypes, FabrikMoves, Store
    PROVE  Store'
<1>1. \A i, j : Goes("Fabrik", i, j) => place["Fabrik"] = i /\ place'["Fabrik"] = j
  BY FactoryParts, OthersStay
<1>2. place'["Mitarbeiter"] = place["Mitarbeiter"]
  BY FactoryParts, OthersStay DEF FabrikMoves
<1>3. {place["Fabrik"], place["Mitarbeiter"]} \subseteq Nat
  BY FactoryParts DEF FactoryTypes
<1>4. StoredBeds'
  BY <1>1, <1>2, <1>3, StoreChanges, FactoryParts, SMTT(60) DEF FabrikMoves, Store, StoredBeds, StoreBy,
     StoreTypes, At, FactoryStocks
<1>5. StoredCupboards'
  BY <1>1, <1>2, <1>3, StoreChanges, FactoryParts, SMTT(60) DEF FabrikMoves, Store, StoredCupboards,
     StoreBy, StoreTypes, At, FactoryStocks
<1>6. StoreRoom'
  BY <1>1, <1>2, <1>3, StoreChanges, FactoryParts, SMTT(60) DEF FabrikMoves, Store, StoreRoom, StoreBy,
     StoreTypes, At, FactoryStocks
<1>7. MadeInPairs'
  BY <1>1, <1>2, <1>3, StoreChanges, FactoryParts, SMTT(60) DEF FabrikMoves, Store, MadeInPairs, StoreBy,
     StoreTypes, At, FactoryStocks
<1>8. StoreKey'
  BY <1>1, <1>2, <1>3, StoreChanges, FactoryParts, SMTT(60) DEF FabrikMoves, Store, StoreKey, StoreBy,
     StoreTypes, At, FactoryStocks
<1> QED
  BY <1>4, <1>5, <1>6, <1>7, <1>8 DEF Store

(* A move of the worker keeps the balances of the store.                   *)
LEMMA MitarbeiterKeepsStore ==
    ASSUME FactoryTypes, MitarbeiterMoves, Store
    PROVE  Store'
<1>1. \A i, j : Goes("Mitarbeiter", i, j) => place["Mitarbeiter"] = i /\ place'["Mitarbeiter"] = j
  BY FactoryParts, OthersStay
<1>2. place'["Fabrik"] = place["Fabrik"]
  BY FactoryParts, OthersStay DEF MitarbeiterMoves
<1>3. {place["Fabrik"], place["Mitarbeiter"]} \subseteq Nat
  BY FactoryParts DEF FactoryTypes
<1>4. StoredBeds'
  BY <1>1, <1>2, <1>3, StoreChanges, FactoryParts, SMTT(60) DEF MitarbeiterMoves, Store, StoredBeds,
     StoreBy, StoreTypes, At, FactoryStocks
<1>5. StoredCupboards'
  BY <1>1, <1>2, <1>3, StoreChanges, FactoryParts, SMTT(60) DEF MitarbeiterMoves, Store, StoredCupboards,
     StoreBy, StoreTypes, At, FactoryStocks
<1>6. StoreRoom'
  BY <1>1, <1>2, <1>3, StoreChanges, FactoryParts, SMTT(60) DEF MitarbeiterMoves, Store, StoreRoom, StoreBy,
     StoreTypes, At, FactoryStocks
<1>7. MadeInPairs'
  <2>1. /\ stocks'["betten"] - stocks'["schraenke"] \in Int
        /\ \/ /\ place["Mitarbeiter"] \notin 5 .. 14 /\ place'["Mitarbeiter"] \in 5 .. 14
              /\ stocks'["betten"] - stocks'["schraenke"] = stocks["betten"] - stocks["schraenke"] + 1
           \/ /\ place["Mitarbeiter"] \in 5 .. 14 /\ place'["Mitarbeiter"] \notin 5 .. 14
              /\ stocks'["betten"] - stocks'["schraenke"] = stocks["betten"] - stocks["schraenke"] - 1
           \/ /\ place["Mitarbeiter"] \in 5 .. 14 <=> place'["Mitarbeiter"] \in 5 .. 14
              /\ stocks'["betten"] - stocks'["schraenke"] = stocks["betten"] - stocks["schraenke"]
    BY <1>1, <1>3, StoreChanges, FactoryParts, SMTT(60) DEF MitarbeiterMoves, StoreBy, StoreTypes, FactoryStocks
  <2> QED
    BY <1>2, <1>3, <2>1, StoreChanges DEF Store, MadeInPairs, StoreTypes, At
<1>8. StoreKey'
  BY <1>1, <1>2, <1>3, StoreChanges, FactoryParts, SMTT(60) DEF MitarbeiterMoves, Store, StoreKey, StoreBy,
     StoreTypes, At, FactoryStocks
<1> QED
  BY <1>4, <1>5, <1>6, <1>7, <1>8 DEF Store

(* A move of the worker keeps the balances of the ramp.                    *)
LEMMA MitarbeiterKeepsRamp ==
    ASSUME FactoryTypes, MitarbeiterMoves, Ramp
    PROVE  Ramp'
<1>1. \A i, j : Goes("Mitarbeiter", i, j) => place["Mitarbeiter"] = i /\ place'["Mitarbeiter"] = j
  BY FactoryParts, OthersStay
<1>2. place'["Lastwagen1"] = place["Lastwagen1"] /\ place'["Lastwagen2"] = place["Lastwagen2"]
  BY FactoryParts, OthersStay DEF MitarbeiterMoves
<1>3. {place["Mitarbeiter"], place["Lastwagen1"], place["Lastwagen2"]} \subseteq Nat
  BY FactoryParts DEF FactoryTypes
<1>4. RampBeds'
  BY <1>1, <1>2, <1>3, RampChanges, FactoryParts, SMTT(60) DEF MitarbeiterMoves, Ramp, RampBeds, RampBy,
     RampTypes, At, FactoryStocks
<1>5. RampCupboards'
  BY <1>1, <1>2, <1>3, RampChanges, FactoryParts, SMTT(60) DEF MitarbeiterMoves, Ramp, RampCupboards,
     RampBy, RampTypes, At, FactoryStocks
<1>6. RampRoom'
  BY <1>1, <1>2, <1>3, RampChanges, FactoryParts, SMTT(60) DEF MitarbeiterMoves, Ramp, RampRoom, RampBy,
     RampTypes, At, FactoryStocks
<1>7. RampKey'
  BY <1>1, <1>2, <1>3, RampChanges, FactoryParts, SMTT(60) DEF MitarbeiterMoves, Ramp, RampKey, RampBy,
     RampTypes, At, FactoryStocks
<1> QED
  BY <1>4, <1>5, <1>6, <1>7 DEF Ramp

(* A move of the first truck keeps the balances of the ramp.               *)
LEMMA Lastwagen1KeepsRamp ==
    ASSUME FactoryTypes, Lastwagen1Moves, Ramp
    PROVE  Ramp'
<1>1. \A i, j : Goes("Lastwagen1", i, j) => place["Lastwagen1"] = i /\ place'["Lastwagen1"] = j
  BY FactoryParts, OthersStay
<1>2. place'["Mitarbeiter"] = place["Mitarbeiter"] /\ place'["Lastwagen2"] = place["Lastwagen2"]
  BY FactoryParts, OthersStay DEF Lastwagen1Moves
<1>3. {place["Mitarbeiter"], place["Lastwagen1"], place["Lastwagen2"]} \subseteq Nat
  BY FactoryParts DEF FactoryTypes
<1>4. RampBeds'
  BY <1>1, <1>2, <1>3, RampChanges, FactoryParts, SMTT(60) DEF Lastwagen1Moves, Ramp, RampBeds, RampBy,
     RampTypes, At, FactoryStocks
<1>5. RampCupboards'
  BY <1>1, <1>2, <1>3, RampChanges, FactoryParts, SMTT(60) DEF Lastwagen1Moves, Ramp, RampCupboards, RampBy,
     RampTypes, At, FactoryStocks
<1>6. RampRoom'
  BY <1>1, <1>2, <1>3, RampChanges, FactoryParts, SMTT(60) DEF Lastwagen1Moves, Ramp, RampRoom, RampBy,
     RampTypes, At, FactoryStocks
<1>7. RampKey'
  BY <1>1, <1>2, <1>3, RampChanges, FactoryParts, SMTT(60) DEF Lastwagen1Moves, Ramp, RampKey, RampBy,
     RampTypes, At, FactoryStocks
<1> QED
  BY <1>4, <1>5, <1>6, <1>7 DEF Ramp

(* A move of the second truck keeps the balances of the ramp.              *)
LEMMA Lastwagen2KeepsRamp ==
    ASSUME FactoryTypes, Lastwagen2Moves, Ramp
    PROVE  Ramp'
<1>1. \A i, j : Goes("Lastwagen2", i, j) => place["Lastwagen2"] = i /\ place'["Lastwagen2"] = j
  BY FactoryParts, OthersStay
<1>2. place'["Mitarbeiter"] = place["Mitarbeiter"] /\ place'["Lastwagen1"] = place["Lastwagen1"]
  BY FactoryParts, OthersStay DEF Lastwagen2Moves
<1>3. {place["Mitarbeiter"], place["Lastwagen1"], place["Lastwagen2"]} \subseteq Nat
  BY FactoryParts DEF FactoryTypes
<1>4. RampBeds'
  BY <1>1, <1>2, <1>3, RampChanges, FactoryParts, SMTT(60) DEF Lastwagen2Moves, Ramp, RampBeds, RampBy,
     RampTypes, At, FactoryStocks
<1>5. RampCupboards'
  BY <1>1, <1>2, <1>3, RampChanges, FactoryParts, SMTT(60) DEF Lastwagen2Moves, Ramp, RampCupboards, RampBy,
     RampTypes, At, FactoryStocks
<1>6. RampRoom'
  BY <1>1, <1>2, <1>3, RampChanges, FactoryParts, SMTT(60) DEF Lastwagen2Moves, Ramp, RampRoom, RampBy,
     RampTypes, At, FactoryStocks
<1>7. RampKey'
  BY <1>1, <1>2, <1>3, RampChanges, FactoryParts, SMTT(60) DEF Lastwagen2Moves, Ramp, RampKey, RampBy,
     RampTypes, At, FactoryStocks
<1> QED
  BY <1>4, <1>5, <1>6, <1>7 DEF Ramp

(* A move of the first truck keeps the balances of the first shop.         *)
LEMMA Lastwagen1KeepsShop1 ==
    ASSUME FactoryTypes, Lastwagen1Moves, Shop1
    PROVE  Shop1'
<1>1. \A i, j : Goes("Lastwagen1", i, j) => place["Lastwagen1"] = i /\ place'["Lastwagen1"] = j
  BY FactoryParts, OthersStay
<1>2. place'["Geschaeft1"] = place["Geschaeft1"]
  BY FactoryParts, OthersStay DEF Lastwagen1Moves
<1>3. {place["Lastwagen1"], place["Geschaeft1"]} \subseteq Nat
  BY FactoryParts DEF FactoryTypes
<1>4. Shop1Beds'
  BY <1>1, <1>2, <1>3, Shop1Changes, FactoryParts, SMTT(60) DEF Lastwagen1Moves, Shop1, Shop1Beds, Shop1By,
     Shop1Types, At, FactoryStocks
<1>5. Shop1Room'
  BY <1>1, <1>2, <1>3, Shop1Changes, FactoryParts, SMTT(60) DEF Lastwagen1Moves, Shop1, Shop1Room, Shop1By,
     Shop1Types, At, FactoryStocks
<1>6. Shop1Key'
  BY <1>1, <1>2, <1>3, Shop1Changes, FactoryParts, SMTT(60) DEF Lastwagen1Moves, Shop1, Shop1Key, Shop1By,
     Shop1Types, At, FactoryStocks
<1> QED
  BY <1>4, <1>5, <1>6 DEF Shop1

(* A move of the first shop keeps the balances of the first shop.          *)
LEMMA Geschaeft1KeepsShop1 ==
    ASSUME FactoryTypes, Geschaeft1Moves, Shop1
    PROVE  Shop1'
<1>1. \A i, j : Goes("Geschaeft1", i, j) => place["Geschaeft1"] = i /\ place'["Geschaeft1"] = j
  BY FactoryParts, OthersStay
<1>2. place'["Lastwagen1"] = place["Lastwagen1"]
  BY FactoryParts, OthersStay DEF Geschaeft1Moves
<1>3. {place["Lastwagen1"], place["Geschaeft1"]} \subseteq Nat
  BY FactoryParts DEF FactoryTypes
<1>4. Shop1Beds'
  BY <1>1, <1>2, <1>3, Shop1Changes, FactoryParts, SMTT(60) DEF Geschaeft1Moves, Shop1, Shop1Beds, Shop1By,
     Shop1Types, At, FactoryStocks
<1>5. Shop1Room'
  BY <1>1, <1>2, <1>3, Shop1Changes, FactoryParts, SMTT(60) DEF Geschaeft1Moves, Shop1, Shop1Room, Shop1By,
     Shop1Types, At, FactoryStocks
<1>6. Shop1Key'
  BY <1>1, <1>2, <1>3, Shop1Changes, FactoryParts, SMTT(60) DEF Geschaeft1Moves, Shop1, Shop1Key, Shop1By,
     Shop1Types, At, FactoryStocks
<1> QED
  BY <1>4, <1>5, <1>6 DEF Shop1

(* A move of the second truck keeps the balances of the second shop.       *)
LEMMA Lastwagen2KeepsShop2 ==
    ASSUME FactoryTypes, Lastwagen2Moves, Shop2
    PROVE  Shop2'
<1>1. \A i, j : Goes("Lastwagen2", i, j) => place["Lastwagen2"] = i /\ place'["Lastwagen2"] = j
  BY FactoryParts, OthersStay
<1>2. place'["Geschaeft2"] = place["Geschaeft2"]
  BY FactoryParts, OthersStay DEF Lastwagen2Moves
<1>3. {place["Lastwagen2"], place["Geschaeft2"]} \subseteq Nat
  BY FactoryParts DEF FactoryTypes
<1>4. Shop2Cupboards'
  BY <1>1, <1>2, <1>3, Shop2Changes, FactoryParts, SMTT(60) DEF Lastwagen2Moves, Shop2, Shop2Cupboards,
     Shop2By, Shop2Types, At, FactoryStocks
<1>5. CupboardRoom'
  BY <1>1, <1>2, <1>3, Shop2Changes, FactoryParts, SMTT(60) DEF Lastwagen2Moves, Shop2, CupboardRoom,
     Shop2By, Shop2Types, At, FactoryStocks
<1>6. Shop2Beds'
  BY <1>1, <1>2, <1>3, Shop2Changes, FactoryParts, SMTT(60) DEF Lastwagen2Moves, Shop2, Shop2Beds, Shop2By,
     Shop2Types, At, FactoryStocks
<1>7. BedRoom'
  BY <1>1, <1>2, <1>3, Shop2Changes, FactoryParts, SMTT(60) DEF Lastwagen2Moves, Shop2, BedRoom, Shop2By,
     Shop2Types, At, FactoryStocks
<1>8. Shop2Key'
  <2> DEFINE K == {11, 12, 24, 25}
  <2>1. \/ /\ place["Lastwagen2"] \notin K /\ place'["Lastwagen2"] \in K
           /\ counts'["g2_access"] = counts["g2_access"] - 1
        \/ /\ place["Lastwagen2"] \in K /\ place'["Lastwagen2"] \notin K
           /\ counts'["g2_access"] = counts["g2_access"] + 1
        \/ (place["Lastwagen2"] \in K <=> place'["Lastwagen2"] \in K) /\ counts'["g2_access"] = counts["g2_access"]
    BY <1>1, <1>3, Shop2Changes, FactoryParts, SMTT(60) DEF Lastwagen2Moves, Shop2By, Shop2Types, FactoryStocks
  <2> QED
    BY <1>2, <1>3, <2>1, Shop2Changes DEF Shop2, Shop2Key, Shop2Types, At
<1> QED
  BY <1>4, <1>5, <1>6, <1>7, <1>8 DEF Shop2

(* A move of the second shop keeps the balances of the second shop.        *)
LEMMA Geschaeft2KeepsShop2 ==
    ASSUME FactoryTypes, Geschaeft2Moves, Shop2
    PROVE  Shop2'
<1>1. \A i, j : Goes("Geschaeft2", i, j) => place["Geschaeft2"] = i /\ place'["Geschaeft2"] = j
  BY FactoryParts, OthersStay
<1>2. place'["Lastwagen2"] = place["Lastwagen2"]
  BY FactoryParts, OthersStay DEF Geschaeft2Moves
<1>3. {place["Lastwagen2"], place["Geschaeft2"]} \subseteq Nat
  BY FactoryParts DEF FactoryTypes
<1>4. Shop2Cupboards'
  BY <1>1, <1>2, <1>3, Shop2Changes, FactoryParts, SMTT(60) DEF Geschaeft2Moves, Shop2, Shop2Cupboards,
     Shop2By, Shop2Types, At, FactoryStocks
<1>5. CupboardRoom'
  BY <1>1, <1>2, <1>3, Shop2Changes, FactoryParts, SMTT(60) DEF Geschaeft2Moves, Shop2, CupboardRoom,
     Shop2By, Shop2Types, At, FactoryStocks
<1>6. Shop2Beds'
  BY <1>1, <1>2, <1>3, Shop2Changes, FactoryParts, SMTT(60) DEF Geschaeft2Moves, Shop2, Shop2Beds, Shop2By,
     Shop2Types, At, FactoryStocks
<1>7. BedRoom'
  BY <1>1, <1>2, <1>3, Shop2Changes, FactoryParts, SMTT(60) DEF Geschaeft2Moves, Shop2, BedRoom, Shop2By,
     Shop2Types, At, FactoryStocks
<1>8. Shop2Key'
  BY <1>1, <1>2, <1>3, Shop2Changes, FactoryParts, SMTT(60) DEF Geschaeft2Moves, Shop2, Shop2Key, Shop2By,
     Shop2Types, At, FactoryStocks
<1> QED
  BY <1>4, <1>5, <1>6, <1>7, <1>8 DEF Shop2

(* A move keeps the types.                                                 *)
LEMMA MoveKeepsTypes ==
    ASSUME FactoryTypes
    PROVE  /\ \A s : Takes(s) \/ Gives(s) =>
                counts' \in [FactorySems -> Nat] /\ stocks' \in [FactoryStocks -> Int]
           /\ \A x, n : n \in Int /\ Adds(x, n) =>
                counts' \in [FactorySems -> Nat] /\ stocks' \in [FactoryStocks -> Int]
           /\ Looks => counts' \in [FactorySems -> Nat] /\ stocks' \in [FactoryStocks -> Int]
           /\ \A t, i, j : t \in FactoryThreads /\ Goes(t, i, j) /\ j \in Nat /\ j \in 1 .. Len(Programs[t]) =>
                /\ place' \in [FactoryThreads -> Nat]
                /\ \A u \in FactoryThreads : place'[u] \in 1 .. Len(Programs[u])
<1>1. ASSUME NEW s, Takes(s) \/ Gives(s)
      PROVE  counts' \in [FactorySems -> Nat] /\ stocks' \in [FactoryStocks -> Int]
  <2>1. CASE Takes(s)
    <3>1. \A r \in FactorySems : counts'[r] \in Nat
      <4> TAKE r \in FactorySems
      <4>1. CASE r = s
        BY <2>1, <4>1 DEF FactoryTypes, Takes
      <4>2. CASE r # s
        BY <2>1, <4>2 DEF FactoryTypes, Takes
      <4> QED
        BY <4>1, <4>2
    <3> QED
      BY <2>1, <3>1 DEF FactoryTypes, Takes
  <2>2. CASE Gives(s)
    <3>1. \A r \in FactorySems : counts'[r] \in Nat
      <4> TAKE r \in FactorySems
      <4>1. CASE r = s
        BY <2>2, <4>1 DEF FactoryTypes, Gives
      <4>2. CASE r # s
        BY <2>2, <4>2 DEF FactoryTypes, Gives
      <4> QED
        BY <4>1, <4>2
    <3> QED
      BY <2>2, <3>1 DEF FactoryTypes, Gives
  <2> QED
    BY <1>1, <2>1, <2>2
<1>2. ASSUME NEW x, NEW n \in Int, Adds(x, n)
      PROVE  counts' \in [FactorySems -> Nat] /\ stocks' \in [FactoryStocks -> Int]
  <2>1. \A y \in FactoryStocks : stocks'[y] \in Int
    <3> TAKE y \in FactoryStocks
    <3>1. CASE y = x
      BY <1>2, <3>1 DEF FactoryTypes, Adds
    <3>2. CASE y # x
      BY <1>2, <3>2 DEF FactoryTypes, Adds
    <3> QED
      BY <3>1, <3>2
  <2> QED
    BY <1>2, <2>1 DEF FactoryTypes, Adds
<1>3. Looks => counts' \in [FactorySems -> Nat] /\ stocks' \in [FactoryStocks -> Int]
  BY DEF FactoryTypes, Looks
<1>4. ASSUME NEW t \in FactoryThreads, NEW i, NEW j \in Nat, Goes(t, i, j), j \in 1 .. Len(Programs[t])
      PROVE  /\ place' \in [FactoryThreads -> Nat]
             /\ \A u \in FactoryThreads : place'[u] \in 1 .. Len(Programs[u])
  BY <1>4 DEF FactoryTypes, Goes
<1> QED
  BY <1>1, <1>2, <1>3, <1>4

(* A move that leaves the store and the threads there alone keeps its      *)
(* balances.                                                               *)
LEMMA StoreUntouched ==
    ASSUME FactoryTypes, Store, StoreBy(0, 0, 0, 0, 0, 0),
           place'["Fabrik"] = place["Fabrik"], place'["Mitarbeiter"] = place["Mitarbeiter"]
    PROVE  Store'
<1>1. StoreTypes
  BY StoreChanges
<1>2. StoredBeds'
  BY <1>1 DEF Store, StoredBeds, StoreBy, StoreTypes, At
<1>3. StoredCupboards'
  BY <1>1 DEF Store, StoredCupboards, StoreBy, StoreTypes, At
<1>4. StoreRoom'
  BY <1>1 DEF Store, StoreRoom, StoreBy, StoreTypes, At
<1>5. MadeInPairs'
  BY <1>1 DEF Store, MadeInPairs, StoreBy, StoreTypes, At
<1>6. StoreKey'
  BY <1>1 DEF Store, StoreKey, StoreBy, StoreTypes, At
<1> QED
  BY <1>2, <1>3, <1>4, <1>5, <1>6 DEF Store

(* A move that leaves the ramp and the threads there alone keeps its       *)
(* balances.                                                               *)
LEMMA RampUntouched ==
    ASSUME FactoryTypes, Ramp, RampBy(0, 0, 0, 0, 0, 0),
           place'["Mitarbeiter"] = place["Mitarbeiter"], place'["Lastwagen1"] = place["Lastwagen1"],
           place'["Lastwagen2"] = place["Lastwagen2"]
    PROVE  Ramp'
<1>1. RampTypes
  BY RampChanges
<1>2. RampBeds'
  BY <1>1 DEF Ramp, RampBeds, RampBy, RampTypes, At
<1>3. RampCupboards'
  BY <1>1 DEF Ramp, RampCupboards, RampBy, RampTypes, At
<1>4. RampRoom'
  BY <1>1 DEF Ramp, RampRoom, RampBy, RampTypes, At
<1>5. RampKey'
  BY <1>1 DEF Ramp, RampKey, RampBy, RampTypes, At
<1> QED
  BY <1>2, <1>3, <1>4, <1>5 DEF Ramp

(* A move that leaves the first shop and the threads there alone keeps     *)
(* its balances.                                                           *)
LEMMA Shop1Untouched ==
    ASSUME FactoryTypes, Shop1, Shop1By(0, 0, 0, 0),
           place'["Lastwagen1"] = place["Lastwagen1"], place'["Geschaeft1"] = place["Geschaeft1"]
    PROVE  Shop1'
<1>1. Shop1Types
  BY Shop1Changes
<1>2. Shop1Beds'
  BY <1>1 DEF Shop1, Shop1Beds, Shop1By, Shop1Types, At
<1>3. Shop1Room'
  BY <1>1 DEF Shop1, Shop1Room, Shop1By, Shop1Types, At
<1>4. Shop1Key'
  BY <1>1 DEF Shop1, Shop1Key, Shop1By, Shop1Types, At
<1> QED
  BY <1>2, <1>3, <1>4 DEF Shop1

(* A move that leaves the second shop and the threads there alone keeps    *)
(* its balances.                                                           *)
LEMMA Shop2Untouched ==
    ASSUME FactoryTypes, Shop2, Shop2By(0, 0, 0, 0, 0, 0, 0),
           place'["Lastwagen2"] = place["Lastwagen2"], place'["Geschaeft2"] = place["Geschaeft2"]
    PROVE  Shop2'
<1>1. Shop2Types
  BY Shop2Changes
<1>2. Shop2Cupboards'
  BY <1>1 DEF Shop2, Shop2Cupboards, Shop2By, Shop2Types, At
<1>3. CupboardRoom'
  BY <1>1 DEF Shop2, CupboardRoom, Shop2By, Shop2Types, At
<1>4. Shop2Beds'
  BY <1>1 DEF Shop2, Shop2Beds, Shop2By, Shop2Types, At
<1>5. BedRoom'
  BY <1>1 DEF Shop2, BedRoom, Shop2By, Shop2Types, At
<1>6. Shop2Key'
  BY <1>1 DEF Shop2, Shop2Key, Shop2By, Shop2Types, At
<1> QED
  BY <1>2, <1>3, <1>4, <1>5, <1>6 DEF Shop2

(* The invariant of the factory.                                           *)
FactoryInv == FactoryTypes /\ Store /\ Ramp /\ Shop1 /\ Shop2

(* A step of the factory keeps all balances.                               *)
LEMMA FabrikKeeps ==
    ASSUME FactoryInv, F!Step("Fabrik")
    PROVE  FactoryInv'
<1>1. FactoryTypes /\ FabrikMoves
  BY FabrikGoes DEF FactoryInv
<1>2. FactoryTypes'
  <2>1. Len(Programs["Fabrik"]) = 8
    BY FabrikSays
  <2>2. /\ place' \in [FactoryThreads -> Nat]
        /\ \A u \in FactoryThreads : place'[u] \in 1 .. Len(Programs[u])
    <3>1. PICK i, j : Goes("Fabrik", i, j) /\ j \in 1 .. 8
      BY <1>1 DEF FabrikMoves
    <3>2. j \in Nat /\ j \in 1 .. Len(Programs["Fabrik"]) /\ "Fabrik" \in FactoryThreads
      BY <2>1, <3>1, FactoryParts
    <3> QED
      BY <1>1, <3>1, <3>2, MoveKeepsTypes
  <2>3. counts' \in [FactorySems -> Nat] /\ stocks' \in [FactoryStocks -> Int]
    BY <1>1, MoveKeepsTypes DEF FabrikMoves
  <2> QED
    BY <2>2, <2>3 DEF FactoryTypes
<1>3. \A u \in FactoryThreads \ {"Fabrik"} : place'[u] = place[u]
  BY <1>1, FactoryParts, OthersStay DEF FabrikMoves
<1>4. Store'
  BY <1>1, FabrikKeepsStore DEF FactoryInv
<1>5. Ramp'
  <2>1. RampBy(0, 0, 0, 0, 0, 0)
    BY <1>1, RampChanges, FactoryParts DEF FabrikMoves, FactoryStocks
  <2> QED
    BY <1>1, <1>3, <2>1, RampUntouched, FactoryParts DEF FactoryInv
<1>6. Shop1'
  <2>1. Shop1By(0, 0, 0, 0)
    BY <1>1, Shop1Changes, FactoryParts DEF FabrikMoves, FactoryStocks
  <2> QED
    BY <1>1, <1>3, <2>1, Shop1Untouched, FactoryParts DEF FactoryInv
<1>7. Shop2'
  <2>1. Shop2By(0, 0, 0, 0, 0, 0, 0)
    BY <1>1, Shop2Changes, FactoryParts DEF FabrikMoves, FactoryStocks
  <2> QED
    BY <1>1, <1>3, <2>1, Shop2Untouched, FactoryParts DEF FactoryInv
<1> QED
  BY <1>2, <1>4, <1>5, <1>6, <1>7 DEF FactoryInv

(* A step of the worker keeps all balances.                                *)
LEMMA MitarbeiterKeeps ==
    ASSUME FactoryInv, F!Step("Mitarbeiter")
    PROVE  FactoryInv'
<1>1. FactoryTypes /\ MitarbeiterMoves
  BY MitarbeiterGoes DEF FactoryInv
<1>2. FactoryTypes'
  <2>1. Len(Programs["Mitarbeiter"]) = 20
    BY MitarbeiterSays
  <2>2. /\ place' \in [FactoryThreads -> Nat]
        /\ \A u \in FactoryThreads : place'[u] \in 1 .. Len(Programs[u])
    <3>1. PICK i, j : Goes("Mitarbeiter", i, j) /\ j \in 1 .. 20
      BY <1>1 DEF MitarbeiterMoves
    <3>2. j \in Nat /\ j \in 1 .. Len(Programs["Mitarbeiter"]) /\ "Mitarbeiter" \in FactoryThreads
      BY <2>1, <3>1, FactoryParts
    <3> QED
      BY <1>1, <3>1, <3>2, MoveKeepsTypes
  <2>3. counts' \in [FactorySems -> Nat] /\ stocks' \in [FactoryStocks -> Int]
    BY <1>1, MoveKeepsTypes DEF MitarbeiterMoves
  <2> QED
    BY <2>2, <2>3 DEF FactoryTypes
<1>3. \A u \in FactoryThreads \ {"Mitarbeiter"} : place'[u] = place[u]
  BY <1>1, FactoryParts, OthersStay DEF MitarbeiterMoves
<1>4. Store'
  BY <1>1, MitarbeiterKeepsStore DEF FactoryInv
<1>5. Ramp'
  BY <1>1, MitarbeiterKeepsRamp DEF FactoryInv
<1>6. Shop1'
  <2>1. Shop1By(0, 0, 0, 0)
    BY <1>1, Shop1Changes, FactoryParts DEF MitarbeiterMoves, FactoryStocks
  <2> QED
    BY <1>1, <1>3, <2>1, Shop1Untouched, FactoryParts DEF FactoryInv
<1>7. Shop2'
  <2>1. Shop2By(0, 0, 0, 0, 0, 0, 0)
    BY <1>1, Shop2Changes, FactoryParts DEF MitarbeiterMoves, FactoryStocks
  <2> QED
    BY <1>1, <1>3, <2>1, Shop2Untouched, FactoryParts DEF FactoryInv
<1> QED
  BY <1>2, <1>4, <1>5, <1>6, <1>7 DEF FactoryInv

(* A step of the first truck keeps all balances.                           *)
LEMMA Lastwagen1Keeps ==
    ASSUME FactoryInv, F!Step("Lastwagen1")
    PROVE  FactoryInv'
<1>1. FactoryTypes /\ Lastwagen1Moves
  BY Lastwagen1Goes DEF FactoryInv
<1>2. FactoryTypes'
  <2>1. Len(Programs["Lastwagen1"]) = 10
    BY Lastwagen1Says
  <2>2. /\ place' \in [FactoryThreads -> Nat]
        /\ \A u \in FactoryThreads : place'[u] \in 1 .. Len(Programs[u])
    <3>1. PICK i, j : Goes("Lastwagen1", i, j) /\ j \in 1 .. 10
      BY <1>1 DEF Lastwagen1Moves
    <3>2. j \in Nat /\ j \in 1 .. Len(Programs["Lastwagen1"]) /\ "Lastwagen1" \in FactoryThreads
      BY <2>1, <3>1, FactoryParts
    <3> QED
      BY <1>1, <3>1, <3>2, MoveKeepsTypes
  <2>3. counts' \in [FactorySems -> Nat] /\ stocks' \in [FactoryStocks -> Int]
    BY <1>1, MoveKeepsTypes DEF Lastwagen1Moves
  <2> QED
    BY <2>2, <2>3 DEF FactoryTypes
<1>3. \A u \in FactoryThreads \ {"Lastwagen1"} : place'[u] = place[u]
  BY <1>1, FactoryParts, OthersStay DEF Lastwagen1Moves
<1>4. Store'
  <2>1. StoreBy(0, 0, 0, 0, 0, 0)
    BY <1>1, StoreChanges, FactoryParts DEF Lastwagen1Moves, FactoryStocks
  <2> QED
    BY <1>1, <1>3, <2>1, StoreUntouched, FactoryParts DEF FactoryInv
<1>5. Ramp'
  BY <1>1, Lastwagen1KeepsRamp DEF FactoryInv
<1>6. Shop1'
  BY <1>1, Lastwagen1KeepsShop1 DEF FactoryInv
<1>7. Shop2'
  <2>1. Shop2By(0, 0, 0, 0, 0, 0, 0)
    BY <1>1, Shop2Changes, FactoryParts DEF Lastwagen1Moves, FactoryStocks
  <2> QED
    BY <1>1, <1>3, <2>1, Shop2Untouched, FactoryParts DEF FactoryInv
<1> QED
  BY <1>2, <1>4, <1>5, <1>6, <1>7 DEF FactoryInv

(* A step of the second truck keeps all balances.                          *)
LEMMA Lastwagen2Keeps ==
    ASSUME FactoryInv, F!Step("Lastwagen2")
    PROVE  FactoryInv'
<1>1. FactoryTypes /\ Lastwagen2Moves
  BY Lastwagen2Goes DEF FactoryInv
<1>2. FactoryTypes'
  <2>1. Len(Programs["Lastwagen2"]) = 26
    BY Lastwagen2Says
  <2>2. /\ place' \in [FactoryThreads -> Nat]
        /\ \A u \in FactoryThreads : place'[u] \in 1 .. Len(Programs[u])
    <3>1. PICK i, j : Goes("Lastwagen2", i, j) /\ j \in 1 .. 26
      BY <1>1 DEF Lastwagen2Moves
    <3>2. j \in Nat /\ j \in 1 .. Len(Programs["Lastwagen2"]) /\ "Lastwagen2" \in FactoryThreads
      BY <2>1, <3>1, FactoryParts
    <3> QED
      BY <1>1, <3>1, <3>2, MoveKeepsTypes
  <2>3. counts' \in [FactorySems -> Nat] /\ stocks' \in [FactoryStocks -> Int]
    BY <1>1, MoveKeepsTypes DEF Lastwagen2Moves
  <2> QED
    BY <2>2, <2>3 DEF FactoryTypes
<1>3. \A u \in FactoryThreads \ {"Lastwagen2"} : place'[u] = place[u]
  BY <1>1, FactoryParts, OthersStay DEF Lastwagen2Moves
<1>4. Store'
  <2>1. StoreBy(0, 0, 0, 0, 0, 0)
    BY <1>1, StoreChanges, FactoryParts DEF Lastwagen2Moves, FactoryStocks
  <2> QED
    BY <1>1, <1>3, <2>1, StoreUntouched, FactoryParts DEF FactoryInv
<1>5. Ramp'
  BY <1>1, Lastwagen2KeepsRamp DEF FactoryInv
<1>6. Shop1'
  <2>1. Shop1By(0, 0, 0, 0)
    BY <1>1, Shop1Changes, FactoryParts DEF Lastwagen2Moves, FactoryStocks
  <2> QED
    BY <1>1, <1>3, <2>1, Shop1Untouched, FactoryParts DEF FactoryInv
<1>7. Shop2'
  BY <1>1, Lastwagen2KeepsShop2 DEF FactoryInv
<1> QED
  BY <1>2, <1>4, <1>5, <1>6, <1>7 DEF FactoryInv

(* A step of the first shop keeps all balances.                            *)
LEMMA Geschaeft1Keeps ==
    ASSUME FactoryInv, F!Step("Geschaeft1")
    PROVE  FactoryInv'
<1>1. FactoryTypes /\ Geschaeft1Moves
  BY Geschaeft1Goes DEF FactoryInv
<1>2. FactoryTypes'
  <2>1. Len(Programs["Geschaeft1"]) = 5
    BY Geschaeft1Says
  <2>2. /\ place' \in [FactoryThreads -> Nat]
        /\ \A u \in FactoryThreads : place'[u] \in 1 .. Len(Programs[u])
    <3>1. PICK i, j : Goes("Geschaeft1", i, j) /\ j \in 1 .. 5
      BY <1>1 DEF Geschaeft1Moves
    <3>2. j \in Nat /\ j \in 1 .. Len(Programs["Geschaeft1"]) /\ "Geschaeft1" \in FactoryThreads
      BY <2>1, <3>1, FactoryParts
    <3> QED
      BY <1>1, <3>1, <3>2, MoveKeepsTypes
  <2>3. counts' \in [FactorySems -> Nat] /\ stocks' \in [FactoryStocks -> Int]
    BY <1>1, MoveKeepsTypes DEF Geschaeft1Moves
  <2> QED
    BY <2>2, <2>3 DEF FactoryTypes
<1>3. \A u \in FactoryThreads \ {"Geschaeft1"} : place'[u] = place[u]
  BY <1>1, FactoryParts, OthersStay DEF Geschaeft1Moves
<1>4. Store'
  <2>1. StoreBy(0, 0, 0, 0, 0, 0)
    BY <1>1, StoreChanges, FactoryParts DEF Geschaeft1Moves, FactoryStocks
  <2> QED
    BY <1>1, <1>3, <2>1, StoreUntouched, FactoryParts DEF FactoryInv
<1>5. Ramp'
  <2>1. RampBy(0, 0, 0, 0, 0, 0)
    BY <1>1, RampChanges, FactoryParts DEF Geschaeft1Moves, FactoryStocks
  <2> QED
    BY <1>1, <1>3, <2>1, RampUntouched, FactoryParts DEF FactoryInv
<1>6. Shop1'
  BY <1>1, Geschaeft1KeepsShop1 DEF FactoryInv
<1>7. Shop2'
  <2>1. Shop2By(0, 0, 0, 0, 0, 0, 0)
    BY <1>1, Shop2Changes, FactoryParts DEF Geschaeft1Moves, FactoryStocks
  <2> QED
    BY <1>1, <1>3, <2>1, Shop2Untouched, FactoryParts DEF FactoryInv
<1> QED
  BY <1>2, <1>4, <1>5, <1>6, <1>7 DEF FactoryInv

(* A step of the second shop keeps all balances.                           *)
LEMMA Geschaeft2Keeps ==
    ASSUME FactoryInv, F!Step("Geschaeft2")
    PROVE  FactoryInv'
<1>1. FactoryTypes /\ Geschaeft2Moves
  BY Geschaeft2Goes DEF FactoryInv
<1>2. FactoryTypes'
  <2>1. Len(Programs["Geschaeft2"]) = 16
    BY Geschaeft2Says
  <2>2. /\ place' \in [FactoryThreads -> Nat]
        /\ \A u \in FactoryThreads : place'[u] \in 1 .. Len(Programs[u])
    <3>1. PICK i, j : Goes("Geschaeft2", i, j) /\ j \in 1 .. 16
      BY <1>1 DEF Geschaeft2Moves
    <3>2. j \in Nat /\ j \in 1 .. Len(Programs["Geschaeft2"]) /\ "Geschaeft2" \in FactoryThreads
      BY <2>1, <3>1, FactoryParts
    <3> QED
      BY <1>1, <3>1, <3>2, MoveKeepsTypes
  <2>3. counts' \in [FactorySems -> Nat] /\ stocks' \in [FactoryStocks -> Int]
    BY <1>1, MoveKeepsTypes DEF Geschaeft2Moves
  <2> QED
    BY <2>2, <2>3 DEF FactoryTypes
<1>3. \A u \in FactoryThreads \ {"Geschaeft2"} : place'[u] = place[u]
  BY <1>1, FactoryParts, OthersStay DEF Geschaeft2Moves
<1>4. Store'
  <2>1. StoreBy(0, 0, 0, 0, 0, 0)
    BY <1>1, StoreChanges, FactoryParts DEF Geschaeft2Moves, FactoryStocks
  <2> QED
    BY <1>1, <1>3, <2>1, StoreUntouched, FactoryParts DEF FactoryInv
<1>5. Ramp'
  <2>1. RampBy(0, 0, 0, 0, 0, 0)
    BY <1>1, RampChanges, FactoryParts DEF Geschaeft2Moves, FactoryStocks
  <2> QED
    BY <1>1, <1>3, <2>1, RampUntouched, FactoryParts DEF FactoryInv
<1>6. Shop1'
  <2>1. Shop1By(0, 0, 0, 0)
    BY <1>1, Shop1Changes, FactoryParts DEF Geschaeft2Moves, FactoryStocks
  <2> QED
    BY <1>1, <1>3, <2>1, Shop1Untouched, FactoryParts DEF FactoryInv
<1>7. Shop2'
  BY <1>1, Geschaeft2KeepsShop2 DEF FactoryInv
<1> QED
  BY <1>2, <1>4, <1>5, <1>6, <1>7 DEF FactoryInv

(* The factory starts with everything in its place: nothing is stored, and *)
(* nobody is between two instructions that belong together.                *)
LEMMA InitFactory == F!Init => FactoryInv
<1> SUFFICES ASSUME F!Init PROVE FactoryInv
  OBVIOUS
<1>1. /\ place = [t \in FactoryThreads |-> 1]
      /\ counts = paralleleModellierung(LagerFree, RampeFree, G1Free, G2bFree, G2sFree)
      /\ stocks = [x \in FactoryStocks |-> 0]
  BY DEF F!Init
<1>2. {LagerFree, RampeFree, G1Free, G2bFree, G2sFree} \subseteq Nat
  BY FactoryAssumption DEF FactoryAssumption
<1>3. FactoryTypes
  <2>1. /\ Len(Programs["Fabrik"]) \in Nat \ {0}
        /\ Len(Programs["Mitarbeiter"]) \in Nat \ {0}
        /\ Len(Programs["Lastwagen1"]) \in Nat \ {0}
        /\ Len(Programs["Lastwagen2"]) \in Nat \ {0}
        /\ Len(Programs["Geschaeft1"]) \in Nat \ {0}
        /\ Len(Programs["Geschaeft2"]) \in Nat \ {0}
    BY FabrikSays, MitarbeiterSays, Lastwagen1Says, Lastwagen2Says, Geschaeft1Says, Geschaeft2Says
  <2>2. place \in [FactoryThreads -> Nat] /\ \A t \in FactoryThreads : place[t] \in 1 .. Len(Programs[t])
    <3>1. \A t \in FactoryThreads : Len(Programs[t]) \in Nat \ {0}
      BY <2>1, FactoryParts, Zenon
    <3> QED
      BY <1>1, <3>1
  <2>3. counts \in [FactorySems -> Nat]
    BY <1>1, <1>2, FactoryParts DEF paralleleModellierung
  <2>4. stocks \in [FactoryStocks -> Int]
    BY <1>1
  <2> QED
    BY <2>2, <2>3, <2>4 DEF FactoryTypes
<1>4. /\ \A x \in FactoryStocks : stocks[x] = 0
      /\ \A t \in FactoryThreads : place[t] = 1
  BY <1>1
<1>5. /\ counts["lager_betten"] = 0 /\ counts["lager_schraenke"] = 0
      /\ counts["lager_free"] = LagerFree /\ counts["lager_access"] = 1
      /\ counts["rampe_betten"] = 0 /\ counts["rampe_schraenke"] = 0
      /\ counts["rampe_free"] = RampeFree /\ counts["rampe_access"] = 1
      /\ counts["g1_full"] = 0 /\ counts["g1_free"] = G1Free /\ counts["g1_access"] = 1
      /\ counts["g2b_full"] = 0 /\ counts["g2b_free"] = G2bFree
      /\ counts["g2s_full"] = 0 /\ counts["g2s_free"] = G2sFree /\ counts["g2_access"] = 1
  BY <1>1 DEF paralleleModellierung
<1>6. Store
  <2>1. StoredBeds
    BY <1>2, <1>4, <1>5, FactoryParts DEF StoredBeds, At, FactoryStocks
  <2>2. StoredCupboards
    BY <1>2, <1>4, <1>5, FactoryParts DEF StoredCupboards, At, FactoryStocks
  <2>3. StoreRoom
    BY <1>2, <1>4, <1>5, FactoryParts DEF StoreRoom, At, FactoryStocks
  <2>4. MadeInPairs
    BY <1>2, <1>4, <1>5, FactoryParts DEF MadeInPairs, At, FactoryStocks
  <2>5. StoreKey
    BY <1>2, <1>4, <1>5, FactoryParts DEF StoreKey, At, FactoryStocks
  <2> QED
    BY <2>1, <2>2, <2>3, <2>4, <2>5 DEF Store
<1>7. Ramp
  <2>1. RampBeds
    BY <1>2, <1>4, <1>5, FactoryParts DEF RampBeds, At, FactoryStocks
  <2>2. RampCupboards
    BY <1>2, <1>4, <1>5, FactoryParts DEF RampCupboards, At, FactoryStocks
  <2>3. RampRoom
    BY <1>2, <1>4, <1>5, FactoryParts DEF RampRoom, At, FactoryStocks
  <2>4. RampKey
    BY <1>2, <1>4, <1>5, FactoryParts DEF RampKey, At, FactoryStocks
  <2> QED
    BY <2>1, <2>2, <2>3, <2>4 DEF Ramp
<1>8. Shop1
  <2>1. Shop1Beds
    BY <1>2, <1>4, <1>5, FactoryParts DEF Shop1Beds, At, FactoryStocks
  <2>2. Shop1Room
    BY <1>2, <1>4, <1>5, FactoryParts DEF Shop1Room, At, FactoryStocks
  <2>3. Shop1Key
    BY <1>2, <1>4, <1>5, FactoryParts DEF Shop1Key, At, FactoryStocks
  <2> QED
    BY <2>1, <2>2, <2>3 DEF Shop1
<1>9. Shop2
  <2>1. Shop2Cupboards
    BY <1>2, <1>4, <1>5, FactoryParts DEF Shop2Cupboards, At, FactoryStocks
  <2>2. CupboardRoom
    BY <1>2, <1>4, <1>5, FactoryParts DEF CupboardRoom, At, FactoryStocks
  <2>3. Shop2Beds
    BY <1>2, <1>4, <1>5, FactoryParts DEF Shop2Beds, At, FactoryStocks
  <2>4. BedRoom
    BY <1>2, <1>4, <1>5, FactoryParts DEF BedRoom, At, FactoryStocks
  <2>5. Shop2Key
    BY <1>2, <1>4, <1>5, FactoryParts DEF Shop2Key, At, FactoryStocks
  <2> QED
    BY <2>1, <2>2, <2>3, <2>4, <2>5 DEF Shop2
<1> QED
  BY <1>3, <1>6, <1>7, <1>8, <1>9 DEF FactoryInv

(* Every step of the factory keeps the balances.                           *)
LEMMA StepFactory ==
    ASSUME FactoryInv, [F!Next]_factoryVars
    PROVE  FactoryInv'
<1>1. CASE F!Next
  <2>1. PICK t \in FactoryThreads : F!Step(t)
    BY <1>1 DEF F!Next
  <2> QED
    BY <2>1, FactoryParts, FabrikKeeps, MitarbeiterKeeps, Lastwagen1Keeps, Lastwagen2Keeps,
       Geschaeft1Keeps, Geschaeft2Keeps
<1>2. CASE UNCHANGED factoryVars
  BY <1>2 DEF factoryVars, FactoryInv, FactoryTypes, At,
      Store, StoredBeds, StoredCupboards, StoreRoom, MadeInPairs, StoreKey,
      Ramp, RampBeds, RampCupboards, RampRoom, RampKey,
      Shop1, Shop1Beds, Shop1Room, Shop1Key,
      Shop2, Shop2Cupboards, CupboardRoom, Shop2Beds, BedRoom, Shop2Key
<1> QED
  BY <1>1, <1>2

(* The balances bound the stocks.                                          *)
LEMMA InvBoundsStocks ==
    ASSUME FactoryInv
    PROVE  F!StocksWithinRoom
<1>1. \A t, S : At(t, S) \in {0, 1}
  BY DEF At
<1>2. /\ StoreTypes /\ RampTypes /\ Shop1Types /\ Shop2Types
  BY StoreChanges, RampChanges, Shop1Changes, Shop2Changes DEF FactoryInv
<1>3. {LagerFree, RampeFree, G1Free, G2bFree, G2sFree} \subseteq Nat
  BY FactoryAssumption DEF FactoryAssumption
<1>4. stocks["betten"] >= 0 /\ stocks["schraenke"] >= 0 /\ stocks["betten"] + stocks["schraenke"] <= LagerFree
  BY <1>1, <1>2, <1>3 DEF FactoryInv, Store, StoredBeds, StoredCupboards, StoreRoom, StoreTypes
<1>5. stocks["rbetten"] >= 0 /\ stocks["rschraenke"] >= 0 /\ stocks["rbetten"] + stocks["rschraenke"] <= RampeFree
  BY <1>1, <1>2, <1>3 DEF FactoryInv, Ramp, RampBeds, RampCupboards, RampRoom, RampTypes
<1>6. stocks["g1betten"] >= 0 /\ stocks["g1betten"] <= G1Free
  BY <1>1, <1>2, <1>3 DEF FactoryInv, Shop1, Shop1Beds, Shop1Room, Shop1Types
<1>7. stocks["g2betten"] >= 0 /\ stocks["g2betten"] <= G2bFree
  BY <1>1, <1>2, <1>3 DEF FactoryInv, Shop2, Shop2Beds, BedRoom, Shop2Types
<1>8. stocks["g2schraenke"] >= 0 /\ stocks["g2schraenke"] <= G2sFree
  BY <1>1, <1>2, <1>3 DEF FactoryInv, Shop2, Shop2Cupboards, CupboardRoom, Shop2Types
<1> QED
  <2>1. \A x \in FactoryStocks : stocks[x] >= 0
    BY <1>4, <1>5, <1>6, <1>7, <1>8 DEF FactoryStocks
  <2> QED
    BY <1>4, <1>5, <1>6, <1>7, <1>8, <2>1 DEF F!StocksWithinRoom, F!FactoryStocks, FactoryStocks

(* Where a thread can wait for good, and for what.                         *)
LEMMA WaitsAt ==
    ASSUME FactoryTypes, F!Stuck
    PROVE  /\ place["Fabrik"] \in {1, 2, 3}
           /\ place["Fabrik"] \in {1, 2} => counts["lager_free"] = 0
           /\ place["Fabrik"] = 3 => counts["lager_access"] = 0
           /\ place["Mitarbeiter"] \in {1, 2, 3, 7, 11, 12, 13, 17}
           /\ place["Mitarbeiter"] \in {1, 11} => counts["rampe_free"] = 0
           /\ place["Mitarbeiter"] = 2 => counts["lager_schraenke"] = 0
           /\ place["Mitarbeiter"] = 12 => counts["lager_betten"] = 0
           /\ place["Mitarbeiter"] \in {3, 13} => counts["lager_access"] = 0
           /\ place["Mitarbeiter"] \in {7, 17} => counts["rampe_access"] = 0
           /\ place["Lastwagen1"] \in {1, 2, 3, 7}
           /\ place["Lastwagen1"] = 1 => counts["g1_free"] = 0
           /\ place["Lastwagen1"] = 2 => counts["rampe_betten"] = 0
           /\ place["Lastwagen1"] = 3 => counts["rampe_access"] = 0
           /\ place["Lastwagen1"] = 7 => counts["g1_access"] = 0
           /\ place["Lastwagen2"] \in {1, 4, 5, 6, 10, 14, 17, 18, 19, 23}
           /\ place["Lastwagen2"] \in {1, 6, 14, 19} => counts["rampe_access"] = 0
           /\ place["Lastwagen2"] = 4 => counts["g2s_free"] = 0
           /\ place["Lastwagen2"] = 5 => counts["rampe_schraenke"] = 0
           /\ place["Lastwagen2"] = 17 => counts["g2b_free"] = 0
           /\ place["Lastwagen2"] = 18 => counts["rampe_betten"] = 0
           /\ place["Lastwagen2"] \in {10, 23} => counts["g2_access"] = 0
           /\ place["Geschaeft1"] \in {1, 2}
           /\ place["Geschaeft1"] = 1 => counts["g1_full"] = 0
           /\ place["Geschaeft1"] = 2 => counts["g1_access"] = 0
           /\ place["Geschaeft2"] \in {1, 4, 5, 9, 12, 13}
           /\ place["Geschaeft2"] = 4 => counts["g2b_full"] = 0
           /\ place["Geschaeft2"] = 12 => counts["g2s_full"] = 0
           /\ place["Geschaeft2"] \in {1, 5, 9, 13} => counts["g2_access"] = 0
<1>a. /\ \A s : P_(s).op = "p" /\ P_(s).on = s
      /\ \A s : V_(s).op # "p"
      /\ \A x, n : Add(x, n).op # "p"
      /\ \A x : Switch_(x).op # "p"
  BY DEF P_, V_, Add, Switch_
<1>1. ASSUME NEW t \in FactoryThreads
      PROVE  /\ place[t] \in 1 .. Len(Programs[t])
             /\ \A s : Programs[t][place[t]] = P_(s) => counts[s] = 0
             /\ \A s : Programs[t][place[t]] # V_(s)
             /\ \A x, n : Programs[t][place[t]] # Add(x, n)
             /\ \A x : Programs[t][place[t]] # Switch_(x)
  <2>1. /\ place[t] \in 1 .. Len(Programs[t])
        /\ Programs[t][place[t]].op = "p"
        /\ counts[Programs[t][place[t]].on] = 0
    BY DEF F!Stuck, F!Instr, FactoryTypes
  <2> QED
    BY <1>a, <2>1
<1>2. /\ place["Fabrik"] \in {1, 2, 3}
      /\ place["Fabrik"] \in {1, 2} => counts["lager_free"] = 0
      /\ place["Fabrik"] = 3 => counts["lager_access"] = 0
  <2>1. "Fabrik" \in FactoryThreads /\ Len(Programs["Fabrik"]) = 8
    BY FactoryParts, FabrikSays
  <2>2. place["Fabrik"] \in 1 .. 8
    BY <1>1, <2>1
  <2>3. LET e == Programs["Fabrik"][place["Fabrik"]]
        IN  /\ \A s : e = P_(s) => counts[s] = 0
            /\ \A s : e # V_(s)
            /\ \A x, n : e # Add(x, n)
            /\ \A x : e # Switch_(x)
    BY <1>1, <2>1
  <2> QED
    BY <2>2, <2>3, FabrikSays
<1>3. /\ place["Mitarbeiter"] \in {1, 2, 3, 7, 11, 12, 13, 17}
      /\ place["Mitarbeiter"] \in {1, 11} => counts["rampe_free"] = 0
      /\ place["Mitarbeiter"] = 2 => counts["lager_schraenke"] = 0
      /\ place["Mitarbeiter"] = 12 => counts["lager_betten"] = 0
      /\ place["Mitarbeiter"] \in {3, 13} => counts["lager_access"] = 0
      /\ place["Mitarbeiter"] \in {7, 17} => counts["rampe_access"] = 0
  <2>1. "Mitarbeiter" \in FactoryThreads /\ Len(Programs["Mitarbeiter"]) = 20
    BY FactoryParts, MitarbeiterSays
  <2>2. place["Mitarbeiter"] \in 1 .. 20
    BY <1>1, <2>1
  <2>3. LET e == Programs["Mitarbeiter"][place["Mitarbeiter"]]
        IN  /\ \A s : e = P_(s) => counts[s] = 0
            /\ \A s : e # V_(s)
            /\ \A x, n : e # Add(x, n)
            /\ \A x : e # Switch_(x)
    BY <1>1, <2>1
  <2> QED
    BY <2>2, <2>3, MitarbeiterSays
<1>4. /\ place["Lastwagen1"] \in {1, 2, 3, 7}
      /\ place["Lastwagen1"] = 1 => counts["g1_free"] = 0
      /\ place["Lastwagen1"] = 2 => counts["rampe_betten"] = 0
      /\ place["Lastwagen1"] = 3 => counts["rampe_access"] = 0
      /\ place["Lastwagen1"] = 7 => counts["g1_access"] = 0
  <2>1. "Lastwagen1" \in FactoryThreads /\ Len(Programs["Lastwagen1"]) = 10
    BY FactoryParts, Lastwagen1Says
  <2>2. place["Lastwagen1"] \in 1 .. 10
    BY <1>1, <2>1
  <2>3. LET e == Programs["Lastwagen1"][place["Lastwagen1"]]
        IN  /\ \A s : e = P_(s) => counts[s] = 0
            /\ \A s : e # V_(s)
            /\ \A x, n : e # Add(x, n)
            /\ \A x : e # Switch_(x)
    BY <1>1, <2>1
  <2> QED
    BY <2>2, <2>3, Lastwagen1Says
<1>5. /\ place["Lastwagen2"] \in {1, 4, 5, 6, 10, 14, 17, 18, 19, 23}
      /\ place["Lastwagen2"] \in {1, 6, 14, 19} => counts["rampe_access"] = 0
      /\ place["Lastwagen2"] = 4 => counts["g2s_free"] = 0
      /\ place["Lastwagen2"] = 5 => counts["rampe_schraenke"] = 0
      /\ place["Lastwagen2"] = 17 => counts["g2b_free"] = 0
      /\ place["Lastwagen2"] = 18 => counts["rampe_betten"] = 0
      /\ place["Lastwagen2"] \in {10, 23} => counts["g2_access"] = 0
  <2>1. "Lastwagen2" \in FactoryThreads /\ Len(Programs["Lastwagen2"]) = 26
    BY FactoryParts, Lastwagen2Says
  <2>2. place["Lastwagen2"] \in 1 .. 26
    BY <1>1, <2>1
  <2>3. LET e == Programs["Lastwagen2"][place["Lastwagen2"]]
        IN  /\ \A s : e = P_(s) => counts[s] = 0
            /\ \A s : e # V_(s)
            /\ \A x, n : e # Add(x, n)
            /\ \A x : e # Switch_(x)
    BY <1>1, <2>1
  <2> QED
    BY <2>2, <2>3, Lastwagen2Says
<1>6. /\ place["Geschaeft1"] \in {1, 2}
      /\ place["Geschaeft1"] = 1 => counts["g1_full"] = 0
      /\ place["Geschaeft1"] = 2 => counts["g1_access"] = 0
  <2>1. "Geschaeft1" \in FactoryThreads /\ Len(Programs["Geschaeft1"]) = 5
    BY FactoryParts, Geschaeft1Says
  <2>2. place["Geschaeft1"] \in 1 .. 5
    BY <1>1, <2>1
  <2>3. LET e == Programs["Geschaeft1"][place["Geschaeft1"]]
        IN  /\ \A s : e = P_(s) => counts[s] = 0
            /\ \A s : e # V_(s)
            /\ \A x, n : e # Add(x, n)
            /\ \A x : e # Switch_(x)
    BY <1>1, <2>1
  <2> QED
    BY <2>2, <2>3, Geschaeft1Says
<1>7. /\ place["Geschaeft2"] \in {1, 4, 5, 9, 12, 13}
      /\ place["Geschaeft2"] = 4 => counts["g2b_full"] = 0
      /\ place["Geschaeft2"] = 12 => counts["g2s_full"] = 0
      /\ place["Geschaeft2"] \in {1, 5, 9, 13} => counts["g2_access"] = 0
  <2>1. "Geschaeft2" \in FactoryThreads /\ Len(Programs["Geschaeft2"]) = 16
    BY FactoryParts, Geschaeft2Says
  <2>2. place["Geschaeft2"] \in 1 .. 16
    BY <1>1, <2>1
  <2>3. LET e == Programs["Geschaeft2"][place["Geschaeft2"]]
        IN  /\ \A s : e = P_(s) => counts[s] = 0
            /\ \A s : e # V_(s)
            /\ \A x, n : e # Add(x, n)
            /\ \A x : e # Switch_(x)
    BY <1>1, <2>1
  <2> QED
    BY <2>2, <2>3, Geschaeft2Says
<1> QED
  BY <1>2, <1>3, <1>4, <1>5, <1>6, <1>7

(* If all threads wait for good, the ramp is full of cupboards.            *)
LEMMA StuckIsJammed ==
    ASSUME FactoryInv, F!Stuck
    PROVE  /\ stocks["rbetten"] = 0 /\ stocks["rschraenke"] = RampeFree
           /\ place["Mitarbeiter"] \in {1, 11} /\ place["Lastwagen1"] = 2
           /\ \/ place["Lastwagen2"] = 4 /\ place["Geschaeft2"] = 4
              \/ place["Lastwagen2"] = 17 /\ place["Geschaeft2"] = 12
              \/ place["Lastwagen2"] = 18
<1> USE WaitsAt
<1>1. /\ StoreTypes /\ RampTypes /\ Shop1Types /\ Shop2Types
  BY StoreChanges, RampChanges, Shop1Changes, Shop2Changes DEF FactoryInv
<1>2. {LagerFree, RampeFree, G1Free, G2bFree, G2sFree} \subseteq Nat \ {0} /\ LagerFree >= 2
  BY FactoryAssumption DEF FactoryAssumption
<1>3. FactoryTypes
  BY DEF FactoryInv
<1>4. place["Fabrik"] \in {1, 2} /\ place["Mitarbeiter"] \in {1, 2, 7, 11, 12, 17}
  <2>1. counts["lager_access"] # 0
    BY <1>3 DEF FactoryInv, Store, StoreKey, At
  <2> QED
    BY <1>3, <2>1
<1>5. place["Mitarbeiter"] \in {1, 2, 11, 12} /\ place["Lastwagen1"] \in {1, 2, 7}
      /\ place["Lastwagen2"] \in {4, 5, 10, 17, 18, 23}
  <2>1. counts["rampe_access"] # 0
    BY <1>3 DEF FactoryInv, Ramp, RampKey, At
  <2> QED
    BY <1>3, <1>4, <2>1
<1>6. place["Lastwagen1"] \in {1, 2} /\ place["Geschaeft1"] = 1 /\ counts["g1_full"] = 0
  <2>1. counts["g1_access"] # 0
    BY <1>3 DEF FactoryInv, Shop1, Shop1Key, At
  <2> QED
    BY <1>3, <1>5, <2>1
<1>7. place["Lastwagen2"] \in {4, 5, 17, 18} /\ place["Geschaeft2"] \in {4, 12}
  <2>1. counts["g2_access"] # 0
    BY <1>3 DEF FactoryInv, Shop2, Shop2Key, At
  <2> QED
    BY <1>3, <1>5, <2>1
<1>8. place["Mitarbeiter"] \in {1, 11} /\ counts["rampe_free"] = 0
  <2>1. counts["lager_free"] = 0
    BY <1>3, <1>4
  <2>2. /\ stocks["betten"] = counts["lager_betten"] /\ stocks["schraenke"] = counts["lager_schraenke"]
        /\ stocks["betten"] + stocks["schraenke"] >= 1
    <3>1. /\ At("Fabrik", 5 .. 7) = 0 /\ At("Fabrik", 6 .. 8) = 0 /\ At("Fabrik", 3 .. 4) = 0
          /\ At("Fabrik", 2 .. 5) \in {0, 1}
          /\ At("Mitarbeiter", 3 .. 4) = 0 /\ At("Mitarbeiter", 13 .. 14) = 0
          /\ At("Mitarbeiter", {5, 6, 15, 16}) = 0
      BY <1>4, <1>5 DEF At
    <3>2. LagerFree \in Nat /\ LagerFree >= 2
      BY FactoryAssumption DEF FactoryAssumption
    <3> QED
      BY <1>1, <2>1, <3>1, <3>2 DEF FactoryInv, Store, StoredBeds, StoredCupboards, StoreRoom, StoreTypes
  <2>3. stocks["betten"] - stocks["schraenke"] = IF place["Mitarbeiter"] \in {11, 12} THEN 1 ELSE 0
    BY <1>1, <1>4, <1>5 DEF FactoryInv, Store, MadeInPairs, StoreTypes, At
  <2>4. place["Mitarbeiter"] # 2
    <3>1. place["Mitarbeiter"] = 2 => counts["lager_schraenke"] = 0
      BY <1>3
    <3> QED
      BY <1>1, <2>2, <2>3, <3>1 DEF StoreTypes
  <2>5. place["Mitarbeiter"] # 12
    <3>1. place["Mitarbeiter"] = 12 => counts["lager_betten"] = 0
      BY <1>3
    <3> QED
      BY <1>1, <2>2, <2>3, <3>1 DEF StoreTypes
  <2> QED
    BY <1>3, <1>5, <2>4, <2>5
<1>9. place["Lastwagen1"] = 2 /\ counts["rampe_betten"] = 0
  <2>1. place["Lastwagen1"] # 1
    <3>1. place["Lastwagen1"] = 1 => counts["g1_free"] = 0
      BY <1>3
    <3> QED
      BY <1>1, <1>2, <1>6, <3>1 DEF FactoryInv, Shop1, Shop1Beds, Shop1Room, Shop1Types, At
  <2> QED
    BY <1>3, <1>6, <2>1
<1>10. stocks["rbetten"] = 0 /\ stocks["rschraenke"] = RampeFree
  <2>1. stocks["rbetten"] = 0
    BY <1>1, <1>7, <1>8, <1>9 DEF FactoryInv, Ramp, RampBeds, RampTypes, At
  <2>2. stocks["rschraenke"] = RampeFree
    BY <1>1, <1>2, <1>7, <1>8, <1>9, <2>1 DEF FactoryInv, Ramp, RampRoom, RampTypes, At
  <2> QED
    BY <2>1, <2>2
<1>11. place["Lastwagen2"] # 5
  <2>1. place["Lastwagen2"] = 5 => counts["rampe_schraenke"] = 0
    BY <1>3
  <2> QED
    BY <1>1, <1>2, <1>8, <1>10, <2>1 DEF FactoryInv, Ramp, RampCupboards, RampTypes, At
<1>12. place["Lastwagen2"] = 4 => place["Geschaeft2"] = 4
  <2>1. (place["Lastwagen2"] = 4 => counts["g2s_free"] = 0) /\ (place["Geschaeft2"] = 12 => counts["g2s_full"] = 0)
    BY <1>3
  <2> QED
    BY <1>1, <1>2, <1>7, <2>1 DEF FactoryInv, Shop2, Shop2Cupboards, CupboardRoom, Shop2Types, At
<1>13. place["Lastwagen2"] = 17 => place["Geschaeft2"] = 12
  <2>1. (place["Lastwagen2"] = 17 => counts["g2b_free"] = 0) /\ (place["Geschaeft2"] = 4 => counts["g2b_full"] = 0)
    BY <1>3
  <2> QED
    BY <1>1, <1>2, <1>7, <2>1 DEF FactoryInv, Shop2, Shop2Beds, BedRoom, Shop2Types, At
<1> QED
  BY <1>7, <1>8, <1>9, <1>10, <1>11, <1>12, <1>13

(* The same, by the instructions.                                          *)
LEMMA InvOnlyJams ==
    ASSUME FactoryInv
    PROVE  F!OnlyTheRampJams
<1> SUFFICES ASSUME F!Stuck
             PROVE  /\ stocks["rbetten"] = 0 /\ stocks["rschraenke"] = RampeFree
                    /\ F!Instr("Mitarbeiter") = F!P_("rampe_free")
                    /\ F!Instr("Lastwagen1") = F!P_("rampe_betten")
                    /\ \/ <<F!Instr("Lastwagen2").on, F!Instr("Geschaeft2").on>> \in
                             {<<"g2b_free", "g2s_full">>, <<"g2s_free", "g2b_full">>}
                       \/ F!Instr("Lastwagen2") = F!P_("rampe_betten")
  BY DEF F!OnlyTheRampJams
<1>1. \A s : F!P_(s) = P_(s) /\ P_(s).on = s
  BY DEF F!P_, P_
<1>2. F!Instr("Mitarbeiter") = P_("rampe_free") /\ F!Instr("Lastwagen1") = P_("rampe_betten")
  BY StuckIsJammed, MitarbeiterSays, Lastwagen1Says DEF F!Instr
<1>3. \/ F!Instr("Lastwagen2") = P_("g2s_free") /\ F!Instr("Geschaeft2") = P_("g2b_full")
      \/ F!Instr("Lastwagen2") = P_("g2b_free") /\ F!Instr("Geschaeft2") = P_("g2s_full")
      \/ F!Instr("Lastwagen2") = P_("rampe_betten")
  BY StuckIsJammed, Lastwagen2Says, Geschaeft2Says DEF F!Instr
<1>4. CASE F!Instr("Lastwagen2") = P_("rampe_betten")
  BY <1>1, <1>2, <1>4, StuckIsJammed
<1>5. CASE F!Instr("Lastwagen2") = P_("g2s_free") /\ F!Instr("Geschaeft2") = P_("g2b_full")
  <2>1. F!Instr("Lastwagen2").on = "g2s_free" /\ F!Instr("Geschaeft2").on = "g2b_full"
    BY <1>1, <1>5
  <2> QED
    BY <1>1, <1>2, <2>1, StuckIsJammed
<1>6. CASE F!Instr("Lastwagen2") = P_("g2b_free") /\ F!Instr("Geschaeft2") = P_("g2s_full")
  <2>1. F!Instr("Lastwagen2").on = "g2b_free" /\ F!Instr("Geschaeft2").on = "g2s_full"
    BY <1>1, <1>6
  <2> QED
    BY <1>1, <1>2, <2>1, StuckIsJammed
<1> QED
  BY <1>3, <1>4, <1>5, <1>6

(* The balances hold in every reachable state of the factory, whatever     *)
(* room the store, the ramp and the shops have.                            *)
THEOREM FactoryBalanced == F!Spec => []FactoryInv
<1>1. FactoryInv /\ [F!Next]_(F!vars) => FactoryInv'
  BY StepFactory DEF F!vars, factoryVars
<1> QED
  BY <1>1, InitFactory, PTL DEF F!Spec

(* Each experiment of do_tests() is one of the two systems.                *)
LEMMA ExperimentIsBoth == SpecExperiment => Spec /\ F!Spec
<1>1. InitExperiment => Init /\ F!Init
  BY DEF InitExperiment
<1>2. [Produce \/ Move]_<<experiment, vars, factoryVars>> => [Next]_vars
  BY DEF Produce, Works, Move, Next
<1>3. [Produce \/ Move]_<<experiment, vars, factoryVars>> => [F!Next]_(F!vars)
  BY DEF Produce, Works, Move, factoryVars, F!vars
<1> QED
  BY <1>1, <1>2, <1>3, PTL DEF SpecExperiment, Spec, F!Spec

(* No stock figure that a thread of init/tests.c prints is absurd, with    *)
(* any number of producers and consumers, and whatever room the factory's  *)
(* store, ramp and shops have.                                             *)
THEOREM ExperimentStocksFit ==
    ASSUME ProducersConsumers
    PROVE  SpecExperiment => []StocksFit
<1>1. FactoryInv => F!StocksWithinRoom
  BY InvBoundsStocks
<1>2. ElementsWithinCapacity /\ F!StocksWithinRoom => StocksFit
  BY DEF StocksFit
<1> QED
  BY <1>1, <1>2, ExperimentIsBoth, FactoryBalanced, ElementsFit, PTL

(* The threads of an experiment all wait for each other only when the      *)
(* factory's ramp has filled with cupboards.                               *)
THEOREM ExperimentOnlyRampJams ==
    ASSUME ProducersConsumers, Producers # {}, Consumers # {}
    PROVE  SpecExperiment => []OnlyTheRampJams
<1>1. FactoryInv => F!OnlyTheRampJams
  BY InvOnlyJams
<1>2. NeverAllWait /\ F!OnlyTheRampJams => OnlyTheRampJams
  BY DEF OnlyTheRampJams
<1> QED
  BY <1>1, <1>2, ExperimentIsBoth, FactoryBalanced, SomeoneGoesOn, PTL
=============================================================================
