--------------------------- MODULE HardDiskProofs ---------------------------
(***************************************************************************)
(* What the hard disk driver keeps, for a disk of any geometry and any     *)
(* number of processes that call it one at a time.                         *)
(***************************************************************************)
EXTENDS HardDisk, TLAPS

(* The compilation for other computers than the EEEPC, with a controller   *)
(* that is done before the processor looks or when it waits, and callers   *)
(* that take turns and keep to the blocks of the disk.                     *)
KeepsToTheDisk ==
    /\ ~Preempt /\ ~EEEPC
    /\ Speeds \subseteq {"fast", "slow"}
    /\ CallBlocks \subseteq Lba

Kinds == {"none", "identify", "read", "clear", "write"}
Labels == {"idle", "begin", "ready", "sector", "cylinder", "head", "command", "answer", "data",
           "flush", "flushed", "end"}
Commands == {"none", "identify", "read", "write", "writing", "flush"}
CallRecords == [kind : Kinds, block : Lba, data : Data]
Buffers == [block_nr : Lba, cache : Data \cup {Junk}]
Registers == [sector : Nat, cyl : Nat, head : Nat]
Devices == [cmd : Commands, busy : BOOLEAN, drq : BOOLEAN, speed : Speeds \cup {"any"},
            buffer : Data]

TypeOK ==
    /\ pc \in [Procs -> Labels]
    /\ loop \in [Procs -> {"test", "status", "halt", "over"}]
    /\ call \in [Procs -> CallRecords]
    /\ answer \in [Procs -> Data \cup {Junk}]
    /\ read_cache \in Buffers /\ write_cache \in Buffers /\ write_cache.cache \in Data
    /\ {hd_interrupt, hd1, irq} \subseteq BOOLEAN
    /\ reg \in Registers
    /\ dev \in Devices
    /\ disk \in [Lba -> Data]

(* One call at a time, and hd_init() before all others.                    *)
CallOf(p) ==
    /\ pc[p] \notin Waits => loop[p] = "test"
    /\ pc[p] # "idle" =>
         /\ call[p].kind # "none"
         /\ call[p].kind = "identify" <=> ~hd1
         /\ call[p].kind = "identify" => pc[p] \in {"ready", "command", "answer", "data"}
         /\ pc[p] \in {"flush", "flushed"} => call[p].kind = "write"

CallInv ==
    /\ \A p, q \in Procs : pc[p] # "idle" /\ pc[q] # "idle" => p = q
    /\ \A p \in Procs : CallOf(p)

(* The registers are those of the block of the call.                       *)
RegistersOf(b) ==
    [sector |-> Itoaddr(b).sector, cyl |-> CylinderRegisters(Itoaddr(b).cyl), head |-> Itoaddr(b).head]

RegistersFor(p) ==
    /\ pc[p] \in {"cylinder", "head"} => reg.sector = RegistersOf(call[p].block).sector
    /\ pc[p] = "head" => reg.cyl = RegistersOf(call[p].block).cyl
    /\ pc[p] \in {"command", "answer", "data", "flush", "flushed"} \/ (pc[p] = "ready" /\ ~hd1) =>
         reg = RegistersOf(call[p].block)

RegInv ==
    /\ ~hd1 => reg = RegistersOf(0)
    /\ \A p \in Procs : RegistersFor(p)

(* The controller as each step of a call finds it.                         *)
Busy(c) == dev.busy /\ ~dev.drq /\ dev.cmd = c /\ ~irq
Finished == ~dev.busy /\ ~dev.drq /\ dev.cmd = "none"
Asking(c) == ~dev.busy /\ dev.drq /\ dev.cmd = c /\ (c = "write" => ~irq /\ ~hd_interrupt)
Quiet == ~irq /\ ~hd_interrupt
Silent == Finished /\ Quiet
Rested == Silent \/ (Busy("flush") /\ dev.speed = "slow" /\ Quiet)
Unseen(p) == ~hd_interrupt /\ loop[p] # "over"
Wanted(p) == IF call[p].kind = "clear" THEN "read" ELSE call[p].kind

Phase(p) ==
    /\ pc[p] = "begin" => Rested
    /\ pc[p] = "ready" => (Busy("flush") /\ Unseen(p)) \/ Finished
    /\ pc[p] \in {"sector", "cylinder", "head", "command"} => Silent
    /\ pc[p] = "answer" => (Busy(Wanted(p)) /\ Unseen(p)) \/ Asking(Wanted(p))
    /\ pc[p] = "data" => Asking(Wanted(p)) /\ Quiet
    /\ pc[p] = "flush" => (Busy("writing") /\ Unseen(p)) \/ Finished
    /\ pc[p] = "flushed" => (Busy("writing") /\ Unseen(p)) \/ Busy("flush") \/ Finished
    /\ pc[p] = "end" => Rested /\ (call[p].kind # "write" => Silent)

PhaseInv ==
    /\ (\A p \in Procs : pc[p] = "idle") => Rested
    /\ \A p \in Procs : Phase(p)
    /\ dev.busy => dev.speed \in Speeds

DriverInv == TypeOK /\ CallInv /\ RegInv /\ PhaseInv
-----------------------------------------------------------------------------

(* Quotient and remainder.                                                 *)
LEMMA Division ==
    ASSUME NEW a \in Nat, NEW n \in Nat \ {0}
    PROVE  /\ a \div n \in Nat /\ a % n \in 0 .. n - 1
           /\ a = n * (a \div n) + (a % n)
  OBVIOUS

(* Quotient and remainder of a number given by them.                       *)
LEMMA Quotient ==
    ASSUME NEW n \in Nat \ {0}, NEW q \in Nat, NEW r \in 0 .. n - 1
    PROVE  (n * q + r) \div n = q
<1> DEFINE a == n * q + r
<1>1. a \in Nat /\ a = n * q + r
  OBVIOUS
<1> HIDE DEF a
<1> DEFINE k == a \div n
<1>2. k \in Nat /\ a = n * k + (a % n) /\ a % n \in 0 .. n - 1
  BY <1>1, Division
<1> HIDE DEF k
<1>3. n * (k - q) < n /\ n * (q - k) < n
  <2>1. n * (k - q) = n * k - n * q /\ n * (q - k) = n * q - n * k
    BY <1>2
  <2>2. n * k \in Nat /\ n * q \in Nat
    BY <1>2
  <2> QED
    BY <1>1, <1>2, <2>1, <2>2
<1>4. ASSUME k # q PROVE FALSE
  <2>1. CASE k > q
    <3>1. n * (k - q) >= n
      BY <1>2, <2>1
    <3> QED
      BY <1>2, <1>3, <3>1
  <2>2. CASE k < q
    <3>1. n * (q - k) >= n
      BY <1>2, <2>2
    <3> QED
      BY <1>2, <1>3, <3>1
  <2> QED
    BY <1>2, <1>4, <2>1, <2>2
<1> QED
  BY <1>4 DEF k, a

(* The sector and the head that itoaddr() computes, and the cylinder, name *)
(* the block.                                                              *)
LEMMA BlockAddress ==
    ASSUME NEW b \in Nat, NEW H \in Nat \ {0}, NEW S \in Nat \ {0}
    PROVE  /\ b \div (S * H) = (b \div S) \div H
           /\ ((b \div (S * H)) * H + ((b \div S) % H)) * S + (b % S) = b
<1> DEFINE q == b \div S
           c == q \div H
           h == q % H
           r == b % S
<1>1. q \in Nat /\ r \in 0 .. S - 1 /\ b = S * q + r
  BY Division
<1>2. c \in Nat /\ h \in 0 .. H - 1 /\ q = H * c + h
  BY <1>1, Division
<1> HIDE DEF q, c, h, r
<1>3. b = (S * H) * c + (S * h + r)
  BY <1>1, <1>2
<1>4. S * h + r \in 0 .. S * H - 1 /\ S * H \in Nat \ {0}
  <2>1. S * h <= S * (H - 1)
    BY <1>2
  <2> QED
    BY <1>1, <1>2, <2>1
<1>5. b \div (S * H) = c
  BY <1>2, <1>3, <1>4, Quotient
<1>6. (c * H + h) * S + r = b
  BY <1>1, <1>2
<1> QED
  BY <1>5, <1>6 DEF q, c, h, r

(* What the registers keep of a cylinder is not behind it, and is all of   *)
(* it when it fits in one of them.                                         *)
LEMMA CylinderKept ==
    ASSUME NEW cyl \in Nat
    PROVE  /\ CylinderRegisters(cyl) \in 0 .. cyl
           /\ cyl < Byte => CylinderRegisters(cyl) = cyl
<1> DEFINE k == cyl \div Byte
           s == cyl % Byte
           q == cyl \div (Byte * Byte)
           m == q % Byte
           BB == Byte * Byte
<1>1. Byte \in Nat \ {0} /\ BB \in Nat \ {0}
  BY HardDiskAssumption DEF HardDiskAssumption
<1>2. k \in Nat /\ s \in 0 .. Byte - 1 /\ cyl = Byte * k + s
  BY <1>1, Division
<1> HIDE DEF BB
<1>3. q \in Nat /\ cyl >= BB * q
  <2>1. q \in Nat /\ cyl % BB \in 0 .. BB - 1 /\ cyl = BB * q + (cyl % BB)
    BY <1>1, Division DEF BB
  <2>2. BB * q \in Int
    BY <1>1, <2>1
  <2> QED
    BY <2>1, <2>2
<1> HIDE DEF q
<1>4. m \in Nat /\ q >= m
  <2>1. q \div Byte \in Nat /\ m \in 0 .. Byte - 1 /\ q = Byte * (q \div Byte) + m
    BY <1>1, <1>3, Division
  <2> QED
    BY <1>1, <1>3, <2>1
<1> HIDE DEF k, s, m
<1>5. Byte * q <= BB * q /\ Byte * q \in Nat
  <2>1. BB * q = Byte * (Byte * q)
    BY <1>1, <1>3 DEF BB
  <2>2. Byte * q \in Nat
    BY <1>1, <1>3
  <2> QED
    BY <1>1, <2>1, <2>2
<1>6. q <= k
  <2> SUFFICES ASSUME q >= k + 1 PROVE FALSE
    BY <1>2, <1>3
  <2>1. Byte * q >= Byte * (k + 1)
    BY <1>1, <1>2, <1>3
  <2>2. Byte * (k + 1) = Byte * k + Byte
    BY <1>1, <1>2
  <2> QED
    BY <1>1, <1>2, <1>3, <1>5, <2>1, <2>2
<1>7. Byte * m <= Byte * k /\ Byte * m \in Nat
  BY <1>1, <1>2, <1>3, <1>4, <1>6
<1>8. cyl < Byte => k = 0 /\ m = 0
  <2> SUFFICES ASSUME cyl < Byte, k >= 1 PROVE FALSE
    BY <1>2, <1>3, <1>4, <1>6
  <2>1. Byte * k >= Byte
    BY <1>1, <1>2
  <2> QED
    BY <1>1, <1>2, <2>1
<1>9. CylinderRegisters(cyl) = s + Byte * m
  BY DEF CylinderRegisters, s, m, q, BB
<1> QED
  BY <1>1, <1>2, <1>4, <1>7, <1>8, <1>9

(* So the registers never name a sector behind the disk, and name that of  *)
(* the block if there are no more cylinders than one register can tell.    *)
LEMMA RegistersName ==
    ASSUME NEW b \in Lba
    PROVE  /\ RegistersOf(b) \in Registers
           /\ reg = RegistersOf(b) => Addressed \in Lba
           /\ reg = RegistersOf(b) /\ Cylinders <= Byte => Addressed = b
<1> DEFINE c == b \div (Sectors * Heads)
           h == (b \div Sectors) % Heads
           r == b % Sectors
           k == CylinderRegisters(c)
<1>1. {Cylinders, Heads, Sectors} \subseteq Nat \ {0} /\ Sectors * Heads \in Nat \ {0}
  BY HardDiskAssumption DEF HardDiskAssumption
<1>2. b \in Nat /\ b < Cylinders * Heads * Sectors /\ HdSize \in Nat
  BY <1>1 DEF Lba, HdSize
<1>3. (c * Heads + h) * Sectors + r = b
  BY <1>1, <1>2, BlockAddress
<1>4. r \in 0 .. Sectors - 1 /\ h \in 0 .. Heads - 1 /\ c \in Nat
  <2>1. b \div Sectors \in Nat /\ r \in 0 .. Sectors - 1
    BY <1>1, <1>2, Division
  <2>2. h \in 0 .. Heads - 1
    BY <1>1, <2>1, Division
  <2>3. c \in Nat
    BY <1>1, <1>2, Division
  <2> QED
    BY <2>1, <2>2, <2>3
<1>5. RegistersOf(b) = [sector |-> r + 1, cyl |-> k, head |-> h]
  BY DEF RegistersOf, Itoaddr
<1> HIDE DEF c, h, r
<1>6. k \in 0 .. c /\ (c < Byte => k = c)
  BY <1>4, CylinderKept
<1> HIDE DEF k
<1>7. c < Cylinders
  <2> SUFFICES ASSUME c >= Cylinders PROVE FALSE
    BY <1>1, <1>4
  <2>1. (c * Heads + h) * Sectors >= (c * Heads) * Sectors
    BY <1>1, <1>4
  <2>2. c * Heads >= Cylinders * Heads
    BY <1>1, <1>4
  <2>3. (c * Heads) * Sectors >= (Cylinders * Heads) * Sectors
    BY <1>1, <1>4, <2>2
  <2> QED
    BY <1>1, <1>2, <1>3, <1>4, <2>1, <2>3
<1>8. RegistersOf(b) \in Registers
  BY <1>4, <1>5, <1>6 DEF Registers
<1>9. ASSUME reg = RegistersOf(b)
      PROVE  Addressed \in Lba /\ (Cylinders <= Byte => Addressed = b)
  <2>1. Addressed = (k * Heads + h) * Sectors + r
    <3>1. Addressed = (k * Heads + h) * Sectors + (r + 1) - 1
      BY <1>5, <1>9 DEF Addressed
    <3>2. (k * Heads + h) * Sectors \in Int
      BY <1>1, <1>4, <1>6
    <3> QED
      BY <1>4, <3>1, <3>2
  <2>2. k * Heads + h <= c * Heads + h /\ k * Heads + h \in Nat /\ c * Heads + h \in Nat
    <3>1. k * Heads <= c * Heads
      BY <1>1, <1>4, <1>6
    <3> QED
      BY <1>1, <1>4, <1>6, <3>1
  <2>3. (k * Heads + h) * Sectors <= (c * Heads + h) * Sectors
    BY <1>1, <2>2
  <2>4. (k * Heads + h) * Sectors \in Nat
    BY <1>1, <2>2
  <2>5. Addressed \in 0 .. b
    BY <1>3, <1>2, <1>4, <2>1, <2>3, <2>4, <2>2, <1>1
  <2>6. Cylinders <= Byte => Addressed = b
    <3>1. Byte \in Nat
      BY HardDiskAssumption DEF HardDiskAssumption
    <3> QED
      BY <1>1, <1>3, <1>4, <1>6, <1>7, <2>1, <3>1
  <2> QED
    BY <1>2, <2>5, <2>6 DEF Lba
<1> QED
  BY <1>8, <1>9
----------------------------------------------------------------------------
(* Only the process that is in a call takes a step.                        *)
LEMMA Alone ==
    ASSUME KeepsToTheDisk, DriverInv, NEW p \in Procs, Runs(p)
    PROVE  /\ ~irq /\ ~(dev.busy /\ dev.speed = "fast")
           /\ \A q \in Procs \ {p} : pc[q] = "idle" /\ loop[q] = "test"
  BY DEF KeepsToTheDisk, Runs, DriverInv, CallInv, CallOf, Waits

(* What the process in the call keeps, all processes keep.                 *)
LEMMA OneProcess ==
    ASSUME NEW p \in Procs, \A q \in Procs \ {p} : pc'[q] = "idle" /\ loop'[q] = "test",
           CallOf(p)', RegistersFor(p)', Phase(p)',
           pc'[p] = "idle" => Rested',
           ~hd1' => reg' = RegistersOf(0),
           dev'.busy => dev'.speed \in Speeds
    PROVE  CallInv' /\ RegInv' /\ PhaseInv'
  BY DEF CallInv, CallOf, RegInv, RegistersFor, PhaseInv, Phase

(* The registers at the start are those of block 0.                        *)
LEMMA NoRegisters == RegistersOf(0) = [sector |-> 1, cyl |-> 0, head |-> 0]
<1>1. \A n \in Nat \ {0} : 0 % n = 0 /\ 0 \div n = 0
  OBVIOUS
<1>2. {Sectors, Heads, Byte} \subseteq Nat \ {0} /\ {Sectors * Heads, Byte * Byte} \subseteq Nat \ {0}
  BY HardDiskAssumption DEF HardDiskAssumption
<1> QED
  BY <1>1, <1>2 DEF RegistersOf, Itoaddr, CylinderRegisters

(* At the start the controller rests.                                      *)
LEMMA InitDriverInv == Init => DriverInv
<1> SUFFICES ASSUME Init PROVE DriverInv
  OBVIOUS
<1>1. 0 \in Lba /\ 0 \in Data
  BY HardDiskAssumption DEF HardDiskAssumption, Lba, HdSize
<1>2. TypeOK
  BY <1>1 DEF Init, TypeOK, Labels, CallRecords, Kinds, Buffers, Registers, Devices, Commands, Ready
<1>3. reg = RegistersOf(0)
  BY NoRegisters DEF Init
<1>4. CallInv
  BY DEF Init, CallInv, CallOf
<1>5. RegInv
  BY <1>3 DEF Init, RegInv, RegistersFor
<1>6. PhaseInv
  BY DEF Init, PhaseInv, Phase, Rested, Silent, Finished, Quiet, Ready
<1> QED
  BY <1>2, <1>4, <1>5, <1>6 DEF DriverInv

(* The processor's steps in wait_on_hd_interrupt().                        *)
LEMMA WaitStep ==
    ASSUME KeepsToTheDisk, DriverInv, NEW p \in Procs,
           WaitTest(p) \/ WaitStatus(p) \/ WaitHalt(p)
    PROVE  DriverInv'
<1>1. Runs(p) /\ pc[p] \in Waits /\ ~irq /\ \A q \in Procs \ {p} : pc[q] = "idle" /\ loop[q] = "test"
  BY Alone DEF WaitTest, WaitStatus, WaitHalt, InWait
<1>2. OnlyLoop /\ \E l \in {"test", "status", "halt", "over"} :
         /\ loop' = [loop EXCEPT ![p] = l]
         /\ l = "over" => hd_interrupt \/ ~dev.busy
  BY DEF WaitTest, WaitStatus, WaitHalt, Loop, StatusTells
<1>3. PICK l \in {"test", "status", "halt", "over"} :
         /\ loop' = [loop EXCEPT ![p] = l]
         /\ l = "over" => hd_interrupt \/ ~dev.busy
  BY <1>2
<1>4. TypeOK'
  BY <1>2, <1>3 DEF DriverInv, TypeOK, OnlyLoop, device
<1>5. \A q \in Procs \ {p} : pc'[q] = "idle" /\ loop'[q] = "test"
  BY <1>1, <1>2, <1>3 DEF OnlyLoop, DriverInv, TypeOK
<1>6. CallOf(p)' /\ RegistersFor(p)' /\ (~hd1' => reg' = RegistersOf(0))
  BY <1>1, <1>2 DEF DriverInv, CallInv, CallOf, RegInv, RegistersFor, OnlyLoop, device
<1>7. Phase(p)'
  BY <1>1, <1>2, <1>3
  DEF DriverInv, TypeOK, PhaseInv, Phase, OnlyLoop, device, Waits, Busy, Finished, Asking, Unseen, Wanted,
      Quiet
<1>8. pc'[p] # "idle" /\ (dev'.busy => dev'.speed \in Speeds)
  BY <1>1, <1>2 DEF DriverInv, PhaseInv, OnlyLoop, device, Waits
<1> QED
  BY <1>4, <1>5, <1>6, <1>7, <1>8, OneProcess DEF DriverInv

(* A call starts from what the last one has left.                          *)
LEMMA CallStep ==
    ASSUME KeepsToTheDisk, DriverInv, NEW p \in Procs, HdInit(p) \/ Call(p)
    PROVE  DriverInv'
<1>1. PICK kind \in Kinds, b \in Lba, d \in Data :
         CallsNow(p, kind, b, d) /\ kind # "none" /\ (kind = "identify" => b = 0)
  <2>1. 0 \in Lba /\ 0 \in Data /\ CallBlocks \subseteq Lba
    BY HardDiskAssumption DEF HardDiskAssumption, Lba, HdSize, KeepsToTheDisk
  <2> QED
    BY <2>1 DEF HdInit, Call, Kinds
<1>2. Runs(p) /\ pc[p] = "idle" /\ ~irq /\ \A q \in Procs \ {p} : pc[q] = "idle" /\ loop[q] = "test"
  BY <1>1, Alone DEF CallsNow, At
<1>3. TypeOK'
  BY <1>1 DEF DriverInv, TypeOK, CallsNow, Goto, Labels, CallRecords, device
<1>4. /\ \A q \in Procs \ {p} : pc'[q] = pc[q]
      /\ call'[p].kind = kind /\ call'[p].block = b
      /\ pc'[p] \in {"ready", "command", "begin"} /\ (pc'[p] # "begin" <=> kind = "identify")
      /\ kind = "identify" => (pc'[p] = "ready" <=> dev.busy)
  BY <1>1 DEF CallsNow, Goto, DriverInv, TypeOK, CallRecords, NotReady
<1>5. \A q \in Procs \ {p} : pc'[q] = "idle" /\ loop'[q] = "test"
  BY <1>1, <1>2, <1>4 DEF CallsNow
<1>6. loop[p] = "test" /\ (kind = "identify" <=> ~hd1)
  BY <1>1, <1>2 DEF DriverInv, CallInv, CallOf, Waits, CallsNow
<1>7. CallOf(p)'
  BY <1>1, <1>2, <1>4, <1>6 DEF CallsNow, CallOf, Waits
<1>8. RegistersFor(p)' /\ (~hd1' => reg' = RegistersOf(0))
  BY <1>1, <1>4 DEF DriverInv, RegInv, CallsNow, device, RegistersFor
<1>9. Rested /\ (kind = "identify" => ~hd1)
  BY <1>1, <1>2 DEF DriverInv, PhaseInv, CallsNow
<1>10. Phase(p)'
  BY <1>1, <1>4, <1>9, <1>6
  DEF CallsNow, Phase, device, Rested, Silent, Busy, Finished, Quiet, Unseen
<1>11. pc'[p] # "idle" /\ (dev'.busy => dev'.speed \in Speeds)
  BY <1>1, <1>4 DEF DriverInv, PhaseInv, CallsNow, device
<1> QED
  BY <1>3, <1>5, <1>7, <1>8, <1>10, <1>11, OneProcess DEF DriverInv

(* A call that begins finds the controller resting or flushing.            *)
LEMMA BeginStep ==
    ASSUME KeepsToTheDisk, DriverInv, NEW p \in Procs, Begin(p)
    PROVE  DriverInv'
<1>1. pc[p] = "begin" /\ ~irq /\ \A q \in Procs \ {p} : pc[q] = "idle" /\ loop[q] = "test"
  BY Alone DEF Begin, At
<1>2. TypeOK'
  <2>1. ClearCache \in Buffers /\ [block_nr |-> call[p].block, cache |-> call[p].data] \in Buffers
    BY HardDiskAssumption DEF HardDiskAssumption, Lba, HdSize, ClearCache, Buffers, DriverInv, TypeOK,
       CallRecords
  <2>2. read_cache' \in Buffers /\ write_cache' \in Buffers /\ write_cache'.cache \in Data
    BY <2>1 DEF Begin, DriverInv, TypeOK, CallRecords
  <2> QED
    BY <2>2 DEF DriverInv, TypeOK, Begin, Goto, Labels, device
<1>3. /\ pc' = [pc EXCEPT ![p] = IF NotReady THEN "ready" ELSE "sector"]
      /\ pc'[p] = (IF NotReady THEN "ready" ELSE "sector")
      /\ \A q \in Procs \ {p} : pc'[q] = "idle" /\ loop'[q] = "test"
  BY <1>1 DEF Begin, Goto, DriverInv, TypeOK
<1>4. CallOf(p)' /\ RegistersFor(p)' /\ (~hd1' => reg' = RegistersOf(0))
  BY <1>1, <1>3
  DEF DriverInv, CallInv, CallOf, RegInv, RegistersFor, Begin, device, Waits
<1>5. Phase(p)'
  BY <1>1, <1>3
  DEF DriverInv, CallInv, CallOf, PhaseInv, Phase, Begin, device, NotReady, Rested, Silent, Busy, Finished,
      Quiet, Unseen, Waits
<1>6. pc'[p] # "idle" /\ (dev'.busy => dev'.speed \in Speeds)
  BY <1>3 DEF DriverInv, PhaseInv, Begin, device
<1> QED
  BY <1>2, <1>3, <1>4, <1>5, <1>6, OneProcess DEF DriverInv

(* The wait is over, and the interrupt that ended it is forgotten.         *)
LEMMA WaitOverStep ==
    ASSUME KeepsToTheDisk, DriverInv, NEW p \in Procs, WaitOver(p)
    PROVE  DriverInv'
<1>1. /\ pc[p] \in Waits /\ loop[p] = "over" /\ ~irq /\ ~(dev.busy /\ dev.speed = "fast")
      /\ \A q \in Procs \ {p} : pc[q] = "idle" /\ loop[q] = "test"
  BY Alone DEF WaitOver, InWait
<1>2. TypeOK'
  BY <1>1 DEF DriverInv, TypeOK, WaitOver, WaitOverReset, AfterWait, Waits, Goto, Loop, Labels, device
<1>3. /\ pc'[p] = AfterWait(p) /\ loop'[p] = "test" /\ ~hd_interrupt'
      /\ \A q \in Procs \ {p} : pc'[q] = "idle" /\ loop'[q] = "test"
  BY <1>1 DEF WaitOver, WaitOverReset, Goto, Loop, DriverInv, TypeOK
<1>4. CallOf(p)'
  BY <1>1, <1>3
  DEF DriverInv, CallInv, CallOf, WaitOver, AfterWait, Waits
<1>5. RegistersFor(p)' /\ (~hd1' => reg' = RegistersOf(0))
  BY <1>1, <1>3
  DEF DriverInv, CallInv, CallOf, RegInv, RegistersFor, WaitOver, AfterWait, Waits, device
<1>6. dev.busy => dev.speed = "slow"
  BY <1>1 DEF DriverInv, PhaseInv, KeepsToTheDisk
<1>7. Phase(p)'
  BY <1>1, <1>3, <1>6
  DEF DriverInv, CallInv, CallOf, PhaseInv, Phase, WaitOver, AfterWait, Waits, device, Rested, Silent, Busy,
      Finished, Asking, Quiet, Unseen, Wanted
<1>8. pc'[p] # "idle" /\ (dev'.busy => dev'.speed \in Speeds)
  BY <1>1, <1>3 DEF DriverInv, PhaseInv, WaitOver, AfterWait, Waits, device
<1> QED
  BY <1>2, <1>3, <1>4, <1>5, <1>7, <1>8, OneProcess DEF DriverInv

(* The registers are written one after the other.                          *)
LEMMA OutStep ==
    ASSUME KeepsToTheDisk, DriverInv, NEW p \in Procs, OutSector(p) \/ OutCylinder(p) \/ OutHead(p)
    PROVE  DriverInv'
<1> DEFINE b == call[p].block
<1>1. /\ pc[p] \in {"sector", "cylinder", "head"}
      /\ \A q \in Procs \ {p} : pc[q] = "idle" /\ loop[q] = "test"
  BY Alone DEF OutSector, OutCylinder, OutHead, Out, At
<1>2. RegistersOf(b) \in Registers
  BY RegistersName DEF DriverInv, TypeOK, CallRecords
<1>3. \/ /\ pc[p] = "sector" /\ pc' = [pc EXCEPT ![p] = "cylinder"]
         /\ reg' = [reg EXCEPT !.sector = RegistersOf(b).sector]
      \/ /\ pc[p] = "cylinder" /\ pc' = [pc EXCEPT ![p] = "head"]
         /\ reg' = [reg EXCEPT !.cyl = RegistersOf(b).cyl]
      \/ /\ pc[p] = "head" /\ pc' = [pc EXCEPT ![p] = "command"]
         /\ reg' = [reg EXCEPT !.head = RegistersOf(b).head]
  BY DEF OutSector, OutCylinder, OutHead, Out, At, Goto, RegistersOf
<1>4. UNCHANGED <<loop, call, answer, read_cache, write_cache, hd_interrupt, hd1, calls, dev, irq, disk>>
  BY DEF OutSector, OutCylinder, OutHead, Out
<1>5. TypeOK'
  <2>1. reg' \in Registers
    BY <1>2, <1>3 DEF DriverInv, TypeOK, Registers
  <2>2. pc' \in [Procs -> Labels]
    BY <1>3 DEF DriverInv, TypeOK, Labels
  <2> QED
    BY <1>4, <2>1, <2>2 DEF DriverInv, TypeOK
<1>6. \A q \in Procs \ {p} : pc'[q] = "idle" /\ loop'[q] = "test"
  BY <1>1, <1>3, <1>4 DEF DriverInv, TypeOK
<1>7. hd1 /\ CallOf(p)'
  BY <1>1, <1>3, <1>4 DEF DriverInv, TypeOK, CallInv, CallOf, Waits
<1>8. RegistersFor(p)'
  <2>1. pc'[p] = "command" => reg' = RegistersOf(b)
    <3> SUFFICES ASSUME pc'[p] = "command" PROVE reg' = RegistersOf(b)
      OBVIOUS
    <3>1. pc[p] = "head" /\ reg' = [reg EXCEPT !.head = RegistersOf(b).head]
      BY <1>3 DEF DriverInv, TypeOK
    <3>2. reg.sector = RegistersOf(b).sector /\ reg.cyl = RegistersOf(b).cyl
      BY <3>1 DEF DriverInv, RegInv, RegistersFor
    <3>3. reg \in Registers /\ reg' \in Registers
      BY <1>5 DEF DriverInv, TypeOK
    <3> HIDE DEF b
    <3> QED
      BY <1>2, <3>1, <3>2, <3>3 DEF Registers
  <2>2. pc'[p] \in {"cylinder", "head"} => reg'.sector = RegistersOf(b).sector
    BY <1>3 DEF DriverInv, TypeOK, Registers, RegInv, RegistersFor
  <2>3. pc'[p] = "head" => reg'.cyl = RegistersOf(b).cyl
    BY <1>3 DEF DriverInv, TypeOK, Registers
  <2>4. call' = call /\ pc'[p] \in {"cylinder", "head", "command"}
    BY <1>3, <1>4 DEF DriverInv, TypeOK
  <2> QED
    BY <2>1, <2>2, <2>3, <2>4 DEF RegistersFor
<1>9. pc'[p] \in {"cylinder", "head", "command"} /\ Silent
  BY <1>1, <1>3 DEF DriverInv, TypeOK, PhaseInv, Phase
<1>10. Phase(p)'
  BY <1>4, <1>9 DEF Phase, Silent, Finished, Quiet
<1>11. dev'.busy => dev'.speed \in Speeds
  BY <1>4 DEF DriverInv, PhaseInv
<1> QED
  BY <1>4, <1>5, <1>6, <1>7, <1>8, <1>9, <1>10, <1>11, OneProcess DEF DriverInv

(* A command finds the controller silent.                                  *)
LEMMA OutCommandStep ==
    ASSUME KeepsToTheDisk, DriverInv, NEW p \in Procs, OutCommand(p)
    PROVE  DriverInv'
<1>1. /\ pc[p] \in {"command", "flush"} /\ ~irq
      /\ \A q \in Procs \ {p} : pc[q] = "idle" /\ loop[q] = "test"
  BY Alone DEF OutCommand, At
<1>2. UNCHANGED <<loop, call, answer, read_cache, write_cache, hd_interrupt, hd1, calls, reg, irq, disk>>
  BY DEF OutCommand
<1>3. \/ pc[p] = "command" /\ pc' = [pc EXCEPT ![p] = "answer"] /\ Commanded(Wanted(p))
      \/ pc[p] = "flush" /\ pc' = [pc EXCEPT ![p] = "flushed"] /\ Commanded("flush")
  BY DEF OutCommand, At, Goto, Wanted
<1>4. Wanted(p) \in {"identify", "read", "write"} /\ pc[p] # "idle"
  BY <1>1 DEF DriverInv, TypeOK, CallRecords, CallInv, CallOf, Kinds, Wanted
<1>5. dev' \in Devices /\ (dev'.busy => dev'.speed \in Speeds)
  BY <1>3, <1>4, ZenonT(60) DEF Commanded, DriverInv, TypeOK, Devices, Commands, PhaseInv
<1>6. TypeOK'
  <2>1. pc' \in [Procs -> Labels]
    BY <1>3 DEF DriverInv, TypeOK, Labels
  <2> QED
    BY <1>2, <1>5, <2>1 DEF DriverInv, TypeOK
<1>7. \A q \in Procs \ {p} : pc'[q] = "idle" /\ loop'[q] = "test"
  BY <1>1, <1>2, <1>3 DEF DriverInv, TypeOK
<1>8. CallOf(p)' /\ RegistersFor(p)' /\ (~hd1' => reg' = RegistersOf(0))
  BY <1>2, <1>3
  DEF DriverInv, TypeOK, CallInv, CallOf, RegInv, RegistersFor, Waits
<1>9. Phase(p)'
  <2>1. loop[p] = "test"
    BY <1>1 DEF DriverInv, CallInv, CallOf, Waits
  <2>2. CASE pc[p] = "command"
    <3>1. Silent /\ pc'[p] = "answer" /\ Commanded(Wanted(p))
      BY <1>3, <2>2 DEF DriverInv, TypeOK, PhaseInv, Phase
    <3>2. dev'.busy /\ ~dev'.drq /\ dev'.cmd = Wanted(p)
      BY <3>1 DEF Commanded, Silent, Finished, DriverInv, TypeOK, Devices
    <3> QED
      BY <1>2, <2>1, <3>1, <3>2 DEF Phase, Busy, Wanted, Silent, Quiet, Unseen
  <2>3. CASE pc[p] = "flush"
    <3>1. pc'[p] = "flushed" /\ Commanded("flush") /\ ((Busy("writing") /\ Unseen(p)) \/ Finished)
      BY <1>3, <2>3 DEF DriverInv, TypeOK, PhaseInv, Phase
    <3>2. CASE Finished
      <4>1. dev'.busy /\ ~dev'.drq /\ dev'.cmd = "flush"
        BY <3>1, <3>2 DEF Commanded, Finished, DriverInv, TypeOK, Devices
      <4> QED
        BY <1>1, <1>2, <3>1, <4>1 DEF Phase, Busy
    <3>3. CASE Busy("writing") /\ Unseen(p)
      <4>1. dev' = dev
        BY <3>1, <3>3 DEF Commanded, Busy
      <4> QED
        BY <1>1, <1>2, <3>1, <3>3, <4>1 DEF Phase, Busy, Unseen
    <3> QED
      BY <3>1, <3>2, <3>3
  <2> QED
    BY <1>1, <2>2, <2>3
<1>10. pc'[p] # "idle"
  BY <1>3 DEF DriverInv, TypeOK
<1> QED
  BY <1>5, <1>6, <1>7, <1>8, <1>9, <1>10, OneProcess DEF DriverInv

(* The data is moved, and the call goes on to its end.                     *)
LEMMA DataStep ==
    ASSUME KeepsToTheDisk, DriverInv, NEW p \in Procs, Write(p) \/ Read(p) \/ HdInitEnd(p)
    PROVE  DriverInv'
<1>1. /\ pc[p] = "data" /\ \A q \in Procs \ {p} : pc[q] = "idle" /\ loop[q] = "test"
  BY Alone DEF Write, Read, HdInitEnd, At
<1>2. Asking(Wanted(p)) /\ Quiet /\ loop[p] = "test"
  BY <1>1 DEF DriverInv, PhaseInv, Phase, CallInv, CallOf, Waits
<1>3. dev \in Devices /\ UNCHANGED <<loop, call, hd_interrupt, calls, reg, irq, disk>>
  BY DEF Write, Read, HdInitEnd, DriverInv, TypeOK
<1>4. CASE Write(p)
  <2>1. /\ pc' = [pc EXCEPT ![p] = "flush"] /\ call[p].kind = "write"
        /\ \E s \in Speeds : dev' = [cmd |-> "writing", busy |-> TRUE, drq |-> FALSE, speed |-> s,
                                     buffer |-> write_cache.cache]
        /\ UNCHANGED <<answer, read_cache, write_cache, hd1>>
    BY <1>2, <1>4 DEF Write, Goto, AfterWrite, KeepsToTheDisk, Asking, Wanted
  <2>2. dev' \in Devices /\ dev'.busy /\ ~dev'.drq /\ dev'.cmd = "writing" /\ dev'.speed \in Speeds
    BY <2>1 DEF Devices, Commands, DriverInv, TypeOK
  <2>3. TypeOK'
    BY <1>3, <2>1, <2>2 DEF DriverInv, TypeOK, Labels
  <2>4. pc'[p] = "flush" /\ \A q \in Procs \ {p} : pc'[q] = "idle" /\ loop'[q] = "test"
    BY <1>1, <1>3, <2>1 DEF DriverInv, TypeOK
  <2>5. CallOf(p)' /\ RegistersFor(p)' /\ (~hd1' => reg' = RegistersOf(0))
    BY <1>1, <1>2, <1>3, <2>1, <2>4 DEF DriverInv, CallInv, CallOf, RegInv, RegistersFor
  <2>6. Phase(p)'
    BY <1>2, <1>3, <2>2, <2>4 DEF Phase, Busy, Unseen, Quiet
  <2> QED
    BY <2>2, <2>3, <2>4, <2>5, <2>6, OneProcess DEF DriverInv
<1>5. CASE Read(p) \/ HdInitEnd(p)
  <2>1. /\ dev' = [dev EXCEPT !.drq = FALSE, !.cmd = "none"]
        /\ UNCHANGED write_cache
    BY <1>2, <1>5 DEF Read, HdInitEnd, Taken, Asking
  <2>2. dev' \in Devices /\ ~dev'.busy /\ Silent'
    BY <1>2, <1>3, <2>1 DEF Devices, Commands, Asking, Silent, Finished, Quiet
  <2>3. CASE Read(p)
    <3>1. /\ pc' = [pc EXCEPT ![p] = "end"] /\ call[p].kind \in {"read", "clear"}
          /\ read_cache' = [read_cache EXCEPT !.cache = Given]
          /\ UNCHANGED <<answer, hd1>>
      BY <2>3 DEF Read, Goto
    <3>2. TypeOK'
      <4>1. Given \in Data \cup {Junk}
        BY <1>3 DEF Given, Devices
      <4>2. read_cache' \in Buffers /\ pc' \in [Procs -> Labels]
        BY <3>1, <4>1 DEF DriverInv, TypeOK, Buffers, Labels
      <4> QED
        BY <1>3, <2>1, <2>2, <3>1, <4>2 DEF DriverInv, TypeOK
    <3>3. pc'[p] = "end" /\ \A q \in Procs \ {p} : pc'[q] = "idle" /\ loop'[q] = "test"
      BY <1>1, <1>3, <3>1 DEF DriverInv, TypeOK
    <3>4. CallOf(p)' /\ RegistersFor(p)' /\ (~hd1' => reg' = RegistersOf(0))
      BY <1>1, <1>2, <1>3, <3>1, <3>3 DEF DriverInv, CallInv, CallOf, RegInv, RegistersFor
    <3>5. Phase(p)'
      BY <2>2, <3>3 DEF Phase, Rested
    <3> QED
      BY <2>2, <3>2, <3>3, <3>4, <3>5, OneProcess DEF DriverInv
  <2>4. CASE HdInitEnd(p)
    <3>1. /\ pc' = [pc EXCEPT ![p] = "idle"] /\ call[p].kind = "identify"
          /\ hd1' = TRUE
          /\ UNCHANGED <<answer, read_cache>>
      BY <1>2, <2>4 DEF HdInitEnd, Goto, Asking, Wanted
    <3>2. TypeOK'
      BY <1>3, <2>1, <2>2, <3>1 DEF DriverInv, TypeOK, Labels
    <3>3. pc'[p] = "idle" /\ \A q \in Procs \ {p} : pc'[q] = "idle" /\ loop'[q] = "test"
      BY <1>1, <1>3, <3>1 DEF DriverInv, TypeOK
    <3>4. CallOf(p)' /\ RegistersFor(p)' /\ Phase(p)' /\ Rested'
      BY <1>2, <1>3, <2>2, <3>1, <3>3 DEF CallOf, RegistersFor, Phase, Rested
    <3> QED
      BY <2>2, <3>1, <3>2, <3>3, <3>4, OneProcess DEF DriverInv
  <2> QED
    BY <1>5, <2>3, <2>4
<1> QED
  BY <1>4, <1>5

(* A block function returns, or clear_block() goes on to write.            *)
LEMMA EndStep ==
    ASSUME KeepsToTheDisk, DriverInv, NEW p \in Procs, RdBlock(p) \/ ClearBlock(p) \/ WrtBlock(p)
    PROVE  DriverInv'
<1>1. /\ pc[p] = "end" /\ \A q \in Procs \ {p} : pc[q] = "idle" /\ loop[q] = "test"
  BY Alone DEF RdBlock, ClearBlock, WrtBlock, At
<1>2. /\ Rested /\ (call[p].kind # "write" => Silent) /\ loop[p] = "test"
      /\ hd1 /\ (dev.busy => dev.speed \in Speeds)
  BY <1>1 DEF DriverInv, PhaseInv, Phase, CallInv, CallOf, Waits
<1>3. UNCHANGED <<loop, write_cache, hd_interrupt, hd1, calls, device>>
  BY DEF RdBlock, ClearBlock, WrtBlock
<1>4. Rested'
  BY <1>2, <1>3 DEF Rested, Silent, Finished, Quiet, Busy, device
<1>5. CASE RdBlock(p) \/ WrtBlock(p)
  <2>1. pc' = [pc EXCEPT ![p] = "idle"] /\ UNCHANGED call
    BY <1>5 DEF RdBlock, WrtBlock, Goto
  <2>2. TypeOK'
    <3>1. read_cache' \in Buffers
      BY <1>5 DEF RdBlock, WrtBlock, DriverInv, TypeOK, Buffers, CallRecords
    <3>2. answer' \in [Procs -> Data \cup {Junk}]
      BY <1>5 DEF RdBlock, WrtBlock, DriverInv, TypeOK, Buffers
    <3> QED
      BY <1>3, <2>1, <3>1, <3>2 DEF DriverInv, TypeOK, Labels, device
  <2>3. pc'[p] = "idle" /\ \A q \in Procs \ {p} : pc'[q] = "idle" /\ loop'[q] = "test"
    BY <1>1, <1>3, <2>1 DEF DriverInv, TypeOK
  <2>4. CallOf(p)' /\ RegistersFor(p)' /\ Phase(p)'
    BY <1>2, <1>3, <2>3 DEF CallOf, RegistersFor, Phase
  <2> QED
    BY <1>2, <1>3, <1>4, <2>2, <2>3, <2>4, OneProcess DEF DriverInv, device
<1>6. CASE ClearBlock(p)
  <2>1. /\ pc' = [pc EXCEPT ![p] = "begin"] /\ call' = [call EXCEPT ![p].kind = "write"]
        /\ read_cache' = [block_nr |-> call[p].block, cache |-> 0] /\ UNCHANGED answer
    BY <1>6 DEF ClearBlock, Goto
  <2>2. TypeOK'
    <3>1. read_cache' \in Buffers
      BY <2>1, HardDiskAssumption DEF HardDiskAssumption, DriverInv, TypeOK, Buffers, CallRecords
    <3>2. call' \in [Procs -> CallRecords]
      BY <2>1 DEF DriverInv, TypeOK, CallRecords, Kinds
    <3> QED
      BY <1>3, <2>1, <3>1, <3>2 DEF DriverInv, TypeOK, Labels, device
  <2>3. /\ pc'[p] = "begin" /\ call'[p].kind = "write"
        /\ \A q \in Procs \ {p} : pc'[q] = "idle" /\ loop'[q] = "test"
    BY <1>1, <1>3, <2>1 DEF DriverInv, TypeOK, CallRecords
  <2>4. CallOf(p)' /\ RegistersFor(p)' /\ Phase(p)'
    BY <1>2, <1>3, <1>4, <2>3 DEF CallOf, RegistersFor, Phase
  <2> QED
    BY <1>2, <1>3, <1>4, <2>2, <2>3, <2>4, OneProcess DEF DriverInv, device
<1> QED
  BY <1>5, <1>6

(* The controller gets done, and never where the driver would miss it.     *)
LEMMA DeviceStep ==
    ASSUME KeepsToTheDisk, DriverInv, DeviceDone
    PROVE  DriverInv'
<1>1. UNCHANGED <<pc, loop, call, answer, read_cache, write_cache, hd_interrupt, hd1, calls, reg>>
  BY DEF DeviceDone, driver
<1>2. dev.busy /\ dev.speed \in Speeds /\ dev \in Devices
  BY DEF DeviceDone, DriverInv, PhaseInv, TypeOK
<1>3. \E p \in Procs : pc[p] # "idle"
  <2> SUFFICES ASSUME \A p \in Procs : pc[p] = "idle" PROVE FALSE
    OBVIOUS
  <2>1. dev.speed = "slow"
    BY <1>2 DEF DriverInv, PhaseInv, Rested, Silent, Finished
  <2> QED
    BY <2>1 DEF DeviceDone, Waits
<1>4. PICK p \in Procs : pc[p] # "idle" /\ \A q \in Procs \ {p} : pc[q] = "idle" /\ loop[q] = "test"
  BY <1>3 DEF DriverInv, CallInv, CallOf, Waits
<1>5. pc[p] \in {"ready", "answer", "flush", "flushed"}
  <2>1. dev.speed = "slow" => pc[p] \in Waits
    BY <1>4 DEF DeviceDone, Waits
  <2>2. Phase(p) /\ pc[p] \in Labels
    BY DEF DriverInv, PhaseInv, TypeOK
  <2> QED
    BY <1>2, <1>4, <2>1, <2>2 DEF Phase, Labels, Rested, Silent, Finished, Asking, Waits
<1>6. ~dev.drq /\ dev.cmd \in {"identify", "read", "write", "writing", "flush"}
  BY <1>2, <1>5 DEF DriverInv, PhaseInv, Phase, Busy, Finished, Asking, TypeOK, CallInv, CallOf, Wanted,
     CallRecords, Kinds
<1>7. dev.cmd \in {"identify", "read", "write", "writing"} => Addressed \in Lba
  <2> SUFFICES ASSUME dev.cmd \in {"identify", "read", "write", "writing"}
               PROVE  pc[p] \in {"answer", "flush", "flushed"}
    BY RegistersName DEF DriverInv, RegInv, RegistersFor, TypeOK, CallRecords
  <2> QED
    BY <1>2, <1>5 DEF DriverInv, PhaseInv, Phase, Busy, Finished
<1> DEFINE A == Addressed \in Lba
           D == disk[Addressed]
<1>8. dev' = [dev EXCEPT !.busy = FALSE, !.drq = dev.cmd \in {"read", "write", "identify"} /\ A,
                         !.cmd = IF dev.cmd \in {"writing", "flush"} THEN "none" ELSE dev.cmd,
                         !.buffer = IF dev.cmd = "read" /\ A THEN D ELSE dev.buffer]
      /\ irq' = (dev.cmd # "write")
  BY DEF DeviceDone
<1>9. A \in BOOLEAN /\ (dev.cmd \in {"read", "write", "identify"} => A) /\ (A => D \in Data)
  BY <1>7 DEF DriverInv, TypeOK
<1> HIDE DEF A, D
<1>10. /\ dev' \in Devices /\ ~dev'.busy
       /\ dev'.drq = (dev.cmd \in {"read", "write", "identify"})
       /\ dev'.cmd = IF dev.cmd \in {"writing", "flush"} THEN "none" ELSE dev.cmd
  <2>1. ~dev'.busy /\ dev'.cmd = IF dev.cmd \in {"writing", "flush"} THEN "none" ELSE dev.cmd
    BY <1>2, <1>8 DEF Devices
  <2>2. dev'.drq = (dev.cmd \in {"read", "write", "identify"} /\ A)
    BY <1>2, <1>8 DEF Devices
  <2>3. dev'.drq = (dev.cmd \in {"read", "write", "identify"})
    <3>1. CASE dev.cmd \in {"read", "write", "identify"}
      BY <1>9, <2>2, <3>1
    <3>2. CASE dev.cmd \notin {"read", "write", "identify"}
      BY <2>2, <3>2
    <3> QED
      BY <3>1, <3>2
  <2>4. dev'.buffer \in Data
    BY <1>2, <1>8, <1>9 DEF Devices
  <2>5. dev' \in Devices
    BY <1>2, <1>8, <2>1, <2>3, <2>4 DEF Devices, Commands
  <2> QED
    BY <2>1, <2>3, <2>5
<1>11. TypeOK'
  <2>1. disk' \in [Lba -> Data]
    BY <1>2 DEF DeviceDone, DriverInv, TypeOK, Devices
  <2> QED
    BY <1>1, <1>8, <1>10, <2>1 DEF DriverInv, TypeOK
<1>12. Phase(p)'
  <2>1. Phase(p) /\ Wanted(p)' = Wanted(p) /\ Wanted(p) \in {"identify", "read", "write"}
    BY <1>1, <1>4 DEF DriverInv, PhaseInv, CallInv, CallOf, Wanted, TypeOK, CallRecords, Kinds
  <2>2. CASE pc[p] = "answer"
    BY <1>1, <1>2, <1>8, <1>10, <2>1, <2>2 DEF Phase, Busy, Asking, Quiet, Unseen
  <2>3. CASE pc[p] \in {"ready", "flush", "flushed"}
    BY <1>1, <1>2, <1>10, <2>1, <2>3 DEF Phase, Busy, Finished
  <2> QED
    BY <1>5, <2>2, <2>3
<1>13. CallOf(p)' /\ RegistersFor(p)' /\ (~hd1' => reg' = RegistersOf(0))
  BY <1>1 DEF DriverInv, CallInv, CallOf, RegInv, RegistersFor
<1> QED
  BY <1>1, <1>4, <1>10, <1>11, <1>12, <1>13, OneProcess DEF DriverInv

(* The handler sets hd_interrupt while somebody waits for it.              *)
LEMMA HandlerStep ==
    ASSUME KeepsToTheDisk, DriverInv, HdHandler
    PROVE  DriverInv'
<1>1. /\ irq /\ ~dev.busy /\ irq' = FALSE /\ hd_interrupt' = TRUE
      /\ UNCHANGED <<pc, loop, call, answer, read_cache, write_cache, hd1, calls, reg, dev, disk>>
  BY DEF HdHandler
<1>2. PICK p \in Procs : pc[p] # "idle" /\ \A q \in Procs \ {p} : pc[q] = "idle" /\ loop[q] = "test"
  BY <1>1 DEF DriverInv, CallInv, CallOf, Waits, PhaseInv, Rested, Silent, Quiet, Busy
<1>3. TypeOK'
  BY <1>1 DEF DriverInv, TypeOK
<1>4. Phase(p)'
  BY <1>1
  DEF DriverInv, PhaseInv, Phase, Rested, Silent, Quiet, Busy, Finished, Asking, Unseen, Wanted
<1>5. CallOf(p)' /\ RegistersFor(p)' /\ (~hd1' => reg' = RegistersOf(0))
  BY <1>1 DEF DriverInv, CallInv, CallOf, RegInv, RegistersFor
<1> QED
  BY <1>1, <1>2, <1>3, <1>4, <1>5, OneProcess DEF DriverInv

(* All steps together.                                                     *)
LEMMA NextDriverInv ==
    ASSUME KeepsToTheDisk, DriverInv, [Next]_vars PROVE DriverInv'
<1>1. CASE UNCHANGED vars
  BY <1>1
  DEF vars, driver, device, DriverInv, TypeOK, CallInv, CallOf, RegInv, RegistersFor, PhaseInv, Phase,
      Rested, Silent, Quiet, Busy, Finished, Asking, Unseen, Wanted
<1>2. ASSUME NEW p \in Procs, Step(p) PROVE DriverInv'
  BY <1>2, BeginStep, WaitStep, WaitOverStep, OutStep, OutCommandStep, DataStep, EndStep DEF Step
<1> QED
  BY <1>1, <1>2, CallStep, DeviceStep, HandlerStep DEF Next

(* Callers that take turns: data is moved, in either direction, only when  *)
(* the controller asks for it, whatever the geometry of the disk.          *)
THEOREM NoTransferUnasked ==
    ASSUME KeepsToTheDisk PROVE Spec => []TransferWhenAsked
<1>1. DriverInv => TransferWhenAsked
  BY DEF DriverInv, PhaseInv, Phase, TransferWhenAsked, Asking, Wanted
<1>2. DriverInv /\ [Next]_vars => DriverInv'
  BY NextDriverInv
<1> QED
  BY <1>1, <1>2, InitDriverInv, PTL DEF Spec

----------------------------------------------------------------------------
(* What is on its way to the disk and from it.                             *)
DataOf(p) ==
    /\ pc[p] \in {"ready", "sector", "cylinder", "head", "command", "answer", "data"} =>
         (call[p].kind = "write" => write_cache.cache = call[p].data)
    /\ pc[p] \in {"answer", "data"} =>
         (Wanted(p) = "read" /\ dev.drq => dev.buffer = disk[call[p].block])
    /\ pc[p] = "end" =>
         (call[p].kind = "read" => read_cache.cache = disk[call[p].block])

DataInv == \A p \in Procs : DataOf(p)

(* The store, and the calls, as their users see them.                      *)
StoreNow == [b \in Lba |-> IF dev.cmd = "writing" /\ Addressed = b THEN dev.buffer ELSE disk[b]]
CallsMade == [p \in Procs |-> BlockCall(p)]

StoreStep == [Store!Next]_(Store!vars)

(* A step that changes none of what the store maps is a stutter of it.     *)
LEMMA StoreStutters ==
    ASSUME StoreNow' = StoreNow, CallsMade' = CallsMade, answer' = answer
    PROVE  StoreStep
  BY DEF StoreStep, StoreNow, CallsMade, Store!vars

(* A step of one process or of the controller that the callers do not see. *)
LEMMA Unseeing ==
    ASSUME NEW p \in Procs, \A q \in Procs \ {p} : pc[q] = "idle" /\ pc'[q] = "idle",
           BlockCall(p)' = BlockCall(p), DataOf(p)', StoreNow' = StoreNow, answer' = answer
    PROVE  DataInv' /\ StoreStep
<1>1. \A q \in Procs : BlockCall(q)' = BlockCall(q)
  BY DEF BlockCall
<1>2. CallsMade' = CallsMade
  BY <1>1 DEF CallsMade
<1>3. DataInv'
  BY DEF DataInv, DataOf
<1> QED
  BY <1>2, <1>3, StoreStutters

(* While nothing is being written the store is what is on the disk.        *)
LEMMA StoreKept ==
    ASSUME dev.cmd # "writing", dev'.cmd # "writing", disk' = disk
    PROVE  StoreNow' = StoreNow
  BY DEF StoreNow

(* At the start every block holds zeros.                                   *)
LEMMA InitStore == Init => DataInv /\ Store!Init
<1> SUFFICES ASSUME Init PROVE DataInv /\ Store!Init
  OBVIOUS
<1>1. StoreNow \in [Lba -> Data] /\ answer \in [Procs -> Data]
  BY HardDiskAssumption DEF HardDiskAssumption, Init, StoreNow, Ready
<1>2. CallsMade = [p \in Procs |-> Store!None]
  BY DEF Init, CallsMade, BlockCall, Store!None
<1>3. Store!Init
  BY <1>1, <1>2 DEF Store!Init, StoreNow, CallsMade
<1>4. DataInv
  BY DEF Init, DataInv, DataOf
<1> QED
  BY <1>3, <1>4

Stores == KeepsToTheDisk /\ Cylinders <= Byte /\ DriverInv /\ DataInv

(* A call begins, and is seen to, unless it is hd_init().                  *)
LEMMA CallStored ==
    ASSUME Stores, NEW p \in Procs, HdInit(p) \/ Call(p)
    PROVE  DataInv' /\ StoreStep
<1>1. PICK kind \in {"identify", "read", "clear", "write"}, b \in Lba, d \in Data :
         CallsNow(p, kind, b, d) /\ (kind = "clear" => d = 0)
  <2>1. 0 \in Lba /\ 0 \in Data /\ CallBlocks \subseteq Lba
    BY HardDiskAssumption DEF HardDiskAssumption, Lba, HdSize, Stores, KeepsToTheDisk
  <2> QED
    BY <2>1 DEF HdInit, Call
<1>2. pc[p] = "idle" /\ \A q \in Procs \ {p} : pc[q] = "idle"
  BY <1>1, Alone DEF CallsNow, At, Stores
<1>3. /\ pc'[p] \in {"ready", "command", "begin"} /\ (pc'[p] # "begin" <=> kind = "identify")
      /\ call'[p] = [kind |-> kind, block |-> b, data |-> d]
      /\ \A q \in Procs \ {p} : pc'[q] = "idle"
      /\ UNCHANGED <<answer, disk, dev, reg>>
  BY <1>1, <1>2 DEF CallsNow, Goto, Stores, DriverInv, TypeOK, device
<1>4. StoreNow' = StoreNow
  BY <1>3 DEF StoreNow, Addressed
<1>5. DataOf(p)'
  BY <1>3 DEF DataOf
<1>6. CASE kind = "identify"
  <2>1. BlockCall(p)' = BlockCall(p)
    BY <1>2, <1>3, <1>6 DEF BlockCall
  <2> QED
    BY <1>2, <1>3, <1>4, <1>5, <2>1, Unseeing
<1>7. CASE kind # "identify"
  <2> DEFINE c == IF kind = "read" THEN [kind |-> "read", block |-> b]
                  ELSE [kind |-> "write", block |-> b, data |-> d]
  <2>1. BlockCall(p)' = c /\ BlockCall(p) = Store!None
    BY <1>2, <1>3, <1>7 DEF BlockCall, Accepted, Store!None
  <2>2. c \in Store!Calls \ {Store!None, Store!Done}
    BY <1>7 DEF Store!Calls, Store!None, Store!Done
  <2> HIDE DEF c
  <2>3. \A q \in Procs \ {p} : BlockCall(q)' = BlockCall(q)
    BY <1>2, <1>3 DEF BlockCall
  <2>4. CallsMade[p] = Store!None /\ CallsMade' = [CallsMade EXCEPT ![p] = c]
    BY <2>1, <2>3 DEF CallsMade
  <2>5. Store!Start(p)
    BY <1>3, <1>4, <2>2, <2>4 DEF Store!Start, CallsMade, StoreNow
  <2>6. DataInv'
    BY <1>3, <1>5 DEF DataInv, DataOf
  <2> QED
    BY <2>5, <2>6 DEF StoreStep, Store!Next
<1> QED
  BY <1>6, <1>7

(* On the way to the data nothing is written, and nothing is seen.         *)
LEMMA UnseenStored ==
    ASSUME Stores, NEW p \in Procs,
           \/ Begin(p) \/ WaitTest(p) \/ WaitStatus(p) \/ WaitHalt(p) \/ WaitOver(p)
           \/ OutSector(p) \/ OutCylinder(p) \/ OutHead(p) \/ ClearBlock(p)
    PROVE  DataInv' /\ StoreStep
<1>1. Runs(p) /\ pc[p] # "idle"
  BY DEF Begin, WaitTest, WaitStatus, WaitHalt, WaitOver, OutSector, OutCylinder, OutHead, ClearBlock,
     Out, At, InWait, Waits
<1>2. /\ ~irq /\ ~(dev.busy /\ dev.speed = "fast")
      /\ \A q \in Procs \ {p} : pc[q] = "idle"
  BY <1>1, Alone DEF Stores
<1>3. UNCHANGED <<answer, dev, disk>>
  BY DEF Begin, WaitTest, WaitStatus, WaitHalt, WaitOver, OutSector, OutCylinder, OutHead, ClearBlock,
     Out, OnlyLoop, device
<1>4. reg' = reg \/ dev.cmd # "writing"
  <2>1. OutSector(p) \/ OutCylinder(p) \/ OutHead(p) => Silent
    BY DEF Stores, DriverInv, PhaseInv, Phase, OutSector, OutCylinder, OutHead, Out, At
  <2> QED
    BY <2>1 DEF Begin, WaitTest, WaitStatus, WaitHalt, WaitOver, ClearBlock, OnlyLoop, device, Silent,
       Finished
<1>5. StoreNow' = StoreNow
  BY <1>3, <1>4 DEF StoreNow, Addressed
<1>6. \A q \in Procs \ {p} : pc'[q] = "idle"
  BY <1>2 DEF Begin, WaitTest, WaitStatus, WaitHalt, WaitOver, OutSector, OutCylinder, OutHead,
     ClearBlock, Out, OnlyLoop, Goto, Stores, DriverInv, TypeOK
<1>7. CASE Begin(p)
  <2>1. /\ pc[p] = "begin" /\ pc'[p] \in {"ready", "sector"} /\ call' = call
        /\ call[p].kind = "write" => write_cache'.cache = call[p].data
    BY <1>7 DEF Begin, At, Goto, Stores, DriverInv, TypeOK
  <2>2. DataOf(p)' /\ BlockCall(p)' = BlockCall(p)
    BY <2>1 DEF DataOf, BlockCall, Accepted
  <2> QED
    BY <1>2, <1>3, <1>5, <1>6, <2>2, Unseeing
<1>8. CASE WaitTest(p) \/ WaitStatus(p) \/ WaitHalt(p)
  <2>1. UNCHANGED <<pc, call, write_cache, read_cache>>
    BY <1>8 DEF WaitTest, WaitStatus, WaitHalt, OnlyLoop
  <2>2. DataOf(p)' /\ BlockCall(p)' = BlockCall(p)
    BY <1>3, <2>1 DEF Stores, DataInv, DataOf, BlockCall, Accepted, Wanted
  <2> QED
    BY <1>2, <1>3, <1>5, <1>6, <2>2, Unseeing
<1>9. CASE WaitOver(p)
  <2>1. /\ \/ pc[p] = "ready" /\ pc'[p] \in {"command", "sector"}
           \/ pc[p] = "answer" /\ pc'[p] = "data"
           \/ pc[p] = "flushed" /\ pc'[p] = "end"
        /\ UNCHANGED <<call, write_cache, read_cache>>
    BY <1>9 DEF WaitOver, InWait, Waits, AfterWait, Goto, Stores, DriverInv, TypeOK
  <2>2. pc[p] = "flushed" => call[p].kind = "write"
    BY DEF Stores, DriverInv, CallInv, CallOf
  <2>3. DataOf(p)' /\ BlockCall(p)' = BlockCall(p)
    BY <1>3, <2>1, <2>2 DEF Stores, DataInv, DataOf, BlockCall, Accepted, Wanted
  <2> QED
    BY <1>2, <1>3, <1>5, <1>6, <2>3, Unseeing
<1>10. CASE OutSector(p) \/ OutCylinder(p) \/ OutHead(p)
  <2>1. /\ pc[p] \in {"sector", "cylinder", "head"} /\ pc'[p] \in {"cylinder", "head", "command"}
        /\ UNCHANGED <<call, write_cache, read_cache>>
    BY <1>10 DEF OutSector, OutCylinder, OutHead, Out, At, Goto, Stores, DriverInv, TypeOK
  <2>2. DataOf(p)' /\ BlockCall(p)' = BlockCall(p)
    BY <2>1 DEF Stores, DataInv, DataOf, BlockCall, Accepted
  <2> QED
    BY <1>2, <1>3, <1>5, <1>6, <2>2, Unseeing
<1>11. CASE ClearBlock(p)
  <2>1. /\ pc[p] = "end" /\ pc'[p] = "begin" /\ call[p].kind = "clear"
        /\ call'[p].kind = "write" /\ call'[p].block = call[p].block /\ call'[p].data = call[p].data
    BY <1>11 DEF ClearBlock, At, Goto, Stores, DriverInv, TypeOK, CallRecords
  <2>2. DataOf(p)' /\ BlockCall(p)' = BlockCall(p)
    BY <2>1 DEF DataOf, BlockCall, Accepted
  <2> QED
    BY <1>2, <1>3, <1>5, <1>6, <2>2, Unseeing
<1> QED
  BY <1>7, <1>8, <1>9, <1>10, <1>11

(* The command names the block of the call.                                *)
LEMMA CommandStored ==
    ASSUME Stores, NEW p \in Procs, OutCommand(p)
    PROVE  DataInv' /\ StoreStep
<1>1. /\ pc[p] \in {"command", "flush"} /\ \A q \in Procs \ {p} : pc[q] = "idle"
  BY Alone DEF OutCommand, At, Stores
<1>2. UNCHANGED <<call, answer, read_cache, write_cache, reg, disk>>
  BY DEF OutCommand
<1>3. \/ /\ pc[p] = "command" /\ pc' = [pc EXCEPT ![p] = "answer"] /\ Commanded(Wanted(p)) /\ Silent
      \/ /\ pc[p] = "flush" /\ pc' = [pc EXCEPT ![p] = "flushed"] /\ Commanded("flush")
         /\ call[p].kind = "write" /\ (Busy("writing") \/ Finished)
  BY DEF OutCommand, At, Goto, Wanted, Stores, DriverInv, PhaseInv, Phase, CallInv, CallOf
<1>4. /\ pc'[p] \in {"answer", "flushed"} /\ \A q \in Procs \ {p} : pc'[q] = "idle"
  BY <1>1, <1>3 DEF Stores, DriverInv, TypeOK
<1>5. Wanted(p) # "writing" /\ dev \in Devices
  BY DEF Wanted, Stores, DriverInv, TypeOK, CallRecords, Kinds
<1>6. StoreNow' = StoreNow
  <2>1. CASE dev' = dev
    BY <1>2, <2>1 DEF StoreNow, Addressed
  <2>2. CASE dev' # dev
    <3>1. ~dev.busy /\ dev'.cmd # "writing"
      BY <1>3, <1>5, <2>2 DEF Commanded, Devices
    <3>2. dev.cmd # "writing"
      BY <1>3, <3>1 DEF Silent, Finished, Busy
    <3> QED
      BY <1>2, <3>1, <3>2, StoreKept
  <2> QED
    BY <2>1, <2>2
<1>7. ~dev'.drq
  BY <1>3, <1>5 DEF Commanded, Devices, Silent, Finished, Busy
<1>8. DataOf(p)' /\ BlockCall(p)' = BlockCall(p)
  BY <1>1, <1>2, <1>3, <1>4, <1>7
  DEF Stores, DriverInv, TypeOK, DataInv, DataOf, BlockCall, Accepted, Wanted
<1> QED
  BY <1>1, <1>2, <1>4, <1>6, <1>8, Unseeing

(* The registers name the block while a command for it is under way.       *)
LEMMA Named ==
    ASSUME Stores, NEW p \in Procs, pc[p] \in {"command", "answer", "data", "flush", "flushed"}
    PROVE  call[p].block \in Lba /\ Addressed = call[p].block
  BY RegistersName DEF Stores, DriverInv, RegInv, RegistersFor, TypeOK, CallRecords

(* The sector is handed over: this is when the block is written.           *)
LEMMA WriteStored ==
    ASSUME Stores, NEW p \in Procs, Write(p)
    PROVE  DataInv' /\ StoreStep
<1> DEFINE b == call[p].block
<1>1. /\ pc[p] = "data" /\ call[p].kind = "write" /\ \A q \in Procs \ {p} : pc[q] = "idle"
  BY Alone DEF Write, At, Stores
<1>2. dev.drq /\ dev.cmd = "write" /\ write_cache.cache = call[p].data
  BY <1>1 DEF Stores, DriverInv, PhaseInv, Phase, Asking, Wanted, DataInv, DataOf
<1>3. /\ pc' = [pc EXCEPT ![p] = "flush"] /\ UNCHANGED <<call, answer, disk, reg>>
      /\ dev'.cmd = "writing" /\ dev'.buffer = call[p].data
  BY <1>2 DEF Write, Goto, AfterWrite, Stores, KeepsToTheDisk
<1>4. pc'[p] = "flush" /\ \A q \in Procs \ {p} : pc'[q] = "idle"
  BY <1>1, <1>3 DEF Stores, DriverInv, TypeOK
<1>5. b \in Lba /\ Addressed = b /\ Addressed' = b
  BY <1>1, <1>3, Named DEF Addressed
<1>6. StoreNow' = [StoreNow EXCEPT ![b] = call[p].data]
  BY <1>2, <1>3, <1>5 DEF StoreNow
<1>7. BlockCall(p) = [kind |-> "write", block |-> b, data |-> call[p].data]
  BY <1>1 DEF BlockCall, Accepted
<1>8. BlockCall(p)' = Store!Done
  BY <1>1, <1>3, <1>4 DEF BlockCall, Accepted, Store!Done
<1>9. \A q \in Procs \ {p} : BlockCall(q)' = BlockCall(q)
  BY <1>1, <1>4 DEF BlockCall
<1>10. /\ CallsMade[p] = [kind |-> "write", block |-> b, data |-> call[p].data]
       /\ CallsMade' = [CallsMade EXCEPT ![p] = Store!Done]
  BY <1>7, <1>8, <1>9 DEF CallsMade
<1>11. /\ CallsMade[p].kind = "write" /\ CallsMade[p].block = b /\ CallsMade[p].data = call[p].data
  BY <1>10
<1>12. Store!Store(p)
  BY <1>3, <1>6, <1>10, <1>11 DEF Store!Store, CallsMade, StoreNow
<1>13. DataInv'
  BY <1>4 DEF DataInv, DataOf
<1> QED
  BY <1>12, <1>13 DEF StoreStep, Store!Next

(* What is read from the controller is the block of the call.              *)
LEMMA ReadStored ==
    ASSUME Stores, NEW p \in Procs, Read(p) \/ HdInitEnd(p)
    PROVE  DataInv' /\ StoreStep
<1>1. /\ pc[p] = "data" /\ call[p].kind \in {"identify", "read", "clear"}
      /\ \A q \in Procs \ {p} : pc[q] = "idle"
  BY Alone DEF Read, HdInitEnd, At, Stores
<1>2. dev.drq /\ dev.cmd \in {"identify", "read"} /\ dev \in Devices
  BY <1>1 DEF Stores, DriverInv, PhaseInv, Phase, Asking, Wanted, TypeOK
<1>3. UNCHANGED <<call, answer, disk, reg>> /\ dev' = [dev EXCEPT !.drq = FALSE, !.cmd = "none"]
  BY <1>2 DEF Read, HdInitEnd, Taken
<1>4. StoreNow' = StoreNow
  <2>1. dev'.cmd = "none"
    BY <1>2, <1>3 DEF Devices
  <2> QED
    BY <1>2, <1>3, <2>1, StoreKept
<1>5. CASE Read(p)
  <2>1. /\ pc'[p] = "end" /\ call[p].kind \in {"read", "clear"}
        /\ \A q \in Procs \ {p} : pc'[q] = "idle"
    BY <1>1, <1>5 DEF Read, Goto, Stores, DriverInv, TypeOK
  <2>2. dev.buffer = disk[call[p].block]
    BY <1>1, <1>2, <2>1 DEF Stores, DataInv, DataOf, Wanted
  <2>3. read_cache'.cache = disk[call[p].block]
    BY <1>2, <1>5, <2>2 DEF Read, Given, Stores, DriverInv, TypeOK, Buffers
  <2>4. DataOf(p)' /\ BlockCall(p)' = BlockCall(p)
    BY <1>1, <1>3, <2>1, <2>3 DEF DataOf, BlockCall
  <2> QED
    BY <1>1, <1>3, <1>4, <2>1, <2>4, Unseeing
<1>6. CASE HdInitEnd(p)
  <2>1. /\ pc'[p] = "idle" /\ call[p].kind = "identify"
        /\ \A q \in Procs \ {p} : pc'[q] = "idle"
    BY <1>1, <1>6 DEF HdInitEnd, Goto, Stores, DriverInv, TypeOK
  <2>2. DataOf(p)' /\ BlockCall(p)' = BlockCall(p)
    BY <2>1 DEF DataOf, BlockCall
  <2> QED
    BY <1>1, <1>3, <1>4, <2>1, <2>2, Unseeing
<1> QED
  BY <1>5, <1>6

(* rd_block() returns what the block holds, and wrt_block() returns.       *)
LEMMA ReturnStored ==
    ASSUME Stores, NEW p \in Procs, RdBlock(p) \/ WrtBlock(p)
    PROVE  DataInv' /\ StoreStep
<1> DEFINE b == call[p].block
<1>1. /\ pc[p] = "end" /\ \A q \in Procs \ {p} : pc[q] = "idle"
  BY Alone DEF RdBlock, WrtBlock, At, Stores
<1>2. UNCHANGED <<call, dev, disk, reg>> /\ pc' = [pc EXCEPT ![p] = "idle"]
  BY DEF RdBlock, WrtBlock, Goto, device
<1>3. \A q \in Procs : pc'[q] = "idle"
  BY <1>1, <1>2 DEF Stores, DriverInv, TypeOK
<1>4. StoreNow' = StoreNow /\ DataInv'
  BY <1>2, <1>3 DEF StoreNow, Addressed, DataInv, DataOf
<1>5. CallsMade' = [CallsMade EXCEPT ![p] = Store!None]
  <2>1. BlockCall(p)' = Store!None
    BY <1>3 DEF BlockCall, Store!None
  <2>2. \A q \in Procs \ {p} : BlockCall(q)' = BlockCall(q)
    BY <1>1, <1>3 DEF BlockCall
  <2> QED
    BY <2>1, <2>2 DEF CallsMade
<1>6. CASE RdBlock(p)
  <2>1. CallsMade[p] = [kind |-> "read", block |-> b]
    BY <1>1, <1>6 DEF RdBlock, At, CallsMade, BlockCall
  <2>2. b \in Lba /\ dev.cmd # "writing" /\ read_cache.cache = disk[b]
    BY <1>1, <1>6
    DEF RdBlock, Stores, DriverInv, TypeOK, CallRecords, DataInv, DataOf, PhaseInv, Phase, Silent, Finished
  <2>3. StoreNow[b] = disk[b] /\ answer' = [answer EXCEPT ![p] = StoreNow[b]]
    BY <1>6, <2>2 DEF RdBlock, StoreNow
  <2>4. CallsMade[p].kind = "read" /\ CallsMade[p].block = b
    BY <2>1
  <2>5. Store!Load(p)
    BY <1>4, <1>5, <2>3, <2>4 DEF Store!Load, CallsMade, StoreNow
  <2> QED
    BY <1>4, <2>5 DEF StoreStep, Store!Next
<1>7. CASE WrtBlock(p)
  <2>1. CallsMade[p] = Store!Done
    BY <1>1, <1>7 DEF WrtBlock, At, CallsMade, BlockCall, Accepted, Store!Done
  <2>2. Store!Return(p)
    BY <1>4, <1>5, <1>7, <2>1 DEF WrtBlock, Store!Return, CallsMade, StoreNow
  <2> QED
    BY <1>4, <2>2 DEF StoreStep, Store!Next
<1> QED
  BY <1>6, <1>7

(* The controller moves what it was given to the disk unseen.              *)
LEMMA DeviceStored ==
    ASSUME Stores, DeviceDone \/ HdHandler
    PROVE  DataInv' /\ StoreStep
<1>1. UNCHANGED <<pc, call, answer, read_cache, write_cache, reg>>
  BY DEF DeviceDone, HdHandler, driver
<1>2. CallsMade' = CallsMade /\ Addressed' = Addressed
  BY <1>1 DEF CallsMade, BlockCall, Accepted, Addressed
<1>3. CASE HdHandler
  <2>1. dev' = dev /\ disk' = disk
    BY <1>3 DEF HdHandler
  <2>2. StoreNow' = StoreNow
    BY <1>2, <2>1 DEF StoreNow
  <2>3. DataInv'
    BY <1>1, <2>1 DEF Stores, DataInv, DataOf, Wanted
  <2> QED
    BY <1>1, <1>2, <2>2, <2>3, StoreStutters
<1>4. CASE DeviceDone
  <2>1. dev.busy /\ dev \in Devices /\ disk \in [Lba -> Data]
    BY <1>4 DEF DeviceDone, Stores, DriverInv, TypeOK
  <2>2. dev'.cmd = IF dev.cmd \in {"writing", "flush"} THEN "none" ELSE dev.cmd
    BY <1>4, <2>1 DEF DeviceDone, Devices
  <2>3. StoreNow' = StoreNow
    <3>1. CASE dev.cmd = "writing"
      <4>1. disk' = [disk EXCEPT ![Addressed] = dev.buffer] /\ dev'.cmd = "none"
        BY <1>4, <2>2, <3>1 DEF DeviceDone
      <4> QED
        BY <2>1, <3>1, <4>1 DEF StoreNow
    <3>2. CASE dev.cmd # "writing"
      BY <1>4, <2>2, <3>2, StoreKept DEF DeviceDone
    <3> QED
      BY <3>1, <3>2
  <2>4. ASSUME NEW p \in Procs PROVE DataOf(p)'
    <3>1. CASE pc[p] = "answer" /\ Wanted(p) = "read"
      <4>1. dev.cmd = "read" /\ disk' = disk
        BY <1>4, <2>1, <3>1 DEF DeviceDone, Stores, DriverInv, PhaseInv, Phase, Busy, Asking
      <4>2. Addressed \in Lba /\ Addressed = call[p].block
        BY <3>1, Named
      <4>3. dev'.buffer = disk[call[p].block]
        BY <1>4, <2>1, <4>1, <4>2 DEF DeviceDone, Devices
      <4> QED
        BY <1>1, <3>1, <4>1, <4>3 DEF Stores, DataInv, DataOf, Wanted
    <3>2. pc[p] # "data"
      BY <1>4 DEF DeviceDone, Stores, DriverInv, PhaseInv, Phase, Asking
    <3>3. CASE pc[p] = "end" /\ call[p].kind = "read"
      BY <1>4, <3>3 DEF DeviceDone, Stores, DriverInv, PhaseInv, Phase, Silent, Finished
    <3> QED
      BY <1>1, <3>1, <3>2, <3>3 DEF Stores, DataInv, DataOf, Wanted
  <2> QED
    BY <1>1, <1>2, <2>3, <2>4, StoreStutters DEF DataInv
<1> QED
  BY <1>3, <1>4

(* All steps together.                                                     *)
LEMMA NextStored ==
    ASSUME Stores, [Next]_vars PROVE DataInv' /\ StoreStep
<1>1. CASE UNCHANGED vars
  <2>1. StoreNow' = StoreNow /\ CallsMade' = CallsMade /\ answer' = answer
    BY <1>1 DEF vars, driver, device, StoreNow, Addressed, CallsMade, BlockCall, Accepted
  <2>2. DataInv'
    BY <1>1 DEF vars, driver, device, Stores, DataInv, DataOf, Wanted
  <2> QED
    BY <2>1, <2>2, StoreStutters
<1>2. ASSUME NEW p \in Procs, Step(p) PROVE DataInv' /\ StoreStep
  BY <1>2, UnseenStored, CommandStored, WriteStored, ReadStored, ReturnStored DEF Step
<1> QED
  BY <1>1, <1>2, CallStored, DeviceStored DEF Next

(* The block functions implement a store of blocks, on a disk of at most   *)
(* 256 cylinders: what a call wrote to a block is read from it, and from   *)
(* no other.                                                               *)
THEOREM BlocksAreStored ==
    ASSUME KeepsToTheDisk, Cylinders <= Byte
    PROVE  Spec => ImplementsBlockStore
<1>1. DriverInv /\ DataInv /\ [Next]_vars => DriverInv' /\ DataInv' /\ [Store!Next]_(Store!vars)
  BY NextDriverInv, NextStored DEF Stores, StoreStep
<1>2. Init => DriverInv /\ DataInv /\ Store!Init
  BY InitDriverInv, InitStore
<1> QED
  BY <1>1, <1>2, PTL DEF Spec, ImplementsBlockStore, Store!Spec

=============================================================================
