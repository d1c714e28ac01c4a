------------------------------- MODULE HardDisk -------------------------------
(***************************************************************************)
(* The hard disk driver of io_harddisk.c below the block functions of      *)
(* fs_block_dev.c and their caches.  The processor talks to the controller *)
(* through registers, one at a time, and waits for it by looking at        *)
(* hd_interrupt, at the busy bit of the status register, and halting.      *)
(*                                                                         *)
(* The controller is modelled by what the driver relies on: it ignores     *)
(* commands while it is busy or wants data, it asks for the data of a      *)
(* write without an interrupt, and it interrupts when a sector is read,    *)
(* a sector is written or the cache is flushed.  An interrupt is served    *)
(* before the next step of a process.                                      *)
(***************************************************************************)
EXTENDS Integers

CONSTANTS
    Procs,
    Cylinders, Heads, Sectors,  \* what IDENTIFY DEVICE tells of the disk
    Byte,           \* values of a register: 256
    CallBlocks,     \* the blocks that are read and written
    Data,           \* contents of a sector, 0 for all zeros
    Junk,           \* what is read when the controller has no data to give
    Speeds,         \* "fast": done before the next step of a process, "slow":
                    \* not before it waits for it, "any": at any time
    EEEPC,          \* compiled with -DEEEPC
    Preempt,        \* whether calls of several processes interleave
    MaxCalls        \* bound on the calls

HdSize == Cylinders * Heads * Sectors
Lba == 0 .. HdSize - 1

ASSUME HardDiskAssumption ==
    /\ {Cylinders, Heads, Sectors, Byte} \subseteq Nat \ {0}
    /\ CallBlocks \subseteq 0 .. HdSize
    /\ 0 \in Data /\ Junk \notin Data
    /\ Speeds \subseteq {"fast", "slow", "any"}
    /\ {EEEPC, Preempt} \subseteq BOOLEAN
    /\ MaxCalls \in Nat

VARIABLES
    pc,             \* where each process is in hd_init(), a read or a write
    loop,           \* where it is in wait_on_hd_interrupt()
    call,           \* its call of a block function
    answer,         \* what its last rd_block() gave it
    read_cache, write_cache,
    hd_interrupt,
    hd1,            \* whether the disk was identified
    reg,            \* sector, cylinder and head, as written to the registers
    dev,            \* the command under way, busy and data request bits, buffer
    irq,            \* an interrupt not yet served
    disk,           \* the sectors
    calls

driver == <<pc, loop, call, answer, read_cache, write_cache, hd_interrupt, hd1, calls>>
device == <<reg, dev, irq, disk>>
vars == <<driver, device>>

Ready == [cmd |-> "none", busy |-> FALSE, drq |-> FALSE, speed |-> "any", buffer |-> 0]
Waits == {"ready", "answer", "flushed"}

Init ==
    /\ pc = [p \in Procs |-> "idle"]
    /\ loop = [p \in Procs |-> "test"]
    /\ call = [p \in Procs |-> [kind |-> "none", block |-> 0, data |-> 0]]
    /\ answer = [p \in Procs |-> 0]
    /\ read_cache = [block_nr |-> 0, cache |-> 0]
    /\ write_cache = [block_nr |-> 0, cache |-> 0]
    /\ hd_interrupt = FALSE
    /\ hd1 = FALSE
    /\ reg = [sector |-> 1, cyl |-> 0, head |-> 0]
    /\ dev = Ready
    /\ irq = FALSE
    /\ disk = [b \in Lba |-> 0]
    /\ calls = 0
----------------------------------------------------------------------------
(* itoaddr(), and the cylinder that arrives in two registers: its high     *)
(* byte is taken from the wrong place, cyl >> 16.                          *)
ItoaddrFromZero(iaddr) ==
    [sector |-> iaddr % Sectors,
     head   |-> (iaddr \div Sectors) % Heads,
     cyl    |-> iaddr \div (Sectors * Heads)]

Itoaddr(iaddr) ==
    [sector |-> (iaddr % Sectors) + 1,
     head   |-> (iaddr \div Sectors) % Heads,
     cyl    |-> iaddr \div (Sectors * Heads)]

CylinderRegisters(cyl) == (cyl % Byte) + Byte * ((cyl \div (Byte * Byte)) % Byte)

(* The sector that the registers name, for the controller.                 *)
Addressed == (reg.cyl * Heads + reg.head) * Sectors + reg.sector - 1
----------------------------------------------------------------------------
(* A process takes a step when no interrupt is to be served.               *)
Runs(p) ==
    /\ ~irq
    /\ ~(dev.busy /\ dev.speed = "fast")
    /\ Preempt \/ \A q \in Procs \ {p} : pc[q] = "idle"

At(p, label) == Runs(p) /\ pc[p] = label
Goto(p, label) == pc' = [pc EXCEPT ![p] = label]

NotReady == dev.busy

(* A call of a block function; the first one of all is hd_init(), which    *)
(* asks the controller at once.  A block behind HdSize would be panic().   *)
CallsNow(p, kind, b, d) ==
    /\ At(p, "idle")
    /\ calls < MaxCalls
    /\ kind = "identify" <=> ~hd1
    /\ calls' = calls + 1
    /\ call' = [call EXCEPT ![p] = [kind |-> kind, block |-> b, data |-> d]]
    /\ Goto(p, IF kind # "identify" THEN "begin" ELSE IF NotReady THEN "ready" ELSE "command")
    /\ UNCHANGED <<loop, answer, read_cache, write_cache, hd_interrupt, hd1, device>>

HdInit(p) == CallsNow(p, "identify", 0, 0)

Call(p) ==
    \/ \E b \in CallBlocks : CallsNow(p, "read", b, 0) \/ CallsNow(p, "clear", b, 0)
    \/ \E b \in CallBlocks, d \in Data : CallsNow(p, "write", b, d)

(* The caches are prepared, and the controller is asked whether it is      *)
(* ready.  clear_block() reads the block first.                            *)
ClearCache == [block_nr |-> 0, cache |-> 0]

Begin(p) ==
    /\ At(p, "begin")
    /\ IF call[p].kind = "write"
       THEN write_cache' = [block_nr |-> call[p].block, cache |-> call[p].data] /\ UNCHANGED read_cache
       ELSE read_cache' = ClearCache /\ UNCHANGED write_cache
    /\ Goto(p, IF NotReady THEN "ready" ELSE "sector")
    /\ UNCHANGED <<loop, call, answer, hd_interrupt, hd1, calls, device>>

(* wait_on_hd_interrupt(): the flag, the status register, halt().          *)
InWait(p, step) == Runs(p) /\ pc[p] \in Waits /\ loop[p] = step
Loop(p, step) == loop' = [loop EXCEPT ![p] = step]
OnlyLoop == UNCHANGED <<pc, call, answer, read_cache, write_cache, hd_interrupt, hd1, calls, device>>

WaitTest(p) == InWait(p, "test") /\ Loop(p, IF hd_interrupt THEN "over" ELSE "status") /\ OnlyLoop

StatusIgnored == "halt"
StatusTells == IF dev.busy THEN "halt" ELSE "over"

WaitStatus(p) == InWait(p, "status") /\ Loop(p, StatusTells) /\ OnlyLoop

(* The timer or the disk wakes the processor up.                           *)
WaitHalt(p) == InWait(p, "halt") /\ Loop(p, "test") /\ OnlyLoop

AfterWait(p) ==
    CASE pc[p] = "ready"   -> IF call[p].kind = "identify" THEN "command" ELSE "sector"
      [] pc[p] = "answer"  -> "data"
      [] pc[p] = "flushed" -> "end"

WaitOverKept == hd_interrupt
WaitOverReset == FALSE

WaitOver(p) ==
    /\ InWait(p, "over")
    /\ hd_interrupt' = WaitOverReset
    /\ Loop(p, "test")
    /\ Goto(p, AfterWait(p))
    /\ UNCHANGED <<call, answer, read_cache, write_cache, hd1, calls, device>>

(* The registers, one after the other, and the command.                    *)
Out(p, from, to, registers) ==
    /\ At(p, from)
    /\ reg' = registers
    /\ Goto(p, to)
    /\ UNCHANGED <<loop, call, answer, read_cache, write_cache, hd_interrupt, hd1, calls, dev, irq, disk>>

OutSector(p)   == Out(p, "sector", "cylinder", [reg EXCEPT !.sector = Itoaddr(call[p].block).sector])
OutCylinder(p) == Out(p, "cylinder", "head",
                      [reg EXCEPT !.cyl = CylinderRegisters(Itoaddr(call[p].block).cyl)])
OutHead(p)     == Out(p, "head", "command", [reg EXCEPT !.head = Itoaddr(call[p].block).head])

(* The controller takes a command unless it is at one.                     *)
Commanded(c) ==
    IF dev.busy \/ dev.drq THEN dev' = dev
    ELSE \E s \in Speeds : dev' = [dev EXCEPT !.cmd = c, !.busy = TRUE, !.speed = s]

OutCommand(p) ==
    /\ \/ At(p, "command") /\ Goto(p, "answer")
          /\ Commanded(IF call[p].kind = "clear" THEN "read" ELSE call[p].kind)
       \/ At(p, "flush") /\ Goto(p, "flushed") /\ Commanded("flush")
    /\ UNCHANGED <<loop, call, answer, read_cache, write_cache, hd_interrupt, hd1, calls, reg, irq, disk>>

(* repoutsw(): the sector is handed over, or lost.                         *)
AfterWrite == IF EEEPC THEN "end" ELSE "flush"

Write(p) ==
    /\ At(p, "data") /\ call[p].kind = "write"
    /\ IF dev.drq /\ dev.cmd = "write"
       THEN \E s \in Speeds : dev' = [cmd |-> "writing", busy |-> TRUE, drq |-> FALSE, speed |-> s,
                                      buffer |-> write_cache.cache]
       ELSE UNCHANGED dev
    /\ Goto(p, AfterWrite)
    /\ UNCHANGED <<loop, call, answer, read_cache, write_cache, hd_interrupt, hd1, calls, reg, irq, disk>>

(* repinsw(): whatever the controller has to give.                         *)
Given == IF dev.drq THEN dev.buffer ELSE Junk
Taken == IF dev.drq THEN [dev EXCEPT !.drq = FALSE, !.cmd = "none"] ELSE dev

Read(p) ==
    /\ At(p, "data") /\ call[p].kind \in {"read", "clear"}
    /\ read_cache' = [read_cache EXCEPT !.cache = Given]
    /\ dev' = Taken
    /\ Goto(p, "end")
    /\ UNCHANGED <<loop, call, answer, write_cache, hd_interrupt, hd1, calls, reg, irq, disk>>

HdInitEnd(p) ==
    /\ At(p, "data") /\ call[p].kind = "identify"
    /\ hd1' = (dev.drq /\ dev.cmd = "identify")
    /\ dev' = Taken
    /\ Goto(p, "idle")
    /\ UNCHANGED <<loop, call, answer, read_cache, write_cache, hd_interrupt, calls, reg, irq, disk>>

(* cache_block() remembers the number, and rd_block() copies.              *)
RdBlock(p) ==
    /\ At(p, "end") /\ call[p].kind = "read"
    /\ read_cache' = [read_cache EXCEPT !.block_nr = call[p].block]
    /\ answer' = [answer EXCEPT ![p] = read_cache.cache]
    /\ Goto(p, "idle")
    /\ UNCHANGED <<loop, call, write_cache, hd_interrupt, hd1, calls, device>>

(* clear_block() has its block in read_cache now, and zeros are written to *)
(* the block whose number is there.                                        *)
ClearBlock(p) ==
    /\ At(p, "end") /\ call[p].kind = "clear"
    /\ read_cache' = [block_nr |-> call[p].block, cache |-> 0]
    /\ call' = [call EXCEPT ![p].kind = "write"]
    /\ Goto(p, "begin")
    /\ UNCHANGED <<loop, answer, write_cache, hd_interrupt, hd1, calls, device>>

WrtBlock(p) ==
    /\ At(p, "end") /\ call[p].kind = "write"
    /\ Goto(p, "idle")
    /\ UNCHANGED <<loop, call, answer, read_cache, write_cache, hd_interrupt, hd1, calls, device>>
----------------------------------------------------------------------------
(* The controller is done with a command: it asks for the data of a write, *)
(* and interrupts for everything else.                                     *)
DeviceDone ==
    /\ dev.busy
    /\ dev.speed = "slow" => \E p \in Procs : pc[p] \in Waits
    /\ dev' = [dev EXCEPT !.busy = FALSE,
                          !.drq = dev.cmd \in {"read", "write", "identify"} /\ Addressed \in Lba,
                          !.cmd = IF dev.cmd \in {"writing", "flush"} THEN "none" ELSE @,
                          !.buffer = IF dev.cmd = "read" /\ Addressed \in Lba THEN disk[Addressed] ELSE @]
    /\ disk' = IF dev.cmd = "writing" THEN [disk EXCEPT ![Addressed] = dev.buffer] ELSE disk
    /\ irq' = (dev.cmd # "write")
    /\ UNCHANGED <<driver, reg>>

(* hd_handler(); it would panic() if the controller was busy.              *)
HdHandler ==
    /\ irq
    /\ ~dev.busy
    /\ irq' = FALSE
    /\ hd_interrupt' = TRUE
    /\ UNCHANGED <<pc, loop, call, answer, read_cache, write_cache, hd1, calls, reg, dev, disk>>

Step(p) ==
    \/ Begin(p) \/ WaitTest(p) \/ WaitStatus(p) \/ WaitHalt(p) \/ WaitOver(p)
    \/ OutSector(p) \/ OutCylinder(p) \/ OutHead(p) \/ OutCommand(p)
    \/ Write(p) \/ Read(p) \/ HdInitEnd(p) \/ RdBlock(p) \/ ClearBlock(p) \/ WrtBlock(p)

Next == DeviceDone \/ HdHandler \/ \E p \in Procs : HdInit(p) \/ Call(p) \/ Step(p)

(* The controller gets done, interrupts are served, and processes go on.   *)
Spec == Init /\ [][Next]_vars
        /\ WF_vars(DeviceDone) /\ WF_vars(HdHandler) /\ \A p \in Procs : WF_vars(Step(p))
----------------------------------------------------------------------------
(* Data is moved, in either direction, only when the controller asks for   *)
(* it: wait_on_hd_interrupt() never returns for an interrupt of an earlier *)
(* command (io_harddisk.c:122, 223, 258).                                  *)
TransferWhenAsked ==
    \A p \in Procs : pc[p] = "data" =>
        /\ dev.drq
        /\ dev.cmd = (IF call[p].kind = "clear" THEN "read" ELSE call[p].kind)

(* Every call returns: nobody halts for an interrupt that was there        *)
(* already or never comes (io_harddisk.c:126-135).                         *)
EveryCallReturns == \A p \in Procs : pc[p] # "idle" ~> pc[p] = "idle"

(* The comment on the cache flush, "The EEEPC needs a cache flush after a  *)
(* write operation" (io_harddisk.c:226): compiled for it, no write returns *)
(* before the sector is on the disk.                                       *)
FlushedOnReturn ==
    EEEPC => \A p \in Procs : pc[p] = "idle" /\ call[p].kind = "write" => dev.cmd # "writing"

(* The block functions implement a store of blocks: what a call wrote to a *)
(* block is read from it, and from no other (fs_block_dev.c:48-111).       *)
Accepted(p) == pc[p] \in {"flush", "flushed", "end"}
BlockCall(p) ==
    IF pc[p] = "idle" \/ call[p].kind = "identify" THEN [kind |-> "none"]
    ELSE IF call[p].kind = "read" THEN [kind |-> "read", block |-> call[p].block]
    ELSE IF call[p].kind = "write" /\ Accepted(p) THEN [kind |-> "done"]
    ELSE [kind |-> "write", block |-> call[p].block, data |-> call[p].data]

Store == INSTANCE BlockStore WITH
    Blocks <- Lba,
    store  <- [b \in Lba |-> IF dev.cmd = "writing" /\ Addressed = b THEN dev.buffer ELSE disk[b]],
    call   <- [p \in Procs |-> BlockCall(p)]

ImplementsBlockStore == Store!Spec
=============================================================================
