# POTATOES in TLA+

POTATOES is a small teaching operating system for x86: one CPU, one address
space, no memory protection, a round robin scheduler driven by the timer
interrupt, a Unix-like file system on an ATA disk, virtual text monitors and a
shell.  `ASSERT` prints a message and goes on.  This directory holds TLA+
modules that model its parts, TLC configurations that check them on small
instances, and TLAPS proofs of what holds for instances of any size.

Paths such as `pm/pm_main.c` are relative to `src/kernel/` of the repository.

## 1. The system: inventory

| part | state | operations | hard because |
|---|---|---|---|
| process manager `pm/pm_main.c`, `pm_input.c` | circular list of `process_t` (state, priority, time slices), `active_proc`, `focus_proc`, `next_pid` | `pm_create_thread`, `pm_schedule`, `pm_destroy_thread`, `pm_kill_proc`, `pm_set_thread_priority`, `pm_set_focus_proc`, `pm_handle_input` | runs in interrupts on the stack of a process it may have to destroy; processes are preempted anywhere, system calls included |
| system calls `pm/pm_syscalls.c`, `syscalls_cli.c` | none | one handler per call, with interrupts enabled | a tick may fall between any two statements |
| devices `pm/dev_*.c` | `/dev/stdin`: a ring buffer per process; others: none, or the refresh flag of a monitor | open, close, read, write, seek | `/dev/stdin` sleeps and is woken from an interrupt |
| virtual monitors `io/io_virtual*.c` | array of monitors, `active_monitor`, `maxvmonitor`, a scrolling text buffer each | create, delete, switch, put character | the array is compacted when a monitor is deleted |
| interrupts, timer, keyboard `io/int_*`, `io_timer.c`, `io_keyboard.c` | tick counter, modifier keys, shortcut table | handlers, acknowledgement to the controller | shortcuts run inside the keyboard interrupt, with interrupts enabled |
| hard disk `io/io_harddisk.c`, block functions `fs/fs_block_dev.c`, `fs_buf.c` | interrupt flag, one cache for reading and one for writing | read and write a sector, wait for the controller | the flag does not say which command is done; flag, registers and caches are shared |
| memory `mm/*.c`, `lib/stdlib.c` | page tables, frame bitmap, heap: a sorted doubly linked list of headers inside the memory it manages | `heap_mallocn`, `heap_free`, `heap_expand`, `realloc` | no lock, although every process and the scheduler use it |
| ring buffer `lib/ringbuffer.c` | data, start, end, len | `rf_read`, `rf_write` | written by an interrupt while a process reads |
| file tables `fs/fs_file_table.c`, `fs_inode_table.c`, `fs_open_close.c` | process and global file tables, inode table | open, close, stat, unlink | counts and table entries across three tables, and preemption while the disk is read |
| file system on disk `fs/fs_bmap.c`, `fs_block_dev.c`, `fs_read_write.c`, `fs_create_delete.c`, `fs_dir.c`, `fs_super.c` | block bitmap, inodes with direct, indirect and doubly indirect pointers, directories | allocate and free blocks, map positions to blocks, truncate, create, delete, search | several disk writes per operation, any of which may be the last |
| library `lib/string.c`, `stdio.c`, `stdlib.c` | none | strings, numbers, formatting | bounds: the terminating 0, the lowest integer, overlapping operands |
| clock `io/io_rtc.c` | the time, as last copied from the chip | one handler, called with every timer tick | copies a register only when the one below it is 0 |
| test programs `init/tests.c` | semaphores, stocks | `p`, `v`, producers and consumers, a furniture factory | real concurrency on a hand-written spin lock |
| applications `apps/*.c` | the line typed, a text buffer, snakes and balls, a tape and a loop buffer, slots of blocks, a song | shell, editor, two games, brainfuck, memory viewer, synthesizer | array and screen kept in step by separate code; files in buffers that just fit |
| tools `tools/` | none | build an image on the host | host programs around the same `fs/` sources |

What makes the parts correct: the list of processes stays a ring of exactly the
allocated ones and nothing in use is freed; monitors, owners, screen and focus
agree; whoever waits for input is woken; whoever is alive runs and whoever is
dead is purged; the input queue delivers bytes in order and counts them;
the lock excludes and semaphores are atomic; a descriptor denotes the file it
was opened for, and the counts of the tables are right; blocks of the heap and
of the disk have one owner each; a sector read is the sector written last; a
pane shows the text that was printed; no key sticks; the programs do what their
user sees.

## 2. Modules and how they correspond to the code

The comment in front of each definition names the function it stands for;
`PROJECT.json` ("map") gives the lines.

| module | models | state | extends, used by |
|---|---|---|---|
| `Scheduler` | process manager, monitors, `/dev/stdin`, keyboard shortcuts | process list, states, time slices, monitors, focus, queue lengths, program counters of the calls | `MCScheduler`, `SchedulerProofs` |
| `RingBuffer` | `lib/ringbuffer.c` as the input queue | `data`, `start`, `end`, `len`, the call in progress | `ByteQueue` is its abstract specification; `Keyboard`, `TerminalProofs` |
| `Keyboard` | `kb_handler()` and the key tables | keys that are down, keys recorded as held, modifiers | composed with `RingBuffer`, which it feeds; `MCKeyboard`, `TerminalProofs` |
| `Semaphores` | `p()`, `v()` of `init/tests.c`, the spin lock of `io_util.s` | lock, counts, program counters | `AtomicSemaphores` is its abstract specification; `ProducerConsumer`, `SemaphoresProofs` |
| `ThreadPrograms` | the thread functions of `init/tests.c` | none: programs as sequences of instructions | `ProducerConsumer`, `Factory` |
| `Experiments` | both experiments of `do_tests()`: `ProducerConsumer` on the spin lock, `Factory` on atomic semaphores | theirs | `SemaphoresProofs` |
| `FileTables` | `fs_file_table.c`, `fs_inode_table.c`, `fs_open_close.c` and their system calls | process file tables, global file table, inode table, names on disk | `MCFileTables`, `FileTablesProofs`; `MCFileTablesProofs` |
| `Heap` | `mm_heap.c`, `realloc()` and `free()` of `stdlib.c`, page frames of the heap | list headers (stale ones too), end, mapped pages, blocks in use | `MCHeap`, `HeapProofs` |
| `FileSystem` | bitmap, block pointers, writing, truncating, creating and deleting, sector by sector | the disk, and the disks the operation under way still goes through | `MCFileSystem`, `FileSystemProofs` |
| `HardDisk` | `io_harddisk.c` and the block functions above it | registers, controller, interrupt flag, caches, disk, program counters | `BlockStore` is its abstract specification; `HardDiskProofs` |
| `Console` | the text buffer of `io_virtual.c`, painting, the frame buffer device | lines, pane, limits of scrolling, the string being printed, screen | `MCConsole`, `TerminalProofs` |
| `Strings` | `string.c`, `stdio.c` | none: operators on memory and on sequences | `Library` |
| `Clock`, `Timer` | `io_rtc.c`; tick counter and sleeping of `io_timer.c` | chip and copy; ticks and nested calls | `Library` |
| `Library` | the three above, one at a time | the call and its result, and theirs | `MCLibrary` |
| `Snake`, `Pong`, `ShellLine`, `ShellFiles`, `Brainfuck`, `Editor`, `MemView`, `Synthesizer` | the application of that name; `ShellLine` the prompt, `ShellFiles` the commands on files | the program's own | `Applications` |
| `Applications` | one of the eight at a time | theirs | `MCApplications` |

**Scheduler.** A process is its pid.  One action per system call; a call inside
which a tick matters (`pm_kill_proc`, `dev_stdin_read`, the monitor switch) is
split into the steps between which the tick may fall, and `Preempt` says in
which of them it does.  With interrupts enabled a tick may come between any two
actions.  `pm_schedule()` runs with interrupts disabled: its loop is the phase
"sched", one action for each of its branches (destroy, skip, pick), so that the
list is seen in every state the loop leaves it in.  A keyboard interrupt either
puts a byte into the queue of the focused process at once, or runs a shortcut
(`kb`), on the stack of the process it interrupted and with interrupts enabled;
until it has returned no other key arrives.  `wild` is set where the code would
touch released memory or go beyond an array; nothing after that is followed.

**RingBuffer.** `rf_read()` and `rf_write()` move one byte per step, and with
`Interrupts` the keyboard may write between the steps, and between the load and
the store of `fifo->len`.

**Semaphores.** Each of `p()` and `v()` is a loop over the lock, with the test of
the count inside.  `Program` maps a thread to its instructions; an addition to a
shared variable is a load and a store.

**FileTables.** System calls run with interrupts enabled.  Opening, closing,
`stat` and `unlink` are cut into steps where they wait for the disk and, besides,
between looking for something unused and taking it: `alloc_inode()` finds an
inode (`AllocInode`) and marks it (`MarkInode`), `insert_file()` looks for the name
(`InsertFile`), `alloc_file()` finds a slot (`AllocFile`) and it is filled (`FillFile`).
`Switches` says at which of these points other processes run.  `Careless` says
which careless things programs do: unlink a file that another holds open, exit
with open files, open more than the table holds, close a descriptor that is not
open.  `ASSERT` does not stop the system, so a failed assertion goes on.

**Heap.** Addresses count from the heap's start.  The scan, the expansion and the
set-up of the block are separate steps; a freed header stays readable until
something is written over it, because `heap_free()` recognises a second free by
it.  The name in a header, the physical address of a frame and memory protection
are left out.

**FileSystem.** An operation is computed as a *script*: the series of disks it
leaves behind, one for each sector it writes, in the order of the code.  The
action that starts it puts the series into `pending`; `WriteSector` makes the
next one the disk, `Crash` drops the rest.  All blocks have the same form, a
size and pointers, so that a block that is reused without being cleared is read
as what it is not, as on the machine.  Sectors that are written without a change
(the inode, when a file is only read) are left out.  The loops over the chunks
of a write and over the addresses of a block are recursive functions; where one
passes by an empty pointer the script repeats the disk, which only adds a step
that changes nothing.

**HardDisk.** One step for each access to a register, to `hd_interrupt` or to a
cache.  The controller is modelled by what the driver relies on: it ignores
commands while it is busy, asks for the data of a write without an interrupt,
and interrupts when a sector has been read or written.  `Speeds` says whether it
is done before the processor's next step, only after the driver waits, or at any
time.

**Console.** Lines are sequences of characters, in a circular buffer with a pane.
`Write` begins a string; `Color` and `Character` are what a turn of the loop in
`virt_monitor_cputs()` does, and each blank of a tab or a new line, a call of
`virt_monitor_cputc()` from within, is a step of its own (`Space`), so that the
cursor moves and the pane is scrolled between any two of them.  Painting happens
at a tick.  `text` is a copy of everything printed, without the buffer: what the
pane is compared with.

**Keyboard.** The user presses, repeats and releases keys; `kb_handler()` is one
step, with the branches in the order of the code, and what it gives to the
focused process goes into the ring buffer, which the process reads meanwhile.

**Library.** The string functions are operators that take a memory and return
one; a run chooses a memory and a call, and the properties compare what it left
with a definition that does not follow the code.  Numbers keep their width
(`Width`).  `Clock` follows the chip second by second, with short minutes, hours
and days; `Timer` keeps the nested calls of `sleep_ticks()` on a stack.

**Applications.** Each is modelled by what it keeps: the snakes as sequences of
cells, the ball and the bats, the line of the prompt with its pointer, the tree
of files and buffers of `Buf` characters (a directory that ever had an entry keeps
its size and cannot be removed), the tape and the buffer of a loop, the
text and its resized buffer, the slots of the memory viewer over blocks of a
heap, a song as the tones that are played.  `Brainfuck` is compared with a
meaning of the language defined by recursion over the program.

## 3. The runs

There is one run for each question, and each property is checked where it says
most.  Type invariants are not checked on their own: those of `Scheduler`,
`RingBuffer` and `Semaphores` are proved, the others are stated in their modules
and can be added to a configuration.  Modules that do not interact (the two
experiments, the library's parts, the applications) share a run in which the
initial state says which of them goes.

| run | instance | shows |
|---|---|---|
| `Scheduler` | pids 0 to 3, two of which get killed and one exits, a queue of one byte; a tick between any two system calls, none inside | no stack in use is freed, monitors and owners agree, the focus is on the screen, nobody sleeps on input that is there; everyone alive runs, everyone dead is purged unless its own pending read overwrites the mark |
| `Scheduler_preempt` | pids 0 to 2, a second priority, one process killed, ticks also inside the three split calls | the list is a ring of the allocated processes all the same |
| `Scheduler_lost_wakeup` | ticks inside `dev_stdin_read()` | **finding**: the wake-up between the test and the assignment is lost |
| `Keyboard` | keys with and without shift, a modifier of each kind, two shift keys, a cursor key, a queue of 2 bytes | no key or modifier sticks after everything is released; the queue the keys go into is first-in first-out (refinement of `ByteQueue`) |
| `Experiments` | two producers, two consumers, room for 3; the six threads and sixteen semaphores of the factory, stores of 1 and 2 | exclusion, stocks within their room, refinement of `AtomicSemaphores`, every holder gives the lock back; producers and consumers never all wait (with fewer consumers than places), the factory stops for ever in one situation only: the ramp is full of cupboards while the first truck waits for a bed, and the second waits for one too or has bound itself to a choice that is no longer there |
| `FileTables` | two processes, two paths, 3 files, 3 inodes (one the root's); careful programs, a call at a time, 2 descriptors each; careless ones, calls switched at every wait for the disk but not between finding something unused and taking it, 1 descriptor | careful: descriptors keep their file, counts count descriptors, inodes are those of open files, `open` returns a valid handle or -1; careless: each entry has an inode of its own, a slot is always found |
| `Heap` | pages of 4 bytes, headers of 2, blocks of 2, 3 and 5, 5 page frames | blocks never overlap and the list stays sorted and linked (`HeapSound`), every byte is mapped and one expansion suffices (`GrowthSound`), `realloc()` copies into larger blocks |
| `FileSystem` | blocks of 2 bytes, 1 direct pointer, 2 addresses a block, 17 blocks, 2 names, 6 operations, one crash during a write | blocks have one owner, what is referred to is marked, nothing leaks without a crash, files are readable to their end |
| `HardDisk` | two processes, calls one at a time, four of them, on a disk of eight sectors whose controller is now slower and now faster than the driver | data moves only when the controller asks for it, every call returns, the blocks behave as a store (refinement of `BlockStore`) |
| `Console` | lines of 4 characters, 4 lines of which 2 are seen, two monitors, two of three strings (new lines; a colour; a backspace, a tab and a `#` that is printed) | the pane shows what was printed, what can be scrolled to is counted right, painting stops while a program draws |
| `Library` | all memories of 6 bytes over three characters, numbers of 7 bits in five bases, two years of short days from five starts, sleeps with a counter that goes to 9 | strings and numbers are what their comments promise, the clock keeps the time, a sleep is not too short |
| `Applications` | boards of 6 by 2 and 6 by 9, six keys, a tree of 3 nodes, programs of seven characters, texts of three characters and seven keys, a heap of 15 bytes, songs of two notes | each program does what its user sees: crashes are found and nobody is blamed without one, balls come back, lines and texts are as typed, files are moved whole, programs run as the language says, slots hold blocks, songs read back |

Why these bounds are enough.  Three processes besides the kernel let one be
removed between two others, the last of the list and the last monitor; two
priorities let slices run out at different times.  A ring of 2 bytes wraps in
all positions and is read and written past its size.  Two threads of each role
are what the semaphores have to keep apart.  Two processes on two paths make
every pair of calls meet, and tables of 3, the root's inode among them, run full.  The heap is expanded
more than once before its frames run out, and its sizes leave holes that fit and holes
that do not.  A file of 14 bytes reaches the second address block behind the
doubly indirect pointer, which is where the offsets of `fs_truncate()` could be
one off; six operations write, truncate, delete, create again and reuse.  Two
calls after each other are what a late interrupt of the disk can confuse.  The
console's buffer is scrolled at every length up to full, and wraps while it is
printed to.  Six
bytes hold two strings apart and overlapping ones; a year of 0, 3, 4, 19 and 96
meets leap days and the turn of the year.  Six keys complete a command, take
back and type again; seven characters of brainfuck nest two loops, and longer
programs are given by hand.

Bounds that are parameters: `MaxPid`, `StdinSize`, `Sizes` (Scheduler); `Size`,
`Counts` (RingBuffer); `Frames` (Heap); `LastBlock`, `Lengths`, `Sizes`,
`MaxOps`, `MaxCrashes` (FileSystem); `MaxCalls` (HardDisk); `MaxPrints`
(Console); `MaxDays`, `MaxDepth`, `MaxElapsed` (Library); `MaxLength`, `Frames`,
`MaxKeys`, `MaxCompleted`, `MaxNodes`, `MaxTape`, `Fuel`, `MaxText`, `MaxSong`
(Applications).  `MCHeap` has a view: header fields that no step reads any more
do not make two states different.

### Fairness

`Scheduler.FairSpec` is weak fairness of the tick and of the sweep, and strong
fairness of the steps of a monitor switch.  The timer keeps ticking;
`pm_schedule()`, once entered, runs to its end with interrupts disabled; and a
shortcut that gets the CPU back again and again, on the stack of the process it
interrupted, makes progress.  Nothing is assumed of what programs and users
choose to do: no process has to make a call, no key has to be pressed.

`Experiments` assumes weak fairness of every producer's and consumer's step: the
round robin scheduler runs every thread again and again, which is `AliveRuns` of
the `Scheduler` run.  A thread that spins on the lock is one whose step is
disabled until the lock is free, so that weak fairness does not promise it the
lock: `LockReleased` claims only that the lock does not stay with its holder.

`HardDisk` assumes that a process that has begun a call goes on, that the
controller finishes its commands, and that the timer ticks, which ends a
`halt()`; no call has to be made.  `Applications` assumes that the rounds of
Pong, which the timer drives, go on; `Library` (for `SleepEnds`) that the timer
ticks and the sleeping thread runs.

### What the code does and the runs exclude

Each of these properties is stated in its module, and TLC violates it in the
instance given: that of the run, with the constants changed and only this
property.  Rows on the module `FileTables` are about its `Spec` with three files,
three inodes, two descriptors, `Switches = {}` and `Careless = {}` but for what they
say; *the waits* are the points of `Switches` in `FileTables.cfg`.

| property | instance | what TLC finds |
|---|---|---|
| `HandleKeepsFile` | module `FileTables`, `Careless = {"unlink_open"}` | a refused `unlink` closes somebody else's file |
| `NothingLeaks` | `FileSystem`, `Seek = TRUE`, `CrashIn = {}`, `MaxOps = 3` | truncating a file with holes leaks blocks: the walk of `fs_truncate()` stops at the first hole |
| `ReferencedAreMarked` | `FileSystem`, `CrashIn = {"create"}` | a crash after the directory entry is written, before its inode: the new name leads to old contents (`doc/spec/fs/create_delete.c.spec` writes the inode first) |
| `TransferWhenAsked` | `HardDisk`, `Preempt = TRUE` | two processes in the driver at once: one moves data the controller did not ask for |
| `BlocksDisjoint` | `Heap`, `Procs = {p1, p2}`, `Preemptive = TRUE` | two allocations interleave: they get overlapping blocks |
| `SleepEnds` | `Library`, `Services = {"timer"}` | a deadline at the maximum of the tick counter is never reached |
| `KernelNeverDies` | `Scheduler`, `Killable` with 0 | `_kill(0)` marks the kernel thread dead; the sweep frees it |
| `NoWildAccess` | `Scheduler`, `Preempt = {"pm_kill_proc"}` | a tick inside `pm_kill_proc()`: the process it found is purged, the mark goes to freed memory |
| `DeadIsPurged` | `Scheduler`, `MaxPid = 2` | a process killed while it sleeps on input is not purged until it is woken; one that goes to sleep after being killed never is |
| `SleepOnlyInRead` | `Scheduler`, `MaxPid = 2` | a process can still be marked as asleep after its read has returned |
| `FocusOnScreen` | `Scheduler`, `Preempt = {"switch_monitor"}` | a tick inside the monitor switch: the focus ends up on a process that is not on the screen |
| `KeyboardReactivated` | `Scheduler`, `MaxPid = 2`, `Preempt = {"switch_monitor"}`, nobody killed | a shortcut that interrupted a process which then never runs again: the keyboard is not acknowledged any more |
| `UsedBytes`, `LengthWithinSize` | module `RingBuffer`, `Spec`, `Interrupts = TRUE` | a key between the load and the store of the length: the count is lost; between the test for a full ring and the write: the length passes the size |
| `AllHeldRecorded`, `ShiftWhileHeld` | `Keyboard` | a key pressed under a modifier is not recorded as held; releasing one shift key ends the shift of the other |
| `CountsDescriptors` | module `FileTables`, `Careless = {"exit_open"}` | nothing closes the files of a process that exits |
| `NoNullAccess` | module `FileTables`, `Careless = {"close_unopened"}` | closing a descriptor that is not open follows the null pointer of `get_proc_file()` |
| `OpenReturnsHandle`, `NoNullAccess` | module `FileTables`, `Careless = {"open_many"}` | opening a file with a full table returns a descriptor that means nothing; `stat` follows a null pointer |
| `InodesOfOpenFiles` | module `FileTables`, `Switches` the waits | two opens of one path both read its inode before either registers it: the second inode stays in the table for ever |
| `EntriesOwnInodes` | module `FileTables`, `Switches` with any one of `"mark"`, `"slot"`, `"fill"` | two opens find the same unused inode, or the same slot, before either takes it; or both miss the name and enter it twice: the close of one releases the inode of the other |
| `SlotForEveryInode` | module `FileTables`, `Switches` with `"slot"` or `"fill"` | one slot is taken twice, and the count of entries no longer bounds that of inodes |
| `BlocksOwnedOnce` | `FileSystem`, `CrashIn = {"truncate", "delete"}` | blocks that are still referred to are given away again |
| `NothingLeaks` | `FileSystem`, `OpenSucceeds = {FALSE}` | `fs_truncate()` cannot open the file, the deletion goes on and leaks its blocks |
| `ImplementsBlockStore` | `HardDisk`, `Cylinders = 3`, `CallBlocks = {1, 9}` | the high byte of the cylinder is shifted by 16: two blocks share a sector |
| `TransferWhenAsked` | `HardDisk`, `Speeds = {"any"}` | an interrupt of the write before ends the wait of the next read |
| `FlushedOnReturn` | `HardDisk`, `EEEPC = TRUE` | a write returns before its sector is on the disk |
| `TransferWhenAsked` | `HardDisk`, `EEEPC = TRUE` | without the flush the interrupt of a write ends the wait of the next read |
| `PaneShowsText` | `Console`, `Scrolls = "any"` or `PrintsScrolled = TRUE` | scrolling past the end of the buffer loses a line; printing while the user has scrolled up overwrites history |
| `LimitsCountLines` | `Console`, `PrintsScrolled = TRUE` | printing while the user has scrolled up counts lines above the pane that the buffer does not have |
| `RefreshOffWhileDrawing` | `Console`, `SwitchDrawing = TRUE` | a switch while the frame buffer is open leaves a monitor unpainted |
| `FormatsFit`, `StringEnds` | `Library` | `vsnprintf()` does not count the characters of `%s`; `strncat()` with n characters or more writes no 0 |
| `CenturyShown`, `TimeIsKept` | `Library`, `StartYears = {98}` | the century stays 20 through the year 2100, and 2100 gets a leap day |
| `TimeIsKept` | `Library`, `TicksLate = TRUE` | a second without a tick leaves the clock wrong until the next turn |
| `SleepsLongEnough` | `Library` | a sleep across the maximum of the counter is too short |
| `BothLoseTogether` | `Applications` | a first player who bites itself loses alone, whatever the second does |
| `ScoreHasGlyph` | `Applications` | the round that brings a score to 10 draws a glyph the font does not have |
| `WhatIsShownRuns`, `LineCanEnd` | `Applications`, `MaxKeys` 8 and 9 | keys taken back count towards the limit of a line: what is run is not what is shown, or the line cannot be ended |
| `CopyHasTarget`, `CwdIsDirectory` | `Applications` | `cp` tests the source's descriptor twice; `cd` enters a file, `rm` removes a working directory that never had an entry |
| `ActsOnItsPath` | `Applications`, `Shells = {s1, s2}`, `Preempt = TRUE` | two shells share `path_buf`: one acts on the other's path |
| `NewCellsAreZero` | `Applications`, `MaxTape = 6` | an extended tape holds what the allocator left there |
| `TextKept` | `Applications`, `InUse = TRUE` | saving a file that another process has open leaves the rest of the old text |
| `GreenIsFree`, `RedIsFull`, `PictureFits` | `Applications` | the cells leave out headers and offsets, and reach behind the picture |
| `SameSong` | `Applications`, `Notes = {0, 1}`, `MaxSong = 4` | a grown array of tones is too small: the song loses what came before |

The comment at `pm/pm_main.c:275`, that killing a background process "blows up",
is not explained by any of these.

## 4. The proofs

TLAPS proves what follows for every value of the constants that the named
assumptions allow.  The hypotheses that exclude ticks, careless programs, the
compile option or a late controller are needed: section 3 shows what TLC finds
without them.

**`SchedulerProofs`** (provided nobody kills the kernel: `Kernel \notin Killable`;
any number of processes, ticks inside the split calls included).

- `TypeOK`, `RunningNeverFreed`, `MonitorsOwned`.  `RunningNeverFreed` is not
  inductive.  The invariant adds that the kernel is alive and never inside a
  call that could mark it dead (`KernelNeverDies`, `Calls`), that pids and
  monitors in use are fewer than pids handed out (`Bounded`), that `active` is
  `onstack` outside the sweep, that the list is closed and no two processes
  share a successor (`Linked`), and that the processes can be numbered so that
  `next` goes up until it is back at the kernel, with the sweep ahead of the
  process on whose stack it runs (`Ordered`).  The kernel is alive, so the sweep
  stops there before it can come round to that process, which is what keeps its
  stack from being freed.
- `RingWhole`: the list reaches every allocated process.  The numbering of
  `Ordered` makes every walk along `next` ascend until it meets the kernel, so
  that it returns within as many steps as there are processes, and what it has
  not met would have a lowest member whose predecessor it has met.
- `FocusOnScreen` (no tick inside a monitor switch): with `FocusInv`, the monitor on
  the screen exists and belongs to the process in focus.
- `SleepersLackInput` (no tick inside `dev_stdin_read()`): with `SleepInv`, nobody is
  between the test and the assignment.

**`TerminalProofs`** (a ring of any size; a monitor's buffer, pane and lines of any
size, and any strings, colours and monitors).

- `TypeOK`, `UsedBytes` and the refinement of `ByteQueue`, provided that no key
  arrives while a process is inside a call (`~Interrupts`).  The invariant says
  that `end` is `start` plus the bytes held, modulo the size, at whatever step
  the call is; the refinement maps the bytes between `start` and `end` to the
  abstract queue.
- `NothingStuck`, for any keys: every branch of `kb_handler()` records at most the
  key pressed and every release clears what that key may have set.
- `Keyboard` implements `RingBuffer`, so that all of the first item holds of the
  ring that the driver fills, the queue included.
- `PaneShowsText`, when nothing is printed while the pane is scrolled up
  (`~PrintsScrolled`) and the pane is scrolled only until the buffer is full
  (`Scrolls = "unwrapped"`).  The invariant (`Shows`) says where the pane begins,
  that nobody has scrolled a full buffer, and that every character of the lines
  kept, those above the pane, in it and beneath it, is in the cell that the
  remainder of its position names.  The lines kept fit in the buffer, so two of
  their characters never share a cell (`Apart`): the line that is cleared when
  the pane moves is the oldest one, and a character overwrites itself only.  A
  pane has at least two lines (`ConsoleAssumption`; the code's has 24): with one,
  the cursor would be moved in front of the pane.
- `LimitsCountLines`, with scrolling at any time (`~PrintsScrolled` only).
- `RefreshOffWhileDrawing`, as long as nobody switches monitors while something is
  drawn (`~SwitchDrawing`): only the active monitor is drawn on.

**`SemaphoresProofs`** (any threads, programs and initial counts).

- `TypeOK` and `MutualExclusion`.  The invariant adds that what a thread has loaded
  while it holds the lock is still the count, and positive when it is about to
  be lowered (`LoadedFresh`).
- The refinement of `AtomicSemaphores`, for all programs that keep to a
  discipline (`Guarded`): each shared counter has a semaphore that starts at 1,
  and is worked on between `p()` and `v()` of it only.  Without it the statement is
  false: two threads that add to a counter outside a lock can lose one addition.
  The invariant is that the count of such a semaphore is 0 exactly while one
  thread is inside (`OneInside`), and that a loaded counter is still its value
  (`StockFresh`); the effect of `p()` and `v()` is placed where the count is stored.
- Producers and consumers, as many as are started, with any number of places,
  keep to the discipline.  Every place is free, holds an element or is in the
  hands of a thread (`Counted`, a sum over the threads of what each has taken at
  its instruction), whence `ElementsWithinCapacity`; and, with somebody of each
  role and fewer consumers than places, `NeverAllWait`: were all to wait, the
  consumers would hold all places, and each holds one at most.
- The furniture factory, with any room for two pieces or more in its store and for
  one or more on the ramp and in the shops (`FactoryAssumption`; the code uses 500,
  10, 30, 20 and 20).  The invariant (`FactoryInv`) is a set of balances, one for each
  pair of semaphores and each stock: what is free, what is stored, and what the
  six threads have taken and not yet put elsewhere, each by its instruction, are
  together the room there is; and beds exceed cupboards by what the factory and
  the worker, who take them in turn, are in the middle of (`MadeInPairs`).  Hence the
  second half of `StocksFit`.  Were all threads to wait, nobody would be inside a
  lock, the worker could only wait for the ramp, the first truck for a bed, and the
  balances leave the three cases of `OnlyTheRampJams` for the second truck and shop
  (`StuckIsJammed`).  Both properties are proved as the run states them, for the
  module that runs either experiment.

**`FileTablesProofs`**, **`MCFileTablesProofs`** (any processes and paths, tables of
any size).

- `EntriesOwnInodes` for careless programs whose calls interleave anywhere but
  between finding something unused and taking it (`Undisturbed`: no point of
  `BetweenLookAndTake` in `Switches`; section 3 shows that each of the three is
  needed).  The invariant adds that a call about to enter its file has an
  inode that no entry and no other call has (`CallInv`), and that what a call has
  found and not taken yet is still unused (`Seen`), which the steps of others
  keep because they only run elsewhere.
- `SlotForEveryInode`, likewise, when the inode table is no larger than the file table
  (`NUM_INODES` and `NUM_FILES` are both 10 in `fs_const.h:40-42`): entries map
  one to one to inodes other than that of the call.
- For programs that keep to the rules (`KeepsToTheRules`: one call at a time, none
  of the careless things), `HandleKeepsFile`, `CountsDescriptors`,
  `InodesOfOpenFiles` and `OpenReturnsHandle`.  The invariant (`CarefulInv`) says that
  `f_count` is right in the middle of a call too, that an entry nobody has open
  and an inode nobody has entered are those of the call under way, and that what
  this call has seen still holds.
- The four properties of the run, which puts both kinds of programs side by side.

**`HeapProofs`** (one call at a time; any sizes of blocks, headers and pages with
`HeapAssumption`, any amount of memory): `HeapSound`, `GrowthSound`, `MoveFits`.  The
invariant says that the list of headers is closed, doubly linked and ascending
between the first header and the end marker, with room for each block before
the next header; that no stale header could pass the test for a second free
(`StaleInv`); that the mapped pages are exactly those below the end; and that the
hole the call has found is still there.  `Growth` computes what
`heap_expand()` adds, `SearchFinds` what the loop over the list returns.

**`HardDiskProofs`** (any geometry; `KeepsToTheDisk`: one process at a time, no
`EEEPC`, a controller that is faster than the driver or slower than its next step,
blocks that exist).

- `TransferWhenAsked`.  The invariant gives, for each step of a call, the state the
  controller, its interrupt and `hd_interrupt` can be in (`Phase`).  It needs the
  flush after a write: without it the interrupt of a write is taken for that of
  the next command.
- The refinement of `BlockStore`, on disks of at most 256 cylinders
  (`Cylinders <= Byte`; the image of `tools/bochsrc:13` has 40): `itoaddr()` gives two
  blocks different addresses, the registers hold the address of the call's
  block, and the caches hold what the controller's buffer does (`DataInv`).

**`FileSystemProofs`** (any numbers of blocks, pointers and addresses that
`FileSystemAssumption` allows, any lengths and sizes, with seeking and without,
whatever `fs_open()` tells `fs_truncate()`; the machine may stop at any sector of a
write, any number of times, but not inside another operation:
`CrashIn \subseteq {"write"}`).

- `TypeOK`, `BlocksOwnedOnce`, `ReferencedAreMarked`.  The invariant is about every
  block of the disk, and not only about those that are reached from the root:
  there are *roles* (`Good`), one for each block, such that a block with a role is
  marked and not one of the special blocks, each pointer that a role has leads to
  a block of the role below it, and no two pointers lead to the same block
  (`Owned`).  Two files cannot meet in a block then, nor can a file meet itself.
  When no operation is under way the disk is good; during a write all disks still
  to come are; during another operation the last one is.
- An operation is followed sector by sector.  A block that is allocated has no role
  and gets one when the first pointer to it is written, after it has been cleared;
  until the inode is written at the end of a write it may be the only one without
  a way to the blocks it is about to own, so that a crash loses blocks and never
  shares them (`FsWriteSound`).  `fs_truncate()` frees what it passes before it
  empties the pointers, so its disks are only good again at the end, when the
  pointers that are left are a part of those before and the freed blocks are
  behind none of them (`FsTruncateSound`).  Creating and deleting follow.
- The loops are recursive functions over the chunks and the addresses.  That they
  are what their recursion says, and that each round keeps the invariant, is shown
  by induction on sets of numbers (`InductionOnSet`, from the library's
  `WFMin`), not by a theorem with an operator as its parameter.

**Only model-checked.**

- Liveness under fairness (`AliveRuns`, `DeadLeaves`, `LockReleased`,
  `EveryCallReturns`, `BallTurns`), which is beyond the prover.
- What recursive operators compute: `Brainfuck`, the conversions of `Strings`.
- `NothingLeaks` and `ReadableToTheEnd` of `FileSystem`.  Both are false with the
  constants under which the rest is proved (a file with holes, a truncation that
  cannot open its file, a crash), and need that a file has a block for each part of
  its size, a statement on the positions of blocks that the roles do not make.
- `Library` and `Applications`: operators with recursion over data, in modules that
  a theorem may not use.

## 5. Plan

1. `FileSystem`: proof of `ReadableToTheEnd` for files without holes, with the
   positions of blocks added to the roles.
2. Composition of `FileTables` with `FileSystem`, so that an inode in memory can be
   older than the one on disk; subdirectories and the search along a path.

## 6. Not modelled, and why

Descriptor tables, paging set-up, port input and output, the boot sequence: set
up once, or pure register access.  Logging, the layout of the screen and what
programs print: no property is about them.  `heap_contract()`, first fit and best
fit: never called or not compiled.  `snapshot` and the shell's commands that only
print or start a program: clients without state of their own.  `rand()` and the
allocating helpers of the library.  The tools: programs of the host.  Array
bounds the code does not test and a run would have to leave memory to see: the
loop buffer and the 50 levels of `loop_marks` in the brainfuck interpreter, the
null pointer of the editor's first line.  What happens after undefined behaviour
(`wild`, a null pointer, block -1): marked and not followed.
