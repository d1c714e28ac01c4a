------------------------------ MODULE FileSystem ------------------------------
(***************************************************************************)
(* The file system on disk: the block bitmap of fs_bmap.c, inodes with     *)
(* direct, indirect and doubly indirect pointers (fs_block_dev.c), writing *)
(* and truncating files (fs_read_write.c, fs_create_delete.c), and files   *)
(* entered into and removed from the root directory (fs_dir.c).            *)
(*                                                                         *)
(* Every operation is a series of sectors written one after the other.  An *)
(* operation here begins with the series of disks it leaves behind, one    *)
(* for each sector (and one, the same as before, for each empty pointer    *)
(* that a loop passes by); they become the disk one by one, unless the     *)
(* machine stops in between and starts again from what it finds.  What is  *)
(* in memory between two operations is what is on the disk: mark_block()   *)
(* writes the bitmap, and every operation ends by writing its inode.       *)
(*                                                                         *)
(* Any block can be read as an inode, as addresses or as a directory, and  *)
(* blocks are reused, so all have the same form: a size and pointers.      *)
(* Which sector of a file holds which bytes is not modelled.               *)
(***************************************************************************)
EXTENDS Integers, Sequences

CONSTANTS
    BLOCK_SIZE,
    NUM_DIRECT_POINTER,
    ADDRS_PER_BLOCK,
    LastBlock,      \* get_hdsize() - 1
    Names,          \* of the files in the root directory, 0, 1, ...
    Seek,           \* whether programs write behind the end of a file
    OpenSucceeds,   \* what fs_open() may tell fs_truncate()
    CrashIn,        \* the operations during which the machine may stop
    MaxCrashes,
    Lengths,        \* of what is written at once
    Sizes,          \* that files are truncated to
    MaxOps          \* how many operations are started

NULL == 0
SUPER_BLOCK == 1
ROOT_INODE_BLOCK == 2
FirstDataBlock == 4         \* the bitmap takes block 3
Blocks == 0 .. LastBlock
NOT_FOUND == LastBlock + 1

SIP == NUM_DIRECT_POINTER
DIP == NUM_DIRECT_POINTER + 1
InodeSlots == NUM_DIRECT_POINTER + 2
Slots == 0 .. InodeSlots + ADDRS_PER_BLOCK - 1
MaxBlocks == NUM_DIRECT_POINTER + ADDRS_PER_BLOCK + ADDRS_PER_BLOCK * ADDRS_PER_BLOCK
MaxSize == BLOCK_SIZE * MaxBlocks

ASSUME FileSystemAssumption ==
    /\ {BLOCK_SIZE, NUM_DIRECT_POINTER, ADDRS_PER_BLOCK} \subseteq Nat \ {0}
    /\ LastBlock \in Nat /\ LastBlock >= FirstDataBlock
    /\ Names \subseteq Slots
    /\ Seek \in BOOLEAN /\ OpenSucceeds \subseteq BOOLEAN
    /\ CrashIn \subseteq {"create", "write", "truncate", "delete"}
    /\ MaxCrashes \in Nat /\ MaxOps \in Nat
    /\ Lengths \subseteq Nat \ {0} /\ Sizes \subseteq Nat

VARIABLES
    disk,       \* the bitmap, and what is in each block
    pending,    \* the disks that the operation under way still goes through
    doing,      \* the operation under way, or "idle"
    crashes,    \* how often the machine stopped in an operation
    ops         \* how many operations were started

vars == <<disk, pending, doing, crashes, ops>>

Zero == [size |-> 0, ptr |-> [i \in Slots |-> NULL]]

\* What a program wrote to a file: as pointers it would lead anywhere.
UserData == [size |-> 1, ptr |-> [i \in Slots |-> SUPER_BLOCK]]

(* init_bmap() and create_root(), on a disk that was all zeros.            *)
Init ==
    /\ disk = [marked |-> 0 .. FirstDataBlock - 1, block |-> [b \in Blocks |-> Zero]]
    /\ pending = <<>>
    /\ doing = "idle"
    /\ crashes = 0
    /\ ops = 0
----------------------------------------------------------------------------
(* A script: the disks so far, the inode in memory and its block, the      *)
(* block that the operation has got to, and whether a free block was found *)
(* whenever one was needed.                                                *)
Sector(d, b) == IF b \in Blocks THEN d.block[b] ELSE Zero

Begin(log, b) == [log |-> log, adr |-> b, ino |-> Sector(log[Len(log)], b), at |-> b, found |-> TRUE]

Now(s) == s.log[Len(s.log)]
Then(s, d) == [s EXCEPT !.log = Append(@, d)]

MarkBlock(s, b) == Then(s, [Now(s) EXCEPT !.marked = @ \cup {b}])
UnmarkBlock(s, b) == Then(s, [Now(s) EXCEPT !.marked = @ \ {b}])

\* The loop over the pointers bs, of which some may be missing.
UnmarkBlocks(s, bs) ==
    [s EXCEPT !.log = @ \o [i \in 1 .. Len(bs) |->
        [Now(s) EXCEPT !.marked = @ \ ({bs[j] : j \in 1 .. i} \ {NULL})]]]

WrtBlock(s, b, words) == Then(s, [Now(s) EXCEPT !.block[b] = words])
WriteInode(s) == WrtBlock(s, s.adr, s.ino)

Lowest(S) == CHOOSE b \in S : \A c \in S : b <= c

(* The search goes upwards only.                                           *)
GetFreeBlock(d, start) ==
    LET free == {b \in Blocks : b >= start /\ b \notin d.marked}
    IN  IF free = {} THEN NOT_FOUND ELSE Lowest(free)

(* Without a free block alloc_block() marks block -1, outside the bitmap,  *)
(* and goes on; such operations are not followed.                          *)
AllocBlock(s, new) == [MarkBlock(s, new) EXCEPT !.found = @ /\ new # NOT_FOUND]

(* alloc_block() and clear_block(), before anything refers to the block.   *)
AllocClearedKept(s, new) == AllocBlock(s, new)
AllocCleared(s, new) == WrtBlock(AllocBlock(s, new), new, Zero)

(* enlarge_file(), for a pointer of the inode in memory or of the address  *)
(* block that the operation has got to.                                    *)
EnlargeFile(s, slot, start) ==
    LET new == GetFreeBlock(Now(s), start)
        t   == [AllocCleared(s, new) EXCEPT !.at = new]
    IN  IF s.at = s.adr
        THEN [t EXCEPT !.ino.ptr[slot] = new]
        ELSE WrtBlock(t, s.at, [Sector(Now(s), s.at) EXCEPT !.ptr[slot] = new])

Follow(s, slot, start) ==
    LET words   == IF s.at = s.adr THEN s.ino ELSE Sector(Now(s), s.at)
        pointer == words.ptr[slot]
    IN  IF pointer = NULL THEN EnlargeFile(s, slot, start) ELSE [s EXCEPT !.at = pointer]

(* get_data_block(), with permission to enlarge the file.                  *)
GetDataBlock(s, pos) ==
    LET blk_nr == pos \div BLOCK_SIZE
        single == blk_nr - NUM_DIRECT_POINTER
        double == single - ADDRS_PER_BLOCK
        inode  == [s EXCEPT !.at = s.adr]
        sip    == Follow(inode, SIP, s.adr)
        dip    == Follow(inode, DIP, s.adr)
        dipsip == Follow(dip, double \div ADDRS_PER_BLOCK, dip.at)
    IN  WriteInode(CASE single < 0 -> Follow(inode, blk_nr, s.adr)
                     [] single >= 0 /\ double < 0 -> Follow(sip, single, sip.at)
                     [] double >= 0 -> Follow(dipsip, double % ADDRS_PER_BLOCK, dip.at))
----------------------------------------------------------------------------
(* fs_write(): one sector for each block it touches.  It sets the size     *)
(* with the last one, and not at all if the file got too large before.     *)
WriteChunk(s, pos) ==
    LET t == GetDataBlock(s, pos) IN WrtBlock(t, t.at, UserData)

SizeOf(s, last) == IF s.ino.size < last THEN last ELSE s.ino.size
Resized(s, size) == WriteInode([s EXCEPT !.ino.size = size])

\* Where the next chunk begins after i - 1 of them.
ChunkAt(pos, i) == IF i = 1 THEN pos ELSE BLOCK_SIZE * (pos \div BLOCK_SIZE + i - 1)

\* After one chunk, after two, and so on.
Written(log, f, pos) ==
    LET after[i \in Nat] ==
            IF i = 0 THEN Begin(log, f) ELSE WriteChunk(after[i - 1], ChunkAt(pos, i))
    IN  after

FsWrite(log, f, pos, n) ==
    LET first == pos \div BLOCK_SIZE
        last  == (pos + n - 1) \div BLOCK_SIZE
        s     == Written(log, f, pos)[last - first + 1]
    IN  IF last < MaxBlocks THEN Resized(s, SizeOf(s, pos + n))
        ELSE Written(log, f, pos)[MaxBlocks - first]

AtLeast0(n) == IF n < 0 THEN 0 ELSE n

\* The pointers in slots lo .. hi - 1, and the block without them.
Pointers(words, lo, hi) == [i \in 1 .. AtLeast0(hi - lo) |-> words.ptr[lo + i - 1]]

Uncut(words, lo, hi) == words
Cut(words, lo, hi) ==
    [words EXCEPT !.ptr = [i \in Slots |-> IF lo <= i /\ i < hi THEN NULL ELSE @[i]]]

(* shrink_file(): the caller forgets a block that went as a whole.         *)
ShrinkChildrenOnly(s, b, start) ==
    LET words == Sector(Now(s), b)
        freed == UnmarkBlocks(s, Pointers(words, start, ADDRS_PER_BLOCK))
    IN  IF start = 0 THEN freed ELSE WrtBlock(freed, b, Cut(words, start, ADDRS_PER_BLOCK))

ShrinkFile(s, b, start) ==
    LET words == Sector(Now(s), b)
        freed == UnmarkBlocks(s, Pointers(words, start, ADDRS_PER_BLOCK))
    IN  CASE start >= ADDRS_PER_BLOCK -> s
          [] start = 0 -> UnmarkBlock(freed, b)
          [] start > 0 /\ start < ADDRS_PER_BLOCK ->
                WrtBlock(freed, b, Cut(words, start, ADDRS_PER_BLOCK))

ShrinkDirect(s, start) ==
    [UnmarkBlocks(s, Pointers(s.ino, start, NUM_DIRECT_POINTER))
        EXCEPT !.ino = Cut(@, start, NUM_DIRECT_POINTER)]

ShrinkSingle(s, start) ==
    LET from == AtLeast0(start - NUM_DIRECT_POINTER)
    IN  IF s.ino.ptr[SIP] = NULL \/ from >= ADDRS_PER_BLOCK
        THEN s
        ELSE [ShrinkFile(s, s.ino.ptr[SIP], from)
                EXCEPT !.ino.ptr[SIP] = IF from = 0 THEN NULL ELSE @]

(* From the first of the address blocks on which something is obsolete,    *)
(* shrink_file() is called for each, with the slot to begin at.            *)
Behind(start) == start - NUM_DIRECT_POINTER - ADDRS_PER_BLOCK
FirstShrunk(start) == AtLeast0(Behind(start) \div ADDRS_PER_BLOCK)
ShrinkFrom(start, i) == AtLeast0(Behind(start) - i * ADDRS_PER_BLOCK)

ShrunkChildren(s, words, start) ==
    LET after[n \in Nat] ==
            IF n = 0 THEN s
            ELSE LET i == FirstShrunk(start) + n - 1
                 IN  ShrinkFile(after[n - 1], words.ptr[i], ShrinkFrom(start, i))
    IN  after

(* The loop stops at the first pointer missing.                            *)
ShrinkStop(words, start) ==
    LET missing == {i \in FirstShrunk(start) .. ADDRS_PER_BLOCK - 1 : words.ptr[i] = NULL}
    IN  IF missing = {} THEN ADDRS_PER_BLOCK ELSE Lowest(missing)

ShrinkDouble(s, start) ==
    LET dip     == s.ino.ptr[DIP]
        words   == Sector(Now(s), dip)
        first   == FirstShrunk(start)
        visited == first .. ShrinkStop(words, start) - 1
        shrunk  == ShrunkChildren(s, words, start)[AtLeast0(ShrinkStop(words, start) - first)]
        kept    == [words EXCEPT !.ptr = [i \in Slots |->
                        IF i \in visited /\ ShrinkFrom(start, i) = 0 THEN NULL ELSE @[i]]]
    IN  CASE dip = NULL -> s
          [] dip # NULL /\ Behind(start) < 0 -> [UnmarkBlock(shrunk, dip) EXCEPT !.ino.ptr[DIP] = NULL]
          [] dip # NULL /\ Behind(start) >= 0 -> WrtBlock(shrunk, dip, kept)

\* The first block that a file of that size does not need.
FirstObsoleteDown(size) == size \div BLOCK_SIZE
FirstObsolete(size) == (size + BLOCK_SIZE - 1) \div BLOCK_SIZE

FsTruncate(log, f, size) ==
    LET s     == Begin(log, f)
        start == FirstObsolete(size)
    IN  CASE size < s.ino.size ->
                Resized(ShrinkDouble(ShrinkSingle(ShrinkDirect(s, start), start), start), size)
          [] size > s.ino.size /\ size < MaxSize -> Resized(GetDataBlock(s, size), size)
          [] size >= s.ino.size /\ (size = s.ino.size \/ size >= MaxSize) -> Resized(s, size)

----------------------------------------------------------------------------
(* The root directory has one block of entries once it has any.            *)
EntryBlock(d) == d.block[ROOT_INODE_BLOCK].ptr[0]
Entry(d, n) == IF EntryBlock(d) = NULL THEN NULL ELSE d.block[EntryBlock(d)].ptr[n]

(* insert_file_into_dir() and the new inode: the entry is written first.   *)
FsCreate(log, n) ==
    LET dir   == GetDataBlock(Begin(log, ROOT_INODE_BLOCK), 0)
        new   == GetFreeBlock(Now(dir), dir.at)
        grown == Resized(AllocBlock(dir, new), SizeOf(dir, BLOCK_SIZE))
        named == WrtBlock(grown, dir.at, [Sector(Now(grown), dir.at) EXCEPT !.ptr[n] = new])
    IN  WriteInode([WrtBlock(named, new, Zero) EXCEPT !.adr = new, !.ino = Zero])

(* fs_truncate(), whose failure is ignored, and delete_file_from_dir().    *)
FsDelete(log, n, opened) ==
    LET f     == Entry(log[Len(log)], n)
        empty == IF opened THEN FsTruncate(log, f, 0).log ELSE log
        freed == UnmarkBlock(Begin(empty, ROOT_INODE_BLOCK), f)
        entries == EntryBlock(Now(freed))
    IN  WriteInode(WrtBlock(freed, entries, [Sector(Now(freed), entries) EXCEPT !.ptr[n] = NULL]))
----------------------------------------------------------------------------
(* An operation starts when none is under way.                             *)
Start(op, script) ==
    /\ doing = "idle" /\ ops < MaxOps
    /\ script.found
    /\ doing' = op
    /\ ops' = ops + 1
    /\ pending' = Tail(script.log)
    /\ UNCHANGED <<disk, crashes>>

Create(n) ==
    /\ Entry(disk, n) = NULL
    /\ Start("create", FsCreate(<<disk>>, n))

Write(n, pos, len) ==
    /\ Entry(disk, n) # NULL
    /\ pos < MaxSize
    /\ Seek \/ pos <= disk.block[Entry(disk, n)].size
    /\ Start("write", FsWrite(<<disk>>, Entry(disk, n), pos, len))

Truncate(n, size) ==
    /\ Entry(disk, n) # NULL
    /\ Seek \/ size <= disk.block[Entry(disk, n)].size
    /\ Start("truncate", FsTruncate(<<disk>>, Entry(disk, n), size))

Delete(n, opened) ==
    /\ Entry(disk, n) # NULL
    /\ Start("delete", FsDelete(<<disk>>, n, opened))

(* hd_write_sector().                                                      *)
WriteSector ==
    /\ pending # <<>>
    /\ disk' = Head(pending)
    /\ pending' = Tail(pending)
    /\ doing' = IF Tail(pending) = <<>> THEN "idle" ELSE doing
    /\ UNCHANGED <<crashes, ops>>

(* The machine stops, and load_fs() finds what was written.                *)
Crash ==
    /\ doing \in CrashIn /\ crashes < MaxCrashes
    /\ pending' = <<>>
    /\ doing' = "idle"
    /\ crashes' = crashes + 1
    /\ UNCHANGED <<disk, ops>>

(* No program calls.                                                       *)
Idle == doing = "idle" /\ UNCHANGED vars

Next ==
    \/ \E n \in Names :
        \/ Create(n)
        \/ \E pos \in 0 .. MaxSize - 1, len \in Lengths : Write(n, pos, len)
        \/ \E size \in Sizes : Truncate(n, size)
        \/ \E opened \in OpenSucceeds : Delete(n, opened)
    \/ WriteSector
    \/ Crash
    \/ Idle

Spec == Init /\ [][Next]_vars
----------------------------------------------------------------------------
(* Types.                                                                  *)
Words == [size : Nat, ptr : [Slots -> Blocks]]

Disks == [marked : SUBSET Blocks, block : [Blocks -> Words]]

TypeOK ==
    /\ disk \in Disks
    /\ pending \in Seq(Disks)
    /\ doing \in {"idle", "create", "write", "truncate", "delete"}
    /\ doing = "idle" <=> pending = <<>>
    /\ crashes \in 0 .. MaxCrashes
    /\ ops \in 0 .. MaxOps

(* The pointers in a block, as <<block, slot, what it points to>>.         *)
PointersOf(b, n) ==
    {<<b, i, disk.block[b].ptr[i]>> : i \in {j \in 0 .. n - 1 : disk.block[b].ptr[j] # NULL}}

FileInodes == {Entry(disk, n) : n \in Names} \ {NULL}

FilePointers(f) ==
    LET double == PointersOf(disk.block[f].ptr[DIP], ADDRS_PER_BLOCK)
    IN  PointersOf(f, InodeSlots)
            \cup (IF disk.block[f].ptr[SIP] = NULL THEN {}
                  ELSE PointersOf(disk.block[f].ptr[SIP], ADDRS_PER_BLOCK))
            \cup (IF disk.block[f].ptr[DIP] = NULL THEN {}
                  ELSE double \cup UNION {PointersOf(p[3], ADDRS_PER_BLOCK) : p \in double})

References ==
    PointersOf(ROOT_INODE_BLOCK, 1)
        \cup {<<EntryBlock(disk), n, Entry(disk, n)>> : n \in {m \in Names : Entry(disk, m) # NULL}}
        \cup UNION {FilePointers(f) : f \in FileInodes}

Referenced == {p[3] : p \in References}

\* Where the machine may stop, or an operation may start.
Settled == doing \in {"idle", "write"}

(* No block is in two places of the same file, in two files, or in a file  *)
(* and the directory.                                                      *)
BlocksOwnedOnce ==
    Settled => \A p, q \in References : p[3] = q[3] => p = q

(* Whatever is referred to is marked as used in the bitmap, and lies where *)
(* files are: a block can never be given away a second time.  This holds   *)
(* after every single sector of a write.                                   *)
ReferencedAreMarked ==
    Settled => Referenced \subseteq disk.marked \cap (FirstDataBlock .. LastBlock)

(* Without a crash, the bitmap has no block that nothing refers to.        *)
NothingLeaks ==
    doing = "idle" /\ crashes = 0 => disk.marked = Referenced \cup (0 .. FirstDataBlock - 1)

(* A file that was only ever written up to its end has a block for every   *)
(* byte of its size.                                                       *)
HasBlock(f, k) ==
    LET single == k - NUM_DIRECT_POINTER
        double == single - ADDRS_PER_BLOCK
    IN  \E p \in FilePointers(f) :
            CASE single < 0 -> p[1] = f /\ p[2] = k
              [] single >= 0 /\ double < 0 ->
                    p[1] = disk.block[f].ptr[SIP] /\ p[2] = single
              [] double >= 0 ->
                    /\ p[2] = double % ADDRS_PER_BLOCK
                    /\ p[1] = disk.block[disk.block[f].ptr[DIP]].ptr[double \div ADDRS_PER_BLOCK]

ReadableToTheEnd ==
    Settled => \A f \in FileInodes :
        \A k \in 0 .. disk.block[f].size : k * BLOCK_SIZE < disk.block[f].size => HasBlock(f, k)
=============================================================================
