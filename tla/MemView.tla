------------------------------ MODULE MemView ------------------------------
(***************************************************************************)
(* The memory viewer of apps/memview.c: the dummy blocks it allocates, and *)
(* its picture of the kernel heap, one cell for so many bytes.  The heap   *)
(* is what the viewer sees of it: blocks with headers, that do not overlap,*)
(* the last of them, of size 0, at the end.  Where a new block goes, and   *)
(* when the heap grows, is left open (module Heap says it): it never       *)
(* shrinks, heap_contract() has no caller.                                 *)
(***************************************************************************)
EXTENDS Integers, SequencesExt

CONSTANTS
    Slots,        \* MEMVIEW_MAX_DUMMY_BLOCKS, 10000 in the code
    Cells,        \* of the picture, 25 * 80 in the code
    Step,         \* bytes of a zoom, 512 in the code
    Header,       \* bytes of an mm_header
    HeapSizes,    \* sizes the heap may have
    Sizes,        \* bytes of the blocks of the benchmark
    MaxBytesPerBlock    \* bound of zooming out

VARIABLES
    mv_allocated_blocks,   \* where the dummy blocks begin, NULL where there is none
    mv_bytes_per_block,
    mv_disp,               \* the picture
    heap,                  \* allocated blocks: where they begin, with their sizes
    mv_total_mem,          \* size of the heap
    stage                  \* "view", "benchmark" or "exited"

viewVars == <<mv_allocated_blocks, mv_bytes_per_block, mv_disp, heap, mv_total_mem, stage>>

NULL == -1
Slot == 1 .. Slots
Held == {mv_allocated_blocks[i] : i \in Slot} \ {NULL}
Least(S) == CHOOSE x \in S : \A y \in S : x <= y

(* The kernel heap: one block of the kernel, and the last one.             *)
Bytes(b) == b.at .. b.at + Header + b.size - 1
Kernels == [at |-> 0, size |-> 1]
EndMark(total) == [at |-> total - Header, size |-> 0]
AllBlocks(hp, total) == hp \cup {Kernels, EndMark(total)}
Room(size, total) ==
    {at \in 0 .. total - size : \A b \in AllBlocks(heap, total) : Bytes(b) \cap Bytes([at |-> at, size |-> size]) = {}}
----------------------------------------------------------------------------
(* The picture: every cell a block begins in or fills, in the order of the *)
(* list, is marked, and what is left of it pink.                           *)
RED == "red"   PINK == "pink"   GREEN == "green"   DARKGREY == "darkgrey"

CellOf(at, bpb) == at \div bpb
NextCellOf(at, bpb) == (at \div bpb) + 1

mark_visual_block(disp, at, size, bpb) ==
    LET first == CellOf(at, bpb)
        full  == size \div bpb
    IN  [i \in 1 .. Cells |-> IF i - 1 \in first .. first + full - 1 THEN RED
                              ELSE IF i - 1 = first + full THEN PINK ELSE disp[i]]

Cleared(total, bpb) == [i \in 1 .. Cells |-> IF i - 1 < total \div bpb THEN GREEN ELSE DARKGREY]

update_view(hp, total, bpb) ==
    FoldLeft(LAMBDA disp, b : mark_visual_block(disp, b.at, b.size, bpb), Cleared(total, bpb),
             SetToSortSeq(AllBlocks(hp, total), LAMBDA a, b : a.at < b.at))
----------------------------------------------------------------------------
(* The dummy blocks: the first free slot takes a new one, and the first    *)
(* block found is freed.                                                   *)
Free == {i \in Slot : mv_allocated_blocks[i] = NULL}

Allocates(size) ==
    \/ Free = {} /\ UNCHANGED <<mv_allocated_blocks, heap, mv_total_mem>>
    \/ /\ Free # {}
       /\ \E total \in {t \in HeapSizes : t >= mv_total_mem} :
             \/ \E at \in Room(size, total) :
                   /\ mv_allocated_blocks' = [mv_allocated_blocks EXCEPT ![Least(Free)] = at]
                   /\ heap' = heap \cup {[at |-> at, size |-> size]}
                   /\ mv_total_mem' = total
             \/ Room(size, total) = {} /\ UNCHANGED <<mv_allocated_blocks, heap, mv_total_mem>>

\* heap_free(): the block leaves the list, the heap keeps its size.
Released(at) ==
    /\ heap' = {b \in heap : b.at # at}
    /\ UNCHANGED mv_total_mem

SlotKept(slots, i) == slots
SlotEmptied(slots, i) == [slots EXCEPT ![i] = NULL]

Frees ==
    IF Held = {} THEN UNCHANGED <<mv_allocated_blocks, heap, mv_total_mem>>
    ELSE LET i == Least(Slot \ Free)
         IN  /\ Released(mv_allocated_blocks[i])
             /\ mv_allocated_blocks' = SlotEmptied(mv_allocated_blocks, i)

FreesAll ==
    /\ heap' = {b \in heap : b.at \notin Held}
    /\ UNCHANGED mv_total_mem
    /\ mv_allocated_blocks' = [i \in Slot |-> NULL]

ViewInit ==
    /\ mv_allocated_blocks = [i \in Slot |-> NULL]
    /\ heap = {}
    /\ mv_total_mem = Least(HeapSizes)
    /\ mv_bytes_per_block = mv_total_mem \div Cells
    /\ mv_disp = update_view(heap, mv_total_mem, mv_bytes_per_block)
    /\ stage = "view"

Viewed == mv_disp' = update_view(heap', mv_total_mem', mv_bytes_per_block')

KeyA == Allocates(mv_bytes_per_block) /\ UNCHANGED <<mv_bytes_per_block, stage>> /\ Viewed
KeyF == Frees /\ UNCHANGED <<mv_bytes_per_block, stage>> /\ Viewed

Zoom ==
    /\ \/ mv_bytes_per_block > Step /\ mv_bytes_per_block' = mv_bytes_per_block - Step
       \/ mv_bytes_per_block + Step <= MaxBytesPerBlock /\ mv_bytes_per_block' = mv_bytes_per_block + Step
    /\ UNCHANGED <<mv_allocated_blocks, heap, mv_total_mem, stage>>
    /\ Viewed

\* The benchmark frees all, and is a long list of allocations and releases.
KeyB == stage' = "benchmark" /\ FreesAll /\ UNCHANGED <<mv_bytes_per_block, mv_disp>>
mv_do_benchmark ==
    /\ stage = "benchmark"
    /\ UNCHANGED mv_bytes_per_block
    /\ \/ ((\E size \in Sizes : Allocates(size)) \/ Frees) /\ UNCHANGED <<mv_disp, stage>>
       \/ /\ stage' = "view" /\ UNCHANGED <<mv_allocated_blocks, heap, mv_total_mem>>
          /\ Viewed

Exit == stage' = "exited" /\ FreesAll /\ UNCHANGED <<mv_bytes_per_block, mv_disp>>

ViewNext == (stage = "view" /\ (KeyA \/ KeyF \/ Zoom \/ KeyB \/ Exit)) \/ mv_do_benchmark
----------------------------------------------------------------------------
(* The viewer's blocks are those of its slots, each in one of them, and    *)
(* none is left when it exits.                                             *)
SlotsHoldBlocks ==
    /\ Held = {b.at : b \in heap}
    /\ \A i, j \in Slot : mv_allocated_blocks[i] = mv_allocated_blocks[j] => i = j \/ mv_allocated_blocks[i] = NULL
    /\ stage = "exited" => heap = {}

CellBytes(i) == (i - 1) * mv_bytes_per_block .. (i * mv_bytes_per_block) - 1
Occupied(i) == \E b \in AllBlocks(heap, mv_total_mem) : Bytes(b) \cap CellBytes(i) # {}

(* A cell that is marked has a byte of a block in it, and the cell in which*)
(* a block begins is marked.                                               *)
MarksAreBlocks ==
    stage = "view" =>
        /\ \A i \in 1 .. Cells : mv_disp[i] \in {RED, PINK} => Occupied(i)
        /\ \A b \in AllBlocks(heap, mv_total_mem), i \in 1 .. Cells : b.at \in CellBytes(i) => mv_disp[i] \in {RED, PINK}

(* What the legend of the viewer says: green is "completely free region"   *)
(* and red "completely filled region" (memview.c).  And the picture is not *)
(* larger than its array.                                                  *)
GreenIsFree == stage = "view" => \A i \in 1 .. Cells : mv_disp[i] = GREEN => ~Occupied(i)
RedIsFull ==
    stage = "view" => \A i \in 1 .. Cells : mv_disp[i] = RED =>
        \A x \in CellBytes(i) : \E b \in AllBlocks(heap, mv_total_mem) : x \in Bytes(b)
PictureFits == stage = "view" => mv_total_mem \div mv_bytes_per_block <= Cells
=============================================================================
