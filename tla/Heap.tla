-------------------------------- MODULE Heap --------------------------------
(***************************************************************************)
(* The kernel heap of mm_heap.c, behind malloc(), free() and realloc() of  *)
(* stdlib.c: a circular doubly linked list of headers, sorted by address,  *)
(* that lie in front of the blocks they describe.  Memory is counted from  *)
(* the heap's start; the list begins with the empty block "start" there    *)
(* and ends with the empty block "end" in the heap's last bytes.           *)
(*                                                                         *)
(* The heap has no lock, and the system calls that use it run with         *)
(* interrupts enabled.  With Preemptive another process may use the heap   *)
(* between the steps of a call.                                            *)
(***************************************************************************)
EXTENDS Integers, FiniteSets

CONSTANTS
    Procs,
    Sizes,        \* the sizes asked for
    H,            \* sizeof(mm_header)
    Page,         \* 0x1000
    ExpandStep,   \* HEAP_EXPAND_STEP_SIZE
    InitialPages, \* KHEAP_INITIAL_SIZE, in pages
    Frames,       \* the page frames the machine has for the heap
    Preemptive    \* whether calls of two processes interleave

ASSUME HeapAssumption ==
    /\ Sizes \subseteq Nat
    /\ H \in Nat \ {0}
    /\ Page \in Nat /\ Page % 2 = 0 /\ H <= Page
    /\ ExpandStep \in Nat \ {0} /\ ExpandStep % Page = 0
    /\ InitialPages \in Nat /\ 2 * H <= InitialPages * Page
    /\ Frames \in Nat /\ InitialPages <= Frames
    /\ Preemptive \in BOOLEAN

Start == 0
None  == -1
Addr  == 0 .. Frames * Page - 1

VARIABLES
    linked,     \* the headers in the list
    prev, next, size,   \* the fields of the headers, stale ones included
    end,        \* heap->end
    mapped,     \* the pages of the heap that have a frame
    held,       \* the size asked for of each block in use, None of the others
    stale,      \* the freed headers that nothing was written over since
    call,       \* the call each process is in
    panicked    \* "There are no free frames!"

headers == <<linked, prev, next, size>>
vars == <<headers, end, mapped, held, stale, call, panicked>>

Idle == [at |-> "idle", size |-> 0, old |-> None, new |-> None,
         hole |-> None, grown |-> FALSE]

(* mm_init() and create_heap().                                            *)
Init ==
    LET last == InitialPages * Page - H
    IN  /\ linked = {Start, last}
        /\ prev = [a \in Addr |-> IF a = Start THEN last ELSE Start]
        /\ next = [a \in Addr |-> IF a = Start THEN last ELSE Start]
        /\ size = [a \in Addr |-> 0]
        /\ end = last
        /\ mapped = 0 .. InitialPages - 1
        /\ held = [a \in Addr |-> None]
        /\ stale = {}
        /\ call = [p \in Procs |-> Idle]
        /\ panicked = FALSE

At(p, at) ==
    /\ ~panicked
    /\ call[p].at = at
    /\ Preemptive \/ \A q \in Procs \ {p} : call[q].at = "idle"

Held == {a \in Addr : held[a] # None}

\* The freed headers that survive a write to addresses lo .. hi - 1.
Untouched(lo, hi) == {a \in stale : a + H <= lo \/ hi <= a}
----------------------------------------------------------------------------
(* The hole in front of a header: where it begins, and how large it is.    *)
PositionBehindHeader(b) == prev[b] + H
Position(b) == prev[b] + H + size[prev[b]]
Hole(b) == b - Position(b)

FitsWithoutHeader(b, n) == Hole(b) >= n
Fits(b, n) == Hole(b) >= n + H

(* Worst fit: the first of the largest holes.                              *)
Candidates(n) == {b \in linked \ {Start} : Fits(b, n)}

WorstFit(n) ==
    CHOOSE b \in Candidates(n) : \A c \in Candidates(n) :
        Hole(c) < Hole(b) \/ (Hole(c) = Hole(b) /\ b <= c)

(* The test (new_size & 0xFFFFF000 != 0) compares first: it is the test    *)
(* for an odd number, which every size that arrives here is.               *)
PageDown(n) == IF n % 2 = 1 THEN n - (n % Page) ELSE n
PageUp(n) == IF n % 2 = 1 THEN n - (n % Page) + Page ELSE n

HeapSize == end + H - Start + 1

ExpandedSize(n) == PageUp(HeapSize + (n \div ExpandStep + 1) * ExpandStep)

\* The pages that the loop of heap_expand() visits.
NewPagesButFirst(newSize) ==
    {i \div Page : i \in {j \in HeapSize + 1 .. newSize : (j - HeapSize) % Page = 0}}

NewPages(newSize) ==
    {i \div Page : i \in {j \in HeapSize .. newSize : (j - HeapSize) % Page = 0}}

(* alloc_frame() finds no frame for one of the pages, and panics.          *)
NeverOutOfFrames(pages) == FALSE
OutOfFrames(pages) == Cardinality(pages) > Frames
----------------------------------------------------------------------------
(* mallocn(), with malloc() and calloc() in front of it.                   *)
Malloc(p, n) ==
    /\ At(p, "idle")
    /\ call' = [call EXCEPT ![p] = [Idle EXCEPT !.at = "scan", !.size = n]]
    /\ UNCHANGED <<headers, end, mapped, held, stale, panicked>>

\* The block behind is far enough away for a to have n bytes.
InPlaceWithHeader(a, n) == next[a] >= a + H + n + H
InPlace(a, n) == next[a] >= a + H + n

(* realloc(): in place if possible.                                        *)
Realloc(p, a, n) ==
    /\ At(p, "idle") /\ a \in Held
    /\ IF InPlace(a, n)
       THEN /\ size' = [size EXCEPT ![a] = n]
            /\ held' = [held EXCEPT ![a] = n]
            /\ stale' = Untouched(a, a + H + n)
            /\ UNCHANGED call
       ELSE /\ call' = [call EXCEPT ![p] = [Idle EXCEPT !.at = "scan", !.size = n, !.old = a]]
            /\ UNCHANGED <<size, held, stale>>
    /\ UNCHANGED <<linked, prev, next, end, mapped, panicked>>

(* The search of heap_mallocn().                                           *)
Scan(p) ==
    /\ At(p, "scan")
    /\ call' = IF Candidates(call[p].size) # {}
               THEN [call EXCEPT ![p].at = "setup", ![p].hole = WorstFit(call[p].size)]
               ELSE [call EXCEPT ![p].at = "expand"]
    /\ UNCHANGED <<headers, end, mapped, held, stale, panicked>>

(* heap_expand(): frames for the new pages, and a new end header.  Then    *)
(* heap_mallocn() calls itself; its test for a heap that grew by less than *)
(* the size asked for never applies to sizes below the machine's memory.   *)
Expand(p) ==
    LET newSize == ExpandedSize(call[p].size)
        pages   == mapped \cup NewPages(newSize)
        newEnd  == newSize - H
        last    == prev[end]
    IN  /\ At(p, "expand")
        /\ IF OutOfFrames(pages)
           THEN /\ panicked' = TRUE
                /\ UNCHANGED <<headers, end, mapped, call>>
           ELSE /\ mapped' = pages
                /\ end' = newEnd
                /\ linked' = (linked \ {end}) \cup {newEnd}
                /\ next' = [next EXCEPT ![last] = newEnd, ![newEnd] = Start]
                /\ prev' = [prev EXCEPT ![newEnd] = last, ![Start] = newEnd]
                /\ size' = [size EXCEPT ![newEnd] = 0, ![Start] = 0]
                /\ call' = [call EXCEPT ![p].at = "scan", ![p].grown = TRUE]
                /\ UNCHANGED panicked
        /\ UNCHANGED <<held, stale>>

(* heap_setup_block() in the hole that was found.                          *)
SetupBlock(p) ==
    LET hole == call[p].hole
        new  == Position(hole)
        n    == call[p].size
    IN  /\ At(p, "setup")
        /\ linked' = linked \cup {new}
        /\ prev' = [prev EXCEPT ![new] = prev[hole], ![hole] = new]
        /\ next' = [next EXCEPT ![new] = hole, ![prev[hole]] = new]
        /\ size' = [size EXCEPT ![new] = n]
        /\ held' = [held EXCEPT ![new] = n]
        /\ stale' = Untouched(new, new + H + n)
        /\ call' = [call EXCEPT ![p] = IF @.old = None THEN Idle
                                       ELSE [@ EXCEPT !.at = "move", !.new = new]]
        /\ UNCHANGED <<end, mapped, panicked>>

(* heap_free(): the header in front of the block is taken out if the       *)
(* header before it points to it; otherwise the call is refused.           *)
ValidWhateverBefore(a) == TRUE
Valid(a) == next[prev[a]] = a

HeapFree(a) ==
    /\ IF Valid(a)
       THEN /\ linked' = linked \ {a}
            /\ next' = [next EXCEPT ![prev[a]] = next[a]]
            /\ prev' = [prev EXCEPT ![next[a]] = prev[a]]
       ELSE UNCHANGED <<linked, next, prev>>
    /\ held' = [held EXCEPT ![a] = None]
    /\ stale' = stale \cup {a}
    /\ UNCHANGED <<size, end, mapped, panicked>>

(* The end of realloc(): memmove() of hdr->size bytes, and free().         *)
Move(p) ==
    /\ At(p, "move")
    /\ HeapFree(call[p].old)
    /\ call' = [call EXCEPT ![p] = Idle]

Free(p, a) ==
    /\ At(p, "idle") /\ a \in Held
    /\ \A q \in Procs : call[q].old # a
    /\ HeapFree(a)
    /\ UNCHANGED call

(* A program frees a block twice, while its header is still there.        *)
FreeAgain(p, a) ==
    /\ At(p, "idle") /\ a \in stale
    /\ prev[a] \in stale \cup linked
    /\ HeapFree(a)
    /\ UNCHANGED call

Halted == panicked /\ UNCHANGED vars

Next ==
    \/ \E p \in Procs :
        \/ \E n \in Sizes : Malloc(p, n)
        \/ \E a \in Addr, n \in Sizes : Realloc(p, a, n)
        \/ Scan(p) \/ Expand(p) \/ SetupBlock(p) \/ Move(p)
        \/ \E a \in Addr : Free(p, a) \/ FreeAgain(p, a)
    \/ Halted

Spec == Init /\ [][Next]_vars
----------------------------------------------------------------------------
(* Types.                                                                  *)
TypeOK ==
    /\ linked \subseteq Addr
    /\ prev \in [Addr -> Addr]
    /\ next \in [Addr -> Addr]
    /\ size \in [Addr -> Nat]
    /\ end \in Addr
    /\ mapped \subseteq 0 .. Frames
    /\ held \in [Addr -> Sizes \cup {None}]
    /\ stale \subseteq Addr
    /\ call \in [Procs -> [at : {"idle", "scan", "expand", "setup", "move"},
                           size : Sizes \cup {0}, old : Addr \cup {None},
                           new : Addr \cup {None}, hole : Addr \cup {None},
                           grown : BOOLEAN]]
    /\ panicked \in BOOLEAN

(* No byte belongs to two blocks, to a block and a header, or lies outside *)
(* the heap, whatever was allocated, moved, freed and freed twice before.  *)
BlocksDisjoint ==
    \A a \in Held :
        /\ Start + H <= a /\ a + H + held[a] <= end
        /\ \A b \in Held : a < b => a + H + held[a] <= b

(* The list holds the blocks in use and the two ends, in the order of      *)
(* their addresses, and leads through them both ways: neither a double     *)
(* free, which heap_free() has to recognise from a stale header, nor the   *)
(* abandoned header of an expanded heap gets into it.                      *)
ListInOrder ==
    /\ linked = Held \cup {Start, end}
    /\ \A a \in linked :
        /\ next[a] \in linked /\ prev[next[a]] = a
        /\ a # end => a < next[a] /\ \A b \in linked : a < b => next[a] <= b
    /\ next[end] = Start

(* Every byte of the heap has memory behind it: heap_expand() maps all the *)
(* pages that the list may use from then on.                               *)
HeapMapped == \A a \in Start .. end + H - 1 : a \div Page \in mapped

(* One expansion makes room: the recursion of heap_mallocn() ends after it *)
(* although the room for the header is not added to the size.              *)
OneExpansionSuffices ==
    \A p \in Procs :
        call[p].at \in {"scan", "expand"} /\ call[p].grown => Candidates(call[p].size) # {}

(* Blocks and list together: each would be of little use without the other. *)
HeapSound == BlocksDisjoint /\ ListInOrder

(* A heap that grows has memory for all it says it has, and room for the   *)
(* call that made it grow.                                                 *)
GrowthSound == HeapMapped /\ OneExpansionSuffices

(* realloc() copies the old block to a new one that is larger.             *)
MoveFits ==
    \A p \in Procs :
        call[p].at = "move" => size[call[p].old] < held[call[p].new]
=============================================================================
