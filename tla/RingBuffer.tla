----------------------------- MODULE RingBuffer -----------------------------
(***************************************************************************)
(* The ring_fifo of lib/ringbuffer.c in the use the kernel makes of it: as *)
(* the input queue of a process.  The process reads it, and may write it,  *)
(* through /dev/stdin with interrupts enabled; the keyboard interrupt      *)
(* writes one byte at a time with interrupts disabled, so its rf_write()   *)
(* is one step, and it may fall between any two steps of the process when  *)
(* Interrupts is TRUE.                                                     *)
(***************************************************************************)
EXTENDS Integers, Sequences

CONSTANTS
    Size,        \* fifo->size
    Bytes,       \* the bytes written
    Counts,      \* the counts passed to rf_read() and rf_write()
    Interrupts   \* whether keys arrive while the process is in the code

ASSUME RingAssumption ==
    /\ Size \in Nat \ {0}
    /\ Counts \subseteq Nat
    /\ Interrupts \in BOOLEAN
    /\ Bytes # {}

VARIABLES
    data, start, end, len,   \* the fields of the ring_fifo
    pc,                      \* where the process stands
    count,                   \* bytes it still has to transfer
    loaded                   \* fifo->len in a register, in the middle of len--

fifo == <<data, start, end, len>>
vars == <<data, start, end, len, pc, count, loaded>>

Slots == 0 .. Size - 1

\* The next position, (i + 1) % fifo->size.
AdvanceUnwrapped(i) == i + 1
AdvanceWrapsEarly(i) == (i + 1) % (Size - 1)
Advance(i) == (i + 1) % Size

\* fifo->len == fifo->size
FullTooLate == len > Size
Full == len = Size

(* rf_alloc(), which ends in rf_clear(): data is not initialised.          *)
Init ==
    /\ data \in [Slots -> Bytes]
    /\ start = 0 /\ end = 0 /\ len = 0
    /\ pc = "idle"
    /\ count = 0
    /\ loaded = 0

(* The loop condition of rf_read() and rf_write(), and their early return. *)
BeginRead(n) ==
    /\ pc = "idle"
    /\ pc' = "read"
    /\ count' = n
    /\ UNCHANGED <<fifo, loaded>>

BeginWrite(n) ==
    /\ pc = "idle"
    /\ pc' = "write"
    /\ count' = n
    /\ UNCHANGED <<fifo, loaded>>

Return ==
    /\ \/ pc \in {"read", "write"} /\ count = 0
       \/ pc = "read" /\ len = 0
       \/ pc = "write" /\ Full
    /\ pc' = "idle"
    /\ count' = 0
    /\ UNCHANGED <<fifo, loaded>>

(* rf_read(), one byte: *buf++ = data[start]; advance start; len--.  The   *)
(* decrement loads fifo->len, and stores it one smaller later.             *)
ReadByte ==
    /\ pc = "read" /\ count > 0 /\ len # 0
    /\ start' = Advance(start)
    /\ pc' = "load"
    /\ count' = count - 1
    /\ UNCHANGED <<data, end, len, loaded>>

LoadLength ==
    /\ pc = "load"
    /\ loaded' = len
    /\ pc' = "store"
    /\ UNCHANGED <<fifo, count>>

StoreLength ==
    /\ pc = "store"
    /\ len' = loaded - 1
    /\ loaded' = 0
    /\ pc' = "read"
    /\ UNCHANGED <<data, start, end, count>>

(* rf_write(), one byte, by the process: data[end] = b; advance end; len++.*)
WriteByte(b) ==
    /\ pc = "write" /\ count > 0 /\ ~Full
    /\ data' = [data EXCEPT ![end] = b]
    /\ end' = Advance(end)
    /\ pc' = "count"
    /\ count' = count - 1
    /\ UNCHANGED <<start, len, loaded>>

CountByte ==
    /\ pc = "count"
    /\ len' = len + 1
    /\ pc' = "write"
    /\ UNCHANGED <<data, start, end, count, loaded>>

(* The keyboard interrupt: rf_write(focus_proc->stdin, &c, 1).             *)
Key(b) ==
    /\ Interrupts \/ pc = "idle"
    /\ ~Full
    /\ data' = [data EXCEPT ![end] = b]
    /\ end' = Advance(end)
    /\ len' = len + 1
    /\ UNCHANGED <<start, pc, count, loaded>>

\* A key that finds the queue full is dropped.
KeyDropped ==
    /\ Interrupts \/ pc = "idle"
    /\ Full
    /\ UNCHANGED vars

Next ==
    \/ \E n \in Counts : BeginRead(n) \/ BeginWrite(n)
    \/ Return
    \/ ReadByte
    \/ LoadLength
    \/ StoreLength
    \/ \E b \in Bytes : WriteByte(b)
    \/ CountByte
    \/ \E b \in Bytes : Key(b)
    \/ KeyDropped

Spec == Init /\ [][Next]_vars
----------------------------------------------------------------------------
(* Types: the positions stay inside data and the length inside the size.   *)
TypeOK ==
    /\ data \in [Slots -> Bytes]
    /\ start \in Slots
    /\ end \in Slots
    /\ len \in 0 .. Size
    /\ pc \in {"idle", "read", "load", "store", "write", "count"}
    /\ count \in Nat
    /\ loaded \in 0 .. Size

(* The number of bytes held, given that a byte taken is not yet            *)
(* subtracted from len and a byte written is not yet added.                *)
Held ==
    CASE pc \in {"load", "store"} -> len - 1
      [] pc = "count"             -> len + 1
      [] OTHER                    -> len

(* The three fields agree: between calls the write position is len places  *)
(* after the read position, so rf_getlength() "returns the buffer's number *)
(* of used bytes" whatever reads, writes and wrap-arounds came before.     *)
UsedBytes == pc = "idle" => end = (start + len) % Size

(* size is the "max value of len": a queue that went past it would never   *)
(* test as full again.                                                     *)
LengthWithinSize == len <= Size

(* The contents, oldest first: the refinement mapping.                     *)
Contents == [i \in 1 .. Held |-> data[(start + i - 1) % Size]]

Queue == INSTANCE ByteQueue WITH queue <- Contents

(* When no key arrives in the middle of a call, the ring is a queue: bytes *)
(* leave in the order they came, and no read or write disturbs another.    *)
ImplementsQueue == Queue!Spec
=============================================================================
