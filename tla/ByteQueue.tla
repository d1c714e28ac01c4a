----------------------------- MODULE ByteQueue -----------------------------
(***************************************************************************)
(* What a ring_fifo promises its callers: a queue of at most Size bytes.   *)
(* A byte is appended only while there is room, the oldest byte is the one *)
(* that is taken, and nothing else ever happens to the queue.              *)
(***************************************************************************)
EXTENDS Naturals, Sequences

CONSTANTS Size, Bytes

VARIABLE queue

Init == queue = <<>>

Append1 == Len(queue) < Size /\ \E b \in Bytes : queue' = Append(queue, b)
Take1   == queue # <<>> /\ queue' = Tail(queue)

Next == Append1 \/ Take1

Spec == Init /\ [][Next]_queue
=============================================================================
