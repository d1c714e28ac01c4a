------------------------------- MODULE MCHeap -------------------------------
(* Small instances of Heap for TLC.  Two states that differ only in header *)
(* fields that no step reads any more are the same to TLC.                 *)
EXTENDS Heap

ReadableState ==
    <<linked, stale, [a \in Addr \cap (linked \cup stale) |-> <<prev[a], next[a]>>],
      [a \in Addr \cap linked |-> size[a]], end, mapped, held, call, panicked>>
=============================================================================
