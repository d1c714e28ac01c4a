-------------------------- MODULE ProducerConsumer --------------------------
(***************************************************************************)
(* The producers and consumers of init/tests.c: Ctrl-P starts a producer,  *)
(* Ctrl-C a consumer, any number of times.  A consumer takes two elements. *)
(***************************************************************************)
EXTENDS Semaphores, ThreadPrograms, FiniteSets

CONSTANTS Producers, Consumers, Capacity

ASSUME CapacityAssumption == Capacity \in Nat

Workers == Producers \cup Consumers

Roles == [t \in Workers |-> IF t \in Producers THEN threadProducer ELSE threadConsumer]

do_tests == [free |-> Capacity, full |-> 0, access |-> 1]
----------------------------------------------------------------------------
(* The figures the threads print are never absurd: there are never fewer   *)
(* than no elements and never more than there are places.                  *)
ElementsWithinCapacity == stock["elements"] \in 0 .. Capacity

(* With fewer consumers than places the threads never all wait: consumers  *)
(* that each got one of their two elements leave one for another to take.  *)
NeverAllWait == Cardinality(Consumers) < Capacity => ~Atomic!Stuck
=============================================================================
