---------------------------- MODULE Experiments ----------------------------
(***************************************************************************)
(* The experiments with semaphores of init/tests.c, one at a time: the     *)
(* producers and consumers step by step, on top of the spin lock, and the  *)
(* furniture factory on top of what the semaphores promise.                *)
(***************************************************************************)
EXTENDS ProducerConsumer

CONSTANTS LagerFree, RampeFree, G1Free, G2bFree, G2sFree

ASSUME FactoryAssumption ==
    /\ LagerFree \in Nat /\ LagerFree >= 2
    /\ {RampeFree, G1Free, G2bFree, G2sFree} \subseteq Nat \ {0}

VARIABLES
    experiment,                   \* "producers" or "factory"
    place, counts, stocks         \* of the factory: ip, count and stock

F == INSTANCE Factory
    WITH Threads <- FactoryThreads, Sems <- FactorySems, Stocks <- FactoryStocks, Program <- Programs,
         InitCount <- paralleleModellierung(LagerFree, RampeFree, G1Free, G2bFree, G2sFree),
         ip <- place, count <- counts, stock <- stocks

factoryVars == <<place, counts, stocks>>

InitExperiment ==
    /\ experiment \in {"producers", "factory"}
    /\ Init
    /\ F!Init

Works(t) == experiment = "producers" /\ Step(t) /\ UNCHANGED <<experiment, factoryVars>>
Produce == \E t \in Threads : Works(t)
Move    == experiment = "factory" /\ F!Next /\ UNCHANGED <<experiment, vars>>

SpecExperiment ==
    /\ InitExperiment /\ [][Produce \/ Move]_<<experiment, vars, factoryVars>>
    /\ \A t \in Threads : WF_vars(Works(t))
----------------------------------------------------------------------------
(* What the threads print is never absurd: no store holds less than        *)
(* nothing or more than there is room for.                                 *)
StocksFit == ElementsWithinCapacity /\ F!StocksWithinRoom

(* The threads do not all wait for each other: producers and consumers     *)
(* never, with fewer consumers than places, and the factory's threads only *)
(* when the ramp has filled with the wrong goods.                          *)
OnlyTheRampJams == NeverAllWait /\ F!OnlyTheRampJams
=============================================================================
