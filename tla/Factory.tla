------------------------------ MODULE Factory ------------------------------
(***************************************************************************)
(* What the furniture factory of paralleleModellierung() keeps to: six      *)
(* threads, sixteen semaphores.  The capacities are constants here; the code uses 500 for   *)
(* the store, 10 for the ramp, 30 for shop 1 and 20 for each of shop 2's   *)
(* two departments.                                                        *)
(***************************************************************************)
EXTENDS AtomicSemaphores, ThreadPrograms

CONSTANTS LagerFree, RampeFree, G1Free, G2bFree, G2sFree
----------------------------------------------------------------------------
(* No place ever holds less than nothing or more than there is room for,   *)
(* so none of the stock figures the threads print is absurd.               *)
StocksWithinRoom ==
    /\ \A x \in FactoryStocks : stock[x] >= 0
    /\ stock["betten"] + stock["schraenke"] <= LagerFree
    /\ stock["rbetten"] + stock["rschraenke"] <= RampeFree
    /\ stock["g1betten"] <= G1Free
    /\ stock["g2betten"] <= G2bFree
    /\ stock["g2schraenke"] <= G2sFree

(* The threads can stop for good in one way only: the ramp has filled with *)
(* cupboards while the first truck waits for a bed, and the second truck   *)
(* has bound itself to a choice that has become stale - a bed that the     *)
(* first truck took, or room in one department of the second shop, which   *)
(* in turn waits for goods of the other kind.                              *)
OnlyTheRampJams ==
    Stuck => /\ stock["rbetten"] = 0 /\ stock["rschraenke"] = RampeFree
             /\ Instr("Mitarbeiter") = P_("rampe_free")
             /\ Instr("Lastwagen1") = P_("rampe_betten")
             /\ <<Instr("Lastwagen2").on, Instr("Geschaeft2").on>> \in
                    {<<"g2b_free", "g2s_full">>, <<"g2s_free", "g2b_full">>}
                \/ Instr("Lastwagen2") = P_("rampe_betten")
=============================================================================
