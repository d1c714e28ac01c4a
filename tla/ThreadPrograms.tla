--------------------------- MODULE ThreadPrograms ---------------------------
(***************************************************************************)
(* The threads of init/tests.c that work with semaphores: the producers    *)
(* and consumers of Ctrl-P and Ctrl-C, and the furniture factory of        *)
(* Ctrl-M, whose six threads move beds and cupboards from the factory's    *)
(* store over a ramp to two shops.                                         *)
(***************************************************************************)
EXTENDS Integers, Sequences

P_(s) == [op |-> "p", on |-> s]
V_(s) == [op |-> "v", on |-> s]
Add(x, n) == [op |-> "add", on |-> x, by |-> n]
Switch_(x) == [op |-> "switch", on |-> x]

threadProducerEarly ==
    <<P_("free"), V_("full"), P_("access"), Add("elements", 1), V_("access")>>

threadProducer ==
    <<P_("free"), P_("access"), Add("elements", 1), V_("access"), V_("full")>>

threadConsumerKeepsPlace ==
    <<P_("full"), P_("full"), P_("access"), Add("elements", -2),
      V_("access"), V_("free")>>

threadConsumer ==
    <<P_("full"), P_("full"), P_("access"), Add("elements", -2),
      V_("access"), V_("free"), V_("free")>>
----------------------------------------------------------------------------
threadFabrik ==
    <<P_("lager_free"), P_("lager_free"), P_("lager_access"),
      Add("betten", 1), Add("schraenke", 1), V_("lager_access"),
      V_("lager_betten"), V_("lager_schraenke")>>

\* One round of threadMitarbeiter: from the store to the ramp.
Carry(lager, x, rampe, rx) ==
    <<P_("rampe_free"), P_(lager), P_("lager_access"), Add(x, -1),
      V_("lager_access"), V_("lager_free"), P_("rampe_access"),
      Add(rx, 1), V_("rampe_access"), V_(rampe)>>

threadMitarbeiter ==
    Carry("lager_schraenke", "schraenke", "rampe_schraenke", "rschraenke")
    \o Carry("lager_betten", "betten", "rampe_betten", "rbetten")

threadLastwagen1KeepsRoom ==
    <<P_("g1_free"), P_("rampe_betten"), P_("rampe_access"),
      Add("rbetten", -1), V_("rampe_access"),
      P_("g1_access"), Add("g1betten", 1), V_("g1_access"), V_("g1_full")>>

threadLastwagen1 ==
    <<P_("g1_free"), P_("rampe_betten"), P_("rampe_access"),
      Add("rbetten", -1), V_("rampe_access"), V_("rampe_free"),
      P_("g1_access"), Add("g1betten", 1), V_("g1_access"), V_("g1_full")>>

\* One round of threadLastwagen2: look at the ramp, then take one kind.
Load(rampe, rx, free, x, full) ==
    <<P_("rampe_access"), Switch_(rx), V_("rampe_access"), P_(free),
      P_(rampe), P_("rampe_access"), Add(rx, -1), V_("rampe_access"),
      V_("rampe_free"), P_("g2_access"), Add(x, 1), V_("g2_access"), V_(full)>>

threadLastwagen2 ==
    Load("rampe_schraenke", "rschraenke", "g2s_free", "g2schraenke", "g2s_full")
    \o Load("rampe_betten", "rbetten", "g2b_free", "g2betten", "g2b_full")

threadGeschaeft1Early ==
    <<P_("g1_full"), V_("g1_free"), P_("g1_access"), Add("g1betten", -1),
      V_("g1_access")>>

threadGeschaeft1 ==
    <<P_("g1_full"), P_("g1_access"), Add("g1betten", -1), V_("g1_access"),
      V_("g1_free")>>

\* One round of threadGeschaeft2: look at the shop, then sell one kind.
Sell(x, full, free) ==
    <<P_("g2_access"), Switch_(x), V_("g2_access"), P_(full),
      P_("g2_access"), Add(x, -1), V_("g2_access"), V_(free)>>

threadGeschaeft2 ==
    Sell("g2betten", "g2b_full", "g2b_free")
    \o Sell("g2schraenke", "g2s_full", "g2s_free")

Programs ==
    [Fabrik |-> threadFabrik, Mitarbeiter |-> threadMitarbeiter,
     Lastwagen1 |-> threadLastwagen1, Lastwagen2 |-> threadLastwagen2,
     Geschaeft1 |-> threadGeschaeft1, Geschaeft2 |-> threadGeschaeft2]

FactoryThreads == DOMAIN Programs

\* The semaphores, with the room of the store, the ramp and the shops.
paralleleModellierung(lager, rampe, g1, g2b, g2s) ==
    [lager_betten |-> 0, lager_schraenke |-> 0, lager_free |-> lager, lager_access |-> 1,
     rampe_betten |-> 0, rampe_schraenke |-> 0, rampe_free |-> rampe, rampe_access |-> 1,
     g1_full |-> 0, g1_free |-> g1, g1_access |-> 1,
     g2b_full |-> 0, g2b_free |-> g2b, g2s_full |-> 0, g2s_free |-> g2s, g2_access |-> 1]

FactorySems == DOMAIN paralleleModellierung(0, 0, 0, 0, 0)

FactoryStocks == {"betten", "schraenke", "rbetten", "rschraenke", "g1betten", "g2betten", "g2schraenke"}
=============================================================================
