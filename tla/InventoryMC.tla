----------------------------- MODULE InventoryMC -----------------------------
(***************************************************************************)
(* What a project may have, checked in one run: the election of machines    *)
(* under reservations and quotas, and the catalogue of sizes, layouts and   *)
(* images they are chosen by.  The two have no state in common, so a        *)
(* behaviour is about one of them, and the other stays as it is.            *)
(***************************************************************************)
EXTENDS MachineElectionMC, CatalogueMC

VARIABLE subject

inventoryVars == <<electionVars, catalogueVars, subject>>

Init == subject \in {"election", "catalogue"} /\ ElectionInit /\ CatalogueInit

Next ==
    /\ \/ subject = "election" /\ ElectionNext /\ UNCHANGED catalogueVars
       \/ subject = "catalogue" /\ CatalogueNext /\ UNCHANGED electionVars
    /\ UNCHANGED subject

Spec == Init /\ [][Next]_inventoryVars

\* The tables are well formed, and what their rows refer to exists.
InventoryValid == ElectionTypeOK /\ CatalogueTypeOK /\ ReferencesValid
=============================================================================
