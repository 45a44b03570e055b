------------------------ MODULE ProvisioningEventsMC ------------------------
(* Instances of ProvisioningEvents for TLC: all of its constants have values. *)
EXTENDS ProvisioningEvents, TLC
=============================================================================
