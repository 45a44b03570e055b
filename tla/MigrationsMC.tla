---------------------------- MODULE MigrationsMC ----------------------------
(* Instances of Migrations that TLC checks. *)
EXTENDS Migrations, TLC

CONSTANTS t1, t2

RegisteredMC == <<10, 2, 7, 8>>
KindOfMC == [v \in {2, 7, 8, 10} |->
    CASE v = 7 -> "move" [] v = 8 -> "copy" [] OTHER -> "convert"]
RewritingMC == {10}
VersionOfMC == (t1 :> 2) @@ (t2 :> 10)
=============================================================================
