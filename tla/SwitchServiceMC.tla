-------------------------- MODULE SwitchServiceMC --------------------------
(* Instances of SwitchService for TLC. *)
EXTENDS SwitchService, TLC

CONSTANTS s1, s2, s3, p1, p2

\* The twins s1 and s2, and s3 as the successor of s2; a machine with one cable only.
CablingsMC == {{s1, s2} \X {p1}, {s1, s2} \X {p2}, {s1, s3} \X {p1}, {<<s1, p2>>}}
NicSetsMC == {{p1, p2}, {p1}}

Interchangeable == Permutations(Calls) \cup Permutations(Machines)
=============================================================================
