------------------------ MODULE WaitForAllocationMC ------------------------
EXTENDS WaitForAllocation, TLC

(* Calls and replicas are interchangeable, but the run checks liveness, for *)
(* which a reduction by symmetry is not sound.                               *)
=============================================================================
