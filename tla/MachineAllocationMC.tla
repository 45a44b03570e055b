------------------------ MODULE MachineAllocationMC ------------------------
(* Instances of MachineAllocation for TLC. *)
EXTENDS MachineAllocation, TLC

Interchangeable ==
    Permutations(Machines) \cup Permutations(IPs \ GivenIPs) \cup Permutations(ASNs)
        \cup Permutations(Requests \ ByUUID) \cup Permutations(Frees)
=============================================================================
