------------------------- MODULE MachineElectionMC -------------------------
(* Instances of MachineElection for TLC. *)
EXTENDS MachineElection, TLC

CONSTANTS a1, a2, b1, b2, rackA, rackB

RackOfMC == (a1 :> rackA) @@ (a2 :> rackA) @@ (b1 :> rackB) @@ (b2 :> rackB)
\* One machine for each of two projects.
StartReservationsMC ==
    {r \in [Reservations -> [project: Tenants, amount: {1}]] : IsInjective(r)}
\* The machines of a rack, and the racks with their machines, are interchangeable.
SwapRacks == (a1 :> b1) @@ (b1 :> a1) @@ (a2 :> b2) @@ (b2 :> a2) @@ (rackA :> rackB) @@ (rackB :> rackA)
Housing == Permutations({a1, a2}) \cup Permutations({b1, b2}) \cup {SwapRacks}
Tenancy == Housing \cup Permutations(Tenants) \cup Permutations(Reservations) \cup Permutations(Requests)
=============================================================================
