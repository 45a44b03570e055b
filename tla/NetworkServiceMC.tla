-------------------------- MODULE NetworkServiceMC --------------------------
(* Instances of NetworkService for TLC: a prefix that is divided for each of *)
(* two address families, and one that is not.                               *)
EXTENDS NetworkService, TLC

PrefixesMC == {"super4", "super6", "child4", "child6", "external"}
ParentOfMC == [p \in PrefixesMC |-> CASE p = "child4" -> "super4"
                                      [] p = "child6" -> "super6"
                                      [] OTHER -> None]
FamilyOfMC == [p \in PrefixesMC |-> IF p \in {"super6", "child6"} THEN 6 ELSE 4]

IPsMC == {"ip4", "ipExternal"}
PrefixOfMC == [i \in IPsMC |-> IF i = "ip4" THEN "child4" ELSE "external"]

Interchangeable ==
    Permutations(NetworkIDs) \cup Permutations(VRFs) \cup Permutations(Callers)
=============================================================================
