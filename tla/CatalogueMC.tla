----------------------------- MODULE CatalogueMC -----------------------------
(* Instances of Catalogue for TLC. *)
EXTENDS Catalogue, TLC

CONSTANTS s1, s2, l1, l2

Bounded(type, identifier, models, min, max) ==
    [type |-> type, identifier |-> identifier, models |-> models, min |-> min, max |-> max]
Memory(n) == Bounded("memory", "", {"any"}, n, n)
Disks(identifier, min, max) == Bounded("storage", identifier,
    CASE identifier = "sd*" -> {"sd"} [] identifier = "nvme*" -> {"nvme"} [] OTHER -> {"sd", "nvme"}, min, max)
SizeSpecsMC == {
    {Memory(1), Disks("sd*", 1, 1)}, {Memory(1), Disks("sd*", 1, 2)}, {Memory(1), Disks("*", 1, 1)},
    {Memory(1), Disks("", 0, 1)}, {Memory(1), Disks("sd*", 1, 1), Disks("nvme*", 1, 2)}}
HardwareMC == [memory: [{"any"} -> {1}], storage: [{"sd", "nvme"} -> 0..2]]
Layout(ids, op, v) == [sizes |-> ids, images |-> [os \in Systems |-> [op |-> op, version |-> v]]]
LayoutSpecsMC == {
    Layout({s1}, "*", 0), Layout({s1, s2}, ">=", 2), Layout({s1}, "<=", 2), Layout({s1}, ">", 1), Layout({s1}, "!=", 2)}
StartSizesMC == (s1 :> {Memory(1), Disks("sd*", 1, 1)}) @@ (s2 :> None)
StartLayoutsMC == (l1 :> Layout({s1, s2}, ">=", 2)) @@ (l2 :> None)
StartImagesMC == [i \in Images |-> IF i[2] < 3 THEN "valid" ELSE "none"]
=============================================================================
