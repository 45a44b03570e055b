---------------------------- MODULE HardwareSizes ----------------------------
(***************************************************************************)
(* Sizes: which hardware has which size, and which sizes overlap.          *)
(* A constraint [type, identifier, models, min, max] bounds how much of a  *)
(* type the hardware has of the models that the identifier stands for: "",  *)
(* all of them, or a glob. Hardware has an amount per type and model;      *)
(* memory has one model, "any".                                            *)
(***************************************************************************)
EXTENDS FiniteSetsExt, Integers

Amount(c, hw) == MapThenSumSet(LAMBDA m : hw[c.type][m], c.models \cap DOMAIN hw[c.type])
Fits(c, hw) == Amount(c, hw) \in c.min..c.max

\* All that the hardware has of a type is in a constraint of the size that fits; memory has no
\* devices that could be missing.
Exhaustive(size, hw, type) ==
    \A m \in DOMAIN hw[type] : hw[type][m] > 0 \/ type = "memory" =>
        \E c \in size : c.type = type /\ m \in c.models /\ Fits(c, hw)

HasSize(hw, size) ==
    /\ size # {}
    /\ \A c \in size : Fits(c, hw)
    /\ \A type \in DOMAIN hw : Exhaustive(size, hw, type)
FromHardware(hw, ids, table) == {s \in ids : HasSize(hw, table[s])}

ValidSize(size) ==
    /\ \A c \in size : /\ c.min <= c.max
                       /\ c.type = "memory" => c.identifier = ""
                       /\ c.type = "gpu" => c.identifier # ""
    /\ \A c, d \in size : c.type = d.type /\ c.type \in {"memory", "cores"} => c = d

\* Identifiers are compared as they are written, not by the models they stand for.
MoreThanTouch(c, d) ==   \* mutant of ConstraintsOverlap: bounds are inclusive
    c.type = d.type /\ c.identifier = d.identifier /\ c.min < d.max /\ d.min < c.max
ConstraintsOverlap(c, d) ==
    c.type = d.type /\ c.identifier = d.identifier /\ c.min <= d.max /\ d.min <= c.max
TypesOf(size) == {c.type : c \in size}
SizesOverlap(s, t) ==
    /\ s # {} /\ t # {} /\ TypesOf(s) = TypesOf(t)
    /\ \A c \in s, d \in t : c.type = d.type => ConstraintsOverlap(c, d)
=============================================================================
