------------------------------ MODULE PortNames ------------------------------
(***************************************************************************)
(* How the ports of a switch are called by its operating system, and how a  *)
(* name is translated when the switch is replaced by one with another       *)
(* system (metal/switch.go).  SONiC counts the lanes of all ports; Cumulus  *)
(* counts the ports, and the lanes of a port that is split.                 *)
(*                                                                         *)
(* A name is what its digits say: a lane of SONiC is a number, a name of    *)
(* Cumulus is <<port>> or <<port, lane>>.                                   *)
(***************************************************************************)
EXTENDS Naturals, Sequences

CONSTANT MaxPort   \* bound on the ports of the switches that are looked at

ASSUME PortNamesAssumption == MaxPort \in Nat

Lanes == 4

\* sonicPortNameToLine and sonicPortByLineNumber: the number in the name.

\* cumulusPortNameToLine
CumulusLine(name) ==
    IF Len(name) = 1 THEN (name[1] - 1) * Lanes ELSE (name[1] - 1) * Lanes + name[2]

\* Mutant of IsSplit: a first lane is always the whole port.
NeverSplit(line, lines) == line % Lanes > 0
\* A line is a lane of a split port when it is not the first one, or when another
\* line of that port is known.
IsSplit(line, lines) ==
    line % Lanes > 0 \/ \E l \in lines \ {line} : l \div Lanes = line \div Lanes

\* cumulusPortByLineNumber
CumulusName(line, lines) ==
    IF IsSplit(line, lines) THEN <<line \div Lanes + 1, line % Lanes>> ELSE <<line \div Lanes + 1>>

----------------------------------------------------------------------------
PortNumbers == 1 .. MaxPort
Names == {<<p>> : p \in PortNumbers} \cup {<<p, l>> : p \in PortNumbers, l \in 0 .. Lanes - 1}
LaneNumbers == 0 .. Lanes * MaxPort - 1

\* What a switch with Cumulus has: a port is not split, or it has at least two
\* of its four lanes.
WellFormed(names) ==
    /\ \A n, m \in names : n[1] = m[1] /\ Len(n) = 1 => n = m
    /\ \A n \in names : Len(n) = 2 => \E m \in names : m # n /\ m[1] = n[1]

VARIABLES
    first,   \* the system of the switch at first
    system,  \* that of the one that took its place
    name     \* how each port is called now, by its name at first

namesVars == <<first, system, name>>

Same(names) == [n \in names |-> n]

NamesInit ==
    /\ first \in {"cumulus", "sonic"} /\ system = first
    /\ \/ first = "cumulus" /\ \E names \in SUBSET Names : WellFormed(names) /\ name = Same(names)
       \/ first = "sonic" /\ \E lines \in SUBSET LaneNumbers : name = Same(lines)

\* adoptFromTwin: the ports of the twin under the names of the other system.
Replace ==
    /\ \/ system = "cumulus" /\ system' = "sonic"
          /\ name' = [n \in DOMAIN name |-> CumulusLine(name[n])]
       \/ system = "sonic" /\ system' = "cumulus"
          /\ LET lines == {name[n] : n \in DOMAIN name}
             IN  name' = [n \in DOMAIN name |-> CumulusName(name[n], lines)]
    /\ UNCHANGED first

NamesSpec == NamesInit /\ [][Replace]_namesVars

\* Two ports never get the same name, and when a switch was replaced by one with
\* another system, and that one by one with the first system again, every port has
\* the name it had: no connection of a machine changes its port (MapPortNames,
\* TranslateNicMap).
NamesTranslated ==
    /\ \A n, m \in DOMAIN name : name[n] = name[m] => n = m
    /\ system = first => \A n \in DOMAIN name : name[n] = n
=============================================================================
