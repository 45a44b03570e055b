----------------------------- MODULE PortStates -----------------------------
(***************************************************************************)
(* The ports of a switch that an operator switches on and off              *)
(* (toggleSwitchPort, metal/network.go): the API keeps what is wanted of a  *)
(* port until the switch reports it.  The metal-core of the switch asks for *)
(* the switch again and again, makes its ports what the answer says, and    *)
(* reports them (notifySwitch).                                             *)
(*                                                                         *)
(* The row of the switch is written only if it carries the stamp that was   *)
(* read: current says so of the copies.                                     *)
(***************************************************************************)
EXTENDS Naturals, FiniteSets

CONSTANTS
    SwitchPorts,      \* the ports of the switch
    Occupied,         \* those with a machine connected
    Operators,        \* calls of toggleSwitchPort at a time
    MaxToggles,       \* bound on these calls
    PortsAssumed,     \* what a run takes for granted, a subset of PortsAssumptions
    Unset             \* no state is wanted

(***************************************************************************)
(*   "patient"  an operator does not toggle a port whose last change the    *)
(*              switch has not reported yet                                 *)
(***************************************************************************)
PortsAssumptions == {"patient"}

ASSUME PortsAssumption ==
    /\ Occupied \subseteq SwitchPorts /\ MaxToggles \in Nat
    /\ PortsAssumed \subseteq PortsAssumptions

VARIABLES
    nic,       \* the nics of the switch's row: what is wanted, and was reported last
    port,      \* the ports themselves
    asked,     \* history: what was asked of each port last, successfully
    core,      \* the cycle of metal-core, and the handler of its report
    operator,  \* the calls of toggleSwitchPort
    toggles

portsVars == <<nic, port, asked, core, operator, toggles>>

Concrete == {"UP", "DOWN"}
\* A nic without a state has never been reported, and nothing is wanted of it.
NicState == [desired: Concrete \cup {Unset}, actual: Concrete \cup {"UNKNOWN"}]
Fresh == [desired |-> Unset, actual |-> "UNKNOWN"]

NoToggle == [at |-> "idle", of |-> CHOOSE p \in SwitchPorts : TRUE, to |-> "UP",
             nics |-> [p \in SwitchPorts |-> Fresh], current |-> FALSE]
Asleep == [at |-> "fetch", told |-> [p \in SwitchPorts |-> "UNKNOWN"],
           nics |-> [p \in SwitchPorts |-> Fresh], current |-> FALSE]

PortsTypeOK ==
    /\ nic \in [SwitchPorts -> NicState]
    /\ port \in [SwitchPorts -> Concrete] /\ asked \in [SwitchPorts -> Concrete \cup {Unset}]
    /\ core.at \in {"fetch", "apply", "report", "store"}
    /\ core.told \in [SwitchPorts -> Concrete \cup {"UNKNOWN"}]
    /\ \A o \in Operators : operator[o].at \in {"idle", "read", "write"}
    /\ toggles \in 0 .. MaxToggles

PortsInit ==
    /\ nic = [p \in SwitchPorts |-> Fresh]
    /\ port = [p \in SwitchPorts |-> "UP"]
    /\ asked = [p \in SwitchPorts |-> Unset]
    /\ core = Asleep /\ operator = [o \in Operators |-> NoToggle] /\ toggles = 0

----------------------------------------------------------------------------
\* SetState and WantState

\* Mutant of Reached: what is wanted is forgotten with any report.
AnyReport(n, s) == TRUE
Reached(n, s) == n.desired = s

SetState(n, s) == [desired |-> IF Reached(n, s) THEN Unset ELSE n.desired, actual |-> s]
WantState(n, s) == [n EXCEPT !.desired = IF n.actual = s THEN Unset ELSE s]

Unchanged(copy) == copy.current

Outdated(copy) == [copy EXCEPT !.current = FALSE]

----------------------------------------------------------------------------
\* toggleSwitchPort

Settled(p) == asked[p] = Unset \/ (nic[p].actual = asked[p] /\ nic[p].desired = Unset)
NotAsked(p) == \A o \in Operators : operator[o].at = "idle" \/ operator[o].of # p

Toggle(o, p, s) ==
    /\ operator[o].at = "idle" /\ toggles < MaxToggles
    /\ "patient" \in PortsAssumed => Settled(p) /\ NotAsked(p)
    /\ toggles' = toggles + 1
    /\ operator' = [operator EXCEPT ![o] = [NoToggle EXCEPT !.at = "read", !.of = p, !.to = s]]
    /\ UNCHANGED <<nic, port, asked, core>>

\* An unknown port, and one without a machine, is an error.
ReadSwitch(o) ==
    /\ operator[o].at = "read"
    /\ operator' = [operator EXCEPT ![o] =
                       IF operator[o].of \in Occupied
                       THEN [@ EXCEPT !.at = "write", !.nics = nic, !.current = TRUE]
                       ELSE NoToggle]
    /\ UNCHANGED <<nic, port, asked, core, toggles>>

\* Nothing is written when nothing changes.
WriteToggle(o) ==
    /\ operator[o].at = "write"
    /\ LET p == operator[o].of
           wanted == WantState(operator[o].nics[p], operator[o].to)
           same == wanted = operator[o].nics[p]
           written == ~same /\ Unchanged(operator[o])
       IN  /\ asked' = IF same \/ written THEN [asked EXCEPT ![p] = operator[o].to] ELSE asked
           /\ nic' = IF written THEN [operator[o].nics EXCEPT ![p] = wanted] ELSE nic
           /\ core' = IF written THEN Outdated(core) ELSE core
           /\ operator' = [q \in Operators |->
                              CASE q = o -> NoToggle
                                [] q # o /\ written -> Outdated(operator[q])
                                [] OTHER -> operator[q]]
    /\ UNCHANGED <<port, toggles>>

----------------------------------------------------------------------------
\* metal-core (not in this repository): it asks for the switch and makes its
\* ports what it is told, then it reports what they are.

\* makeSwitchNics: what is wanted of a port, or else what it was last.
Told(n) == IF n.desired # Unset THEN n.desired ELSE n.actual

Fetch ==
    /\ core.at = "fetch"
    /\ core' = [core EXCEPT !.at = "apply", !.told = [p \in SwitchPorts |-> Told(nic[p])]]
    /\ UNCHANGED <<nic, port, asked, operator, toggles>>

Apply ==
    /\ core.at = "apply"
    /\ port' = [p \in SwitchPorts |-> IF core.told[p] \in Concrete THEN core.told[p] ELSE port[p]]
    /\ core' = [core EXCEPT !.at = "report"]
    /\ UNCHANGED <<nic, asked, operator, toggles>>

\* notifySwitch reads the row of the switch ...
ReadReport ==
    /\ core.at = "report"
    /\ core' = [core EXCEPT !.at = "store", !.nics = nic, !.current = TRUE]
    /\ UNCHANGED <<nic, port, asked, operator, toggles>>

\* ... and writes it if a port changed; a refused write waits for the next report.
StoreReport ==
    /\ core.at = "store"
    /\ LET reported == [p \in SwitchPorts |-> SetState(core.nics[p], port[p])]
           written == reported # core.nics /\ Unchanged(core)
       IN  /\ nic' = IF written THEN reported ELSE nic
           /\ operator' = IF written THEN [o \in Operators |-> Outdated(operator[o])] ELSE operator
    /\ core' = Asleep
    /\ UNCHANGED <<port, asked, toggles>>

----------------------------------------------------------------------------
PortsStep == Fetch \/ Apply \/ ReadReport \/ StoreReport
PortsNext ==
    \/ PortsStep
    \/ \E o \in Operators :
          ReadSwitch(o) \/ WriteToggle(o) \/ \E p \in SwitchPorts, s \in Concrete : Toggle(o, p, s)

PortsSpec == PortsInit /\ [][PortsNext]_portsVars

\* metal-core works in cycles, and calls end.
PortsFairness ==
    /\ WF_portsVars(PortsStep)
    /\ \A o \in Operators : WF_portsVars(ReadSwitch(o) \/ WriteToggle(o))
PortsFairSpec == PortsSpec /\ PortsFairness

----------------------------------------------------------------------------
\* What is wanted of a port is kept until the switch reports it or something else
\* is wanted: neither a report that crosses the call nor one about another port
\* removes it (notifySwitch, toggleSwitchPort).
DesiredKept ==
    [][\A p \in SwitchPorts :
          nic[p].desired # Unset /\ nic'[p].desired # nic[p].desired =>
             nic'[p].actual = nic[p].desired \/ \E o \in Operators : WriteToggle(o) /\ operator[o].of = p
      ]_portsVars

\* A port is in the end what it was asked to be last (WantState, SetState).
TogglesTakeEffect == <>[](\A p \in SwitchPorts : asked[p] # Unset => port[p] = asked[p])
=============================================================================
