--------------------------- MODULE SwitchService ---------------------------
(***************************************************************************)
(* The switches of a rack, the machines connected to them and the VRFs of  *)
(* their ports. A machine that boots registers, which writes a connection  *)
(* to each of its two switches; when its installation is reported, the     *)
(* connected ports are put into the VRF of the allocation, and taken out   *)
(* when the machine is freed or reinstalled. Switches register, are marked *)
(* for replacement, replaced, migrated and deleted meanwhile.              *)
(*                                                                         *)
(* Every handler reads rows and writes them back one at a time, a switch   *)
(* or machine row only if it carries the stamp that was read: seen[x] are  *)
(* the calls whose copy of x does. Switches without OS conversions: a port *)
(* has one name everywhere. A machine's neighbors, which nobody reads      *)
(* again, are left out; writing them changes the stamp.                    *)
(***************************************************************************)
EXTENDS FiniteSets, Naturals

CONSTANTS
    Switches,      \* the switches of one rack and partition
    Machines,
    Ports,         \* names of switch ports
    Cablings,      \* ways to plug in a machine: sets of pairs of switch and port
    NicSets,       \* sets of ports a switch may register with
    Calls,         \* calls of the API that may be under way at the same time
    MaxCalls,      \* bound on calls
    Attempts,      \* of a write that is retried after a conflict (10)
    MaxFaults,     \* bound on calls that stop half way and on changes from outside
    Assumed,       \* what is taken for granted, see below
    None

(***************************************************************************)
(* "oneCall"      there is at most one call about a machine at a time      *)
(* "maintenance"  switches are replaced, migrated and deleted while        *)
(*                nothing else is under way, and one switch of the rack at *)
(*                a time is marked for replacement                         *)
(* "plugged"      a machine is allocated only when it has registered with  *)
(*                all ports it is plugged into, and registers with ports   *)
(*                of another machine only when that was deleted            *)
(* "retired"      and with no port whose VRF is left from machines that    *)
(*                were migrated to another switch                          *)
(***************************************************************************)
Assumptions == {"oneCall", "maintenance", "plugged", "retired"}

ASSUME ConstantsAssumption ==
    /\ Assumed \subseteq Assumptions
    /\ MaxCalls \in Nat /\ MaxFaults \in Nat /\ Attempts \in Nat \ {0}
    /\ Cablings \subseteq SUBSET (Switches \X Ports)
    /\ NicSets \subseteq SUBSET Ports
    /\ Machines \cap Switches = {}
    /\ None \notin Switches \cup Machines \cup Ports

VARIABLES
    switch,      \* rows of the switches
    status,      \* switches that have a status row
    machine,     \* rows of the machines
    container,   \* machines that have a provisioning event container
    cable,       \* how the machines are plugged in
    seen,        \* calls whose copy of a row carries the stamp it has
    call,
    unsure,      \* machines whose VRFs or connections a call left half done
    aborted,     \* machines whose reinstallation was aborted
    calls, faults

vars == <<switch, status, machine, container, cable, seen, call, unsure, aborted, calls, faults>>

VRFCalls == {"report", "reinstall", "free"}
MachineCalls == VRFCalls \cup {"register", "abort", "delete"}
Maintenance == {"replace", "migrate", "deleteSwitch"}
SwitchCalls == Maintenance \cup {"registerSwitch", "update", "notify"}
\* "reinstall" and "renew" are to be reinstalled, the former was installed before.
Allocations == {"none", "new", "installed", "reinstall", "renew"}

NoSwitch == [mode |-> "absent", nics |-> {}, vrf |-> [p \in Ports |-> "none"],
             conn |-> [m \in Machines |-> {}]]
NewSwitch(nics) == [NoSwitch EXCEPT !.mode = "operational", !.nics = nics]
NoMachine == [exists |-> FALSE, rack |-> FALSE, alloc |-> "none"]
NoPlan == [vrf |-> NoSwitch.vrf, conn |-> NoSwitch.conn]
Idle == [op |-> "none", pc |-> "idle", m |-> None, s |-> None, new |-> None, nics |-> {},
         plug |-> {}, mode |-> "absent", rack |-> FALSE, todo |-> {}, tries |-> 0,
         plan |-> NoPlan, changed |-> FALSE]

TypeOK ==
    /\ switch \in [Switches -> [mode: {"absent", "operational", "replace"}, nics: SUBSET Ports,
                                vrf: [Ports -> {"none", "tenant"}],
                                conn: [Machines -> SUBSET Ports]]]
    /\ machine \in [Machines -> [exists: BOOLEAN, rack: BOOLEAN, alloc: Allocations]]
    /\ status \in SUBSET Switches /\ container \in SUBSET Machines
    /\ cable \in [Machines -> Cablings \cup {{}}]
    /\ seen \in [Switches \cup Machines -> SUBSET Calls]
    /\ unsure \in [vrf: SUBSET Machines, conn: SUBSET Machines]
    /\ aborted \in SUBSET Machines
    /\ calls \in 0..MaxCalls /\ faults \in 0..MaxFaults

-----------------------------------------------------------------------------
(* Switch rows.                                                            *)

Exists(s) == switch[s].mode # "absent"
Connected(m) == {s \in Switches : switch[s].conn[m] # {}}

\* getPhysicalMachineConnections, for a machine that reports to be plugged into these ports.
PortsOf(plug, s) == {p \in Ports : <<s, p>> \in plug}
NicsOf(plug, s) == {p \in switch[s].nics : <<s, p>> \in plug}

\* SetVrfOfMachine: the ports are those of the connections, all others keep their VRF.
SetVRFOf(row, m, vrf) ==
    [row EXCEPT !.vrf = [p \in Ports |-> IF p \in row.conn[m] THEN vrf ELSE row.vrf[p]]]

\* updateSwitchNics: connected ports stay, ports that stay keep their VRF.
RefusesNothing(row, nics) == FALSE  \* mutant of RefusedNics
RefusedNics(row, nics) == \E m \in Machines : row.conn[m] \ nics # {}
NoConnections(row) == NoPlan.conn  \* mutant of KeptConnections: those of the request
KeptConnections(row) == row.conn
UpdatedNics(row, nics) ==
    [row EXCEPT !.nics = nics, !.conn = KeptConnections(row),
                !.vrf = [p \in Ports |-> IF p \in nics THEN row.vrf[p] ELSE "none"]]

\* adoptConfiguration: fails when the new switch lacks a port of the existing one.
CannotAdopt(existing, nics) ==
    \/ existing.nics \ nics # {}
    \/ \E m \in Machines : existing.conn[m] \ nics # {}
Plan(existing) == [vrf |-> existing.vrf, conn |-> existing.conn]
\* adoptNics: ports the existing switch does not have keep the VRF they have.
Merged(plan, nics, row) ==
    [plan EXCEPT !.vrf = [p \in Ports |-> IF p \in nics THEN plan.vrf[p] ELSE row.vrf[p]]]
Adopted(nics, plan) == [mode |-> "operational", nics |-> nics, vrf |-> plan.vrf, conn |-> plan.conn]

(* ConnectMachineWithSwitches. A machine that is plugged out of a switch   *)
(* which still lists it, or into other than two switches, is refused; and  *)
(* so is one whose ports are not found by name among the connected ports   *)
(* of the twin, or any machine sharing a port there.                       *)
WithConnection(s, m, plug) == [switch[s].conn EXCEPT ![m] = NicsOf(plug, s)]
SharedPort(conn) == \E n, k \in Machines : n # k /\ conn[n] \cap conn[k] # {}
Attached(plug) == {s \in Switches : Exists(s) /\ NicsOf(plug, s) # {}}
Mirrored(a, b, m, plug) ==
    /\ Cardinality(NicsOf(plug, a)) = Cardinality(NicsOf(plug, b))
    /\ LET conn == WithConnection(b, m, plug) IN
          ~SharedPort(conn) /\ NicsOf(plug, a) \subseteq UNION {conn[n] : n \in Machines}
CanConnect(m, plug) ==
    \E a, b \in Switches :
        /\ a # b /\ Attached(plug) = {a, b}
        /\ Connected(m) \subseteq {a, b}
        /\ Mirrored(a, b, m, plug)

-----------------------------------------------------------------------------
(* Calls.                                                                  *)

\* The row of a switch the registered machines are plugged into, all allocated or none.
CabledRow(s, registered, alloc) ==
    [mode |-> "operational", nics |-> Ports,
     conn |-> [m \in Machines |-> {p \in Ports : m \in registered /\ <<s, p>> \in cable[m]}],
     vrf |-> [p \in Ports |-> IF alloc = "installed" /\ \E m \in registered : <<s, p>> \in cable[m]
                              THEN "tenant" ELSE "none"]]
InitialRow(s, registered, alloc, spare) ==
    IF \E m \in Machines, p \in Ports : <<s, p>> \in cable[m]
    THEN CabledRow(s, registered, alloc) ELSE spare

\* Machines are installed or not, and the spare switches registered or not.
InitialState(registered, alloc, spare) ==
    /\ cable \in [Machines -> Cablings]
    /\ \A m, n \in Machines : m # n => cable[m] \cap cable[n] = {}
    /\ \A m \in registered : \E a, b \in Switches :
          a # b /\ \E P \in SUBSET Ports : cable[m] = {a, b} \X P
    /\ switch = [s \in Switches |-> InitialRow(s, registered, alloc, spare)]
    /\ machine = [m \in Machines |-> IF m \in registered
          THEN [exists |-> TRUE, rack |-> TRUE, alloc |-> alloc] ELSE NoMachine]
    /\ container = registered /\ status = {}
    /\ seen = [x \in Switches \cup Machines |-> {}]
    /\ call = [c \in Calls |-> Idle]
    /\ unsure = [vrf |-> {}, conn |-> {}] /\ aborted = {}
    /\ calls = 0 /\ faults = 0

Init ==
    \E registered \in SUBSET Machines, alloc \in {"none", "new", "installed"},
      spare \in {NoSwitch, NewSwitch(Ports)} : InitialState(registered, alloc, spare)

AnyCopy(c, x) == IF x \in Switches THEN Exists(x) ELSE machine[x].exists  \* mutant of Fresh
Fresh(c, x) == c \in seen[x]
Read(c, X) == seen' = [x \in DOMAIN seen |-> IF x \in X THEN seen[x] \cup {c} ELSE seen[x]]
Wrote(c, x) == seen' = [seen EXCEPT ![x] = {c}]   \* the writer goes on with the row it wrote
Step(c, next) == call' = [call EXCEPT ![c] = next]
To(c, pc) == Step(c, [call[c] EXCEPT !.pc = pc])

\* The call ends, having written x last, or nothing (None).
End(c, x) ==
    /\ Step(c, Idle)
    /\ seen' = [y \in DOMAIN seen |-> IF y = x THEN {} ELSE seen[y] \ {c}]

\* The machines whose VRFs and connections a call changes.
Concerned(c) ==
    IF call[c].m # None THEN {call[c].m}
    ELSE {m \in Machines : call[c].s \in Connected(m) \/ call[c].plan.conn[m] # {}}
HalfDone(c) == [vrf  |-> IF call[c].op \in VRFCalls \cup Maintenance THEN Concerned(c) ELSE {},
                conn |-> IF call[c].op \in VRFCalls THEN {} ELSE Concerned(c)]
Fail(c) ==
    /\ End(c, None)
    /\ unsure' = IF call[c].changed
                 THEN [vrf |-> unsure.vrf \cup HalfDone(c).vrf, conn |-> unsure.conn \cup HalfDone(c).conn]
                 ELSE unsure

Retry(c) ==
    IF call[c].tries + 1 < Attempts
    THEN /\ Step(c, [call[c] EXCEPT !.pc = "search", !.tries = @ + 1, !.todo = {}])
         /\ UNCHANGED <<seen, unsure>>
    ELSE Fail(c)

\* A replica stops, or the datastore or the bus fails.
CallFails(c) ==
    /\ call[c].pc \notin {"idle", "find"}
    /\ faults < MaxFaults /\ faults' = faults + 1
    /\ Fail(c)
    /\ UNCHANGED <<switch, status, machine, container, cable, aborted, calls>>

UnderWay(c) == call[c].op # "none"

\* A call begins with the read of its row; one that is refused then does nothing.
Start(c, next) ==
    /\ ~UnderWay(c)
    /\ calls < MaxCalls /\ calls' = calls + 1
    /\ "maintenance" \in Assumed =>
          \A d \in Calls : UnderWay(d) => {next.op, call[d].op} \cap Maintenance = {}
    /\ Step(c, next)
    /\ UNCHANGED <<switch, machine, container, cable, unsure, aborted, faults>>

-----------------------------------------------------------------------------
(* Calls about machines.                                                   *)

Accepts(op, m) ==
    CASE op = "register" -> TRUE
      [] op = "free" -> machine[m].exists
      [] op = "delete" -> machine[m].exists /\ machine[m].alloc = "none"
      [] OTHER -> machine[m].alloc # "none"
FirstStep(op, m) ==
    CASE op = "register" /\ ~machine[m].exists -> "create"
      [] op \in {"free", "delete"} -> "search"
      [] OTHER -> "write"

\* migrate takes the connections from the old switch and leaves it the VRFs of its ports.
LeftOver(s) == {p \in Ports : switch[s].vrf[p] # "none" /\ \A n \in Machines : p \notin switch[s].conn[n]}
Unoccupied(m) ==
    \A s \in Switches :
        /\ "plugged" \in Assumed =>
              \A n \in Machines \ {m} : PortsOf(cable[m], s) \cap switch[s].conn[n] = {}
        /\ "retired" \in Assumed => PortsOf(cable[m], s) \cap LeftOver(s) = {}

FindMachine(c, op, m) ==
    /\ "oneCall" \in Assumed => \A d \in Calls : call[d].m # m
    /\ op = "register" => Unoccupied(m)
    /\ Accepts(op, m)
    /\ Start(c, [Idle EXCEPT !.op = op, !.m = m, !.plug = IF op = "register" THEN cable[m] ELSE {},
                 !.rack = machine[m].rack, !.pc = FirstStep(op, m)])
    /\ Read(c, {m})
    /\ UNCHANGED status

CreateMachine(c) ==
    /\ call[c].pc = "create" /\ call[c].op = "register"
    /\ LET m == call[c].m IN
       IF machine[m].exists THEN End(c, None) /\ UNCHANGED machine
       ELSE /\ machine' = [machine EXCEPT ![m] = [NoMachine EXCEPT !.exists = TRUE]]
            /\ Wrote(c, m) /\ To(c, "container")
    /\ UNCHANGED <<switch, status, container, cable, unsure, aborted, calls, faults>>

\* Report, AbortReinstall and reinstallMachine change the allocation, Register the rest.
NewAlloc(op, alloc) ==
    CASE op = "report" -> "installed"
      [] op = "reinstall" -> IF alloc \in {"installed", "reinstall"} THEN "reinstall" ELSE "renew"
      [] op = "abort" -> IF alloc \in {"installed", "reinstall"} THEN "installed" ELSE "new"
      [] OTHER -> alloc
UpdateMachine(c) ==
    /\ call[c].pc = "write" /\ call[c].op \in MachineCalls
    /\ LET m == call[c].m
           op == call[c].op IN
       IF ~Fresh(c, m) THEN End(c, None) /\ UNCHANGED <<machine, aborted>>
       ELSE /\ machine' = [machine EXCEPT ![m].alloc = NewAlloc(op, @)]
            /\ aborted' = IF op = "abort" /\ machine[m].alloc = "reinstall" THEN aborted \cup {m}
                          ELSE IF op = "report" THEN aborted \ {m} ELSE aborted
            /\ CASE op = "abort" -> End(c, m)
                 [] op = "register" -> Wrote(c, m) /\ To(c, "container")
                 [] OTHER -> /\ Wrote(c, m)
                             /\ Step(c, [call[c] EXCEPT !.pc = "search", !.changed = TRUE])
    /\ UNCHANGED <<switch, status, container, cable, unsure, calls, faults>>

CreateContainer(c) ==
    /\ call[c].pc = "container"
    /\ container' = container \cup {call[c].m}
    /\ To(c, "search")
    /\ UNCHANGED <<switch, status, machine, cable, seen, unsure, aborted, calls, faults>>

\* The switches whose rows the call is going to write, one after the other.
Affected(c) ==
    LET m == call[c].m IN
    CASE call[c].op = "register" -> Attached(call[c].plug)
      [] call[c].op = "delete" -> Connected(m)
      [] OTHER -> IF call[c].rack THEN Connected(m) ELSE {}
SearchSwitches(c) ==
    /\ call[c].pc = "search"
    /\ IF call[c].op = "register" /\ ~CanConnect(call[c].m, call[c].plug)
       THEN Fail(c)
       ELSE /\ Step(c, [call[c] EXCEPT !.pc = "each", !.todo = Affected(c)])
            /\ Read(c, Affected(c))
            /\ UNCHANGED unsure
    /\ UNCHANGED <<switch, status, machine, container, cable, aborted, calls, faults>>

FirstOnly(c, s) == {}  \* mutant of Remaining: only the first switch is written
Remaining(c, s) == call[c].todo \ {s}
NewRow(c, s) ==
    LET m == call[c].m IN
    CASE call[c].op = "register" -> [switch[s] EXCEPT !.conn[m] = NicsOf(call[c].plug, s)]
      [] call[c].op = "delete" -> [switch[s] EXCEPT !.conn[m] = {}]
      [] OTHER -> SetVRFOf(switch[s], m, IF call[c].op = "report" THEN "tenant" ELSE "none")
UpdateConnected(c) ==
    /\ call[c].pc = "each"
    /\ \E s \in call[c].todo :
          IF Fresh(c, s)
          THEN /\ switch' = [switch EXCEPT ![s] = NewRow(c, s)]
               /\ Wrote(c, s)
               /\ Step(c, [call[c] EXCEPT !.todo = Remaining(c, s), !.changed = TRUE])
               /\ UNCHANGED unsure
          ELSE /\ IF call[c].op # "delete" /\ Exists(s) THEN Retry(c) ELSE Fail(c)
               /\ UNCHANGED switch
    /\ UNCHANGED <<status, machine, container, cable, aborted, calls, faults>>

(* The last step of a call about a machine: Register writes the rack it    *)
(* found, Free clears the allocation, Delete removes whatever row there is.*)
\* Settles what former calls left half done, as far as the connections tell where it is.
Succeeds(c) ==
    LET m == call[c].m IN
    unsure' = [vrf  |-> IF call[c].op \in VRFCalls /\ m \notin unsure.conn
                        THEN unsure.vrf \ {m} ELSE unsure.vrf,
               conn |-> IF \/ call[c].op = "delete"
                           \/ call[c].op = "register" /\ machine[m].alloc = "none"
                        THEN unsure.conn \ {m} ELSE unsure.conn]
LastRow(c) ==
    LET row == machine[call[c].m] IN
    CASE call[c].op = "register" -> [row EXCEPT !.rack = TRUE]
      [] call[c].op = "free" -> [row EXCEPT !.alloc = "none"]
      [] call[c].op = "delete" -> NoMachine
      [] OTHER -> row
Finish(c) ==
    /\ call[c].pc = "each" /\ call[c].todo = {}
    /\ LET m == call[c].m
           op == call[c].op IN
       IF op \in {"report", "reinstall", "delete"} \/ Fresh(c, m)
       THEN /\ machine' = [machine EXCEPT ![m] = LastRow(c)]
            /\ aborted' = IF op \in {"free", "reinstall"} THEN aborted \ {m} ELSE aborted
            /\ End(c, IF op \in {"report", "reinstall"} THEN None ELSE m)
            /\ Succeeds(c)
       ELSE /\ IF op = "register" /\ machine[m].exists THEN Retry(c) ELSE Fail(c)
            /\ UNCHANGED <<machine, aborted>>
    /\ UNCHANGED <<switch, status, container, cable, calls, faults>>

-----------------------------------------------------------------------------
(* Calls about switches.                                                   *)

FindNoSwitch(c, s, nics) ==
    /\ ~Exists(s)
    /\ Start(c, [Idle EXCEPT !.op = "registerSwitch", !.s = s, !.nics = nics, !.pc = "createSwitch"])
    /\ UNCHANGED <<seen, status>>
CreateSwitch(c) ==
    /\ call[c].pc = "createSwitch"
    /\ switch' = IF Exists(call[c].s) THEN switch
                 ELSE [switch EXCEPT ![call[c].s] = NewSwitch(call[c].nics)]
    /\ End(c, IF Exists(call[c].s) THEN None ELSE call[c].s)
    /\ UNCHANGED <<status, machine, container, cable, unsure, aborted, calls, faults>>

RegisterSwitch(c, s, nics) ==
    /\ switch[s].mode = "operational" /\ ~RefusedNics(switch[s], nics)
    /\ Start(c, [Idle EXCEPT !.op = "registerSwitch", !.s = s, !.nics = nics, !.pc = "write"])
    /\ Read(c, {s})
    /\ UNCHANGED status

\* updateSwitch sets the mode; toggleSwitchPort sets the wanted state of a connected port.
UpdateSwitch(c, s, mode) ==
    /\ Exists(s)
    /\ "maintenance" \in Assumed /\ mode = "replace" =>
          /\ \A t \in Switches \ {s} : switch[t].mode # "replace"
          /\ \A d \in Calls : call[d].mode = "replace" => call[d].s = s
    /\ Start(c, [Idle EXCEPT !.op = "update", !.s = s, !.mode = mode, !.pc = "write"])
    /\ Read(c, {s})
    /\ UNCHANGED status

\* A switch reports its state: the status row comes first, whether there is a switch or not.
NotifySwitch(c, s) ==
    /\ Start(c, [Idle EXCEPT !.op = "notify", !.s = s, !.pc = "findSwitch"])
    /\ status' = status \cup {s}
    /\ UNCHANGED seen
FindNotified(c) ==
    /\ call[c].pc = "findSwitch"
    /\ LET s == call[c].s IN
       IF ~Exists(s) THEN End(c, None)
       ELSE Read(c, {s}) /\ Step(c, [call[c] EXCEPT !.pc = "write", !.mode = switch[s].mode])
    /\ UNCHANGED <<switch, status, machine, container, cable, unsure, aborted, calls, faults>>

(* A conflict ends the call: where it is retried, it is with the same copy *)
(* of the row, in vain.                                                    *)
WriteSwitch(c) ==
    /\ call[c].pc = "write" /\ call[c].op \in SwitchCalls
    /\ LET s == call[c].s IN
       IF Fresh(c, s)
       THEN /\ switch' = [switch EXCEPT ![s] =
                  IF call[c].op = "registerSwitch" THEN UpdatedNics(@, call[c].nics)
                  ELSE [@ EXCEPT !.mode = call[c].mode]]
            /\ End(c, s)
       ELSE End(c, None) /\ UNCHANGED switch
    /\ UNCHANGED <<status, machine, container, cable, unsure, aborted, calls, faults>>

FindDeleted(c, s, force) ==
    /\ Exists(s)
    /\ force \/ \A m \in Machines : switch[s].conn[m] = {}
    /\ Start(c, [Idle EXCEPT !.op = "deleteSwitch", !.s = s, !.pc = "remove"])
    /\ UNCHANGED <<seen, status>>
DeleteSwitch(c) ==
    /\ call[c].pc = "remove"
    /\ LET s == call[c].s IN
       /\ switch' = [switch EXCEPT ![s] = NoSwitch]
       /\ unsure' = [unsure EXCEPT !.conn = @ \cup {m \in Machines : s \in Connected(m)}]
       /\ seen' = [seen EXCEPT ![s] = {}]
    /\ To(c, "removeStatus")
    /\ UNCHANGED <<status, machine, container, cable, aborted, calls, faults>>
DeleteStatus(c) ==
    /\ call[c].pc = "removeStatus"
    /\ status' = status \ {call[c].s}
    /\ End(c, None)
    /\ UNCHANGED <<switch, machine, container, cable, unsure, aborted, calls, faults>>

\* migrate reads the old switch and then the new one.
MigrateOld(c, s, new) ==
    /\ Exists(s) /\ s # new
    /\ Start(c, [Idle EXCEPT !.op = "migrate", !.s = s, !.new = new, !.nics = switch[s].nics,
                 !.plan = Plan(switch[s]), !.pc = "migrateNew"])
    /\ Read(c, {s})
    /\ UNCHANGED status
MigrateNew(c) ==
    /\ call[c].pc = "migrateNew"
    /\ LET new == call[c].new
           conn == call[c].plan.conn IN
       IF \/ ~Exists(new) \/ \E m \in Machines : switch[new].conn[m] # {}
          \/ CannotAdopt([nics |-> call[c].nics, conn |-> conn], switch[new].nics)
       THEN End(c, None)
       ELSE /\ Step(c, [call[c] EXCEPT !.pc = "adjust", !.nics = switch[new].nics,
                          !.plan = Merged(@, call[c].nics, switch[new]),
                          !.todo = {m \in Machines : conn[m] # {}}])
            /\ Read(c, {new})
    /\ UNCHANGED <<switch, status, machine, container, cable, unsure, aborted, calls, faults>>

\* replaceSwitch: the twin is the only other operational switch with connections.
Twins(s) == {t \in Switches \ {s} : switch[t].mode = "operational"
                                    /\ \E m \in Machines : switch[t].conn[m] # {}}
ReplaceSwitch(c, s, nics) ==
    /\ switch[s].mode = "replace"
    /\ Start(c, [Idle EXCEPT !.op = "replace", !.s = s, !.nics = nics, !.pc = "twin",
                 !.todo = {m \in Machines : s \in Connected(m)}])
    /\ Read(c, {s})
    /\ UNCHANGED status
FindTwin(c) ==
    /\ call[c].pc = "twin"
    /\ \/ /\ \E t \in Switches :
                /\ Twins(call[c].s) = {t}
                /\ ~CannotAdopt(switch[t], call[c].nics)
                /\ Step(c, [call[c] EXCEPT !.plan = Plan(switch[t]), !.pc = "adjust"])
          /\ UNCHANGED seen
       \/ /\ \A t \in Switches : Twins(call[c].s) # {t} \/ CannotAdopt(switch[t], call[c].nics)
          /\ End(c, None)
    /\ UNCHANGED <<switch, status, machine, container, cable, unsure, aborted, calls, faults>>

\* adjustMachineConnections: the machines' neighbors are rewritten one by one.
AdjustRead(c) ==
    /\ call[c].pc = "adjust"
    /\ \E m \in call[c].todo :
          IF machine[m].exists
          THEN /\ Read(c, {m}) /\ UNCHANGED unsure
               /\ Step(c, [call[c] EXCEPT !.pc = "adjustWrite", !.m = m])
          ELSE Fail(c)
    /\ UNCHANGED <<switch, status, machine, container, cable, aborted, calls, faults>>
AdjustWrite(c) ==
    /\ call[c].pc = "adjustWrite"
    /\ LET m == call[c].m IN
       IF Fresh(c, m)
       THEN /\ seen' = [seen EXCEPT ![m] = {}]
            /\ Step(c, [call[c] EXCEPT !.pc = "adjust", !.m = None, !.todo = @ \ {m}])
            /\ UNCHANGED unsure
       ELSE Fail(c)
    /\ UNCHANGED <<switch, status, machine, container, cable, aborted, calls, faults>>

RemoveConnections(c) ==
    /\ call[c].pc = "adjust" /\ call[c].todo = {} /\ call[c].op = "migrate"
    /\ LET s == call[c].s IN
       IF Fresh(c, s)
       THEN /\ switch' = [switch EXCEPT ![s].conn = NoPlan.conn]
            /\ Wrote(c, s) /\ UNCHANGED unsure
            /\ Step(c, [call[c] EXCEPT !.pc = "adopt", !.changed = TRUE])
       ELSE Fail(c) /\ UNCHANGED switch
    /\ UNCHANGED <<status, machine, container, cable, aborted, calls, faults>>
Adopt(c) ==
    /\ \/ call[c].pc = "adopt"
       \/ call[c].pc = "adjust" /\ call[c].todo = {} /\ call[c].op = "replace"
    /\ LET s == IF call[c].op = "migrate" THEN call[c].new ELSE call[c].s IN
       IF Fresh(c, s)
       THEN /\ switch' = [switch EXCEPT ![s] = Adopted(call[c].nics, call[c].plan)]
            /\ End(c, s) /\ UNCHANGED unsure
       ELSE Fail(c) /\ UNCHANGED switch
    /\ UNCHANGED <<status, machine, container, cable, aborted, calls, faults>>

-----------------------------------------------------------------------------
(* What happens outside.                                                   *)

\* allocateMachine.
Allocate(m) ==
    /\ machine[m].exists /\ machine[m].alloc = "none"
    /\ "oneCall" \in Assumed => \A d \in Calls : call[d].m # m
    /\ "plugged" \in Assumed => \A s \in Switches : switch[s].conn[m] = PortsOf(cable[m], s)
    /\ machine' = [machine EXCEPT ![m].alloc = "new"]
    /\ seen' = [seen EXCEPT ![m] = {}]
    /\ UNCHANGED <<switch, status, container, cable, call, unsure, aborted, calls, faults>>

\* Another handler writes the row of the machine, e.g. its state or a report of its BMC.
OtherWrite(m) ==
    /\ machine[m].exists
    /\ faults < MaxFaults /\ faults' = faults + 1
    /\ seen' = [seen EXCEPT ![m] = {}]
    /\ UNCHANGED <<switch, status, machine, container, cable, call, unsure, aborted, calls>>

\* A machine nobody has is plugged into other ports; the machines there are unplugged.
PlugIn(m) ==
    /\ faults < MaxFaults /\ faults' = faults + 1
    /\ \E ports \in Cablings \ {cable[m]} :
          LET moved == {m} \cup {n \in Machines : cable[n] \cap ports # {}} IN
          /\ \A n \in moved : machine[n].alloc = "none"
          /\ "oneCall" \in Assumed => \A d \in Calls : call[d].m \notin moved
          /\ cable' = [n \in Machines |-> IF n = m THEN ports ELSE IF n \in moved THEN {} ELSE cable[n]]
    /\ UNCHANGED <<switch, status, machine, container, seen, call, unsure, aborted, calls>>

Next ==
    \/ \E c \in Calls :
          \/ \E op \in MachineCalls, m \in Machines : FindMachine(c, op, m)
          \/ CreateMachine(c) \/ UpdateMachine(c) \/ CreateContainer(c)
          \/ SearchSwitches(c) \/ UpdateConnected(c) \/ Finish(c)
          \/ \E s \in Switches :
                \/ \E nics \in NicSets :
                      FindNoSwitch(c, s, nics) \/ RegisterSwitch(c, s, nics) \/ ReplaceSwitch(c, s, nics)
                \/ \E mode \in {"operational", "replace"} : UpdateSwitch(c, s, mode)
                \/ NotifySwitch(c, s)
                \/ \E force \in BOOLEAN : FindDeleted(c, s, force)
                \/ \E new \in Switches : MigrateOld(c, s, new)
          \/ CreateSwitch(c) \/ FindNotified(c) \/ WriteSwitch(c) \/ DeleteSwitch(c) \/ DeleteStatus(c)
          \/ MigrateNew(c) \/ FindTwin(c) \/ AdjustRead(c) \/ AdjustWrite(c)
          \/ RemoveConnections(c) \/ Adopt(c) \/ CallFails(c)
    \/ \E m \in Machines : Allocate(m) \/ OtherWrite(m) \/ PlugIn(m)

Spec == Init /\ [][Next]_vars

-----------------------------------------------------------------------------
(* Properties.                                                             *)

Settled(m, ops) ==
    \A c \in Calls : call[c].op \notin Maintenance /\ (call[c].m = m => call[c].op \notin ops)

\* The ports of a machine are in the VRF of its allocation once that is installed, and in
\* none otherwise, when no call about it is under way nor was left half done: conflicts of
\* the two writes are retried, and no other writer of a switch undoes them (SetVrfAtSwitches).
VRFAsRecorded ==
    \A m \in Machines \ (unsure.vrf \cup unsure.conn \cup aborted) : Settled(m, VRFCalls) =>
        \A s \in Connected(m), p \in Ports : p \in switch[s].conn[m] =>
            switch[s].vrf[p] = IF machine[m].alloc = "installed" THEN "tenant" ELSE "none"

\* A machine has no connections, or is registered with its rack and has the same ports on
\* two switches, whatever was replaced, migrated or registered meanwhile
\* (ConnectMachineWithSwitches, migrate, replaceSwitch, deleteMachine).
ConnectionsMirrored ==
    \A m \in Machines \ unsure.conn : Settled(m, {"register", "delete"}) =>
        \/ Connected(m) = {}
        \/ /\ machine[m].rack
           /\ \E a, b \in Switches : a # b /\ Connected(m) = {a, b}
                                     /\ switch[a].conn[m] = switch[b].conn[m]

\* A switch has the ports its machines are connected to, also when it registers again with
\* fewer ports while a machine registers (updateSwitchNics).
ConnectedPortsExist ==
    \A s \in Switches, m \in Machines : switch[s].conn[m] \subseteq switch[s].nics

\* Connections lead to ports there are, on both sides (ConnectMachineWithSwitches,
\* updateSwitchNics, migrate).
ConnectionsSound == ConnectionsMirrored /\ ConnectedPortsExist

\* A connection is not lost to a writer that did not mean to touch it (registerSwitch: "Do not
\* replace connections here: We do not want to loose them!").
ConnectionsKept ==
    [][\A s \in Switches, m \in Machines :
          switch'[s].conn[m] = switch[s].conn[m]
          \/ \E c \in Calls : \/ call[c].op \in Maintenance
                              \/ call[c].op \in {"register", "delete"} /\ call[c].m = m]_vars
=============================================================================
