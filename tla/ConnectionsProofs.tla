-------------------------- MODULE ConnectionsProofs --------------------------
(***************************************************************************)
(* The machines of a rack at its switches: a machine is connected to the    *)
(* same ports of two switches, and these are in the VRF of its allocation;  *)
(* for any number of switches, ports, machines and calls, where calls about *)
(* a machine do not overlap, maintenance is done alone, and the cabling is  *)
(* the same at both switches.                                               *)
(*                                                                         *)
(* The invariant has three parts. Discipline says which calls can be under  *)
(* way together and where they are; Informed what a call knows of its       *)
(* machine and of the ports it is going to connect; Wired what there is     *)
(* between machines and switches, and how far a call has got with it. The   *)
(* actions are sorted by what they change, and each part is shown for every *)
(* sort.                                                                    *)
(***************************************************************************)
EXTENDS SwitchServiceProofs, FiniteSetTheorems

\* adoptFromTwin assumes of the cabling that it is "the same" at every switch.
SameCabling ==
    \A plug \in Cablings : \A s, t \in Switches :
        PortsOf(plug, s) # {} /\ PortsOf(plug, t) # {} => PortsOf(plug, s) = PortsOf(plug, t)

Hypotheses == Assumed = Assumptions /\ SameCabling /\ IsFiniteSet(Ports)

----------------------------------------------------------------------------
(* Discipline.                                                             *)

MaintenanceAlone ==
    \A c, d \in Calls : c # d /\ call[c].op \in Maintenance => call[d].op = "none"
OneCallPerMachine ==
    \A c, d \in Calls : c # d /\ call[c].m # None => call[d].m # call[c].m

\* Marked for replacement, or about to be.
Marks(c, s) == call[c].mode = "replace" /\ call[c].s = s
Marked(s) == switch[s].mode = "replace" \/ \E c \in Calls : Marks(c, s)
OneMarked == \A s, t \in Switches : Marked(s) /\ Marked(t) => s = t

\* Where a call of each kind can be.
Formed(st) ==
    /\ st.op = "none" => st = Idle
    /\ st.op \in MachineCalls =>
          /\ st.m \in Machines /\ st.mode = "absent"
          /\ st.pc \in {"create", "write", "container", "search", "each"}
          /\ st.pc \in {"create", "container"} => st.op = "register"
          /\ st.op = "abort" => st.pc = "write" /\ ~st.changed
          /\ st.op \in {"report", "reinstall"} => (st.changed <=> st.pc # "write")
          /\ st.op = "register" /\ st.changed => st.pc \in {"search", "each"}
          /\ st.op \in {"free", "delete"} => st.pc \in {"search", "each"}
          /\ st.op \in VRFCalls /\ st.pc = "each" => st.rack \/ st.todo = {}
    /\ st.op \in SwitchCalls \ Maintenance =>
          st.m = None /\ ~st.changed /\ st.pc \in {"createSwitch", "findSwitch", "write"}
    /\ st.op \in Maintenance =>
          /\ st.mode = "absent" /\ st.s \in Switches
          /\ st.m = None <=> st.pc # "adjustWrite"
          /\ st.changed <=> st.pc = "adopt"
    /\ st.op = "deleteSwitch" => st.pc \in {"remove", "removeStatus"}
    /\ st.op = "migrate" => st.pc \in {"migrateNew", "adjust", "adjustWrite", "adopt"}
    /\ st.op = "replace" => st.pc \in {"twin", "adjust", "adjustWrite"}

Discipline ==
    /\ unsure \in [vrf: SUBSET Machines, conn: SUBSET Machines]
    /\ MaintenanceAlone /\ OneCallPerMachine /\ OneMarked
    /\ \A c \in Calls : Formed(call[c])

----------------------------------------------------------------------------
(* Informed.                                                               *)

CablesApart == \A m, n \in Machines : m # n => cable[m] \cap cable[n] = {}
NoRowNoAllocation ==
    \A m \in Machines : ~machine[m].exists => machine[m].alloc = "none" /\ ~machine[m].rack

\* What a call about a machine knows of its row.
KnowsMachine(c) ==
    /\ call[c].op \in VRFCalls => call[c].rack = machine[call[c].m].rack
    /\ call[c].op \in {"report", "reinstall", "abort"} => machine[call[c].m].alloc # "none"
    /\ call[c].op = "report" /\ call[c].changed => machine[call[c].m].alloc = "installed"
    /\ call[c].op = "reinstall" /\ call[c].changed => machine[call[c].m].alloc \in {"reinstall", "renew"}
    /\ call[c].op = "delete" => machine[call[c].m].alloc = "none"
    /\ call[c].op = "register" /\ call[c].pc # "create" => machine[call[c].m].exists

\* A port a machine registers with is not connected to another, and has no VRF unless it is
\* the machine's already.
Free(s, p, m) ==
    /\ switch[s].vrf[p] = "none" \/ p \in switch[s].conn[m]
    /\ \A n \in Machines \ {m} : p \notin switch[s].conn[n]
KnowsPorts(c) ==
    call[c].op = "register" =>
        /\ call[c].plug = cable[call[c].m]
        /\ \A s \in Switches : \A p \in PortsOf(call[c].plug, s) : Free(s, p, call[c].m)

Informed ==
    /\ CablesApart /\ NoRowNoAllocation
    /\ \A c \in Calls : KnowsMachine(c) /\ KnowsPorts(c)

----------------------------------------------------------------------------
(* Wired.                                                                  *)

Sure(m) == m \notin unsure.conn
Untouched(m) == m \notin unsure.vrf \cup unsure.conn \cup aborted
Expected(m) == IF machine[m].alloc = "installed" THEN "tenant" ELSE "none"
Goal(op) == IF op = "report" THEN "tenant" ELSE "none"

\* Ports a switch does not have are in no VRF, no two machines are connected to a port, and
\* it is in a VRF only if the machine is allocated and has its rack.
PortsClean == \A s \in Switches : \A p \in Ports \ switch[s].nics : switch[s].vrf[p] = "none"
Apart(conn) == \A m, n \in Machines : m # n => conn[m] \cap conn[n] = {}
PortsApart == \A s \in Switches : Apart(switch[s].conn)
Clean(vrf, ports, m) ==
    \A p \in ports : vrf[p] = "tenant" => machine[m].rack /\ machine[m].alloc # "none"
Tagged(vrf, ports, m) == \A p \in ports : vrf[p] = Expected(m)

\* A call changed the allocation or some of the ports of the machine.
Changing(m) == \E c \in Calls : call[c].m = m /\ call[c].op \in VRFCalls /\ call[c].changed
VRFsRight(m) ==
    Untouched(m) /\ ~Changing(m) => \A s \in Switches : Tagged(switch[s].vrf, switch[s].conn[m], m)

\* Connected nowhere, or to the same ports of two switches.
Twofold(conn, m) ==
    \/ \A s \in Switches : conn[s] = {}
    \/ /\ machine[m].rack
       /\ \E a, b \in Switches : /\ a # b /\ conn[a] # {} /\ conn[a] = conn[b]
                                 /\ \A s \in Switches \ {a, b} : conn[s] = {}
Conns(m) == [s \in Switches |-> switch[s].conn[m]]

\* A call changed some of the connections of the machine, which an allocated one has already,
\* or a migration took them from the old switch.
Disturbs(c, m) ==
    call[c].changed /\ \/ call[c].op = "delete" /\ call[c].m = m
                       \/ call[c].op = "register" /\ call[c].m = m /\ machine[m].alloc = "none"
                       \/ call[c].op = "migrate"
TwofoldHere(m) == Sure(m) /\ (\A c \in Calls : ~Disturbs(c, m)) => Twofold(Conns(m), m)

\* An allocated machine is connected to the ports it is plugged into, if maybe of another switch.
Fits(ports, m) == ports # {} => \A t \in Switches : PortsOf(cable[m], t) \in {{}, ports}
InPlace(m) ==
    Sure(m) /\ machine[m].alloc # "none" =>
        /\ \A s \in Switches : Fits(switch[s].conn[m], m)
        /\ Connected(m) = {} => cable[m] = {}

\* How far a call about a machine got with the switches.
VRFsWritten(c) ==
    call[c].pc = "each" /\ call[c].op \in VRFCalls /\ (call[c].op = "report" => Sure(call[c].m)) =>
        \A s \in Switches \ call[c].todo : \A p \in switch[s].conn[call[c].m] :
            switch[s].vrf[p] = Goal(call[c].op)
Disconnected(c) ==
    call[c].pc = "each" /\ call[c].op = "delete" =>
        \A s \in Switches \ call[c].todo : switch[s].conn[call[c].m] = {}
Between(c, a, b, ports) ==
    LET m == call[c].m IN
    /\ a # b /\ ports # {} /\ call[c].todo \subseteq {a, b} /\ Connected(m) \subseteq {a, b}
    /\ \A s \in {a, b} :
          /\ ports \subseteq PortsOf(call[c].plug, s)
          /\ s \notin call[c].todo => switch[s].conn[m] = ports
          /\ s \in call[c].todo /\ Fresh(c, s) => NicsOf(call[c].plug, s) = ports
Connecting(c) ==
    call[c].pc = "each" /\ call[c].op = "register" =>
        \E a, b \in Switches, ports \in SUBSET Ports : Between(c, a, b, ports)

\* What maintenance takes over is right, and is still what it was taken from.
PlanRight(c) ==
    call[c].op \in Maintenance =>
        /\ Apart(call[c].plan.conn)
        /\ \A m \in Machines :
              /\ Clean(call[c].plan.vrf, call[c].plan.conn[m], m)
              /\ Untouched(m) => Tagged(call[c].plan.vrf, call[c].plan.conn[m], m)
Virtual(c, m) == [s \in Switches |-> IF s = call[c].new THEN call[c].plan.conn[m] ELSE switch[s].conn[m]]
Migrating(c) ==
    call[c].op = "migrate" =>
        LET old == call[c].s
            new == call[c].new IN
        /\ old # new
        /\ call[c].pc = "migrateNew" => call[c].nics = switch[old].nics
        /\ call[c].pc # "migrateNew" =>
              /\ \A m \in Machines : switch[new].conn[m] = {}
              /\ \A p \in Ports \ call[c].nics : call[c].plan.vrf[p] = "none"
        /\ call[c].pc # "adopt" => call[c].plan.conn = switch[old].conn
        /\ call[c].pc = "adopt" =>
              \A m \in Machines :
                  /\ switch[old].conn[m] = {}
                  /\ Sure(m) => /\ Twofold(Virtual(c, m), m)
                                /\ machine[m].alloc # "none" => Fits(call[c].plan.conn[m], m)
Replacing(c) ==
    call[c].op = "replace" =>
        /\ switch[call[c].s].mode = "replace"
        /\ call[c].pc # "twin" =>
              /\ \E t \in Switches : Twins(call[c].s) = {t} /\ call[c].plan = Plan(switch[t])
              /\ \A p \in Ports \ call[c].nics : call[c].plan.vrf[p] = "none"

Underway(c) ==
    /\ VRFsWritten(c) /\ Disconnected(c) /\ Connecting(c)
    /\ PlanRight(c) /\ Migrating(c) /\ Replacing(c)
Wired ==
    /\ PortsClean /\ PortsApart
    /\ \A m \in Machines : /\ \A s \in Switches : Clean(switch[s].vrf, switch[s].conn[m], m)
                           /\ VRFsRight(m) /\ TwofoldHere(m) /\ InPlace(m)
    /\ \A c \in Calls : Underway(c)

WiringInv == Discipline /\ Informed /\ Wired

----------------------------------------------------------------------------
(* A step of one call.                                                     *)

Others(c) == \A d \in Calls \ {c} : call'[d] = call[d]
SameMachines ==
    \A m \in Machines : /\ machine'[m].alloc = machine[m].alloc /\ machine'[m].rack = machine[m].rack
                        /\ machine[m].exists => machine'[m].exists
Grows == unsure.vrf \subseteq unsure'.vrf /\ unsure.conn \subseteq unsure'.conn
Reads(c) == \A s \in Switches : seen'[s] \subseteq seen[s] \cup {c}

\* What a call has changed stays its business, or is noted as half done.
Answers(c) ==
    call[c].changed =>
        \/ call'[c].changed /\ call'[c].op = call[c].op /\ call'[c].m = call[c].m
        \/ HalfDone(c).vrf \subseteq unsure'.vrf /\ HalfDone(c).conn \subseteq unsure'.conn

\* A step that changes neither a switch nor an allocation.
Quiet(c) ==
    /\ UNCHANGED <<switch, cable, aborted>> /\ SameMachines
    /\ Others(c) /\ Reads(c) /\ Grows /\ Answers(c)

LEMMA StepOf ==
  ASSUME SwitchInv, NEW c \in Calls, NEW k, Step(c, k)
  PROVE  call'[c] = k /\ Others(c)
  BY DEF Step, Others, SwitchInv, RowsTyped

\* What a call that is not about a machine knows of machines: nothing.
LEMMA OwnMachine ==
  ASSUME WiringInv, NEW c \in Calls, call[c].op \in MachineCalls
  PROVE  call[c].m \in Machines
  BY DEF WiringInv, Discipline, Formed

LEMMA HalfDoneVRF ==
  ASSUME SwitchInv, WiringInv, NEW c \in Calls, call[c].op \in VRFCalls
  PROVE  HalfDone(c).vrf = {call[c].m}
<1>1. call[c].m \in Machines
  BY OwnMachine DEF MachineCalls
<1> QED BY <1>1, ConstantsAssumption DEF HalfDone, Concerned

LEMMA HalfDoneConn ==
  ASSUME SwitchInv, WiringInv, NEW c \in Calls, call[c].op \in {"register", "delete"}
  PROVE  HalfDone(c).conn = {call[c].m}
<1>1. call[c].m \in Machines
  BY OwnMachine DEF MachineCalls
<1> QED BY <1>1, ConstantsAssumption DEF HalfDone, Concerned, VRFCalls

LEMMA HalfDoneMaintenance ==
  ASSUME SwitchInv, WiringInv, NEW c \in Calls, call[c].op = "migrate", call[c].changed, NEW m \in Machines,
         m \notin HalfDone(c).conn
  PROVE  call[c].plan.conn[m] = {}
<1>1. call[c].m = None
  BY DEF WiringInv, Discipline, Formed, Maintenance
<1> QED BY <1>1 DEF HalfDone, Concerned, VRFCalls

----------------------------------------------------------------------------
(* Quiet steps.                                                            *)

LEMMA QuietInforms ==
  ASSUME SwitchInv, WiringInv, NEW c \in Calls, Quiet(c), (KnowsMachine(c) /\ KnowsPorts(c))'
  PROVE  Informed'
<1>1. CablesApart' /\ NoRowNoAllocation'
  BY DEF WiringInv, Informed, CablesApart, NoRowNoAllocation, Quiet, SameMachines
<1>2. ASSUME NEW d \in Calls, d # c PROVE (KnowsMachine(d) /\ KnowsPorts(d))'
  <2>1. call'[d] = call[d] /\ KnowsMachine(d) /\ KnowsPorts(d)
    BY <1>2 DEF Quiet, Others, WiringInv, Informed
  <2>2. call[d].op \in MachineCalls => call[d].m \in Machines
    BY OwnMachine
  <2>3. KnowsMachine(d)'
    BY <2>1, <2>2 DEF KnowsMachine, Quiet, SameMachines, MachineCalls, VRFCalls
  <2>4. KnowsPorts(d)'
    BY <2>1 DEF KnowsPorts, Free, PortsOf, Quiet
  <2> QED BY <2>3, <2>4
<1> QED BY <1>1, <1>2 DEF Informed

LEMMA QuietUnderway ==
  ASSUME SwitchInv, WiringInv, NEW c \in Calls, Quiet(c), NEW d \in Calls, d # c
  PROVE  Underway(d)'
<1>1. call'[d] = call[d] /\ Underway(d)
  BY DEF Quiet, Others, WiringInv, Wired
<1>2. \A m \in Machines : /\ Sure(m)' => Sure(m)
                          /\ Untouched(m)' => Untouched(m)
                          /\ Expected(m)' = Expected(m)
                          /\ machine'[m].alloc = machine[m].alloc /\ machine'[m].rack = machine[m].rack
  BY DEF Quiet, Grows, SameMachines, Sure, Untouched, Expected
<1>3. switch' = switch /\ \A s \in Switches : Fresh(d, s)' => Fresh(d, s)
  BY DEF Quiet, Reads, Fresh
<1>4. call[d].op \in MachineCalls => call[d].m \in Machines
  BY OwnMachine
<1>5. VRFsWritten(d)'
  BY <1>1, <1>2, <1>3, <1>4 DEF Underway, VRFsWritten, MachineCalls, VRFCalls
<1>6. Disconnected(d)'
  BY <1>1, <1>3 DEF Underway, Disconnected
<1>7. Connecting(d)'
  BY <1>1, <1>3 DEF Underway, Connecting, Between, Connected, NicsOf, PortsOf
<1>8. PlanRight(d)'
  BY <1>1, <1>2 DEF Underway, PlanRight, Apart, Clean, Tagged
<1>9. Migrating(d)'
  <2>1. \A m \in Machines : Virtual(d, m)' = Virtual(d, m)
    BY <1>1, <1>3 DEF Virtual
  <2>2. \A m \in Machines : Twofold(Virtual(d, m), m) => Twofold(Virtual(d, m), m)'
    BY <1>2, <2>1 DEF Twofold
  <2>3. \A m \in Machines : Fits(call[d].plan.conn[m], m) => Fits(call[d].plan.conn[m], m)'
    BY <1>1 DEF Fits, PortsOf, Quiet
  <2> QED BY <1>1, <1>2, <1>3, <2>2, <2>3 DEF Underway, Migrating
<1>10. Replacing(d)'
  BY <1>1, <1>3 DEF Underway, Replacing, Twins, Plan
<1> QED BY <1>5, <1>6, <1>7, <1>8, <1>9, <1>10 DEF Underway

LEMMA QuietWires ==
  ASSUME SwitchInv, WiringInv, NEW c \in Calls, Quiet(c), Underway(c)'
  PROVE  Wired'
<1>1. switch' = switch /\ Others(c) /\ Answers(c)
  BY DEF Quiet
<1>2. \A m \in Machines : /\ Sure(m)' => Sure(m)
                          /\ Untouched(m)' => Untouched(m)
                          /\ Expected(m)' = Expected(m)
                          /\ machine'[m].alloc = machine[m].alloc /\ machine'[m].rack = machine[m].rack
  BY DEF Quiet, Grows, SameMachines, Sure, Untouched, Expected
<1>3. PortsClean' /\ PortsApart'
  BY <1>1 DEF WiringInv, Wired, PortsClean, PortsApart, Apart
<1>4. ASSUME NEW m \in Machines PROVE \A s \in Switches : Clean(switch[s].vrf, switch[s].conn[m], m)'
  BY <1>1, <1>2 DEF WiringInv, Wired, Clean
<1>5. ASSUME NEW m \in Machines PROVE VRFsRight(m)'
  <2> SUFFICES ASSUME Untouched(m)', ~Changing(m)'
               PROVE  \A s \in Switches : Tagged(switch[s].vrf, switch[s].conn[m], m)'
    BY DEF VRFsRight
  <2>1. ~Changing(m)
    <3> SUFFICES ASSUME NEW d \in Calls, call[d].m = m, call[d].op \in VRFCalls, call[d].changed
                 PROVE  FALSE
      BY DEF Changing
    <3>1. d = c
      BY <1>1 DEF Others, Changing
    <3>2. m \in unsure'.vrf
      BY <1>1, <3>1, HalfDoneVRF DEF Answers, Changing
    <3> QED BY <3>2 DEF Untouched
  <2> QED BY <1>1, <1>2, <2>1 DEF WiringInv, Wired, VRFsRight, Tagged
<1>6. ASSUME NEW m \in Machines PROVE TwofoldHere(m)'
  <2> SUFFICES ASSUME Sure(m)', \A d \in Calls : ~Disturbs(d, m)'
               PROVE  Twofold(Conns(m), m)'
    BY DEF TwofoldHere
  <2>1. Twofold(Conns(m), m) => Twofold(Conns(m), m)'
    BY <1>1, <1>2 DEF Twofold, Conns
  <2>2. \A d \in Calls \ {c} : ~Disturbs(d, m)
    BY <1>1, <1>2 DEF Others, Disturbs
  <2>3. CASE ~Disturbs(c, m)
    BY <1>2, <2>1, <2>2, <2>3 DEF WiringInv, Wired, TwofoldHere
  <2>4. CASE Disturbs(c, m)
    <3>1. HalfDone(c).conn \subseteq unsure'.conn
      BY <1>1, <1>2, <2>4 DEF Answers, Disturbs
    <3>2. call[c].op = "migrate" /\ call[c].changed
      BY <2>4, <3>1, HalfDoneConn DEF Disturbs, Sure
    <3>3. call[c].plan.conn[m] = {}
      BY <3>1, <3>2, HalfDoneMaintenance DEF Sure
    <3>4. call[c].pc = "adopt"
      BY <3>2 DEF WiringInv, Discipline, Formed, Maintenance
    <3>5. Twofold(Virtual(c, m), m) /\ switch[call[c].new].conn[m] = {}
      BY <1>2, <3>2, <3>4 DEF WiringInv, Wired, Underway, Migrating
    <3>6. Virtual(c, m) = Conns(m)
      BY <3>3, <3>5 DEF Virtual, Conns
    <3> QED BY <2>1, <3>5, <3>6
  <2> QED BY <2>3, <2>4
<1>7. ASSUME NEW m \in Machines PROVE InPlace(m)'
  BY <1>1, <1>2 DEF WiringInv, Wired, InPlace, Fits, PortsOf, Connected, Quiet
<1>8. \A d \in Calls : Underway(d)'
  BY QuietUnderway
<1> QED BY <1>3, <1>4, <1>5, <1>6, <1>7, <1>8 DEF Wired

----------------------------------------------------------------------------
(* Discipline: who begins, goes on and ends.                               *)

UnsureTyped == unsure \in [vrf: SUBSET Machines, conn: SUBSET Machines]

LEMMA DisciplineKept ==
  ASSUME SwitchInv, Discipline, NEW c \in Calls, NEW k, Step(c, k), Formed(k), UnsureTyped', OneMarked',
         \A d \in Calls \ {c} : k.op \in Maintenance => call[d].op = "none",
         \A d \in Calls \ {c} : call[d].op \in Maintenance => k.op = "none",
         \A d \in Calls \ {c} : k.m # None => call[d].m # k.m
  PROVE  Discipline'
<1>1. call'[c] = k /\ \A d \in Calls \ {c} : call'[d] = call[d]
  BY StepOf DEF Others
<1>2. MaintenanceAlone'
  BY <1>1 DEF MaintenanceAlone, Discipline
<1>3. OneCallPerMachine'
  BY <1>1 DEF OneCallPerMachine, Discipline
<1>4. \A d \in Calls : Formed(call'[d])
  BY <1>1 DEF Discipline
<1> QED BY <1>2, <1>3, <1>4 DEF Discipline, UnsureTyped

\* Nothing is marked that was not.
LEMMA MarksKept ==
  ASSUME SwitchInv, Discipline, NEW c \in Calls, NEW k, Step(c, k),
         \A s \in Switches : switch'[s].mode = "replace" => Marked(s),
         k.mode = "replace" => Marked(k.s)
  PROVE  OneMarked'
<1>1. call'[c] = k /\ \A d \in Calls \ {c} : call'[d] = call[d]
  BY StepOf DEF Others
<1>2. \A s \in Switches : Marked(s)' => Marked(s)
  BY <1>1 DEF Marked, Marks
<1> QED BY <1>2 DEF OneMarked, Discipline

LEMMA IdleFormed == Formed(Idle) /\ Idle.m = None /\ Idle.op = "none" /\ Idle.mode = "absent" /\ ~Idle.changed
  BY DEF Idle, Formed, MachineCalls, VRFCalls, SwitchCalls, Maintenance

\* A call that is under way goes on.
LEMMA GoesOn ==
  ASSUME SwitchInv, Discipline, NEW c \in Calls, NEW k, Step(c, k), Formed(k), UnsureTyped',
         k.op = call[c].op, k.m \in {None, call[c].m},
         \A s \in Switches : switch'[s].mode = "replace" => Marked(s),
         k.mode = "replace" => Marked(k.s)
  PROVE  Discipline'
<1>1. OneMarked'
  BY MarksKept
<1>2. \A d \in Calls \ {c} : /\ k.op \in Maintenance => call[d].op = "none"
                             /\ call[d].op \in Maintenance => k.op = "none"
                             /\ k.m # None => call[d].m # k.m
  BY DEF Discipline, MaintenanceAlone, OneCallPerMachine
<1> QED BY <1>1, <1>2, DisciplineKept

LEMMA Ends ==
  ASSUME SwitchInv, Discipline, NEW c \in Calls, Step(c, Idle), UnsureTyped',
         \A s \in Switches : switch'[s].mode = "replace" => Marked(s)
  PROVE  Discipline'
<1>1. OneMarked'
  BY MarksKept, IdleFormed
<1>2. \A d \in Calls \ {c} : Idle.op \notin Maintenance
  BY IdleFormed DEF Maintenance
<1> QED BY <1>1, <1>2, IdleFormed, DisciplineKept

\* A call begins: maintenance alone, and one call about a machine at a time.
LEMMA Begins ==
  ASSUME Hypotheses, SwitchInv, Discipline, NEW c \in Calls, NEW k, Start(c, k), Formed(k), OneMarked',
         \A d \in Calls : k.m # None => call[d].m # k.m
  PROVE  Discipline'
<1>1. Step(c, k) /\ UNCHANGED <<switch, unsure>>
  BY DEF Start
<1>2. "maintenance" \in Assumed
  BY DEF Hypotheses, Assumptions
<1>3. \A d \in Calls : UnderWay(d) => {k.op, call[d].op} \cap Maintenance = {}
  BY <1>2 DEF Start
<1>4. \A d \in Calls \ {c} : /\ k.op \in Maintenance => call[d].op = "none"
                             /\ call[d].op \in Maintenance => k.op = "none"
  BY <1>3 DEF UnderWay, Maintenance
<1>5. UnsureTyped'
  BY <1>1 DEF Discipline, UnsureTyped
<1> QED BY <1>1, <1>4, <1>5, DisciplineKept

LEMMA SameModes ==
  ASSUME UNCHANGED switch
  PROVE  \A s \in Switches : switch'[s].mode = "replace" => Marked(s)
  BY DEF Marked

LEMMA FailDiscipline ==
  ASSUME SwitchInv, Discipline, NEW c \in Calls, Fail(c), UNCHANGED switch
  PROVE  Discipline' /\ Grows /\ Step(c, Idle)
<1>1. Step(c, Idle)
  BY DEF Fail, End
<1>2. unsure \in [vrf: SUBSET Machines, conn: SUBSET Machines]
  BY DEF Discipline
<1>3. HalfDone(c).vrf \subseteq Machines /\ HalfDone(c).conn \subseteq Machines
  <2>1. Concerned(c) \subseteq Machines
    BY DEF Concerned, SwitchInv, RowsTyped, CallState
  <2> QED BY <2>1 DEF HalfDone
<1>4. UnsureTyped' /\ Grows
  BY <1>2, <1>3 DEF UnsureTyped, Grows, Fail
<1> QED BY <1>1, <1>4, SameModes, Ends

LEMMA EndDiscipline ==
  ASSUME SwitchInv, Discipline, NEW c \in Calls, NEW x, End(c, x), UNCHANGED <<switch, unsure>>
  PROVE  Discipline'
<1>1. Step(c, Idle) /\ UnsureTyped'
  BY DEF End, Discipline, UnsureTyped
<1> QED BY <1>1, SameModes, Ends

----------------------------------------------------------------------------
(* The quiet actions.                                                      *)

LEMMA QuietKeepsWiring ==
  ASSUME SwitchInv, WiringInv, NEW c \in Calls, Quiet(c), Discipline', (KnowsMachine(c) /\ KnowsPorts(c))',
         Underway(c)'
  PROVE  WiringInv'
  BY QuietInforms, QuietWires DEF WiringInv

\* A call that is neither about a machine nor maintenance knows nothing that could be wrong.
LEMMA Carefree ==
  ASSUME NEW c \in Calls, call'[c].op \notin MachineCalls, call'[c].op \notin {"migrate", "replace"},
         call'[c].op \in Maintenance => \A m \in Machines : call'[c].plan.conn[m] = {}
  PROVE  (KnowsMachine(c) /\ KnowsPorts(c))' /\ Underway(c)'
<1>1. (KnowsMachine(c) /\ KnowsPorts(c))'
  BY DEF KnowsMachine, KnowsPorts, MachineCalls, VRFCalls
<1>2. VRFsWritten(c)' /\ Disconnected(c)' /\ Connecting(c)'
  BY DEF VRFsWritten, Disconnected, Connecting, MachineCalls
<1>3. PlanRight(c)'
  BY DEF PlanRight, Apart, Clean, Tagged
<1>4. Migrating(c)' /\ Replacing(c)'
  BY DEF Migrating, Replacing
<1> QED BY <1>1, <1>2, <1>3, <1>4 DEF Underway

LEMMA IdleCarefree ==
  ASSUME NEW c \in Calls, call'[c] = Idle
  PROVE  (KnowsMachine(c) /\ KnowsPorts(c))' /\ Underway(c)'
<1>1. Idle.op \notin MachineCalls /\ Idle.op \notin {"migrate", "replace"} /\ Idle.op \notin Maintenance
  BY IdleFormed DEF MachineCalls, VRFCalls, Maintenance
<1> QED BY <1>1, Carefree

LEMMA EndWiring ==
  ASSUME SwitchInv, WiringInv, NEW c \in Calls, NEW x, End(c, x), ~call[c].changed,
         UNCHANGED <<switch, machine, cable, unsure, aborted>>
  PROVE  WiringInv'
<1>1. Discipline' /\ call'[c] = Idle /\ Others(c)
  BY EndDiscipline, StepOf DEF End, WiringInv
<1>2. \A s \in Switches : seen'[s] \subseteq seen[s]
  BY EndSeen
<1>3. Quiet(c)
  BY <1>1, <1>2 DEF Quiet, SameMachines, Reads, Grows, Answers
<1> QED BY <1>1, <1>3, IdleCarefree, QuietKeepsWiring

LEMMA FailWiring ==
  ASSUME SwitchInv, WiringInv, NEW c \in Calls, Fail(c), UNCHANGED <<switch, machine, cable, aborted>>
  PROVE  WiringInv'
<1>1. Discipline' /\ call'[c] = Idle /\ Others(c) /\ Grows
  BY FailDiscipline, StepOf DEF WiringInv
<1>2. \A s \in Switches : seen'[s] \subseteq seen[s]
  BY EndSeen DEF Fail
<1>3. Answers(c)
  BY DEF Answers, Fail, WiringInv, Discipline
<1>4. Quiet(c)
  BY <1>1, <1>2, <1>3 DEF Quiet, SameMachines, Reads
<1> QED BY <1>1, <1>4, IdleCarefree, QuietKeepsWiring

\* A call begins: nothing changes but what it read.
LEMMA BeginWiring ==
  ASSUME Hypotheses, SwitchInv, WiringInv, NEW c \in Calls, NEW k, Start(c, k), Formed(k), OneMarked',
         \A d \in Calls : k.m # None => call[d].m # k.m,
         Reads(c), (KnowsMachine(c) /\ KnowsPorts(c))', Underway(c)'
  PROVE  WiringInv'
<1>1. Discipline'
  BY Begins DEF WiringInv
<1>2. Others(c) /\ UNCHANGED <<switch, machine, cable, unsure, aborted>>
  BY StepOf DEF Start
<1>3. ~call[c].changed
  BY IdleFormed DEF WiringInv, Discipline, Formed, Start, UnderWay
<1>4. Quiet(c)
  BY <1>2, <1>3 DEF Quiet, SameMachines, Grows, Answers
<1> QED BY <1>1, <1>4, QuietKeepsWiring

LEMMA StartMarks ==
  ASSUME SwitchInv, WiringInv, NEW c \in Calls, NEW k, Start(c, k), k.mode = "absent"
  PROVE  OneMarked'
<1>1. Step(c, k) /\ UNCHANGED switch
  BY DEF Start
<1> QED BY <1>1, SameModes, MarksKept DEF WiringInv

LEMMA ReadReads ==
  ASSUME SwitchInv, NEW c \in Calls, NEW X, Read(c, X) \/ UNCHANGED seen
  PROVE  Reads(c)
  BY DEF Reads, Read, SwitchInv, RowsTyped

LEMMA FindMachineWiring ==
  ASSUME Hypotheses, SwitchInv, WiringInv, NEW c \in Calls, NEW op \in MachineCalls, NEW m \in Machines,
         FindMachine(c, op, m)
  PROVE  WiringInv'
<1> DEFINE plug == IF op = "register" THEN cable[m] ELSE {}
           k == [Idle EXCEPT !.op = op, !.m = m, !.plug = plug, !.rack = machine[m].rack, !.pc = FirstStep(op, m)]
<1>1. Start(c, k) /\ Read(c, {m}) /\ Accepts(op, m) /\ (op = "register" => Unoccupied(m))
  BY DEF FindMachine
<1>2. /\ k.op = op /\ k.m = m /\ k.plug = plug /\ k.rack = machine[m].rack /\ k.pc = FirstStep(op, m)
      /\ k.mode = "absent" /\ ~k.changed
  BY DEF Idle
<1>3. "oneCall" \in Assumed /\ "plugged" \in Assumed /\ "retired" \in Assumed
  BY DEF Hypotheses, Assumptions
<1>4. call'[c] = k /\ UNCHANGED <<switch, machine, cable>>
  BY <1>1, StepOf DEF Start
<1> HIDE DEF k
<1>5. Formed(k)
  <2>1. op \notin SwitchCalls /\ op \notin Maintenance /\ op # "none"
    BY DEF MachineCalls, VRFCalls, SwitchCalls, Maintenance
  <2>2. /\ FirstStep(op, m) \in {"create", "search", "write"}
        /\ FirstStep(op, m) = "create" => op = "register"
        /\ FirstStep(op, m) = "search" <=> op \in {"free", "delete"}
    BY DEF FirstStep
  <2> QED BY <1>2, <2>1, <2>2 DEF Formed, Maintenance
<1>6. KnowsMachine(c)'
  <2>1. op \in {"report", "reinstall", "abort"} => machine[m].alloc # "none"
    BY <1>1 DEF Accepts
  <2>2. op = "delete" => machine[m].alloc = "none"
    BY <1>1 DEF Accepts
  <2>3. op = "register" /\ FirstStep(op, m) # "create" => machine[m].exists
    BY DEF FirstStep
  <2> QED BY <1>2, <1>4, <2>1, <2>2, <2>3 DEF KnowsMachine
<1>7. KnowsPorts(c)'
  <2> SUFFICES ASSUME op = "register"
               PROVE  \A s \in Switches : \A p \in PortsOf(cable[m], s) : Free(s, p, m)
    BY <1>2, <1>4 DEF KnowsPorts, Free, PortsOf
  <2> QED BY <1>1, <1>3 DEF Unoccupied, LeftOver, Free, PortsOf
<1>8. Underway(c)'
  <2>1. k.pc # "each" /\ k.op \notin Maintenance /\ k.op \notin {"migrate", "replace"}
    BY <1>2 DEF FirstStep, MachineCalls, VRFCalls, Maintenance
  <2> QED BY <1>4, <2>1 DEF Underway, VRFsWritten, Disconnected, Connecting, PlanRight, Migrating, Replacing
<1>9. \A d \in Calls : k.m # None => call[d].m # k.m
  BY <1>2, <1>3 DEF FindMachine
<1>10. OneMarked' /\ Reads(c)
  BY <1>1, <1>2, StartMarks, ReadReads
<1> QED BY <1>1, <1>5, <1>6, <1>7, <1>8, <1>9, <1>10, BeginWiring

\* A switch registers, is updated or reports: no machine is concerned.
LEMMA StartSwitchCall ==
  ASSUME Hypotheses, SwitchInv, WiringInv, NEW c \in Calls, NEW k, Start(c, k), Reads(c), OneMarked',
         k.op \in SwitchCalls \ Maintenance, k.m = None, ~k.changed, k.pc \in {"createSwitch", "findSwitch", "write"}
  PROVE  WiringInv'
<1>1. Formed(k)
  BY DEF Formed, MachineCalls, VRFCalls, SwitchCalls, Maintenance
<1>2. call'[c] = k
  BY StepOf DEF Start
<1>3. k.op \notin MachineCalls /\ k.op \notin {"migrate", "replace"} /\ k.op \notin Maintenance
  BY DEF MachineCalls, VRFCalls, SwitchCalls, Maintenance
<1>4. (KnowsMachine(c) /\ KnowsPorts(c))' /\ Underway(c)'
  BY <1>2, <1>3, Carefree
<1> QED BY <1>1, <1>4, BeginWiring

LEMMA FindNoSwitchWiring ==
  ASSUME Hypotheses, SwitchInv, WiringInv, NEW c \in Calls, NEW s \in Switches, NEW nics \in NicSets,
         FindNoSwitch(c, s, nics)
  PROVE  WiringInv'
<1> DEFINE k == [Idle EXCEPT !.op = "registerSwitch", !.s = s, !.nics = nics, !.pc = "createSwitch"]
<1>1. Start(c, k) /\ Reads(c)
  BY ReadReads DEF FindNoSwitch
<1>2. k.op = "registerSwitch" /\ k.m = None /\ ~k.changed /\ k.pc = "createSwitch" /\ k.mode = "absent"
  BY DEF Idle
<1> HIDE DEF k
<1>3. OneMarked'
  BY <1>1, <1>2, StartMarks
<1> QED BY <1>1, <1>2, <1>3, StartSwitchCall DEF SwitchCalls, Maintenance

LEMMA RegisterSwitchWiring ==
  ASSUME Hypotheses, SwitchInv, WiringInv, NEW c \in Calls, NEW s \in Switches, NEW nics \in NicSets,
         RegisterSwitch(c, s, nics)
  PROVE  WiringInv'
<1> DEFINE k == [Idle EXCEPT !.op = "registerSwitch", !.s = s, !.nics = nics, !.pc = "write"]
<1>1. Start(c, k) /\ Reads(c)
  BY ReadReads DEF RegisterSwitch
<1>2. k.op = "registerSwitch" /\ k.m = None /\ ~k.changed /\ k.pc = "write" /\ k.mode = "absent"
  BY DEF Idle
<1> HIDE DEF k
<1>3. OneMarked'
  BY <1>1, <1>2, StartMarks
<1> QED BY <1>1, <1>2, <1>3, StartSwitchCall DEF SwitchCalls, Maintenance

LEMMA NotifySwitchWiring ==
  ASSUME Hypotheses, SwitchInv, WiringInv, NEW c \in Calls, NEW s \in Switches, NotifySwitch(c, s)
  PROVE  WiringInv'
<1> DEFINE k == [Idle EXCEPT !.op = "notify", !.s = s, !.pc = "findSwitch"]
<1>1. Start(c, k) /\ Reads(c)
  BY ReadReads DEF NotifySwitch
<1>2. k.op = "notify" /\ k.m = None /\ ~k.changed /\ k.pc = "findSwitch" /\ k.mode = "absent"
  BY DEF Idle
<1> HIDE DEF k
<1>3. OneMarked'
  BY <1>1, <1>2, StartMarks
<1> QED BY <1>1, <1>2, <1>3, StartSwitchCall DEF SwitchCalls, Maintenance

\* One switch is marked at a time.
LEMMA UpdateSwitchWiring ==
  ASSUME Hypotheses, SwitchInv, WiringInv, NEW c \in Calls, NEW s \in Switches,
         NEW mode \in {"operational", "replace"}, UpdateSwitch(c, s, mode)
  PROVE  WiringInv'
<1> DEFINE k == [Idle EXCEPT !.op = "update", !.s = s, !.mode = mode, !.pc = "write"]
<1>1. Start(c, k) /\ Reads(c)
  BY ReadReads DEF UpdateSwitch
<1>2. k.op = "update" /\ k.m = None /\ ~k.changed /\ k.pc = "write" /\ k.mode = mode /\ k.s = s
  BY DEF Idle
<1> HIDE DEF k
<1>3. "maintenance" \in Assumed /\ Step(c, k) /\ UNCHANGED switch
  BY <1>1 DEF Hypotheses, Assumptions, Start
<1>4. CASE mode = "operational"
  <2>1. OneMarked'
    BY <1>2, <1>3, <1>4, SameModes, MarksKept DEF WiringInv
  <2> QED BY <1>1, <1>2, <2>1, StartSwitchCall DEF SwitchCalls, Maintenance
<1>5. CASE mode = "replace"
  <2>1. /\ \A t \in Switches \ {s} : switch[t].mode # "replace"
        /\ \A d \in Calls : call[d].mode = "replace" => call[d].s = s
    BY <1>3, <1>5 DEF UpdateSwitch
  <2>2. call'[c] = k /\ \A d \in Calls \ {c} : call'[d] = call[d]
    BY <1>3, StepOf DEF Others
  <2>3. \A t \in Switches : Marked(t)' => t = s
    BY <1>2, <1>3, <2>1, <2>2 DEF Marked, Marks
  <2>4. OneMarked'
    BY <2>3 DEF OneMarked
  <2> QED BY <1>1, <1>2, <2>4, StartSwitchCall DEF SwitchCalls, Maintenance
<1> QED BY <1>4, <1>5

\* Maintenance begins when nothing is under way.
LEMMA Alone ==
  ASSUME Hypotheses, NEW c \in Calls, NEW k, Start(c, k), k.op \in Maintenance
  PROVE  \A d \in Calls : call[d].op = "none"
  BY DEF Hypotheses, Assumptions, Start, UnderWay

LEMMA FindDeletedWiring ==
  ASSUME Hypotheses, SwitchInv, WiringInv, NEW c \in Calls, NEW s \in Switches, NEW force \in BOOLEAN,
         FindDeleted(c, s, force)
  PROVE  WiringInv'
<1> DEFINE k == [Idle EXCEPT !.op = "deleteSwitch", !.s = s, !.pc = "remove"]
<1>1. Start(c, k) /\ Reads(c)
  BY ReadReads DEF FindDeleted
<1>2. /\ k.op = "deleteSwitch" /\ k.m = None /\ ~k.changed /\ k.pc = "remove" /\ k.mode = "absent" /\ k.s = s
      /\ k.plan = NoPlan
  BY DEF Idle
<1> HIDE DEF k
<1>3. OneMarked' /\ call'[c] = k
  BY <1>1, <1>2, StartMarks, StepOf DEF Start
<1>4. Formed(k)
  BY <1>2 DEF Formed, MachineCalls, VRFCalls, SwitchCalls, Maintenance
<1>5. \A m \in Machines : NoPlan.conn[m] = {}
  BY DEF NoPlan, NoSwitch
<1>6. (KnowsMachine(c) /\ KnowsPorts(c))' /\ Underway(c)'
  BY <1>2, <1>3, <1>5, Carefree DEF MachineCalls, VRFCalls
<1> QED BY <1>1, <1>2, <1>3, <1>4, <1>6, BeginWiring

LEMMA MigrateOldWiring ==
  ASSUME Hypotheses, SwitchInv, WiringInv, NEW c \in Calls, NEW s \in Switches, NEW new \in Switches,
         MigrateOld(c, s, new)
  PROVE  WiringInv'
<1> DEFINE k == [Idle EXCEPT !.op = "migrate", !.s = s, !.new = new, !.nics = switch[s].nics,
                   !.plan = Plan(switch[s]), !.pc = "migrateNew"]
<1>1. Start(c, k) /\ Reads(c) /\ s # new
  BY ReadReads DEF MigrateOld
<1>2. /\ k.op = "migrate" /\ k.m = None /\ ~k.changed /\ k.pc = "migrateNew" /\ k.mode = "absent" /\ k.s = s
      /\ k.new = new /\ k.nics = switch[s].nics
      /\ k.plan.vrf = switch[s].vrf /\ k.plan.conn = switch[s].conn
  BY DEF Idle, Plan
<1> HIDE DEF k
<1>3. OneMarked' /\ call'[c] = k /\ UNCHANGED <<switch, machine, unsure, aborted>>
  BY <1>1, <1>2, StartMarks, StepOf DEF Start
<1>4. Formed(k)
  BY <1>2 DEF Formed, MachineCalls, VRFCalls, SwitchCalls, Maintenance
<1>5. KnowsMachine(c)' /\ KnowsPorts(c)'
  BY <1>2, <1>3 DEF KnowsMachine, KnowsPorts, VRFCalls
<1>6. PlanRight(c)'
  <2>1. \A d \in Calls : call[d].op = "none"
    BY <1>1, <1>2, Alone DEF Maintenance
  <2>2. \A m \in Machines : ~Changing(m)
    BY <2>1 DEF Changing, VRFCalls
  <2>3. \A m \in Machines : /\ Clean(switch[s].vrf, switch[s].conn[m], m)
                            /\ Untouched(m) => Tagged(switch[s].vrf, switch[s].conn[m], m)
    BY <2>2 DEF WiringInv, Wired, VRFsRight
  <2>4. Apart(switch[s].conn)
    BY DEF WiringInv, Wired, PortsApart
  <2> QED BY <1>2, <1>3, <2>3, <2>4 DEF PlanRight, Apart, Clean, Tagged, Untouched, Expected
<1>7. Migrating(c)'
  BY <1>1, <1>2, <1>3 DEF Migrating
<1>8. Underway(c)'
  BY <1>2, <1>3, <1>6, <1>7 DEF Underway, VRFsWritten, Disconnected, Connecting, Replacing
<1> QED BY <1>1, <1>2, <1>3, <1>4, <1>5, <1>8, BeginWiring

LEMMA ReplaceSwitchWiring ==
  ASSUME Hypotheses, SwitchInv, WiringInv, NEW c \in Calls, NEW s \in Switches, NEW nics \in NicSets,
         ReplaceSwitch(c, s, nics)
  PROVE  WiringInv'
<1> DEFINE todo == {m \in Machines : s \in Connected(m)}
           k == [Idle EXCEPT !.op = "replace", !.s = s, !.nics = nics, !.pc = "twin", !.todo = todo]
<1>1. Start(c, k) /\ Reads(c) /\ switch[s].mode = "replace"
  BY ReadReads DEF ReplaceSwitch
<1>2. /\ k.op = "replace" /\ k.m = None /\ ~k.changed /\ k.pc = "twin" /\ k.mode = "absent" /\ k.s = s
      /\ k.plan = NoPlan
  BY DEF Idle
<1> HIDE DEF k
<1>3. OneMarked' /\ call'[c] = k /\ UNCHANGED switch
  BY <1>1, <1>2, StartMarks, StepOf DEF Start
<1>4. Formed(k)
  BY <1>2 DEF Formed, MachineCalls, VRFCalls, SwitchCalls, Maintenance
<1>5. KnowsMachine(c)' /\ KnowsPorts(c)'
  BY <1>2, <1>3 DEF KnowsMachine, KnowsPorts, VRFCalls
<1>6. PlanRight(c)'
  <2>1. \A m \in Machines : NoPlan.conn[m] = {}
    BY DEF NoPlan, NoSwitch
  <2> QED BY <1>2, <1>3, <2>1 DEF PlanRight, Apart, Clean, Tagged
<1>7. Replacing(c)'
  BY <1>1, <1>2, <1>3 DEF Replacing
<1>8. Underway(c)'
  BY <1>2, <1>3, <1>6, <1>7 DEF Underway, VRFsWritten, Disconnected, Connecting, Migrating
<1> QED BY <1>1, <1>2, <1>3, <1>4, <1>5, <1>8, BeginWiring

----------------------------------------------------------------------------
(* Quiet steps of a call that goes on.                                     *)

LEMMA GoOnWiring ==
  ASSUME SwitchInv, WiringInv, NEW c \in Calls, NEW k, Step(c, k), Formed(k), Reads(c), SameMachines,
         UNCHANGED <<switch, cable, unsure, aborted>>,
         k.op = call[c].op, k.m \in {None, call[c].m}, k.changed <=> call[c].changed,
         k.m = call[c].m \/ ~call[c].changed, k.mode = "replace" => Marked(k.s),
         (KnowsMachine(c) /\ KnowsPorts(c))', Underway(c)'
  PROVE  WiringInv'
<1>1. UnsureTyped'
  BY DEF WiringInv, Discipline, UnsureTyped
<1>2. Discipline'
  BY <1>1, SameModes, GoesOn DEF WiringInv
<1>3. call'[c] = k /\ Others(c)
  BY StepOf
<1>4. Quiet(c)
  BY <1>3 DEF Quiet, Grows, Answers
<1> QED BY <1>2, <1>4, QuietKeepsWiring

\* A call about a machine goes on, not yet with the switches.
LEMMA MachineGoesOn ==
  ASSUME SwitchInv, WiringInv, NEW c \in Calls, NEW k, Step(c, k), call[c].op \in MachineCalls,
         k.op = call[c].op, k.m = call[c].m, k.plug = call[c].plug, k.rack = call[c].rack,
         k.changed <=> call[c].changed, k.mode = call[c].mode,
         k.pc \in {"container", "search"}, k.pc = "container" => k.op = "register" /\ ~k.changed,
         call[c].op = "abort" => call[c].pc # "write", call[c].op \in {"report", "reinstall"} => call[c].pc # "write",
         call[c].pc = "create" => machine'[k.m].exists,
         Reads(c), SameMachines, UNCHANGED <<switch, cable, unsure, aborted>>
  PROVE  WiringInv'
<1>1. Formed(call[c]) /\ KnowsMachine(c) /\ KnowsPorts(c) /\ call[c].m \in Machines
  BY OwnMachine DEF WiringInv, Discipline, Informed
<1>2. k.op \notin SwitchCalls /\ k.op \notin Maintenance /\ k.op # "none" /\ k.op \notin {"migrate", "replace"}
  BY DEF MachineCalls, VRFCalls, SwitchCalls, Maintenance
<1>3. Formed(k)
  BY <1>1, <1>2 DEF Formed, Maintenance
<1>4. call'[c] = k
  BY StepOf
<1>5. KnowsMachine(c)'
  BY <1>1, <1>4 DEF KnowsMachine, SameMachines
<1>6. KnowsPorts(c)'
  BY <1>1, <1>4 DEF KnowsPorts, Free, PortsOf
<1>7. Underway(c)'
  BY <1>2, <1>4 DEF Underway, VRFsWritten, Disconnected, Connecting, PlanRight, Migrating, Replacing
<1>8. k.mode # "replace"
  BY <1>1 DEF Formed
<1> QED BY <1>3, <1>5, <1>6, <1>7, <1>8, GoOnWiring

LEMMA OtherSeen ==
  ASSUME SwitchInv, NEW c \in Calls, NEW m \in Machines, Wrote(c, m) \/ seen' = [seen EXCEPT ![m] = {}]
  PROVE  Reads(c)
  BY ConstantsAssumption DEF Reads, Wrote, SwitchInv, RowsTyped

LEMMA CreateMachineWiring ==
  ASSUME SwitchInv, WiringInv, NEW c \in Calls, CreateMachine(c)
  PROVE  WiringInv'
<1> DEFINE m == call[c].m
           k == [call[c] EXCEPT !.pc = "container"]
<1>1. call[c] \in CallState /\ m \in Machines /\ ~call[c].changed /\ call[c].op = "register" /\ call[c].pc = "create"
  BY OwnMachine DEF CreateMachine, WiringInv, Discipline, Formed, MachineCalls, SwitchInv, RowsTyped
<1>2. CASE machine[m].exists
  BY <1>1, <1>2, EndWiring DEF CreateMachine
<1>3. CASE ~machine[m].exists
  <2>1. Step(c, k) /\ Wrote(c, m) /\ UNCHANGED <<switch, cable, unsure, aborted>>
    BY <1>3 DEF CreateMachine, To
  <2>2. machine' = [machine EXCEPT ![m] = [NoMachine EXCEPT !.exists = TRUE]]
    BY <1>3 DEF CreateMachine
  <2>3. SameMachines
    BY <1>1, <1>3, <2>2 DEF SameMachines, NoMachine, WiringInv, Informed, NoRowNoAllocation, SwitchInv, RowsTyped, MachineRow
  <2>e. machine'[m].exists
    BY <1>1, <2>2 DEF NoMachine, SwitchInv, RowsTyped
  <2>4. Reads(c)
    BY <1>1, <2>1, OtherSeen
  <2>5. /\ k.op = call[c].op /\ k.m = m /\ k.plug = call[c].plug /\ k.rack = call[c].rack
        /\ k.changed = call[c].changed /\ k.mode = call[c].mode /\ k.pc = "container"
    BY <1>1 DEF CallState
  <2> HIDE DEF k
  <2> QED BY <1>1, <2>1, <2>3, <2>e, <2>4, <2>5, MachineGoesOn DEF MachineCalls
<1> QED BY <1>2, <1>3

LEMMA CreateContainerWiring ==
  ASSUME SwitchInv, WiringInv, NEW c \in Calls, CreateContainer(c)
  PROVE  WiringInv'
<1> DEFINE k == [call[c] EXCEPT !.pc = "search"]
<1>1. call[c] \in CallState /\ call[c].op \in MachineCalls /\ call[c].pc = "container"
  BY DEF CreateContainer, SwitchInv, RowsTyped, RowsSound, Sound, WiringInv, Discipline, Formed, CallState,
     Operations, SwitchCalls, Maintenance, Idle
<1>2. Step(c, k) /\ UNCHANGED <<switch, cable, unsure, aborted, machine, seen>>
  BY DEF CreateContainer, To
<1>3. /\ k.op = call[c].op /\ k.m = call[c].m /\ k.plug = call[c].plug /\ k.rack = call[c].rack
      /\ k.changed = call[c].changed /\ k.mode = call[c].mode /\ k.pc = "search"
  BY <1>1 DEF CallState
<1>4. SameMachines /\ Reads(c)
  BY <1>2, ReadReads DEF SameMachines
<1> HIDE DEF k
<1> QED BY <1>1, <1>2, <1>3, <1>4, MachineGoesOn

LEMMA RetryWiring ==
  ASSUME SwitchInv, WiringInv, NEW c \in Calls, Retry(c), call[c].pc = "each", call[c].op \in MachineCalls,
         UNCHANGED <<switch, machine, cable, aborted>>
  PROVE  WiringInv'
<1> DEFINE k == [call[c] EXCEPT !.pc = "search", !.tries = @ + 1, !.todo = {}]
<1>1. CASE Fail(c)
  BY <1>1, FailWiring
<1>2. CASE ~Fail(c)
  <2>1. Step(c, k) /\ UNCHANGED <<seen, unsure>>
    BY <1>2 DEF Retry
  <2>2. call[c] \in CallState
    BY DEF SwitchInv, RowsTyped
  <2>3. /\ k.op = call[c].op /\ k.m = call[c].m /\ k.plug = call[c].plug /\ k.rack = call[c].rack
        /\ k.changed = call[c].changed /\ k.mode = call[c].mode /\ k.pc = "search"
    BY <2>2 DEF CallState
  <2>4. SameMachines /\ Reads(c)
    BY <2>1, ReadReads DEF SameMachines
  <2> HIDE DEF k
  <2> QED BY <2>1, <2>3, <2>4, MachineGoesOn
<1> QED BY <1>1, <1>2

\* The other calls while one about a machine is under way: none about it, and no maintenance.
LEMMA Undisturbed ==
  ASSUME SwitchInv, WiringInv, NEW c \in Calls, call[c].op \in MachineCalls, NEW d \in Calls, d # c
  PROVE  call[d].m # call[c].m /\ call[d].op \notin Maintenance
<1>1. call[c].m # None /\ call[c].op # "none"
  BY OwnMachine, ConstantsAssumption DEF MachineCalls, VRFCalls
<1> QED BY <1>1 DEF WiringInv, Discipline, MaintenanceAlone, OneCallPerMachine

\* What was connected mirrored before is mirrored now: the ports of the twin that a new machine
\* is not found at belong to none, and the cabling is the same.
LEMMA SamePorts ==
  ASSUME Hypotheses, SwitchInv, WiringInv, NEW c \in Calls, call[c].op = "register",
         NEW a \in Switches, NEW b \in Switches,
         NicsOf(call[c].plug, a) # {}, NicsOf(call[c].plug, b) # {}, Mirrored(a, b, call[c].m, call[c].plug)
  PROVE  NicsOf(call[c].plug, a) = NicsOf(call[c].plug, b)
<1> DEFINE m == call[c].m
           plug == call[c].plug
           A == NicsOf(plug, a)
           B == NicsOf(plug, b)
           conn == WithConnection(b, m, plug)
<1>1. m \in Machines /\ plug \in Cables
  BY OwnMachine DEF MachineCalls, SwitchInv, RowsTyped, CallState
<1>2. plug \in Cablings
  <2>1. plug # {}
    BY DEF NicsOf
  <2> QED BY <1>1, <2>1 DEF Cables
<1>3. PortsOf(plug, a) = PortsOf(plug, b)
  <2>1. A \subseteq PortsOf(plug, a) /\ B \subseteq PortsOf(plug, b)
    BY DEF NicsOf, PortsOf, SwitchInv, RowsTyped, SwitchRow
  <2>2. PortsOf(plug, a) # {} /\ PortsOf(plug, b) # {}
    BY <2>1
  <2> QED BY <1>2, <2>2 DEF Hypotheses, SameCabling
<1>4. conn[m] = B /\ \A n \in Machines \ {m} : conn[n] = switch[b].conn[n]
  BY <1>1 DEF WithConnection, SwitchInv, RowsTyped, SwitchRow
<1>5. Cardinality(A) = Cardinality(B) /\ A \subseteq UNION {conn[n] : n \in Machines}
  BY DEF Mirrored
<1>6. A \subseteq B
  <2> SUFFICES ASSUME NEW p \in A PROVE p \in B
    OBVIOUS
  <2>1. p \in PortsOf(plug, b)
    BY <1>3 DEF NicsOf, PortsOf, SwitchInv, RowsTyped, SwitchRow
  <2>2. \A n \in Machines \ {m} : p \notin switch[b].conn[n]
    BY <2>1 DEF WiringInv, Informed, KnowsPorts, Free
  <2>3. PICK n \in Machines : p \in conn[n]
    BY <1>5
  <2> QED BY <1>4, <2>2, <2>3
<1>7. IsFiniteSet(B)
  <2>1. B \subseteq Ports
    BY DEF NicsOf, SwitchInv, RowsTyped, SwitchRow
  <2> QED BY <2>1, FS_Subset DEF Hypotheses
<1>8. A \subseteq B /\ A # B => Cardinality(A) < Cardinality(B)
  BY <1>7, FS_Subset, FS_CardinalityType
<1>9. Cardinality(B) \in Nat
  BY <1>7, FS_CardinalityType
<1> HIDE DEF A, B
<1>10. A = B
  BY <1>5, <1>6, <1>8, <1>9
<1> QED BY <1>10 DEF A, B

LEMMA SearchSwitchesWiring ==
  ASSUME Hypotheses, SwitchInv, WiringInv, NEW c \in Calls, SearchSwitches(c)
  PROVE  WiringInv'
<1> DEFINE m == call[c].m
           op == call[c].op
           plug == call[c].plug
           k == [call[c] EXCEPT !.pc = "each", !.todo = Affected(c)]
<1>1. call[c] \in CallState /\ op \in MachineCalls /\ m \in Machines /\ call[c].pc = "search"
  BY OwnMachine DEF SearchSwitches, SwitchInv, RowsTyped, RowsSound, Sound, WiringInv, Discipline, Formed,
     CallState, Operations, SwitchCalls, Maintenance, Idle
<1>2. CASE op = "register" /\ ~CanConnect(m, plug)
  BY <1>2, FailWiring DEF SearchSwitches
<1>3. CASE ~(op = "register" /\ ~CanConnect(m, plug))
  <2>1. Step(c, k) /\ Read(c, Affected(c)) /\ UNCHANGED <<switch, cable, unsure, aborted, machine>>
    BY <1>3 DEF SearchSwitches
  <2>2. /\ k.op = op /\ k.m = m /\ k.plug = plug /\ k.rack = call[c].rack /\ k.todo = Affected(c)
        /\ k.changed = call[c].changed /\ k.mode = call[c].mode /\ k.pc = "each"
    BY <1>1 DEF CallState
  <2> HIDE DEF k
  <2>3. call'[c] = k /\ SameMachines /\ Reads(c)
    BY <2>1, StepOf, ReadReads DEF SameMachines
  <2>4. Formed(call[c]) /\ KnowsMachine(c) /\ KnowsPorts(c)
    BY DEF WiringInv, Discipline, Informed
  <2>5. op \notin SwitchCalls /\ op \notin Maintenance /\ op # "none" /\ op \notin {"migrate", "replace"}
    BY <1>1 DEF MachineCalls, VRFCalls, SwitchCalls, Maintenance
  <2>6. Formed(k) /\ k.mode # "replace"
    <3>1. op \in VRFCalls => call[c].rack \/ Affected(c) = {}
      BY DEF Affected, VRFCalls
    <3>2. /\ op # "abort" /\ (op \in {"report", "reinstall"} => call[c].changed) /\ call[c].mode = "absent"
      BY <1>1, <2>4 DEF Formed
    <3> QED BY <1>1, <2>2, <2>5, <3>1, <3>2 DEF Formed, Maintenance
  <2>7. KnowsMachine(c)' /\ KnowsPorts(c)'
    BY <1>1, <2>1, <2>2, <2>3, <2>4 DEF KnowsMachine, KnowsPorts, Free, PortsOf
  <2>8. VRFsWritten(c)'
    <3> SUFFICES ASSUME op \in VRFCalls, op = "report" => Sure(m), NEW s \in Switches, s \notin Affected(c),
                        NEW p \in switch[s].conn[m]
                 PROVE  switch[s].vrf[p] = Goal(op)
      BY <2>1, <2>2, <2>3 DEF VRFsWritten, Sure
    <3>1. s \in Connected(m) /\ p \in Ports /\ switch[s].vrf[p] \in {"none", "tenant"}
      BY <1>1 DEF Connected, SwitchInv, RowsTyped, SwitchRow
    <3>2. ~call[c].rack
      BY <3>1 DEF Affected, VRFCalls
    <3>3. ~machine[m].rack
      BY <2>4, <3>2 DEF KnowsMachine
    <3>4. switch[s].vrf[p] = "none"
      BY <1>1, <3>1, <3>3 DEF WiringInv, Wired, Clean
    <3>5. op # "report"
      <4> SUFFICES ASSUME Sure(m) PROVE FALSE
        OBVIOUS
      <4>1. \A d \in Calls : ~Disturbs(d, m)
        BY <1>1, Undisturbed DEF Disturbs, Maintenance, VRFCalls
      <4>2. Twofold(Conns(m), m)
        BY <1>1, <4>1 DEF WiringInv, Wired, TwofoldHere
      <4> QED BY <3>1, <3>3, <4>2 DEF Twofold, Conns, Connected
    <3> QED BY <3>4, <3>5 DEF Goal
  <2>9. Disconnected(c)'
    BY <2>1, <2>2, <2>3 DEF Disconnected, Affected, Connected
  <2>10. Connecting(c)'
    <3> SUFFICES ASSUME op = "register"
                 PROVE  \E a, b \in Switches, ports \in SUBSET Ports : Between(c, a, b, ports)'
      BY <2>2, <2>3 DEF Connecting
    <3>1. PICK a \in Switches, b \in Switches :
             a # b /\ Attached(plug) = {a, b} /\ Connected(m) \subseteq {a, b} /\ Mirrored(a, b, m, plug)
      BY <1>3 DEF CanConnect
    <3>2. NicsOf(plug, a) # {} /\ NicsOf(plug, b) # {}
      BY <3>1 DEF Attached
    <3>3. NicsOf(plug, a) = NicsOf(plug, b)
      BY <3>1, <3>2, SamePorts
    <3>4. /\ NicsOf(plug, a) \in SUBSET Ports
          /\ \A s \in {a, b} : NicsOf(plug, a) \subseteq PortsOf(plug, s)
      BY <3>3 DEF NicsOf, PortsOf, SwitchInv, RowsTyped, SwitchRow
    <3>5. PICK ports \in SUBSET Ports : ports = NicsOf(plug, a)
      BY <3>4
    <3>6. \A s \in {a, b} : NicsOf(call[c].plug, s)' = ports /\ PortsOf(call[c].plug, s)' = PortsOf(plug, s)
      BY <2>1, <2>2, <2>3, <3>3, <3>5 DEF NicsOf, PortsOf
    <3>7. Connected(call[c].m)' = Connected(m) /\ call'[c].todo = {a, b}
      BY <2>1, <2>2, <2>3, <3>1 DEF Connected, Affected
    <3>8. Between(c, a, b, ports)'
      BY <3>1, <3>2, <3>4, <3>5, <3>6, <3>7 DEF Between
    <3> QED BY <3>8
  <2>11. Underway(c)'
    BY <2>2, <2>3, <2>5, <2>8, <2>9, <2>10 DEF Underway, PlanRight, Migrating, Replacing
  <2> QED BY <2>1, <2>2, <2>3, <2>6, <2>7, <2>11, GoOnWiring
<1> QED BY <1>2, <1>3

LEMMA FindNotifiedWiring ==
  ASSUME SwitchInv, WiringInv, NEW c \in Calls, FindNotified(c)
  PROVE  WiringInv'
<1> DEFINE s == call[c].s
           k == [call[c] EXCEPT !.pc = "write", !.mode = switch[s].mode]
<1>1. /\ call[c] \in CallState /\ call[c].op = "notify" /\ s \in Switches /\ Formed(call[c])
      /\ UNCHANGED <<switch, machine, cable, unsure, aborted>>
  BY DEF FindNotified, SwitchInv, RowsTyped, RowsSound, Sound, SwitchCalls, WiringInv, Discipline
<1>2. ~call[c].changed /\ call[c].m = None
  BY <1>1 DEF Formed, SwitchCalls, Maintenance
<1>3. CASE ~Exists(s)
  BY <1>1, <1>2, <1>3, EndWiring DEF FindNotified
<1>4. CASE Exists(s)
  <2>1. Step(c, k) /\ Read(c, {s})
    BY <1>4 DEF FindNotified
  <2>2. /\ k.op = "notify" /\ k.m = None /\ ~k.changed /\ k.pc = "write" /\ k.mode = switch[s].mode /\ k.s = s
    BY <1>1, <1>2 DEF CallState
  <2> HIDE DEF k
  <2>3. Formed(k)
    BY <2>2 DEF Formed, MachineCalls, VRFCalls, SwitchCalls, Maintenance
  <2>4. call'[c] = k /\ SameMachines /\ Reads(c)
    BY <1>1, <2>1, StepOf, ReadReads DEF SameMachines
  <2>5. (KnowsMachine(c) /\ KnowsPorts(c))' /\ Underway(c)'
    BY <2>2, <2>4, Carefree DEF MachineCalls, VRFCalls, Maintenance
  <2>6. k.mode = "replace" => Marked(k.s)
    BY <2>2 DEF Marked
  <2> QED BY <1>1, <1>2, <2>1, <2>2, <2>3, <2>4, <2>5, <2>6, GoOnWiring
<1> QED BY <1>3, <1>4

\* Maintenance goes on: the others wait.
LEMMA MaintenanceGoesOn ==
  ASSUME SwitchInv, WiringInv, NEW c \in Calls, NEW k, Step(c, k), call[c].op \in {"migrate", "replace"},
         k.op = call[c].op, k.s = call[c].s, k.mode = call[c].mode, ~k.changed, ~call[c].changed,
         k.pc \in {"adjust", "adjustWrite"}, k.m = None <=> k.pc # "adjustWrite", Reads(c),
         UNCHANGED <<switch, machine, cable, unsure, aborted>>, PlanRight(c)', Migrating(c)', Replacing(c)'
  PROVE  WiringInv'
<1>1. Formed(call[c]) /\ call[c].op \in Maintenance /\ k.op \in Maintenance
  BY DEF WiringInv, Discipline, Maintenance
<1>2. Formed(k)
  BY <1>1 DEF Formed, MachineCalls, VRFCalls, SwitchCalls, Maintenance
<1>3. call'[c] = k /\ Others(c)
  BY StepOf
<1>4. \A d \in Calls \ {c} : call[d].op = "none" /\ call[d].m = None
  BY <1>1, IdleFormed DEF WiringInv, Discipline, MaintenanceAlone, Formed
<1>5. OneMarked'
  BY <1>1, SameModes, MarksKept DEF WiringInv, Formed
<1>6. UnsureTyped'
  BY DEF WiringInv, Discipline, UnsureTyped
<1>7. Discipline'
  BY <1>1, <1>2, <1>4, <1>5, <1>6, DisciplineKept DEF WiringInv, Maintenance
<1>8. Quiet(c)
  BY <1>3 DEF Quiet, SameMachines, Grows, Answers
<1>9. KnowsMachine(c)' /\ KnowsPorts(c)'
  BY <1>3 DEF KnowsMachine, KnowsPorts, VRFCalls
<1>10. Underway(c)'
  BY <1>3 DEF Underway, VRFsWritten, Disconnected, Connecting
<1> QED BY <1>7, <1>8, <1>9, <1>10, QuietKeepsWiring

LEMMA MigrateNewWiring ==
  ASSUME SwitchInv, WiringInv, NEW c \in Calls, MigrateNew(c)
  PROVE  WiringInv'
<1> DEFINE old == call[c].s
           new == call[c].new
           conn == call[c].plan.conn
           refused == \/ ~Exists(new) \/ \E m \in Machines : switch[new].conn[m] # {}
                      \/ CannotAdopt([nics |-> call[c].nics, conn |-> conn], switch[new].nics)
           plan == Merged(call[c].plan, call[c].nics, switch[new])
           k == [call[c] EXCEPT !.pc = "adjust", !.nics = switch[new].nics, !.plan = plan,
                  !.todo = {m \in Machines : conn[m] # {}}]
<1>1. /\ call[c] \in CallState /\ Sound(call[c]) /\ Formed(call[c]) /\ Underway(c) /\ call[c].op = "migrate"
      /\ new \in Switches /\ old \in Switches /\ call[c].pc = "migrateNew"
      /\ UNCHANGED <<switch, machine, cable, unsure, aborted>>
  BY DEF MigrateNew, SwitchInv, RowsTyped, RowsSound, Sound, SwitchCalls, Maintenance, WiringInv, Wired, Discipline
<1>2. ~call[c].changed /\ call[c].m = None
  BY <1>1 DEF Formed, Maintenance
<1>3. CASE refused
  BY <1>1, <1>2, <1>3, EndWiring DEF MigrateNew
<1>4. CASE ~refused
  <2>1. Step(c, k) /\ Read(c, {new})
    BY <1>4 DEF MigrateNew
  <2>2. /\ plan.conn = conn
        /\ \A p \in Ports : plan.vrf[p] = IF p \in call[c].nics THEN call[c].plan.vrf[p] ELSE switch[new].vrf[p]
    BY <1>1 DEF Merged, CallState, PlanState
  <2>3. /\ k.op = "migrate" /\ k.s = old /\ k.new = new /\ k.mode = call[c].mode /\ ~k.changed /\ k.pc = "adjust"
        /\ k.m = None /\ k.nics = switch[new].nics /\ k.plan = plan
    <3> HIDE DEF plan
    <3> QED BY <1>1, <1>2 DEF CallState
  <2> HIDE DEF k, plan
  <2>4. call'[c] = k /\ Reads(c)
    BY <1>1, <2>1, StepOf, ReadReads
  <2>5. /\ old # new /\ call[c].nics = switch[old].nics /\ conn = switch[old].conn
    BY <1>1 DEF Underway, Migrating
  <2>6. \A m \in Machines : conn[m] \subseteq call[c].nics /\ conn[m] \subseteq Ports
    BY <1>1, <2>5 DEF SwitchInv, RowsSound, RowSound, RowsTyped, SwitchRow
  <2>7. PlanRight(c)'
    <3>1. \A m \in Machines : \A p \in conn[m] : plan.vrf[p] = call[c].plan.vrf[p]
      BY <2>2, <2>6
    <3> QED BY <1>1, <2>2, <2>3, <2>4, <3>1 DEF Underway, PlanRight, Apart, Clean, Tagged, Untouched, Expected, Maintenance
  <2>8. Migrating(c)'
    <3>1. \A m \in Machines : switch[new].conn[m] = {}
      BY <1>4
    <3>2. call[c].nics \ switch[new].nics = {}
      BY <1>4 DEF CannotAdopt
    <3>3. \A p \in Ports \ switch[new].nics : plan.vrf[p] = "none"
      BY <1>1, <2>2, <3>2 DEF WiringInv, Wired, PortsClean
    <3> QED BY <1>1, <2>2, <2>3, <2>4, <2>5, <3>1, <3>3 DEF Migrating
  <2>9. Replacing(c)'
    BY <2>3, <2>4 DEF Replacing
  <2> QED BY <1>1, <1>2, <2>1, <2>3, <2>4, <2>7, <2>8, <2>9, MaintenanceGoesOn
<1> QED BY <1>3, <1>4

LEMMA FindTwinWiring ==
  ASSUME SwitchInv, WiringInv, NEW c \in Calls, FindTwin(c)
  PROVE  WiringInv'
<1> DEFINE s == call[c].s
<1>1. /\ call[c] \in CallState /\ Formed(call[c]) /\ Underway(c) /\ call[c].pc = "twin"
      /\ call[c].op \in {"migrate", "replace"} /\ UNCHANGED <<switch, machine, cable, unsure, aborted>>
  BY DEF FindTwin, SwitchInv, RowsTyped, RowsSound, Sound, WiringInv, Wired, Discipline
<1>2. ~call[c].changed /\ call[c].m = None /\ call[c].op = "replace" /\ s \in Switches
  BY <1>1 DEF Formed, Maintenance
<1>3. CASE End(c, None)
  BY <1>1, <1>2, <1>3, EndWiring
<1>4. CASE ~End(c, None)
  <2>1. PICK t \in Switches :
           /\ Twins(s) = {t} /\ ~CannotAdopt(switch[t], call[c].nics) /\ UNCHANGED seen
           /\ Step(c, [call[c] EXCEPT !.plan = Plan(switch[t]), !.pc = "adjust"])
    BY <1>4 DEF FindTwin
  <2> DEFINE plan == Plan(switch[t])
             k == [call[c] EXCEPT !.plan = plan, !.pc = "adjust"]
  <2>2. plan.vrf = switch[t].vrf /\ plan.conn = switch[t].conn
    BY DEF Plan
  <2>3. /\ k.op = "replace" /\ k.s = s /\ k.mode = call[c].mode /\ ~k.changed /\ k.pc = "adjust"
        /\ k.m = None /\ k.nics = call[c].nics /\ k.plan = plan
    <3> HIDE DEF plan
    <3> QED BY <1>1, <1>2 DEF CallState
  <2>4. Step(c, k)
    BY <2>1
  <2> HIDE DEF k
  <2>5. call'[c] = k /\ Reads(c)
    BY <2>1, <2>4, StepOf, ReadReads
  <2>6. PlanRight(c)'
    <3>1. \A d \in Calls : call[d].op \notin VRFCalls
      BY <1>2 DEF WiringInv, Discipline, MaintenanceAlone, Maintenance, VRFCalls
    <3>2. \A m \in Machines : ~Changing(m)
      BY <3>1 DEF Changing
    <3>3. \A m \in Machines : /\ Clean(switch[t].vrf, switch[t].conn[m], m)
                              /\ Untouched(m) => Tagged(switch[t].vrf, switch[t].conn[m], m)
      BY <3>2 DEF WiringInv, Wired, VRFsRight
    <3>4. Apart(switch[t].conn)
      BY DEF WiringInv, Wired, PortsApart
    <3> QED BY <1>1, <2>2, <2>3, <2>5, <3>3, <3>4 DEF PlanRight, Apart, Clean, Tagged, Untouched, Expected
  <2>7. Replacing(c)'
    <3>1. switch[s].mode = "replace"
      BY <1>1, <1>2 DEF Underway, Replacing
    <3>2. \A p \in Ports \ call[c].nics : plan.vrf[p] = "none"
      BY <2>1, <2>2 DEF CannotAdopt, WiringInv, Wired, PortsClean
    <3>3. (Twins(call[c].s) = {t} /\ call[c].plan = Plan(switch[t]))'
      BY <1>1, <2>1, <2>3, <2>5 DEF Twins, Plan
    <3> QED BY <1>1, <2>3, <2>5, <3>1, <3>2, <3>3 DEF Replacing
  <2>8. Migrating(c)'
    BY <2>3, <2>5 DEF Migrating
  <2> QED BY <1>1, <1>2, <2>3, <2>4, <2>5, <2>6, <2>7, <2>8, MaintenanceGoesOn
<1> QED BY <1>3, <1>4

\* The machines' neighbors are rewritten: the plan and the switches stay as they are.
LEMMA AdjustGoesOn ==
  ASSUME SwitchInv, WiringInv, NEW c \in Calls, NEW k, Step(c, k), call[c].op \in {"migrate", "replace"},
         call[c].pc \in {"adjust", "adjustWrite"},
         k.op = call[c].op, k.s = call[c].s, k.new = call[c].new, k.mode = call[c].mode, k.nics = call[c].nics,
         k.plan = call[c].plan, k.changed = call[c].changed,
         k.pc \in {"adjust", "adjustWrite"}, k.m = None <=> k.pc # "adjustWrite", Reads(c),
         UNCHANGED <<switch, machine, cable, unsure, aborted>>
  PROVE  WiringInv'
<1>1. Formed(call[c]) /\ Underway(c) /\ call[c] \in CallState
  BY DEF WiringInv, Wired, Discipline, SwitchInv, RowsTyped
<1>2. ~call[c].changed
  BY <1>1 DEF Formed, Maintenance, CallState
<1>3. call'[c] = k
  BY StepOf
<1>4. PlanRight(c)'
  BY <1>1, <1>3 DEF Underway, PlanRight, Apart, Clean, Tagged, Untouched, Expected
<1>5. Migrating(c)'
  BY <1>1, <1>3 DEF Underway, Migrating
<1>6. Replacing(c)'
  BY <1>1, <1>3 DEF Underway, Replacing, Twins, Plan
<1> QED BY <1>2, <1>4, <1>5, <1>6, MaintenanceGoesOn

LEMMA AdjustReadWiring ==
  ASSUME SwitchInv, WiringInv, NEW c \in Calls, AdjustRead(c)
  PROVE  WiringInv'
<1>1. /\ call[c] \in CallState /\ call[c].op \in {"migrate", "replace"} /\ call[c].todo \subseteq Machines
      /\ UNCHANGED <<switch, machine, cable, aborted>>
  BY DEF AdjustRead, SwitchInv, RowsTyped, RowsSound, Sound
<1>2. CASE Fail(c)
  BY <1>1, <1>2, FailWiring
<1>3. CASE ~Fail(c)
  <2>1. PICK m \in call[c].todo :
           /\ Read(c, {m}) /\ UNCHANGED unsure
           /\ Step(c, [call[c] EXCEPT !.pc = "adjustWrite", !.m = m])
    BY <1>3 DEF AdjustRead
  <2> DEFINE k == [call[c] EXCEPT !.pc = "adjustWrite", !.m = m]
  <2>2. /\ k.op = call[c].op /\ k.s = call[c].s /\ k.new = call[c].new /\ k.mode = call[c].mode
        /\ k.nics = call[c].nics /\ k.plan = call[c].plan /\ k.changed = call[c].changed
        /\ k.pc = "adjustWrite" /\ k.m = m
    BY <1>1 DEF CallState
  <2>3. Step(c, k) /\ Reads(c) /\ m # None
    BY <1>1, <2>1, ReadReads, ConstantsAssumption
  <2> HIDE DEF k
  <2> QED BY <1>1, <2>1, <2>2, <2>3, AdjustGoesOn DEF AdjustRead
<1> QED BY <1>2, <1>3

LEMMA AdjustWriteWiring ==
  ASSUME SwitchInv, WiringInv, NEW c \in Calls, AdjustWrite(c)
  PROVE  WiringInv'
<1> DEFINE m == call[c].m
           k == [call[c] EXCEPT !.pc = "adjust", !.m = None, !.todo = @ \ {m}]
<1>1. /\ call[c] \in CallState /\ call[c].op \in {"migrate", "replace"} /\ m \in Machines
      /\ UNCHANGED <<switch, machine, cable, aborted>>
  BY DEF AdjustWrite, SwitchInv, RowsTyped, RowsSound, Sound
<1>2. CASE Fail(c)
  BY <1>1, <1>2, FailWiring
<1>3. CASE ~Fail(c)
  <2>1. Step(c, k) /\ seen' = [seen EXCEPT ![m] = {}] /\ UNCHANGED unsure
    BY <1>3 DEF AdjustWrite
  <2>2. /\ k.op = call[c].op /\ k.s = call[c].s /\ k.new = call[c].new /\ k.mode = call[c].mode
        /\ k.nics = call[c].nics /\ k.plan = call[c].plan /\ k.changed = call[c].changed
        /\ k.pc = "adjust" /\ k.m = None
    BY <1>1 DEF CallState
  <2>3. Reads(c)
    BY <1>1, <2>1, OtherSeen
  <2> HIDE DEF k
  <2> QED BY <1>1, <2>1, <2>2, <2>3, AdjustGoesOn DEF AdjustWrite
<1> QED BY <1>2, <1>3

LEMMA DeleteStatusWiring ==
  ASSUME SwitchInv, WiringInv, NEW c \in Calls, DeleteStatus(c)
  PROVE  WiringInv'
<1>1. Formed(call[c]) /\ call[c].pc = "removeStatus" /\ call[c].op \in Operations
  BY DEF DeleteStatus, WiringInv, Discipline, SwitchInv, RowsTyped, CallState
<1>2. ~call[c].changed
  BY <1>1, IdleFormed DEF Formed, Operations, MachineCalls, SwitchCalls, Maintenance
<1> QED BY <1>2, EndWiring DEF DeleteStatus

LEMMA CallFailsWiring ==
  ASSUME SwitchInv, WiringInv, NEW c \in Calls, CallFails(c)
  PROVE  WiringInv'
  BY FailWiring DEF CallFails

\* Nothing changes but the stamp of a machine.
LEMMA SameWiring ==
  ASSUME WiringInv, UNCHANGED <<switch, machine, cable, call, unsure, aborted>>,
         \A s \in Switches : seen'[s] = seen[s]
  PROVE  WiringInv'
<1>1. Discipline'
  BY DEF WiringInv, Discipline, MaintenanceAlone, OneCallPerMachine, OneMarked, Marked, Marks
<1>2. Informed'
  BY DEF WiringInv, Informed, CablesApart, NoRowNoAllocation, KnowsMachine, KnowsPorts, Free, PortsOf
<1>3. PortsClean' /\ PortsApart'
  BY DEF WiringInv, Wired, PortsClean, PortsApart, Apart
<1>4. ASSUME NEW m \in Machines
      PROVE  (/\ \A s \in Switches : Clean(switch[s].vrf, switch[s].conn[m], m)
              /\ VRFsRight(m) /\ TwofoldHere(m) /\ InPlace(m))'
  <2>1. (\A s \in Switches : Clean(switch[s].vrf, switch[s].conn[m], m))'
    BY DEF WiringInv, Wired, Clean
  <2>2. VRFsRight(m)'
    BY DEF WiringInv, Wired, VRFsRight, Untouched, Changing, Tagged, Expected
  <2>3. TwofoldHere(m)'
    BY DEF WiringInv, Wired, TwofoldHere, Sure, Disturbs, Twofold, Conns
  <2>4. InPlace(m)'
    BY DEF WiringInv, Wired, InPlace, Sure, Fits, PortsOf, Connected
  <2> QED BY <2>1, <2>2, <2>3, <2>4
<1>5. ASSUME NEW d \in Calls PROVE Underway(d)'
  <2>1. VRFsWritten(d)' /\ Disconnected(d)'
    BY DEF WiringInv, Wired, Underway, VRFsWritten, Disconnected, Sure
  <2>2. Connecting(d)'
    BY DEF WiringInv, Wired, Underway, Connecting, Between, Connected, PortsOf, NicsOf, Fresh
  <2>3. PlanRight(d)'
    BY DEF WiringInv, Wired, Underway, PlanRight, Apart, Clean, Tagged, Untouched, Expected
  <2>4. Migrating(d)'
    BY DEF WiringInv, Wired, Underway, Migrating, Sure, Twofold, Virtual, Fits, PortsOf
  <2>5. Replacing(d)'
    <3>1. Replacing(d) /\ Twins(call[d].s)' = Twins(call[d].s)
      BY DEF WiringInv, Wired, Underway, Twins
    <3> QED BY <3>1 DEF Replacing, Plan
  <2> QED BY <2>1, <2>2, <2>3, <2>4, <2>5 DEF Underway
<1> QED BY <1>1, <1>2, <1>3, <1>4, <1>5 DEF WiringInv, Wired

LEMMA OtherWriteWiring ==
  ASSUME SwitchInv, WiringInv, NEW m \in Machines, OtherWrite(m)
  PROVE  WiringInv'
<1>1. \A s \in Switches : seen'[s] = seen[s]
  BY ConstantsAssumption DEF OtherWrite, SwitchInv, RowsTyped
<1> QED BY <1>1, SameWiring DEF OtherWrite

----------------------------------------------------------------------------
(* Steps that change the row of one machine.                               *)

\* Everything about another machine stays.
Elsewhere(n) ==
    /\ machine'[n] = machine[n]
    /\ n \in unsure'.vrf <=> n \in unsure.vrf
    /\ n \in unsure'.conn <=> n \in unsure.conn
    /\ n \in aborted' <=> n \in aborted
AllElsewhere(m) == \A n \in Machines \ {m} : Elsewhere(n)

\* The calls about the machine, at most one, are those of own.
About(own, m) ==
    /\ \A d \in Calls \ own : call'[d] = call[d] /\ call[d].m # m
    /\ \A d \in own : /\ call[d].m = m /\ call[d].op \in MachineCalls
                      /\ \/ call'[d].m = m /\ call'[d].op = call[d].op
                         \/ call'[d] = Idle

LEMMA ElsewhereWires ==
  ASSUME SwitchInv, WiringInv, NEW m \in Machines, NEW own \in SUBSET Calls, About(own, m),
         UNCHANGED <<switch, cable>>, NEW n \in Machines, n # m, Elsewhere(n)
  PROVE  (/\ \A s \in Switches : Clean(switch[s].vrf, switch[s].conn[n], n)
          /\ VRFsRight(n) /\ TwofoldHere(n) /\ InPlace(n))'
<1>1. /\ machine'[n] = machine[n] /\ Expected(n)' = Expected(n)
      /\ Sure(n)' <=> Sure(n)
      /\ Untouched(n)' <=> Untouched(n)
  BY DEF Elsewhere, Sure, Untouched, Expected
<1>2. \A s \in Switches : Clean(switch[s].vrf, switch[s].conn[n], n)'
  BY <1>1 DEF WiringInv, Wired, Clean
<1>3. VRFsRight(n)'
  <2>1. ~Changing(n)' => ~Changing(n)
    BY DEF About, Changing
  <2> QED BY <1>1, <2>1 DEF WiringInv, Wired, VRFsRight, Tagged
<1>4. TwofoldHere(n)'
  <2>1. ASSUME NEW d \in Calls, Disturbs(d, n) PROVE Disturbs(d, n)'
    <3>1. d \notin own
      BY <2>1 DEF Disturbs, About, MachineCalls, VRFCalls
    <3> QED BY <1>1, <2>1, <3>1 DEF Disturbs, About
  <2>2. Twofold(Conns(n), n) => Twofold(Conns(n), n)'
    BY <1>1 DEF Twofold, Conns
  <2> QED BY <1>1, <2>1, <2>2 DEF WiringInv, Wired, TwofoldHere
<1>5. InPlace(n)'
  BY <1>1 DEF WiringInv, Wired, InPlace, Fits, PortsOf, Connected
<1> QED BY <1>2, <1>3, <1>4, <1>5

\* What the other calls know and did stays; maintenance is left aside.
LEMMA ElsewhereCalls ==
  ASSUME SwitchInv, WiringInv, NEW m \in Machines, NEW own \in SUBSET Calls, About(own, m), AllElsewhere(m),
         UNCHANGED <<switch, cable>>, \A s \in Switches : seen'[s] \subseteq seen[s] \cup own,
         NEW d \in Calls \ own
  PROVE  /\ (KnowsMachine(d) /\ KnowsPorts(d))'
         /\ (VRFsWritten(d) /\ Disconnected(d) /\ Connecting(d) /\ Replacing(d))'
<1>1. call'[d] = call[d] /\ call[d].m # m /\ KnowsMachine(d) /\ KnowsPorts(d) /\ Underway(d)
  BY DEF About, WiringInv, Informed, Wired
<1>2. call[d].op \in MachineCalls => call[d].m \in Machines
  BY OwnMachine
<1>3. \A s \in Switches : Fresh(d, s)' => Fresh(d, s)
  BY DEF Fresh
<1>4. KnowsMachine(d)'
  BY <1>1, <1>2 DEF KnowsMachine, AllElsewhere, Elsewhere, MachineCalls, VRFCalls
<1>5. KnowsPorts(d)'
  BY <1>1 DEF KnowsPorts, Free, PortsOf
<1>6. VRFsWritten(d)'
  BY <1>1, <1>2 DEF Underway, VRFsWritten, Sure, AllElsewhere, Elsewhere, MachineCalls, VRFCalls
<1>7. Disconnected(d)'
  BY <1>1 DEF Underway, Disconnected
<1>8. Connecting(d)'
  BY <1>1, <1>3 DEF Underway, Connecting, Between, Connected, NicsOf, PortsOf
<1>9. Replacing(d)'
  BY <1>1 DEF Underway, Replacing, Twins, Plan
<1> QED BY <1>4, <1>5, <1>6, <1>7, <1>8, <1>9

\* A call about a machine changes its row, and is right about it.
LEMMA OwnRowWiring ==
  ASSUME SwitchInv, WiringInv, NEW c \in Calls, call[c].op \in MachineCalls, NEW m \in Machines, m = call[c].m,
         Others(c), call'[c] = Idle \/ (call'[c].m = m /\ call'[c].op = call[c].op), AllElsewhere(m), Reads(c),
         UNCHANGED <<switch, cable>>, Discipline',
         ~machine'[m].exists => machine'[m].alloc = "none" /\ ~machine'[m].rack,
         (\A s \in Switches : Clean(switch[s].vrf, switch[s].conn[m], m))',
         VRFsRight(m)', TwofoldHere(m)', InPlace(m)',
         (KnowsMachine(c) /\ KnowsPorts(c))', Underway(c)'
  PROVE  WiringInv'
<1>1. \A d \in Calls \ {c} : call[d].m # m /\ call[d].op \notin Maintenance
  BY Undisturbed
<1>2. About({c}, m)
  BY <1>1 DEF About, Others
<1>3. CablesApart' /\ NoRowNoAllocation'
  BY DEF WiringInv, Informed, CablesApart, NoRowNoAllocation, AllElsewhere, Elsewhere
<1>4. ASSUME NEW d \in Calls PROVE (KnowsMachine(d) /\ KnowsPorts(d))' /\ Underway(d)'
  <2>1. CASE d = c
    BY <2>1
  <2>2. CASE d # c
    <3>1. d \in Calls \ {c} /\ {c} \in SUBSET Calls /\ \A s \in Switches : seen'[s] \subseteq seen[s] \cup {c}
      BY <2>2 DEF Reads
    <3>2. /\ (KnowsMachine(d) /\ KnowsPorts(d))'
          /\ (VRFsWritten(d) /\ Disconnected(d) /\ Connecting(d) /\ Replacing(d))'
      BY <1>2, <3>1, ElsewhereCalls
    <3>3. call'[d].op \notin Maintenance
      BY <1>1, <2>2 DEF Others
    <3>4. PlanRight(d)' /\ Migrating(d)'
      BY <3>3 DEF PlanRight, Migrating, Maintenance
    <3> QED BY <3>2, <3>4 DEF Underway
  <2> QED BY <2>1, <2>2
<1>5. PortsClean' /\ PortsApart'
  BY DEF WiringInv, Wired, PortsClean, PortsApart, Apart
<1>6. ASSUME NEW n \in Machines
      PROVE  (/\ \A s \in Switches : Clean(switch[s].vrf, switch[s].conn[n], n)
              /\ VRFsRight(n) /\ TwofoldHere(n) /\ InPlace(n))'
  <2>1. CASE n = m
    BY <2>1
  <2>2. CASE n # m
    BY <1>2, <2>2, ElsewhereWires DEF AllElsewhere
  <2> QED BY <2>1, <2>2
<1> QED BY <1>3, <1>4, <1>5, <1>6 DEF WiringInv, Informed, Wired

\* The ends of the calls about machines are no concern of the switches' modes.
LEMMA EndsOwn ==
  ASSUME SwitchInv, WiringInv, NEW c \in Calls, NEW x, End(c, x), UNCHANGED switch, UnsureTyped'
  PROVE  Discipline' /\ call'[c] = Idle /\ Others(c) /\ Reads(c)
<1>1. Step(c, Idle)
  BY DEF End
<1>2. \A y \in Switches : seen'[y] \subseteq seen[y]
  BY EndSeen
<1> QED BY <1>1, <1>2, SameModes, Ends, StepOf DEF WiringInv, Reads

LEMMA AbortWiring ==
  ASSUME SwitchInv, WiringInv, NEW c \in Calls, call[c].op = "abort", NEW m \in Machines, m = call[c].m,
         machine' = [machine EXCEPT ![m].alloc = NewAlloc("abort", @)],
         aborted' = IF machine[m].alloc = "reinstall" THEN aborted \cup {m} ELSE aborted,
         End(c, m), UNCHANGED <<switch, cable, unsure>>
  PROVE  WiringInv'
<1>1. UnsureTyped'
  BY DEF WiringInv, Discipline, UnsureTyped
<1>2. Discipline' /\ call'[c] = Idle /\ Others(c) /\ Reads(c)
  BY <1>1, EndsOwn
<1>3. /\ machine'[m].alloc = NewAlloc("abort", machine[m].alloc)
      /\ machine'[m].rack = machine[m].rack /\ machine'[m].exists = machine[m].exists
  BY DEF SwitchInv, RowsTyped, MachineRow
<1>4. /\ machine'[m].alloc # "none" /\ machine[m].alloc # "none"
      /\ machine'[m].alloc = "installed" <=> machine[m].alloc \in {"installed", "reinstall"}
  BY <1>3 DEF NewAlloc, WiringInv, Informed, KnowsMachine
<1>5. AllElsewhere(m)
  BY DEF AllElsewhere, Elsewhere, SwitchInv, RowsTyped
<1>6. ~machine'[m].exists => machine'[m].alloc = "none" /\ ~machine'[m].rack
  BY <1>3, <1>4 DEF WiringInv, Informed, NoRowNoAllocation
<1>7. (\A s \in Switches : Clean(switch[s].vrf, switch[s].conn[m], m))'
  BY <1>3, <1>4 DEF WiringInv, Wired, Clean
<1>8. \A d \in Calls \ {c} : call[d].m # m /\ call[d].op \notin Maintenance
  BY Undisturbed DEF MachineCalls
<1>9. VRFsRight(m)'
  <2> SUFFICES ASSUME Untouched(m)' PROVE (\A s \in Switches : Tagged(switch[s].vrf, switch[s].conn[m], m))'
    BY DEF VRFsRight
  <2>1. Untouched(m) /\ machine[m].alloc # "reinstall"
    BY DEF Untouched
  <2>2. ~Changing(m)
    BY <1>8 DEF Changing, VRFCalls
  <2>3. Expected(m)' = Expected(m)
    BY <1>4, <2>1 DEF Expected
  <2> QED BY <2>1, <2>2, <2>3 DEF WiringInv, Wired, VRFsRight, Tagged
<1>10. TwofoldHere(m)'
  <2>1. \A d \in Calls : ~Disturbs(d, m)
    BY <1>8 DEF Disturbs, Maintenance
  <2> QED BY <1>3, <2>1 DEF WiringInv, Wired, TwofoldHere, Twofold, Conns, Sure
<1>11. InPlace(m)'
  BY <1>4 DEF WiringInv, Wired, InPlace, Sure, Fits, PortsOf, Connected
<1> QED BY <1>2, <1>5, <1>6, <1>7, <1>9, <1>10, <1>11, IdleCarefree, OwnRowWiring DEF MachineCalls

\* A report or a reinstallation changes the allocation first: from now on the VRFs follow.
LEMMA AllocationWiring ==
  ASSUME SwitchInv, WiringInv, NEW c \in Calls, call[c].op \in {"report", "reinstall"}, call[c].pc = "write",
         NEW m \in Machines, m = call[c].m,
         machine' = [machine EXCEPT ![m].alloc = NewAlloc(call[c].op, @)],
         aborted' = IF call[c].op = "report" THEN aborted \ {m} ELSE aborted,
         Wrote(c, m), Step(c, [call[c] EXCEPT !.pc = "search", !.changed = TRUE]),
         UNCHANGED <<switch, cable, unsure>>
  PROVE  WiringInv'
<1> DEFINE k == [call[c] EXCEPT !.pc = "search", !.changed = TRUE]
           op == call[c].op
<1>1. Formed(call[c]) /\ KnowsMachine(c) /\ call[c] \in CallState
  BY DEF WiringInv, Informed, Discipline, SwitchInv, RowsTyped
<1>2. /\ k.op = op /\ k.m = m /\ k.rack = call[c].rack /\ k.pc = "search" /\ k.changed
      /\ k.mode = call[c].mode
  BY <1>1 DEF CallState
<1> HIDE DEF k
<1>3. call'[c] = k /\ Others(c) /\ Step(c, k)
  BY StepOf DEF k
<1>4. Formed(k) /\ k.mode # "replace"
  BY <1>1, <1>2 DEF Formed, MachineCalls, VRFCalls, SwitchCalls, Maintenance
<1>5. UnsureTyped'
  BY DEF WiringInv, Discipline, UnsureTyped
<1>6. Discipline'
  BY <1>2, <1>3, <1>4, <1>5, SameModes, GoesOn DEF WiringInv
<1>7. Reads(c)
  BY OtherSeen
<1>8. /\ machine'[m].alloc = NewAlloc(op, machine[m].alloc)
      /\ machine'[m].rack = machine[m].rack /\ machine'[m].exists = machine[m].exists
  BY DEF SwitchInv, RowsTyped, MachineRow
<1>9. /\ machine'[m].alloc # "none" /\ machine[m].alloc # "none"
      /\ op = "report" => machine'[m].alloc = "installed"
      /\ op = "reinstall" => machine'[m].alloc \in {"reinstall", "renew"}
  BY <1>1, <1>8 DEF NewAlloc, KnowsMachine
<1>10. AllElsewhere(m)
  BY DEF AllElsewhere, Elsewhere, SwitchInv, RowsTyped
<1>11. ~machine'[m].exists => machine'[m].alloc = "none" /\ ~machine'[m].rack
  BY <1>8, <1>9 DEF WiringInv, Informed, NoRowNoAllocation
<1>12. (\A s \in Switches : Clean(switch[s].vrf, switch[s].conn[m], m))'
  BY <1>8, <1>9 DEF WiringInv, Wired, Clean
<1>13. VRFsRight(m)'
  <2>1. Changing(m)'
    BY <1>2, <1>3 DEF Changing, VRFCalls
  <2> QED BY <2>1 DEF VRFsRight
<1>14. TwofoldHere(m)'
  <2>1. \A d \in Calls : ~Disturbs(d, m)
    BY Undisturbed DEF Disturbs, Maintenance, MachineCalls, VRFCalls
  <2> QED BY <1>8, <2>1 DEF WiringInv, Wired, TwofoldHere, Twofold, Conns, Sure
<1>15. InPlace(m)'
  BY <1>9 DEF WiringInv, Wired, InPlace, Sure, Fits, PortsOf, Connected
<1>16. KnowsMachine(c)' /\ KnowsPorts(c)'
  BY <1>1, <1>2, <1>3, <1>8, <1>9 DEF KnowsMachine, KnowsPorts
<1>17. Underway(c)'
  BY <1>2, <1>3 DEF Underway, VRFsWritten, Disconnected, Connecting, PlanRight, Migrating, Replacing, Maintenance
<1> QED BY <1>2, <1>3, <1>6, <1>7, <1>10, <1>11, <1>12, <1>13, <1>14, <1>15, <1>16, <1>17, OwnRowWiring
       DEF MachineCalls, VRFCalls

LEMMA UpdateMachineWiring ==
  ASSUME SwitchInv, WiringInv, NEW c \in Calls, UpdateMachine(c)
  PROVE  WiringInv'
<1> DEFINE m == call[c].m
           op == call[c].op
<1>1. /\ call[c] \in CallState /\ m \in Machines /\ op \in MachineCalls /\ call[c].pc = "write" /\ Formed(call[c])
      /\ UNCHANGED <<switch, cable, unsure>>
  BY DEF UpdateMachine, SwitchInv, RowsTyped, RowsSound, Sound, WiringInv, Discipline
<1>2. op \in {"register", "abort", "report", "reinstall"} /\ ~call[c].changed
  BY <1>1 DEF Formed, MachineCalls, VRFCalls
<1>3. CASE ~Fresh(c, m)
  BY <1>1, <1>2, <1>3, EndWiring DEF UpdateMachine
<1>4. CASE Fresh(c, m) /\ op = "register"
  <2> DEFINE k == [call[c] EXCEPT !.pc = "container"]
  <2>1. /\ machine' = [machine EXCEPT ![m].alloc = NewAlloc("register", @)]
        /\ Wrote(c, m) /\ Step(c, k) /\ UNCHANGED <<switch, cable, unsure, aborted>>
    BY <1>4 DEF UpdateMachine, To
  <2>2. SameMachines /\ Reads(c)
    BY <1>1, <2>1, OtherSeen DEF SameMachines, NewAlloc, SwitchInv, RowsTyped, MachineRow
  <2>3. /\ k.op = "register" /\ k.m = m /\ k.plug = call[c].plug /\ k.rack = call[c].rack
        /\ k.changed = call[c].changed /\ k.mode = call[c].mode /\ k.pc = "container"
    BY <1>1, <1>4 DEF CallState
  <2> HIDE DEF k
  <2> QED BY <1>1, <1>2, <1>4, <2>1, <2>2, <2>3, MachineGoesOn
<1>5. CASE Fresh(c, m) /\ op = "abort"
  <2>1. /\ machine' = [machine EXCEPT ![m].alloc = NewAlloc("abort", @)]
        /\ aborted' = IF machine[m].alloc = "reinstall" THEN aborted \cup {m} ELSE aborted
        /\ End(c, m)
    BY <1>5 DEF UpdateMachine
  <2> QED BY <1>1, <1>5, <2>1, AbortWiring
<1>6. CASE Fresh(c, m) /\ op \in {"report", "reinstall"}
  <2>1. /\ machine' = [machine EXCEPT ![m].alloc = NewAlloc(op, @)]
        /\ aborted' = IF op = "report" THEN aborted \ {m} ELSE aborted
        /\ Wrote(c, m) /\ Step(c, [call[c] EXCEPT !.pc = "search", !.changed = TRUE])
    BY <1>6 DEF UpdateMachine
  <2> HIDE DEF m
  <2> QED BY <1>1, <1>6, <2>1, AllocationWiring DEF m
<1> QED BY <1>2, <1>3, <1>4, <1>5, <1>6

AtTwo(conn) == \E a, b \in Switches : /\ a # b /\ conn[a] # {} /\ conn[a] = conn[b]
                                     /\ \A s \in Switches \ {a, b} : conn[s] = {}

\* A machine that was registered is connected to the same ports of two switches, whatever it
\* was connected to before.
LEMMA ConnectedTwofold ==
  ASSUME SwitchInv, WiringInv, NEW c \in Calls, call[c].op = "register", call[c].pc = "each", call[c].todo = {},
         NEW m, m = call[c].m
  PROVE  AtTwo(Conns(m))
<1>1. Connecting(c)
  BY DEF WiringInv, Wired, Underway
<1>2. PICK a \in Switches, b \in Switches, ports \in SUBSET Ports : Between(c, a, b, ports)
  BY <1>1 DEF Connecting
<1>3. /\ a # b /\ ports # {} /\ switch[a].conn[call[c].m] = ports /\ switch[b].conn[call[c].m] = ports
      /\ \A s \in Switches \ {a, b} : switch[s].conn[call[c].m] = {}
  BY <1>2 DEF Between, Connected
<1>4. \A s \in Switches : Conns(m)[s] = switch[s].conn[m]
  BY DEF Conns
<1> QED BY <1>3, <1>4 DEF AtTwo

\* The last write of a call: what it settles is right.
LEMMA LastWrite ==
  ASSUME SwitchInv, WiringInv, NEW c \in Calls, call[c].pc = "each", call[c].todo = {}, NEW m \in Machines,
         m = call[c].m, call[c].op \in {"report", "reinstall", "free", "register", "delete"},
         machine' = [machine EXCEPT ![m] = LastRow(c)], Succeeds(c), call'[c] = Idle, Others(c),
         aborted' = IF call[c].op \in {"free", "reinstall"} THEN aborted \ {m} ELSE aborted,
         UNCHANGED <<switch, cable>>
  PROVE  /\ ~machine'[m].exists => machine'[m].alloc = "none" /\ ~machine'[m].rack
         /\ (\A s \in Switches : Clean(switch[s].vrf, switch[s].conn[m], m))'
         /\ VRFsRight(m)' /\ TwofoldHere(m)' /\ InPlace(m)'
<1> DEFINE op == call[c].op
<1>1. Formed(call[c]) /\ KnowsMachine(c) /\ Underway(c) /\ machine[m] \in MachineRow
  BY DEF WiringInv, Informed, Wired, Discipline, SwitchInv, RowsTyped
<1>2. machine'[m] = LastRow(c)
  BY DEF SwitchInv, RowsTyped
<1>3. /\ unsure'.vrf = IF op \in VRFCalls /\ m \notin unsure.conn THEN unsure.vrf \ {m} ELSE unsure.vrf
      /\ unsure'.conn = IF op = "delete" \/ (op = "register" /\ machine[m].alloc = "none")
                        THEN unsure.conn \ {m} ELSE unsure.conn
  BY DEF Succeeds
<1>4. \A d \in Calls \ {c} : call'[d] = call[d] /\ call[d].m # m /\ call[d].op \notin Maintenance
  BY Undisturbed DEF Others, MachineCalls, VRFCalls
<1>5. \A s \in Switches : \A p \in switch[s].conn[m] : p \in Ports /\ switch[s].vrf[p] \in {"none", "tenant"}
  BY DEF SwitchInv, RowsTyped, SwitchRow
<1>6. op \in VRFCalls /\ (op = "report" => Sure(m)) =>
         \A s \in Switches : \A p \in switch[s].conn[m] : switch[s].vrf[p] = Goal(op)
  BY <1>1 DEF Underway, VRFsWritten
<1>7. Sure(m) /\ op # "delete" /\ ~(op = "register" /\ machine[m].alloc = "none") => Twofold(Conns(m), m)
  <2>1. (\A d \in Calls \ {c} : ~Disturbs(d, m)) /\ call[c].op # "migrate"
    BY <1>4 DEF Disturbs, Maintenance, VRFCalls
  <2>2. op # "delete" /\ ~(op = "register" /\ machine[m].alloc = "none") => \A d \in Calls : ~Disturbs(d, m)
    BY <2>1 DEF Disturbs
  <2> QED BY <2>2 DEF WiringInv, Wired, TwofoldHere
<1>8. CASE op \in {"report", "reinstall"}
  <2>1. machine'[m] = machine[m] /\ (op = "report" => machine[m].alloc = "installed")
        /\ (op = "reinstall" => machine[m].alloc \in {"reinstall", "renew"}) /\ unsure'.conn = unsure.conn
    BY <1>1, <1>2, <1>3, <1>8 DEF LastRow, KnowsMachine, Formed, MachineCalls, VRFCalls
  <2>2. (\A s \in Switches : Clean(switch[s].vrf, switch[s].conn[m], m))'
    BY <2>1 DEF WiringInv, Wired, Clean
  <2>3. VRFsRight(m)'
    <3> SUFFICES ASSUME Untouched(m)' PROVE (\A s \in Switches : Tagged(switch[s].vrf, switch[s].conn[m], m))'
      BY DEF VRFsRight
    <3>1. Sure(m)
      BY <2>1 DEF Untouched, Sure
    <3> QED BY <1>6, <1>8, <2>1, <3>1 DEF Tagged, Expected, Goal, VRFCalls
  <2>4. TwofoldHere(m)'
    BY <1>7, <1>8, <2>1 DEF TwofoldHere, Twofold, Conns, Sure
  <2>5. InPlace(m)'
    BY <2>1 DEF WiringInv, Wired, InPlace, Sure, Fits, PortsOf, Connected
  <2>6. ~machine'[m].exists => machine'[m].alloc = "none" /\ ~machine'[m].rack
    BY <2>1 DEF WiringInv, Informed, NoRowNoAllocation
  <2> QED BY <2>2, <2>3, <2>4, <2>5, <2>6
<1>9. CASE op = "free"
  <2>1. machine'[m].alloc = "none" /\ machine'[m].rack = machine[m].rack /\ machine'[m].exists = machine[m].exists
        /\ unsure'.conn = unsure.conn
    BY <1>1, <1>2, <1>3, <1>9 DEF LastRow, MachineRow
  <2>2. \A s \in Switches : \A p \in switch[s].conn[m] : switch[s].vrf[p] = "none"
    BY <1>6, <1>9 DEF Goal, VRFCalls
  <2>3. (\A s \in Switches : Clean(switch[s].vrf, switch[s].conn[m], m))' /\ VRFsRight(m)'
    BY <2>1, <2>2 DEF Clean, VRFsRight, Tagged, Expected
  <2>4. TwofoldHere(m)'
    BY <1>7, <1>9, <2>1 DEF TwofoldHere, Twofold, Conns, Sure
  <2>5. InPlace(m)'
    BY <2>1 DEF InPlace
  <2>6. ~machine'[m].exists => machine'[m].alloc = "none" /\ ~machine'[m].rack
    BY <2>1 DEF WiringInv, Informed, NoRowNoAllocation
  <2> QED BY <2>3, <2>4, <2>5, <2>6
<1>10. CASE op = "register"
  <2>1. machine'[m].alloc = machine[m].alloc /\ machine'[m].rack /\ machine'[m].exists
        /\ unsure'.vrf = unsure.vrf /\ (machine[m].alloc # "none" => unsure'.conn = unsure.conn)
    BY <1>1, <1>2, <1>3, <1>10 DEF LastRow, MachineRow, KnowsMachine, VRFCalls
  <2>2. (\A s \in Switches : Clean(switch[s].vrf, switch[s].conn[m], m))'
    BY <2>1 DEF WiringInv, Wired, Clean
  <2>3. VRFsRight(m)'
    <3>1. CASE machine[m].alloc = "none"
      <4>1. \A s \in Switches : \A p \in switch[s].conn[m] : switch[s].vrf[p] = "none"
        BY <1>5, <3>1 DEF WiringInv, Wired, Clean
      <4> QED BY <2>1, <3>1, <4>1 DEF VRFsRight, Tagged, Expected
    <3>2. CASE machine[m].alloc # "none"
      <4>1. Untouched(m)' => Untouched(m)
        BY <1>10, <2>1, <3>2 DEF Untouched
      <4>2. ~Changing(m)
        BY <1>4, <1>10 DEF Changing, VRFCalls
      <4> QED BY <2>1, <4>1, <4>2 DEF WiringInv, Wired, VRFsRight, Tagged, Expected
    <3> QED BY <3>1, <3>2
  <2>4. TwofoldHere(m)'
    <3>1. AtTwo(Conns(m))
      BY <1>10, ConnectedTwofold
    <3>2. Conns(m)' = Conns(m)
      BY DEF Conns
    <3>3. Twofold(Conns(m), m)'
      BY <2>1, <3>1, <3>2 DEF Twofold, AtTwo
    <3> QED BY <3>3 DEF TwofoldHere
  <2>5. InPlace(m)'
    BY <2>1 DEF WiringInv, Wired, InPlace, Sure, Fits, PortsOf, Connected
  <2> QED BY <2>1, <2>2, <2>3, <2>4, <2>5
<1>11. CASE op = "delete"
  <2>1. machine'[m] = NoMachine
    BY <1>2, <1>11 DEF LastRow
  <2>2. \A s \in Switches : switch[s].conn[m] = {}
    BY <1>1, <1>11 DEF Underway, Disconnected
  <2>3. (\A s \in Switches : Clean(switch[s].vrf, switch[s].conn[m], m))' /\ VRFsRight(m)'
    BY <2>2 DEF Clean, VRFsRight, Tagged
  <2>4. TwofoldHere(m)' /\ InPlace(m)'
    BY <2>1, <2>2 DEF TwofoldHere, Twofold, Conns, InPlace, NoMachine
  <2> QED BY <2>1, <2>3, <2>4 DEF NoMachine
<1> QED BY <1>8, <1>9, <1>10, <1>11

LEMMA FinishWiring ==
  ASSUME SwitchInv, WiringInv, NEW c \in Calls, Finish(c)
  PROVE  WiringInv'
<1> DEFINE m == call[c].m
           op == call[c].op
<1>1. /\ call[c] \in CallState /\ m \in Machines /\ Formed(call[c]) /\ call[c].pc = "each" /\ call[c].todo = {}
      /\ UNCHANGED <<switch, cable>>
  BY DEF Finish, SwitchInv, RowsTyped, RowsSound, Sound, WiringInv, Discipline
<1>2. op \in {"report", "reinstall", "free", "register", "delete"} /\ op \in MachineCalls
  BY <1>1, IdleFormed DEF Formed, CallState, Operations, MachineCalls, VRFCalls, SwitchCalls, Maintenance, Idle
<1>3. CASE op \in {"report", "reinstall", "delete"} \/ Fresh(c, m)
  <2>1. /\ machine' = [machine EXCEPT ![m] = LastRow(c)] /\ Succeeds(c)
        /\ aborted' = IF op \in {"free", "reinstall"} THEN aborted \ {m} ELSE aborted
        /\ \E x \in {None, m} : End(c, x)
    BY <1>3 DEF Finish
  <2>2. UnsureTyped' /\ AllElsewhere(m)
    <3>1. /\ unsure'.vrf \in {unsure.vrf, unsure.vrf \ {m}} /\ unsure'.conn \in {unsure.conn, unsure.conn \ {m}}
          /\ unsure' = [vrf |-> unsure'.vrf, conn |-> unsure'.conn]
      BY <2>1 DEF Succeeds
    <3>2. UnsureTyped'
      BY <3>1 DEF UnsureTyped, WiringInv, Discipline
    <3>3. \A n \in Machines \ {m} : machine'[n] = machine[n] /\ (n \in aborted' <=> n \in aborted)
      BY <2>1 DEF SwitchInv, RowsTyped
    <3> QED BY <3>1, <3>2, <3>3 DEF AllElsewhere, Elsewhere
  <2>3. Discipline' /\ call'[c] = Idle /\ Others(c) /\ Reads(c)
    BY <1>1, <2>1, <2>2, EndsOwn
  <2>4. PICK n \in Machines : n = m
    BY <1>1
  <2>5. /\ ~machine'[n].exists => machine'[n].alloc = "none" /\ ~machine'[n].rack
        /\ (\A s \in Switches : Clean(switch[s].vrf, switch[s].conn[n], n))'
        /\ VRFsRight(n)' /\ TwofoldHere(n)' /\ InPlace(n)'
    BY <1>1, <1>2, <2>1, <2>3, <2>4, LastWrite
  <2> QED BY <1>1, <1>2, <2>2, <2>3, <2>4, <2>5, IdleCarefree, OwnRowWiring
<1>4. CASE ~(op \in {"report", "reinstall", "delete"} \/ Fresh(c, m))
  BY <1>1, <1>2, <1>4, RetryWiring, FailWiring DEF Finish
<1> QED BY <1>3, <1>4

----------------------------------------------------------------------------
(* Steps that write the row of a switch, but for maintenance.              *)

\* Only the switch changes, and only the ports of the machine, which may get those it is
\* plugged into; or ports nobody is connected to leave their VRF.
OnlyAt(s, m) ==
    /\ \A t \in Switches \ {s} : switch'[t] = switch[t]
    /\ \A n \in Machines \ {m} : switch'[s].conn[n] = switch[s].conn[n]
    /\ \A p \in Ports :
          \/ switch'[s].vrf[p] = switch[s].vrf[p]
          \/ m \in Machines /\ p \in switch[s].conn[m]
          \/ switch'[s].vrf[p] = "none" /\ \A n \in Machines : p \notin switch[s].conn[n]
    /\ m \in Machines => \A p \in switch'[s].conn[m] :
          p \in switch[s].conn[m] \/ (p \in PortsOf(cable[m], s) /\ Free(s, p, m))

LEMMA ConnectedPorts ==
  ASSUME SwitchInv, NEW s \in Switches, NEW n \in Machines
  PROVE  switch[s].conn[n] \subseteq Ports
  BY DEF SwitchInv, RowsTyped, SwitchRow

\* The ports of another machine keep their VRFs.
LEMMA OthersVRFs ==
  ASSUME SwitchInv, WiringInv, NEW s \in Switches, NEW m, OnlyAt(s, m), NEW n \in Machines, n # m, NEW t \in Switches
  PROVE  /\ switch'[t].conn[n] = switch[t].conn[n]
         /\ \A p \in switch[t].conn[n] : switch'[t].vrf[p] = switch[t].vrf[p]
<1>1. CASE t # s
  BY <1>1 DEF OnlyAt
<1>2. CASE t = s
  <2>1. m \in Machines => \A p \in switch[t].conn[n] : p \notin switch[t].conn[m]
    BY DEF WiringInv, Wired, PortsApart, Apart
  <2>2. switch[t].conn[n] \subseteq Ports
    BY ConnectedPorts
  <2> QED BY <1>2, <2>1, <2>2 DEF OnlyAt
<1> QED BY <1>1, <1>2

LEMMA WriteApart ==
  ASSUME SwitchInv, WiringInv, NEW s \in Switches, NEW m, OnlyAt(s, m)
  PROVE  PortsApart'
<1> SUFFICES ASSUME NEW t \in Switches, NEW n \in Machines, NEW k \in Machines, n # k, n # m,
                    NEW p, p \in switch'[t].conn[n], p \in switch'[t].conn[k]
             PROVE  FALSE
  BY DEF PortsApart, Apart
<1>1. p \in switch[t].conn[n]
  BY OthersVRFs
<1>2. p \in switch[t].conn[k] => FALSE
  BY <1>1 DEF WiringInv, Wired, PortsApart, Apart
<1>3. k = m /\ t = s
  BY <1>2, OthersVRFs DEF OnlyAt
<1>4. Free(s, p, m)
  BY <1>2, <1>3 DEF OnlyAt
<1> QED BY <1>1, <1>3, <1>4 DEF Free

LEMMA OthersWires ==
  ASSUME SwitchInv, WiringInv, NEW s \in Switches, NEW m, OnlyAt(s, m), NEW n \in Machines, n # m,
         UNCHANGED <<machine, cable, unsure, aborted>>, NEW c \in Calls, Others(c),
         call[c].m = m, call'[c].m = m, call[c].op # "migrate"
  PROVE  (/\ \A t \in Switches : Clean(switch[t].vrf, switch[t].conn[n], n)
          /\ VRFsRight(n) /\ TwofoldHere(n) /\ InPlace(n))'
<1>1. \A t \in Switches : /\ switch'[t].conn[n] = switch[t].conn[n]
                          /\ \A p \in switch[t].conn[n] : switch'[t].vrf[p] = switch[t].vrf[p]
  BY OthersVRFs
<1>2. /\ Expected(n)' = Expected(n)
      /\ Sure(n)' <=> Sure(n)
      /\ Untouched(n)' <=> Untouched(n)
      /\ machine' = machine
  BY DEF Sure, Untouched, Expected
<1>3. (\A t \in Switches : Clean(switch[t].vrf, switch[t].conn[n], n))'
  BY <1>1, <1>2 DEF WiringInv, Wired, Clean
<1>4. VRFsRight(n)'
  <2>1. ~Changing(n)' => ~Changing(n)
    BY DEF Others, Changing
  <2> QED BY <1>1, <1>2, <2>1 DEF WiringInv, Wired, VRFsRight, Tagged
<1>5. TwofoldHere(n)'
  <2>1. ASSUME NEW d \in Calls, Disturbs(d, n) PROVE Disturbs(d, n)'
    BY <1>2, <2>1 DEF Disturbs, Others
  <2>2. Conns(n)' = Conns(n)
    BY <1>1 DEF Conns
  <2>3. Twofold(Conns(n), n) => Twofold(Conns(n), n)'
    BY <1>2, <2>2 DEF Twofold
  <2> QED BY <1>2, <2>1, <2>3 DEF WiringInv, Wired, TwofoldHere
<1>6. InPlace(n)'
  BY <1>1, <1>2 DEF WiringInv, Wired, InPlace, Fits, PortsOf, Connected
<1> QED BY <1>3, <1>4, <1>5, <1>6

LEMMA OthersCalls ==
  ASSUME SwitchInv, WiringInv, NEW s \in Switches, NEW m, OnlyAt(s, m),
         UNCHANGED <<machine, cable, unsure, aborted>>, NEW c \in Calls, Others(c), call[c].m = m,
         \A t \in Switches : IF t = s THEN seen'[t] \subseteq {c} ELSE seen'[t] \subseteq seen[t],
         NEW d \in Calls, d # c, call[d].op \notin Maintenance
  PROVE  (KnowsMachine(d) /\ KnowsPorts(d))' /\ Underway(d)'
<1> DEFINE k == call[d].m
<1>1. call'[d] = call[d] /\ KnowsMachine(d) /\ KnowsPorts(d) /\ Underway(d)
  BY DEF Others, WiringInv, Informed, Wired
<1>2. call[d].op \in MachineCalls => k \in Machines /\ k # m
  BY OwnMachine, ConstantsAssumption DEF WiringInv, Discipline, OneCallPerMachine
<1>3. call[d].op \in MachineCalls =>
         \A t \in Switches : /\ switch'[t].conn[k] = switch[t].conn[k]
                             /\ \A p \in switch[t].conn[k] : switch'[t].vrf[p] = switch[t].vrf[p]
  BY <1>2, OthersVRFs
<1>4. KnowsMachine(d)'
  BY <1>1 DEF KnowsMachine
<1>5. KnowsPorts(d)'
  <2> SUFFICES ASSUME call[d].op = "register", NEW t \in Switches, NEW p \in PortsOf(call[d].plug, t)
               PROVE  Free(t, p, k)'
    BY <1>1 DEF KnowsPorts, PortsOf
  <2>1. Free(t, p, k) /\ call[d].plug = cable[k] /\ k \in Machines /\ k # m /\ p \in Ports
    BY <1>1, <1>2 DEF KnowsPorts, MachineCalls, PortsOf
  <2>2. switch'[t].vrf[p] = "none" \/ p \in switch'[t].conn[k]
    <3>1. m \in Machines => p \notin switch[t].conn[m]
      BY <2>1 DEF Free
    <3> QED BY <1>3, <2>1, <3>1 DEF OnlyAt, Free, MachineCalls
  <2>3. ASSUME NEW n \in Machines \ {k} PROVE p \notin switch'[t].conn[n]
    <3>1. CASE n # m \/ t # s
      BY <2>1, <3>1 DEF OnlyAt, Free
    <3>2. CASE n = m /\ t = s
      <4>1. p \notin switch[t].conn[m]
        BY <2>1, <3>2 DEF Free
      <4>2. p \notin PortsOf(cable[m], s)
        BY <2>1, <3>2 DEF PortsOf, WiringInv, Informed, CablesApart
      <4> QED BY <3>2, <4>1, <4>2 DEF OnlyAt
    <3> QED BY <3>1, <3>2
  <2> QED BY <1>1, <2>2, <2>3 DEF Free
<1>6. VRFsWritten(d)'
  BY <1>1, <1>3 DEF Underway, VRFsWritten, Sure, MachineCalls
<1>7. Disconnected(d)'
  BY <1>1, <1>3 DEF Underway, Disconnected, MachineCalls
<1>8. Connecting(d)'
  <2> SUFFICES ASSUME call[d].op = "register", call[d].pc = "each"
               PROVE  (\E a, b \in Switches, ports \in SUBSET Ports : Between(d, a, b, ports))'
    BY <1>1 DEF Connecting
  <2>1. PICK a \in Switches, b \in Switches, ports \in SUBSET Ports : Between(d, a, b, ports)
    BY <1>1 DEF Underway, Connecting
  <2>2. \A t \in Switches : switch'[t].conn[k] = switch[t].conn[k]
    BY <1>3 DEF MachineCalls
  <2>3. \A t \in Switches : Fresh(d, t)' => Fresh(d, t) /\ switch'[t] = switch[t]
    BY DEF Fresh, OnlyAt
  <2>4. Between(d, a, b, ports)'
    BY <1>1, <2>1, <2>2, <2>3 DEF Between, Connected, PortsOf, NicsOf
  <2> QED BY <2>4
<1>9. PlanRight(d)' /\ Migrating(d)' /\ Replacing(d)'
  BY <1>1 DEF PlanRight, Migrating, Replacing, Maintenance
<1> QED BY <1>4, <1>5, <1>6, <1>7, <1>8, <1>9 DEF Underway

\* A call writes a switch: it is right about its machine, and nothing changes for the others.
LEMMA WriteWiring ==
  ASSUME SwitchInv, WiringInv, NEW s \in Switches, NEW m, OnlyAt(s, m),
         UNCHANGED <<machine, cable, unsure, aborted>>, NEW c \in Calls, Others(c),
         call[c].m = m, call'[c].m = m,
         \A d \in Calls : call[d].op \notin Maintenance,
         \A t \in Switches : IF t = s THEN seen'[t] \subseteq {c} ELSE seen'[t] \subseteq seen[t],
         \A p \in Ports \ switch'[s].nics : switch'[s].vrf[p] = "none",
         m \in Machines => (/\ \A t \in Switches : Clean(switch[t].vrf, switch[t].conn[m], m)
                            /\ VRFsRight(m) /\ TwofoldHere(m) /\ InPlace(m))',
         Discipline', (KnowsMachine(c) /\ KnowsPorts(c))', Underway(c)'
  PROVE  WiringInv'
<1>1. Informed'
  <2>1. CablesApart' /\ NoRowNoAllocation'
    BY DEF WiringInv, Informed, CablesApart, NoRowNoAllocation
  <2>2. \A d \in Calls : (KnowsMachine(d) /\ KnowsPorts(d))'
    BY OthersCalls
  <2> QED BY <2>1, <2>2 DEF Informed
<1>2. PortsClean'
  BY DEF PortsClean, OnlyAt, WiringInv, Wired
<1>3. PortsApart'
  BY WriteApart
<1>4. \A d \in Calls : Underway(d)'
  BY OthersCalls
<1>5. ASSUME NEW n \in Machines
      PROVE  (/\ \A t \in Switches : Clean(switch[t].vrf, switch[t].conn[n], n)
              /\ VRFsRight(n) /\ TwofoldHere(n) /\ InPlace(n))'
  <2>1. CASE n = m
    BY <2>1
  <2>2. CASE n # m
    <3>1. call[c].op # "migrate"
      BY DEF Maintenance
    <3> QED BY <2>2, <3>1, OthersWires
  <2> QED BY <2>1, <2>2
<1> QED BY <1>1, <1>2, <1>3, <1>4, <1>5 DEF WiringInv, Wired

----------------------------------------------------------------------------
(* A call about a machine writes a switch.                                 *)

\* What the call goes on with.
Written(c, s) == [call[c] EXCEPT !.todo = Remaining(c, s), !.changed = TRUE]

LEMMA WrittenDiscipline ==
  ASSUME SwitchInv, WiringInv, NEW c \in Calls, call[c].op \in MachineCalls, call[c].pc = "each",
         NEW s \in call[c].todo, Step(c, Written(c, s)), UNCHANGED unsure,
         \A t \in Switches : switch'[t].mode = "replace" => Marked(t)
  PROVE  /\ Discipline' /\ Others(c)
         /\ call'[c].op = call[c].op /\ call'[c].m = call[c].m /\ call'[c].pc = "each" /\ call'[c].changed
         /\ call'[c].plug = call[c].plug /\ call'[c].rack = call[c].rack /\ call'[c].todo = call[c].todo \ {s}
<1> DEFINE k == Written(c, s)
<1>1. call[c] \in CallState /\ Formed(call[c])
  BY DEF SwitchInv, RowsTyped, WiringInv, Discipline
<1>2. /\ k.op = call[c].op /\ k.m = call[c].m /\ k.pc = "each" /\ k.changed /\ k.mode = call[c].mode
      /\ k.plug = call[c].plug /\ k.rack = call[c].rack /\ k.todo = call[c].todo \ {s}
  BY <1>1 DEF CallState, Written, Remaining
<1> HIDE DEF k
<1>3. Step(c, k)
  BY DEF k
<1>4. Formed(k) /\ k.mode # "replace"
  BY <1>1, <1>2 DEF Formed, MachineCalls, VRFCalls, SwitchCalls, Maintenance
<1>5. UnsureTyped'
  BY DEF WiringInv, Discipline, UnsureTyped
<1>6. Discipline'
  BY <1>2, <1>3, <1>4, <1>5, GoesOn DEF WiringInv
<1> QED BY <1>2, <1>3, <1>6, StepOf

\* The VRF of the ports of the machine is set.
LEMMA SetVRFWiring ==
  ASSUME SwitchInv, WiringInv, NEW c \in Calls, call[c].op \in VRFCalls, call[c].pc = "each",
         NEW s \in call[c].todo, s \in Switches, NEW m \in Machines, m = call[c].m,
         switch' = [switch EXCEPT ![s] = SetVRFOf(switch[s], m, Goal(call[c].op))],
         Wrote(c, s), Step(c, Written(c, s)), UNCHANGED <<machine, cable, unsure, aborted>>
  PROVE  WiringInv'
<1> DEFINE goal == Goal(call[c].op)
<1>1. \A t \in Switches \ {s} : switch'[t] = switch[t]
  BY DEF SwitchInv, RowsTyped
<1>2. /\ switch'[s].conn = switch[s].conn /\ switch'[s].nics = switch[s].nics /\ switch'[s].mode = switch[s].mode
      /\ \A p \in Ports : switch'[s].vrf[p] = IF p \in switch[s].conn[m] THEN goal ELSE switch[s].vrf[p]
  BY DEF SetVRFOf, SwitchInv, RowsTyped, SwitchRow
<1>3. \A n \in Machines : switch[s].conn[n] \subseteq Ports /\ switch[s].conn[n] \subseteq switch[s].nics
  BY ConnectedPorts DEF SwitchInv, RowsSound, RowSound
<1>4. /\ Discipline' /\ Others(c)
      /\ call'[c].op = call[c].op /\ call'[c].m = m /\ call'[c].pc = "each" /\ call'[c].changed
      /\ call'[c].plug = call[c].plug /\ call'[c].rack = call[c].rack /\ call'[c].todo = call[c].todo \ {s}
  <2>1. \A t \in Switches : switch'[t].mode = "replace" => Marked(t)
    BY <1>1, <1>2 DEF Marked
  <2> QED BY <2>1, WrittenDiscipline DEF MachineCalls
<1>5. OnlyAt(s, m)
  BY <1>1, <1>2 DEF OnlyAt
<1>6. Formed(call[c]) /\ KnowsMachine(c) /\ Underway(c)
  BY DEF WiringInv, Discipline, Informed, Wired
<1>7. goal = "tenant" => machine[m].rack /\ machine[m].alloc # "none"
  <2>1. call[c].rack
    BY <1>6 DEF Formed, MachineCalls
  <2>2. call[c].op = "report" => call[c].changed
    BY <1>6 DEF Formed, MachineCalls
  <2> QED BY <1>6, <2>1, <2>2 DEF KnowsMachine, Goal, VRFCalls
<1>8. (\A t \in Switches : Clean(switch[t].vrf, switch[t].conn[m], m))'
  <2>1. ASSUME NEW t \in Switches, NEW p \in switch[t].conn[m], switch'[t].vrf[p] = "tenant"
        PROVE  machine[m].rack /\ machine[m].alloc # "none"
    <3>1. CASE t = s
      BY <1>2, <1>3, <1>7, <2>1, <3>1
    <3>2. CASE t # s
      BY <1>1, <2>1, <3>2 DEF WiringInv, Wired, Clean
    <3> QED BY <3>1, <3>2
  <2> QED BY <1>1, <1>2, <2>1 DEF Clean
<1>9. VRFsRight(m)'
  BY <1>4 DEF VRFsRight, Changing
<1>10. TwofoldHere(m)' /\ InPlace(m)'
  <2>1. \A t \in Switches : switch'[t].conn = switch[t].conn
    BY <1>1, <1>2
  <2>2. \A d \in Calls : ~Disturbs(d, m)
    BY Undisturbed DEF Disturbs, MachineCalls, VRFCalls, Maintenance
  <2>3. Conns(m)' = Conns(m)
    BY <2>1 DEF Conns
  <2>4. TwofoldHere(m)'
    BY <2>2, <2>3 DEF WiringInv, Wired, TwofoldHere, Twofold, Sure
  <2>5. InPlace(m)'
    BY <2>1 DEF WiringInv, Wired, InPlace, Sure, Fits, PortsOf, Connected
  <2> QED BY <2>4, <2>5
<1>11. KnowsMachine(c)' /\ KnowsPorts(c)'
  <2>1. call[c].op # "register" /\ call[c].op # "delete" /\ call[c].op # "abort"
    BY DEF VRFCalls
  <2>2. call[c].op \in {"report", "reinstall"} => call[c].changed
    BY <1>6 DEF Formed, MachineCalls
  <2> QED BY <1>4, <1>6, <2>1, <2>2 DEF KnowsMachine, KnowsPorts
<1>12. Underway(c)'
  <2>1. VRFsWritten(c)'
    <3> SUFFICES ASSUME call[c].op = "report" => Sure(m), NEW t \in Switches \ (call[c].todo \ {s}),
                        NEW p \in switch[t].conn[m]
                 PROVE  switch'[t].vrf[p] = goal
      BY <1>1, <1>2, <1>4 DEF VRFsWritten, Sure
    <3>1. CASE t = s
      BY <1>2, <1>3, <3>1
    <3>2. CASE t # s
      BY <1>1, <1>6, <3>2 DEF Underway, VRFsWritten
    <3> QED BY <3>1, <3>2
  <2> QED BY <1>4, <2>1 DEF Underway, Disconnected, Connecting, PlanRight, Migrating, Replacing, VRFCalls, Maintenance
<1>13. \A t \in Switches : IF t = s THEN seen'[t] \subseteq {c} ELSE seen'[t] \subseteq seen[t]
  BY DEF Wrote, SwitchInv, RowsTyped
<1>14. \A p \in Ports \ switch'[s].nics : switch'[s].vrf[p] = "none"
  BY <1>2, <1>3 DEF WiringInv, Wired, PortsClean
<1>15. \A d \in Calls : call[d].op \notin Maintenance
  BY Undisturbed DEF MachineCalls, VRFCalls, Maintenance
<1> QED BY <1>4, <1>5, <1>8, <1>9, <1>10, <1>11, <1>12, <1>13, <1>14, <1>15, WriteWiring

\* An allocated machine registers with the ports it is connected to already.
LEMMA AllocatedStays ==
  ASSUME Hypotheses, SwitchInv, WiringInv, NEW c \in Calls, call[c].op = "register",
         NEW a \in Switches, NEW b \in Switches, NEW ports \in SUBSET Ports, Between(c, a, b, ports),
         NEW m \in Machines, m = call[c].m, Sure(m), machine[m].alloc # "none",
         NEW s \in {a, b}, NicsOf(call[c].plug, s) = ports
  PROVE  switch[s].conn[m] = ports
<1>1. call[c].plug = cable[m]
  BY DEF WiringInv, Informed, KnowsPorts
<1>2. /\ a # b /\ ports # {} /\ Connected(m) \subseteq {a, b} /\ ports \subseteq PortsOf(cable[m], s)
  BY <1>1 DEF Between
<1>3. Twofold(Conns(m), m)
  <2>1. \A d \in Calls : ~Disturbs(d, m)
    BY Undisturbed DEF Disturbs, MachineCalls, VRFCalls, Maintenance
  <2> QED BY <2>1 DEF WiringInv, Wired, TwofoldHere
<1>4. \E t \in Switches : switch[t].conn[m] # {}
  <2>1. cable[m] # {}
    BY <1>2 DEF PortsOf
  <2>2. Connected(m) # {}
    BY <2>1 DEF WiringInv, Wired, InPlace
  <2> QED BY <2>2 DEF Connected
<1>5. PICK x \in Switches, y \in Switches :
         /\ x # y /\ switch[x].conn[m] # {} /\ switch[x].conn[m] = switch[y].conn[m]
         /\ \A t \in Switches \ {x, y} : switch[t].conn[m] = {}
  BY <1>3, <1>4 DEF Twofold, Conns
<1>6. s \in {x, y}
  BY <1>2, <1>5 DEF Connected
<1>7. switch[s].conn[m] # {} /\ Fits(switch[s].conn[m], m)
  BY <1>5, <1>6 DEF WiringInv, Wired, InPlace
<1>8. PortsOf(cable[m], s) = switch[s].conn[m]
  BY <1>2, <1>7 DEF Fits
<1>9. switch[s].conn[m] \subseteq switch[s].nics
  BY DEF SwitchInv, RowsSound, RowSound
<1>10. ports = {p \in switch[s].nics : p \in PortsOf(cable[m], s)}
  BY <1>1 DEF NicsOf, PortsOf, SwitchInv, RowsTyped, SwitchRow
<1> QED BY <1>8, <1>9, <1>10

\* The connection to one of the two switches is written.
LEMMA ConnectWiring ==
  ASSUME Hypotheses, SwitchInv, WiringInv, NEW c \in Calls, call[c].op = "register", call[c].pc = "each",
         NEW s \in call[c].todo, s \in Switches, Fresh(c, s), NEW m \in Machines, m = call[c].m,
         switch' = [switch EXCEPT ![s].conn[m] = NicsOf(call[c].plug, s)],
         Wrote(c, s), Step(c, Written(c, s)), UNCHANGED <<machine, cable, unsure, aborted>>
  PROVE  WiringInv'
<1>a. Formed(call[c]) /\ KnowsMachine(c) /\ KnowsPorts(c) /\ Underway(c)
  BY DEF WiringInv, Discipline, Informed, Wired
<1>b. PICK a \in Switches, b \in Switches, ports \in SUBSET Ports : Between(c, a, b, ports)
  BY <1>a DEF Underway, Connecting
<1>c. NicsOf(call[c].plug, s) = ports /\ s \in {a, b} /\ ports \subseteq switch[s].nics
      /\ ports \subseteq PortsOf(call[c].plug, s)
  BY <1>b DEF Between, NicsOf
<1>1. \A t \in Switches \ {s} : switch'[t] = switch[t]
  BY DEF SwitchInv, RowsTyped
<1>2. /\ switch'[s].vrf = switch[s].vrf /\ switch'[s].nics = switch[s].nics /\ switch'[s].mode = switch[s].mode
      /\ switch'[s].conn[m] = ports /\ \A n \in Machines \ {m} : switch'[s].conn[n] = switch[s].conn[n]
  BY <1>c DEF SwitchInv, RowsTyped, SwitchRow
<1>3. call[c].plug = cable[m] /\ \A p \in ports : Free(s, p, m)
  BY <1>a, <1>c DEF KnowsPorts
<1>4. /\ Discipline' /\ Others(c)
      /\ call'[c].op = "register" /\ call'[c].m = m /\ call'[c].pc = "each" /\ call'[c].changed
      /\ call'[c].plug = call[c].plug /\ call'[c].rack = call[c].rack /\ call'[c].todo = call[c].todo \ {s}
  <2>1. \A t \in Switches : switch'[t].mode = "replace" => Marked(t)
    BY <1>1, <1>2 DEF Marked
  <2> QED BY <2>1, WrittenDiscipline DEF MachineCalls
<1>5. OnlyAt(s, m)
  BY <1>1, <1>2, <1>3, <1>c DEF OnlyAt
<1>6. Sure(m) /\ machine[m].alloc # "none" => switch[s].conn[m] = ports
  BY <1>b, <1>c, AllocatedStays
<1>7. \A d \in Calls \ {c} : call'[d] = call[d] /\ call[d].m # m /\ call[d].op \notin Maintenance
  BY <1>4, Undisturbed DEF MachineCalls, Others
<1>8. (\A t \in Switches : Clean(switch[t].vrf, switch[t].conn[m], m))'
  <2>1. ASSUME NEW p \in ports, switch[s].vrf[p] = "tenant" PROVE p \in switch[s].conn[m]
    BY <1>3, <2>1 DEF Free
  <2> QED BY <1>1, <1>2, <2>1 DEF Clean, WiringInv, Wired
<1>9. VRFsRight(m)'
  <2> SUFFICES ASSUME Untouched(m), NEW t \in Switches, NEW p \in switch'[t].conn[m]
               PROVE  switch'[t].vrf[p] = Expected(m)
    BY DEF VRFsRight, Tagged, Untouched, Expected
  <2>1. ~Changing(m)
    BY <1>7 DEF Changing, VRFCalls
  <2>2. p \in switch[t].conn[m] => switch[t].vrf[p] = Expected(m)
    BY <2>1 DEF WiringInv, Wired, VRFsRight, Tagged
  <2>3. CASE t # s
    BY <1>1, <2>2, <2>3
  <2>4. CASE t = s /\ machine[m].alloc # "none"
    BY <1>2, <1>6, <2>2, <2>4 DEF Untouched, Sure
  <2>5. CASE t = s /\ machine[m].alloc = "none"
    BY <1>2, <1>3, <2>2, <2>5 DEF Free, Expected
  <2> QED BY <2>3, <2>4, <2>5
<1>10. TwofoldHere(m)' /\ InPlace(m)'
  <2>1. CASE machine[m].alloc = "none"
    BY <1>4, <2>1 DEF TwofoldHere, Disturbs, InPlace
  <2>2. CASE machine[m].alloc # "none" /\ ~Sure(m)
    BY <2>2 DEF TwofoldHere, InPlace, Sure
  <2>3. CASE machine[m].alloc # "none" /\ Sure(m)
    <3>1. \A t \in Switches : switch'[t].conn[m] = switch[t].conn[m]
      BY <1>1, <1>2, <1>6, <2>3
    <3>2. \A d \in Calls : ~Disturbs(d, m)
      BY <1>7, <2>3 DEF Disturbs, Maintenance
    <3>3. Conns(m)' = Conns(m) /\ Connected(m)' = Connected(m)
      BY <3>1 DEF Conns, Connected
    <3> QED BY <3>1, <3>2, <3>3 DEF WiringInv, Wired, TwofoldHere, Twofold, InPlace, Fits, PortsOf, Sure
  <2> QED BY <2>1, <2>2, <2>3
<1>11. KnowsMachine(c)'
  BY <1>4, <1>a DEF KnowsMachine, VRFCalls
<1>12. KnowsPorts(c)'
  <2> SUFFICES ASSUME NEW t \in Switches, NEW p \in PortsOf(cable[m], t) PROVE Free(t, p, m)'
    BY <1>3, <1>4 DEF KnowsPorts, PortsOf
  <2>1. Free(t, p, m) /\ p \in Ports
    BY <1>3, <1>a DEF KnowsPorts, PortsOf
  <2>2. CASE t # s
    BY <1>1, <2>1, <2>2 DEF Free
  <2>3. CASE t = s
    <3>1. p \notin switch[s].nics => switch[s].vrf[p] = "none"
      BY <2>1 DEF WiringInv, Wired, PortsClean
    <3>2. p \in switch[s].nics => p \in ports
      BY <1>3, <1>c, <2>3 DEF NicsOf, PortsOf
    <3> QED BY <1>2, <2>1, <2>3, <3>1, <3>2 DEF Free
  <2> QED BY <2>2, <2>3
<1>13. Underway(c)'
  <2>1. Between(c, a, b, ports)'
    <3>1. \A t \in Switches : NicsOf(call[c].plug, t)' = NicsOf(call[c].plug, t)
                              /\ PortsOf(call[c].plug, t)' = PortsOf(call[c].plug, t)
      BY <1>1, <1>2, <1>4 DEF NicsOf, PortsOf
    <3>2. \A t \in Switches : t # s => (Fresh(c, t)' => Fresh(c, t))
      BY DEF Fresh, Wrote, SwitchInv, RowsTyped
    <3>3. Connected(call[c].m)' \subseteq {a, b}
      BY <1>1, <1>4, <1>b, <1>c DEF Connected, Between
    <3> QED BY <1>1, <1>2, <1>4, <1>b, <1>c, <3>1, <3>2, <3>3 DEF Between
  <2>2. Connecting(c)'
    BY <2>1 DEF Connecting
  <2> QED BY <1>4, <2>2 DEF Underway, VRFsWritten, Disconnected, PlanRight, Migrating, Replacing, VRFCalls, Maintenance
<1>14. \A t \in Switches : IF t = s THEN seen'[t] \subseteq {c} ELSE seen'[t] \subseteq seen[t]
  BY DEF Wrote, SwitchInv, RowsTyped
<1>15. \A p \in Ports \ switch'[s].nics : switch'[s].vrf[p] = "none"
  BY <1>2 DEF WiringInv, Wired, PortsClean
<1>16. \A d \in Calls : call[d].op \notin Maintenance
  BY <1>7 DEF Maintenance
<1> QED BY <1>4, <1>5, <1>8, <1>9, <1>10, <1>11, <1>12, <1>13, <1>14, <1>15, <1>16, WriteWiring

\* The connection to a switch is removed.
LEMMA DisconnectWiring ==
  ASSUME SwitchInv, WiringInv, NEW c \in Calls, call[c].op = "delete", call[c].pc = "each",
         NEW s \in call[c].todo, s \in Switches, NEW m \in Machines, m = call[c].m,
         switch' = [switch EXCEPT ![s].conn[m] = {}],
         Wrote(c, s), Step(c, Written(c, s)), UNCHANGED <<machine, cable, unsure, aborted>>
  PROVE  WiringInv'
<1>1. \A t \in Switches \ {s} : switch'[t] = switch[t]
  BY DEF SwitchInv, RowsTyped
<1>2. /\ switch'[s].vrf = switch[s].vrf /\ switch'[s].nics = switch[s].nics /\ switch'[s].mode = switch[s].mode
      /\ switch'[s].conn[m] = {} /\ \A n \in Machines \ {m} : switch'[s].conn[n] = switch[s].conn[n]
  BY DEF SwitchInv, RowsTyped, SwitchRow
<1>3. KnowsMachine(c) /\ Underway(c)
  BY DEF WiringInv, Informed, Wired
<1>4. /\ Discipline' /\ Others(c)
      /\ call'[c].op = "delete" /\ call'[c].m = m /\ call'[c].pc = "each" /\ call'[c].changed
      /\ call'[c].todo = call[c].todo \ {s}
  <2>1. \A t \in Switches : switch'[t].mode = "replace" => Marked(t)
    BY <1>1, <1>2 DEF Marked
  <2> QED BY <2>1, WrittenDiscipline DEF MachineCalls
<1>5. OnlyAt(s, m)
  BY <1>1, <1>2 DEF OnlyAt
<1>6. \A t \in Switches : /\ switch'[t].conn[m] \subseteq switch[t].conn[m]
                          /\ switch'[t].vrf = switch[t].vrf
  BY <1>1, <1>2
<1>7. (\A t \in Switches : Clean(switch[t].vrf, switch[t].conn[m], m))'
  BY <1>6 DEF WiringInv, Wired, Clean
<1>8. VRFsRight(m)'
  <2>1. ~Changing(m)
    BY Undisturbed DEF Changing, MachineCalls, VRFCalls
  <2> QED BY <1>6, <2>1 DEF WiringInv, Wired, VRFsRight, Tagged, Untouched, Expected
<1>9. TwofoldHere(m)' /\ InPlace(m)'
  BY <1>3, <1>4 DEF TwofoldHere, Disturbs, InPlace, KnowsMachine
<1>10. KnowsMachine(c)' /\ KnowsPorts(c)'
  BY <1>3, <1>4 DEF KnowsMachine, KnowsPorts, VRFCalls
<1>11. Underway(c)'
  <2>1. Disconnected(c)'
    BY <1>1, <1>2, <1>3, <1>4 DEF Underway, Disconnected
  <2> QED BY <1>4, <2>1 DEF Underway, VRFsWritten, Connecting, PlanRight, Migrating, Replacing, VRFCalls, Maintenance
<1>12. \A t \in Switches : IF t = s THEN seen'[t] \subseteq {c} ELSE seen'[t] \subseteq seen[t]
  BY DEF Wrote, SwitchInv, RowsTyped
<1>13. \A p \in Ports \ switch'[s].nics : switch'[s].vrf[p] = "none"
  BY <1>2 DEF WiringInv, Wired, PortsClean
<1>14. \A d \in Calls : call[d].op \notin Maintenance
  BY Undisturbed DEF MachineCalls, VRFCalls, Maintenance
<1> QED BY <1>4, <1>5, <1>7, <1>8, <1>9, <1>10, <1>11, <1>12, <1>13, <1>14, WriteWiring

LEMMA UpdateConnectedWiring ==
  ASSUME Hypotheses, SwitchInv, WiringInv, NEW c \in Calls, UpdateConnected(c)
  PROVE  WiringInv'
<1> DEFINE m == call[c].m
           op == call[c].op
<1>1. /\ call[c] \in CallState /\ m \in Machines /\ Formed(call[c]) /\ call[c].pc = "each"
      /\ call[c].todo \subseteq Switches /\ UNCHANGED <<machine, cable, aborted>>
  BY DEF UpdateConnected, SwitchInv, RowsTyped, RowsSound, Sound, WiringInv, Discipline
<1>2. op \in {"report", "reinstall", "free", "register", "delete"} /\ op \in MachineCalls
  BY <1>1, IdleFormed DEF Formed, CallState, Operations, MachineCalls, VRFCalls, SwitchCalls, Maintenance, Idle
<1>3. PICK s \in call[c].todo :
          IF Fresh(c, s)
          THEN /\ switch' = [switch EXCEPT ![s] = NewRow(c, s)]
               /\ Wrote(c, s) /\ Step(c, Written(c, s)) /\ UNCHANGED unsure
          ELSE (Retry(c) \/ Fail(c)) /\ UNCHANGED switch
  BY DEF UpdateConnected, Written
<1>4. CASE ~Fresh(c, s)
  BY <1>1, <1>2, <1>3, <1>4, RetryWiring, FailWiring
<1>5. CASE Fresh(c, s) /\ op \in VRFCalls
  <2>1. NewRow(c, s) = SetVRFOf(switch[s], m, Goal(op))
    BY <1>5 DEF NewRow, Goal, VRFCalls
  <2> QED BY <1>1, <1>3, <1>5, <2>1, SetVRFWiring
<1>6. CASE Fresh(c, s) /\ op = "register"
  <2>1. switch' = [switch EXCEPT ![s].conn[m] = NicsOf(call[c].plug, s)]
    BY <1>3, <1>6 DEF NewRow
  <2> QED BY <1>1, <1>3, <1>6, <2>1, ConnectWiring
<1>7. CASE Fresh(c, s) /\ op = "delete"
  <2>1. switch' = [switch EXCEPT ![s].conn[m] = {}]
    BY <1>3, <1>7 DEF NewRow
  <2> QED BY <1>1, <1>3, <1>7, <2>1, DisconnectWiring
<1> QED BY <1>2, <1>4, <1>5, <1>6, <1>7 DEF VRFCalls

----------------------------------------------------------------------------
(* A switch registers, is updated or reports.                              *)

\* It ends with its write: the connections and the VRFs of connected ports are kept.
LEMMA SwitchWriteWiring ==
  ASSUME SwitchInv, WiringInv, NEW c \in Calls, call[c].op \in SwitchCalls \ Maintenance, NEW s \in Switches,
         End(c, s), UNCHANGED <<machine, cable, unsure, aborted>>,
         \A t \in Switches \ {s} : switch'[t] = switch[t],
         \A n \in Machines : switch'[s].conn[n] = switch[s].conn[n],
         \A p \in Ports : \/ switch'[s].vrf[p] = switch[s].vrf[p]
                          \/ switch'[s].vrf[p] = "none" /\ \A n \in Machines : p \notin switch[s].conn[n],
         \A p \in Ports \ switch'[s].nics : switch'[s].vrf[p] = "none",
         switch'[s].mode = "replace" => Marked(s)
  PROVE  WiringInv'
<1>1. call[c].m = None /\ call[c].op # "none" /\ call[c].op \notin Maintenance
  BY DEF WiringInv, Discipline, Formed, SwitchCalls, Maintenance
<1>2. None \notin Machines
  BY ConstantsAssumption
<1>3. \A t \in Switches : switch'[t].mode = "replace" => Marked(t)
  BY DEF Marked
<1>4. UnsureTyped' /\ Step(c, Idle)
  BY DEF End, WiringInv, Discipline, UnsureTyped
<1>5. Discipline' /\ call'[c] = Idle /\ Others(c)
  BY <1>3, <1>4, Ends, StepOf DEF WiringInv
<1>6. call'[c].m = None
  BY <1>5, IdleFormed
<1>7. (KnowsMachine(c) /\ KnowsPorts(c))' /\ Underway(c)'
  BY <1>5, IdleCarefree
<1>8. OnlyAt(s, None)
  BY <1>2 DEF OnlyAt
<1>9. \A d \in Calls : call[d].op \notin Maintenance
  BY <1>1 DEF WiringInv, Discipline, MaintenanceAlone
<1>10. \A t \in Switches : IF t = s THEN seen'[t] \subseteq {c} ELSE seen'[t] \subseteq seen[t]
  BY EndSeen
<1> QED BY <1>1, <1>2, <1>5, <1>6, <1>7, <1>8, <1>9, <1>10, WriteWiring

LEMMA CreateSwitchWiring ==
  ASSUME SwitchInv, WiringInv, NEW c \in Calls, CreateSwitch(c)
  PROVE  WiringInv'
<1> DEFINE s == call[c].s
<1>1. /\ call[c].op = "registerSwitch" /\ s \in Switches /\ ~call[c].changed /\ call[c].nics \in SUBSET Ports
      /\ UNCHANGED <<machine, cable, unsure, aborted>>
  BY DEF CreateSwitch, SwitchInv, RowsTyped, CallState, RowsSound, Sound, SwitchCalls, Maintenance, WiringInv, Discipline,
     Formed
<1>2. CASE Exists(s)
  BY <1>1, <1>2, EndWiring DEF CreateSwitch
<1>3. CASE ~Exists(s)
  <2>1. switch' = [switch EXCEPT ![s] = NewSwitch(call[c].nics)] /\ End(c, s)
    BY <1>3 DEF CreateSwitch
  <2>2. switch'[s] = NewSwitch(call[c].nics) /\ \A t \in Switches \ {s} : switch'[t] = switch[t]
    BY <1>1, <2>1 DEF SwitchInv, RowsTyped
  <2>3. /\ NewSwitch(call[c].nics).mode = "operational" /\ \A n \in Machines : NewSwitch(call[c].nics).conn[n] = {}
        /\ \A p \in Ports : NewSwitch(call[c].nics).vrf[p] = "none"
    BY <1>1, NewSwitchSound DEF NewSwitch, NoSwitch
  <2>4. \A n \in Machines : switch[s].conn[n] = {}
    BY <1>1, <1>3 DEF SwitchInv, RowsSound, RowSound, Exists
  <2>5. /\ \A n \in Machines : switch'[s].conn[n] = switch[s].conn[n]
        /\ \A p \in Ports : \/ switch'[s].vrf[p] = switch[s].vrf[p]
                            \/ switch'[s].vrf[p] = "none" /\ \A n \in Machines : p \notin switch[s].conn[n]
        /\ \A p \in Ports \ switch'[s].nics : switch'[s].vrf[p] = "none"
        /\ switch'[s].mode = "replace" => Marked(s)
    BY <2>2, <2>3, <2>4
  <2> QED BY <1>1, <2>1, <2>2, <2>5, SwitchWriteWiring DEF SwitchCalls, Maintenance
<1> QED BY <1>2, <1>3

LEMMA WriteSwitchWiring ==
  ASSUME SwitchInv, WiringInv, NEW c \in Calls, WriteSwitch(c)
  PROVE  WiringInv'
<1> DEFINE s == call[c].s
           nics == call[c].nics
<1>1. /\ call[c] \in CallState /\ Compared(call[c], c, switch, seen) /\ call[c].op \in SwitchCalls \ Maintenance
      /\ s \in Switches /\ ~call[c].changed /\ call[c].pc = "write"
      /\ UNCHANGED <<machine, cable, unsure, aborted>>
  BY DEF WriteSwitch, SwitchInv, RowsTyped, RowsSound, Sound, WiringInv, Discipline, Formed
<1>2. CASE ~Fresh(c, s)
  BY <1>1, <1>2, EndWiring DEF WriteSwitch
<1>3. CASE Fresh(c, s) /\ call[c].op = "registerSwitch"
  <2>1. switch' = [switch EXCEPT ![s] = UpdatedNics(switch[s], nics)] /\ End(c, s)
    BY <1>3 DEF WriteSwitch
  <2>2. switch'[s] = UpdatedNics(switch[s], nics) /\ \A t \in Switches \ {s} : switch'[t] = switch[t]
    BY <1>1, <2>1 DEF SwitchInv, RowsTyped
  <2>3. /\ switch'[s].mode = switch[s].mode /\ switch'[s].conn = switch[s].conn /\ switch'[s].nics = nics
        /\ \A p \in Ports : switch'[s].vrf[p] = IF p \in nics THEN switch[s].vrf[p] ELSE "none"
    BY <1>1, <2>2 DEF UpdatedNics, KeptConnections, SwitchInv, RowsTyped, SwitchRow
  <2>4. \A n \in Machines : switch[s].conn[n] \subseteq nics
    BY <1>1, <1>3 DEF Compared, Fresh, RefusedNics
  <2>5. /\ \A n \in Machines : switch'[s].conn[n] = switch[s].conn[n]
        /\ \A p \in Ports : \/ switch'[s].vrf[p] = switch[s].vrf[p]
                            \/ switch'[s].vrf[p] = "none" /\ \A n \in Machines : p \notin switch[s].conn[n]
        /\ \A p \in Ports \ switch'[s].nics : switch'[s].vrf[p] = "none"
        /\ switch'[s].mode = "replace" => Marked(s)
    BY <2>3, <2>4 DEF Marked
  <2> QED BY <1>1, <2>1, <2>2, <2>5, SwitchWriteWiring
<1>4. CASE Fresh(c, s) /\ call[c].op # "registerSwitch"
  <2>1. switch' = [switch EXCEPT ![s] = [switch[s] EXCEPT !.mode = call[c].mode]] /\ End(c, s)
    BY <1>4 DEF WriteSwitch
  <2>2. switch'[s] = [switch[s] EXCEPT !.mode = call[c].mode] /\ \A t \in Switches \ {s} : switch'[t] = switch[t]
    BY <1>1, <2>1 DEF SwitchInv, RowsTyped
  <2>3. /\ switch'[s].mode = call[c].mode /\ switch'[s].conn = switch[s].conn /\ switch'[s].nics = switch[s].nics
        /\ switch'[s].vrf = switch[s].vrf
    BY <1>1, <2>2 DEF SwitchInv, RowsTyped, SwitchRow
  <2>4. /\ \A n \in Machines : switch'[s].conn[n] = switch[s].conn[n]
        /\ \A p \in Ports : \/ switch'[s].vrf[p] = switch[s].vrf[p]
                            \/ switch'[s].vrf[p] = "none" /\ \A n \in Machines : p \notin switch[s].conn[n]
        /\ \A p \in Ports \ switch'[s].nics : switch'[s].vrf[p] = "none"
        /\ switch'[s].mode = "replace" => Marked(s)
    BY <1>1, <2>3 DEF Marked, Marks, WiringInv, Wired, PortsClean
  <2> QED BY <1>1, <2>1, <2>2, <2>4, SwitchWriteWiring
<1> QED BY <1>2, <1>3, <1>4

----------------------------------------------------------------------------
(* Maintenance writes the row of a switch.                                 *)

LEMMA OthersWait ==
  ASSUME SwitchInv, WiringInv, NEW c \in Calls, call[c].op \in Maintenance
  PROVE  /\ \A d \in Calls \ {c} : call[d] = Idle
         /\ \A m \in Machines : ~Changing(m)
         /\ call[c].pc # "adopt" => ~call[c].changed /\ \A m \in Machines, d \in Calls : ~Disturbs(d, m)
<1>1. \A d \in Calls \ {c} : call[d] = Idle /\ ~call[d].changed
  BY IdleFormed DEF WiringInv, Discipline, MaintenanceAlone, Formed
<1>2. call[c].op \notin VRFCalls /\ (call[c].changed <=> call[c].pc = "adopt")
  BY DEF WiringInv, Discipline, Formed, Maintenance, VRFCalls
<1>3. \A m \in Machines : ~Changing(m)
  BY <1>1, <1>2 DEF Changing
<1>4. call[c].pc # "adopt" => \A m \in Machines, d \in Calls : ~Disturbs(d, m)
  BY <1>1, <1>2 DEF Disturbs
<1> QED BY <1>1, <1>2, <1>3, <1>4

LEMMA MaintenanceWiring ==
  ASSUME SwitchInv, WiringInv, NEW c \in Calls, call[c].op \in Maintenance, NEW k, Step(c, k), Formed(k),
         k.op \in {call[c].op, "none"}, k.m = None, k.mode # "replace", UnsureTyped',
         UNCHANGED <<machine, cable, aborted>>,
         \A t \in Switches : switch'[t].mode = "replace" => Marked(t),
         PortsClean', PortsApart',
         \A m \in Machines : (/\ \A s \in Switches : Clean(switch[s].vrf, switch[s].conn[m], m)
                              /\ VRFsRight(m) /\ TwofoldHere(m) /\ InPlace(m))',
         PlanRight(c)', Migrating(c)', Replacing(c)'
  PROVE  WiringInv'
<1>1. call'[c] = k /\ \A d \in Calls \ {c} : call'[d] = Idle /\ call[d] = Idle
  BY OthersWait, StepOf DEF Others
<1>2. OneMarked'
  BY MarksKept DEF WiringInv
<1>3. Discipline'
  BY <1>1, <1>2, IdleFormed, DisciplineKept DEF WiringInv, Maintenance
<1>4. \A d \in Calls \ {c} : (KnowsMachine(d) /\ KnowsPorts(d))' /\ Underway(d)'
  BY <1>1, IdleCarefree
<1>5. k.op \notin MachineCalls
  BY DEF Maintenance, MachineCalls, VRFCalls
<1>6. KnowsMachine(c)' /\ KnowsPorts(c)' /\ VRFsWritten(c)' /\ Disconnected(c)' /\ Connecting(c)'
  <2>1. k.op \notin VRFCalls \cup {"register", "abort", "delete", "report", "reinstall"}
    BY <1>5 DEF MachineCalls, VRFCalls
  <2>2. KnowsMachine(c)' /\ KnowsPorts(c)'
    BY <1>1, <2>1 DEF KnowsMachine, KnowsPorts
  <2> QED BY <1>1, <2>1, <2>2 DEF VRFsWritten, Disconnected, Connecting
<1>7. Informed'
  BY <1>4, <1>6 DEF WiringInv, Informed, CablesApart, NoRowNoAllocation
<1>8. \A d \in Calls : Underway(d)'
  BY <1>4, <1>6 DEF Underway
<1> QED BY <1>3, <1>7, <1>8 DEF WiringInv, Wired

\* A deleted switch takes its connections with it.
LEMMA DeleteSwitchWiring ==
  ASSUME SwitchInv, WiringInv, NEW c \in Calls, DeleteSwitch(c)
  PROVE  WiringInv'
<1> DEFINE s == call[c].s
           k == [call[c] EXCEPT !.pc = "removeStatus"]
<1>1. /\ call[c] \in CallState /\ call[c].op = "deleteSwitch" /\ s \in Switches /\ call[c].pc = "remove"
      /\ Formed(call[c]) /\ Underway(c) /\ UNCHANGED <<machine, cable, aborted>>
  BY DEF DeleteSwitch, SwitchInv, RowsTyped, RowsSound, Sound, SwitchCalls, Maintenance, WiringInv, Discipline, Wired
<1>2. /\ k.op = "deleteSwitch" /\ k.m = call[c].m /\ k.mode = call[c].mode /\ k.pc = "removeStatus" /\ k.s = s
      /\ k.changed = call[c].changed /\ k.plan = call[c].plan
  BY <1>1 DEF CallState
<1>3. /\ Step(c, k) /\ switch' = [switch EXCEPT ![s] = NoSwitch]
      /\ unsure' = [unsure EXCEPT !.conn = @ \cup {m \in Machines : s \in Connected(m)}]
  BY DEF DeleteSwitch, To
<1> HIDE DEF k
<1>4. Formed(k) /\ k.m = None /\ k.mode # "replace"
  BY <1>1, <1>2 DEF Formed, MachineCalls, VRFCalls, SwitchCalls, Maintenance
<1>5. /\ UnsureTyped' /\ unsure'.vrf = unsure.vrf
      /\ unsure'.conn = unsure.conn \cup {m \in Machines : s \in Connected(m)}
  BY <1>3 DEF UnsureTyped, WiringInv, Discipline
<1>6. switch'[s] = NoSwitch /\ \A t \in Switches \ {s} : switch'[t] = switch[t]
  BY <1>1, <1>3 DEF SwitchInv, RowsTyped
<1>7. /\ NoSwitch.mode = "absent" /\ \A m \in Machines : NoSwitch.conn[m] = {}
      /\ \A p \in Ports : NoSwitch.vrf[p] = "none"
  BY DEF NoSwitch
<1>8. \A t \in Switches : switch'[t].mode = "replace" => Marked(t)
  BY <1>6, <1>7 DEF Marked
<1>9. PortsClean' /\ PortsApart'
  BY <1>6, <1>7 DEF WiringInv, Wired, PortsClean, PortsApart, Apart
<1>10. \A d \in Calls, m \in Machines : ~Disturbs(d, m) /\ ~Changing(m)
  BY <1>1, OthersWait DEF Maintenance
<1>11. ASSUME NEW m \in Machines
       PROVE  (/\ \A t \in Switches : Clean(switch[t].vrf, switch[t].conn[m], m)
               /\ VRFsRight(m) /\ TwofoldHere(m) /\ InPlace(m))'
  <2>1. (\A t \in Switches : Clean(switch[t].vrf, switch[t].conn[m], m))'
    BY <1>1, <1>6, <1>7 DEF WiringInv, Wired, Clean
  <2>2. /\ Sure(m)' => Sure(m) /\ switch[s].conn[m] = {}
        /\ Untouched(m)' => Untouched(m)
    BY <1>1, <1>5 DEF Sure, Untouched, Connected
  <2>3. switch[s].conn[m] = {} => \A t \in Switches : switch'[t].conn[m] = switch[t].conn[m]
    BY <1>6, <1>7
  <2>4. VRFsRight(m)'
    BY <1>1, <1>6, <1>7, <1>10, <2>2 DEF WiringInv, Wired, VRFsRight, Tagged, Expected
  <2>5. TwofoldHere(m)'
    <3> SUFFICES ASSUME Sure(m)' PROVE Twofold(Conns(m), m)'
      BY DEF TwofoldHere
    <3>1. Conns(m)' = Conns(m)
      BY <2>2, <2>3 DEF Conns
    <3>2. Twofold(Conns(m), m)
      BY <1>10, <2>2 DEF WiringInv, Wired, TwofoldHere
    <3> QED BY <1>1, <3>1, <3>2 DEF Twofold
  <2>6. InPlace(m)'
    BY <1>1, <2>2, <2>3 DEF WiringInv, Wired, InPlace, Fits, PortsOf, Connected
  <2> QED BY <2>1, <2>4, <2>5, <2>6
<1>12. call'[c] = k
  BY <1>3, StepOf
<1>13. PlanRight(c)'
  BY <1>1, <1>2, <1>5, <1>12 DEF Underway, PlanRight, Apart, Clean, Tagged, Untouched, Expected, Maintenance
<1>14. Migrating(c)' /\ Replacing(c)'
  BY <1>2, <1>12 DEF Migrating, Replacing
<1> QED BY <1>1, <1>2, <1>3, <1>4, <1>5, <1>8, <1>9, <1>11, <1>13, <1>14, MaintenanceWiring DEF Maintenance

\* The connections are moved: where the old switch has them, the new one gets them.
LEMMA Swapped ==
  ASSUME NEW old \in Switches, NEW new \in Switches, old # new, NEW m \in Machines, NEW before, NEW after,
         before[new] = {}, after[old] = {}, after[new] = before[old],
         \A t \in Switches \ {old, new} : after[t] = before[t], Twofold(before, m)
  PROVE  Twofold(after, m)
<1>1. CASE \A t \in Switches : before[t] = {}
  BY <1>1 DEF Twofold
<1>2. CASE machine[m].rack /\ \E a, b \in Switches : /\ a # b /\ before[a] # {} /\ before[a] = before[b]
                                                     /\ \A t \in Switches \ {a, b} : before[t] = {}
  <2>1. PICK a \in Switches, b \in Switches : /\ a # b /\ before[a] # {} /\ before[a] = before[b]
                                              /\ \A t \in Switches \ {a, b} : before[t] = {}
    BY <1>2
  <2>2. a # new /\ b # new
    BY <2>1
  <2>3. CASE a = old
    <3>1. /\ b # new /\ after[b] # {} /\ after[b] = after[new]
          /\ \A t \in Switches \ {b, new} : after[t] = {}
      BY <2>1, <2>2, <2>3
    <3> QED BY <1>2, <3>1 DEF Twofold
  <2>4. CASE b = old
    <3>1. /\ a # new /\ after[a] # {} /\ after[a] = after[new]
          /\ \A t \in Switches \ {a, new} : after[t] = {}
      BY <2>1, <2>2, <2>4
    <3> QED BY <1>2, <3>1 DEF Twofold
  <2>5. CASE a # old /\ b # old
    <3>1. /\ a # b /\ after[a] # {} /\ after[a] = after[b]
          /\ \A t \in Switches \ {a, b} : after[t] = {}
      BY <2>1, <2>2, <2>5
    <3> QED BY <1>2, <3>1 DEF Twofold
  <2> QED BY <2>3, <2>4, <2>5
<1> QED BY <1>1, <1>2 DEF Twofold

\* The old switch loses its connections, which the plan keeps for the new one.
LEMMA RemoveConnectionsWiring ==
  ASSUME SwitchInv, WiringInv, NEW c \in Calls, RemoveConnections(c)
  PROVE  WiringInv'
<1> DEFINE old == call[c].s
           new == call[c].new
           plan == call[c].plan
           k == [call[c] EXCEPT !.pc = "adopt", !.changed = TRUE]
<1>1. /\ call[c] \in CallState /\ call[c].op = "migrate" /\ call[c].pc = "adjust"
      /\ old \in Switches /\ new \in Switches /\ Formed(call[c]) /\ Underway(c) /\ UNCHANGED <<machine, cable, aborted>>
  BY DEF RemoveConnections, SwitchInv, RowsTyped, RowsSound, Sound, SwitchCalls, Maintenance, WiringInv,
         Discipline, Wired
<1>2. CASE ~Fresh(c, old)
  BY <1>1, <1>2, FailWiring DEF RemoveConnections
<1>3. CASE Fresh(c, old)
  <2>1. /\ k.op = "migrate" /\ k.m = call[c].m /\ k.mode = call[c].mode /\ k.pc = "adopt" /\ k.s = old
        /\ k.new = new /\ k.changed /\ k.plan = plan /\ k.nics = call[c].nics
    BY <1>1 DEF CallState
  <2>2. Step(c, k) /\ switch' = [switch EXCEPT ![old].conn = NoPlan.conn] /\ UNCHANGED unsure
    BY <1>3 DEF RemoveConnections
  <2> HIDE DEF k
  <2>3. Formed(k) /\ k.m = None /\ k.mode # "replace"
    BY <1>1, <2>1 DEF Formed, MachineCalls, VRFCalls, SwitchCalls, Maintenance
  <2>4. UnsureTyped'
    BY <2>2 DEF UnsureTyped, WiringInv, Discipline
  <2>5. /\ switch'[old].mode = switch[old].mode /\ switch'[old].nics = switch[old].nics
        /\ switch'[old].vrf = switch[old].vrf /\ \A m \in Machines : switch'[old].conn[m] = {}
        /\ \A t \in Switches \ {old} : switch'[t] = switch[t]
    BY <1>1, <2>2 DEF SwitchInv, RowsTyped, SwitchRow, NoPlan, NoSwitch
  <2>6. \A t \in Switches : switch'[t].mode = "replace" => Marked(t)
    BY <2>5 DEF Marked
  <2>7. PortsClean' /\ PortsApart'
    BY <2>5 DEF WiringInv, Wired, PortsClean, PortsApart, Apart
  <2>8. /\ old # new /\ plan.conn = switch[old].conn /\ \A m \in Machines : switch[new].conn[m] = {}
        /\ \A p \in Ports \ call[c].nics : plan.vrf[p] = "none"
    BY <1>1 DEF Underway, Migrating
  <2>9. \A d \in Calls, m \in Machines : ~Disturbs(d, m) /\ ~Changing(m)
    BY <1>1, OthersWait DEF Maintenance
  <2>10. call'[c] = k
    BY <2>2, StepOf
  <2>11. \A m \in Machines : (Sure(m)' <=> Sure(m)) /\ (Untouched(m)' <=> Untouched(m))
    BY <1>1, <2>2 DEF Sure, Untouched
  <2>12. ASSUME NEW m \in Machines
         PROVE  (/\ \A t \in Switches : Clean(switch[t].vrf, switch[t].conn[m], m)
                 /\ VRFsRight(m) /\ TwofoldHere(m) /\ InPlace(m))'
    <3>1. (\A t \in Switches : Clean(switch[t].vrf, switch[t].conn[m], m))'
      BY <1>1, <2>5 DEF WiringInv, Wired, Clean
    <3>2. VRFsRight(m)'
      BY <1>1, <2>5, <2>9, <2>11 DEF WiringInv, Wired, VRFsRight, Tagged, Expected
    <3>3. TwofoldHere(m)'
      BY <2>1, <2>10 DEF TwofoldHere, Disturbs
    <3>4. InPlace(m)'
      <4> SUFFICES ASSUME Sure(m)', machine'[m].alloc # "none"
                   PROVE  (/\ \A s \in Switches : Fits(switch[s].conn[m], m)
                           /\ Connected(m) = {} => cable[m] = {})'
        BY DEF InPlace
      <4>1. /\ \A s \in Switches : Fits(switch[s].conn[m], m)
            /\ Connected(m) = {} => cable[m] = {}
        BY <1>1, <2>11 DEF WiringInv, Wired, InPlace
      <4>2. \A s \in Switches : Fits(switch[s].conn[m], m)'
        BY <1>1, <2>5, <4>1 DEF Fits, PortsOf
      <4>3. Twofold(Conns(m), m)
        BY <2>9, <2>11 DEF WiringInv, Wired, TwofoldHere
      <4>4. Connected(m)' = {} => Connected(m) = {}
        <5> SUFFICES ASSUME Connected(m) # {} PROVE \E t \in Switches \ {old} : switch[t].conn[m] # {}
          BY <2>5 DEF Connected
        <5>1. PICK a \in Switches, b \in Switches : a # b /\ Conns(m)[a] # {} /\ Conns(m)[a] = Conns(m)[b]
          BY <4>3 DEF Twofold, Connected, Conns
        <5> QED BY <5>1 DEF Conns
      <4> QED BY <1>1, <4>1, <4>2, <4>4
    <3> QED BY <3>1, <3>2, <3>3, <3>4
  <2>13. PlanRight(c)'
    BY <1>1, <2>1, <2>10, <2>11 DEF Underway, PlanRight, Apart, Clean, Tagged, Expected, Maintenance
  <2>14. Migrating(c)'
    <3>1. ASSUME NEW m \in Machines, Sure(m)
          PROVE  Twofold(Virtual(c, m), m)' /\ (machine[m].alloc # "none" => Fits(plan.conn[m], m)')
      <4>1. Twofold(Conns(m), m) /\ (machine[m].alloc # "none" => Fits(switch[old].conn[m], m))
        BY <1>1, <2>9, <3>1 DEF WiringInv, Wired, TwofoldHere, InPlace
      <4> DEFINE after == [s \in Switches |-> IF s = new THEN plan.conn[m] ELSE switch'[s].conn[m]]
      <4>2. /\ Conns(m)[new] = {} /\ after[old] = {} /\ after[new] = Conns(m)[old]
            /\ \A t \in Switches \ {old, new} : after[t] = Conns(m)[t]
        BY <1>1, <2>5, <2>8 DEF Conns
      <4>3. Virtual(c, m)' = after
        BY <2>1, <2>10 DEF Virtual
      <4> HIDE DEF after
      <4>4. Twofold(after, m)
        BY <1>1, <2>8, <4>1, <4>2, Swapped
      <4>5. Twofold(Virtual(c, m), m)'
        BY <1>1, <4>3, <4>4 DEF Twofold
      <4> QED BY <1>1, <2>1, <2>8, <2>10, <4>1, <4>5 DEF Fits, PortsOf
    <3> QED BY <1>1, <2>1, <2>5, <2>8, <2>10, <2>11, <3>1 DEF Migrating
  <2>15. Replacing(c)'
    BY <2>1, <2>10 DEF Replacing
  <2> QED BY <1>1, <2>1, <2>2, <2>3, <2>4, <2>6, <2>7, <2>12, <2>13, <2>14, <2>15, MaintenanceWiring DEF Maintenance
<1> QED BY <1>2, <1>3

\* A switch adopts what maintenance planned.
LEMMA AdoptedWiring ==
  ASSUME SwitchInv, WiringInv, NEW c \in Calls, call[c].op \in Maintenance, NEW s \in Switches,
         End(c, s), switch' = [switch EXCEPT ![s] = Adopted(call[c].nics, call[c].plan)],
         UNCHANGED <<machine, cable, unsure, aborted>>,
         \A p \in Ports \ call[c].nics : call[c].plan.vrf[p] = "none",
         \A m \in Machines : Sure(m) => (Twofold(Conns(m), m) /\ InPlace(m))'
  PROVE  WiringInv'
<1> DEFINE plan == call[c].plan
<1>1. Step(c, Idle) /\ call'[c] = Idle /\ UnsureTyped' /\ Underway(c)
  BY StepOf DEF End, UnsureTyped, WiringInv, Discipline, Wired
<1>2. /\ switch'[s].mode = "operational" /\ switch'[s].nics = call[c].nics
      /\ switch'[s].vrf = plan.vrf /\ switch'[s].conn = plan.conn
      /\ \A t \in Switches \ {s} : switch'[t] = switch[t]
  BY DEF Adopted, SwitchInv, RowsTyped
<1>3. \A t \in Switches : switch'[t].mode = "replace" => Marked(t)
  BY <1>2 DEF Marked
<1>4. /\ Apart(plan.conn)
      /\ \A m \in Machines : /\ Clean(plan.vrf, plan.conn[m], m)
                             /\ Untouched(m) => Tagged(plan.vrf, plan.conn[m], m)
  BY <1>1 DEF Underway, PlanRight
<1>5. PortsClean' /\ PortsApart'
  BY <1>2, <1>4 DEF WiringInv, Wired, PortsClean, PortsApart, Apart
<1>6. \A m \in Machines : ~Changing(m) /\ (Sure(m)' <=> Sure(m)) /\ (Untouched(m)' <=> Untouched(m))
                          /\ Expected(m)' = Expected(m)
  BY OthersWait DEF Sure, Untouched, Expected
<1>7. ASSUME NEW m \in Machines
      PROVE  (/\ \A t \in Switches : Clean(switch[t].vrf, switch[t].conn[m], m)
              /\ VRFsRight(m) /\ TwofoldHere(m) /\ InPlace(m))'
  <2>1. (\A t \in Switches : Clean(switch[t].vrf, switch[t].conn[m], m))'
    BY <1>2, <1>4 DEF WiringInv, Wired, Clean
  <2>2. VRFsRight(m)'
    BY <1>2, <1>4, <1>6 DEF WiringInv, Wired, VRFsRight, Tagged
  <2>3. TwofoldHere(m)' /\ InPlace(m)'
    BY <1>6 DEF TwofoldHere, InPlace
  <2> QED BY <2>1, <2>2, <2>3
<1>8. Idle.op \notin Maintenance
  BY IdleFormed DEF Maintenance
<1>9. PlanRight(c)' /\ Migrating(c)' /\ Replacing(c)'
  BY <1>1, <1>8 DEF PlanRight, Migrating, Replacing, Maintenance
<1> QED BY <1>1, <1>3, <1>5, <1>7, <1>9, IdleFormed, MaintenanceWiring

\* What a migration planned is what the old switch had.
LEMMA MigratedConns ==
  ASSUME SwitchInv, WiringInv, NEW c \in Calls, call[c].op = "migrate", call[c].pc = "adopt", NEW new \in Switches,
         new = call[c].new, switch' = [switch EXCEPT ![new] = Adopted(call[c].nics, call[c].plan)],
         UNCHANGED <<machine, cable, unsure>>, NEW m \in Machines, Sure(m)
  PROVE  (Twofold(Conns(m), m) /\ InPlace(m))'
<1>1. /\ Twofold(Virtual(c, m), m) /\ (machine[m].alloc # "none" => Fits(call[c].plan.conn[m], m))
      /\ switch[new].conn[m] = {}
  BY DEF WiringInv, Wired, Underway, Migrating
<1>2. switch'[new].conn = call[c].plan.conn /\ \A t \in Switches \ {new} : switch'[t] = switch[t]
  BY DEF Adopted, SwitchInv, RowsTyped
<1>3. Conns(m)' = Virtual(c, m)
  BY <1>2 DEF Conns, Virtual
<1>4. Twofold(Conns(m), m)'
  BY <1>1, <1>3 DEF Twofold
<1>5. InPlace(m)'
  <2> SUFFICES ASSUME machine[m].alloc # "none"
               PROVE  (/\ \A s \in Switches : Fits(switch[s].conn[m], m)
                       /\ Connected(m) = {} => cable[m] = {})'
    BY DEF InPlace
  <2>1. /\ \A s \in Switches : Fits(switch[s].conn[m], m)
        /\ Connected(m) = {} => cable[m] = {}
    BY DEF WiringInv, Wired, InPlace
  <2>2. \A s \in Switches : Fits(switch[s].conn[m], m)'
    BY <1>1, <1>2, <2>1 DEF Fits, PortsOf
  <2>3. Connected(m)' = {} => Connected(m) = {}
    BY <1>1, <1>2 DEF Connected
  <2> QED BY <2>1, <2>2, <2>3
<1> QED BY <1>4, <1>5

\* A replaced switch takes over from its twin the connections it had: they share every machine.
LEMMA ReplacedConns ==
  ASSUME SwitchInv, WiringInv, NEW c \in Calls, call[c].op = "replace", call[c].pc = "adjust", NEW s \in Switches,
         s = call[c].s, switch' = [switch EXCEPT ![s] = Adopted(call[c].nics, call[c].plan)],
         UNCHANGED <<machine, cable, unsure>>, NEW m \in Machines, Sure(m)
  PROVE  (Twofold(Conns(m), m) /\ InPlace(m))'
<1>1. Replacing(c)
  BY DEF WiringInv, Wired, Underway
<1>2. switch[s].mode = "replace"
  BY <1>1 DEF Replacing
<1>3. PICK t \in Switches : Twins(s) = {t} /\ call[c].plan = Plan(switch[t])
  BY <1>1 DEF Replacing
<1>4. switch'[s].conn = switch[t].conn /\ \A u \in Switches \ {s} : switch'[u] = switch[u]
  BY <1>3 DEF Adopted, Plan, SwitchInv, RowsTyped
<1>5. Twofold(Conns(m), m) /\ InPlace(m)
  <2>1. \A d \in Calls : ~Disturbs(d, m)
    BY OthersWait DEF Maintenance
  <2> QED BY <2>1 DEF WiringInv, Wired, TwofoldHere
<1>6. ASSUME NEW u \in Switches \ {s}, switch[u].conn[m] # {}
      PROVE  u = t
  <2>1. switch[u].mode # "absent"
    BY <1>6 DEF SwitchInv, RowsSound, RowSound
  <2>2. switch[u].mode # "replace"
    BY <1>2 DEF WiringInv, Discipline, OneMarked, Marked
  <2>3. switch[u].mode = "operational"
    BY <2>1, <2>2 DEF SwitchInv, RowsTyped, SwitchRow
  <2> QED BY <1>3, <1>6, <2>3 DEF Twins
<1>7. switch[s].conn[m] = switch[t].conn[m]
  <2>1. CASE \A u \in Switches : Conns(m)[u] = {}
    BY <2>1 DEF Conns
  <2>2. CASE ~\A u \in Switches : Conns(m)[u] = {}
    <3>1. PICK a \in Switches, b \in Switches : a # b /\ Conns(m)[a] # {} /\ Conns(m)[a] = Conns(m)[b]
      BY <1>5, <2>2 DEF Twofold
    <3>2. switch[a].conn[m] # {} /\ switch[a].conn[m] = switch[b].conn[m]
      BY <3>1 DEF Conns
    <3>3. \/ a = s /\ b = t
          \/ b = s /\ a = t
      BY <1>6, <3>1, <3>2
    <3> QED BY <3>2, <3>3
  <2> QED BY <2>1, <2>2
<1>8. \A u \in Switches : switch'[u].conn[m] = switch[u].conn[m]
  BY <1>4, <1>7
<1>9. Conns(m)' = Conns(m) /\ Connected(m)' = Connected(m)
  BY <1>8 DEF Conns, Connected
<1>10. Twofold(Conns(m), m)'
  BY <1>5, <1>9 DEF Twofold
<1>11. InPlace(m)'
  BY <1>5, <1>8, <1>9 DEF InPlace, Fits, PortsOf, Sure
<1> QED BY <1>10, <1>11

LEMMA AdoptWiring ==
  ASSUME SwitchInv, WiringInv, NEW c \in Calls, Adopt(c)
  PROVE  WiringInv'
<1> DEFINE s == IF call[c].op = "migrate" THEN call[c].new ELSE call[c].s
<1>1. /\ \/ call[c].op = "migrate" /\ call[c].pc = "adopt"
         \/ call[c].op = "replace" /\ call[c].pc = "adjust"
      /\ s \in Switches /\ Underway(c) /\ UNCHANGED <<machine, cable, aborted>>
  BY DEF Adopt, SwitchInv, RowsSound, Sound, SwitchCalls, Maintenance, WiringInv, Wired
<1>2. CASE ~Fresh(c, s)
  BY <1>1, <1>2, FailWiring DEF Adopt
<1>3. CASE Fresh(c, s)
  <2>1. End(c, s) /\ switch' = [switch EXCEPT ![s] = Adopted(call[c].nics, call[c].plan)] /\ UNCHANGED unsure
    BY <1>3 DEF Adopt
  <2>2. \A p \in Ports \ call[c].nics : call[c].plan.vrf[p] = "none"
    BY <1>1 DEF Underway, Migrating, Replacing
  <2>3. \A m \in Machines : Sure(m) => (Twofold(Conns(m), m) /\ InPlace(m))'
    <3>1. CASE call[c].op = "migrate"
      BY <1>1, <2>1, <3>1, MigratedConns
    <3>2. CASE call[c].op = "replace"
      BY <1>1, <2>1, <3>2, ReplacedConns
    <3> QED BY <1>1, <3>1, <3>2
  <2> QED BY <1>1, <2>1, <2>2, <2>3, AdoptedWiring DEF Maintenance
<1> QED BY <1>2, <1>3

----------------------------------------------------------------------------
(* What happens outside.                                                   *)

LEMMA SamePlug ==
  ASSUME Hypotheses, SwitchInv, NEW m \in Machines, NEW s \in Switches
  PROVE  Fits(PortsOf(cable[m], s), m)
<1>1. cable[m] \in Cablings \cup {{}}
  BY DEF SwitchInv, RowsTyped, Cables
<1>2. \A t \in Switches : PortsOf({}, t) = {}
  BY DEF PortsOf
<1>3. CASE cable[m] = {}
  BY <1>2, <1>3 DEF Fits
<1>4. CASE cable[m] \in Cablings
  <2>1. \A t \in Switches : PortsOf(cable[m], s) # {} /\ PortsOf(cable[m], t) # {}
                               => PortsOf(cable[m], s) = PortsOf(cable[m], t)
    BY <1>4 DEF Hypotheses, SameCabling
  <2> QED BY <2>1 DEF Fits
<1> QED BY <1>1, <1>3, <1>4

\* A machine is allocated where it is plugged in.
LEMMA AllocateMigrating ==
  ASSUME Hypotheses, SwitchInv, WiringInv, NEW m \in Machines, NEW d \in Calls, call'[d] = call[d],
         UNCHANGED <<switch, cable, unsure>>, AllElsewhere(m), machine'[m].rack = machine[m].rack,
         \A s \in Switches : switch[s].conn[m] = PortsOf(cable[m], s)
  PROVE  Migrating(d)'
<1> SUFFICES ASSUME call[d].op = "migrate" PROVE Migrating(d)'
  BY DEF Migrating
<1> DEFINE new == call[d].new
           plan == call[d].plan
<1>1. Migrating(d) /\ new \in Switches
  BY DEF WiringInv, Wired, Underway, SwitchInv, RowsSound, Sound
<1>2. ASSUME NEW n \in Machines, call[d].pc = "adopt", Sure(n)
      PROVE  /\ Twofold(Virtual(d, n), n)'
             /\ machine'[n].alloc # "none" => Fits(plan.conn[n], n)'
  <2>1. Twofold(Virtual(d, n), n) /\ (machine[n].alloc # "none" => Fits(plan.conn[n], n))
    BY <1>1, <1>2 DEF Migrating
  <2>2. Virtual(d, n)' = Virtual(d, n) /\ machine'[n].rack = machine[n].rack
    BY DEF Virtual, AllElsewhere, Elsewhere
  <2>3. Twofold(Virtual(d, n), n)'
    BY <2>1, <2>2 DEF Twofold
  <2>4. machine'[n].alloc # "none" => Fits(plan.conn[n], n)
    <3>1. CASE n # m
      BY <2>1, <3>1 DEF AllElsewhere, Elsewhere
    <3>2. CASE n = m
      <4> SUFFICES ASSUME plan.conn[m] # {} PROVE Fits(plan.conn[m], m)
        BY <3>2 DEF Fits
      <4>1. Virtual(d, m)[new] = plan.conn[m] /\ \A s \in Switches \ {new} : Virtual(d, m)[s] = switch[s].conn[m]
        BY <1>1 DEF Virtual
      <4>2. PICK a \in Switches, b \in Switches :
               /\ a # b /\ Virtual(d, m)[a] # {} /\ Virtual(d, m)[a] = Virtual(d, m)[b]
               /\ \A s \in Switches \ {a, b} : Virtual(d, m)[s] = {}
        BY <1>1, <2>1, <3>2, <4>1 DEF Twofold
      <4>3. PICK s \in Switches : switch[s].conn[m] = plan.conn[m]
        BY <1>1, <4>1, <4>2
      <4>4. plan.conn[m] = PortsOf(cable[m], s)
        BY <4>3
      <4> QED BY <4>4, SamePlug
    <3> QED BY <3>1, <3>2
  <2>5. plan' = plan
    OBVIOUS
  <2>6. Fits(plan.conn[n], n) => Fits(plan.conn[n], n)'
    BY <2>5 DEF Fits, PortsOf
  <2> QED BY <2>3, <2>4, <2>6
<1>3. \A n \in Machines : Sure(n)' <=> Sure(n)
  BY DEF Sure
<1> QED BY <1>1, <1>2, <1>3 DEF Migrating

LEMMA AllocateWiring ==
  ASSUME Hypotheses, SwitchInv, WiringInv, NEW m \in Machines, Allocate(m)
  PROVE  WiringInv'
<1>1. /\ UNCHANGED <<switch, cable, call, unsure, aborted>>
      /\ machine[m].exists /\ machine[m].alloc = "none"
      /\ \A d \in Calls : call[d].m # m
      /\ \A s \in Switches : switch[s].conn[m] = PortsOf(cable[m], s)
  BY DEF Allocate, Hypotheses, Assumptions
<1>2. /\ machine'[m].exists /\ machine'[m].alloc = "new" /\ machine'[m].rack = machine[m].rack
      /\ \A n \in Machines \ {m} : machine'[n] = machine[n]
      /\ \A s \in Switches : seen'[s] = seen[s]
  BY ConstantsAssumption DEF Allocate, SwitchInv, RowsTyped, MachineRow
<1>3. AllElsewhere(m) /\ About({}, m) /\ {} \in SUBSET Calls
  BY <1>1, <1>2 DEF AllElsewhere, Elsewhere, About
<1>4. Discipline'
  BY <1>1 DEF WiringInv, Discipline, MaintenanceAlone, OneCallPerMachine, OneMarked, Marked, Marks
<1>5. CablesApart' /\ NoRowNoAllocation'
  BY <1>1, <1>2 DEF WiringInv, Informed, CablesApart, NoRowNoAllocation
<1>6. PortsClean' /\ PortsApart'
  BY <1>1 DEF WiringInv, Wired, PortsClean, PortsApart, Apart
<1>7. ASSUME NEW d \in Calls
      PROVE  /\ (KnowsMachine(d) /\ KnowsPorts(d))'
             /\ (VRFsWritten(d) /\ Disconnected(d) /\ Connecting(d) /\ Replacing(d))'
  <2>1. d \in Calls \ {} /\ \A s \in Switches : seen'[s] \subseteq seen[s] \cup {}
    BY <1>2
  <2> QED BY <1>1, <1>3, <2>1, ElsewhereCalls
<1>8. \A n \in Machines : /\ Expected(n)' = Expected(n) /\ (Untouched(n)' <=> Untouched(n))
                          /\ (Sure(n)' <=> Sure(n)) /\ machine'[n].rack = machine[n].rack
                          /\ machine[n].alloc # "none" => machine'[n].alloc # "none"
  BY <1>1, <1>2 DEF Expected, Untouched, Sure
<1>9. ASSUME NEW d \in Calls PROVE Migrating(d)'
  BY <1>1, <1>2, <1>3, AllocateMigrating
<1>10. ASSUME NEW d \in Calls PROVE PlanRight(d)'
  BY <1>1, <1>8 DEF WiringInv, Wired, Underway, PlanRight, Apart, Clean, Tagged
<1>11. (/\ \A s \in Switches : Clean(switch[s].vrf, switch[s].conn[m], m)
        /\ VRFsRight(m) /\ TwofoldHere(m) /\ InPlace(m))'
  <2>1. (\A s \in Switches : Clean(switch[s].vrf, switch[s].conn[m], m))'
    BY <1>1, <1>8 DEF WiringInv, Wired, Clean
  <2>2. VRFsRight(m)'
    <3>1. Changing(m)' <=> Changing(m)
      BY <1>1 DEF Changing
    <3> QED BY <1>1, <1>8, <3>1 DEF WiringInv, Wired, VRFsRight, Tagged
  <2>3. TwofoldHere(m)'
    <3>1. \A d \in Calls : Disturbs(d, m) => Disturbs(d, m)'
      BY <1>1 DEF Disturbs
    <3>2. Twofold(Conns(m), m) => Twofold(Conns(m), m)'
      BY <1>1, <1>2 DEF Twofold, Conns
    <3> QED BY <1>8, <3>1, <3>2 DEF WiringInv, Wired, TwofoldHere
  <2>4. InPlace(m)'
    <3>1. \A s \in Switches : Fits(switch[s].conn[m], m)'
      BY <1>1, SamePlug DEF Fits, PortsOf
    <3>2. Connected(m)' = {} => cable[m] = {}
      <4> SUFFICES ASSUME \A s \in Switches : switch[s].conn[m] = {} PROVE cable[m] = {}
        BY <1>1 DEF Connected
      <4>1. cable[m] \subseteq Switches \X Ports
        BY ConstantsAssumption DEF SwitchInv, RowsTyped, Cables
      <4>2. \A s \in Switches, p \in Ports : <<s, p>> \notin cable[m]
        BY <1>1 DEF PortsOf
      <4> QED BY <4>1, <4>2
    <3> QED BY <1>1, <3>1, <3>2 DEF InPlace
  <2> QED BY <2>1, <2>2, <2>3, <2>4
<1>12. ASSUME NEW n \in Machines, n # m
       PROVE  (/\ \A s \in Switches : Clean(switch[s].vrf, switch[s].conn[n], n)
               /\ VRFsRight(n) /\ TwofoldHere(n) /\ InPlace(n))'
  BY <1>1, <1>3, <1>12, ElsewhereWires DEF AllElsewhere
<1>13. Informed'
  BY <1>5, <1>7 DEF Informed
<1>14. Wired'
  BY <1>6, <1>7, <1>9, <1>10, <1>11, <1>12 DEF Wired, Underway
<1> QED BY <1>4, <1>13, <1>14 DEF WiringInv

\* Machines that are moved have no allocation, and no call is about them.
LEMMA PlugInWiring ==
  ASSUME Hypotheses, SwitchInv, WiringInv, NEW m \in Machines, PlugIn(m)
  PROVE  WiringInv'
<1>1. UNCHANGED <<switch, machine, seen, call, unsure, aborted>>
  BY DEF PlugIn
<1>2. PICK ports \in Cablings :
         LET moved == {m} \cup {n \in Machines : cable[n] \cap ports # {}} IN
         /\ \A n \in moved : machine[n].alloc = "none"
         /\ \A d \in Calls : call[d].m \notin moved
         /\ cable' = [n \in Machines |-> IF n = m THEN ports ELSE IF n \in moved THEN {} ELSE cable[n]]
  BY DEF PlugIn, Hypotheses, Assumptions
<1> DEFINE moved == {m} \cup {n \in Machines : cable[n] \cap ports # {}}
<1>3. \A n \in Machines : /\ n \in moved => machine[n].alloc = "none" /\ \A d \in Calls : call[d].m # n
                          /\ n \notin moved => cable'[n] = cable[n]
  BY <1>2
<1>4. Discipline'
  BY <1>1 DEF WiringInv, Discipline, MaintenanceAlone, OneCallPerMachine, OneMarked, Marked, Marks
<1>5. CablesApart'
  BY <1>2 DEF WiringInv, Informed, CablesApart
<1> HIDE DEF moved
<1>6. NoRowNoAllocation'
  BY <1>1 DEF WiringInv, Informed, NoRowNoAllocation
<1>7. ASSUME NEW d \in Calls PROVE (KnowsMachine(d) /\ KnowsPorts(d))'
  <2>1. KnowsMachine(d)'
    BY <1>1 DEF WiringInv, Informed, KnowsMachine
  <2>2. call[d].op = "register" => cable'[call[d].m] = cable[call[d].m]
    BY <1>3, OwnMachine DEF MachineCalls
  <2>3. KnowsPorts(d)'
    BY <1>1, <2>2 DEF WiringInv, Informed, KnowsPorts, Free, PortsOf
  <2> QED BY <2>1, <2>3
<1>8. PortsClean' /\ PortsApart'
  BY <1>1 DEF WiringInv, Wired, PortsClean, PortsApart, Apart
<1>9. \A n \in Machines : machine[n].alloc # "none" => cable'[n] = cable[n]
  BY <1>3
<1>10. ASSUME NEW n \in Machines
       PROVE  (/\ \A s \in Switches : Clean(switch[s].vrf, switch[s].conn[n], n)
               /\ VRFsRight(n) /\ TwofoldHere(n) /\ InPlace(n))'
  <2>1. (\A s \in Switches : Clean(switch[s].vrf, switch[s].conn[n], n))'
    BY <1>1 DEF WiringInv, Wired, Clean
  <2>2. VRFsRight(n)'
    BY <1>1 DEF WiringInv, Wired, VRFsRight, Untouched, Changing, Tagged, Expected
  <2>3. TwofoldHere(n)'
    BY <1>1 DEF WiringInv, Wired, TwofoldHere, Sure, Disturbs, Twofold, Conns
  <2>4. InPlace(n)'
    BY <1>1, <1>9 DEF WiringInv, Wired, InPlace, Sure, Fits, PortsOf, Connected
  <2> QED BY <2>1, <2>2, <2>3, <2>4
<1>11. ASSUME NEW d \in Calls PROVE Underway(d)'
  <2>1. VRFsWritten(d)' /\ Disconnected(d)'
    BY <1>1 DEF WiringInv, Wired, Underway, VRFsWritten, Disconnected, Sure
  <2>2. Connecting(d)'
    BY <1>1 DEF WiringInv, Wired, Underway, Connecting, Between, Connected, PortsOf, NicsOf, Fresh
  <2>3. PlanRight(d)'
    BY <1>1 DEF WiringInv, Wired, Underway, PlanRight, Apart, Clean, Tagged, Untouched, Expected
  <2>4. Migrating(d)'
    <3>1. Migrating(d) /\ \A n \in Machines : Virtual(d, n)' = Virtual(d, n) /\ (Sure(n)' <=> Sure(n))
      BY <1>1 DEF WiringInv, Wired, Underway, Virtual, Sure
    <3>2. \A n \in Machines : Twofold(Virtual(d, n), n) => Twofold(Virtual(d, n), n)'
      BY <1>1, <3>1 DEF Twofold
    <3>3. \A n \in Machines : machine[n].alloc # "none" /\ Fits(call[d].plan.conn[n], n)
                                 => Fits(call[d].plan.conn[n], n)'
      BY <1>1, <1>9 DEF Fits, PortsOf
    <3> QED BY <1>1, <3>1, <3>2, <3>3 DEF Migrating
  <2>5. Replacing(d)'
    <3>1. Replacing(d) /\ Twins(call[d].s)' = Twins(call[d].s)
      BY <1>1 DEF WiringInv, Wired, Underway, Twins
    <3> QED BY <1>1, <3>1 DEF Replacing, Plan
  <2> QED BY <2>1, <2>2, <2>3, <2>4, <2>5 DEF Underway
<1> QED BY <1>4, <1>5, <1>6, <1>7, <1>8, <1>10, <1>11 DEF WiringInv, Informed, Wired

----------------------------------------------------------------------------
(* The invariant.                                                          *)

AsCabled(row, s, registered, alloc) ==
    /\ row.mode # "replace"
    /\ \A m \in Machines : row.conn[m] = IF m \in registered THEN PortsOf(cable[m], s) ELSE {}
    /\ \A p \in Ports : row.vrf[p] = IF alloc = "installed" /\ \E m \in registered : <<s, p>> \in cable[m]
                                     THEN "tenant" ELSE "none"
    /\ \A p \in Ports \ row.nics : row.vrf[p] = "none"

\* At first the registered machines are connected to the ports they are plugged into.
LEMMA InitialConns ==
  ASSUME NEW registered \in SUBSET Machines, NEW alloc, NEW spare \in {NoSwitch, NewSwitch(Ports)},
         NEW s \in Switches, NEW row, row = InitialRow(s, registered, alloc, spare)
  PROVE  AsCabled(row, s, registered, alloc)
<1>1. CASE \E m \in Machines, p \in Ports : <<s, p>> \in cable[m]
  <2>1. row = CabledRow(s, registered, alloc)
    BY <1>1 DEF InitialRow
  <2>2. \A m \in Machines : {p \in Ports : m \in registered /\ <<s, p>> \in cable[m]}
                               = IF m \in registered THEN PortsOf(cable[m], s) ELSE {}
    BY DEF PortsOf
  <2> QED BY <2>1, <2>2 DEF CabledRow, AsCabled
<1>2. CASE ~\E m \in Machines, p \in Ports : <<s, p>> \in cable[m]
  <2>1. row = spare
    BY <1>2 DEF InitialRow
  <2>2. /\ spare.mode # "replace" /\ \A m \in Machines : spare.conn[m] = {}
        /\ \A p \in Ports : spare.vrf[p] = "none"
    <3>1. NewSwitch(Ports).vrf = NoSwitch.vrf /\ NewSwitch(Ports).conn = NoSwitch.conn
          /\ NewSwitch(Ports).mode = "operational"
      BY DEF NewSwitch, NoSwitch
    <3> QED BY <3>1 DEF NoSwitch
  <2>3. \A m \in Machines : PortsOf(cable[m], s) = {}
    BY <1>2 DEF PortsOf
  <2> QED BY <1>2, <2>1, <2>2, <2>3 DEF AsCabled
<1> QED BY <1>1, <1>2

LEMMA InitWiring ==
  ASSUME Init
  PROVE  WiringInv
<1>1. PICK registered \in SUBSET Machines, alloc \in {"none", "new", "installed"},
           spare \in {NoSwitch, NewSwitch(Ports)} : InitialState(registered, alloc, spare)
  BY DEF Init
<1>2. /\ cable \in [Machines -> Cablings]
      /\ \A m, n \in Machines : m # n => cable[m] \cap cable[n] = {}
      /\ \A m \in registered : \E a, b \in Switches :
            a # b /\ \E P \in SUBSET Ports : cable[m] = {a, b} \X P
      /\ \A s \in Switches : switch[s] = InitialRow(s, registered, alloc, spare)
      /\ \A m \in Machines : machine[m] = IF m \in registered
            THEN [exists |-> TRUE, rack |-> TRUE, alloc |-> alloc] ELSE NoMachine
      /\ \A c \in Calls : call[c] = Idle
      /\ unsure = [vrf |-> {}, conn |-> {}] /\ aborted = {}
  BY <1>1 DEF InitialState
<1>3. \A s \in Switches :
         /\ switch[s].mode # "replace"
         /\ \A m \in Machines : switch[s].conn[m] = IF m \in registered THEN PortsOf(cable[m], s) ELSE {}
         /\ \A p \in Ports : switch[s].vrf[p] =
               IF alloc = "installed" /\ \E m \in registered : <<s, p>> \in cable[m] THEN "tenant" ELSE "none"
         /\ \A p \in Ports \ switch[s].nics : switch[s].vrf[p] = "none"
  <2>1. \A s \in Switches : AsCabled(switch[s], s, registered, alloc)
    BY <1>2, InitialConns
  <2> QED BY <2>1 DEF AsCabled
<1>4. \A m \in Machines : /\ machine[m].rack <=> m \in registered
                          /\ machine[m].exists <=> m \in registered
                          /\ machine[m].alloc = IF m \in registered THEN alloc ELSE "none"
  BY <1>2 DEF NoMachine
<1>5. Idle.op \notin Maintenance \cup MachineCalls
  BY IdleFormed DEF Maintenance, MachineCalls, VRFCalls
<1>6. Discipline
  BY <1>2, <1>3, <1>5, IdleFormed DEF Discipline, MaintenanceAlone, OneCallPerMachine, OneMarked, Marked, Marks
<1>7. Informed
  <2>1. \A c \in Calls : KnowsMachine(c) /\ KnowsPorts(c)
    BY <1>2, <1>5 DEF KnowsMachine, KnowsPorts, MachineCalls, VRFCalls
  <2> QED BY <1>2, <1>4, <2>1 DEF Informed, CablesApart, NoRowNoAllocation
<1>8. \A c \in Calls : Underway(c)
  BY <1>2, <1>5 DEF Underway, VRFsWritten, Disconnected, Connecting, PlanRight, Migrating, Replacing, Maintenance,
     MachineCalls
<1>9. PortsClean /\ PortsApart
  <2>1. ASSUME NEW s \in Switches, NEW m \in Machines, NEW n \in Machines, m # n
        PROVE  switch[s].conn[m] \cap switch[s].conn[n] = {}
    <3>1. cable[m] \cap cable[n] = {}
      BY <1>2, <2>1
    <3>2. PortsOf(cable[m], s) \cap PortsOf(cable[n], s) = {}
      BY <3>1 DEF PortsOf
    <3> QED BY <1>3, <3>2
  <2> QED BY <1>3, <2>1 DEF PortsClean, PortsApart, Apart
<1>10. ASSUME NEW m \in Machines
       PROVE  /\ \A s \in Switches : Clean(switch[s].vrf, switch[s].conn[m], m)
              /\ VRFsRight(m) /\ TwofoldHere(m) /\ InPlace(m)
  <2>1. CASE m \notin registered
    <3>1. \A s \in Switches : switch[s].conn[m] = {}
      BY <1>3, <2>1
    <3>2. machine[m].alloc = "none"
      BY <1>4, <2>1
    <3> QED BY <3>1, <3>2 DEF Clean, VRFsRight, Tagged, TwofoldHere, Twofold, Conns, InPlace
  <2>2. CASE m \in registered
    <3>1. machine[m].rack /\ machine[m].alloc = alloc
      BY <1>4, <2>2
    <3>2. \A s \in Switches : switch[s].conn[m] = PortsOf(cable[m], s)
      BY <1>3, <2>2
    <3>3. \A s \in Switches : \A p \in switch[s].conn[m] :
             switch[s].vrf[p] = IF alloc = "installed" THEN "tenant" ELSE "none"
      BY <1>3, <2>2, <3>2 DEF PortsOf
    <3>4. /\ \A s \in Switches : Clean(switch[s].vrf, switch[s].conn[m], m)
          /\ VRFsRight(m)
      BY <3>1, <3>3 DEF Clean, VRFsRight, Tagged, Expected
    <3>5. PICK a \in Switches, b \in Switches, P \in SUBSET Ports : a # b /\ cable[m] = {a, b} \X P
      BY <1>2, <2>2
    <3>6. \A s \in Switches : switch[s].conn[m] = IF s \in {a, b} THEN P ELSE {}
      <4>1. \A s, p : <<s, p>> \in cable[m] <=> s \in {a, b} /\ p \in P
        BY <3>5
      <4>2. \A s \in Switches : PortsOf(cable[m], s) = IF s \in {a, b} THEN P ELSE {}
        BY <4>1 DEF PortsOf
      <4> QED BY <3>2, <4>2
    <3>7. Twofold(Conns(m), m)
      BY <3>1, <3>5, <3>6 DEF Twofold, Conns
    <3>8. InPlace(m)
      <4>1. \A s \in Switches : Fits(switch[s].conn[m], m)
        BY <3>2, <3>6 DEF Fits
      <4>2. Connected(m) = {} => P = {}
        BY <3>6 DEF Connected
      <4> QED BY <3>5, <4>1, <4>2 DEF InPlace
    <3> QED BY <3>4, <3>7, <3>8 DEF TwofoldHere
  <2> QED BY <2>1, <2>2
<1>11. Wired
  BY <1>8, <1>9, <1>10 DEF Wired
<1> QED BY <1>6, <1>7, <1>11 DEF WiringInv

LEMMA StutterWiring ==
  ASSUME WiringInv, UNCHANGED vars
  PROVE  WiringInv'
  BY SameWiring DEF vars

LEMMA NextWiring ==
  ASSUME Hypotheses, SwitchInv, WiringInv, [Next]_vars
  PROVE  WiringInv'
<1>1. ASSUME NEW c \in Calls, NEW op \in MachineCalls, NEW m \in Machines, FindMachine(c, op, m)
      PROVE  WiringInv'
  BY <1>1, FindMachineWiring
<1>2. ASSUME NEW c \in Calls, NEW s \in Switches, NEW nics \in NicSets,
             FindNoSwitch(c, s, nics) \/ RegisterSwitch(c, s, nics) \/ ReplaceSwitch(c, s, nics)
      PROVE  WiringInv'
  BY <1>2, FindNoSwitchWiring, RegisterSwitchWiring, ReplaceSwitchWiring
<1>3. ASSUME NEW c \in Calls, NEW s \in Switches,
             \/ \E mode \in {"operational", "replace"} : UpdateSwitch(c, s, mode)
             \/ NotifySwitch(c, s)
             \/ \E force \in BOOLEAN : FindDeleted(c, s, force)
             \/ \E new \in Switches : MigrateOld(c, s, new)
      PROVE  WiringInv'
  BY <1>3, UpdateSwitchWiring, NotifySwitchWiring, FindDeletedWiring, MigrateOldWiring
<1>4. ASSUME NEW c \in Calls,
             \/ CreateMachine(c) \/ UpdateMachine(c) \/ CreateContainer(c)
             \/ SearchSwitches(c) \/ UpdateConnected(c) \/ Finish(c)
      PROVE  WiringInv'
  BY <1>4, CreateMachineWiring, UpdateMachineWiring, CreateContainerWiring, SearchSwitchesWiring,
     UpdateConnectedWiring, FinishWiring
<1>5. ASSUME NEW c \in Calls,
             \/ CreateSwitch(c) \/ FindNotified(c) \/ WriteSwitch(c) \/ DeleteSwitch(c) \/ DeleteStatus(c)
             \/ MigrateNew(c) \/ FindTwin(c) \/ AdjustRead(c) \/ AdjustWrite(c)
             \/ RemoveConnections(c) \/ Adopt(c) \/ CallFails(c)
      PROVE  WiringInv'
  BY <1>5, CreateSwitchWiring, FindNotifiedWiring, WriteSwitchWiring, DeleteSwitchWiring, DeleteStatusWiring,
     MigrateNewWiring, FindTwinWiring, AdjustReadWiring, AdjustWriteWiring, RemoveConnectionsWiring, AdoptWiring,
     CallFailsWiring
<1>6. ASSUME NEW m \in Machines, Allocate(m) \/ OtherWrite(m) \/ PlugIn(m)
      PROVE  WiringInv'
  BY <1>6, AllocateWiring, OtherWriteWiring, PlugInWiring
<1> QED BY <1>1, <1>2, <1>3, <1>4, <1>5, <1>6, StutterWiring DEF Next

\* Discipline, Informed and Wired hold in every state, whatever calls, failures and changes of
\* the cabling there are: the invariant of the two theorems below.
THEOREM WiringInvariant ==
  ASSUME Hypotheses
  PROVE  Spec => []WiringInv
<1>1. Init => WiringInv
  BY InitWiring
<1>2. SwitchInv /\ WiringInv /\ [Next]_vars => WiringInv'
  BY NextWiring
<1> QED BY <1>1, <1>2, RowsInvariant, PTL DEF Spec

\* The connected ports of a machine nobody is busy with are in the VRF of its allocation once
\* that is installed, and in none otherwise: the writes of SetVrfAtSwitches, switch by switch
\* and retried after conflicts, are undone by no other writer of a switch, and a machine that
\* comes to other ports finds them in no VRF.
THEOREM VRFsAreRecorded ==
  ASSUME Hypotheses
  PROVE  Spec => []VRFAsRecorded
<1>1. WiringInv => VRFAsRecorded
  <2> SUFFICES ASSUME WiringInv, NEW m \in Machines, m \notin unsure.vrf \cup unsure.conn \cup aborted,
                      Settled(m, VRFCalls)
               PROVE  \A s \in Connected(m), p \in Ports : p \in switch[s].conn[m] =>
                         switch[s].vrf[p] = IF machine[m].alloc = "installed" THEN "tenant" ELSE "none"
    BY DEF VRFAsRecorded
  <2>1. Untouched(m) /\ ~Changing(m)
    BY DEF Untouched, Changing, Settled
  <2>2. \A s \in Switches : Tagged(switch[s].vrf, switch[s].conn[m], m)
    BY <2>1 DEF WiringInv, Wired, VRFsRight
  <2> QED BY <2>2 DEF Connected, Tagged, Expected
<1> QED BY <1>1, WiringInvariant, PTL

\* A machine is connected nowhere, or has its rack and the same ports on two switches, and these
\* ports are there: registrations that add one switch after the other, deletions that take them
\* away, replacements from the twin and migrations keep it so (ConnectMachineWithSwitches,
\* deleteMachine, replaceSwitch, migrate).
THEOREM ConnectionsAreSound ==
  ASSUME Hypotheses
  PROVE  Spec => []ConnectionsSound
<1>1. WiringInv => ConnectionsMirrored
  <2> SUFFICES ASSUME WiringInv, NEW m \in Machines, m \notin unsure.conn, Settled(m, {"register", "delete"})
               PROVE  \/ Connected(m) = {}
                      \/ /\ machine[m].rack
                         /\ \E a, b \in Switches : a # b /\ Connected(m) = {a, b}
                                                   /\ switch[a].conn[m] = switch[b].conn[m]
    BY DEF ConnectionsMirrored
  <2>1. \A c \in Calls : ~Disturbs(c, m)
    BY DEF Disturbs, Settled, Maintenance
  <2>2. Twofold(Conns(m), m)
    BY <2>1 DEF WiringInv, Wired, TwofoldHere, Sure
  <2>3. CASE \A s \in Switches : Conns(m)[s] = {}
    BY <2>3 DEF Conns, Connected
  <2>4. CASE ~\A s \in Switches : Conns(m)[s] = {}
    <3>1. machine[m].rack
      BY <2>2, <2>4 DEF Twofold
    <3>2. PICK a \in Switches, b \in Switches : /\ a # b /\ Conns(m)[a] # {} /\ Conns(m)[a] = Conns(m)[b]
                                                /\ \A s \in Switches \ {a, b} : Conns(m)[s] = {}
      BY <2>2, <2>4 DEF Twofold
    <3>3. /\ switch[a].conn[m] # {} /\ switch[a].conn[m] = switch[b].conn[m]
          /\ \A s \in Switches \ {a, b} : switch[s].conn[m] = {}
      BY <3>2 DEF Conns
    <3>4. Connected(m) = {a, b}
      BY <3>3 DEF Connected
    <3> QED BY <3>1, <3>2, <3>3, <3>4
  <2> QED BY <2>3, <2>4
<1> QED BY <1>1, WiringInvariant, PortsExist, PTL DEF ConnectionsSound
=============================================================================
