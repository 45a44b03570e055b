-------------------------- MODULE SwitchServiceProofs --------------------------
(***************************************************************************)
(* Connections of switches: no writer loses one by accident, and every one  *)
(* leads to a port there is; for any number of switches, machines and calls *)
(* and without any assumption on what goes on at the same time.             *)
(***************************************************************************)
EXTENDS SwitchService, TLAPS

SwitchRow == [mode: {"absent", "operational", "replace"}, nics: SUBSET Ports,
              vrf: [Ports -> {"none", "tenant"}], conn: [Machines -> SUBSET Ports]]
MachineRow == [exists: BOOLEAN, rack: BOOLEAN, alloc: Allocations]
PlanState == [vrf: [Ports -> {"none", "tenant"}], conn: [Machines -> SUBSET Ports]]
Operations == MachineCalls \cup SwitchCalls \cup {"none"}
CallPC == {"idle", "create", "write", "container", "search", "each", "createSwitch", "findSwitch",
           "remove", "removeStatus", "migrateNew", "twin", "adjust", "adjustWrite", "adopt"}
Cables == Cablings \cup {{}}
CallState == [op: Operations, pc: CallPC, m: Machines \cup {None}, s: Switches \cup {None},
              new: Switches \cup {None}, nics: SUBSET Ports, plug: Cables,
              mode: {"absent", "operational", "replace"}, rack: BOOLEAN,
              todo: SUBSET (Switches \cup Machines), tries: Nat, plan: PlanState, changed: BOOLEAN]

RowsTyped ==
    /\ switch \in [Switches -> SwitchRow]
    /\ machine \in [Machines -> MachineRow]
    /\ cable \in [Machines -> Cables]
    /\ seen \in [Switches \cup Machines -> SUBSET Calls]
    /\ call \in [Calls -> CallState]

\* A row: there is every port a machine is connected to, and no row has no connection.
RowSound(row) ==
    \A m \in Machines : /\ row.conn[m] \subseteq row.nics
                        /\ row.mode = "absent" => row.conn[m] = {}

\* What a call knows from its checks when it comes to its write.
Sound(st) ==
    /\ st.op \in SwitchCalls => st.s \in Switches
    /\ st.op = "migrate" => st.new \in Switches
    /\ st.pc = "write" /\ st.op \in MachineCalls => st.m \in Machines
    /\ st.pc \in {"create", "container", "search", "each", "adjustWrite"} => st.m \in Machines
    /\ st.pc = "remove" => st.op = "deleteSwitch"
    /\ st.pc = "adopt" => st.op = "migrate"
    /\ st.pc = "createSwitch" => st.op = "registerSwitch"
    /\ st.pc = "migrateNew" => st.op = "migrate"
    /\ st.pc \in {"twin", "adjust", "adjustWrite"} => st.op \in {"migrate", "replace"}
    /\ st.pc = "write" => st.op \notin Maintenance
    /\ st.pc = "write" /\ st.op \in {"update", "notify"} => st.mode # "absent"
    /\ st.pc = "findSwitch" => st.op = "notify"
    /\ st.pc = "each" => st.todo \subseteq Switches
    /\ st.pc \in {"twin", "adjust", "adjustWrite"} => st.todo \subseteq Machines
    /\ st.pc \in {"adjust", "adjustWrite", "adopt"} =>
          \A m \in Machines : st.plan.conn[m] \subseteq st.nics

\* The ports a switch registers with were compared with its connections, and still are
\* what they were compared with.
Compared(st, c, rows, copies) ==
    st.op = "registerSwitch" /\ st.pc = "write" /\ c \in copies[st.s] => ~RefusedNics(rows[st.s], st.nics)

RowsSound ==
    /\ \A s \in Switches : RowSound(switch[s])
    /\ \A s \in Switches : seen[s] # {} => Exists(s)
    /\ \A c \in Calls : Sound(call[c]) /\ Compared(call[c], c, switch, seen)

SwitchInv == RowsTyped /\ RowsSound

----------------------------------------------------------------------------
LEMMA ConstantsTyped ==
  /\ NoSwitch \in SwitchRow /\ NoSwitch.mode = "absent" /\ \A m \in Machines : NoSwitch.conn[m] = {}
  /\ NoPlan \in PlanState /\ Idle \in CallState /\ Sound(Idle)
  /\ Idle.op = "none" /\ Idle.pc = "idle"
<1>1. NoSwitch \in SwitchRow /\ NoSwitch.mode = "absent" /\ \A m \in Machines : NoSwitch.conn[m] = {}
  BY DEF NoSwitch, SwitchRow
<1>2. NoPlan \in PlanState
  BY DEF NoPlan, PlanState, NoSwitch
<1>3. Idle \in CallState /\ Idle.op = "none" /\ Idle.pc = "idle"
  BY <1>2 DEF Idle, CallState, Operations, CallPC, Cables
<1>4. Sound(Idle)
  BY <1>3 DEF Sound, SwitchCalls, Maintenance
<1> QED BY <1>1, <1>2, <1>3, <1>4

LEMMA NewSwitchSound ==
  ASSUME NEW nics \in SUBSET Ports
  PROVE  /\ NewSwitch(nics) \in SwitchRow /\ RowSound(NewSwitch(nics))
         /\ NewSwitch(nics).mode = "operational" /\ \A m \in Machines : NewSwitch(nics).conn[m] = {}
  BY ConstantsTyped DEF NewSwitch, SwitchRow, RowSound

----------------------------------------------------------------------------
\* The two ways in which a call moves: no switch is written, or one is.

\* No row of a switch is written: a call may have read rows of switches there are.
LEMMA QuietKeeps ==
  ASSUME SwitchInv, UNCHANGED switch, NEW c \in Calls, NEW st \in CallState, Sound(st), Step(c, st),
         machine' \in [Machines -> MachineRow], cable' \in [Machines -> Cables],
         seen' \in [Switches \cup Machines -> SUBSET Calls],
         \A x \in Switches : seen'[x] \subseteq seen[x] \cup {c} /\ (seen'[x] \subseteq seen[x] \/ Exists(x)),
         st.op = "registerSwitch" /\ st.pc = "write" => ~RefusedNics(switch[st.s], st.nics)
  PROVE  SwitchInv'
<1>1. call' \in [Calls -> CallState] /\ call'[c] = st /\ \A d \in Calls \ {c} : call'[d] = call[d]
  BY DEF Step, SwitchInv, RowsTyped
<1>2. \A s \in Switches : seen'[s] # {} => switch'[s].mode # "absent"
  BY DEF SwitchInv, RowsSound, Exists
<1>3. ASSUME NEW d \in Calls PROVE Sound(call'[d]) /\ Compared(call'[d], d, switch', seen')
  <2>1. CASE d = c
    BY <1>1, <2>1 DEF Compared
  <2>2. CASE d # c
    <3>1. Sound(call[d]) /\ Compared(call[d], d, switch, seen) /\ call'[d] = call[d]
      BY <1>1, <2>2 DEF SwitchInv, RowsSound
    <3>2. call[d].op = "registerSwitch" => call[d].s \in Switches
      BY <3>1 DEF Sound, SwitchCalls
    <3> QED BY <2>2, <3>1, <3>2 DEF Compared
  <2> QED BY <2>1, <2>2
<1> QED BY <1>1, <1>2, <1>3 DEF SwitchInv, RowsTyped, RowsSound, Exists

\* A row of a switch is written: nobody else's copy is the row any more.
LEMMA WriteKeeps ==
  ASSUME SwitchInv, NEW s \in Switches, NEW row \in SwitchRow, RowSound(row),
         switch' = [switch EXCEPT ![s] = row],
         NEW c \in Calls, NEW st \in CallState, Sound(st), Step(c, st),
         UNCHANGED <<machine, cable>>, seen' \in [Switches \cup Machines -> SUBSET Calls],
         seen'[s] = {} \/ (seen'[s] = {c} /\ row.mode # "absent"),
         \A x \in Switches \ {s} : seen'[x] \subseteq seen[x],
         ~(st.op = "registerSwitch" /\ st.pc = "write")
  PROVE  SwitchInv'
<1>1. call' \in [Calls -> CallState] /\ call'[c] = st /\ \A d \in Calls \ {c} : call'[d] = call[d]
  BY DEF Step, SwitchInv, RowsTyped
<1>2. switch' \in [Switches -> SwitchRow] /\ switch'[s] = row /\ \A t \in Switches \ {s} : switch'[t] = switch[t]
  BY DEF SwitchInv, RowsTyped
<1>3. \A t \in Switches : RowSound(switch'[t])
  BY <1>2 DEF SwitchInv, RowsSound
<1>4. \A t \in Switches : seen'[t] # {} => switch'[t].mode # "absent"
  BY <1>2 DEF SwitchInv, RowsSound, Exists
<1>5. ASSUME NEW d \in Calls PROVE Sound(call'[d]) /\ Compared(call'[d], d, switch', seen')
  <2>1. CASE d = c
    BY <1>1, <2>1 DEF Compared
  <2>2. CASE d # c
    <3>1. Sound(call[d]) /\ Compared(call[d], d, switch, seen) /\ call'[d] = call[d]
      BY <1>1, <2>2 DEF SwitchInv, RowsSound
    <3>2. call[d].op = "registerSwitch" => call[d].s \in Switches
      BY <3>1 DEF Sound, SwitchCalls
    <3>3. d \notin seen'[s]
      BY <2>2
    <3> QED BY <1>2, <3>1, <3>2, <3>3 DEF Compared
  <2> QED BY <2>1, <2>2
<1> QED BY <1>1, <1>2, <1>3, <1>4, <1>5 DEF SwitchInv, RowsTyped, RowsSound, Exists

----------------------------------------------------------------------------
\* How calls end, and what they read

LEMMA EndSeen ==
  ASSUME SwitchInv, NEW c \in Calls, NEW x, End(c, x)
  PROVE  /\ seen' \in [Switches \cup Machines -> SUBSET Calls]
         /\ \A y \in Switches \cup Machines : seen'[y] \subseteq seen[y]
         /\ x \in Switches => seen'[x] = {}
         /\ Step(c, Idle)
  BY DEF End, SwitchInv, RowsTyped

LEMMA EndKeeps ==
  ASSUME SwitchInv, NEW c \in Calls, NEW x, End(c, x), UNCHANGED switch,
         machine' \in [Machines -> MachineRow], cable' \in [Machines -> Cables]
  PROVE  SwitchInv'
<1>1. \A y \in Switches : seen'[y] \subseteq seen[y] \cup {c} /\ seen'[y] \subseteq seen[y]
  BY EndSeen
<1> QED BY <1>1, EndSeen, ConstantsTyped, QuietKeeps

\* A call ends with the write of a switch.
LEMMA WriteEndKeeps ==
  ASSUME SwitchInv, NEW s \in Switches, NEW row \in SwitchRow, RowSound(row),
         switch' = [switch EXCEPT ![s] = row], NEW c \in Calls, End(c, s), UNCHANGED <<machine, cable>>
  PROVE  SwitchInv'
<1>1. seen'[s] = {} /\ \A x \in Switches \ {s} : seen'[x] \subseteq seen[x]
  BY EndSeen
<1> QED BY <1>1, EndSeen, ConstantsTyped, WriteKeeps

LEMMA ReadSeen ==
  ASSUME SwitchInv, NEW c \in Calls, NEW X, Read(c, X), \A x \in X \cap Switches : Exists(x)
  PROVE  /\ seen' \in [Switches \cup Machines -> SUBSET Calls]
         /\ \A x \in Switches : seen'[x] \subseteq seen[x] \cup {c} /\ (seen'[x] \subseteq seen[x] \/ Exists(x))
  BY DEF Read, SwitchInv, RowsTyped

\* A call goes on after it read rows of switches there are, or of machines.
LEMMA ReadKeeps ==
  ASSUME SwitchInv, UNCHANGED <<switch, machine, cable>>, NEW c \in Calls, NEW X, Read(c, X),
         \A x \in X \cap Switches : Exists(x), NEW st \in CallState, Sound(st), Step(c, st),
         st.op = "registerSwitch" /\ st.pc = "write" => ~RefusedNics(switch[st.s], st.nics)
  PROVE  SwitchInv'
  BY ReadSeen, QuietKeeps DEF SwitchInv, RowsTyped

\* A call goes on without a look at a row.
LEMMA MoveKeeps ==
  ASSUME SwitchInv, UNCHANGED <<switch, machine, cable, seen>>, NEW c \in Calls,
         NEW st \in CallState, Sound(st), Step(c, st), ~(st.op = "registerSwitch" /\ st.pc = "write")
  PROVE  SwitchInv'
  BY QuietKeeps DEF SwitchInv, RowsTyped

\* A call writes the row of a machine.
LEMMA MachineWriteKeeps ==
  ASSUME SwitchInv, UNCHANGED <<switch, cable>>, NEW c \in Calls, NEW m \in Machines, Wrote(c, m),
         machine' \in [Machines -> MachineRow], NEW st \in CallState, Sound(st), Step(c, st),
         ~(st.op = "registerSwitch" /\ st.pc = "write")
  PROVE  SwitchInv'
<1>1. m \notin Switches
  BY ConstantsAssumption
<1>2. /\ seen' \in [Switches \cup Machines -> SUBSET Calls]
      /\ \A x \in Switches : seen'[x] = seen[x]
  BY <1>1 DEF Wrote, SwitchInv, RowsTyped
<1> QED BY <1>2, QuietKeeps DEF SwitchInv, RowsTyped

\* A row with connections or copies is there.
LEMMA ConnectedExists ==
  ASSUME SwitchInv, NEW m \in Machines
  PROVE  \A s \in Connected(m) : s \in Switches /\ Exists(s)
  BY DEF Connected, SwitchInv, RowsSound, RowSound, Exists

LEMMA FreshExists ==
  ASSUME SwitchInv, NEW c \in Calls, NEW s \in Switches, Fresh(c, s)
  PROVE  Exists(s)
  BY DEF Fresh, SwitchInv, RowsSound

----------------------------------------------------------------------------
\* The calls about machines

LEMMA InitSound == Init => SwitchInv
<1> SUFFICES ASSUME Init PROVE SwitchInv
  OBVIOUS
<1>1. PICK registered \in SUBSET Machines, alloc \in {"none", "new", "installed"},
           spare \in {NoSwitch, NewSwitch(Ports)} : InitialState(registered, alloc, spare)
  BY DEF Init
<1>a. spare \in SwitchRow /\ RowSound(spare)
  BY ConstantsTyped, NewSwitchSound DEF RowSound
<1>b. ASSUME NEW s \in Switches
      PROVE  CabledRow(s, registered, alloc) \in SwitchRow /\ RowSound(CabledRow(s, registered, alloc))
  BY DEF CabledRow, SwitchRow, RowSound
<1>c. switch = [s \in Switches |-> InitialRow(s, registered, alloc, spare)]
  BY <1>1 DEF InitialState
<1>d. switch \in [Switches -> SwitchRow] /\ \A s \in Switches : RowSound(switch[s])
  BY <1>a, <1>b, <1>c DEF InitialRow
<1>2. machine \in [Machines -> MachineRow] /\ cable \in [Machines -> Cables]
  BY <1>1 DEF InitialState, MachineRow, Cables, NoMachine, Allocations
<1>3. /\ seen = [x \in Switches \cup Machines |-> {}] /\ call = [c \in Calls |-> Idle]
  BY <1>1 DEF InitialState
<1> QED BY <1>d, <1>2, <1>3, ConstantsTyped DEF SwitchInv, RowsTyped, RowsSound, Compared

LEMMA FindMachineKeeps ==
  ASSUME SwitchInv, NEW c \in Calls, NEW op \in MachineCalls, NEW m \in Machines, FindMachine(c, op, m)
  PROVE  SwitchInv'
<1> DEFINE plug == IF op = "register" THEN cable[m] ELSE {}
           st == [Idle EXCEPT !.op = op, !.m = m, !.plug = plug, !.rack = machine[m].rack, !.pc = FirstStep(op, m)]
<1>1. FirstStep(op, m) \in {"create", "search", "write"}
  BY DEF FirstStep
<1>p. plug \in Cables /\ machine[m].rack \in BOOLEAN
  BY DEF SwitchInv, RowsTyped, MachineRow, Cables
<1>2. st \in CallState /\ st.op = op /\ st.m = m /\ st.pc = FirstStep(op, m)
  <2> HIDE DEF plug
  <2> QED BY <1>1, <1>p, ConstantsTyped DEF CallState, Operations, CallPC
<1>3. Sound(st)
  BY <1>1, <1>2 DEF Sound, MachineCalls, SwitchCalls, Maintenance, VRFCalls
<1>4. UNCHANGED <<switch, machine, cable>> /\ Step(c, st) /\ Read(c, {m})
  BY DEF FindMachine, Start
<1>5. {m} \cap Switches = {} /\ st.op # "registerSwitch"
  BY <1>2, ConstantsAssumption DEF MachineCalls, VRFCalls
<1> HIDE DEF st
<1> QED BY <1>2, <1>3, <1>4, <1>5, ReadKeeps

LEMMA CreateMachineKeeps ==
  ASSUME SwitchInv, NEW c \in Calls, CreateMachine(c)
  PROVE  SwitchInv'
<1> DEFINE m == call[c].m
           st == [call[c] EXCEPT !.pc = "container"]
<1>1. call[c] \in CallState /\ Sound(call[c]) /\ m \in Machines /\ call[c].op = "register"
  BY DEF CreateMachine, SwitchInv, RowsTyped, RowsSound, Sound
<1>2. CASE machine[m].exists
  BY <1>2, EndKeeps DEF CreateMachine, SwitchInv, RowsTyped
<1>3. CASE ~machine[m].exists
  <2>1. st \in CallState /\ st.op = "register" /\ st.pc = "container" /\ st.m = m
    BY <1>1 DEF CallState, CallPC
  <2>2. Sound(st)
    BY <1>1, <2>1 DEF Sound, SwitchCalls, Maintenance
  <2>3. machine' \in [Machines -> MachineRow]
    <3>1. [NoMachine EXCEPT !.exists = TRUE] \in MachineRow
      BY DEF NoMachine, MachineRow, Allocations
    <3>2. machine' = [machine EXCEPT ![m] = [NoMachine EXCEPT !.exists = TRUE]]
      BY <1>3 DEF CreateMachine
    <3>3. machine \in [Machines -> MachineRow]
      BY DEF SwitchInv, RowsTyped
    <3> HIDE DEF m
    <3> QED BY <3>1, <3>2, <3>3
  <2>4. Wrote(c, m) /\ Step(c, st) /\ UNCHANGED <<switch, cable>>
    BY <1>3 DEF CreateMachine, To
  <2> HIDE DEF m, st
  <2> QED BY <1>1, <2>1, <2>2, <2>3, <2>4, MachineWriteKeeps
<1> QED BY <1>2, <1>3

LEMMA UpdateMachineKeeps ==
  ASSUME SwitchInv, NEW c \in Calls, UpdateMachine(c)
  PROVE  SwitchInv'
<1> DEFINE m == call[c].m
           op == call[c].op
<1>1. call[c] \in CallState /\ Sound(call[c]) /\ m \in Machines /\ op \in MachineCalls
  BY DEF UpdateMachine, SwitchInv, RowsTyped, RowsSound, Sound
<1>2. UNCHANGED <<switch, cable>>
  BY DEF UpdateMachine
<1>3. CASE ~Fresh(c, m)
  BY <1>2, <1>3, EndKeeps DEF UpdateMachine, SwitchInv, RowsTyped
<1>4. CASE Fresh(c, m)
  <2>1. machine' = [machine EXCEPT ![m].alloc = NewAlloc(op, @)]
    BY <1>4 DEF UpdateMachine
  <2>2. NewAlloc(op, machine[m].alloc) \in Allocations
    BY <1>1 DEF NewAlloc, Allocations, SwitchInv, RowsTyped, MachineRow
  <2>3. machine' \in [Machines -> MachineRow]
    BY <1>1, <2>1, <2>2 DEF SwitchInv, RowsTyped, MachineRow
  <2>4. CASE op = "abort"
    <3>1. End(c, m)
      BY <1>4, <2>4 DEF UpdateMachine
    <3> QED BY <1>2, <2>3, <3>1, EndKeeps DEF SwitchInv, RowsTyped
  <2>5. CASE op = "register"
    <3> DEFINE st == [call[c] EXCEPT !.pc = "container"]
    <3>1. Wrote(c, m) /\ Step(c, st)
      BY <1>4, <2>5 DEF UpdateMachine, To
    <3>2. st \in CallState /\ st.op = "register" /\ st.pc = "container" /\ st.m = m
      BY <1>1, <2>5 DEF CallState, CallPC
    <3>3. Sound(st)
      BY <1>1, <3>2 DEF Sound, SwitchCalls, Maintenance
    <3> HIDE DEF m, op, st
    <3> QED BY <1>1, <1>2, <2>3, <3>1, <3>2, <3>3, MachineWriteKeeps
  <2>6. CASE op \notin {"abort", "register"}
    <3> DEFINE st == [call[c] EXCEPT !.pc = "search", !.changed = TRUE]
    <3>1. Wrote(c, m) /\ Step(c, st)
      BY <1>4, <2>6 DEF UpdateMachine
    <3>2. st \in CallState /\ st.op = op /\ st.pc = "search" /\ st.m = m
      BY <1>1 DEF CallState, CallPC
    <3>3. Sound(st) /\ st.op # "registerSwitch"
      BY <1>1, <3>2 DEF Sound, SwitchCalls, Maintenance, MachineCalls, VRFCalls
    <3> HIDE DEF m, op, st
    <3> QED BY <1>1, <1>2, <2>3, <3>1, <3>2, <3>3, MachineWriteKeeps
  <2> QED BY <2>4, <2>5, <2>6
<1> QED BY <1>3, <1>4

LEMMA FailKeeps ==
  ASSUME SwitchInv, NEW c \in Calls, Fail(c), UNCHANGED <<switch, machine, cable>>
  PROVE  SwitchInv'
  BY EndKeeps DEF Fail, SwitchInv, RowsTyped

LEMMA RetryKeeps ==
  ASSUME SwitchInv, NEW c \in Calls, Retry(c), call[c].pc = "each", UNCHANGED <<switch, machine, cable>>
  PROVE  SwitchInv'
<1> DEFINE tries == call[c].tries + 1
           st == [call[c] EXCEPT !.pc = "search", !.tries = tries, !.todo = {}]
<1>1. call[c] \in CallState /\ Sound(call[c]) /\ call[c].m \in Machines
  BY DEF SwitchInv, RowsTyped, RowsSound, Sound
<1>2. CASE call[c].tries + 1 < Attempts
  <2>1. st \in CallState /\ st.op = call[c].op /\ st.s = call[c].s /\ st.new = call[c].new
        /\ st.pc = "search" /\ st.m = call[c].m
    <3>1. tries \in Nat
      BY <1>1 DEF CallState
    <3> HIDE DEF tries
    <3> QED BY <1>1, <3>1 DEF CallState, CallPC
  <2>2. Sound(st)
    BY <1>1, <2>1 DEF Sound
  <2>3. Step(c, st) /\ UNCHANGED seen
    BY <1>2 DEF Retry
  <2> HIDE DEF st
  <2> QED BY <2>1, <2>2, <2>3, MoveKeeps
<1>3. CASE ~(call[c].tries + 1 < Attempts)
  BY <1>3, FailKeeps DEF Retry
<1> QED BY <1>2, <1>3

LEMMA CreateContainerKeeps ==
  ASSUME SwitchInv, NEW c \in Calls, CreateContainer(c)
  PROVE  SwitchInv'
<1> DEFINE st == [call[c] EXCEPT !.pc = "search"]
<1>1. call[c] \in CallState /\ Sound(call[c]) /\ call[c].m \in Machines
  BY DEF CreateContainer, SwitchInv, RowsTyped, RowsSound, Sound
<1>2. st \in CallState /\ st.op = call[c].op /\ st.s = call[c].s /\ st.new = call[c].new
      /\ st.pc = "search" /\ st.m = call[c].m
  BY <1>1 DEF CallState, CallPC
<1>3. Sound(st)
  BY <1>1, <1>2 DEF Sound
<1>4. Step(c, st) /\ UNCHANGED <<switch, machine, cable, seen>>
  BY DEF CreateContainer, To
<1> HIDE DEF st
<1> QED BY <1>2, <1>3, <1>4, MoveKeeps

LEMMA AffectedExist ==
  ASSUME SwitchInv, NEW c \in Calls, call[c].m \in Machines
  PROVE  Affected(c) \subseteq Switches /\ \A s \in Affected(c) : Exists(s)
<1>1. \A s \in Connected(call[c].m) : s \in Switches /\ Exists(s)
  BY ConnectedExists
<1>2. \A s \in Attached(call[c].plug) : s \in Switches /\ Exists(s)
  BY DEF Attached
<1>3. Affected(c) \in {Attached(call[c].plug), Connected(call[c].m), {}}
  BY DEF Affected
<1> QED BY <1>1, <1>2, <1>3

LEMMA SearchSwitchesKeeps ==
  ASSUME SwitchInv, NEW c \in Calls, SearchSwitches(c)
  PROVE  SwitchInv'
<1> DEFINE st == [call[c] EXCEPT !.pc = "each", !.todo = Affected(c)]
<1>1. call[c] \in CallState /\ Sound(call[c]) /\ call[c].m \in Machines
  BY DEF SearchSwitches, SwitchInv, RowsTyped, RowsSound, Sound
<1>2. CASE call[c].op = "register" /\ ~CanConnect(call[c].m, call[c].plug)
  BY <1>2, FailKeeps DEF SearchSwitches
<1>3. CASE ~(call[c].op = "register" /\ ~CanConnect(call[c].m, call[c].plug))
  <2>1. st \in CallState /\ st.op = call[c].op /\ st.s = call[c].s /\ st.new = call[c].new
        /\ st.pc = "each" /\ st.m = call[c].m /\ st.todo = Affected(c)
    BY <1>1, AffectedExist DEF CallState, CallPC
  <2>2. Sound(st)
    BY <1>1, <2>1, AffectedExist DEF Sound
  <2>3. Step(c, st) /\ Read(c, Affected(c)) /\ UNCHANGED <<switch, machine, cable>>
    BY <1>3 DEF SearchSwitches
  <2>4. \A x \in Affected(c) \cap Switches : Exists(x)
    BY <1>1, AffectedExist
  <2> HIDE DEF st
  <2> QED BY <2>1, <2>2, <2>3, <2>4, ReadKeeps
<1> QED BY <1>2, <1>3

\* A write about a machine: the row stays, with connections to ports there are.
LEMMA NewRowSound ==
  ASSUME SwitchInv, NEW c \in Calls, call[c].m \in Machines, NEW s \in Switches, Exists(s)
  PROVE  NewRow(c, s) \in SwitchRow /\ RowSound(NewRow(c, s)) /\ NewRow(c, s).mode # "absent"
<1> DEFINE m == call[c].m
           row == switch[s]
<1>1. row \in SwitchRow /\ RowSound(row) /\ row.mode # "absent" /\ m \in Machines
  BY DEF SwitchInv, RowsTyped, RowsSound, Exists
<1>2. ASSUME NEW P \in SUBSET row.nics
      PROVE  /\ [row EXCEPT !.conn[m] = P] \in SwitchRow /\ RowSound([row EXCEPT !.conn[m] = P])
             /\ [row EXCEPT !.conn[m] = P].mode = row.mode
  <2> DEFINE conn == [row.conn EXCEPT ![m] = P]
  <2>1. conn \in [Machines -> SUBSET Ports] /\ \A n \in Machines : conn[n] \subseteq row.nics
    BY <1>1 DEF SwitchRow, RowSound
  <2>2. [row EXCEPT !.conn[m] = P] = [row EXCEPT !.conn = conn]
    OBVIOUS
  <2> HIDE DEF conn
  <2>3. [row EXCEPT !.conn = conn] \in SwitchRow /\ [row EXCEPT !.conn = conn].mode = row.mode
        /\ [row EXCEPT !.conn = conn].nics = row.nics /\ [row EXCEPT !.conn = conn].conn = conn
    BY <1>1, <2>1 DEF SwitchRow
  <2> QED BY <1>1, <2>1, <2>2, <2>3 DEF RowSound
<1>3. NicsOf(call[c].plug, s) \in SUBSET row.nics /\ {} \in SUBSET row.nics
  BY DEF NicsOf
<1>4. ASSUME NEW v \in {"none", "tenant"}
      PROVE  /\ SetVRFOf(row, m, v) \in SwitchRow /\ RowSound(SetVRFOf(row, m, v))
             /\ SetVRFOf(row, m, v).mode = row.mode
  BY <1>1 DEF SetVRFOf, SwitchRow, RowSound
<1>5. \/ NewRow(c, s) = [row EXCEPT !.conn[m] = NicsOf(call[c].plug, s)]
      \/ NewRow(c, s) = [row EXCEPT !.conn[m] = {}]
      \/ NewRow(c, s) = SetVRFOf(row, m, IF call[c].op = "report" THEN "tenant" ELSE "none")
  BY DEF NewRow
<1>6. CASE NewRow(c, s) = [row EXCEPT !.conn[m] = NicsOf(call[c].plug, s)]
  <2> HIDE DEF row, m
  <2> QED BY <1>1, <1>2, <1>3, <1>6, Zenon
<1>7. CASE NewRow(c, s) = [row EXCEPT !.conn[m] = {}]
  <2> HIDE DEF row, m
  <2> QED BY <1>1, <1>2, <1>3, <1>7, Zenon
<1>8. CASE NewRow(c, s) = SetVRFOf(row, m, IF call[c].op = "report" THEN "tenant" ELSE "none")
  BY <1>1, <1>4, <1>8
<1> QED BY <1>5, <1>6, <1>7, <1>8

LEMMA UpdateConnectedKeeps ==
  ASSUME SwitchInv, NEW c \in Calls, UpdateConnected(c)
  PROVE  SwitchInv'
<1>1. call[c] \in CallState /\ Sound(call[c]) /\ call[c].m \in Machines /\ call[c].todo \subseteq Switches
  BY DEF UpdateConnected, SwitchInv, RowsTyped, RowsSound, Sound
<1>2. UNCHANGED <<machine, cable>>
  BY DEF UpdateConnected
<1>3. PICK s \in call[c].todo :
          IF Fresh(c, s)
          THEN /\ switch' = [switch EXCEPT ![s] = NewRow(c, s)]
               /\ Wrote(c, s)
               /\ Step(c, [call[c] EXCEPT !.todo = Remaining(c, s), !.changed = TRUE])
          ELSE (Retry(c) \/ Fail(c)) /\ UNCHANGED switch
  BY DEF UpdateConnected
<1>4. CASE Fresh(c, s)
  <2> DEFINE st == [call[c] EXCEPT !.todo = Remaining(c, s), !.changed = TRUE]
  <2>1. st \in CallState /\ st.op = call[c].op /\ st.s = call[c].s /\ st.new = call[c].new
        /\ st.pc = "each" /\ st.m = call[c].m /\ st.todo \subseteq Switches
    BY <1>1 DEF CallState, Remaining, UpdateConnected
  <2>2. Sound(st)
    BY <1>1, <2>1 DEF Sound
  <2>3. s \in Switches /\ Exists(s)
    BY <1>1, <1>4, FreshExists
  <2>4. seen' \in [Switches \cup Machines -> SUBSET Calls] /\ seen'[s] = {c}
        /\ \A x \in Switches \ {s} : seen'[x] = seen[x]
    BY <1>3, <1>4, <2>3 DEF Wrote, SwitchInv, RowsTyped
  <2>5. Step(c, st) /\ switch' = [switch EXCEPT ![s] = NewRow(c, s)]
    BY <1>3, <1>4
  <2>6. NewRow(c, s) \in SwitchRow /\ RowSound(NewRow(c, s)) /\ NewRow(c, s).mode # "absent"
    BY <1>1, <2>3, NewRowSound
  <2> HIDE DEF st
  <2> QED BY <1>2, <2>1, <2>2, <2>3, <2>4, <2>5, <2>6, WriteKeeps
<1>5. CASE ~Fresh(c, s)
  BY <1>2, <1>3, <1>5, RetryKeeps, FailKeeps DEF UpdateConnected
<1> QED BY <1>4, <1>5

LEMMA FinishKeeps ==
  ASSUME SwitchInv, NEW c \in Calls, Finish(c)
  PROVE  SwitchInv'
<1> DEFINE m == call[c].m
<1>1. call[c].m \in Machines /\ call[c].pc = "each"
  BY DEF Finish, SwitchInv, RowsTyped, RowsSound, Sound
<1>2. UNCHANGED <<switch, cable>>
  BY DEF Finish
<1>3. CASE call[c].op \in {"report", "reinstall", "delete"} \/ Fresh(c, m)
  <2>1. machine' = [machine EXCEPT ![m] = LastRow(c)] /\ \E x \in {None, m} : End(c, x)
    BY <1>3 DEF Finish
  <2>2. LastRow(c) \in MachineRow
    BY <1>1 DEF LastRow, NoMachine, SwitchInv, RowsTyped, MachineRow, Allocations
  <2>3. machine' \in [Machines -> MachineRow]
    BY <1>1, <2>1, <2>2 DEF SwitchInv, RowsTyped
  <2> QED BY <1>2, <2>1, <2>3, EndKeeps DEF SwitchInv, RowsTyped
<1>4. CASE ~(call[c].op \in {"report", "reinstall", "delete"} \/ Fresh(c, m))
  <2>1. (Retry(c) \/ Fail(c)) /\ UNCHANGED machine
    BY <1>4 DEF Finish
  <2> QED BY <1>1, <1>2, <2>1, RetryKeeps, FailKeeps
<1> QED BY <1>3, <1>4

----------------------------------------------------------------------------
\* The calls about switches

LEMMA FindNoSwitchKeeps ==
  ASSUME SwitchInv, NEW c \in Calls, NEW s \in Switches, NEW nics \in NicSets, FindNoSwitch(c, s, nics)
  PROVE  SwitchInv'
<1> DEFINE st == [Idle EXCEPT !.op = "registerSwitch", !.s = s, !.nics = nics, !.pc = "createSwitch"]
<1>1. nics \in SUBSET Ports
  BY ConstantsAssumption
<1>2. st \in CallState /\ st.op = "registerSwitch" /\ st.s = s /\ st.pc = "createSwitch"
  BY <1>1, ConstantsTyped DEF CallState, Operations, CallPC, SwitchCalls
<1>3. Sound(st)
  BY <1>2 DEF Sound
<1>4. Step(c, st) /\ UNCHANGED <<switch, machine, cable, seen>>
  BY DEF FindNoSwitch, Start
<1> HIDE DEF st
<1> QED BY <1>2, <1>3, <1>4, MoveKeeps

LEMMA CreateSwitchKeeps ==
  ASSUME SwitchInv, NEW c \in Calls, CreateSwitch(c)
  PROVE  SwitchInv'
<1> DEFINE s == call[c].s
<1>1. call[c] \in CallState /\ s \in Switches /\ UNCHANGED <<machine, cable>>
  BY DEF CreateSwitch, SwitchInv, RowsTyped, RowsSound, Sound, SwitchCalls
<1>2. CASE Exists(s)
  BY <1>1, <1>2, EndKeeps DEF CreateSwitch, SwitchInv, RowsTyped
<1>3. CASE ~Exists(s)
  <2>1. NewSwitch(call[c].nics) \in SwitchRow /\ RowSound(NewSwitch(call[c].nics))
    BY <1>1, NewSwitchSound DEF CallState
  <2>2. switch' = [switch EXCEPT ![s] = NewSwitch(call[c].nics)] /\ End(c, s)
    BY <1>3 DEF CreateSwitch
  <2> HIDE DEF s
  <2> QED BY <1>1, <2>1, <2>2, WriteEndKeeps
<1> QED BY <1>2, <1>3

LEMMA RegisterSwitchKeeps ==
  ASSUME SwitchInv, NEW c \in Calls, NEW s \in Switches, NEW nics \in NicSets, RegisterSwitch(c, s, nics)
  PROVE  SwitchInv'
<1> DEFINE st == [Idle EXCEPT !.op = "registerSwitch", !.s = s, !.nics = nics, !.pc = "write"]
<1>1. nics \in SUBSET Ports
  BY ConstantsAssumption
<1>2. st \in CallState /\ st.op = "registerSwitch" /\ st.s = s /\ st.pc = "write" /\ st.nics = nics
  BY <1>1, ConstantsTyped DEF CallState, Operations, CallPC, SwitchCalls
<1>3. Sound(st)
  BY <1>2 DEF Sound, MachineCalls, VRFCalls, Maintenance
<1>4. Step(c, st) /\ Read(c, {s}) /\ UNCHANGED <<switch, machine, cable>>
  BY DEF RegisterSwitch, Start
<1>5. ~RefusedNics(switch[st.s], st.nics) /\ \A x \in {s} \cap Switches : Exists(x)
  BY <1>2 DEF RegisterSwitch, Exists
<1> HIDE DEF st
<1> QED BY <1>2, <1>3, <1>4, <1>5, ReadKeeps

LEMMA UpdateSwitchKeeps ==
  ASSUME SwitchInv, NEW c \in Calls, NEW s \in Switches, NEW mode \in {"operational", "replace"},
         UpdateSwitch(c, s, mode)
  PROVE  SwitchInv'
<1> DEFINE st == [Idle EXCEPT !.op = "update", !.s = s, !.mode = mode, !.pc = "write"]
<1>1. st \in CallState /\ st.op = "update" /\ st.s = s /\ st.pc = "write" /\ st.mode = mode
  BY ConstantsTyped DEF CallState, Operations, CallPC, SwitchCalls
<1>2. Sound(st)
  BY <1>1 DEF Sound, MachineCalls, VRFCalls, Maintenance
<1>3. Step(c, st) /\ Read(c, {s}) /\ Exists(s) /\ UNCHANGED <<switch, machine, cable>>
  BY DEF UpdateSwitch, Start
<1> HIDE DEF st
<1> QED BY <1>1, <1>2, <1>3, ReadKeeps

LEMMA NotifySwitchKeeps ==
  ASSUME SwitchInv, NEW c \in Calls, NEW s \in Switches, NotifySwitch(c, s)
  PROVE  SwitchInv'
<1> DEFINE st == [Idle EXCEPT !.op = "notify", !.s = s, !.pc = "findSwitch"]
<1>1. st \in CallState /\ st.op = "notify" /\ st.s = s /\ st.pc = "findSwitch"
  BY ConstantsTyped DEF CallState, Operations, CallPC, SwitchCalls
<1>2. Sound(st)
  BY <1>1 DEF Sound, MachineCalls, VRFCalls, Maintenance
<1>3. Step(c, st) /\ UNCHANGED <<switch, machine, cable, seen>>
  BY DEF NotifySwitch, Start
<1> HIDE DEF st
<1> QED BY <1>1, <1>2, <1>3, MoveKeeps

LEMMA FindNotifiedKeeps ==
  ASSUME SwitchInv, NEW c \in Calls, FindNotified(c)
  PROVE  SwitchInv'
<1> DEFINE s == call[c].s
           st == [call[c] EXCEPT !.pc = "write", !.mode = switch[s].mode]
<1>1. call[c] \in CallState /\ s \in Switches /\ call[c].op = "notify" /\ UNCHANGED <<switch, machine, cable>>
  BY DEF FindNotified, SwitchInv, RowsTyped, RowsSound, Sound, SwitchCalls
<1>2. CASE ~Exists(s)
  BY <1>1, <1>2, EndKeeps DEF FindNotified, SwitchInv, RowsTyped
<1>3. CASE Exists(s)
  <2>1. switch[s].mode \in {"operational", "replace"}
    BY <1>1, <1>3 DEF Exists, SwitchInv, RowsTyped, SwitchRow
  <2>2. st \in CallState /\ st.op = "notify" /\ st.s = s /\ st.pc = "write" /\ st.mode = switch[s].mode
    BY <1>1, <2>1 DEF CallState, CallPC
  <2>3. Sound(st)
    BY <1>1, <2>1, <2>2 DEF Sound, MachineCalls, VRFCalls, Maintenance
  <2>4. Step(c, st) /\ Read(c, {s})
    BY <1>3 DEF FindNotified
  <2> HIDE DEF s, st
  <2> QED BY <1>1, <1>3, <2>2, <2>3, <2>4, ReadKeeps
<1> QED BY <1>2, <1>3

LEMMA WriteSwitchKeeps ==
  ASSUME SwitchInv, NEW c \in Calls, WriteSwitch(c)
  PROVE  SwitchInv'
<1> DEFINE s == call[c].s
           nics == call[c].nics
<1>1. /\ call[c] \in CallState /\ Sound(call[c]) /\ Compared(call[c], c, switch, seen)
      /\ s \in Switches /\ call[c].op \in SwitchCalls /\ UNCHANGED <<machine, cable>>
  BY DEF WriteSwitch, SwitchInv, RowsTyped, RowsSound, Sound
<1>2. CASE ~Fresh(c, s)
  BY <1>1, <1>2, EndKeeps DEF WriteSwitch, SwitchInv, RowsTyped
<1>3. CASE Fresh(c, s)
  <2>1. End(c, s)
    BY <1>3 DEF WriteSwitch
  <2>2. switch[s] \in SwitchRow /\ RowSound(switch[s]) /\ switch[s].mode # "absent"
    BY <1>1, <1>3, FreshExists DEF SwitchInv, RowsTyped, RowsSound, Exists
  <2>3. CASE call[c].op = "registerSwitch"
    <3>1. switch' = [switch EXCEPT ![s] = UpdatedNics(switch[s], nics)]
      BY <1>3, <2>3 DEF WriteSwitch
    <3>2. ~RefusedNics(switch[s], nics) /\ nics \in SUBSET Ports
      BY <1>1, <1>3, <2>3 DEF Compared, Fresh, WriteSwitch, CallState
    <3>3. UpdatedNics(switch[s], nics) \in SwitchRow /\ RowSound(UpdatedNics(switch[s], nics))
      BY <2>2, <3>2 DEF UpdatedNics, KeptConnections, RefusedNics, SwitchRow, RowSound
    <3> HIDE DEF s, nics
    <3> QED BY <1>1, <2>1, <3>1, <3>3, WriteEndKeeps
  <2>4. CASE call[c].op # "registerSwitch"
    <3> DEFINE row == [switch[s] EXCEPT !.mode = call[c].mode]
    <3>1. switch' = [switch EXCEPT ![s] = row]
      BY <1>3, <2>4 DEF WriteSwitch
    <3>2. row \in SwitchRow /\ row.nics = switch[s].nics /\ row.conn = switch[s].conn /\ row.mode = call[c].mode
      BY <1>1, <2>2 DEF CallState, SwitchRow
    <3>3. call[c].mode # "absent"
      BY <1>1, <2>4 DEF WriteSwitch, Sound, SwitchCalls, Maintenance
    <3>4. RowSound(row)
      BY <2>2, <3>2, <3>3 DEF RowSound
    <3> HIDE DEF s, row
    <3> QED BY <1>1, <2>1, <3>1, <3>2, <3>4, WriteEndKeeps
  <2> QED BY <2>3, <2>4
<1> QED BY <1>2, <1>3

----------------------------------------------------------------------------
\* Maintenance

LEMMA FindDeletedKeeps ==
  ASSUME SwitchInv, NEW c \in Calls, NEW s \in Switches, NEW force \in BOOLEAN, FindDeleted(c, s, force)
  PROVE  SwitchInv'
<1> DEFINE st == [Idle EXCEPT !.op = "deleteSwitch", !.s = s, !.pc = "remove"]
<1>1. st \in CallState /\ st.op = "deleteSwitch" /\ st.s = s /\ st.pc = "remove"
  BY ConstantsTyped DEF CallState, Operations, CallPC, SwitchCalls, Maintenance
<1>2. Sound(st)
  BY <1>1 DEF Sound
<1>3. Step(c, st) /\ UNCHANGED <<switch, machine, cable, seen>>
  BY DEF FindDeleted, Start
<1> HIDE DEF st
<1> QED BY <1>1, <1>2, <1>3, MoveKeeps

LEMMA DeleteSwitchKeeps ==
  ASSUME SwitchInv, NEW c \in Calls, DeleteSwitch(c)
  PROVE  SwitchInv'
<1> DEFINE s == call[c].s
           st == [call[c] EXCEPT !.pc = "removeStatus"]
<1>1. /\ call[c] \in CallState /\ Sound(call[c]) /\ s \in Switches /\ call[c].op = "deleteSwitch"
      /\ UNCHANGED <<machine, cable>>
  BY DEF DeleteSwitch, SwitchInv, RowsTyped, RowsSound, Sound, SwitchCalls, Maintenance
<1>2. st \in CallState /\ st.op = "deleteSwitch" /\ st.s = s /\ st.pc = "removeStatus"
  BY <1>1 DEF CallState, CallPC
<1>3. Sound(st)
  BY <1>1, <1>2 DEF Sound
<1>4. seen' \in [Switches \cup Machines -> SUBSET Calls] /\ seen'[s] = {}
      /\ \A x \in Switches \ {s} : seen'[x] = seen[x]
  BY <1>1 DEF DeleteSwitch, SwitchInv, RowsTyped
<1>5. NoSwitch \in SwitchRow /\ RowSound(NoSwitch)
  BY ConstantsTyped DEF RowSound
<1>6. switch' = [switch EXCEPT ![s] = NoSwitch] /\ Step(c, st)
  BY DEF DeleteSwitch, To
<1> HIDE DEF s, st
<1> QED BY <1>1, <1>2, <1>3, <1>4, <1>5, <1>6, WriteKeeps

LEMMA MigrateOldKeeps ==
  ASSUME SwitchInv, NEW c \in Calls, NEW s \in Switches, NEW new \in Switches, MigrateOld(c, s, new)
  PROVE  SwitchInv'
<1> DEFINE plan == Plan(switch[s])
           st == [Idle EXCEPT !.op = "migrate", !.s = s, !.new = new, !.nics = switch[s].nics,
                    !.plan = plan, !.pc = "migrateNew"]
<1>1. plan \in PlanState /\ switch[s].nics \in SUBSET Ports
  BY DEF Plan, PlanState, SwitchInv, RowsTyped, SwitchRow
<1>2. st \in CallState /\ st.op = "migrate" /\ st.s = s /\ st.new = new /\ st.pc = "migrateNew"
  <2> HIDE DEF plan
  <2> QED BY <1>1, ConstantsTyped DEF CallState, Operations, CallPC, SwitchCalls, Maintenance
<1>3. Sound(st)
  BY <1>2 DEF Sound
<1>4. Step(c, st) /\ Read(c, {s}) /\ Exists(s) /\ UNCHANGED <<switch, machine, cable>>
  BY DEF MigrateOld, Start
<1> HIDE DEF st
<1> QED BY <1>2, <1>3, <1>4, ReadKeeps

LEMMA MigrateNewKeeps ==
  ASSUME SwitchInv, NEW c \in Calls, MigrateNew(c)
  PROVE  SwitchInv'
<1> DEFINE new == call[c].new
           conn == call[c].plan.conn
           refused == \/ ~Exists(new) \/ \E m \in Machines : switch[new].conn[m] # {}
                      \/ CannotAdopt([nics |-> call[c].nics, conn |-> conn], switch[new].nics)
           todo == {m \in Machines : conn[m] # {}}
           plan == Merged(call[c].plan, call[c].nics, switch[new])
           st == [call[c] EXCEPT !.pc = "adjust", !.nics = switch[new].nics, !.plan = plan, !.todo = todo]
<1>1. call[c] \in CallState /\ Sound(call[c]) /\ UNCHANGED <<switch, machine, cable>>
      /\ call[c].op \in {"migrate", "replace"}
  BY DEF MigrateNew, SwitchInv, RowsTyped, RowsSound, Sound
<1>2. CASE refused
  BY <1>1, <1>2, EndKeeps DEF MigrateNew, SwitchInv, RowsTyped
<1>3. CASE ~refused
  <2>1. Exists(new) /\ \A m \in Machines : conn[m] \subseteq switch[new].nics
    BY <1>3 DEF CannotAdopt
  <2>2. Step(c, st) /\ Read(c, {new})
    BY <1>3 DEF MigrateNew
  <2>3. CASE new \in Switches
    <3>1. switch[new].nics \in SUBSET Ports /\ todo \in SUBSET (Switches \cup Machines)
      BY <2>3 DEF SwitchInv, RowsTyped, SwitchRow
    <3>p. plan \in PlanState /\ plan.conn = conn
      <4>1. call[c].plan \in PlanState /\ switch[new].vrf \in [Ports -> {"none", "tenant"}]
        BY <1>1, <2>3 DEF CallState, SwitchInv, RowsTyped, SwitchRow
      <4> DEFINE vrf == [p \in Ports |-> IF p \in call[c].nics THEN call[c].plan.vrf[p] ELSE switch[new].vrf[p]]
      <4>2. vrf \in [Ports -> {"none", "tenant"}]
        BY <4>1 DEF PlanState
      <4>3. plan = [call[c].plan EXCEPT !.vrf = vrf]
        BY DEF Merged
      <4> HIDE DEF vrf, plan
      <4> QED BY <4>1, <4>2, <4>3 DEF PlanState
    <3>2. st \in CallState /\ st.op = call[c].op /\ st.s = call[c].s /\ st.new = new /\ st.pc = "adjust"
          /\ st.todo = todo /\ st.plan = plan /\ st.nics = switch[new].nics
      <4> HIDE DEF todo, plan
      <4> QED BY <1>1, <3>1, <3>p DEF CallState, CallPC
    <3>3. Sound(st)
      BY <1>1, <2>1, <3>2, <3>p DEF Sound
    <3> HIDE DEF st, new
    <3> QED BY <1>1, <2>1, <2>2, <3>2, <3>3, ReadKeeps
  <2>4. new \in Switches
    BY <1>1 DEF Sound, MigrateNew
  <2> QED BY <2>3, <2>4
<1> QED BY <1>2, <1>3

LEMMA ReplaceSwitchKeeps ==
  ASSUME SwitchInv, NEW c \in Calls, NEW s \in Switches, NEW nics \in NicSets, ReplaceSwitch(c, s, nics)
  PROVE  SwitchInv'
<1> DEFINE todo == {m \in Machines : s \in Connected(m)}
           st == [Idle EXCEPT !.op = "replace", !.s = s, !.nics = nics, !.pc = "twin", !.todo = todo]
<1>1. nics \in SUBSET Ports /\ todo \in SUBSET (Switches \cup Machines) /\ todo \subseteq Machines
  BY ConstantsAssumption
<1>2. st \in CallState /\ st.op = "replace" /\ st.s = s /\ st.pc = "twin" /\ st.todo = todo
  <2> HIDE DEF todo
  <2> QED BY <1>1, ConstantsTyped DEF CallState, Operations, CallPC, SwitchCalls, Maintenance
<1>3. Sound(st)
  BY <1>1, <1>2 DEF Sound
<1>4. Step(c, st) /\ Read(c, {s}) /\ Exists(s) /\ UNCHANGED <<switch, machine, cable>>
  BY DEF ReplaceSwitch, Start, Exists
<1> HIDE DEF st
<1> QED BY <1>2, <1>3, <1>4, ReadKeeps

LEMMA FindTwinKeeps ==
  ASSUME SwitchInv, NEW c \in Calls, FindTwin(c)
  PROVE  SwitchInv'
<1>1. call[c] \in CallState /\ Sound(call[c]) /\ UNCHANGED <<switch, machine, cable>>
  BY DEF FindTwin, SwitchInv, RowsTyped, RowsSound
<1>2. CASE End(c, None)
  BY <1>1, <1>2, EndKeeps DEF SwitchInv, RowsTyped
<1>3. CASE ~End(c, None)
  <2>1. PICK t \in Switches :
           /\ ~CannotAdopt(switch[t], call[c].nics) /\ UNCHANGED seen
           /\ Step(c, [call[c] EXCEPT !.plan = Plan(switch[t]), !.pc = "adjust"])
    BY <1>3 DEF FindTwin
  <2> DEFINE plan == Plan(switch[t])
             st == [call[c] EXCEPT !.plan = plan, !.pc = "adjust"]
  <2>2. plan \in PlanState /\ \A m \in Machines : plan.conn[m] \subseteq call[c].nics
    BY <2>1 DEF Plan, PlanState, CannotAdopt, SwitchInv, RowsTyped, SwitchRow
  <2>3. st \in CallState /\ st.op = call[c].op /\ st.s = call[c].s /\ st.new = call[c].new
        /\ st.pc = "adjust" /\ st.todo = call[c].todo /\ st.plan = plan /\ st.nics = call[c].nics
    <3> HIDE DEF plan
    <3> QED BY <1>1, <2>2 DEF CallState, CallPC
  <2>4. Sound(st)
    BY <1>1, <2>2, <2>3 DEF Sound, FindTwin
  <2>5. Step(c, st)
    BY <2>1
  <2> HIDE DEF st
  <2> QED BY <1>1, <2>1, <2>3, <2>4, <2>5, MoveKeeps
<1> QED BY <1>2, <1>3

LEMMA AdjustReadKeeps ==
  ASSUME SwitchInv, NEW c \in Calls, AdjustRead(c)
  PROVE  SwitchInv'
<1>1. call[c] \in CallState /\ Sound(call[c]) /\ UNCHANGED <<switch, machine, cable>>
  BY DEF AdjustRead, SwitchInv, RowsTyped, RowsSound
<1>2. PICK m \in call[c].todo :
         \/ Read(c, {m}) /\ Step(c, [call[c] EXCEPT !.pc = "adjustWrite", !.m = m])
         \/ Fail(c)
  BY DEF AdjustRead
<1>3. CASE Fail(c)
  BY <1>1, <1>3, FailKeeps
<1>4. CASE Read(c, {m}) /\ Step(c, [call[c] EXCEPT !.pc = "adjustWrite", !.m = m])
  <2> DEFINE st == [call[c] EXCEPT !.pc = "adjustWrite", !.m = m]
  <2>1. m \in Machines /\ {m} \cap Switches = {}
    BY <1>1, ConstantsAssumption DEF Sound, AdjustRead
  <2>2. st \in CallState /\ st.op = call[c].op /\ st.s = call[c].s /\ st.new = call[c].new
        /\ st.pc = "adjustWrite" /\ st.todo = call[c].todo /\ st.plan = call[c].plan
        /\ st.nics = call[c].nics /\ st.m = m
    BY <1>1, <2>1 DEF CallState, CallPC
  <2>3. Sound(st)
    BY <1>1, <2>1, <2>2 DEF Sound, AdjustRead
  <2> HIDE DEF st
  <2> QED BY <1>1, <1>4, <2>1, <2>2, <2>3, ReadKeeps DEF st
<1> QED BY <1>2, <1>3, <1>4

LEMMA AdjustWriteKeeps ==
  ASSUME SwitchInv, NEW c \in Calls, AdjustWrite(c)
  PROVE  SwitchInv'
<1> DEFINE m == call[c].m
           todo == call[c].todo \ {m}
           st == [call[c] EXCEPT !.pc = "adjust", !.m = None, !.todo = todo]
<1>1. call[c] \in CallState /\ Sound(call[c]) /\ m \in Machines /\ UNCHANGED <<switch, machine, cable>>
  BY DEF AdjustWrite, SwitchInv, RowsTyped, RowsSound, Sound
<1>2. CASE ~Fresh(c, m)
  BY <1>1, <1>2, FailKeeps DEF AdjustWrite
<1>3. CASE Fresh(c, m)
  <2>1. todo \in SUBSET (Switches \cup Machines) /\ todo \subseteq Machines
    BY <1>1 DEF CallState, Sound, AdjustWrite
  <2>2. st \in CallState /\ st.op = call[c].op /\ st.s = call[c].s /\ st.new = call[c].new
        /\ st.pc = "adjust" /\ st.todo = todo /\ st.plan = call[c].plan /\ st.nics = call[c].nics
    <3> HIDE DEF todo
    <3> QED BY <1>1, <2>1 DEF CallState, CallPC
  <2>3. Sound(st)
    BY <1>1, <2>1, <2>2 DEF Sound, AdjustWrite
  <2>4. Step(c, st) /\ seen' = [seen EXCEPT ![m] = {}]
    BY <1>3 DEF AdjustWrite
  <2>5. m \notin Switches
    BY <1>1, ConstantsAssumption
  <2>6. seen' \in [Switches \cup Machines -> SUBSET Calls] /\ \A x \in Switches : seen'[x] = seen[x]
    BY <1>1, <2>4, <2>5 DEF SwitchInv, RowsTyped
  <2>7. st.pc # "write"
    BY <2>2
  <2> HIDE DEF st, m, todo
  <2> QED BY <1>1, <2>2, <2>3, <2>4, <2>6, <2>7, QuietKeeps DEF SwitchInv, RowsTyped
<1> QED BY <1>2, <1>3

LEMMA RemoveConnectionsKeeps ==
  ASSUME SwitchInv, NEW c \in Calls, RemoveConnections(c)
  PROVE  SwitchInv'
<1> DEFINE s == call[c].s
           row == [switch[s] EXCEPT !.conn = NoPlan.conn]
           st == [call[c] EXCEPT !.pc = "adopt", !.changed = TRUE]
<1>1. /\ call[c] \in CallState /\ Sound(call[c]) /\ s \in Switches /\ call[c].op = "migrate"
      /\ UNCHANGED <<machine, cable>>
  BY DEF RemoveConnections, SwitchInv, RowsTyped, RowsSound, Sound, SwitchCalls, Maintenance
<1>2. CASE ~Fresh(c, s)
  BY <1>1, <1>2, FailKeeps DEF RemoveConnections
<1>3. CASE Fresh(c, s)
  <2>1. switch[s] \in SwitchRow /\ switch[s].mode # "absent"
    BY <1>1, <1>3, FreshExists DEF SwitchInv, RowsTyped, Exists
  <2>2. NoPlan.conn = [m \in Machines |-> {}]
    BY DEF NoPlan, NoSwitch
  <2>3. row \in SwitchRow /\ row.mode # "absent" /\ RowSound(row)
    BY <2>1, <2>2 DEF SwitchRow, RowSound
  <2>4. st \in CallState /\ st.op = call[c].op /\ st.s = s /\ st.new = call[c].new
        /\ st.pc = "adopt" /\ st.plan = call[c].plan /\ st.nics = call[c].nics
    BY <1>1 DEF CallState, CallPC
  <2>5. Sound(st)
    BY <1>1, <2>4 DEF Sound, RemoveConnections
  <2>6. switch' = [switch EXCEPT ![s] = row] /\ Wrote(c, s) /\ Step(c, st)
    BY <1>3 DEF RemoveConnections
  <2>7. seen' \in [Switches \cup Machines -> SUBSET Calls] /\ seen'[s] = {c}
        /\ \A x \in Switches \ {s} : seen'[x] = seen[x]
    BY <1>1, <2>6 DEF Wrote, SwitchInv, RowsTyped
  <2>8. st.pc # "write" /\ s \in Switches /\ UNCHANGED <<machine, cable>>
    BY <1>1, <2>4
  <2>9. \A x \in Switches \ {s} : seen'[x] \subseteq seen[x]
    BY <2>7
  <2> HIDE DEF st, s, row
  <2>10. /\ s \in Switches /\ row \in SwitchRow /\ RowSound(row) /\ switch' = [switch EXCEPT ![s] = row]
         /\ st \in CallState /\ Sound(st) /\ Step(c, st) /\ UNCHANGED <<machine, cable>>
         /\ seen' \in [Switches \cup Machines -> SUBSET Calls]
         /\ seen'[s] = {} \/ (seen'[s] = {c} /\ row.mode # "absent")
         /\ ~(st.op = "registerSwitch" /\ st.pc = "write")
    BY <2>3, <2>4, <2>5, <2>6, <2>7, <2>8
  <2> QED BY <2>9, <2>10, WriteKeeps
<1> QED BY <1>2, <1>3

LEMMA AdoptKeeps ==
  ASSUME SwitchInv, NEW c \in Calls, Adopt(c)
  PROVE  SwitchInv'
<1> DEFINE s == IF call[c].op = "migrate" THEN call[c].new ELSE call[c].s
           row == Adopted(call[c].nics, call[c].plan)
<1>1. call[c] \in CallState /\ Sound(call[c]) /\ s \in Switches /\ UNCHANGED <<machine, cable>>
  BY DEF Adopt, SwitchInv, RowsTyped, RowsSound, Sound, SwitchCalls, Maintenance
<1>2. CASE ~Fresh(c, s)
  BY <1>1, <1>2, FailKeeps DEF Adopt
<1>3. CASE Fresh(c, s)
  <2>1. row \in SwitchRow /\ RowSound(row)
    BY <1>1 DEF Adopt, Adopted, Sound, CallState, PlanState, SwitchRow, RowSound
  <2>2. switch' = [switch EXCEPT ![s] = row] /\ End(c, s)
    BY <1>3 DEF Adopt
  <2> HIDE DEF s, row
  <2> QED BY <1>1, <2>1, <2>2, WriteEndKeeps
<1> QED BY <1>2, <1>3

----------------------------------------------------------------------------
LEMMA OutsideKeeps ==
  ASSUME SwitchInv, NEW m \in Machines, Allocate(m) \/ OtherWrite(m) \/ PlugIn(m)
  PROVE  SwitchInv'
<1>1. UNCHANGED <<switch, call>>
  BY DEF Allocate, OtherWrite, PlugIn
<1>2. machine' \in [Machines -> MachineRow]
  BY DEF Allocate, OtherWrite, PlugIn, SwitchInv, RowsTyped, MachineRow, Allocations
<1>3. cable' \in [Machines -> Cables]
  BY DEF Allocate, OtherWrite, PlugIn, SwitchInv, RowsTyped, Cables
<1>4. m \notin Switches
  BY ConstantsAssumption
<1>5. /\ seen' \in [Switches \cup Machines -> SUBSET Calls]
      /\ \A x \in Switches : seen'[x] = seen[x]
  BY <1>4 DEF Allocate, OtherWrite, PlugIn, SwitchInv, RowsTyped
<1>6. \A d \in Calls : Compared(call[d], d, switch, seen) =>
                          (Compared(call[d], d, switch, seen))'
  <2>1. \A d \in Calls : call[d].op = "registerSwitch" => call[d].s \in Switches
    BY DEF SwitchInv, RowsSound, Sound, SwitchCalls
  <2> QED BY <1>1, <1>5, <2>1 DEF Compared
<1> QED BY <1>1, <1>2, <1>3, <1>5, <1>6 DEF SwitchInv, RowsTyped, RowsSound, Exists

LEMMA DeleteStatusKeeps ==
  ASSUME SwitchInv, NEW c \in Calls, DeleteStatus(c)
  PROVE  SwitchInv'
  BY EndKeeps DEF DeleteStatus, SwitchInv, RowsTyped

LEMMA CallFailsKeeps ==
  ASSUME SwitchInv, NEW c \in Calls, CallFails(c)
  PROVE  SwitchInv'
  BY FailKeeps DEF CallFails

LEMMA StutterKeeps ==
  ASSUME SwitchInv, UNCHANGED vars
  PROVE  SwitchInv'
  BY DEF vars, SwitchInv, RowsTyped, RowsSound, Compared, Exists

LEMMA NextKeeps ==
  ASSUME SwitchInv, [Next]_vars
  PROVE  SwitchInv'
<1>1. ASSUME NEW c \in Calls, NEW op \in MachineCalls, NEW m \in Machines, FindMachine(c, op, m)
      PROVE  SwitchInv'
  BY <1>1, FindMachineKeeps
<1>2. ASSUME NEW c \in Calls, NEW s \in Switches, NEW nics \in NicSets,
             FindNoSwitch(c, s, nics) \/ RegisterSwitch(c, s, nics) \/ ReplaceSwitch(c, s, nics)
      PROVE  SwitchInv'
  BY <1>2, FindNoSwitchKeeps, RegisterSwitchKeeps, ReplaceSwitchKeeps
<1>3. ASSUME NEW c \in Calls, NEW s \in Switches,
             \/ \E mode \in {"operational", "replace"} : UpdateSwitch(c, s, mode)
             \/ NotifySwitch(c, s)
             \/ \E force \in BOOLEAN : FindDeleted(c, s, force)
             \/ \E new \in Switches : MigrateOld(c, s, new)
      PROVE  SwitchInv'
  BY <1>3, UpdateSwitchKeeps, NotifySwitchKeeps, FindDeletedKeeps, MigrateOldKeeps
<1>4. ASSUME NEW c \in Calls,
             \/ CreateMachine(c) \/ UpdateMachine(c) \/ CreateContainer(c)
             \/ SearchSwitches(c) \/ UpdateConnected(c) \/ Finish(c)
      PROVE  SwitchInv'
  BY <1>4, CreateMachineKeeps, UpdateMachineKeeps, CreateContainerKeeps, SearchSwitchesKeeps,
     UpdateConnectedKeeps, FinishKeeps
<1>5. ASSUME NEW c \in Calls,
             \/ CreateSwitch(c) \/ FindNotified(c) \/ WriteSwitch(c) \/ DeleteSwitch(c) \/ DeleteStatus(c)
             \/ MigrateNew(c) \/ FindTwin(c) \/ AdjustRead(c) \/ AdjustWrite(c)
             \/ RemoveConnections(c) \/ Adopt(c) \/ CallFails(c)
      PROVE  SwitchInv'
  BY <1>5, CreateSwitchKeeps, FindNotifiedKeeps, WriteSwitchKeeps, DeleteSwitchKeeps, DeleteStatusKeeps,
     MigrateNewKeeps, FindTwinKeeps, AdjustReadKeeps, AdjustWriteKeeps, RemoveConnectionsKeeps, AdoptKeeps,
     CallFailsKeeps
<1>6. ASSUME NEW m \in Machines, Allocate(m) \/ OtherWrite(m) \/ PlugIn(m)
      PROVE  SwitchInv'
  BY <1>6, OutsideKeeps
<1> QED BY <1>1, <1>2, <1>3, <1>4, <1>5, <1>6, StutterKeeps DEF Next

\* The rows of the switches, the copies the calls hold of them and what each call has checked
\* fit together in every state: the invariant the two theorems below need.
THEOREM RowsInvariant == Spec => []SwitchInv
<1>1. Init => SwitchInv
  BY InitSound
<1>2. SwitchInv /\ [Next]_vars => SwitchInv'
  BY NextKeeps
<1> QED BY <1>1, <1>2, PTL DEF Spec

\* The ports of a switch a machine is connected to are there, also when the switch registers
\* anew with fewer ports while the machine registers (updateSwitchNics compares with the
\* connections of its copy, and the write asks for the row that copy was).
THEOREM PortsExist == Spec => []ConnectedPortsExist
<1>1. SwitchInv => ConnectedPortsExist
  BY DEF SwitchInv, RowsSound, RowSound, ConnectedPortsExist
<1> QED BY <1>1, RowsInvariant, PTL

----------------------------------------------------------------------------
\* Who may change the connections of a machine

Allowed(s, m) ==
    \/ switch'[s].conn[m] = switch[s].conn[m]
    \/ \E c \in Calls : \/ call[c].op \in Maintenance
                        \/ call[c].op \in {"register", "delete"} /\ call[c].m = m

\* Register and deleteMachine change the connections of their machine, Report, reinstall
\* and free those of none.
LEMMA UpdateConnectedAllowed ==
  ASSUME SwitchInv, NEW c \in Calls, UpdateConnected(c), NEW s \in Switches, NEW m \in Machines
  PROVE  Allowed(s, m)
<1>1. PICK t \in call[c].todo : UNCHANGED switch \/ switch' = [switch EXCEPT ![t] = NewRow(c, t)]
  BY DEF UpdateConnected
<1>2. CASE UNCHANGED switch
  BY <1>2 DEF Allowed
<1>3. CASE switch' = [switch EXCEPT ![t] = NewRow(c, t)]
  <2>1. switch[s] \in SwitchRow /\ (s = t => switch'[s] = NewRow(c, s)) /\ (s # t => switch'[s] = switch[s])
    BY <1>3 DEF SwitchInv, RowsTyped
  <2> DEFINE k == call[c].m
             row == switch[s]
  <2>2. ASSUME NEW P PROVE m # k => [row EXCEPT !.conn[k] = P].conn[m] = row.conn[m]
    BY <2>1 DEF SwitchRow
  <2>3. ASSUME NEW v PROVE SetVRFOf(row, k, v).conn[m] = row.conn[m]
    BY <2>1 DEF SetVRFOf, SwitchRow
  <2>4. CASE s # t
    BY <2>1, <2>4 DEF Allowed
  <2>5. CASE call[c].op \in {"register", "delete"} /\ k = m
    BY <2>5 DEF Allowed
  <2>6. CASE s = t /\ call[c].op \in {"register", "delete"} /\ m # k
    <3>1. \/ NewRow(c, s) = [row EXCEPT !.conn[k] = NicsOf(call[c].plug, s)]
          \/ NewRow(c, s) = [row EXCEPT !.conn[k] = {}]
      BY <2>6 DEF NewRow
    <3> HIDE DEF k, row
    <3>2. NewRow(c, s).conn[m] = row.conn[m]
      BY <2>2, <2>6, <3>1, Zenon
    <3> QED BY <2>1, <2>6, <3>2 DEF Allowed, row
  <2>7. CASE s = t /\ call[c].op \notin {"register", "delete"}
    <3>1. NewRow(c, s) = SetVRFOf(row, k, IF call[c].op = "report" THEN "tenant" ELSE "none")
      BY <2>7 DEF NewRow
    <3> QED BY <2>1, <2>3, <2>7, <3>1 DEF Allowed
  <2> QED BY <2>4, <2>5, <2>6, <2>7
<1> QED BY <1>1, <1>2, <1>3

\* A switch is created without connections where there is no row, and so none.
LEMMA CreateSwitchAllowed ==
  ASSUME SwitchInv, NEW c \in Calls, CreateSwitch(c), NEW s \in Switches, NEW m \in Machines
  PROVE  Allowed(s, m)
<1> DEFINE t == call[c].s
           nics == call[c].nics
<1>1. switch' = switch \/ (~Exists(t) /\ switch' = [switch EXCEPT ![t] = NewSwitch(nics)])
  BY DEF CreateSwitch
<1>2. NewSwitch(nics).conn[m] = {}
  BY NewSwitchSound DEF SwitchInv, RowsTyped, CallState
<1>3. ~Exists(s) => switch[s].conn[m] = {}
  BY DEF SwitchInv, RowsSound, RowSound, Exists
<1>4. s # t => [switch EXCEPT ![t] = NewSwitch(nics)][s] = switch[s]
  BY DEF SwitchInv, RowsTyped
<1>5. s = t => [switch EXCEPT ![t] = NewSwitch(nics)][s] = NewSwitch(nics)
  BY DEF SwitchInv, RowsTyped
<1> HIDE DEF t, nics
<1> QED BY <1>1, <1>2, <1>3, <1>4, <1>5 DEF Allowed

\* A switch that registers again, or changes its mode, keeps the connections it has.
LEMMA WriteSwitchAllowed ==
  ASSUME SwitchInv, NEW c \in Calls, WriteSwitch(c), NEW s \in Switches, NEW m \in Machines
  PROVE  Allowed(s, m)
<1> DEFINE t == call[c].s
           nics == call[c].nics
           mode == call[c].mode
<1>1. \/ switch' = switch
      \/ switch' = [switch EXCEPT ![t] = UpdatedNics(switch[t], nics)]
      \/ switch' = [switch EXCEPT ![t] = [switch[t] EXCEPT !.mode = mode]]
  BY DEF WriteSwitch
<1>2. UpdatedNics(switch[s], nics).conn = switch[s].conn
  BY DEF UpdatedNics, KeptConnections, SwitchInv, RowsTyped, SwitchRow
<1>3. [switch[s] EXCEPT !.mode = mode].conn = switch[s].conn
  BY DEF SwitchInv, RowsTyped, SwitchRow
<1>4. ASSUME NEW row, switch' = [switch EXCEPT ![t] = row]
      PROVE  (s # t => switch'[s] = switch[s]) /\ (s = t => switch'[s] = row)
  BY <1>4 DEF SwitchInv, RowsTyped
<1>5. switch'[s].conn = switch[s].conn
  <2> HIDE DEF t, nics, mode
  <2> QED BY <1>1, <1>2, <1>3, <1>4
<1> QED BY <1>5 DEF Allowed

\* No other writer of a switch loses a connection: only a registration, a deletion, a
\* replacement or a migration changes those of a machine, the first two its own (registerSwitch:
\* "Do not replace connections here: We do not want to loose them!").
THEOREM NoneLost == Spec => ConnectionsKept
<1>1. ASSUME SwitchInv, [Next]_vars, NEW s \in Switches, NEW m \in Machines
      PROVE  Allowed(s, m)
  <2>1. CASE UNCHANGED switch
    BY <2>1 DEF Allowed
  <2>2. CASE \E c \in Calls : UpdateConnected(c) \/ CreateSwitch(c) \/ WriteSwitch(c)
    BY <1>1, <2>2, UpdateConnectedAllowed, CreateSwitchAllowed, WriteSwitchAllowed
  <2>3. CASE \E c \in Calls : DeleteSwitch(c) \/ RemoveConnections(c) \/ Adopt(c)
    <3>1. PICK c \in Calls : DeleteSwitch(c) \/ RemoveConnections(c) \/ Adopt(c)
      BY <2>3
    <3>2. call[c].op \in Maintenance
      BY <1>1, <3>1 DEF DeleteSwitch, RemoveConnections, Adopt, SwitchInv, RowsSound, Sound, Maintenance
    <3> QED BY <3>2 DEF Allowed
  <2>4. ASSUME NEW c \in Calls,
               \/ \E op \in MachineCalls, k \in Machines : FindMachine(c, op, k)
               \/ \E t \in Switches :
                     \/ \E nics \in NicSets :
                           FindNoSwitch(c, t, nics) \/ RegisterSwitch(c, t, nics) \/ ReplaceSwitch(c, t, nics)
                     \/ \E mode \in {"operational", "replace"} : UpdateSwitch(c, t, mode)
                     \/ NotifySwitch(c, t)
                     \/ \E force \in BOOLEAN : FindDeleted(c, t, force)
                     \/ \E new \in Switches : MigrateOld(c, t, new)
        PROVE  UNCHANGED switch
    <3>1. ASSUME NEW next, Start(c, next) PROVE UNCHANGED switch
      BY <3>1 DEF Start
    <3> QED BY <2>4, <3>1 DEF FindMachine, FindNoSwitch, RegisterSwitch, ReplaceSwitch, UpdateSwitch,
               NotifySwitch, FindDeleted, MigrateOld
  <2>5. ASSUME NEW c \in Calls,
               \/ CreateMachine(c) \/ UpdateMachine(c) \/ CreateContainer(c) \/ SearchSwitches(c) \/ Finish(c)
               \/ FindNotified(c) \/ DeleteStatus(c) \/ MigrateNew(c) \/ FindTwin(c)
               \/ AdjustRead(c) \/ AdjustWrite(c) \/ CallFails(c)
        PROVE  UNCHANGED switch
    BY <2>5 DEF CreateMachine, UpdateMachine, CreateContainer, SearchSwitches, Finish, FindNotified,
       DeleteStatus, MigrateNew, FindTwin, AdjustRead, AdjustWrite, CallFails
  <2>6. ASSUME NEW k \in Machines, Allocate(k) \/ OtherWrite(k) \/ PlugIn(k)
        PROVE  UNCHANGED switch
    BY <2>6 DEF Allocate, OtherWrite, PlugIn
  <2>7. UNCHANGED vars => UNCHANGED switch
    BY DEF vars
  <2>8. \/ UNCHANGED switch
        \/ \E c \in Calls : \/ UpdateConnected(c) \/ CreateSwitch(c) \/ WriteSwitch(c)
                            \/ DeleteSwitch(c) \/ RemoveConnections(c) \/ Adopt(c)
    BY <1>1, <2>4, <2>5, <2>6, <2>7 DEF Next
  <2> QED BY <2>1, <2>2, <2>3, <2>8
<1>2. SwitchInv /\ [Next]_vars =>
         [\A s \in Switches, m \in Machines :
            switch'[s].conn[m] = switch[s].conn[m]
            \/ \E c \in Calls : \/ call[c].op \in Maintenance
                                \/ call[c].op \in {"register", "delete"} /\ call[c].m = m]_vars
  BY <1>1 DEF Allowed
<1> QED BY <1>2, RowsInvariant, PTL DEF Spec, ConnectionsKept
=============================================================================
