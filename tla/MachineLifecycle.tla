--------------------------- MODULE MachineLifecycle ---------------------------
(***************************************************************************)
(* What happens to one machine apart from its allocation: administrators    *)
(* set its state, switch its identify LED, free it and delete it, its BMC   *)
(* is reported, the machine registers, and the jobs of metal-api evaluate   *)
(* its liveliness and resurrect it (machine-service.go).  Every handler      *)
(* reads first and writes later; a write is refused when the row was         *)
(* written in between, a message or a deletion is not.                       *)
(*                                                                         *)
(* What a handler keeps of the row is the copy it read, and whether the row *)
(* is still that one: its time stamp.                                       *)
(***************************************************************************)
EXTENDS Naturals, FiniteSets

CONSTANTS
    Handlers,         \* handlers at a time
    MaxHandled,       \* bound on the calls
    IPMISuperUser,    \* the handlers whose replica found the super user's password
    LifecycleAssumed  \* what a run takes for granted, a subset of LifecycleAssumptions

(***************************************************************************)
(*   "timely"    a call ends before the machine is silent for long enough   *)
(*               to be dead (MachineDeadAfter is five minutes): else one    *)
(*               that is allocated after the jobs listed it, and then falls *)
(*               silent, is judged and deleted as the free one of the list  *)
(*   "asleep"    a machine that was found dead, or with a failed reclaim,   *)
(*               does not come back while the call that found it goes on    *)
(*   "wanted"    nobody asks by its name for a machine that does not wait   *)
(*   "freeOnce"  nobody frees a machine that is being freed, or one that is *)
(*               not allocated                                              *)
(***************************************************************************)
LifecycleAssumptions == {"timely", "asleep", "wanted", "freeOnce"}

ASSUME LifecycleAssumption ==
    /\ IsFiniteSet(Handlers) /\ MaxHandled \in Nat
    /\ IPMISuperUser \subseteq Handlers
    /\ LifecycleAssumed \subseteq LifecycleAssumptions

VARIABLES
    machine,  \* the row in the machine table
    box,      \* its event container, as far as the jobs look at it
    led,      \* the LED at the BMC
    bus,      \* the messages to the BMC that are on their way
    handler,  \* the calls and jobs
    report,   \* the report that is handled: what the BMC said, and the row read
    handled   \* how many calls came in

lifecycleVars == <<machine, box, led, bus, handler, report, handled>>

LEDs == {"on", "off"}
MStates == {"available", "locked"}
Livelinesses == {"Alive", "Dead", "Unknown"}

\* owner is the number of the call that allocated the machine, 0 for none; who
\* had it at the start comes after all calls.
FirstOwner == MaxHandled + 1
MachineRow == [there: BOOLEAN, owner: 0 .. FirstOwner, state: MStates, led: LEDs,
               waiting: BOOLEAN, credentials: BOOLEAN]
\* silent: 0 within MachineDeadAfter, 1 beyond it, 2 beyond MachineResurrectAfter.
Box == [there: BOOLEAN, liveliness: Livelinesses, silent: 0 .. 2, failedReclaim: BOOLEAN]

NoMachine == [there |-> FALSE, owner |-> 0, state |-> "available", led |-> "off",
              waiting |-> FALSE, credentials |-> FALSE]
NewBox == [there |-> TRUE, liveliness |-> "Alive", silent |-> 0, failedReclaim |-> FALSE]

Operations == {"state", "led", "free", "delete", "byName", "elected", "register",
               "evaluate", "resurrect"}
\* read: what was read of the row; current: whether that is still the row;
\* to: the state or LED asked for; looked: the container read with the row.
Idle == [op |-> "none", at |-> "read", read |-> NoMachine, current |-> FALSE,
         to |-> "off", number |-> 0, looked |-> NewBox]

LifecycleTypeOK ==
    /\ machine \in MachineRow /\ box \in Box /\ led \in LEDs
    /\ bus \subseteq [what: LEDs \cup {"delete"}, credentials: BOOLEAN, by: Operations]
    /\ \A h \in Handlers :
          /\ handler[h].op \in Operations \cup {"none"}
          /\ handler[h].at \in {"read", "look", "write", "announce", "publish", "publishLED"}
          /\ handler[h].read \in MachineRow /\ handler[h].looked \in Box
    /\ report.at \in {"none", "read", "write"} /\ report.led \in LEDs
    /\ handled \in 0 .. MaxHandled

LifecycleInit ==
    /\ box \in {NewBox, [NewBox EXCEPT !.liveliness = "Dead", !.silent = 2]}
    /\ \E o \in {0, FirstOwner}, c \in BOOLEAN :
          /\ machine = [NoMachine EXCEPT !.there = TRUE, !.credentials = c, !.owner = o]
          /\ o # 0 \/ box.liveliness = "Dead" => c
    /\ box.liveliness = "Dead" => machine.owner = 0
    /\ led = "off" /\ bus = {}
    /\ handler = [h \in Handlers |-> Idle]
    /\ report = [at |-> "none", led |-> "off", read |-> NoMachine, current |-> FALSE]
    /\ handled = 0

----------------------------------------------------------------------------
\* Reads and writes

\* Mutant of Unwritten: the row is replaced whatever it is.
AnyStamp(copy) == TRUE
Unwritten(copy) == copy.current

\* The row becomes r; what anybody read before is out of date.
Replaced(r) ==
    /\ machine' = r
    /\ report' = [report EXCEPT !.current = FALSE]
Overtaken(h) == [h EXCEPT !.current = FALSE]

\* Handler h goes on as next, and the row is written.
WriteAnd(h, r, next) ==
    /\ Replaced(r)
    /\ handler' = [g \in Handlers |-> IF g = h THEN Overtaken(next) ELSE Overtaken(handler[g])]

Proceed(h, next) ==
    /\ handler' = [handler EXCEPT ![h] = next]
    /\ UNCHANGED <<machine, report>>

End(h) == Proceed(h, Idle)

\* h writes the changed row and is at next afterwards, or fails.
WriteOrEnd(h, r, next) ==
    IF machine.there /\ Unwritten(handler[h]) THEN WriteAnd(h, r, next) ELSE End(h)

Handling(h, op, at) == handler[h].op = op /\ handler[h].at = at

\* What a handler works on from its first look at a machine to its last effect.
Freeing == \E h \in Handlers : handler[h].op = "free"
Deciding == \E h \in Handlers :
    handler[h].op \in {"resurrect", "delete"} /\ handler[h].at \notin {"read", "look"}

Receive(h, op, to) ==
    /\ handler[h].op = "none" /\ handled < MaxHandled
    /\ handled' = handled + 1
    /\ handler' = [handler EXCEPT ![h] = [Idle EXCEPT !.op = op, !.to = to, !.number = handled + 1]]
    /\ UNCHANGED <<machine, box, led, bus, report>>

Call(h) ==
    \/ \E s \in MStates : Receive(h, "state", s)
    \/ \E l \in LEDs : Receive(h, "led", l)
    \/ Receive(h, "free", "off") /\ ("freeOnce" \in LifecycleAssumed => ~Freeing)
    \/ \E op \in {"delete", "byName", "elected", "register", "evaluate", "resurrect"} :
          Receive(h, op, "off")

\* Most handlers end here when the machine is unknown, or not what they ask for.
Accepts(op) ==
    CASE op = "register" -> TRUE
      [] op \in {"delete", "resurrect"} -> machine.there /\ machine.owner = 0
      [] op = "byName" ->
            /\ machine.there /\ machine.owner = 0
            /\ "wanted" \in LifecycleAssumed => machine.waiting
      [] op = "elected" ->
            /\ machine.there /\ machine.owner = 0 /\ machine.state = "available"
            /\ machine.waiting
            /\ box.there /\ box.liveliness = "Alive"
      [] op = "free" -> machine.there /\ ("freeOnce" \in LifecycleAssumed => machine.owner # 0)
      [] OTHER -> machine.there

\* What comes after the row is read.
After(op) ==
    CASE op \in {"delete", "resurrect", "evaluate"} -> "look"
      [] op = "free" -> "publishLED"
      [] OTHER -> "write"

Read(h) ==
    /\ handler[h].op # "none" /\ handler[h].at = "read"
    /\ IF Accepts(handler[h].op)
       THEN Proceed(h, [handler[h] EXCEPT !.at = After(handler[h].op), !.read = machine,
                                          !.current = TRUE,
                                          !.looked = IF handler[h].op = "resurrect" THEN box ELSE @])
       ELSE End(h)
    /\ UNCHANGED <<box, led, bus, handled>>

----------------------------------------------------------------------------
\* setMachineState, allocateMachine as far as the row goes, Register

SetMachineState(h) ==
    /\ Handling(h, "state", "write")
    /\ WriteOrEnd(h, [handler[h].read EXCEPT !.state = handler[h].to], Idle)
    /\ UNCHANGED <<box, led, bus, handled>>

Commit(h) ==
    /\ handler[h].op \in {"byName", "elected"} /\ handler[h].at = "write"
    /\ WriteOrEnd(h, [handler[h].read EXCEPT !.owner = handler[h].number, !.waiting = FALSE], Idle)
    /\ UNCHANGED <<box, led, bus, handled>>

\* A machine that is not in the database is created, one that is gets the
\* credentials of its BMC, those that metal-hammer made; then it has an event
\* container.
Register(h) ==
    /\ Handling(h, "register", "write")
    /\ \/ /\ ~handler[h].read.there /\ ~machine.there
          /\ WriteAnd(h, [NoMachine EXCEPT !.there = TRUE, !.credentials = TRUE], Idle)
          /\ box' = IF box.there THEN box ELSE NewBox
       \/ /\ handler[h].read.there /\ machine.there /\ Unwritten(handler[h])
          /\ WriteAnd(h, [handler[h].read EXCEPT !.credentials = TRUE], Idle)
          /\ box' = IF box.there THEN box ELSE NewBox
       \/ /\ ~(handler[h].read.there /\ Unwritten(handler[h])) /\ (handler[h].read.there \/ machine.there)
          /\ End(h) /\ UNCHANGED box
    /\ UNCHANGED <<led, bus, handled>>

----------------------------------------------------------------------------
\* machineCmd and publishMachineCmd

Send(what, h, credentials) ==
    bus' = bus \cup {[what |-> what, credentials |-> credentials, by |-> handler[h].op]}

SwitchLED(h) ==
    /\ Handling(h, "led", "write")
    /\ WriteOrEnd(h, [handler[h].read EXCEPT !.led = handler[h].to],
                 [handler[h] EXCEPT !.at = "publish"])
    /\ UNCHANGED <<box, led, bus, handled>>

\* Mutant of WithFallback: what the row says.
WithoutFallback(h) == handler[h].read.credentials
\* A replica that finds no password of the super user goes on without it.
SuperUserEnabled(h) == h \in IPMISuperUser
\* The super user stands in where the machine was created from a report of its
\* BMC and did not register.
WithFallback(h) == handler[h].read.credentials \/ SuperUserEnabled(h)

PublishLED(h) ==
    /\ Handling(h, "led", "publish")
    /\ Send(handler[h].to, h, WithFallback(h)) \/ UNCHANGED bus
    /\ End(h)
    /\ UNCHANGED <<box, led, handled>>

Deliver ==
    /\ \E m \in bus :
          /\ bus' = bus \ {m}
          /\ led' = IF m.what \in LEDs /\ m.credentials THEN m.what ELSE led
    /\ UNCHANGED <<machine, box, handler, report, handled>>

----------------------------------------------------------------------------
\* freeMachine, of the API and of ResurrectMachines

\* The handler switches the LED off, which may fail, before anything is checked.
FreeLEDOff(h) ==
    /\ Handling(h, "free", "publishLED")
    /\ Send("off", h, handler[h].read.credentials) \/ UNCHANGED bus
    /\ Proceed(h, [handler[h] EXCEPT !.at = "publish"])
    /\ UNCHANGED <<box, led, handled>>

Locked(read) == read.state = "locked"

\* deleteVRFSwitches may fail before the event is published, and so may that.
PublishDelete(h) ==
    /\ handler[h].op \in {"free", "resurrect"} /\ handler[h].at = "publish"
    /\ \/ /\ ~Locked(handler[h].read)
          /\ Send("delete", h, handler[h].read.credentials)
          /\ Proceed(h, [handler[h] EXCEPT !.at = "write"])
       \/ End(h) /\ UNCHANGED bus
    /\ UNCHANGED <<box, led, handled>>

\* The API records a machine reclaim when the machine is freed, the job does not.
FreeUpdate(h) ==
    /\ handler[h].op \in {"free", "resurrect"} /\ handler[h].at = "write"
    /\ WriteOrEnd(h, [handler[h].read EXCEPT !.owner = 0],
                 IF handler[h].op = "free" THEN [handler[h] EXCEPT !.at = "announce"] ELSE Idle)
    /\ UNCHANGED <<box, led, bus, handled>>

FreeAnnounce(h) ==
    /\ Handling(h, "free", "announce")
    /\ box' = [box EXCEPT !.there = TRUE, !.liveliness = "Alive", !.silent = 0]
    /\ End(h)
    /\ UNCHANGED <<led, bus, handled>>

----------------------------------------------------------------------------
\* ResurrectMachines, deleteMachine, evaluateMachineLiveliness

\* Mutant of LookedAt: the containers are listed with the machines.
ListedBefore(h) == handler[h].looked
\* The machines are listed once, the container of each is read when its turn comes.
LookedAt(h) == box

ToResurrect(b) ==
    /\ b.there
    /\ (b.liveliness = "Dead" /\ b.silent = 2) \/ b.failedReclaim

ResurrectLook(h) ==
    /\ Handling(h, "resurrect", "look")
    /\ IF ToResurrect(LookedAt(h)) THEN Proceed(h, [handler[h] EXCEPT !.at = "publish"]) ELSE End(h)
    /\ UNCHANGED <<box, led, bus, handled>>

DeleteLook(h) ==
    /\ Handling(h, "delete", "look")
    /\ IF ~box.there \/ box.liveliness = "Dead"
       THEN Proceed(h, [handler[h] EXCEPT !.at = "write"])
       ELSE End(h)
    /\ UNCHANGED <<box, led, bus, handled>>

\* The row is deleted whatever it is; its container stays.
RemoveRow(h) ==
    /\ Handling(h, "delete", "write")
    /\ WriteAnd(h, NoMachine, Idle)
    /\ UNCHANGED <<box, led, bus, handled>>

\* The allocation is that of the list, the container is read and written at once
\* (a container that changes in between is not written).
Judged(h) ==
    CASE box.silent = 0 -> "Alive"
      [] box.silent > 0 /\ handler[h].read.owner # 0 -> "Unknown"
      [] OTHER -> "Dead"

Evaluate(h) ==
    /\ Handling(h, "evaluate", "look")
    /\ box' = IF box.there THEN [box EXCEPT !.liveliness = Judged(h)] ELSE box
    /\ End(h)
    /\ UNCHANGED <<led, bus, handled>>

----------------------------------------------------------------------------
\* ipmiReport

\* metal-bmc reads the state of the BMC and sends it.
TakeReport ==
    /\ report.at = "none"
    /\ report' = [report EXCEPT !.at = "read", !.led = led]
    /\ UNCHANGED <<machine, box, led, bus, handler, handled>>

ListMachines ==
    /\ report.at = "read"
    /\ report' = [report EXCEPT !.at = "write", !.read = machine, !.current = TRUE]
    /\ UNCHANGED <<machine, box, led, bus, handler, handled>>

\* Mutant of WithReport: the LED is left to the commands.
WithoutLED(row) == row
\* The LED of the report, the rest of the row is kept.
WithReport(row) == [row EXCEPT !.led = report.led]

Reported ==
    /\ report' = [at |-> "none", led |-> "off", read |-> NoMachine, current |-> FALSE]

WriteReport ==
    /\ report.at = "write"
    /\ \/ /\ ~report.read.there /\ ~machine.there
          /\ machine' = [NoMachine EXCEPT !.there = TRUE, !.led = report.led]
          /\ handler' = [h \in Handlers |-> Overtaken(handler[h])]
       \/ /\ report.read.there /\ machine.there /\ Unwritten(report)
          /\ machine' = WithReport(report.read)
          /\ handler' = [h \in Handlers |-> Overtaken(handler[h])]
       \/ /\ ~(report.read.there /\ Unwritten(report)) /\ (report.read.there \/ machine.there)
          /\ UNCHANGED <<machine, handler>>
    /\ Reported
    /\ UNCHANGED <<box, led, bus, handled>>

----------------------------------------------------------------------------
\* The machine itself, and time

MayWake == "asleep" \in LifecycleAssumed => ~Deciding

\* It boots, and waits for an allocation, for which it registers first, or is told
\* the one it has.
Boots ==
    /\ MayWake
    /\ box.silent # 0 \/ box.failedReclaim \/ (machine.there /\ machine.owner = 0 /\ ~machine.waiting)
    /\ box' = NewBox
    /\ IF machine.there /\ machine.owner = 0 /\ machine.credentials
       THEN /\ Replaced([machine EXCEPT !.waiting = TRUE])
            /\ handler' = [h \in Handlers |-> Overtaken(handler[h])]
       ELSE UNCHANGED <<machine, report, handler>>
    /\ UNCHANGED <<led, bus, handled>>

\* It was freed but phones home as before; it is not flagged as waiting.
PhonesHome ==
    /\ MayWake
    /\ machine.owner = 0 /\ ~machine.waiting
    /\ box' = [NewBox EXCEPT !.failedReclaim = TRUE]
    /\ UNCHANGED <<machine, led, bus, handler, report, handled>>

\* Silence: a machine that waits sends events all the time, so its stream is
\* gone by then and the flag with it.
Tick ==
    /\ box.silent < 2
    /\ "timely" \in LifecycleAssumed => \A h \in Handlers : handler[h].op = "none"
    /\ box' = [box EXCEPT !.silent = @ + 1]
    /\ IF machine.waiting
       THEN /\ Replaced([machine EXCEPT !.waiting = FALSE])
            /\ handler' = [h \in Handlers |-> Overtaken(handler[h])]
       ELSE UNCHANGED <<machine, report, handler>>
    /\ UNCHANGED <<led, bus, handled>>

----------------------------------------------------------------------------
Step(h) ==
    \/ Read(h) \/ SetMachineState(h) \/ Commit(h) \/ Register(h)
    \/ SwitchLED(h) \/ PublishLED(h)
    \/ FreeLEDOff(h) \/ PublishDelete(h) \/ FreeUpdate(h) \/ FreeAnnounce(h)
    \/ ResurrectLook(h) \/ DeleteLook(h) \/ RemoveRow(h) \/ Evaluate(h)

LifecycleNext ==
    \/ \E h \in Handlers : Call(h) \/ Step(h)
    \/ TakeReport \/ ListMachines \/ WriteReport \/ Deliver
    \/ Boots \/ PhonesHome \/ Tick

LifecycleSpec == LifecycleInit /\ [][LifecycleNext]_lifecycleVars

\* Calls end, messages arrive, and the BMC is reported again and again; a report
\* takes milliseconds from the list to the write, so not every one is overtaken
\* by a machine that boots or falls silent.
StoresReport == WriteReport /\ machine' # machine
LifecycleFairness ==
    /\ \A h \in Handlers : WF_lifecycleVars(Step(h))
    /\ WF_lifecycleVars(TakeReport) /\ WF_lifecycleVars(ListMachines) /\ WF_lifecycleVars(WriteReport)
    /\ SF_lifecycleVars(StoresReport)
    /\ WF_lifecycleVars(Deliver)

LifecycleFairSpec == LifecycleSpec /\ LifecycleFairness

----------------------------------------------------------------------------
\* A machine that was allocated is neither wiped nor forgotten by a call that
\* found it free, or found another owner: jobs and handlers decide on what they
\* read (ResurrectMachines, freeMachine, deleteMachine).
Wipes(h) == PublishDelete(h) /\ bus' # bus
AllocatedSpared ==
    [][/\ \A h \in Handlers : Wipes(h) => machine.owner \in {0, handler[h].read.owner}
       /\ machine.there /\ ~machine'.there => machine.owner = 0]_lifecycleVars

\* A locked machine keeps its owner, and no handler that rewrites the row of a
\* machine undoes the lock or the release of it (setMachineState, freeMachine,
\* ipmiReport, machineCmd, Register).
LockKept ==
    [][machine.there /\ machine'.there =>
          /\ machine.state # machine'.state => \E h \in Handlers : SetMachineState(h)
          /\ machine.state = "locked" /\ machine.owner # 0 => machine'.owner = machine.owner
      ]_lifecycleVars

\* A machine that registered can be managed until it is removed: no handler that
\* rewrites its row from an older copy takes the credentials of its BMC away, and
\* a command goes out without any only if nobody owned the machine when it was
\* read, one of machineCmd only from a replica without the super user (Register,
\* ipmiReport, deleteMachine, freeMachine, machineCmd).
Sends(h) == PublishLED(h) \/ FreeLEDOff(h) \/ PublishDelete(h)
CommandsReachBMC ==
    [][/\ machine.there /\ machine'.there /\ machine.credentials => machine'.credentials
       /\ \A h \in Handlers, m \in bus' \ bus : Sends(h) /\ ~m.credentials =>
             /\ handler[h].read.owner = 0
             /\ m.by = "led" => ~SuperUserEnabled(h)
      ]_lifecycleVars

\* The LED that the API shows is in the end that of the chassis, whatever
\* commands, reports and failed messages cross each other (ipmiReport, machineCmd).
LEDConverges == <>[](machine.led = led)
=============================================================================
