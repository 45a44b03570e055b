------------------------- MODULE ProvisioningEvents -------------------------
(***************************************************************************)
(* The event container of one machine: the machine that boots, installs,    *)
(* phones home and restarts, the metal-core that buffers its phoned home    *)
(* messages, the API calls that restart or reclaim it, the handlers that    *)
(* read the container, advance it (ProvisioningFSM) and write it back       *)
(* without looking at what is there by then, and the job that evaluates the *)
(* liveliness and compares the time stamp of the container it read.         *)
(*                                                                         *)
(* Time advances in units of which a threshold of the code is a few.        *)
(***************************************************************************)
EXTENDS ProvisioningFSM, FiniteSets

CONSTANTS
    Handlers,    \* calls of ProvisioningEventForMachine at a time
    DeadAfter,   \* MachineDeadAfter
    MaxTime,     \* bound on time
    Assumed      \* what a run takes for granted, a subset of Assumptions

(***************************************************************************)
(*   "serial"       an event is handled before the next one comes in        *)
(*   "timely"       a buffered message arrives before the thresholds have   *)
(*                  passed and before the machine installs again            *)
(*   "calm"         no reset of a machine that boots from the network while *)
(*                  a message of the system it ran before is buffered       *)
(*   "unevaluated"  the liveliness job looks at no machine that sends just  *)
(*                  any event; it keeps an instance small                   *)
(***************************************************************************)
Assumptions == {"serial", "timely", "calm", "unevaluated"}

ASSUME EventsAssumption ==
    /\ DeadAfter \in Nat /\ MaxTime \in Nat
    /\ Assumed \subseteq Assumptions

VARIABLES
    honest,     \* whether the machine works as intended, or any event may come at any time
    now,
    machine,    \* the last thing the machine did
    reinstalled, \* history: whether the machine was ever reinstalled
    buffer,     \* when metal-core buffered a phoned home message, or None
    row,        \* the container of the machine
    handler,    \* the calls that handle an event
    evaluator   \* the liveliness job: what it read and whether that is still the row

vars == <<honest, now, machine, reinstalled, buffer, row, handler, evaluator>>

\* "restart" boots from the network, "reboot" from the disk.
Phases == Booting \cup {"PhonedHome", "restart", "reboot"}
HandlerPC == {"idle", "read", "write"}
NoEvent == [type |-> "Alive", time |-> 0]
IdleHandler == [pc |-> "idle", event |-> NoEvent, seen |-> EmptyContainer]

TypeOK ==
    /\ honest \in BOOLEAN /\ now \in Nat
    /\ machine \in Phases /\ reinstalled \in BOOLEAN
    /\ buffer \in Nat \cup {None}
    /\ row \in Container /\ Len(row.events) <= MaxEvents
    /\ handler \in [Handlers -> [pc: HandlerPC, event: [type: Types, time: Nat], seen: Container]]
    /\ evaluator \in [busy: BOOLEAN, seen: Container, current: BOOLEAN]

Init ==
    /\ honest \in BOOLEAN
    /\ now = 0 /\ machine = "restart" /\ reinstalled = FALSE /\ buffer = None
    /\ row = EmptyContainer
    /\ handler = [h \in Handlers |-> IdleHandler]
    /\ evaluator = [busy |-> FALSE, seen |-> EmptyContainer, current |-> FALSE]

----------------------------------------------------------------------------
\* The machine and those who restart it (not in this repository, or callers of it)

Idle == \A h \in Handlers : handler[h].pc = "idle"

\* A call comes in; its event carries the time at which the API received it.
Receive(h, type) ==
    /\ handler[h].pc = "idle"
    /\ "serial" \in Assumed => Idle
    /\ handler' = [handler EXCEPT ![h] =
                      [IdleHandler EXCEPT !.pc = "read", !.event = [type |-> type, time |-> now]]]

\* What the machine may do next; some cannot send the event of a network boot,
\* and a machine that is allocated by its name, or reinstalled, need not wait.
Follows(phase) ==
    CASE phase \in {"restart", "PXEBooting"} -> {"PXEBooting", "Preparing"}
      [] phase = "Preparing" -> {"Registering"}
      [] phase = "Registering" -> {"Waiting", "Installing"}
      [] phase = "Waiting" -> {"Installing"}
      [] phase = "Installing" -> {"BootingNewKernel"}
      [] OTHER -> {"PhonedHome"}

Arrived == "timely" \in Assumed => buffer = None

MachineStep(h) ==
    \E phase \in Follows(machine) :
        /\ phase = "Installing" => Arrived
        /\ machine' = phase
        /\ Receive(h, phase)
        /\ UNCHANGED <<honest, now, reinstalled, buffer, row, evaluator>>

\* metal-core has the message but does not send it yet.
Buffer ==
    /\ honest
    /\ machine = "PhonedHome" /\ buffer = None
    /\ buffer' = now
    /\ UNCHANGED <<honest, now, machine, reinstalled, row, handler, evaluator>>

SendBuffered(h) ==
    /\ buffer # None
    /\ buffer' = None
    /\ Receive(h, "PhonedHome")
    /\ UNCHANGED <<honest, now, machine, reinstalled, row, evaluator>>

\* machineCmd with a reset, off or cycle command records a planned reboot.
PlannedReboot(h) ==
    /\ "calm" \in Assumed /\ buffer # None => machine \in {"PhonedHome", "reboot"}
    /\ machine' = IF machine \in {"PhonedHome", "reboot"} THEN "reboot" ELSE "restart"
    /\ Receive(h, "PlannedReboot")
    /\ UNCHANGED <<honest, now, reinstalled, buffer, row, evaluator>>

\* freeMachine records a machine reclaim, and the machine boots from the network;
\* what it does until then is that it phones home.
Reclaim(h) ==
    /\ machine' = "restart"
    /\ Receive(h, "MachineReclaim")
    /\ UNCHANGED <<honest, now, reinstalled, buffer, row, evaluator>>

\* reinstallMachine makes the machine boot from the network and records nothing.
Reinstall ==
    /\ honest
    /\ machine = "PhonedHome"
    /\ machine' = "restart" /\ reinstalled' = TRUE
    /\ UNCHANGED <<honest, now, buffer, row, handler, evaluator>>

\* Without an honest machine any event may come.
AnyEvent(h) ==
    /\ ~honest
    /\ \E type \in Types : Receive(h, type)
    /\ UNCHANGED <<honest, now, machine, reinstalled, buffer, row, evaluator>>

Tick ==
    /\ now < MaxTime
    /\ "timely" \in Assumed /\ buffer # None =>
          now + 1 - buffer < SwallowThreshold /\ now + 1 - buffer <= ReclaimThreshold
    /\ now' = now + 1
    /\ UNCHANGED <<honest, machine, reinstalled, buffer, row, handler, evaluator>>

----------------------------------------------------------------------------
\* ProvisioningEventForMachine

Read(h) ==
    /\ handler[h].pc = "read"
    /\ handler' = [handler EXCEPT ![h].pc = "write", ![h].seen = row]
    /\ UNCHANGED <<honest, now, machine, reinstalled, buffer, row, evaluator>>

Result(h) == HandleProvisioningEvent(handler[h].seen, handler[h].event)

\* The container is replaced whatever it is by now; one that is not valid is an
\* error and is not written.
Write(h) ==
    /\ handler[h].pc = "write"
    /\ IF Validate(Result(h))
       THEN row' = TrimEvents(Result(h)) /\ evaluator' = [evaluator EXCEPT !.current = FALSE]
       ELSE UNCHANGED <<row, evaluator>>
    /\ handler' = [handler EXCEPT ![h] = IdleHandler]
    /\ UNCHANGED <<honest, now, machine, reinstalled, buffer>>

----------------------------------------------------------------------------
\* evaluateMachineLiveliness

EvaluateRead ==
    /\ "unevaluated" \in Assumed => honest
    /\ ~evaluator.busy
    /\ row.lastEventTime # None
    /\ evaluator' = [busy |-> TRUE, seen |-> row, current |-> TRUE]
    /\ UNCHANGED <<honest, now, machine, reinstalled, buffer, row, handler>>

Silent(c) == now - c.lastEventTime > DeadAfter

\* Mutant of Unchanged: the container is replaced whatever it is.
UnchangedAlways == TRUE
Unchanged == evaluator.current

\* An allocated machine may have its phone home service turned off.
Evaluated(c) ==
    IF Silent(c) THEN {[c EXCEPT !.liveliness = l] : l \in {"Dead", "Unknown"}}
                 ELSE {[c EXCEPT !.liveliness = "Alive"]}

EvaluateWrite ==
    /\ evaluator.busy
    /\ IF Unchanged THEN row' \in Evaluated(evaluator.seen) ELSE UNCHANGED row
    /\ evaluator' = [busy |-> FALSE, seen |-> EmptyContainer, current |-> FALSE]
    /\ UNCHANGED <<honest, now, machine, reinstalled, buffer, handler>>

----------------------------------------------------------------------------
HonestEvent(h) ==
    /\ honest
    /\ MachineStep(h) \/ SendBuffered(h) \/ PlannedReboot(h) \/ Reclaim(h)

Next ==
    \/ Tick \/ Buffer \/ Reinstall \/ EvaluateRead \/ EvaluateWrite
    \/ \E h \in Handlers : HonestEvent(h) \/ AnyEvent(h) \/ Read(h) \/ Write(h)

Spec == Init /\ [][Next]_vars

----------------------------------------------------------------------------
\* Alive is never kept: it would be a state without a way out
\* (HandleProvisioningEvent, AliveState).
AliveNotKept == \A i \in 1 .. Len(row.events) : row.events[i].type # "Alive"

\* Events that are handled one after the other make a container that can be
\* written (HandleProvisioningEvent, Validate).
NeverRejected == \A h \in Handlers : handler[h].pc = "write" => Validate(Result(h))

\* A container can always be written and trimmed, and is in a state there is a way out
\* of, whatever events it was made of (HandleProvisioningEvent, Validate, TrimEvents).
ContainerValid == TypeOK /\ AliveNotKept /\ NeverRejected

\* A machine that works as intended never raises a failed reclaim, and raises an
\* error and a crash loop only once it was reinstalled, however late its phoned
\* home messages are (Events, swallowBufferedPhonedHome, reinstallMachine).
HealthyUnflagged ==
    honest =>
    /\ ~row.failedReclaim
    /\ ~reinstalled => row.lastError = None /\ ~row.crashLoop

\* Whatever happened, a machine that boots, installs and phones home is rid of
\* its flags afterwards (Events, PXEBootingState, PreparingState, PhonedHomeState).
BootAt(t) == [i \in 1 .. Len(BootSequence) |-> [type |-> BootSequence[i], time |-> t]]
AfterBoot[i \in 0 .. Len(BootSequence)] ==
    IF i = 0 THEN row ELSE HandleProvisioningEvent(AfterBoot[i - 1], BootAt(now)[i])
Recovers ==
    LET booted == AfterBoot[Len(BootSequence)]
    IN  StateOf(booted) = "PhonedHome" /\ ~booted.crashLoop /\ ~booted.failedReclaim

\* A machine that is not seen alive has sent nothing for a while
\* (evaluateMachineLiveliness against ProvisioningEventForMachine).
DeadIsSilent ==
    row.liveliness # "Alive" => row.lastEventTime # None /\ now - row.lastEventTime > DeadAfter

\* An event that was written stays in the container until it is trimmed
\* (ProvisioningEventForMachine).
Extends(events, older) ==
    LET n == Len(events)
        kept == {k \in 0 .. 1 : \A i \in 1 .. n - k : i <= Len(older) /\ events[i + k] = older[i]}
    IN  \E k \in kept : n = Len(older) + k \/ n = MaxEvents
EventsKept == [][Extends(row'.events, row.events)]_vars
=============================================================================
