--------------------------- MODULE ProvisioningFSM ---------------------------
(***************************************************************************)
(* What metal-api makes of a provisioning event (fsm/fsm.go, fsm/events.go, *)
(* fsm/states): a container holds the last events of a machine, newest      *)
(* first, the newest one decides the state of the machine, and the state    *)
(* decides whether the next event is expected.  Messages are left out, and  *)
(* of the last error event only its type is kept.                           *)
(***************************************************************************)
EXTENDS Integers, Sequences

CONSTANTS
    ReclaimThreshold,   \* failedMachineReclaimThreshold
    SwallowThreshold,   \* swallowBufferedPhonedHomeThreshold
    MaxEvents,          \* events a container keeps (100 in the code)
    None

ASSUME FSMAssumption ==
    /\ ReclaimThreshold \in Nat /\ SwallowThreshold \in Nat \ {0}
    /\ MaxEvents \in Nat \ {0}
    /\ None \notin Nat

BootSequence == <<"PXEBooting", "Preparing", "Registering", "Waiting", "Installing",
                  "BootingNewKernel", "PhonedHome">>

Booting == {"PXEBooting", "Preparing", "Registering", "Waiting", "Installing", "BootingNewKernel"}

Types == Booting \cup {"PhonedHome", "PlannedReboot", "MachineReclaim", "Crashed", "Alive"}

\* A state is named after the event that leads to it.
States == Types \cup {"Initial"}

Livelinesses == {"Alive", "Dead", "Unknown"}

Container == [events: Seq([type: Types, time: Nat]), liveliness: Livelinesses,
              lastEventTime: Nat \cup {None}, lastError: Types \cup {None},
              crashLoop: BOOLEAN, failedReclaim: BOOLEAN]

EmptyContainer == [events |-> <<>>, liveliness |-> "Alive", lastEventTime |-> None,
                   lastError |-> None, crashLoop |-> FALSE, failedReclaim |-> FALSE]

----------------------------------------------------------------------------
\* Events(): the states in which each event is expected

Sources == [
    PXEBooting       |-> {"PlannedReboot", "MachineReclaim", "Crashed", "Initial"},
    Preparing        |-> {"PXEBooting", "PlannedReboot", "MachineReclaim", "Crashed", "Initial"},
    Registering      |-> {"Preparing", "Initial"},
    Waiting          |-> {"Registering", "Initial"},
    Installing       |-> {"Registering", "Waiting", "Initial"},
    BootingNewKernel |-> {"Installing", "Initial"},
    PhonedHome       |-> {"BootingNewKernel", "MachineReclaim", "Initial"},
    PlannedReboot    |-> States,
    MachineReclaim   |-> States,
    Alive            |-> Booting \cup {"Initial"},
    Crashed          |-> Booting \cup {"Initial"}]

\* The states that handle an event themselves and are not left.
SelfSources(type) ==
    CASE type = "PhonedHome" -> {"PlannedReboot", "PhonedHome", "PXEBooting", "Preparing",
                                 "Registering", "Waiting"}
      [] type \in {"PXEBooting", "PlannedReboot", "MachineReclaim"} -> {type}
      [] OTHER -> {}

\* Mutant of Expected: a phoned home that was buffered is not expected.
ExpectedUnbuffered(type, state) == state \in Sources[type] \cup (SelfSources(type) \cap {type})
Expected(type, state) == state \in Sources[type] \cup SelfSources(type)

\* The state whose handler runs.
Enters(type, state) == IF state \in SelfSources(type) THEN state ELSE type

----------------------------------------------------------------------------
\* The handlers of the states

\* Mutants of Seen: the time of the event, the liveliness is not noted.
SeenUntimed(c, e) == [c EXCEPT !.liveliness = "Alive"]
SeenDead(c, e) == [c EXCEPT !.lastEventTime = e.time]
Seen(c, e) == [c EXCEPT !.liveliness = "Alive", !.lastEventTime = e.time]

Append1(c, e) == [Seen(c, e) EXCEPT !.events = <<e>> \o @]

Late(c, e) == c.lastEventTime # None /\ e.time - c.lastEventTime > ReclaimThreshold

Buffered(c, e) ==
    /\ e.type = "PhonedHome"
    /\ c.lastEventTime # None /\ e.time - c.lastEventTime < SwallowThreshold

\* Mutant of ClearsCrashLoop: only the operator can clear the flag.
ClearsCrashLoopByOperator == {"PlannedReboot", "MachineReclaim"}
ClearsCrashLoop == {"PlannedReboot", "MachineReclaim", "PhonedHome"}

OnTransition(c, e, state) ==
    LET entered == Enters(e.type, state) IN
    CASE entered = "Alive" -> Seen(c, e)
      [] entered = "Crashed" -> [Append1(c, e) EXCEPT !.crashLoop = TRUE, !.lastError = e.type]
      [] entered = "PhonedHome" /\ state = "PhonedHome" -> Seen(c, e)
      [] entered = "PhonedHome" /\ state = "MachineReclaim" ->
           IF Late(c, e) THEN [Seen(c, e) EXCEPT !.failedReclaim = TRUE] ELSE c
      [] entered \in {"PXEBooting", "Preparing", "Registering", "Waiting"} /\ Buffered(c, e) -> c
      [] entered = "PXEBooting" /\ state = "PXEBooting" /\ ~Buffered(c, e) ->
           [Seen(c, e) EXCEPT !.failedReclaim = FALSE]
      [] OTHER ->
           [Append1(c, e) EXCEPT
               !.failedReclaim = @ /\ entered \notin {"PXEBooting", "Preparing"},
               !.crashLoop = @ /\ entered \notin ClearsCrashLoop]

\* Mutant of Unexpected: an event is appended whatever it is.
UnexpectedKept(c, e) ==
    [Append1(c, e) EXCEPT
        !.lastError = e.type,
        !.crashLoop = @ \/ e.type \in {"PXEBooting", "Preparing"}]

\* An event nobody expects is an error; alive is never kept.
Unexpected(c, e) ==
    [(IF e.type = "Alive" THEN Seen(c, e) ELSE Append1(c, e)) EXCEPT
        !.lastError = e.type,
        !.crashLoop = @ \/ e.type \in {"PXEBooting", "Preparing"}]

\* The newest event decides the state.
StateOf(c) == IF c.events = <<>> THEN "Initial" ELSE Head(c.events).type

HandleProvisioningEvent(c, e) ==
    IF Expected(e.type, StateOf(c)) THEN OnTransition(c, e, StateOf(c)) ELSE Unexpected(c, e)

----------------------------------------------------------------------------
\* The events are sorted, and none of them is younger than the last event.
Validate(c) ==
    c.events # <<>> =>
        /\ c.lastEventTime # None /\ Head(c.events).time <= c.lastEventTime
        /\ \A i \in 1 .. Len(c.events) - 1 : c.events[i + 1].time <= c.events[i].time

\* Mutant of TrimEvents: one event too many stays.
TrimLess(c) ==
    [c EXCEPT !.events = IF Len(@) > MaxEvents + 1 THEN SubSeq(@, 1, MaxEvents) ELSE @]
TrimEvents(c) ==
    [c EXCEPT !.events = IF Len(@) > MaxEvents THEN SubSeq(@, 1, MaxEvents) ELSE @]
=============================================================================
