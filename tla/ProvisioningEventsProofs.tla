------------------------ MODULE ProvisioningEventsProofs ------------------------
(***************************************************************************)
(* The event container of a machine, for any thresholds, any number of       *)
(* handlers at a time and any times: what a container can always be written  *)
(* for, what a machine that works is never blamed for, and that only a       *)
(* machine that has been silent is reported dead.                            *)
(***************************************************************************)
EXTENDS ProvisioningEvents, SequenceTheorems, TLAPS

Event == [type: Types, time: Nat]

----------------------------------------------------------------------------
(* What one event makes of a container (HandleProvisioningEvent).           *)

\* An event in front of the others.
LEMMA InFront ==
  ASSUME NEW s \in Seq(Event), NEW e \in Event
  PROVE  /\ <<e>> \o s \in Seq(Event)
         /\ Len(<<e>> \o s) = Len(s) + 1
         /\ <<e>> \o s # <<>>
         /\ Head(<<e>> \o s) = e
         /\ (<<e>> \o s)[1] = e
         /\ \A i \in 1 .. Len(s) : (<<e>> \o s)[i + 1] = s[i]
<1>1. <<e>> \in Seq(Event) /\ Len(<<e>>) = 1 /\ <<e>>[1] = e
  OBVIOUS
<1>2. /\ <<e>> \o s \in Seq(Event)
      /\ Len(<<e>> \o s) = 1 + Len(s)
      /\ \A i \in 1 .. 1 + Len(s) : (<<e>> \o s)[i] = IF i <= 1 THEN <<e>>[i] ELSE s[i - 1]
  BY <1>1, ConcatProperties
<1>3. Len(s) \in Nat
  BY LenProperties
<1> HIDE DEF Event
<1> QED BY <1>1, <1>2, <1>3

\* The fields of a container.
LEMMA ContainerFields ==
  ASSUME NEW c \in Container
  PROVE  /\ c.events \in Seq(Event) /\ c.liveliness \in Livelinesses
         /\ c.lastEventTime \in Nat \cup {None} /\ c.lastError \in Types \cup {None}
         /\ c.crashLoop \in BOOLEAN /\ c.failedReclaim \in BOOLEAN
BY DEF Container, Event

\* What the handlers write: the time is noted, or the event is kept as well.
LEMMA SeenFields ==
  ASSUME NEW c \in Container, NEW e \in Event
  PROVE  /\ Seen(c, e) \in Container
         /\ Seen(c, e).events = c.events /\ Seen(c, e).liveliness = "Alive"
         /\ Seen(c, e).lastEventTime = e.time /\ Seen(c, e).lastError = c.lastError
         /\ Seen(c, e).crashLoop = c.crashLoop /\ Seen(c, e).failedReclaim = c.failedReclaim
BY DEF Container, Event, Seen, Livelinesses

LEMMA AppendFields ==
  ASSUME NEW c \in Container, NEW e \in Event
  PROVE  /\ Append1(c, e) \in Container
         /\ Append1(c, e).events = <<e>> \o c.events /\ Append1(c, e).liveliness = "Alive"
         /\ Append1(c, e).lastEventTime = e.time /\ Append1(c, e).lastError = c.lastError
         /\ Append1(c, e).crashLoop = c.crashLoop
         /\ Append1(c, e).failedReclaim = c.failedReclaim
<1>1. Seen(c, e) \in Container /\ Seen(c, e).events = c.events
  BY SeenFields
<1>2. <<e>> \o c.events \in Seq(Event)
  BY InFront, ContainerFields
<1> QED BY <1>1, <1>2, SeenFields DEF Append1, Container, Event

\* A crash leaves the rest of the container as it is.
LEMMA CrashFields ==
  ASSUME NEW r \in Container, NEW t \in Types
  PROVE  LET d == [r EXCEPT !.crashLoop = TRUE, !.lastError = t]
         IN  /\ d \in Container
             /\ d.events = r.events /\ d.liveliness = r.liveliness
             /\ d.lastEventTime = r.lastEventTime
BY DEF Container

\* An expected event that the handler of the state it leads to appends, and the flags
\* that the handler clears.
Kept(c, e, entered) ==
  [Append1(c, e) EXCEPT
      !.failedReclaim = @ /\ entered \notin {"PXEBooting", "Preparing"},
      !.crashLoop = @ /\ entered \notin ClearsCrashLoop]

LEMMA KeptFields ==
  ASSUME NEW c \in Container, NEW e \in Event, NEW entered \in States
  PROVE  LET d == Kept(c, e, entered)
         IN  /\ d \in Container
             /\ d.events = <<e>> \o c.events /\ d.liveliness = "Alive"
             /\ d.lastEventTime = e.time /\ d.lastError = c.lastError
             /\ d.crashLoop <=> c.crashLoop /\ entered \notin ClearsCrashLoop
             /\ d.failedReclaim <=>
                  c.failedReclaim /\ entered \notin {"PXEBooting", "Preparing"}
<1> DEFINE r == Append1(c, e)
           x == r.failedReclaim /\ entered \notin {"PXEBooting", "Preparing"}
           y == r.crashLoop /\ entered \notin ClearsCrashLoop
           d == [r EXCEPT !.failedReclaim = x, !.crashLoop = y]
<1>1. /\ r \in Container /\ r.events = <<e>> \o c.events /\ r.liveliness = "Alive"
      /\ r.lastEventTime = e.time /\ r.lastError = c.lastError
      /\ r.crashLoop = c.crashLoop /\ r.failedReclaim = c.failedReclaim
  BY AppendFields
<1>2. x \in BOOLEAN /\ y \in BOOLEAN
  OBVIOUS
<1>3. Kept(c, e, entered) = d
  BY DEF Kept
<1>4. x <=> c.failedReclaim /\ entered \notin {"PXEBooting", "Preparing"}
  BY <1>1
<1>5. y <=> c.crashLoop /\ entered \notin ClearsCrashLoop
  BY <1>1
<1> HIDE DEF r, x, y
<1>6. /\ d \in Container /\ d.events = r.events /\ d.liveliness = r.liveliness
      /\ d.lastEventTime = r.lastEventTime /\ d.lastError = r.lastError
      /\ d.crashLoop = y /\ d.failedReclaim = x
  BY <1>1, <1>2 DEF Container
<1> HIDE DEF d
<1> QED BY <1>1, <1>3, <1>4, <1>5, <1>6

LEMMA UnexpectedFields ==
  ASSUME NEW c \in Container, NEW e \in Event
  PROVE  LET d == Unexpected(c, e)
         IN  /\ d \in Container
             /\ d.events = IF e.type = "Alive" THEN c.events ELSE <<e>> \o c.events
             /\ d.liveliness = "Alive" /\ d.lastEventTime = e.time /\ d.lastError = e.type
             /\ d.crashLoop = (c.crashLoop \/ e.type \in {"PXEBooting", "Preparing"})
             /\ d.failedReclaim = c.failedReclaim
<1>1. e.type \in Types
  BY DEF Event
<1>2. CASE e.type = "Alive"
  BY <1>1, <1>2, SeenFields DEF Unexpected, Container
<1>3. CASE e.type # "Alive"
  BY <1>1, <1>3, AppendFields DEF Unexpected, Container
<1> QED BY <1>2, <1>3

\* The state a container is in.
LEMMA StateIsKnown ==
  ASSUME NEW c \in Container
  PROVE  StateOf(c) \in States
<1>1. c.events \in Seq(Event)
  BY ContainerFields
<1>2. CASE c.events = <<>>
  BY <1>2 DEF StateOf, States
<1>3. CASE c.events # <<>>
  <2>1. Head(c.events) \in Event
    BY <1>1, <1>3, HeadTailProperties
  <2> QED BY <2>1, <1>3 DEF StateOf, States, Event
<1> QED BY <1>2, <1>3

\* An event leads to the state that is named after it, or stays in one of its own states.
LEMMA EntersKnown ==
  ASSUME NEW type \in Types, NEW state
  PROVE  /\ Enters(type, state) \in States
         /\ Enters(type, state) = "Alive" <=> type = "Alive"
         /\ Enters(type, state) = "Crashed" <=> type = "Crashed"
BY DEF Enters, SelfSources, States, Types, Booting

\* An event is kept in front of the former ones, or they stay as they are; whenever
\* anything changes the time of the event is noted and the machine is alive.
Advanced(c, e, d) ==
  /\ d \in Container
  /\ d.events = c.events \/ (d.events = <<e>> \o c.events /\ e.type # "Alive")
  /\ d = c \/ (d.liveliness = "Alive" /\ d.lastEventTime = e.time)

LEMMA SeenAdvances ==
  ASSUME NEW c \in Container, NEW e \in Event
  PROVE  /\ Advanced(c, e, Seen(c, e)) /\ Advanced(c, e, c)
         /\ \A b \in BOOLEAN : Advanced(c, e, [Seen(c, e) EXCEPT !.failedReclaim = b])
BY SeenFields DEF Advanced, Container

LEMMA TransitionAdvances ==
  ASSUME NEW c \in Container, NEW e \in Event, NEW state
  PROVE  Advanced(c, e, OnTransition(c, e, state))
<1> DEFINE entered == Enters(e.type, state)
           d == OnTransition(c, e, state)
<1>1. e.type \in Types /\ entered \in States
      /\ (entered = "Alive" <=> e.type = "Alive") /\ (entered = "Crashed" <=> e.type = "Crashed")
  BY EntersKnown DEF Event
<1>2. d = CASE entered = "Alive" -> Seen(c, e)
            [] entered = "Crashed" ->
                 [Append1(c, e) EXCEPT !.crashLoop = TRUE, !.lastError = e.type]
            [] entered = "PhonedHome" /\ state = "PhonedHome" -> Seen(c, e)
            [] entered = "PhonedHome" /\ state = "MachineReclaim" ->
                 IF Late(c, e) THEN [Seen(c, e) EXCEPT !.failedReclaim = TRUE] ELSE c
            [] entered \in {"PXEBooting", "Preparing", "Registering", "Waiting"}
                 /\ Buffered(c, e) -> c
            [] entered = "PXEBooting" /\ state = "PXEBooting" /\ ~Buffered(c, e) ->
                 [Seen(c, e) EXCEPT !.failedReclaim = FALSE]
            [] OTHER -> Kept(c, e, entered)
  BY DEF OnTransition, Kept
<1> HIDE DEF entered, d
<1>3. CASE entered = "Alive" \/ (entered = "PhonedHome" /\ state = "PhonedHome")
  <2>1. d = Seen(c, e)
    BY <1>2, <1>3
  <2> QED BY <2>1, SeenAdvances DEF d
<1>4. CASE entered = "Crashed"
  <2>1. d = [Append1(c, e) EXCEPT !.crashLoop = TRUE, !.lastError = e.type]
    BY <1>2, <1>4
  <2>2. Append1(c, e) \in Container
    BY AppendFields
  <2>3. /\ d \in Container /\ d.events = Append1(c, e).events
        /\ d.liveliness = Append1(c, e).liveliness
        /\ d.lastEventTime = Append1(c, e).lastEventTime
    BY <2>1, <2>2, <1>1, CrashFields
  <2> QED BY <2>3, <1>1, <1>4, AppendFields DEF Advanced, d
<1>5. CASE entered = "PhonedHome" /\ state = "MachineReclaim"
  <2>1. d = IF Late(c, e) THEN [Seen(c, e) EXCEPT !.failedReclaim = TRUE] ELSE c
    BY <1>2, <1>5
  <2> QED BY <2>1, SeenAdvances DEF d
<1>6. CASE entered \in {"PXEBooting", "Preparing", "Registering", "Waiting"} /\ Buffered(c, e)
  <2>1. d = c
    BY <1>2, <1>6
  <2> QED BY <2>1, SeenAdvances DEF d
<1>7. CASE entered = "PXEBooting" /\ state = "PXEBooting" /\ ~Buffered(c, e)
  <2>1. d = [Seen(c, e) EXCEPT !.failedReclaim = FALSE]
    BY <1>2, <1>7
  <2> QED BY <2>1, SeenAdvances DEF d
<1>8. CASE ~ (\/ entered \in {"Alive", "Crashed"}
              \/ entered = "PhonedHome" /\ state \in {"PhonedHome", "MachineReclaim"}
              \/ entered \in {"PXEBooting", "Preparing", "Registering", "Waiting"}
                   /\ Buffered(c, e)
              \/ entered = "PXEBooting" /\ state = "PXEBooting" /\ ~Buffered(c, e))
  <2>1. d = Kept(c, e, entered)
    BY <1>2, <1>8
  <2> QED BY <2>1, <1>1, <1>8, KeptFields DEF Advanced, d
<1> QED BY <1>3, <1>4, <1>5, <1>6, <1>7, <1>8 DEF d

LEMMA HandlingAdvances ==
  ASSUME NEW c \in Container, NEW e \in Event
  PROVE  Advanced(c, e, HandleProvisioningEvent(c, e))
<1>1. Advanced(c, e, OnTransition(c, e, StateOf(c)))
  BY TransitionAdvances
<1>2. Advanced(c, e, Unexpected(c, e))
  BY UnexpectedFields DEF Advanced
<1> QED BY <1>1, <1>2 DEF HandleProvisioningEvent

\* The newest events of a container stay, and its state with them.
LEMMA TrimmedFields ==
  ASSUME NEW c \in Container
  PROVE  LET d == TrimEvents(c)
         IN  /\ d \in Container /\ d.liveliness = c.liveliness
             /\ d.lastEventTime = c.lastEventTime /\ d.lastError = c.lastError
             /\ d.crashLoop = c.crashLoop /\ d.failedReclaim = c.failedReclaim
             /\ Len(d.events) <= MaxEvents /\ Len(d.events) <= Len(c.events)
             /\ Len(d.events) = Len(c.events) \/ Len(d.events) = MaxEvents
             /\ \A i \in 1 .. Len(d.events) : d.events[i] = c.events[i]
             /\ StateOf(d) = StateOf(c)
<1> DEFINE n == Len(c.events)
           d == TrimEvents(c)
<1>1. /\ c.events \in Seq(Event) /\ n \in Nat
      /\ \A i \in 1 .. n : c.events[i] \in Event
      /\ c.events = <<>> <=> n = 0
  BY ContainerFields, LenProperties, ElementOfSeq, EmptySeq
<1>2. MaxEvents \in Nat /\ MaxEvents > 0
  BY FSMAssumption
<1>3. CASE n <= MaxEvents
  <2>1. d = c
    BY <1>1, <1>2, <1>3 DEF TrimEvents, Container
  <2> QED BY <2>1, <1>1, <1>3
<1>4. CASE n > MaxEvents
  <2> DEFINE kept == SubSeq(c.events, 1, MaxEvents)
  <2>1. /\ kept \in Seq(Event) /\ Len(kept) = MaxEvents
        /\ \A i \in 1 .. MaxEvents : kept[i] = c.events[i]
    BY <1>1, <1>2, <1>4, SubSeqProperties, SMTT(20)
  <2> HIDE DEF kept
  <2>2. d = [c EXCEPT !.events = kept]
    BY <1>4 DEF TrimEvents, kept
  <2>3. /\ d \in Container /\ d.liveliness = c.liveliness
        /\ d.lastEventTime = c.lastEventTime /\ d.lastError = c.lastError
        /\ d.crashLoop = c.crashLoop /\ d.failedReclaim = c.failedReclaim
        /\ d.events = kept
    BY <2>1, <2>2 DEF Container, Event
  <2> HIDE DEF d
  <2>4. kept # <<>> /\ c.events # <<>> /\ Head(kept) = kept[1] /\ Head(c.events) = c.events[1]
    BY <2>1, <1>1, <1>2, <1>4
  <2>5. StateOf(d) = StateOf(c)
    BY <2>1, <2>3, <2>4, <1>2 DEF StateOf
  <2> QED BY <2>1, <2>3, <2>5, <1>1, <1>2, <1>4 DEF d
<1> QED BY <1>1, <1>2, <1>3, <1>4

----------------------------------------------------------------------------
(* What holds of every copy of the container, whatever events come and in   *)
(* whatever order they are handled.                                         *)

NoAlive(c) == \A i \in 1 .. Len(c.events) : c.events[i].type # "Alive"
SilentAt(c, time) ==
  c.liveliness # "Alive" => c.lastEventTime # None /\ time - c.lastEventTime > DeadAfter
Sound(c, time) == c \in Container /\ NoAlive(c) /\ SilentAt(c, time)

LEMMA AdvancedSound ==
  ASSUME NEW c, NEW d, NEW e \in Event, NEW time, Sound(c, time), Advanced(c, e, d)
  PROVE  Sound(d, time)
<1>1. c \in Container /\ d \in Container /\ c.events \in Seq(Event)
  BY ContainerFields DEF Sound, Advanced
<1>2. NoAlive(d)
  <2>1. CASE d.events = c.events
    BY <2>1 DEF Sound, NoAlive
  <2>2. CASE d.events = <<e>> \o c.events /\ e.type # "Alive"
    <3>1. /\ Len(d.events) = Len(c.events) + 1 /\ d.events[1] = e
          /\ \A i \in 1 .. Len(c.events) : d.events[i + 1] = c.events[i]
      BY <2>2, <1>1, InFront
    <3>2. Len(c.events) \in Nat
      BY <1>1, LenProperties
    <3> SUFFICES ASSUME NEW i \in 1 .. Len(d.events) PROVE d.events[i].type # "Alive"
      BY DEF NoAlive
    <3>3. CASE i = 1
      BY <3>3, <3>1, <2>2
    <3>4. CASE i # 1
      <4>1. i - 1 \in 1 .. Len(c.events) /\ d.events[(i - 1) + 1] = c.events[i - 1]
        BY <3>1, <3>2, <3>4
      <4>2. (i - 1) + 1 = i
        OBVIOUS
      <4> QED BY <4>1, <4>2 DEF Sound, NoAlive
    <3> QED BY <3>3, <3>4
  <2> QED BY <2>1, <2>2 DEF Advanced
<1>3. SilentAt(d, time)
  BY DEF Advanced, Sound, SilentAt
<1> QED BY <1>1, <1>2, <1>3 DEF Sound

LEMMA TrimmedSound ==
  ASSUME NEW c, NEW time, Sound(c, time)
  PROVE  Sound(TrimEvents(c), time)
<1> DEFINE d == TrimEvents(c)
<1>1. /\ d \in Container /\ d.liveliness = c.liveliness /\ d.lastEventTime = c.lastEventTime
      /\ Len(d.events) <= Len(c.events)
      /\ \A i \in 1 .. Len(d.events) : d.events[i] = c.events[i]
  BY TrimmedFields DEF Sound
<1>2. Len(c.events) \in Nat /\ Len(d.events) \in Nat
  BY <1>1, ContainerFields, LenProperties DEF Sound
<1> HIDE DEF d
<1>3. NoAlive(d)
  BY <1>1, <1>2 DEF Sound, NoAlive
<1>4. SilentAt(d, time)
  BY <1>1 DEF Sound, SilentAt
<1> QED BY <1>1, <1>3, <1>4 DEF Sound, d

\* The empty container.
LEMMA EmptySound ==
  ASSUME NEW time
  PROVE  Sound(EmptyContainer, time)
<1>1. <<>> \in Seq([type: Types, time: Nat]) /\ Len(<<>>) = 0
  BY EmptySeq
<1> QED BY <1>1 DEF Sound, NoAlive, SilentAt, EmptyContainer, Container, Livelinesses

\* Time passes.
LEMMA LaterSound ==
  ASSUME NEW c, NEW time \in Nat, Sound(c, time)
  PROVE  Sound(c, time + 1)
BY EventsAssumption, FSMAssumption, ContainerFields DEF Sound, SilentAt

----------------------------------------------------------------------------
(* The steps, by what they do to the container and to its copies.           *)

\* The steps that let an event come in.
Incoming(h) == HonestEvent(h) \/ AnyEvent(h)

LEMMA FollowsPhases ==
  ASSUME NEW phase
  PROVE  Follows(phase) \subseteq Types \cap Phases /\ "Alive" \notin Follows(phase)
BY DEF Follows, Types, Phases, Booting

\* An event comes in: the container is not touched, nor what the liveliness job has read.
LEMMA EventComes ==
  ASSUME TypeOK, NEW h \in Handlers, Incoming(h)
  PROVE  /\ \E type \in Types : Receive(h, type)
         /\ machine' \in Phases /\ buffer' \in Nat \cup {None}
         /\ UNCHANGED <<honest, now, reinstalled, row, evaluator>>
<1>0. buffer \in Nat \cup {None} /\ machine \in Phases
  BY DEF TypeOK
<1>1. CASE MachineStep(h)
  BY <1>0, <1>1, FollowsPhases DEF MachineStep
<1>2. CASE SendBuffered(h)
  BY <1>0, <1>2 DEF SendBuffered, Types
<1>3. CASE PlannedReboot(h)
  BY <1>0, <1>3 DEF PlannedReboot, Types, Phases
<1>4. CASE Reclaim(h)
  BY <1>0, <1>4 DEF Reclaim, Types, Phases
<1>5. CASE AnyEvent(h)
  BY <1>0, <1>5 DEF AnyEvent
<1> QED BY <1>1, <1>2, <1>3, <1>4, <1>5 DEF Incoming, HonestEvent

\* The call that is new has not read the container.
LEMMA Received ==
  ASSUME TypeOK, NEW h \in Handlers, NEW type \in Types, Receive(h, type)
  PROVE  /\ handler' \in [Handlers -> [pc: HandlerPC, event: [type: Types, time: Nat],
                                       seen: Container]]
         /\ handler[h].pc = "idle"
         /\ handler'[h].pc = "read" /\ handler'[h].seen = EmptyContainer
         /\ handler'[h].event = [type |-> type, time |-> now]
         /\ \A g \in Handlers \ {h} : handler'[g] = handler[g]
<1>1. EmptyContainer \in Container
  BY EmptySound DEF Sound
<1> QED BY <1>1 DEF Receive, TypeOK, IdleHandler, NoEvent, HandlerPC

\* What a handler makes of the container it has read.
LEMMA ResultAdvances ==
  ASSUME TypeOK, NEW h \in Handlers
  PROVE  /\ handler[h].seen \in Container /\ handler[h].event \in Event
         /\ Advanced(handler[h].seen, handler[h].event, Result(h)) /\ Result(h) \in Container
<1>1. handler[h].seen \in Container /\ handler[h].event \in Event
  BY DEF TypeOK, Event
<1>2. Advanced(handler[h].seen, handler[h].event, Result(h))
  BY <1>1, HandlingAdvances DEF Result
<1> QED BY <1>1, <1>2 DEF Advanced

\* A read or a write of a handler leaves the other calls alone.
LEMMA HandlerMoves ==
  ASSUME TypeOK, NEW h \in Handlers, Read(h) \/ Write(h)
  PROVE  /\ handler' \in [Handlers -> [pc: HandlerPC, event: [type: Types, time: Nat],
                                       seen: Container]]
         /\ \A g \in Handlers \ {h} : handler'[g] = handler[g]
         /\ Read(h) => /\ handler'[h].pc = "write" /\ handler'[h].seen = row
                       /\ handler'[h].event = handler[h].event
         /\ Write(h) => handler'[h] = IdleHandler
<1>1. EmptyContainer \in Container
  BY EmptySound DEF Sound
<1>2. CASE Read(h)
  BY <1>2, <1>1 DEF Read, Write, TypeOK, HandlerPC, IdleHandler
<1>3. CASE Write(h)
  BY <1>3, <1>1 DEF Read, Write, TypeOK, HandlerPC, IdleHandler, NoEvent, Types
<1> QED BY <1>2, <1>3

\* The liveliness job keeps the events and the time of a container.
LEMMA EvaluatedFields ==
  ASSUME NEW c \in Container, NEW d \in Evaluated(c)
  PROVE  /\ d \in Container /\ d.events = c.events /\ d.lastEventTime = c.lastEventTime
         /\ d.lastError = c.lastError /\ d.crashLoop = c.crashLoop
         /\ d.failedReclaim = c.failedReclaim
         /\ d.liveliness # "Alive" => Silent(c)
<1>1. PICK l \in Livelinesses :
        d = [c EXCEPT !.liveliness = l] /\ (l # "Alive" => Silent(c))
  BY DEF Evaluated, Livelinesses
<1> QED BY <1>1 DEF Container

----------------------------------------------------------------------------
(* No assumption on the order of events.                                    *)

Copies ==
  /\ Sound(row, now) /\ Sound(evaluator.seen, now)
  /\ \A h \in Handlers : Sound(handler[h].seen, now)
  /\ evaluator.busy => evaluator.seen.lastEventTime # None
  /\ evaluator.current => evaluator.seen = row

Lively == TypeOK /\ Copies

LEMMA LivelyInit == Init => Lively
<1> SUFFICES ASSUME Init PROVE Lively
  OBVIOUS
<1>1. Sound(EmptyContainer, now) /\ EmptyContainer \in Container /\ EmptyContainer.events = <<>>
  BY EmptySound DEF Sound, EmptyContainer
<1>2. NoEvent \in [type: Types, time: Nat] /\ IdleHandler.seen = EmptyContainer
  BY DEF NoEvent, Types, IdleHandler
<1>3. IdleHandler \in [pc: HandlerPC, event: [type: Types, time: Nat], seen: Container]
  BY <1>1, <1>2 DEF IdleHandler, HandlerPC
<1>4. Len(<<>>) = 0 /\ 0 <= MaxEvents
  BY EmptySeq, FSMAssumption
<1>5. TypeOK
  BY <1>1, <1>3, <1>4 DEF Init, TypeOK, Phases
<1>6. Copies
  BY <1>1, <1>2 DEF Init, Copies
<1> QED BY <1>5, <1>6 DEF Lively

LEMMA LivelyStep == Lively /\ [Next]_vars => Lively'
<1> SUFFICES ASSUME Lively, [Next]_vars PROVE Lively'
  OBVIOUS
<1> DEFINE HandlerType == [Handlers -> [pc: HandlerPC, event: [type: Types, time: Nat],
                                        seen: Container]]
<1>0. /\ TypeOK /\ Copies /\ now \in Nat
      /\ row \in Container /\ evaluator.seen \in Container
      /\ EmptyContainer \in Container /\ Sound(EmptyContainer, now)
  BY EmptySound DEF Lively, TypeOK, Sound
<1>1. CASE Tick
  <2>1. Sound(row, now') /\ Sound(evaluator.seen, now')
        /\ \A h \in Handlers : Sound(handler[h].seen, now')
    BY <1>0, <1>1, LaterSound DEF Tick, Copies
  <2>2. TypeOK'
    BY <1>0, <1>1 DEF Tick, TypeOK
  <2> QED BY <2>1, <2>2, <1>0, <1>1 DEF Tick, Lively, Copies
<1>2. CASE Buffer \/ Reinstall \/ UNCHANGED vars
  BY <1>0, <1>2 DEF Buffer, Reinstall, vars, Lively, TypeOK, Copies, Phases
<1>3. CASE EvaluateRead
  BY <1>0, <1>3 DEF EvaluateRead, Lively, TypeOK, Copies
<1>4. CASE EvaluateWrite
  <2>1. CASE Unchanged
    <3>1. evaluator.seen = row /\ row.lastEventTime # None
      BY <2>1, <1>0, <1>4 DEF EvaluateWrite, Unchanged, Copies
    <3>2. row' \in Evaluated(row) /\ now' = now
      BY <2>1, <3>1, <1>4 DEF EvaluateWrite
    <3>3. /\ row' \in Container /\ row'.events = row.events
          /\ row'.lastEventTime = row.lastEventTime
          /\ row'.liveliness # "Alive" => Silent(row)
      BY <3>2, <1>0, EvaluatedFields
    <3>4. Sound(row', now)
      BY <3>1, <3>3, <1>0 DEF Sound, NoAlive, SilentAt, Silent, Copies
    <3>5. TypeOK'
      BY <1>0, <1>4, <3>3 DEF EvaluateWrite, TypeOK
    <3> QED BY <1>0, <1>4, <3>2, <3>4, <3>5 DEF EvaluateWrite, Lively, Copies
  <2>2. CASE ~Unchanged
    BY <2>2, <1>0, <1>4 DEF EvaluateWrite, Lively, TypeOK, Copies
  <2> QED BY <2>1, <2>2
<1>5. ASSUME NEW h \in Handlers, Incoming(h)
      PROVE  Lively'
  <2>1. PICK type \in Types : Receive(h, type)
    BY <1>0, <1>5, EventComes
  <2>2. /\ machine' \in Phases /\ buffer' \in Nat \cup {None}
        /\ UNCHANGED <<honest, now, reinstalled, row, evaluator>>
    BY <1>0, <1>5, EventComes
  <2>3. /\ handler' \in HandlerType /\ handler'[h].seen = EmptyContainer
        /\ \A g \in Handlers \ {h} : handler'[g] = handler[g]
    BY <1>0, <2>1, Received
  <2>4. TypeOK'
    BY <1>0, <2>2, <2>3 DEF TypeOK
  <2> QED BY <1>0, <2>2, <2>3, <2>4 DEF Lively, Copies
<1>6. ASSUME NEW h \in Handlers, Read(h)
      PROVE  Lively'
  <2>1. /\ handler' \in HandlerType /\ handler'[h].seen = row
        /\ \A g \in Handlers \ {h} : handler'[g] = handler[g]
    BY <1>0, <1>6, HandlerMoves
  <2>2. TypeOK'
    BY <1>0, <1>6, <2>1 DEF TypeOK, Read
  <2> QED BY <1>0, <1>6, <2>1, <2>2 DEF Read, Lively, Copies
<1>7. ASSUME NEW h \in Handlers, Write(h)
      PROVE  Lively'
  <2>1. /\ handler' \in HandlerType /\ handler'[h].seen = EmptyContainer
        /\ \A g \in Handlers \ {h} : handler'[g] = handler[g]
    BY <1>0, <1>7, HandlerMoves DEF IdleHandler
  <2>2. UNCHANGED <<honest, now, machine, reinstalled, buffer>>
    BY <1>7 DEF Write
  <2>3. CASE Validate(Result(h))
    <3>1. row' = TrimEvents(Result(h)) /\ evaluator' = [evaluator EXCEPT !.current = FALSE]
      BY <2>3, <1>7 DEF Write
    <3>2. Sound(Result(h), now)
      BY <1>0, ResultAdvances, AdvancedSound DEF Copies
    <3>3. Sound(row', now)
      BY <3>1, <3>2, TrimmedSound
    <3>4. row' \in Container /\ Len(row'.events) <= MaxEvents
      BY <3>1, <1>0, ResultAdvances, TrimmedFields
    <3>5. TypeOK'
      BY <1>0, <2>1, <2>2, <3>1, <3>4 DEF TypeOK
    <3> QED BY <1>0, <2>1, <2>2, <3>1, <3>3, <3>5 DEF Lively, Copies, TypeOK
  <2>4. CASE ~Validate(Result(h))
    <3>1. UNCHANGED <<row, evaluator>>
      BY <2>4, <1>7 DEF Write
    <3>2. TypeOK'
      BY <1>0, <2>1, <2>2, <3>1 DEF TypeOK
    <3> QED BY <1>0, <2>1, <2>2, <3>1, <3>2 DEF Lively, Copies
  <2> QED BY <2>3, <2>4
<1> QED BY <1>1, <1>2, <1>3, <1>4, <1>5, <1>6, <1>7 DEF Next, Incoming

\* Whatever events come, in whatever order handlers read and write: only a machine that has
\* sent nothing for a while is not alive (evaluateMachineLiveliness).
THEOREM OnlyTheSilentAreDead == Spec => []DeadIsSilent
<1>1. Lively => DeadIsSilent
  BY DEF Lively, Copies, Sound, SilentAt, DeadIsSilent
<1> QED BY <1>1, LivelyInit, LivelyStep, PTL DEF Spec

----------------------------------------------------------------------------
(* Events that are handled one after the other.                             *)

\* Copies that differ in the liveliness only.
SameHistory(c, d) ==
  /\ c.events = d.events /\ c.lastEventTime = d.lastEventTime /\ c.lastError = d.lastError
  /\ c.crashLoop = d.crashLoop /\ c.failedReclaim = d.failedReclaim

NotAfter(c, time) == c.lastEventTime # None => c.lastEventTime <= time

LEMMA AdvancedValid ==
  ASSUME NEW c \in Container, NEW e \in Event, NEW d,
         Validate(c), NotAfter(c, e.time), Advanced(c, e, d)
  PROVE  Validate(d) /\ NotAfter(d, e.time)
<1>1. /\ d \in Container /\ c.events \in Seq(Event) /\ e.time \in Nat
      /\ c.lastEventTime \in Nat \cup {None}
  BY ContainerFields DEF Advanced, Event
<1>2. NotAfter(d, e.time)
  BY <1>1 DEF Advanced, NotAfter
<1>3. CASE d.events = c.events
  <2>1. CASE c.events = <<>>
    BY <2>1, <1>2, <1>3 DEF Validate
  <2>2. CASE c.events # <<>>
    <3>1. c.lastEventTime # None /\ Head(c.events).time <= c.lastEventTime
      BY <2>2 DEF Validate
    <3>2. Head(c.events) \in Event
      BY <2>2, <1>1, HeadTailProperties
    <3>3. Head(c.events).time \in Nat
      BY <3>2 DEF Event
    <3>4. d.lastEventTime = c.lastEventTime \/ d.lastEventTime = e.time
      BY DEF Advanced
    <3>5. d.lastEventTime # None /\ Head(c.events).time <= d.lastEventTime
      BY <3>1, <3>3, <3>4, <1>1, FSMAssumption DEF NotAfter
    <3> QED BY <3>1, <3>5, <1>2, <1>3 DEF Validate
  <2> QED BY <2>1, <2>2
<1>4. CASE d.events # c.events
  <2>1. d.events = <<e>> \o c.events /\ d.lastEventTime = e.time
    BY <1>4 DEF Advanced
  <2>2. /\ Len(d.events) = Len(c.events) + 1 /\ Head(d.events) = e /\ d.events[1] = e
        /\ \A i \in 1 .. Len(c.events) : d.events[i + 1] = c.events[i]
    BY <2>1, <1>1, InFront
  <2>3. Len(c.events) \in Nat /\ (c.events = <<>> <=> Len(c.events) = 0)
    BY <1>1, LenProperties, EmptySeq
  <2>4. \A i \in 1 .. Len(c.events) : c.events[i].time \in Nat
    <3>1. \A i \in 1 .. Len(c.events) : c.events[i] \in Event
      BY <1>1, ElementOfSeq
    <3> QED BY <3>1 DEF Event
  <2>5. ASSUME NEW i \in 1 .. Len(d.events) - 1
        PROVE  d.events[i + 1].time <= d.events[i].time
    <3>1. i \in 1 .. Len(c.events) /\ d.events[i + 1] = c.events[i] /\ c.events # <<>>
      BY <2>2, <2>3
    <3>2. CASE i = 1
      <4>1. Head(c.events) = c.events[1] /\ c.lastEventTime # None
            /\ Head(c.events).time <= c.lastEventTime
        BY <3>1, <1>1 DEF Validate
      <4> QED BY <4>1, <3>1, <3>2, <2>2, <2>4, <1>1, FSMAssumption DEF NotAfter
    <3>3. CASE i # 1
      <4>1. i - 1 \in 1 .. Len(c.events) - 1 /\ (i - 1) + 1 = i
        BY <3>1, <3>3, <2>3
      <4>2. i - 1 \in 1 .. Len(c.events)
        BY <4>1, <2>3
      <4>3. d.events[i] = c.events[i - 1]
        BY <4>1, <4>2, <2>2
      <4>4. c.events[(i - 1) + 1].time <= c.events[i - 1].time
        BY <4>1, <3>1 DEF Validate
      <4> QED BY <4>1, <4>3, <4>4, <3>1
    <3> QED BY <3>2, <3>3
  <2>6. d.lastEventTime # None /\ Head(d.events).time <= d.lastEventTime
    <3>1. e.time # None /\ e.time <= e.time
      BY <1>1, FSMAssumption
    <3> QED BY <3>1, <2>1, <2>2
  <2> QED BY <2>5, <2>6, <1>2 DEF Validate
<1> QED BY <1>3, <1>4

LEMMA TrimmedValid ==
  ASSUME NEW c \in Container, Validate(c)
  PROVE  Validate(TrimEvents(c))
<1> DEFINE d == TrimEvents(c)
<1>1. /\ d \in Container /\ d.lastEventTime = c.lastEventTime
      /\ Len(d.events) <= Len(c.events)
      /\ \A i \in 1 .. Len(d.events) : d.events[i] = c.events[i]
  BY TrimmedFields
<1>2. c.events \in Seq(Event) /\ d.events \in Seq(Event)
  BY <1>1, ContainerFields
<1>3. Len(c.events) \in Nat /\ Len(d.events) \in Nat
  BY <1>2, LenProperties
<1> HIDE DEF d
<1>4. ASSUME d.events # <<>>
      PROVE  d.lastEventTime # None /\ Head(d.events).time <= d.lastEventTime
  <2>1. Len(d.events) > 0 /\ Head(d.events) = d.events[1]
    BY <1>2, <1>3, <1>4, EmptySeq
  <2>2. c.events # <<>> /\ Head(c.events) = c.events[1] /\ d.events[1] = c.events[1]
    BY <2>1, <1>1, <1>2, <1>3
  <2> QED BY <2>1, <2>2, <1>1 DEF Validate
<1>5. ASSUME NEW i \in 1 .. Len(d.events) - 1
      PROVE  d.events[i + 1].time <= d.events[i].time
  <2>1. i \in 1 .. Len(d.events) /\ i + 1 \in 1 .. Len(d.events) /\ i \in 1 .. Len(c.events) - 1
    BY <1>1, <1>3
  <2>2. c.events # <<>>
    BY <2>1, <1>1, <1>2, <1>3, EmptySeq
  <2>3. d.events[i] = c.events[i] /\ d.events[i + 1] = c.events[i + 1]
    BY <2>1, <1>1
  <2> QED BY <2>1, <2>2, <2>3 DEF Validate
<1> QED BY <1>4, <1>5 DEF Validate, d

LEMMA SameValid ==
  ASSUME NEW c, NEW d, NEW time, SameHistory(c, d)
  PROVE  /\ Validate(c) => Validate(d)
         /\ NotAfter(c, time) => NotAfter(d, time)
BY DEF SameHistory, Validate, NotAfter

Active(h) == handler[h].pc # "idle"

\* One call at a time, its event is not older than what the container has seen, and the
\* copy it has read is, up to the liveliness, the container as it is.
Serial ==
  /\ Validate(row) /\ NotAfter(row, now)
  /\ \A h \in Handlers : Active(h) => /\ handler[h].event.time <= now
                                      /\ NotAfter(row, handler[h].event.time)
  /\ \A h \in Handlers : handler[h].pc = "write" => SameHistory(handler[h].seen, row)
  /\ \A g, h \in Handlers : Active(g) /\ Active(h) => g = h

Orderly == Lively /\ Serial

LEMMA OrderlyInit == Init => Orderly
<1> SUFFICES ASSUME Init PROVE Orderly
  OBVIOUS
<1>1. Validate(row) /\ NotAfter(row, now)
  BY DEF Init, EmptyContainer, Validate, NotAfter
<1>2. \A h \in Handlers : ~Active(h) /\ handler[h].pc # "write"
  BY DEF Init, Active, IdleHandler
<1> QED BY <1>1, <1>2, LivelyInit DEF Orderly, Serial

\* What a handler writes is valid, and not older than its event.
LEMMA ResultValid ==
  ASSUME Orderly, NEW h \in Handlers, handler[h].pc = "write"
  PROVE  /\ Validate(Result(h)) /\ NotAfter(Result(h), handler[h].event.time)
         /\ Result(h) \in Container
<1>1. TypeOK /\ SameHistory(row, handler[h].seen)
  BY DEF Orderly, Lively, Serial, SameHistory
<1>2. Validate(row) /\ NotAfter(row, handler[h].event.time)
  BY DEF Orderly, Serial, Active
<1>3. Validate(handler[h].seen) /\ NotAfter(handler[h].seen, handler[h].event.time)
  BY <1>1, <1>2, SameValid
<1> QED BY <1>1, <1>3, ResultAdvances, AdvancedValid

\* So every write replaces the container.
LEMMA WriteReplaces ==
  ASSUME Orderly, NEW h \in Handlers, Write(h)
  PROVE  /\ row' = TrimEvents(Result(h))
         /\ evaluator' = [evaluator EXCEPT !.current = FALSE]
BY ResultValid DEF Write

LEMMA OrderlyStep ==
  ASSUME "serial" \in Assumed
  PROVE  Orderly /\ [Next]_vars => Orderly'
<1> SUFFICES ASSUME Orderly, [Next]_vars PROVE Orderly'
  OBVIOUS
<1>0. /\ Lively /\ TypeOK /\ Copies /\ Lively' /\ now \in Nat /\ row \in Container
      /\ \A h \in Handlers : handler[h].event.time \in Nat
      /\ row.lastEventTime \in Nat \cup {None} /\ None \notin Nat
  BY LivelyStep, ContainerFields, FSMAssumption DEF Orderly, Lively, TypeOK
<1> SUFFICES Serial'
  BY <1>0 DEF Orderly
<1>1. CASE Tick
  BY <1>0, <1>1 DEF Tick, Orderly, Serial, NotAfter, Active
<1>2. CASE Buffer \/ Reinstall \/ UNCHANGED vars
  BY <1>0, <1>2 DEF Buffer, Reinstall, vars, Orderly, Serial, NotAfter, Active
<1>3. CASE EvaluateRead
  BY <1>0, <1>3 DEF EvaluateRead, Orderly, Serial, NotAfter, Active
<1>4. CASE EvaluateWrite
  <2>1. SameHistory(row, row')
    <3>1. CASE Unchanged
      <4>1. evaluator.seen = row /\ row' \in Evaluated(evaluator.seen)
        BY <3>1, <1>0, <1>4 DEF EvaluateWrite, Unchanged, Copies
      <4> QED BY <4>1, <1>0, EvaluatedFields DEF SameHistory
    <3>2. CASE ~Unchanged
      BY <3>2, <1>4 DEF EvaluateWrite, SameHistory
    <3> QED BY <3>1, <3>2
  <2>2. UNCHANGED <<now, handler>>
    BY <1>4 DEF EvaluateWrite
  <2>3. /\ Validate(row') /\ NotAfter(row', now')
        /\ \A h \in Handlers : Active(h) => NotAfter(row', handler[h].event.time)
    BY <2>1, <2>2, SameValid DEF Orderly, Serial
  <2>4. \A h \in Handlers : handler[h].pc = "write" => SameHistory(handler[h].seen, row')
    BY <2>1 DEF Orderly, Serial, SameHistory
  <2> QED BY <2>2, <2>3, <2>4 DEF Orderly, Serial, Active
<1>5. ASSUME NEW h \in Handlers, Incoming(h)
      PROVE  Serial'
  <2>1. PICK type \in Types : Receive(h, type)
    BY <1>0, <1>5, EventComes
  <2>2. UNCHANGED <<now, row>>
    BY <1>0, <1>5, EventComes
  <2>3. /\ handler'[h].pc = "read" /\ handler'[h].event = [type |-> type, time |-> now]
        /\ \A g \in Handlers \ {h} : handler'[g] = handler[g]
    BY <1>0, <2>1, Received
  <2>4. \A g \in Handlers : ~Active(g)
    BY <2>1 DEF Receive, Idle, Active
  <2>5. \A g \in Handlers \ {h} : handler'[g].pc = "idle"
    BY <2>3, <2>4 DEF Active
  <2>6. NotAfter(row', handler'[h].event.time) /\ handler'[h].event.time <= now'
    BY <2>2, <2>3, <1>0 DEF Orderly, Serial
  <2> QED BY <2>2, <2>3, <2>5, <2>6 DEF Orderly, Serial, Active
<1>6. ASSUME NEW h \in Handlers, Read(h)
      PROVE  Serial'
  <2>1. /\ handler'[h].pc = "write" /\ handler'[h].seen = row
        /\ handler'[h].event = handler[h].event
        /\ \A g \in Handlers \ {h} : handler'[g] = handler[g]
    BY <1>0, <1>6, HandlerMoves
  <2>2. UNCHANGED <<now, row>> /\ Active(h)
    BY <1>6 DEF Read, Active
  <2>3. SameHistory(handler'[h].seen, row')
    BY <2>1, <2>2 DEF SameHistory
  <2> QED BY <2>1, <2>2, <2>3 DEF Orderly, Serial, Active
<1>7. ASSUME NEW h \in Handlers, Write(h)
      PROVE  Serial'
  <2>1. /\ handler'[h].pc = "idle" /\ handler[h].pc = "write" /\ now' = now
        /\ \A g \in Handlers \ {h} : handler'[g] = handler[g]
    BY <1>0, <1>7, HandlerMoves DEF Write, IdleHandler
  <2>2. Active(h) /\ \A g \in Handlers \ {h} : ~Active(g)
    BY <2>1 DEF Active, Orderly, Serial
  <2>3. \A g \in Handlers : handler'[g].pc = "idle"
    BY <2>1, <2>2 DEF Active
  <2>4. row' = TrimEvents(Result(h))
    BY <1>7, WriteReplaces
  <2>5. /\ Validate(Result(h)) /\ NotAfter(Result(h), handler[h].event.time)
        /\ Result(h) \in Container
    BY <2>1, ResultValid
  <2>6. Validate(row') /\ row' \in Container /\ row'.lastEventTime = Result(h).lastEventTime
    BY <2>4, <2>5, TrimmedValid, TrimmedFields
  <2>7. NotAfter(row', now')
    <3>1. handler[h].event.time <= now /\ handler[h].event.time \in Nat
      BY <2>2, <1>0 DEF Orderly, Serial
    <3>2. row'.lastEventTime \in Nat \cup {None}
      BY <2>6, ContainerFields
    <3> QED BY <3>1, <3>2, <2>1, <2>5, <2>6, <1>0 DEF NotAfter
  <2> QED BY <2>3, <2>6, <2>7 DEF Serial, Active
<1> QED BY <1>1, <1>2, <1>3, <1>4, <1>5, <1>6, <1>7 DEF Next, Incoming

\* Events that are handled one after the other, of whatever kind: the container is valid at
\* every step, none of its copies keeps an alive event, and none of the results is refused
\* (HandleProvisioningEvent, Validate, TrimEvents).
THEOREM ContainersAreValid ==
  ASSUME "serial" \in Assumed
  PROVE  Spec => []ContainerValid
<1>1. Orderly => ContainerValid
  BY ResultValid DEF Orderly, Lively, Copies, Sound, NoAlive, ContainerValid, AliveNotKept,
                     NeverRejected
<1>2. Init => Orderly
  BY OrderlyInit
<1>3. Orderly /\ [Next]_vars => Orderly'
  BY OrderlyStep
<1> QED BY <1>1, <1>2, <1>3, PTL DEF Spec

----------------------------------------------------------------------------
(* No event is lost.                                                        *)

LEMMA ExtendsItself ==
  ASSUME NEW s \in Seq(Event)
  PROVE  Extends(s, s)
<1>1. Len(s) \in Nat
  BY LenProperties
<1> QED BY <1>1 DEF Extends

\* An advanced and trimmed container extends the one it was made of.
LEMMA AdvancedExtends ==
  ASSUME NEW c \in Container, NEW e \in Event, NEW d, Advanced(c, e, d)
  PROVE  Extends(TrimEvents(d).events, c.events)
<1> DEFINE t == TrimEvents(d).events
           n == Len(t)
           kept == {k \in 0 .. 1 : \A i \in 1 .. n - k :
                                     i <= Len(c.events) /\ t[i + k] = c.events[i]}
<1>1. /\ d \in Container /\ TrimEvents(d) \in Container
      /\ n <= Len(d.events) /\ (n = Len(d.events) \/ n = MaxEvents)
      /\ \A i \in 1 .. n : t[i] = d.events[i]
  BY TrimmedFields DEF Advanced
<1>2. c.events \in Seq(Event) /\ t \in Seq(Event) /\ d.events \in Seq(Event)
  BY <1>1, ContainerFields
<1>3. Len(c.events) \in Nat /\ n \in Nat /\ Len(d.events) \in Nat
  BY <1>2, LenProperties
<1> SUFFICES \E k \in kept : n = Len(c.events) + k \/ n = MaxEvents
  BY DEF Extends
<1> HIDE DEF t, n
<1>4. CASE d.events = c.events
  <2>1. \A i \in 1 .. n - 0 : i <= Len(c.events) /\ t[i + 0] = c.events[i]
    BY <1>1, <1>3, <1>4
  <2>2. 0 \in kept
    BY <2>1
  <2>3. n = Len(c.events) + 0 \/ n = MaxEvents
    BY <1>1, <1>3, <1>4
  <2> HIDE DEF kept
  <2> QED BY <2>2, <2>3
<1>5. CASE d.events = <<e>> \o c.events
  <2>1. /\ Len(d.events) = Len(c.events) + 1
        /\ \A i \in 1 .. Len(c.events) : d.events[i + 1] = c.events[i]
    BY <1>2, <1>5, InFront
  <2>2. \A i \in 1 .. n - 1 : i <= Len(c.events) /\ t[i + 1] = c.events[i]
    BY <2>1, <1>1, <1>3
  <2>3. 1 \in kept
    BY <2>2
  <2>4. n = Len(c.events) + 1 \/ n = MaxEvents
    BY <2>1, <1>1, <1>3
  <2> HIDE DEF kept
  <2> QED BY <2>3, <2>4
<1> QED BY <1>4, <1>5 DEF Advanced

\* Events that are handled one after the other: none is removed before the container is full,
\* and they stay in their order; the liveliness job removes none at all, as it compares the
\* stamp of what it has read (ProvisioningEventForMachine, evaluateMachineLiveliness).
THEOREM NoEventIsLost ==
  ASSUME "serial" \in Assumed
  PROVE  Spec => EventsKept
<1>1. Orderly /\ [Next]_vars => [Extends(row'.events, row.events)]_vars
  <2> SUFFICES ASSUME Orderly, Next PROVE Extends(row'.events, row.events)
    BY DEF vars
  <2>0. TypeOK /\ Copies /\ row \in Container /\ row.events \in Seq(Event)
    BY ContainerFields DEF Orderly, Lively, TypeOK
  <2>1. ASSUME row'.events = row.events
        PROVE  Extends(row'.events, row.events)
    BY <2>1, <2>0, ExtendsItself
  <2>2. CASE Tick \/ Buffer \/ Reinstall \/ EvaluateRead
    BY <2>1, <2>2 DEF Tick, Buffer, Reinstall, EvaluateRead
  <2>3. CASE EvaluateWrite
    <3>1. CASE Unchanged
      <4>1. evaluator.seen = row /\ row' \in Evaluated(evaluator.seen)
        BY <3>1, <2>0, <2>3 DEF EvaluateWrite, Unchanged, Copies
      <4> QED BY <4>1, <2>0, <2>1, EvaluatedFields
    <3>2. CASE ~Unchanged
      BY <3>2, <2>1, <2>3 DEF EvaluateWrite
    <3> QED BY <3>1, <3>2
  <2>4. ASSUME NEW h \in Handlers, Incoming(h) \/ Read(h)
        PROVE  Extends(row'.events, row.events)
    <3>1. row' = row
      BY <2>0, <2>4, EventComes DEF Read
    <3> QED BY <3>1, <2>1
  <2>5. ASSUME NEW h \in Handlers, Write(h)
        PROVE  Extends(row'.events, row.events)
    <3>1. row' = TrimEvents(Result(h))
      BY <2>5, WriteReplaces
    <3>2. handler[h].seen.events = row.events
      BY <2>5 DEF Write, Orderly, Serial, SameHistory
    <3>3. /\ handler[h].seen \in Container /\ handler[h].event \in Event
          /\ Advanced(handler[h].seen, handler[h].event, Result(h))
      BY <2>0, ResultAdvances
    <3>4. Extends(TrimEvents(Result(h)).events, handler[h].seen.events)
      BY <3>3, AdvancedExtends
    <3> QED BY <3>1, <3>2, <3>4
  <2> QED BY <2>2, <2>3, <2>4, <2>5 DEF Next, Incoming
<1>2. Init => Orderly
  BY OrderlyInit
<1>3. Orderly /\ [Next]_vars => Orderly'
  BY OrderlyStep
<1> QED BY <1>1, <1>2, <1>3, PTL DEF Spec, EventsKept

----------------------------------------------------------------------------
(* A complete boot clears what happened before.                             *)

\* The state an event in front of the others leads to.
LEMMA StateInFront ==
  ASSUME NEW c \in Container, NEW e \in Event, NEW d, d.events = <<e>> \o c.events
  PROVE  StateOf(d) = e.type
BY InFront, ContainerFields DEF StateOf

\* A network boot leads to its state from every other one.
LEMMA BootBegins ==
  ASSUME NEW c \in Container, NEW e \in Event, e.type = "PXEBooting"
  PROVE  StateOf(HandleProvisioningEvent(c, e)) = "PXEBooting"
<1> DEFINE s == StateOf(c)
<1>1. Enters("PXEBooting", s) = "PXEBooting"
  BY DEF Enters, SelfSources
<1>2. ~Buffered(c, e)
  BY DEF Buffered
<1>3. CASE ~Expected(e.type, s)
  <2>1. HandleProvisioningEvent(c, e) = Unexpected(c, e)
    BY <1>3 DEF HandleProvisioningEvent
  <2>2. Unexpected(c, e).events = <<e>> \o c.events
    BY UnexpectedFields
  <2> QED BY <2>1, <2>2, StateInFront
<1>4. CASE Expected(e.type, s)
  <2>1. HandleProvisioningEvent(c, e) = OnTransition(c, e, s)
    BY <1>4 DEF HandleProvisioningEvent
  <2>2. CASE s = "PXEBooting"
    <3>1. OnTransition(c, e, s) = [Seen(c, e) EXCEPT !.failedReclaim = FALSE]
      BY <1>1, <1>2, <2>2 DEF OnTransition
    <3>2. Seen(c, e) \in Container /\ Seen(c, e).events = c.events
      BY SeenFields
    <3>3. OnTransition(c, e, s).events = c.events
      BY <3>1, <3>2 DEF Container
    <3> QED BY <2>1, <2>2, <3>3 DEF StateOf
  <2>3. CASE s # "PXEBooting"
    <3>1. OnTransition(c, e, s) = Kept(c, e, "PXEBooting")
      BY <1>1, <1>2, <2>3 DEF OnTransition, Kept
    <3>2. "PXEBooting" \in States
      BY DEF States, Types, Booting
    <3>3. OnTransition(c, e, s).events = <<e>> \o c.events
      BY <3>1, <3>2, KeptFields
    <3> QED BY <2>1, <3>3, StateInFront
  <2> QED BY <2>2, <2>3
<1> QED BY <1>3, <1>4

\* An expected event of a boot is appended and clears the flags of its handler.
LEMMA BootGoesOn ==
  ASSUME NEW c \in Container, NEW e \in Event, e.type \in Booting \ {"PXEBooting"},
         Expected(e.type, StateOf(c))
  PROVE  /\ HandleProvisioningEvent(c, e) = Kept(c, e, e.type)
         /\ StateOf(HandleProvisioningEvent(c, e)) = e.type
<1>1. Enters(e.type, StateOf(c)) = e.type
  BY DEF Enters, SelfSources, Booting
<1>2. ~Buffered(c, e)
  BY DEF Buffered, Booting
<1>3. HandleProvisioningEvent(c, e) = Kept(c, e, e.type)
  BY <1>1, <1>2 DEF HandleProvisioningEvent, OnTransition, Kept, Booting
<1>4. Kept(c, e, e.type).events = <<e>> \o c.events
  BY KeptFields DEF States, Types
<1> QED BY <1>3, <1>4, StateInFront

\* The last phoned home of a boot clears the crash loop.
LEMMA BootEnds ==
  ASSUME NEW c \in Container, NEW e \in Event, e.type = "PhonedHome",
         StateOf(c) = "BootingNewKernel"
  PROVE  /\ HandleProvisioningEvent(c, e) = Kept(c, e, "PhonedHome")
         /\ StateOf(HandleProvisioningEvent(c, e)) = "PhonedHome"
<1>1. Enters(e.type, StateOf(c)) = "PhonedHome"
  BY DEF Enters, SelfSources
<1>2. Expected(e.type, StateOf(c))
  BY DEF Expected, Sources
<1>3. HandleProvisioningEvent(c, e) = Kept(c, e, "PhonedHome")
  BY <1>1, <1>2 DEF HandleProvisioningEvent, OnTransition, Kept
<1>4. Kept(c, e, "PhonedHome").events = <<e>> \o c.events
  BY KeptFields DEF States, Types
<1> QED BY <1>3, <1>4, StateInFront

\* The events of a boot at one time.
LEMMA BootAtFields ==
  ASSUME NEW t \in Nat
  PROVE  /\ Len(BootSequence) = 7 /\ DOMAIN BootAt(t) = 1 .. 7
         /\ \A i \in 1 .. 7 : BootAt(t)[i] \in Event
         /\ BootAt(t)[1].type = "PXEBooting" /\ BootAt(t)[2].type = "Preparing"
         /\ BootAt(t)[3].type = "Registering" /\ BootAt(t)[4].type = "Waiting"
         /\ BootAt(t)[5].type = "Installing" /\ BootAt(t)[6].type = "BootingNewKernel"
         /\ BootAt(t)[7].type = "PhonedHome"
<1>1. /\ Len(BootSequence) = 7
      /\ BootSequence[1] = "PXEBooting" /\ BootSequence[2] = "Preparing"
      /\ BootSequence[3] = "Registering" /\ BootSequence[4] = "Waiting"
      /\ BootSequence[5] = "Installing" /\ BootSequence[6] = "BootingNewKernel"
      /\ BootSequence[7] = "PhonedHome"
  BY DEF BootSequence
<1>2. \A i \in 1 .. 7 : BootSequence[i] \in Types
  <2> SUFFICES ASSUME NEW i \in 1 .. 7 PROVE BootSequence[i] \in Types
    OBVIOUS
  <2>1. i = 1 \/ i = 2 \/ i = 3 \/ i = 4 \/ i = 5 \/ i = 6 \/ i = 7
    OBVIOUS
  <2> QED BY <2>1, <1>1 DEF Types, Booting
<1>3. BootAt(t) = [i \in 1 .. 7 |-> [type |-> BootSequence[i], time |-> t]]
  BY <1>1 DEF BootAt
<1> QED BY <1>1, <1>2, <1>3 DEF Event

\* The containers of a boot exist and are what AfterBoot says.
LEMMA AfterBootSteps ==
  ASSUME Len(BootSequence) = 7
  PROVE  /\ AfterBoot[0] = row
         /\ \A i \in 1 .. 7 :
              AfterBoot[i] = HandleProvisioningEvent(AfterBoot[i - 1], BootAt(now)[i])
<1> DEFINE H(c, i) == HandleProvisioningEvent(c, BootAt(now)[i])
           c1 == H(row, 1)
           c2 == H(c1, 2)
           c3 == H(c2, 3)
           c4 == H(c3, 4)
           c5 == H(c4, 5)
           c6 == H(c5, 6)
           c7 == H(c6, 7)
           g == [i \in 0 .. 7 |->
                   IF i = 0 THEN row ELSE IF i = 1 THEN c1 ELSE IF i = 2 THEN c2
                   ELSE IF i = 3 THEN c3 ELSE IF i = 4 THEN c4 ELSE IF i = 5 THEN c5
                   ELSE IF i = 6 THEN c6 ELSE c7]
           Body(f) == [i \in 0 .. 7 |-> IF i = 0 THEN row ELSE H(f[i - 1], i)]
<1>1. AfterBoot = CHOOSE f : f = Body(f)
  BY DEF AfterBoot
<1>2. c1 = H(row, 1) /\ c2 = H(c1, 2) /\ c3 = H(c2, 3) /\ c4 = H(c3, 4)
      /\ c5 = H(c4, 5) /\ c6 = H(c5, 6) /\ c7 = H(c6, 7)
  OBVIOUS
<1> HIDE DEF c1, c2, c3, c4, c5, c6, c7, H
<1>3. g = Body(g)
  <2>1. \A i \in 0 .. 7 : g[i] = IF i = 0 THEN row ELSE H(g[i - 1], i)
    <3> SUFFICES ASSUME NEW i \in 0 .. 7 PROVE g[i] = IF i = 0 THEN row ELSE H(g[i - 1], i)
      OBVIOUS
    <3>1. /\ g[0] = row /\ g[1] = c1 /\ g[2] = c2 /\ g[3] = c3 /\ g[4] = c4 /\ g[5] = c5
          /\ g[6] = c6 /\ g[7] = c7
      OBVIOUS
    <3>2. i \in {0, 1, 2, 3, 4, 5, 6, 7}
      OBVIOUS
    <3> HIDE DEF g
    <3>3. CASE i = 0
      BY <3>1, <3>3
    <3>4. ASSUME NEW k \in 1 .. 7, g[k] = H(g[k - 1], k), i = k
          PROVE  g[i] = IF i = 0 THEN row ELSE H(g[i - 1], i)
      BY <3>4
    <3>5. /\ g[1] = H(g[1 - 1], 1) /\ g[2] = H(g[2 - 1], 2) /\ g[3] = H(g[3 - 1], 3)
          /\ g[4] = H(g[4 - 1], 4) /\ g[5] = H(g[5 - 1], 5) /\ g[6] = H(g[6 - 1], 6)
          /\ g[7] = H(g[7 - 1], 7)
      <4>1. 1 - 1 = 0 /\ 2 - 1 = 1 /\ 3 - 1 = 2 /\ 4 - 1 = 3 /\ 5 - 1 = 4 /\ 6 - 1 = 5
            /\ 7 - 1 = 6
        OBVIOUS
      <4> QED BY <4>1, <3>1, <1>2
    <3> QED BY <3>2, <3>3, <3>4, <3>5
  <2>2. g = [i \in 0 .. 7 |-> g[i]]
    OBVIOUS
  <2> HIDE DEF g
  <2> QED BY <2>1, <2>2
<1>4. AfterBoot = Body(AfterBoot)
  <2> HIDE DEF Body
  <2> QED BY <1>1, <1>3
<1>5. \A i \in 0 .. 7 : AfterBoot[i] = IF i = 0 THEN row ELSE H(AfterBoot[i - 1], i)
  <2>1. \A i \in 0 .. 7 : Body(AfterBoot)[i] = IF i = 0 THEN row ELSE H(AfterBoot[i - 1], i)
    OBVIOUS
  <2> HIDE DEF Body
  <2> QED BY <2>1, <1>4
<1> HIDE DEF Body
<1> QED BY <1>5 DEF H

LEMMA KeptFlags ==
  ASSUME NEW c \in Container, NEW e \in Event, NEW entered \in States
  PROVE  /\ ~c.failedReclaim \/ entered = "Preparing" => ~Kept(c, e, entered).failedReclaim
         /\ entered = "PhonedHome" => ~Kept(c, e, entered).crashLoop
<1>1. /\ Kept(c, e, entered).crashLoop <=> c.crashLoop /\ entered \notin ClearsCrashLoop
      /\ Kept(c, e, entered).failedReclaim <=>
           c.failedReclaim /\ entered \notin {"PXEBooting", "Preparing"}
  BY KeptFields
<1> QED BY <1>1 DEF ClearsCrashLoop

LEMMA BootRecovers == TypeOK => Recovers
<1> SUFFICES ASSUME TypeOK PROVE Recovers
  OBVIOUS
<1> DEFINE e(i) == BootAt(now)[i]
           b(i) == AfterBoot[i]
<1>1. now \in Nat /\ row \in Container
  BY DEF TypeOK
<1>2. /\ Len(BootSequence) = 7 /\ \A i \in 1 .. 7 : e(i) \in Event
      /\ e(1).type = "PXEBooting" /\ e(2).type = "Preparing" /\ e(3).type = "Registering"
      /\ e(4).type = "Waiting" /\ e(5).type = "Installing" /\ e(6).type = "BootingNewKernel"
      /\ e(7).type = "PhonedHome"
  BY <1>1, BootAtFields
<1>3. b(0) = row /\ \A i \in 1 .. 7 : b(i) = HandleProvisioningEvent(b(i - 1), e(i))
  BY <1>2, AfterBootSteps
<1> HIDE DEF e, b
<1>4. /\ b(1) = HandleProvisioningEvent(row, e(1)) /\ b(2) = HandleProvisioningEvent(b(1), e(2))
      /\ b(3) = HandleProvisioningEvent(b(2), e(3)) /\ b(4) = HandleProvisioningEvent(b(3), e(4))
      /\ b(5) = HandleProvisioningEvent(b(4), e(5)) /\ b(6) = HandleProvisioningEvent(b(5), e(6))
      /\ b(7) = HandleProvisioningEvent(b(6), e(7))
  <2>1. 1 - 1 = 0 /\ 2 - 1 = 1 /\ 3 - 1 = 2 /\ 4 - 1 = 3 /\ 5 - 1 = 4 /\ 6 - 1 = 5 /\ 7 - 1 = 6
    OBVIOUS
  <2>2. {1, 2, 3, 4, 5, 6, 7} \subseteq 1 .. 7
    OBVIOUS
  <2> QED BY <2>1, <2>2, <1>3
<1>5. /\ e(1) \in Event /\ e(2) \in Event /\ e(3) \in Event /\ e(4) \in Event
      /\ e(5) \in Event /\ e(6) \in Event /\ e(7) \in Event
  BY <1>2
<1>6. \A c \in Container, f \in Event : HandleProvisioningEvent(c, f) \in Container
  BY HandlingAdvances DEF Advanced
<1>7. /\ b(1) \in Container /\ b(2) \in Container /\ b(3) \in Container /\ b(4) \in Container
      /\ b(5) \in Container /\ b(6) \in Container /\ b(7) \in Container
  BY <1>1, <1>4, <1>5, <1>6
<1>8. StateOf(b(1)) = "PXEBooting"
  BY <1>1, <1>2, <1>4, <1>5, BootBegins
<1>9. \A t \in Booting \ {"PXEBooting"} : t \in Types /\ t \in States
  BY DEF Types, States
<1>10. /\ "Preparing" \in Booting \ {"PXEBooting"} /\ "Registering" \in Booting \ {"PXEBooting"}
       /\ "Waiting" \in Booting \ {"PXEBooting"} /\ "Installing" \in Booting \ {"PXEBooting"}
       /\ "BootingNewKernel" \in Booting \ {"PXEBooting"}
  BY DEF Booting
<1>11. /\ Expected("Preparing", "PXEBooting") /\ Expected("Registering", "Preparing")
       /\ Expected("Waiting", "Registering") /\ Expected("Installing", "Waiting")
       /\ Expected("BootingNewKernel", "Installing")
  BY DEF Expected, Sources
<1>12. b(2) = Kept(b(1), e(2), "Preparing") /\ StateOf(b(2)) = "Preparing"
  BY <1>2, <1>4, <1>5, <1>7, <1>8, <1>10, <1>11, BootGoesOn
<1>13. b(3) = Kept(b(2), e(3), "Registering") /\ StateOf(b(3)) = "Registering"
  BY <1>2, <1>4, <1>5, <1>7, <1>12, <1>10, <1>11, BootGoesOn
<1>14. b(4) = Kept(b(3), e(4), "Waiting") /\ StateOf(b(4)) = "Waiting"
  BY <1>2, <1>4, <1>5, <1>7, <1>13, <1>10, <1>11, BootGoesOn
<1>15. b(5) = Kept(b(4), e(5), "Installing") /\ StateOf(b(5)) = "Installing"
  BY <1>2, <1>4, <1>5, <1>7, <1>14, <1>10, <1>11, BootGoesOn
<1>16. b(6) = Kept(b(5), e(6), "BootingNewKernel") /\ StateOf(b(6)) = "BootingNewKernel"
  BY <1>2, <1>4, <1>5, <1>7, <1>15, <1>10, <1>11, BootGoesOn
<1>17. b(7) = Kept(b(6), e(7), "PhonedHome") /\ StateOf(b(7)) = "PhonedHome"
  BY <1>2, <1>4, <1>5, <1>7, <1>16, BootEnds
<1>18. ~b(2).failedReclaim
  BY <1>5, <1>7, <1>9, <1>10, <1>12, KeptFlags
<1>19. ~b(3).failedReclaim
  BY <1>5, <1>7, <1>9, <1>10, <1>13, <1>18, KeptFlags
<1>20. ~b(4).failedReclaim
  BY <1>5, <1>7, <1>9, <1>10, <1>14, <1>19, KeptFlags
<1>21. ~b(5).failedReclaim
  BY <1>5, <1>7, <1>9, <1>10, <1>15, <1>20, KeptFlags
<1>22. ~b(6).failedReclaim
  BY <1>5, <1>7, <1>9, <1>10, <1>16, <1>21, KeptFlags
<1>23. "PhonedHome" \in States /\ "PhonedHome" \in ClearsCrashLoop
  BY DEF States, Types, ClearsCrashLoop
<1>24. ~b(7).failedReclaim /\ ~b(7).crashLoop
  BY <1>5, <1>7, <1>17, <1>22, <1>23, KeptFlags
<1> QED BY <1>2, <1>17, <1>24 DEF Recovers, b

\* Whatever events came before, in whatever order they were handled: a machine that boots,
\* installs and phones home is in the state phoned home and rid of its flags
\* (Events, PXEBootingState, PreparingState, PhonedHomeState).
THEOREM ABootRecovers == Spec => []Recovers
<1>1. Lively => Recovers
  BY BootRecovers DEF Lively
<1> QED BY <1>1, LivelyInit, LivelyStep, PTL DEF Spec

----------------------------------------------------------------------------
(* A machine that works as intended.                                        *)

Clean(c, again) == ~c.failedReclaim /\ (~again => c.lastError = None /\ ~c.crashLoop)

\* What an event that was kept or noted leads to.
Reached(d, state, time, again) ==
  d \in Container /\ StateOf(d) = state /\ d.lastEventTime = time /\ Clean(d, again)

LEMMA KeptReached ==
  ASSUME NEW c \in Container, NEW e \in Event, NEW entered \in States, NEW again,
         Clean(c, again)
  PROVE  Reached(Kept(c, e, entered), e.type, e.time, again)
<1> DEFINE d == Kept(c, e, entered)
<1>1. /\ d \in Container /\ d.events = <<e>> \o c.events
      /\ d.lastEventTime = e.time /\ d.lastError = c.lastError
      /\ d.crashLoop <=> c.crashLoop /\ entered \notin ClearsCrashLoop
      /\ d.failedReclaim <=> c.failedReclaim /\ entered \notin {"PXEBooting", "Preparing"}
  BY KeptFields
<1> HIDE DEF d
<1>2. StateOf(d) = e.type
  BY <1>1, StateInFront
<1>3. Clean(d, again)
  BY <1>1 DEF Clean
<1> QED BY <1>1, <1>2, <1>3 DEF Reached, d

LEMMA SeenReached ==
  ASSUME NEW c \in Container, NEW e \in Event, NEW again, Clean(c, again)
  PROVE  /\ Reached(Seen(c, e), StateOf(c), e.time, again)
         /\ Reached([Seen(c, e) EXCEPT !.failedReclaim = FALSE], StateOf(c), e.time, again)
<1> DEFINE s == Seen(c, e)
           d == [s EXCEPT !.failedReclaim = FALSE]
<1>1. /\ s \in Container /\ s.events = c.events /\ s.lastEventTime = e.time
      /\ s.lastError = c.lastError /\ s.crashLoop = c.crashLoop
      /\ s.failedReclaim = c.failedReclaim
  BY SeenFields
<1> HIDE DEF s
<1>2. /\ d \in Container /\ d.events = s.events /\ d.lastEventTime = s.lastEventTime
      /\ d.lastError = s.lastError /\ d.crashLoop = s.crashLoop /\ d.failedReclaim = FALSE
  BY <1>1 DEF Container
<1> HIDE DEF d
<1>3. Reached(s, StateOf(c), e.time, again) /\ Reached(d, StateOf(c), e.time, again)
  BY <1>1, <1>2 DEF Reached, StateOf, Clean
<1> QED BY <1>3 DEF s, d

\* An event nobody expects is kept with an error.
LEMMA UnexpectedReached ==
  ASSUME NEW c \in Container, NEW e \in Event, e.type # "Alive", Clean(c, TRUE)
  PROVE  Reached(Unexpected(c, e), e.type, e.time, TRUE)
<1> DEFINE d == Unexpected(c, e)
<1>1. /\ d \in Container /\ d.events = <<e>> \o c.events
      /\ d.lastEventTime = e.time /\ d.failedReclaim = c.failedReclaim
  BY UnexpectedFields
<1> HIDE DEF d
<1>2. StateOf(d) = e.type
  BY <1>1, StateInFront
<1> QED BY <1>1, <1>2 DEF Reached, Clean, d

\* The state in which the container of a machine is.
InPhase(state, phase, again) ==
  /\ phase \in Booting => state = phase
  /\ phase = "PhonedHome" => state = "PhonedHome"
  /\ phase = "reboot" => state \in {"PlannedReboot", "PhonedHome"}
  /\ phase = "restart" =>
       state \in {"Initial", "PlannedReboot", "MachineReclaim"}
         \cup (IF again THEN {"PhonedHome"} ELSE {})

\* What the machine does next is expected, unless it was reinstalled (Events, MachineStep).
LEMMA StepReached ==
  ASSUME NEW c \in Container, NEW e \in Event, NEW phase \in Phases, NEW again \in BOOLEAN,
         Clean(c, again), InPhase(StateOf(c), phase, again), e.type \in Follows(phase)
  PROVE  Reached(HandleProvisioningEvent(c, e), e.type, e.time, again)
<1> DEFINE s == StateOf(c)
           d == HandleProvisioningEvent(c, e)
<1>1. \A t \in Booting \cup {"PhonedHome", "PlannedReboot"} : t \in States
  BY DEF States, Types
<1>2. ASSUME again, ~Expected(e.type, s), e.type # "Alive"
      PROVE  Reached(d, e.type, e.time, again)
  <2>1. d = Unexpected(c, e) /\ Clean(c, TRUE)
    BY <1>2 DEF HandleProvisioningEvent, Clean
  <2>2. Reached(d, e.type, e.time, TRUE)
    BY <2>1, <1>2, UnexpectedReached
  <2> QED BY <2>2, <1>2 DEF Reached, Clean
<1>3. ASSUME e.type \in Booting \ {"PXEBooting"}, Expected(e.type, s)
      PROVE  Reached(d, e.type, e.time, again)
  <2>1. d = Kept(c, e, e.type)
    BY <1>3, BootGoesOn
  <2> QED BY <2>1, <1>1, <1>3, KeptReached
<1>4. CASE e.type = "PXEBooting"
  <2>1. ~Buffered(c, e) /\ Enters(e.type, s) = "PXEBooting"
    BY <1>4 DEF Buffered, Enters, SelfSources
  <2>2. phase \in {"restart", "PXEBooting"}
    BY <1>4 DEF Follows
  <2>3. CASE s = "PXEBooting"
    <3>1. Expected(e.type, s)
      BY <1>4, <2>3 DEF Expected, SelfSources
    <3>2. d = [Seen(c, e) EXCEPT !.failedReclaim = FALSE]
      BY <3>1, <2>1, <2>3 DEF HandleProvisioningEvent, OnTransition
    <3> QED BY <3>2, <2>3, <1>4, SeenReached
  <2>4. CASE s \in {"Initial", "PlannedReboot", "MachineReclaim"}
    <3>1. Expected(e.type, s)
      BY <1>4, <2>4 DEF Expected, Sources
    <3>2. d = Kept(c, e, "PXEBooting")
      BY <3>1, <2>1, <2>4 DEF HandleProvisioningEvent, OnTransition, Kept
    <3> QED BY <3>2, <1>1, KeptReached DEF Booting
  <2>5. CASE s = "PhonedHome" /\ again
    <3>1. ~Expected(e.type, s)
      BY <1>4, <2>5 DEF Expected, Sources, SelfSources
    <3> QED BY <3>1, <2>5, <1>2, <1>4
  <2> QED BY <2>2, <2>3, <2>4, <2>5 DEF InPhase, Booting
<1>5. CASE e.type = "Preparing"
  <2>1. phase \in {"restart", "PXEBooting"}
    BY <1>5 DEF Follows
  <2>2. CASE s = "PhonedHome" /\ again
    <3>1. ~Expected(e.type, s)
      BY <1>5, <2>2 DEF Expected, Sources, SelfSources
    <3> QED BY <3>1, <2>2, <1>2, <1>5
  <2>3. CASE s \in {"Initial", "PlannedReboot", "MachineReclaim", "PXEBooting"}
    <3>1. Expected(e.type, s)
      BY <1>5, <2>3 DEF Expected, Sources
    <3> QED BY <3>1, <1>3, <1>5 DEF Booting
  <2> QED BY <2>1, <2>2, <2>3 DEF InPhase, Booting
<1>6. CASE e.type \in {"Registering", "Waiting", "Installing", "BootingNewKernel"}
  <2>1. phase \in Booting /\ s = phase
    BY <1>6 DEF Follows, InPhase, Booting
  <2>2. Expected(e.type, s)
    BY <2>1, <1>6 DEF Follows, Expected, Sources
  <2> QED BY <2>2, <1>3, <1>6 DEF Booting
<1>7. CASE e.type = "PhonedHome"
  <2>1. phase \in {"BootingNewKernel", "PhonedHome", "reboot"}
    BY <1>7 DEF Follows, Phases, Booting
  <2>2. CASE s = "BootingNewKernel"
    <3>1. d = Kept(c, e, "PhonedHome")
      BY <2>2, <1>7, BootEnds
    <3> QED BY <3>1, <1>1, KeptReached
  <2>3. CASE s = "PhonedHome"
    <3>1. d = Seen(c, e)
      BY <1>7, <2>3 DEF HandleProvisioningEvent, Expected, SelfSources, OnTransition, Enters
    <3> QED BY <3>1, <2>3, <1>7, SeenReached
  <2>4. CASE s = "PlannedReboot"
    <3>1. Enters(e.type, s) = "PlannedReboot" /\ Expected(e.type, s)
      BY <1>7, <2>4 DEF Expected, SelfSources, Enters
    <3>2. d = Kept(c, e, "PlannedReboot")
      BY <3>1, <2>4 DEF HandleProvisioningEvent, OnTransition, Kept
    <3> QED BY <3>2, <1>1, KeptReached
  <2> QED BY <2>1, <2>2, <2>3, <2>4 DEF InPhase, Booting
<1>8. e.type \in Booting \cup {"PhonedHome"}
  BY DEF Follows, Booting
<1> QED BY <1>4, <1>5, <1>6, <1>7, <1>8 DEF Booting

\* A reboot or a reclaim is expected in every state and kept.
LEMMA OperatorReached ==
  ASSUME NEW c \in Container, NEW e \in Event, NEW again, Clean(c, again),
         e.type \in {"PlannedReboot", "MachineReclaim"}
  PROVE  Reached(HandleProvisioningEvent(c, e), e.type, e.time, again)
<1>1. StateOf(c) \in States /\ e.type \in States
  BY StateIsKnown DEF States, Types
<1>2. Expected(e.type, StateOf(c))
  BY <1>1 DEF Expected, Sources
<1>3. Enters(e.type, StateOf(c)) = e.type
  BY DEF Enters, SelfSources
<1>4. HandleProvisioningEvent(c, e) = Kept(c, e, e.type)
  BY <1>2, <1>3 DEF HandleProvisioningEvent, OnTransition, Kept
<1> QED BY <1>1, <1>4, KeptReached

\* A phoned home message that comes late is swallowed, or tells that the machine is there.
LEMMA LateMessage ==
  ASSUME NEW c \in Container, NEW e \in Event, e.type = "PhonedHome"
  PROVE  /\ /\ StateOf(c) \in {"PXEBooting", "Preparing", "Registering", "Waiting"}
            /\ Buffered(c, e)
            => HandleProvisioningEvent(c, e) = c
         /\ StateOf(c) = "MachineReclaim" /\ ~Late(c, e) => HandleProvisioningEvent(c, e) = c
         /\ StateOf(c) = "PhonedHome" => HandleProvisioningEvent(c, e) = Seen(c, e)
         /\ StateOf(c) = "PlannedReboot" =>
              HandleProvisioningEvent(c, e) = Kept(c, e, "PlannedReboot")
<1> DEFINE s == StateOf(c)
           d == HandleProvisioningEvent(c, e)
<1>1. ASSUME s \in {"PXEBooting", "Preparing", "Registering", "Waiting"}, Buffered(c, e)
      PROVE  d = c
  <2>1. Enters(e.type, s) = s /\ Expected(e.type, s)
    BY <1>1 DEF Expected, SelfSources, Enters
  <2> QED BY <2>1, <1>1 DEF HandleProvisioningEvent, OnTransition
<1>2. ASSUME s = "MachineReclaim", ~Late(c, e)
      PROVE  d = c
  <2>1. Enters(e.type, s) = "PhonedHome" /\ Expected(e.type, s)
    BY <1>2 DEF Expected, Sources, SelfSources, Enters
  <2> QED BY <2>1, <1>2 DEF HandleProvisioningEvent, OnTransition
<1>3. ASSUME s = "PhonedHome"
      PROVE  d = Seen(c, e)
  BY <1>3 DEF HandleProvisioningEvent, Expected, SelfSources, OnTransition, Enters
<1>4. ASSUME s = "PlannedReboot"
      PROVE  d = Kept(c, e, "PlannedReboot")
  <2>1. Enters(e.type, s) = "PlannedReboot" /\ Expected(e.type, s)
    BY <1>4 DEF Expected, SelfSources, Enters
  <2> QED BY <2>1, <1>4 DEF HandleProvisioningEvent, OnTransition, Kept
<1> QED BY <1>1, <1>2, <1>3, <1>4

----------------------------------------------------------------------------
(* The liveliness does not matter for what is made of an event.             *)

LEMMA SameKept ==
  ASSUME NEW c \in Container, NEW d \in Container, NEW e \in Event, SameHistory(c, d)
  PROVE  /\ SameHistory(Seen(c, e), Seen(d, e))
         /\ SameHistory([Seen(c, e) EXCEPT !.failedReclaim = FALSE],
                        [Seen(d, e) EXCEPT !.failedReclaim = FALSE])
         /\ SameHistory([Seen(c, e) EXCEPT !.failedReclaim = TRUE],
                        [Seen(d, e) EXCEPT !.failedReclaim = TRUE])
         /\ SameHistory([Append1(c, e) EXCEPT !.crashLoop = TRUE, !.lastError = e.type],
                        [Append1(d, e) EXCEPT !.crashLoop = TRUE, !.lastError = e.type])
<1> DEFINE Same(x) ==
      /\ Seen(x, e) \in Container /\ Append1(x, e) \in Container
      /\ Seen(x, e).events = x.events /\ Append1(x, e).events = <<e>> \o x.events
      /\ Seen(x, e).lastEventTime = e.time /\ Append1(x, e).lastEventTime = e.time
      /\ Seen(x, e).lastError = x.lastError /\ Append1(x, e).lastError = x.lastError
      /\ Seen(x, e).crashLoop = x.crashLoop /\ Append1(x, e).crashLoop = x.crashLoop
      /\ Seen(x, e).failedReclaim = x.failedReclaim
      /\ Append1(x, e).failedReclaim = x.failedReclaim
<1>1. Same(c)
  BY SeenFields, AppendFields
<1>2. Same(d)
  BY SeenFields, AppendFields
<1>3. SameHistory(Seen(c, e), Seen(d, e)) /\ SameHistory(Append1(c, e), Append1(d, e))
  BY <1>1, <1>2 DEF SameHistory
<1> QED BY <1>1, <1>2, <1>3 DEF SameHistory, Container

LEMMA SameFlags ==
  ASSUME NEW c \in Container, NEW d \in Container, NEW e \in Event, SameHistory(c, d)
  PROVE  /\ \A entered \in States : SameHistory(Kept(c, e, entered), Kept(d, e, entered))
         /\ SameHistory(Unexpected(c, e), Unexpected(d, e))
<1>1. c.crashLoop \in BOOLEAN /\ c.failedReclaim \in BOOLEAN
      /\ d.crashLoop \in BOOLEAN /\ d.failedReclaim \in BOOLEAN
  BY ContainerFields
<1>2. ASSUME NEW entered \in States
      PROVE  SameHistory(Kept(c, e, entered), Kept(d, e, entered))
  <2> DEFINE k == Kept(c, e, entered)
             l == Kept(d, e, entered)
  <2>1. /\ k \in Container /\ k.events = <<e>> \o c.events
        /\ k.lastEventTime = e.time /\ k.lastError = c.lastError
        /\ k.crashLoop <=> c.crashLoop /\ entered \notin ClearsCrashLoop
        /\ k.failedReclaim <=> c.failedReclaim /\ entered \notin {"PXEBooting", "Preparing"}
    BY KeptFields
  <2>2. /\ l \in Container /\ l.events = <<e>> \o d.events
        /\ l.lastEventTime = e.time /\ l.lastError = d.lastError
        /\ l.crashLoop <=> d.crashLoop /\ entered \notin ClearsCrashLoop
        /\ l.failedReclaim <=> d.failedReclaim /\ entered \notin {"PXEBooting", "Preparing"}
    BY KeptFields
  <2> HIDE DEF k, l
  <2>3. k.crashLoop \in BOOLEAN /\ l.crashLoop \in BOOLEAN
        /\ k.failedReclaim \in BOOLEAN /\ l.failedReclaim \in BOOLEAN
    BY <2>1, <2>2, ContainerFields
  <2>4. SameHistory(k, l)
    BY <2>1, <2>2, <2>3 DEF SameHistory
  <2> QED BY <2>4 DEF k, l
<1>3. SameHistory(Unexpected(c, e), Unexpected(d, e))
  <2> DEFINE Same(x) ==
        /\ Unexpected(x, e).events = IF e.type = "Alive" THEN x.events ELSE <<e>> \o x.events
        /\ Unexpected(x, e).lastEventTime = e.time /\ Unexpected(x, e).lastError = e.type
        /\ Unexpected(x, e).crashLoop = (x.crashLoop \/ e.type \in {"PXEBooting", "Preparing"})
        /\ Unexpected(x, e).failedReclaim = x.failedReclaim
  <2>1. Same(c)
    BY UnexpectedFields
  <2>2. Same(d)
    BY UnexpectedFields
  <2> QED BY <2>1, <2>2 DEF SameHistory
<1> QED BY <1>2, <1>3

LEMMA SameHandled ==
  ASSUME NEW c \in Container, NEW d \in Container, NEW e \in Event, SameHistory(c, d)
  PROVE  SameHistory(HandleProvisioningEvent(c, e), HandleProvisioningEvent(d, e))
<1> DEFINE s == StateOf(c)
           entered == Enters(e.type, s)
<1>1. /\ StateOf(d) = s /\ (Late(c, e) <=> Late(d, e)) /\ (Buffered(c, e) <=> Buffered(d, e))
  BY DEF SameHistory, StateOf, Late, Buffered
<1>2. entered \in States
  BY EntersKnown DEF Event
<1>3. CASE ~Expected(e.type, s)
  BY <1>1, <1>3, SameFlags DEF HandleProvisioningEvent
<1>4. CASE Expected(e.type, s)
  <2>1. /\ HandleProvisioningEvent(c, e) = OnTransition(c, e, s)
        /\ HandleProvisioningEvent(d, e) = OnTransition(d, e, s)
    BY <1>1, <1>4 DEF HandleProvisioningEvent
  <2>2. \A x \in {c, d} : OnTransition(x, e, s) =
          CASE entered = "Alive" -> Seen(x, e)
            [] entered = "Crashed" ->
                 [Append1(x, e) EXCEPT !.crashLoop = TRUE, !.lastError = e.type]
            [] entered = "PhonedHome" /\ s = "PhonedHome" -> Seen(x, e)
            [] entered = "PhonedHome" /\ s = "MachineReclaim" ->
                 IF Late(c, e) THEN [Seen(x, e) EXCEPT !.failedReclaim = TRUE] ELSE x
            [] entered \in {"PXEBooting", "Preparing", "Registering", "Waiting"}
                 /\ Buffered(c, e) -> x
            [] entered = "PXEBooting" /\ s = "PXEBooting" /\ ~Buffered(c, e) ->
                 [Seen(x, e) EXCEPT !.failedReclaim = FALSE]
            [] OTHER -> Kept(x, e, entered)
    BY <1>1 DEF OnTransition, Kept
  <2> DEFINE x == OnTransition(c, e, s)
             y == OnTransition(d, e, s)
  <2>3. /\ SameHistory(Seen(c, e), Seen(d, e))
        /\ SameHistory([Seen(c, e) EXCEPT !.failedReclaim = FALSE],
                       [Seen(d, e) EXCEPT !.failedReclaim = FALSE])
        /\ SameHistory([Seen(c, e) EXCEPT !.failedReclaim = TRUE],
                       [Seen(d, e) EXCEPT !.failedReclaim = TRUE])
        /\ SameHistory([Append1(c, e) EXCEPT !.crashLoop = TRUE, !.lastError = e.type],
                       [Append1(d, e) EXCEPT !.crashLoop = TRUE, !.lastError = e.type])
    BY SameKept
  <2> HIDE DEF s, entered
  <2>4. CASE entered = "Alive" \/ (entered = "PhonedHome" /\ s = "PhonedHome")
    <3>1. x = Seen(c, e) /\ y = Seen(d, e)
      BY <2>2, <2>4
    <3> QED BY <3>1, <2>1, <2>3
  <2>5. CASE entered = "Crashed"
    <3>1. /\ x = [Append1(c, e) EXCEPT !.crashLoop = TRUE, !.lastError = e.type]
          /\ y = [Append1(d, e) EXCEPT !.crashLoop = TRUE, !.lastError = e.type]
      BY <2>2, <2>5
    <3> QED BY <3>1, <2>1, <2>3
  <2>6. CASE entered = "PhonedHome" /\ s = "MachineReclaim"
    <3>1. /\ x = IF Late(c, e) THEN [Seen(c, e) EXCEPT !.failedReclaim = TRUE] ELSE c
          /\ y = IF Late(c, e) THEN [Seen(d, e) EXCEPT !.failedReclaim = TRUE] ELSE d
      BY <2>2, <2>6
    <3> QED BY <3>1, <2>1, <2>3
  <2>7. CASE entered \in {"PXEBooting", "Preparing", "Registering", "Waiting"} /\ Buffered(c, e)
    <3>1. x = c /\ y = d
      BY <2>2, <2>7
    <3> QED BY <3>1, <2>1
  <2>8. CASE entered = "PXEBooting" /\ s = "PXEBooting" /\ ~Buffered(c, e)
    <3>1. /\ x = [Seen(c, e) EXCEPT !.failedReclaim = FALSE]
          /\ y = [Seen(d, e) EXCEPT !.failedReclaim = FALSE]
      BY <2>2, <2>8
    <3> QED BY <3>1, <2>1, <2>3
  <2>9. CASE ~ (\/ entered \in {"Alive", "Crashed"}
                \/ entered = "PhonedHome" /\ s \in {"PhonedHome", "MachineReclaim"}
                \/ entered \in {"PXEBooting", "Preparing", "Registering", "Waiting"}
                     /\ Buffered(c, e)
                \/ entered = "PXEBooting" /\ s = "PXEBooting" /\ ~Buffered(c, e))
    <3>1. x = Kept(c, e, entered) /\ y = Kept(d, e, entered)
      BY <2>2, <2>9
    <3> QED BY <3>1, <2>1, <1>2, SameFlags
  <2> QED BY <2>4, <2>5, <2>6, <2>7, <2>8, <2>9
<1> QED BY <1>3, <1>4

----------------------------------------------------------------------------
(* What the container of such a machine tells, once no event is handled.    *)

\* A message in the buffer of metal-core is not late, and the container has heard of the
\* machine since it was buffered, or will not mind it.
InTime(c, phase, buffered, time) ==
  buffered # None =>
    /\ phase \notin {"Installing", "BootingNewKernel"}
    /\ buffered <= time /\ time - buffered < SwallowThreshold
    /\ time - buffered <= ReclaimThreshold
    /\ phase \in Booting => c.lastEventTime # None /\ c.lastEventTime >= buffered
    /\ phase = "restart" =>
         \/ StateOf(c) = "PhonedHome"
         \/ StateOf(c) = "MachineReclaim" /\ c.lastEventTime # None
              /\ c.lastEventTime >= buffered

Fits(c, phase, again, buffered, time) ==
  /\ Clean(c, again) /\ InPhase(StateOf(c), phase, again)
  /\ InTime(c, phase, buffered, time)

LEMMA SameFits ==
  ASSUME NEW c, NEW d, NEW phase, NEW again, NEW buffered, NEW time,
         SameHistory(c, d), Fits(c, phase, again, buffered, time)
  PROVE  Fits(d, phase, again, buffered, time)
BY DEF SameHistory, Fits, Clean, InTime, StateOf

LEMMA TrimmedFits ==
  ASSUME NEW c \in Container, NEW phase, NEW again, NEW buffered, NEW time,
         Fits(c, phase, again, buffered, time)
  PROVE  Fits(TrimEvents(c), phase, again, buffered, time)
<1> DEFINE d == TrimEvents(c)
<1>1. /\ d.lastEventTime = c.lastEventTime /\ d.lastError = c.lastError
      /\ d.crashLoop = c.crashLoop /\ d.failedReclaim = c.failedReclaim
      /\ StateOf(d) = StateOf(c)
  BY TrimmedFields
<1> HIDE DEF d
<1>2. Fits(d, phase, again, buffered, time)
  BY <1>1 DEF Fits, Clean, InTime
<1> QED BY <1>2 DEF d

----------------------------------------------------------------------------
(* A machine that works is not blamed: its steps.                           *)

LEMMA TickFits ==
  ASSUME TypeOK, "timely" \in Assumed, Tick, NEW c \in Container,
         Fits(c, machine, reinstalled, buffer, now)
  PROVE  Fits(c, machine', reinstalled', buffer', now')
<1>1. /\ UNCHANGED <<machine, reinstalled, buffer>> /\ now' = now + 1 /\ now \in Nat
      /\ buffer \in Nat \cup {None}
      /\ buffer # None => /\ now + 1 - buffer < SwallowThreshold
                          /\ now + 1 - buffer <= ReclaimThreshold
  BY DEF Tick, TypeOK
<1> QED BY <1>1 DEF Fits, InTime

LEMMA BufferFits ==
  ASSUME TypeOK, Buffer, NEW c \in Container, Fits(c, machine, reinstalled, buffer, now)
  PROVE  Fits(c, machine', reinstalled', buffer', now')
<1>1. /\ UNCHANGED <<machine, reinstalled, now>> /\ machine = "PhonedHome" /\ buffer' = now
      /\ now \in Nat
  BY DEF Buffer, TypeOK
<1>2. InTime(c, machine, now, now)
  <2>1. now <= now /\ now - now < SwallowThreshold /\ now - now <= ReclaimThreshold
    BY <1>1, FSMAssumption
  <2> QED BY <2>1, <1>1 DEF InTime, Booting
<1> QED BY <1>1, <1>2 DEF Fits

LEMMA ReinstallFits ==
  ASSUME TypeOK, Reinstall, NEW c \in Container, Fits(c, machine, reinstalled, buffer, now)
  PROVE  Fits(c, machine', reinstalled', buffer', now')
<1>1. /\ UNCHANGED <<buffer, now>> /\ machine = "PhonedHome" /\ machine' = "restart"
      /\ reinstalled' = TRUE
  BY DEF Reinstall
<1>2. StateOf(c) = "PhonedHome"
  BY <1>1 DEF Fits, InPhase
<1>3. Clean(c, TRUE) /\ InPhase(StateOf(c), "restart", TRUE)
  BY <1>2 DEF Fits, Clean, InPhase, Booting
<1>4. InTime(c, "restart", buffer, now)
  BY <1>1, <1>2 DEF Fits, InTime, Booting
<1> QED BY <1>1, <1>3, <1>4 DEF Fits

\* What is made of the event that comes in fits what the machine does by then.
LEMMA IncomingFits ==
  ASSUME TypeOK, {"timely", "calm"} \subseteq Assumed,
         NEW h \in Handlers, HonestEvent(h), Fits(row, machine, reinstalled, buffer, now)
  PROVE  \E type \in Types :
           /\ Receive(h, type)
           /\ Fits(HandleProvisioningEvent(row, [type |-> type, time |-> now]),
                   machine', reinstalled', buffer', now')
<1> DEFINE d(type) == HandleProvisioningEvent(row, [type |-> type, time |-> now])
<1>0. /\ now \in Nat /\ row \in Container /\ machine \in Phases /\ reinstalled \in BOOLEAN
      /\ buffer \in Nat \cup {None} /\ None \notin Nat
      /\ Clean(row, reinstalled) /\ InPhase(StateOf(row), machine, reinstalled)
      /\ InTime(row, machine, buffer, now)
      /\ row.lastEventTime \in Nat \cup {None}
      /\ ReclaimThreshold \in Nat /\ SwallowThreshold \in Nat
  BY FSMAssumption, ContainerFields DEF TypeOK, Fits
<1>1. \A type \in Types : [type |-> type, time |-> now] \in Event
  BY <1>0 DEF Event
<1>2. CASE MachineStep(h)
  <2>1. PICK phase \in Follows(machine) :
          /\ phase = "Installing" => buffer = None
          /\ machine' = phase /\ Receive(h, phase)
    BY <1>2 DEF MachineStep, Arrived
  <2>2. UNCHANGED <<now, reinstalled, buffer>>
    BY <1>2 DEF MachineStep
  <2>3. phase \in Types
    BY FollowsPhases
  <2> DEFINE e == [type |-> phase, time |-> now]
  <2>4. e \in Event /\ e.type = phase /\ e.time = now
    BY <1>1, <2>3
  <2> HIDE DEF e
  <2>5. Reached(HandleProvisioningEvent(row, e), phase, now, reinstalled)
    BY <1>0, <2>4, StepReached
  <2> HIDE DEF d
  <2>6. d(phase) \in Container /\ StateOf(d(phase)) = phase /\ d(phase).lastEventTime = now
        /\ Clean(d(phase), reinstalled)
    BY <2>5 DEF d, e, Reached
  <2>7. InPhase(phase, phase, reinstalled) /\ phase # "restart"
    BY DEF InPhase, Follows, Booting
  <2>8. InTime(d(phase), phase, buffer, now)
    <3> SUFFICES ASSUME buffer # None PROVE InTime(d(phase), phase, buffer, now)
      BY DEF InTime
    <3>1. /\ machine # "Installing" /\ buffer <= now
          /\ now - buffer < SwallowThreshold /\ now - buffer <= ReclaimThreshold
      BY <1>0 DEF InTime
    <3>2. phase \notin {"Installing", "BootingNewKernel"}
      BY <2>1, <3>1 DEF Follows
    <3>3. now >= buffer /\ now # None
      BY <1>0, <3>1
    <3> QED BY <2>6, <2>7, <3>1, <3>2, <3>3 DEF InTime
  <2>9. Fits(d(phase), machine', reinstalled', buffer', now')
    BY <2>1, <2>2, <2>6, <2>7, <2>8 DEF Fits
  <2> QED BY <2>1, <2>3, <2>9 DEF d
<1>3. CASE SendBuffered(h)
  <2> DEFINE e == [type |-> "PhonedHome", time |-> now]
  <2>1. /\ buffer # None /\ buffer' = None /\ Receive(h, "PhonedHome")
        /\ UNCHANGED <<now, machine, reinstalled>>
    BY <1>3 DEF SendBuffered
  <2>2. "PhonedHome" \in Types /\ \A s \in {"PlannedReboot"} : s \in States
    BY DEF Types, States
  <2>3. e \in Event /\ e.type = "PhonedHome" /\ e.time = now
    BY <1>1, <2>2
  <2> HIDE DEF e
  <2> DEFINE f == HandleProvisioningEvent(row, e)
  <2>4. /\ machine \notin {"Installing", "BootingNewKernel"}
        /\ buffer <= now /\ now - buffer < SwallowThreshold /\ now - buffer <= ReclaimThreshold
        /\ machine \in Booting => row.lastEventTime # None /\ row.lastEventTime >= buffer
        /\ machine = "restart" =>
             \/ StateOf(row) = "PhonedHome"
             \/ StateOf(row) = "MachineReclaim" /\ row.lastEventTime # None
                  /\ row.lastEventTime >= buffer
    BY <1>0, <2>1 DEF InTime
  <2>5. Clean(f, reinstalled) /\ InPhase(StateOf(f), machine, reinstalled)
    <3>1. CASE machine \in Booting
      <4>1. StateOf(row) = machine
        BY <1>0, <3>1 DEF InPhase
      <4>2. Buffered(row, e)
        BY <1>0, <2>3, <2>4, <3>1 DEF Buffered
      <4>3. f = row
        BY <4>1, <4>2, <3>1, <2>3, <2>4, <1>0, LateMessage DEF Booting
      <4> QED BY <4>3, <1>0
    <3>2. CASE StateOf(row) = "PhonedHome"
      <4>1. f = Seen(row, e)
        BY <3>2, <2>3, <1>0, LateMessage
      <4>2. Reached(f, "PhonedHome", now, reinstalled)
        BY <4>1, <3>2, <2>3, <1>0, SeenReached
      <4> QED BY <4>2, <3>2, <1>0 DEF Reached
    <3>3. CASE StateOf(row) = "PlannedReboot" /\ machine = "reboot"
      <4>1. f = Kept(row, e, "PlannedReboot")
        BY <3>3, <2>3, <1>0, LateMessage
      <4>2. Reached(f, "PhonedHome", now, reinstalled)
        BY <4>1, <2>2, <2>3, <1>0, KeptReached
      <4> QED BY <4>2, <3>3 DEF Reached, InPhase, Booting
    <3>4. CASE StateOf(row) = "MachineReclaim" /\ machine = "restart"
      <4>1. ~Late(row, e)
        BY <1>0, <2>3, <2>4, <3>4 DEF Late
      <4>2. f = row
        BY <4>1, <3>4, <2>3, <1>0, LateMessage
      <4> QED BY <4>2, <1>0
    <3>5. machine \in Booting \cup {"PhonedHome", "restart", "reboot"}
      BY <1>0 DEF Phases
    <3> HIDE DEF f
    <3> QED BY <3>1, <3>2, <3>3, <3>4, <3>5, <2>4, <1>0 DEF InPhase
  <2>6. InTime(f, machine, None, now)
    BY DEF InTime
  <2>7. Fits(f, machine', reinstalled', buffer', now')
    BY <2>1, <2>5, <2>6 DEF Fits
  <2> QED BY <2>1, <2>2, <2>7 DEF e
<1>4. CASE PlannedReboot(h)
  <2> DEFINE e == [type |-> "PlannedReboot", time |-> now]
  <2>1. /\ buffer # None => machine \in {"PhonedHome", "reboot"}
        /\ machine' = IF machine \in {"PhonedHome", "reboot"} THEN "reboot" ELSE "restart"
        /\ Receive(h, "PlannedReboot")
        /\ UNCHANGED <<now, reinstalled, buffer>>
    BY <1>4 DEF PlannedReboot
  <2>2. "PlannedReboot" \in Types
    BY DEF Types
  <2>3. e \in Event /\ e.type = "PlannedReboot" /\ e.time = now
    BY <1>1, <2>2
  <2> HIDE DEF e
  <2> DEFINE f == HandleProvisioningEvent(row, e)
  <2>4. Reached(f, "PlannedReboot", now, reinstalled)
    BY <2>3, <1>0, OperatorReached
  <2> HIDE DEF f
  <2>5. InPhase("PlannedReboot", machine', reinstalled)
    BY <2>1 DEF InPhase, Booting
  <2>6. InTime(f, machine', buffer, now)
    <3> SUFFICES ASSUME buffer # None PROVE InTime(f, machine', buffer, now)
      BY DEF InTime
    <3>1. machine' = "reboot"
      BY <2>1
    <3>2. /\ buffer <= now /\ now - buffer < SwallowThreshold
          /\ now - buffer <= ReclaimThreshold
      BY <1>0 DEF InTime
    <3> QED BY <3>1, <3>2 DEF InTime, Booting
  <2>7. Fits(f, machine', reinstalled', buffer', now')
    BY <2>1, <2>4, <2>5, <2>6 DEF Fits, Reached
  <2> QED BY <2>1, <2>2, <2>7 DEF e, f
<1>5. CASE Reclaim(h)
  <2> DEFINE e == [type |-> "MachineReclaim", time |-> now]
  <2>1. /\ machine' = "restart" /\ Receive(h, "MachineReclaim")
        /\ UNCHANGED <<now, reinstalled, buffer>>
    BY <1>5 DEF Reclaim
  <2>2. "MachineReclaim" \in Types
    BY DEF Types
  <2>3. e \in Event /\ e.type = "MachineReclaim" /\ e.time = now
    BY <1>1, <2>2
  <2> HIDE DEF e
  <2> DEFINE f == HandleProvisioningEvent(row, e)
  <2>4. Reached(f, "MachineReclaim", now, reinstalled)
    BY <2>3, <1>0, OperatorReached
  <2> HIDE DEF f
  <2>5. InPhase("MachineReclaim", "restart", reinstalled)
    BY DEF InPhase, Booting
  <2>6. InTime(f, "restart", buffer, now)
    <3> SUFFICES ASSUME buffer # None PROVE InTime(f, "restart", buffer, now)
      BY DEF InTime
    <3>1. /\ buffer <= now /\ now - buffer < SwallowThreshold
          /\ now - buffer <= ReclaimThreshold
      BY <1>0 DEF InTime
    <3>2. now # None /\ now >= buffer
      BY <1>0, <3>1
    <3> QED BY <3>1, <3>2, <2>4 DEF InTime, Booting, Reached
  <2>7. Fits(f, machine', reinstalled', buffer', now')
    BY <2>1, <2>4, <2>5, <2>6 DEF Fits, Reached
  <2> QED BY <2>1, <2>2, <2>7 DEF e, f
<1> QED BY <1>2, <1>3, <1>4, <1>5 DEF HonestEvent

----------------------------------------------------------------------------
(* The container fits the machine, or will once the event that is handled   *)
(* is written.                                                             *)

FitsNow(c) == Fits(c, machine, reinstalled, buffer, now)
Settled(h) == HandleProvisioningEvent(row, handler[h].event)

Blameless ==
  honest =>
    /\ Clean(row, reinstalled)
    /\ Idle => FitsNow(row)
    /\ \A h \in Handlers : Active(h) => FitsNow(Settled(h))

LEMMA BlamelessInit == Init => Blameless
<1> SUFFICES ASSUME Init PROVE Blameless
  OBVIOUS
<1>1. StateOf(EmptyContainer) = "Initial" /\ Clean(EmptyContainer, FALSE)
  BY DEF EmptyContainer, StateOf, Clean
<1>2. Fits(EmptyContainer, "restart", FALSE, None, 0)
  BY <1>1 DEF Fits, InPhase, InTime, Booting
<1>3. \A h \in Handlers : ~Active(h)
  BY DEF Init, Active, IdleHandler
<1> QED BY <1>1, <1>2, <1>3 DEF Init, Blameless, FitsNow

LEMMA BlamelessStep ==
  ASSUME {"serial", "timely", "calm"} \subseteq Assumed
  PROVE  Orderly /\ Blameless /\ [Next]_vars => Blameless'
<1> SUFFICES ASSUME Orderly, Blameless, [Next]_vars PROVE Blameless'
  OBVIOUS
<1>0. /\ TypeOK /\ Copies /\ row \in Container
      /\ \A h \in Handlers : handler[h].event \in Event
      /\ \A h \in Handlers : Settled(h) \in Container
  <2>1. TypeOK /\ Copies /\ row \in Container
        /\ \A h \in Handlers : handler[h].event \in Event
    BY DEF Orderly, Lively, TypeOK, Event
  <2> QED BY <2>1, HandlingAdvances DEF Settled, Advanced
<1>1. ASSUME UNCHANGED <<honest, row, handler>>,
             \A c \in Container : FitsNow(c) =>
               Fits(c, machine', reinstalled', buffer', now'),
             reinstalled => reinstalled'
      PROVE  Blameless'
  <2>1. Idle' <=> Idle
    BY <1>1 DEF Idle
  <2> QED BY <1>0, <1>1, <2>1 DEF Blameless, Clean, FitsNow, Active, Settled
<1>2. CASE Tick
  BY <1>0, <1>1, <1>2, TickFits DEF Tick, FitsNow
<1>3. CASE Buffer
  BY <1>0, <1>1, <1>3, BufferFits DEF Buffer, FitsNow
<1>4. CASE Reinstall
  BY <1>0, <1>1, <1>4, ReinstallFits DEF Reinstall, FitsNow
<1>5. CASE EvaluateRead \/ UNCHANGED vars
  BY <1>1, <1>5 DEF EvaluateRead, vars, FitsNow
<1>6. CASE EvaluateWrite
  <2>1. UNCHANGED <<honest, now, machine, reinstalled, buffer, handler>>
    BY <1>6 DEF EvaluateWrite
  <2>2. SameHistory(row, row') /\ row' \in Container
    <3>1. CASE Unchanged
      <4>1. evaluator.seen = row /\ row' \in Evaluated(evaluator.seen)
        BY <3>1, <1>0, <1>6 DEF EvaluateWrite, Unchanged, Copies
      <4> QED BY <4>1, <1>0, EvaluatedFields DEF SameHistory
    <3>2. CASE ~Unchanged
      BY <3>2, <1>0, <1>6 DEF EvaluateWrite, SameHistory
    <3> QED BY <3>1, <3>2
  <2> SUFFICES ASSUME honest PROVE
        /\ Clean(row', reinstalled)
        /\ Idle => FitsNow(row')
        /\ \A h \in Handlers : Active(h) =>
             FitsNow(HandleProvisioningEvent(row', handler[h].event))
    BY <2>1 DEF Blameless, FitsNow, Settled, Active, Idle
  <2>3. Clean(row', reinstalled)
    BY <2>2 DEF Blameless, Clean, SameHistory
  <2>4. Idle => FitsNow(row')
    BY <2>2, SameFits DEF Blameless, FitsNow
  <2>5. ASSUME NEW h \in Handlers, Active(h)
        PROVE  FitsNow(HandleProvisioningEvent(row', handler[h].event))
    <3>1. SameHistory(Settled(h), HandleProvisioningEvent(row', handler[h].event))
      BY <2>2, <1>0, SameHandled DEF Settled
    <3>2. FitsNow(Settled(h))
      BY <2>5 DEF Blameless
    <3> QED BY <3>1, <3>2, SameFits DEF FitsNow
  <2> QED BY <2>3, <2>4, <2>5
<1>7. ASSUME NEW h \in Handlers, HonestEvent(h)
      PROVE  Blameless'
  <2>1. honest /\ Incoming(h)
    BY <1>7 DEF HonestEvent, Incoming
  <2>2. \E type \in Types : Receive(h, type)
    BY <2>1, <1>0, EventComes
  <2>3. Idle
    BY <2>2 DEF Receive
  <2>4. FitsNow(row)
    BY <2>1, <2>3 DEF Blameless
  <2>5. PICK type \in Types :
          /\ Receive(h, type)
          /\ Fits(HandleProvisioningEvent(row, [type |-> type, time |-> now]),
                  machine', reinstalled', buffer', now')
    BY <2>4, <1>0, <1>7, IncomingFits DEF FitsNow
  <2>6. UNCHANGED <<honest, now, reinstalled, row>>
    BY <2>1, <1>0, EventComes
  <2>7. /\ handler'[h].pc = "read" /\ handler'[h].event = [type |-> type, time |-> now]
        /\ \A g \in Handlers \ {h} : handler'[g] = handler[g]
    BY <2>5, <1>0, Received
  <2>8. \A g \in Handlers \ {h} : handler'[g].pc = "idle"
    BY <2>3, <2>7 DEF Idle
  <2>9. ~Idle'
    BY <2>7 DEF Idle
  <2>10. Clean(row', reinstalled')
    BY <2>1, <2>6 DEF Blameless
  <2> QED BY <2>5, <2>6, <2>7, <2>8, <2>9, <2>10 DEF Blameless, FitsNow, Active, Settled
<1>8. ASSUME NEW h \in Handlers, AnyEvent(h)
      PROVE  Blameless'
  BY <1>8 DEF AnyEvent, Blameless
<1>9. ASSUME NEW h \in Handlers, Read(h)
      PROVE  Blameless'
  <2>1. UNCHANGED <<honest, now, machine, reinstalled, buffer, row>> /\ Active(h)
    BY <1>9 DEF Read, Active
  <2>2. /\ handler'[h].pc = "write" /\ handler'[h].event = handler[h].event
        /\ \A g \in Handlers \ {h} : handler'[g] = handler[g]
    BY <1>0, <1>9, HandlerMoves
  <2>3. ~Idle'
    BY <2>2 DEF Idle
  <2>4. \A g \in Handlers : (Active(g) <=> Active(g)') /\ handler'[g].event = handler[g].event
    BY <2>1, <2>2 DEF Active
  <2> QED BY <2>1, <2>3, <2>4 DEF Blameless, FitsNow, Settled
<1>10. ASSUME NEW h \in Handlers, Write(h)
       PROVE  Blameless'
  <2>1. /\ handler[h].pc = "write" /\ Active(h)
        /\ UNCHANGED <<honest, now, machine, reinstalled, buffer>>
    BY <1>10 DEF Write, Active
  <2>2. handler'[h].pc = "idle" /\ \A g \in Handlers \ {h} : handler'[g] = handler[g]
    BY <1>0, <1>10, HandlerMoves DEF IdleHandler
  <2>3. \A g \in Handlers : ~Active(g)'
    BY <2>1, <2>2 DEF Active, Orderly, Serial
  <2>4. row' = TrimEvents(Result(h)) /\ Result(h) \in Container
    BY <2>1, <1>10, WriteReplaces, ResultValid
  <2> SUFFICES ASSUME honest PROVE Fits(row', machine, reinstalled, buffer, now)
    BY <2>1, <2>3 DEF Blameless, FitsNow, Fits
  <2>5. FitsNow(Settled(h))
    BY <2>1 DEF Blameless
  <2>6. SameHistory(handler[h].seen, row) /\ handler[h].seen \in Container
    BY <2>1, <1>0, ResultAdvances DEF Orderly, Serial
  <2>7. SameHistory(row, handler[h].seen)
    BY <2>6 DEF SameHistory
  <2>8. SameHistory(Settled(h), Result(h))
    BY <2>6, <2>7, <1>0, SameHandled DEF Settled, Result
  <2>9. Fits(Result(h), machine, reinstalled, buffer, now)
    BY <2>5, <2>8, SameFits DEF FitsNow
  <2> QED BY <2>4, <2>9, TrimmedFits
<1> QED BY <1>2, <1>3, <1>4, <1>5, <1>6, <1>7, <1>8, <1>9, <1>10 DEF Next

\* A machine that works as intended, of which events are handled one after the other, whose
\* phoned home messages are not later than the thresholds, and that is not reset while one is
\* on its way to a network boot: it never raises a failed reclaim, and raises an error or a
\* crash loop only once it was reinstalled (Events, swallowBufferedPhonedHome,
\* PhonedHomeState, reinstallMachine).
THEOREM HealthyMachinesAreUnflagged ==
  ASSUME {"serial", "timely", "calm"} \subseteq Assumed
  PROVE  Spec => []HealthyUnflagged
<1>1. Blameless => HealthyUnflagged
  BY DEF Blameless, Clean, HealthyUnflagged
<1>2. Init => Orderly /\ Blameless
  BY OrderlyInit, BlamelessInit
<1>3. Orderly /\ Blameless /\ [Next]_vars => Orderly' /\ Blameless'
  BY OrderlyStep, BlamelessStep
<1> QED BY <1>1, <1>2, <1>3, PTL DEF Spec
=============================================================================
