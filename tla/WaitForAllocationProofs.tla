----------------------- MODULE WaitForAllocationProofs -----------------------
(***************************************************************************)
(* What the flag and the stream of a machine tell of each other and of its  *)
(* row, for any number of replicas, of calls of Wait, of messages and of     *)
(* faults: a machine that waits is flagged, and one that is told of an       *)
(* allocation has one.                                                       *)
(*                                                                         *)
(* Both rest on one fact: while the machine is on, a call is told, and a     *)
(* message is under way, only if the machine is allocated ("settled": what   *)
(* is left of a former allocation is gone when the machine boots). And a     *)
(* call takes the flag back only if it was told, for the channel it closes   *)
(* is its own ("oneStream").                                                 *)
(***************************************************************************)
EXTENDS WaitForAllocation, TLAPS

CallState == [pc: WaitPC, replica: Replicas \cup {None}, chan: Waits \cup {None},
              due: BOOLEAN, open: BOOLEAN, told: BOOLEAN]
MessageState == [pc: {"none", "queued", "sending"}, chan: Waits \cup {None}]
Mailboxes == Replicas \X Slots

Typed ==
    /\ row \in [allocated: BOOLEAN, waiting: BOOLEAN]
    /\ hammer \in [pc: {"off", "calling", "streaming", "told"}, wait: Waits \cup {None}]
    /\ call \in [Waits -> CallState]
    /\ queue \in [Replicas -> Waits \cup {None}]
    /\ closed \subseteq Waits
    /\ message \in [Mailboxes -> MessageState]

Before == {"find", "flag", "flagWrite", "load", "store"}
Holding == {"loop", "check", "send", "delete", "close"}
Queued == {"loop", "check", "send", "delete"}
Leaving == {"unflag", "unflagWrite"}

\* A call that runs is on a replica, alone there; its channel is its own and open,
\* and what the replica has for the machine is the channel of the call that serves it.
Placed == \A w \in Waits : Active(w) => call[w].replica \in Replicas
Alone == \A v, w \in Waits : Active(v) /\ Active(w) /\ call[v].replica = call[w].replica => v = w
OwnChannel == \A w \in Waits :
    /\ call[w].pc \in Before \cup Holding => w \notin closed
    /\ call[w].pc \in Holding => call[w].chan = w
InQueue == \A r \in Replicas : queue[r] # None =>
    call[queue[r]].pc \in Queued /\ call[queue[r]].replica = r
Channels == Placed /\ Alone /\ OwnChannel /\ InQueue

\* The machine holds the stream of a call that runs or has ended, no other has.
Streams ==
    /\ hammer.wait # None => hammer.pc = "streaming" /\ call[hammer.wait].pc # "unused"
    /\ hammer.pc = "streaming" => hammer.wait # None
    /\ \A w \in Waits : call[w].pc = "ended" => hammer.wait = w

\* Who is told of an allocation while the machine is on, and who takes the flag back.
Present == row.allocated \/ hammer.pc = "off"
News ==
    /\ \A w \in Waits : call[w].told => Present
    /\ \A m \in Mailboxes : message[m].pc # "none" => Present
    /\ \A w \in Waits : call[w].pc = "unused" => ~call[w].told
    /\ \A w \in Waits : call[w].pc \in Leaving => call[w].told

WaitInv == Typed /\ Channels /\ Streams /\ News /\ WaitingTells
Rules == {"oneStream", "settled"} \subseteq Assumed

----------------------------------------------------------------------------
LEMMA Constants == None \notin Waits /\ None \notin Replicas /\ NoCall \in CallState /\ NoMessage \in MessageState
  BY ConstantsAssumption DEF NoCall, CallState, WaitPC, NoMessage, MessageState

LEMMA WaitInit == Init => WaitInv
<1> SUFFICES ASSUME Init PROVE WaitInv
  OBVIOUS
<1>1. Typed
  BY Constants, ConstantsAssumption DEF Init, Typed, Mailboxes
<1>2. Channels
  BY DEF Init, Channels, Placed, Alone, OwnChannel, InQueue, Active, NoCall, Before, Holding
<1>3. Streams /\ News
  BY DEF Init, Streams, News, NoCall, NoMessage, Leaving, Mailboxes
<1>4. WaitingTells
  BY DEF Init, WaitingTells, WaitingIsFlagged, ToldIsAllocated
<1> QED BY <1>1, <1>2, <1>3, <1>4 DEF WaitInv
----------------------------------------------------------------------------
\* The shapes of the steps

\* One call goes on, and what it has afterwards is that of a call.
Moves(w) ==
    /\ call' = [call EXCEPT ![w] = call'[w]]
    /\ call'[w] \in CallState

\* The call goes to pc and keeps the rest.
Goes(w, pc) ==
    Moves(w) /\ call'[w].pc = pc /\ call'[w].replica = call[w].replica /\ call'[w].told = call[w].told

\* It has returned: only the machine that still holds the stream learns of it.
Returns(w, told) ==
    /\ Moves(w)
    /\ call'[w].pc = IF hammer.wait = w THEN "ended" ELSE "unused"
    /\ call'[w].told = (told /\ hammer.wait = w)

LEMMA Going ==
  ASSUME Typed, NEW w \in Waits, NEW pc \in WaitPC, To(w, pc)
  PROVE  Goes(w, pc) /\ call'[w].chan = call[w].chan
  BY DEF Typed, CallState, To, Goes, Moves

LEMMA LeavingLoop ==
  ASSUME Typed, NEW w \in Waits, NEW told \in BOOLEAN, LeaveLoop(w, told)
  PROVE  /\ Moves(w) /\ call'[w].pc = "delete" /\ call'[w].told = told
         /\ call'[w].replica = call[w].replica /\ call'[w].chan = call[w].chan
<1> DEFINE c == [call[w] EXCEPT !.pc = "delete", !.told = told]
<1>1. c \in CallState /\ c.pc = "delete" /\ c.replica = call[w].replica /\ c.chan = call[w].chan
  BY DEF Typed, CallState, WaitPC
<1>2. c.told = told
  BY DEF Typed, CallState
<1>3. call' = [call EXCEPT ![w] = c]
  BY DEF Typed, LeaveLoop
<1> HIDE DEF c
<1> QED BY <1>1, <1>2, <1>3 DEF Typed, Moves

LEMMA Returning ==
  ASSUME Typed, NEW w \in Waits, NEW told \in BOOLEAN, End(w, told)
  PROVE  Returns(w, told)
<1> DEFINE c == [NoCall EXCEPT !.pc = IF hammer.wait = w THEN "ended" ELSE "unused",
                               !.told = told /\ hammer.wait = w]
<1>1. c \in CallState /\ c.pc = (IF hammer.wait = w THEN "ended" ELSE "unused")
  BY Constants DEF NoCall, CallState, WaitPC
<1>2. c.told = (told /\ hammer.wait = w)
  BY DEF NoCall
<1>3. call' = [call EXCEPT ![w] = c]
  BY DEF End
<1> HIDE DEF c
<1> QED BY <1>1, <1>2, <1>3 DEF Returns, Moves, Typed

----------------------------------------------------------------------------
\* What the steps of a call keep

LEMMA PlaceKept ==
  ASSUME Typed, Channels, NEW w \in Waits, Moves(w), Active(w),
         call'[w].replica = call[w].replica \/ call'[w].pc \in {"unused", "ended"}
  PROVE  Placed' /\ Alone'
  BY DEF Typed, Channels, Placed, Alone, Moves, Active

\* A call that stays where it is, or ends without a channel.
LEMMA ChannelsKept ==
  ASSUME Typed, Channels, NEW w \in Waits, Moves(w), Active(w), UNCHANGED <<queue, closed>>,
         \/ call[w].pc \in Before /\ call'[w].pc \in Before
         \/ call[w].pc \in Queued /\ call'[w].pc \in Queued /\ call'[w].chan = call[w].chan
         \/ call[w].pc \in Leaving /\ call'[w].pc \in Leaving
         \/ call[w].pc \notin Queued /\ call'[w].pc \in {"unused", "ended"},
         call'[w].replica = call[w].replica \/ call'[w].pc \in {"unused", "ended"}
  PROVE  Channels'
<1>1. Placed' /\ Alone'
  BY PlaceKept
<1>2. OwnChannel'
  BY DEF Typed, Channels, OwnChannel, Moves, Before, Holding, Queued, Leaving
<1>3. InQueue'
  BY DEF Typed, Channels, InQueue, Moves, Before, Queued, Leaving
<1> QED BY <1>1, <1>2, <1>3 DEF Channels

LEMMA StreamsKept ==
  ASSUME Typed, Streams, NEW w \in Waits, Moves(w), Active(w), UNCHANGED hammer,
         \/ call'[w].pc \notin {"unused", "ended"}
         \/ call'[w].pc = IF hammer.wait = w THEN "ended" ELSE "unused"
  PROVE  Streams'
  BY Constants DEF Typed, Streams, Moves, Active

\* A call is told only while the machine is allocated.
LEMMA NewsKept ==
  ASSUME Typed, News, NEW w \in Waits, Moves(w), UNCHANGED hammer, Present', Present,
         call'[w].pc = "unused" => ~call'[w].told, call'[w].pc \in Leaving => call'[w].told
  PROVE  News'
  BY DEF Typed, News, Moves

LEMMA SilentNewsKept ==
  ASSUME Typed, News, NEW w \in Waits, Moves(w), UNCHANGED <<hammer, message>>, row'.allocated = row.allocated,
         call'[w].told => call[w].told,
         call'[w].pc = "unused" => ~call'[w].told, call'[w].pc \in Leaving => call'[w].told
  PROVE  News'
  BY DEF Typed, News, Moves, Present

\* The flag is there for the call that serves the stream.
Serving == {"load", "store", "loop", "check", "send"}
LEMMA WaitingKept ==
  ASSUME Typed, Streams, WaitingTells, NEW w \in Waits, Moves(w), UNCHANGED hammer,
         row'.allocated = row.allocated, row.waiting => row'.waiting,
         call'[w].pc \in Serving => call[w].pc \in Serving \/ row'.waiting
  PROVE  WaitingTells'
  BY DEF Typed, Streams, WaitingTells, WaitingIsFlagged, ToldIsAllocated, Moves, Serving

----------------------------------------------------------------------------
\* Typed is kept by what a step does to each variable.
LEMMA MoveTyped ==
  ASSUME Typed, NEW w \in Waits, Moves(w), UNCHANGED hammer,
         UNCHANGED row \/ row' = [row EXCEPT !.waiting = TRUE] \/ row' = [row EXCEPT !.waiting = FALSE],
         UNCHANGED queue \/ queue' \in [Replicas -> Waits \cup {None}],
         UNCHANGED closed \/ closed' \subseteq Waits,
         UNCHANGED message \/ message' \in [Mailboxes -> MessageState]
  PROVE  Typed'
  BY DEF Typed, Moves

\* A call that goes on and touches nothing else.
LEMMA GoesQuietly ==
  ASSUME WaitInv, NEW w \in Waits, NEW pc \in WaitPC, To(w, pc), Active(w), pc \notin {"unused", "ended"},
         UNCHANGED <<row, hammer, queue, closed, message>>,
         \/ call[w].pc \in Before \ {"load", "store"} /\ pc \in Before \ {"load", "store"}
         \/ call[w].pc \in {"loop", "check", "send"} /\ pc \in {"loop", "check", "send"}
         \/ call[w].pc \in Leaving /\ pc \in Leaving
  PROVE  WaitInv'
<1>1. Goes(w, pc) /\ call'[w].chan = call[w].chan /\ Moves(w)
  BY Going DEF WaitInv, Goes
<1>2. Typed'
  BY <1>1, MoveTyped DEF WaitInv
<1>3. Channels'
  BY <1>1, ChannelsKept DEF WaitInv, Goes, Before, Queued, Leaving
<1>4. Streams'
  BY <1>1, StreamsKept DEF WaitInv, Goes
<1>5. News'
  <2>1. call[w].pc \in Leaving => call[w].told
    BY DEF WaitInv, News
  <2> QED BY <1>1, <2>1, SilentNewsKept DEF WaitInv, Goes, Leaving, Before
<1>6. WaitingTells'
  BY <1>1, WaitingKept DEF WaitInv, Goes, Serving, Before, Leaving
<1> QED BY <1>2, <1>3, <1>4, <1>5, <1>6 DEF WaitInv

\* A call that returns without a channel; it is told only of an allocation.
LEMMA ReturnsQuietly ==
  ASSUME WaitInv, NEW w \in Waits, NEW told \in BOOLEAN, End(w, told), Active(w),
         call[w].pc \notin Queued, told => Present,
         UNCHANGED <<row, hammer, queue, closed, message>>
  PROVE  WaitInv'
<1>1. Returns(w, told) /\ Moves(w)
  BY Returning DEF WaitInv, Returns
<1>2. call'[w].pc \in {"unused", "ended"} /\ (call'[w].told => told) /\ (call'[w].pc = "unused" => ~call'[w].told)
  BY <1>1 DEF Returns
<1>3. Typed'
  BY <1>1, MoveTyped DEF WaitInv
<1>4. Channels'
  BY <1>1, <1>2, ChannelsKept DEF WaitInv
<1>5. Streams'
  BY <1>1, StreamsKept DEF WaitInv, Returns
<1>6. News'
  <2>1. CASE told
    BY <1>1, <1>2, <2>1, NewsKept DEF WaitInv, Present, Leaving
  <2>2. CASE ~told
    BY <1>1, <1>2, <2>2, SilentNewsKept DEF WaitInv, Leaving
  <2> QED BY <2>1, <2>2
<1>7. WaitingTells'
  BY <1>1, <1>2, WaitingKept DEF WaitInv, Serving
<1> QED BY <1>3, <1>4, <1>5, <1>6, <1>7 DEF WaitInv

\* A call that leaves the loop; it is told only of an allocation.
LEMMA LeavesQuietly ==
  ASSUME WaitInv, NEW w \in Waits, NEW told \in BOOLEAN, LeaveLoop(w, told),
         call[w].pc \in {"loop", "check", "send"}, told => Present,
         UNCHANGED <<row, hammer, queue, closed>>,
         UNCHANGED message \/ (told /\ message' \in [Mailboxes -> MessageState])
  PROVE  WaitInv'
<1>1. /\ Moves(w) /\ Active(w) /\ call'[w].pc = "delete" /\ call'[w].told = told
      /\ call'[w].replica = call[w].replica /\ call'[w].chan = call[w].chan
  BY LeavingLoop DEF WaitInv, Active
<1>3. Typed'
  BY <1>1, MoveTyped DEF WaitInv
<1>4. Channels'
  BY <1>1, ChannelsKept DEF WaitInv, Queued
<1>5. Streams'
  BY <1>1, StreamsKept DEF WaitInv
<1>6. News'
  <2>1. CASE told
    BY <1>1, <2>1, NewsKept DEF WaitInv, Present, Leaving
  <2>2. CASE ~told
    BY <1>1, <2>2, SilentNewsKept DEF WaitInv, Leaving
  <2> QED BY <2>1, <2>2
<1>7. WaitingTells'
  BY <1>1, WaitingKept DEF WaitInv, Serving
<1> QED BY <1>3, <1>4, <1>5, <1>6, <1>7 DEF WaitInv

----------------------------------------------------------------------------
\* BootService.Wait

\* SetFlag writes the flag, so that the call may serve the stream.
LEMMA FlagKeeps == ASSUME WaitInv, NEW w \in Waits, SetFlag(w) PROVE WaitInv'
<1>1. CASE w \notin current
  BY <1>1, ReturnsQuietly DEF SetFlag, Active, Queued, Present
<1>2. CASE w \in current
  <2>1. row' = [row EXCEPT !.waiting = TRUE] /\ row'.waiting /\ row'.allocated = row.allocated
    BY <1>2 DEF SetFlag, WriteRow, WaitInv, Typed
  <2>2. To(w, "load") /\ call[w].pc = "flagWrite" /\ UNCHANGED <<hammer, queue, closed, message>> /\ Active(w)
    BY <1>2 DEF SetFlag, Active
  <2>3. Goes(w, "load") /\ Moves(w) /\ call'[w].pc = "load"
    BY <2>2, Going DEF WaitInv, WaitPC, Goes
  <2>4. Typed'
    BY <2>1, <2>2, <2>3, MoveTyped DEF WaitInv
  <2>5. Channels'
    BY <2>2, <2>3, ChannelsKept DEF WaitInv, Goes, Before
  <2>6. Streams' /\ WaitingTells'
    BY <2>1, <2>2, <2>3, StreamsKept, WaitingKept DEF WaitInv
  <2>7. News'
    BY <2>1, <2>2, <2>3, SilentNewsKept DEF WaitInv, Goes, Leaving
  <2> QED BY <2>4, <2>5, <2>6, <2>7 DEF WaitInv
<1> QED BY <1>1, <1>2

\* A replica where the call is alone has no channel for the machine.
LEMMA LoadKeeps == ASSUME WaitInv, NEW w \in Waits, Load(w) PROVE WaitInv'
<1>1. queue[call[w].replica] = None
  BY DEF WaitInv, Typed, Channels, Placed, Alone, InQueue, Load, Active, Queued
<1>2. call' = [call EXCEPT ![w].pc = "store", ![w].chan = None]
  BY <1>1 DEF Load
<1>3. /\ Moves(w) /\ call'[w].pc = "store" /\ call'[w].told = call[w].told
      /\ call'[w].replica = call[w].replica
  <2> DEFINE c == [call[w] EXCEPT !.pc = "store", !.chan = None]
  <2>1. call[w] \in CallState /\ call \in [Waits -> CallState]
    BY DEF WaitInv, Typed
  <2>2. c \in CallState /\ c.pc = "store" /\ c.told = call[w].told /\ c.replica = call[w].replica
    BY <2>1 DEF CallState, WaitPC
  <2>3. call' = [call EXCEPT ![w] = c]
    BY <1>2, <2>1
  <2> HIDE DEF c
  <2> QED BY <2>1, <2>2, <2>3 DEF Moves
<1>4. call[w].pc = "load" /\ Active(w) /\ UNCHANGED <<row, hammer, queue, closed, message>>
  BY DEF Load, Active
<1>5. Typed'
  BY <1>3, <1>4, MoveTyped DEF WaitInv
<1>6. Channels'
  BY <1>3, <1>4, ChannelsKept DEF WaitInv, Before
<1>7. Streams' /\ WaitingTells'
  BY <1>3, <1>4, StreamsKept, WaitingKept DEF WaitInv, Serving
<1>8. News'
  BY <1>3, <1>4, SilentNewsKept DEF WaitInv, Leaving
<1> QED BY <1>5, <1>6, <1>7, <1>8 DEF WaitInv

LEMMA StoreKeeps == ASSUME WaitInv, NEW w \in Waits, Store(w) PROVE WaitInv'
<1>1. /\ Moves(w) /\ call'[w].pc = "loop" /\ call'[w].chan = w /\ call'[w].told = call[w].told
      /\ call'[w].replica = call[w].replica
  <2> DEFINE c == [call[w] EXCEPT !.pc = "loop", !.chan = w]
  <2>1. /\ c \in CallState /\ c.pc = "loop" /\ c.told = call[w].told /\ c.replica = call[w].replica
        /\ c.chan = w /\ call' = [call EXCEPT ![w] = c]
    BY DEF Store, WaitInv, Typed, CallState, WaitPC
  <2> HIDE DEF c
  <2> QED BY <2>1 DEF WaitInv, Typed, Moves
<1>2. /\ call[w].pc = "store" /\ Active(w) /\ UNCHANGED <<row, hammer, closed, message>>
      /\ call[w].replica \in Replicas /\ queue' = [queue EXCEPT ![call[w].replica] = w]
  BY DEF Store, Active, WaitInv, Channels, Placed
<1>3. Typed'
  BY <1>1, <1>2, MoveTyped DEF WaitInv, Typed
<1>4. Placed' /\ Alone'
  BY <1>1, <1>2, PlaceKept DEF WaitInv
<1>5. OwnChannel'
  BY <1>1, <1>2 DEF WaitInv, Typed, Channels, OwnChannel, Moves, Before, Holding
<1>6. InQueue'
  BY <1>1, <1>2 DEF WaitInv, Typed, Channels, InQueue, Moves, Queued
<1>7. Streams' /\ WaitingTells'
  BY <1>1, <1>2, StreamsKept, WaitingKept DEF WaitInv, Serving
<1>8. News'
  BY <1>1, <1>2, SilentNewsKept DEF WaitInv, Leaving
<1> QED BY <1>3, <1>4, <1>5, <1>6, <1>7, <1>8 DEF WaitInv, Channels

LEMMA DeleteKeeps == ASSUME WaitInv, NEW w \in Waits, Delete(w) PROVE WaitInv'
<1>1. /\ Goes(w, "close") /\ call'[w].chan = call[w].chan /\ call'[w].pc = "close" /\ Moves(w)
      /\ call'[w].replica = call[w].replica
  BY Going DEF Delete, WaitInv, Goes, WaitPC
<1>2. /\ call[w].pc = "delete" /\ Active(w) /\ UNCHANGED <<row, hammer, closed, message>>
      /\ call[w].replica \in Replicas /\ queue' = [queue EXCEPT ![call[w].replica] = None]
  BY DEF Delete, Active, WaitInv, Channels, Placed
<1>3. Typed'
  BY <1>1, <1>2, MoveTyped DEF WaitInv, Typed
<1>4. Placed' /\ Alone'
  BY <1>1, <1>2, PlaceKept DEF WaitInv
<1>5. OwnChannel'
  BY <1>1, <1>2 DEF WaitInv, Typed, Channels, OwnChannel, Moves, Holding
<1>6. InQueue'
  BY <1>1, <1>2 DEF WaitInv, Typed, Channels, InQueue, Moves
<1>7. Streams' /\ WaitingTells'
  BY <1>1, <1>2, StreamsKept, WaitingKept DEF WaitInv, Serving
<1>8. News'
  BY <1>1, <1>2, SilentNewsKept DEF WaitInv, Goes, Leaving
<1> QED BY <1>3, <1>4, <1>5, <1>6, <1>7, <1>8 DEF WaitInv, Channels

\* The channel is the call's own, and open: closing it does not panic.
LEMMA CloseKeeps == ASSUME WaitInv, NEW w \in Waits, Close(w) PROVE WaitInv'
<1>1. /\ call[w].pc = "close" /\ Active(w) /\ UNCHANGED <<row, hammer, queue, message>>
      /\ call[w].chan = w /\ w \notin closed /\ closed' = closed \cup {w}
  BY DEF Close, Closed, Active, WaitInv, Channels, OwnChannel, Holding
<1>2. /\ Moves(w) /\ (call'[w].told => call[w].told)
      /\ call'[w].pc \in {"unflag", "unused", "ended"}
      /\ call'[w].pc = "unflag" => call'[w].told /\ call'[w].replica = call[w].replica
      /\ call'[w].pc # "unflag" => ~call'[w].told /\ call'[w].pc = IF hammer.wait = w THEN "ended" ELSE "unused"
  <2>1. CASE call[w].told
    <3> DEFINE c == [call[w] EXCEPT !.pc = "unflag", !.told = TRUE]
    <3>1. call[w] \in CallState /\ call \in [Waits -> CallState]
      BY DEF WaitInv, Typed
    <3>2. c \in CallState /\ c.pc = "unflag" /\ c.replica = call[w].replica
      BY <3>1 DEF CallState, WaitPC
    <3>3. c.told
      BY <3>1 DEF CallState
    <3>4. call' = [call EXCEPT ![w] = c]
      <4>1. (call[w].told /\ call[w].chan \notin closed) = TRUE
        BY <1>1, <2>1
      <4> QED BY <2>1, <3>1, <4>1 DEF Close, Unflags
    <3> HIDE DEF c
    <3> QED BY <2>1, <3>1, <3>2, <3>3, <3>4 DEF Moves
  <2>2. CASE ~call[w].told
    <3>1. (call[w].told /\ call[w].chan \notin closed) = FALSE
      BY <2>2
    <3>2. End(w, FALSE)
      BY <2>2, <3>1 DEF Close, Unflags
    <3> QED BY <3>2, Returning DEF WaitInv, Returns
  <2> QED BY <2>1, <2>2
<1>3. Typed'
  BY <1>1, <1>2, MoveTyped DEF WaitInv, Typed
<1>4. Placed' /\ Alone'
  BY <1>1, <1>2, PlaceKept DEF WaitInv
<1>5. OwnChannel'
  BY <1>1, <1>2 DEF WaitInv, Typed, Channels, OwnChannel, Moves, Before, Holding
<1>6. InQueue'
  BY <1>1, <1>2 DEF WaitInv, Typed, Channels, InQueue, Moves, Queued
<1>7. Streams' /\ WaitingTells'
  BY <1>1, <1>2, StreamsKept, WaitingKept DEF WaitInv, Serving
<1>8. News'
  BY <1>1, <1>2, SilentNewsKept DEF WaitInv, Leaving
<1> QED BY <1>3, <1>4, <1>5, <1>6, <1>7, <1>8 DEF WaitInv, Channels

\* Only a call that was told takes the flag back, and then the machine is allocated,
\* or off.
LEMMA ResetKeeps == ASSUME WaitInv, NEW w \in Waits, ResetFlag(w) PROVE WaitInv'
<1>1. call[w].pc = "unflagWrite" /\ Active(w) /\ call[w].told /\ Present
  BY DEF ResetFlag, Active, WaitInv, News, Leaving
<1>2. CASE w \notin current
  <2>1. End(w, TRUE) /\ UNCHANGED <<row, hammer, queue, closed, message>>
    BY <1>1, <1>2, (call[w].told = TRUE) DEF ResetFlag, WaitInv, Typed, CallState
  <2> QED BY <1>1, <2>1, ReturnsQuietly DEF Queued
<1>3. CASE w \in current
  <2>1. /\ row' = [row EXCEPT !.waiting = FALSE] /\ row'.allocated = row.allocated /\ Present'
        /\ UNCHANGED <<hammer, queue, closed, message>>
    BY <1>1, <1>3 DEF ResetFlag, WriteRow, WaitInv, Typed, Present
  <2>2. Moves(w) /\ call'[w].pc = IF hammer.wait = w THEN "ended" ELSE "unused"
    BY Returning DEF ResetFlag, WaitInv, Typed, CallState, Returns
  <2>3. call'[w].pc = "unused" => ~call'[w].told
    BY Returning DEF ResetFlag, WaitInv, Typed, CallState, Returns
  <2>4. Typed'
    BY <2>1, <2>2, MoveTyped DEF WaitInv
  <2>5. Channels'
    BY <1>1, <2>1, <2>2, ChannelsKept DEF WaitInv, Queued
  <2>6. Streams'
    BY <1>1, <2>1, <2>2, StreamsKept DEF WaitInv
  <2>7. News'
    BY <1>1, <2>1, <2>2, <2>3, NewsKept DEF WaitInv, Leaving, Typed
  <2>8. WaitingTells'
    BY <2>1 DEF WaitInv, Typed, WaitingTells, WaitingIsFlagged, ToldIsAllocated, Present
  <2> QED BY <2>4, <2>5, <2>6, <2>7, <2>8 DEF WaitInv
<1> QED BY <1>2, <1>3

LEMMA ReceiveKeeps == ASSUME WaitInv, NEW w \in Waits, NEW m \in Mailboxes, Receive(w, m) PROVE WaitInv'
<1>1. Present
  BY DEF Receive, WaitInv, News
<1>2. message' \in [Mailboxes -> MessageState]
  BY Constants DEF Receive, WaitInv, Typed
<1> QED BY <1>1, <1>2, LeavesQuietly DEF Receive

\* What is due of the timer, and whether the replica knows of the stream, matters to nothing.
LEMMA TickKeeps == ASSUME WaitInv, NEW w \in Waits, Tick(w) \/ Notice(w) PROVE WaitInv'
<1>1. /\ Moves(w) /\ Active(w) /\ UNCHANGED <<row, hammer, queue, closed, message>>
      /\ call'[w].replica = call[w].replica /\ call'[w].chan = call[w].chan /\ call'[w].told = call[w].told
      /\ \/ call'[w].pc = call[w].pc
         \/ call[w].pc = "loop" /\ call'[w].pc \in {"check", "send"}
  <2>1. call[w] \in CallState /\ call \in [Waits -> CallState]
    BY DEF WaitInv, Typed
  <2>2. CASE Tick(w)
    <3> DEFINE c == [call[w] EXCEPT !.pc = IF call[w].due THEN "check" ELSE "send", !.due = ~@]
    <3>1. /\ c \in CallState /\ c.pc \in {"check", "send"} /\ c.replica = call[w].replica /\ c.chan = call[w].chan
          /\ c.told = call[w].told
      BY <2>1 DEF CallState, WaitPC
    <3>2. call' = [call EXCEPT ![w] = c]
      BY <2>1, <2>2 DEF Tick
    <3> HIDE DEF c
    <3> QED BY <2>1, <2>2, <3>1, <3>2 DEF Tick, Moves, Active
  <2>3. CASE Notice(w)
    <3> DEFINE c == [call[w] EXCEPT !.open = FALSE]
    <3>1. /\ c \in CallState /\ c.pc = call[w].pc /\ c.replica = call[w].replica /\ c.chan = call[w].chan
          /\ c.told = call[w].told
      BY <2>1 DEF CallState
    <3>2. call' = [call EXCEPT ![w] = c]
      BY <2>1, <2>3 DEF Notice
    <3> HIDE DEF c
    <3> QED BY <2>1, <2>3, <3>1, <3>2 DEF Notice, Moves
  <2> QED BY <2>2, <2>3
<1>2. Typed'
  BY <1>1, MoveTyped DEF WaitInv
<1>3. Placed' /\ Alone'
  BY <1>1, PlaceKept DEF WaitInv
<1>4. OwnChannel' /\ InQueue'
  BY <1>1 DEF WaitInv, Typed, Channels, OwnChannel, InQueue, Moves, Before, Holding, Queued
<1>5. Streams' /\ WaitingTells'
  BY <1>1, StreamsKept, WaitingKept DEF WaitInv, Serving, Active
<1>6. News'
  <2>1. call'[w].pc # "unused" /\ (call'[w].pc \in Leaving => call'[w].told)
    BY <1>1 DEF Active, WaitInv, News, Leaving
  <2> QED BY <1>1, <2>1, SilentNewsKept DEF WaitInv
<1> QED BY <1>2, <1>3, <1>4, <1>5, <1>6 DEF WaitInv, Channels

LEMMA WaitStepKeeps == ASSUME WaitInv, NEW w \in Waits, WaitStep(w) PROVE WaitInv'
<1>1. CASE Find(w)
  <2>1. CASE row.allocated
    BY <1>1, <2>1, ReturnsQuietly DEF Find, Active, Queued, Present
  <2>2. CASE ~row.allocated
    BY <1>1, <2>2, GoesQuietly DEF Find, Active, Before, WaitPC
  <2> QED BY <2>1, <2>2
<1>2. CASE ReadForFlag(w)
  <2>1. \/ call[w].pc = "flag" /\ To(w, "flagWrite")
        \/ call[w].pc = "unflag" /\ To(w, "unflagWrite")
    BY <1>2 DEF ReadForFlag
  <2> QED BY <1>2, <2>1, GoesQuietly DEF ReadForFlag, Active, Before, Leaving, WaitPC
<1>3. CASE Cancelled(w)
  BY <1>3, LeavesQuietly DEF Cancelled
<1>4. CASE Check(w)
  <2>1. CASE row.allocated
    BY <1>4, <2>1, LeavesQuietly DEF Check, Present
  <2>2. CASE ~row.allocated
    BY <1>4, <2>2, GoesQuietly DEF Check, Active, WaitPC
  <2> QED BY <2>1, <2>2
<1>5. CASE Send(w)
  <2>1. CASE call[w].open
    BY <1>5, <2>1, GoesQuietly DEF Send, Active, WaitPC
  <2>2. CASE ~call[w].open
    BY <1>5, <2>2, LeavesQuietly DEF Send
  <2> QED BY <2>1, <2>2
<1>6. CASE SetFlag(w) \/ Load(w) \/ Store(w) \/ Tick(w) \/ Delete(w) \/ Close(w) \/ ResetFlag(w)
  BY <1>6, FlagKeeps, LoadKeeps, StoreKeeps, TickKeeps, DeleteKeeps, CloseKeeps, ResetKeeps
<1>7. CASE \E m \in DOMAIN message : Receive(w, m)
  BY <1>7, ReceiveKeeps DEF WaitInv, Typed
<1> QED BY <1>1, <1>2, <1>3, <1>4, <1>5, <1>6, <1>7 DEF WaitStep

LEMMA AccessKeeps == ASSUME WaitInv, NEW w \in Waits, AccessFails(w) PROVE WaitInv'
<1>1. CASE call[w].pc \in {"find", "flag", "flagWrite"} /\ End(w, FALSE)
  BY <1>1, ReturnsQuietly DEF AccessFails, Active, Queued
<1>2. CASE call[w].pc \in {"check", "send"} /\ LeaveLoop(w, FALSE)
  BY <1>2, LeavesQuietly DEF AccessFails
<1>3. CASE call[w].pc \in Leaving /\ End(w, call[w].told)
  <2>1. call[w].told \in BOOLEAN /\ Present
    BY <1>3 DEF WaitInv, Typed, CallState, News
  <2> QED BY <1>3, <2>1, ReturnsQuietly DEF AccessFails, Active, Queued, Leaving
<1> QED BY <1>1, <1>2, <1>3 DEF AccessFails, Leaving

----------------------------------------------------------------------------
\* The machine

\* What is left of a former allocation is gone when the machine boots.
LEMMA BootKeeps == ASSUME WaitInv, Rules, Boot PROVE WaitInv'
<1>1. /\ hammer' = [hammer EXCEPT !.pc = "calling"] /\ hammer.pc = "off"
      /\ UNCHANGED <<row, call, queue, closed, message>> /\ Settled
  BY DEF Boot, Rules
<1>2. Typed' /\ hammer'.pc = "calling" /\ hammer'.wait = hammer.wait /\ hammer.wait = None
  BY <1>1 DEF WaitInv, Typed, Streams
<1>3. \A w \in Waits : call[w].pc # "ended" /\ ~call[w].told
  <2> SUFFICES ASSUME NEW w \in Waits PROVE call[w].pc # "ended" /\ ~call[w].told
    OBVIOUS
  <2>1. call[w].pc # "ended"
    BY <1>2, Constants DEF WaitInv, Streams
  <2>2. ~call[w].told
    BY <1>1, <2>1 DEF Settled, Active, WaitInv, News
  <2> QED BY <2>1, <2>2
<1>4. Channels'
  BY <1>1 DEF WaitInv, Channels, Placed, Alone, OwnChannel, InQueue, Active
<1>5. Streams' /\ WaitingTells'
  BY <1>1, <1>2, <1>3, Constants DEF WaitInv, Streams, WaitingTells, WaitingIsFlagged, ToldIsAllocated
<1>6. News'
  BY <1>1, <1>3 DEF WaitInv, Typed, News, Settled
<1> QED BY <1>2, <1>4, <1>5, <1>6 DEF WaitInv

\* A new call is the only one of its replica.
LEMMA CallKeeps == ASSUME WaitInv, Rules, NEW w \in Waits, NEW r \in Replicas, Call(w, r) PROVE WaitInv'
<1>1. /\ hammer.pc = "calling" /\ call[w].pc = "unused" /\ Unreferenced(w)
      /\ \A v \in Waits : Active(v) => call[v].replica # r
      /\ hammer' = [pc |-> "streaming", wait |-> w] /\ closed' = closed \ {w}
      /\ UNCHANGED <<row, queue, message>>
  BY DEF Call, Rules
<1>2. /\ Moves(w) /\ call'[w].pc = "find" /\ call'[w].replica = r /\ ~call'[w].told
  <2> DEFINE c == [NoCall EXCEPT !.pc = "find", !.replica = r, !.open = TRUE]
  <2>1. c \in CallState /\ c.pc = "find" /\ c.replica = r /\ c.told = FALSE
    BY Constants DEF NoCall, CallState, WaitPC
  <2>2. call' = [call EXCEPT ![w] = c]
    BY DEF Call
  <2> HIDE DEF c
  <2> QED BY <2>1, <2>2 DEF WaitInv, Typed, Moves
<1>3. Typed'
  BY <1>1, <1>2 DEF WaitInv, Typed, Moves
<1>4. Placed' /\ Alone'
  BY <1>1, <1>2 DEF WaitInv, Typed, Channels, Placed, Alone, Active, Moves
<1>5. OwnChannel' /\ InQueue'
  BY <1>1, <1>2 DEF WaitInv, Typed, Channels, OwnChannel, InQueue, Moves, Unreferenced, Before, Holding, Queued
<1>6. Streams'
  BY <1>1, <1>2, Constants DEF WaitInv, Typed, Streams, Moves
<1>7. News'
  BY <1>1, <1>2 DEF WaitInv, Typed, News, Moves, Present, Leaving
<1>8. WaitingTells'
  BY <1>1, <1>2 DEF WaitInv, WaitingTells, WaitingIsFlagged, ToldIsAllocated
<1> QED BY <1>3, <1>4, <1>5, <1>6, <1>7, <1>8 DEF WaitInv, Channels

LEMMA StreamKeeps == ASSUME WaitInv, StreamEnds \/ StreamBreaks PROVE WaitInv'
<1> DEFINE w == hammer.wait
<1>0. hammer.pc = "streaming" /\ w \in Waits /\ hammer'.wait = None
  BY DEF StreamEnds, StreamBreaks, WaitInv, Typed, Streams
<1>1. CASE StreamEnds
  <2>1. Moves(w) /\ call'[w] = NoCall /\ call[w].pc = "ended"
    BY <1>0, <1>1, Constants DEF StreamEnds, WaitInv, Typed, Moves
  <2>2. NoCall.pc = "unused" /\ NoCall.told = FALSE
    BY DEF NoCall
  <2>3. /\ hammer' = [pc |-> IF call[w].told THEN "told" ELSE "calling", wait |-> None]
        /\ UNCHANGED <<row, queue, closed, message>>
    BY <1>1 DEF StreamEnds
  <2>4. call[w].told => row.allocated
    BY <1>0 DEF WaitInv, News, Present
  <2>5. hammer'.pc \in {"told", "calling"} /\ (hammer'.pc = "told" => row.allocated)
    BY <2>3, <2>4
  <2> HIDE DEF w
  <2>6. Typed'
    BY <1>0, <2>1, <2>3 DEF WaitInv, Typed, Moves
  <2>7. Channels'
    BY <1>0, <2>1, <2>2, <2>3 DEF WaitInv, Typed, Channels, Placed, Alone, OwnChannel, InQueue, Active, Moves, Before, Holding, Queued
  <2>8. Streams'
    <3>1. \A v \in Waits : call[v].pc = "ended" => v = w
      BY DEF WaitInv, Streams, w
    <3> QED BY <1>0, <2>1, <2>2, <2>5, <3>1 DEF WaitInv, Typed, Streams, Moves
  <2>9. News'
    BY <1>0, <2>1, <2>2, <2>3 DEF WaitInv, Typed, News, Moves, Present, Leaving
  <2>10. WaitingTells'
    BY <2>3, <2>5 DEF WaitingTells, WaitingIsFlagged, ToldIsAllocated
  <2> QED BY <2>6, <2>7, <2>8, <2>9, <2>10 DEF WaitInv
<1>2. CASE StreamBreaks
  <2>1. /\ hammer' = [pc |-> "calling", wait |-> None] /\ Active(w)
        /\ UNCHANGED <<row, call, queue, closed, message>>
    BY <1>2 DEF StreamBreaks
  <2>2. Typed'
    BY <2>1 DEF WaitInv, Typed
  <2>3. Channels'
    BY <2>1 DEF WaitInv, Channels, Placed, Alone, OwnChannel, InQueue, Active
  <2>4. Streams' /\ WaitingTells'
    BY <1>0, <2>1 DEF WaitInv, Streams, Active, WaitingTells, WaitingIsFlagged, ToldIsAllocated
  <2>5. News'
    BY <1>0, <2>1 DEF WaitInv, Typed, News, Present
  <2> QED BY <2>2, <2>3, <2>4, <2>5 DEF WaitInv
<1> QED BY <1>1, <1>2

----------------------------------------------------------------------------
\* The rest of the system

LEMMA MessageKeeps == ASSUME WaitInv, NEW m \in Mailboxes, HandlerLoads(m) \/ HandlerPanics(m) PROVE WaitInv'
<1>1. /\ UNCHANGED <<row, hammer, call, queue, closed>> /\ message' \in [Mailboxes -> MessageState]
      /\ \A n \in Mailboxes : message'[n].pc # "none" => message[n].pc # "none"
  <2>1. m[1] \in Replicas /\ queue[m[1]] \in Waits \cup {None}
    BY DEF Mailboxes, WaitInv, Typed
  <2>2. \A c \in Waits \cup {None} : [pc |-> "sending", chan |-> c] \in MessageState
    BY DEF MessageState
  <2>3. \/ message' = [message EXCEPT ![m] = NoMessage]
        \/ message' = [message EXCEPT ![m] = [pc |-> "sending", chan |-> queue[m[1]]]]
    BY DEF HandlerLoads, HandlerPanics
  <2>4. message[m].pc # "none" /\ NoMessage.pc = "none" /\ UNCHANGED <<row, hammer, call, queue, closed>>
    BY DEF HandlerLoads, HandlerPanics, NoMessage
  <2> QED BY <2>1, <2>2, <2>3, <2>4, Constants DEF WaitInv, Typed
<1>2. Typed'
  BY <1>1 DEF WaitInv, Typed
<1>3. Channels'
  BY <1>1 DEF WaitInv, Channels, Placed, Alone, OwnChannel, InQueue, Active
<1>4. Streams' /\ WaitingTells'
  BY <1>1 DEF WaitInv, Streams, WaitingTells, WaitingIsFlagged, ToldIsAllocated
<1>5. News'
  BY <1>1 DEF WaitInv, News, Present
<1> QED BY <1>2, <1>3, <1>4, <1>5 DEF WaitInv

LEMMA AllocateKeeps == ASSUME WaitInv, Allocate \/ OtherWrite PROVE WaitInv'
<1>1. /\ UNCHANGED <<hammer, call, queue, closed>> /\ message' \in [Mailboxes -> MessageState]
      /\ row' = [row EXCEPT !.allocated = TRUE] \/ UNCHANGED <<row, message>>
  BY Constants DEF Allocate, OtherWrite, Publish, WriteRow, WaitInv, Typed, MessageState, Mailboxes, NoMessage
<1>2. Typed'
  BY <1>1 DEF WaitInv, Typed
<1>3. Channels'
  BY <1>1 DEF WaitInv, Channels, Placed, Alone, OwnChannel, InQueue, Active
<1>4. Streams' /\ WaitingTells'
  BY <1>1 DEF WaitInv, Typed, Streams, WaitingTells, WaitingIsFlagged, ToldIsAllocated
<1>5. News'
  BY <1>1 DEF WaitInv, Typed, News, Present
<1> QED BY <1>2, <1>3, <1>4, <1>5 DEF WaitInv

LEMMA FreeKeeps == ASSUME WaitInv, Free PROVE WaitInv'
<1>1. /\ hammer' = [pc |-> "off", wait |-> None] /\ row' = [row EXCEPT !.allocated = FALSE]
      /\ UNCHANGED <<queue, closed, message>>
      /\ call' = [w \in Waits |-> IF call[w].pc = "ended" THEN NoCall ELSE call[w]]
  BY DEF Free, WriteRow
<1>2. NoCall.pc = "unused" /\ NoCall.told = FALSE
  BY DEF NoCall
<1>3. Typed'
  BY <1>1, Constants DEF WaitInv, Typed
<1>4. Channels'
  BY <1>1, <1>2 DEF WaitInv, Typed, Channels, Placed, Alone, OwnChannel, InQueue, Active, Before, Holding, Queued
<1>5. Streams' /\ WaitingTells'
  BY <1>1, <1>2 DEF Streams, WaitingTells, WaitingIsFlagged, ToldIsAllocated
<1>6. News'
  BY <1>1, <1>2 DEF WaitInv, News, Present, Leaving
<1> QED BY <1>3, <1>4, <1>5, <1>6 DEF WaitInv

LEMMA RestartKeeps == ASSUME WaitInv, NEW r \in Replicas, Restart(r) PROVE WaitInv'
<1> DEFINE Gone(w) == Active(w) /\ call[w].replica = r
<1>1. /\ UNCHANGED <<row, hammer, closed>> /\ queue' = [queue EXCEPT ![r] = None]
      /\ message' \in [Mailboxes -> MessageState]
      /\ \A n \in Mailboxes : message'[n].pc # "none" => message[n].pc # "none"
  BY Constants DEF Restart, WaitInv, Typed, NoMessage
<1>2. \A pc \in {"ended", "unused"} :
        LET c == [NoCall EXCEPT !.pc = pc] IN c \in CallState /\ c.pc = pc /\ c.told = FALSE
  BY Constants DEF NoCall, CallState, WaitPC
<1>3. /\ call' \in [Waits -> CallState]
      /\ \A w \in Waits : ~Gone(w) => call'[w] = call[w]
      /\ \A w \in Waits : Gone(w) =>
            call'[w].told = FALSE /\ call'[w].pc = IF hammer.wait = w THEN "ended" ELSE "unused"
  BY <1>2 DEF Restart, WaitInv, Typed
<1>4. Typed'
  BY <1>1, <1>3 DEF WaitInv, Typed
<1>5. Placed' /\ Alone'
  BY <1>3 DEF WaitInv, Channels, Placed, Alone, Active
<1>6. OwnChannel'
  BY <1>1, <1>3 DEF WaitInv, Channels, OwnChannel, Before, Holding
<1>7. InQueue'
  BY <1>1, <1>3 DEF WaitInv, Typed, Channels, InQueue
<1>8. Streams'
  BY <1>1, <1>3, Constants DEF WaitInv, Typed, Streams
<1>9. News'
  BY <1>1, <1>3 DEF WaitInv, News, Present, Leaving
<1>10. WaitingTells'
  BY <1>1, <1>3 DEF WaitInv, Typed, Streams, WaitingTells, WaitingIsFlagged, ToldIsAllocated
<1> QED BY <1>4, <1>5, <1>6, <1>7, <1>8, <1>9, <1>10 DEF WaitInv, Channels

----------------------------------------------------------------------------
LEMMA WaitNext == WaitInv /\ Rules /\ [Next]_vars => WaitInv'
<1> SUFFICES ASSUME WaitInv, Rules, [Next]_vars PROVE WaitInv'
  OBVIOUS
<1>1. CASE UNCHANGED vars
  <2>1. Typed' /\ Channels'
    BY <1>1 DEF vars, WaitInv, Typed, Channels, Placed, Alone, OwnChannel, InQueue, Active
  <2>2. Streams' /\ News' /\ WaitingTells'
    BY <1>1 DEF vars, WaitInv, Streams, News, Present, WaitingTells, WaitingIsFlagged, ToldIsAllocated
  <2> QED BY <2>1, <2>2 DEF WaitInv
<1>2. CASE Boot \/ StreamEnds \/ StreamBreaks \/ \E w \in Waits, r \in Replicas : Call(w, r)
  BY <1>2, BootKeeps, StreamKeeps, CallKeeps
<1>3. CASE \E w \in Waits : Notice(w) \/ WaitStep(w) \/ AccessFails(w)
  BY <1>3, TickKeeps, WaitStepKeeps, AccessKeeps
<1>4. CASE \E m \in DOMAIN message : HandlerLoads(m) \/ HandlerPanics(m)
  BY <1>4, MessageKeeps DEF WaitInv, Typed
<1>5. CASE Allocate \/ Free \/ OtherWrite \/ \E r \in Replicas : Restart(r)
  BY <1>5, AllocateKeeps, FreeKeeps, RestartKeeps
<1> QED BY <1>1, <1>2, <1>3, <1>4, <1>5 DEF Next

\* A machine that waits is flagged as waiting, so that it can be elected, and one that
\* leaves the wait loop to be installed is allocated: for any number of replicas, calls,
\* messages and faults, when a machine has one stream per replica and boots after what
\* is left of a former allocation is gone (BootService.Wait, WaitForAllocation).
THEOREM WaitingIsTold ==
  ASSUME {"oneStream", "settled"} \subseteq Assumed
  PROVE  Spec => []WaitingTells
<1> USE DEF Rules
<1>1. WaitInv /\ [Next]_vars => WaitInv'
  BY WaitNext
<1>2. WaitInv => WaitingTells
  BY DEF WaitInv
<1> QED BY WaitInit, <1>1, <1>2, PTL DEF Spec
=============================================================================
