------------------------- MODULE WaitForAllocation -------------------------
(***************************************************************************)
(* How a machine learns that it was allocated. metal-hammer on the machine *)
(* keeps a stream of BootService.Wait open on some replica and calls again *)
(* when it breaks (WaitForAllocation). Wait sets the waiting flag, leaves  *)
(* an unbuffered channel in the queue of its replica, and loops over its   *)
(* context, the channel and a timer. An allocation sends a message to each *)
(* replica, whose handler sends on the channel it finds in the queue.      *)
(*                                                                         *)
(* One machine: machines share the handlers of a replica only. A stamp is  *)
(* compared, never looked at, so that "current" holds the calls that read  *)
(* the row as it is. A channel is named after the call that made it; a     *)
(* call is used again when nothing refers to it any more.                  *)
(***************************************************************************)
EXTENDS Naturals

CONSTANTS
    Replicas,
    Waits,         \* calls of Wait that are under way at the same time
    Slots,         \* messages to a replica that are under way at the same time
    MaxFaults,     \* bound on broken streams, restarts, failed accesses and other writes
    Assumed,       \* what is taken for granted, see below
    None

(***************************************************************************)
(* "oneStream"  the machine calls Wait on a replica only after its former  *)
(*              call there has ended                                       *)
(* "settled"    when a machine that was freed has booted, the messages     *)
(*              about its former allocation are handled or expired (after  *)
(*              30 seconds), and the calls that were told of it have ended *)
(***************************************************************************)
Assumptions == {"oneStream", "settled"}

ASSUME ConstantsAssumption ==
    /\ Assumed \subseteq Assumptions
    /\ MaxFaults \in Nat
    /\ None \notin Replicas \cup Waits

VARIABLES
    row,       \* the machine: its allocation and its waiting flag
    current,   \* calls whose copy of the machine carries the stamp it has
    hammer,    \* the machine itself, and the call whose stream it holds
    call,      \* the calls of Wait
    queue,     \* the channel each replica has for the machine
    closed,    \* channels that are closed
    message,   \* messages about allocations, by replica and slot
    faults

vars == <<row, current, hammer, call, queue, closed, message, faults>>

WaitPC == {"unused", "find", "flag", "flagWrite", "load", "store", "loop", "check",
           "send", "delete", "close", "unflag", "unflagWrite", "ended"}
NoCall == [pc |-> "unused", replica |-> None, chan |-> None, due |-> TRUE,
           open |-> FALSE, told |-> FALSE]
NoMessage == [pc |-> "none", chan |-> None]

TypeOK ==
    /\ row \in [allocated: BOOLEAN, waiting: BOOLEAN]
    /\ current \in SUBSET Waits
    /\ hammer \in [pc: {"off", "calling", "streaming", "told"}, wait: Waits \cup {None}]
    /\ call \in [Waits -> [pc: WaitPC, replica: Replicas \cup {None}, chan: Waits \cup {None},
                           due: BOOLEAN, open: BOOLEAN, told: BOOLEAN]]
    /\ queue \in [Replicas -> Waits \cup {None}]
    /\ closed \in SUBSET Waits
    /\ message \in [Replicas \X Slots -> [pc: {"none", "queued", "sending"},
                                          chan: Waits \cup {None}]]
    /\ faults \in 0..MaxFaults

Init ==
    /\ row = [allocated |-> FALSE, waiting |-> FALSE]
    /\ current = {}
    /\ hammer = [pc |-> "off", wait |-> None]
    /\ call = [w \in Waits |-> NoCall]
    /\ queue = [r \in Replicas |-> None]
    /\ closed = {}
    /\ message = [m \in Replicas \X Slots |-> NoMessage]
    /\ faults = 0

Active(w) == call[w].pc \notin {"unused", "ended"}
Fault == faults < MaxFaults /\ faults' = faults + 1

\* Moves the call w on.
To(w, pc) == call' = [call EXCEPT ![w].pc = pc]

\* Wait returns: an error, or none when the machine is told. A call whose stream is lost
\* leaves nothing behind.
End(w, told) ==
    call' = [call EXCEPT ![w] = [NoCall EXCEPT
        !.pc = IF hammer.wait = w THEN "ended" ELSE "unused", !.told = told /\ hammer.wait = w]]

\* Leaves the loop of Wait: told when err is nil, which is when the flag is taken back.
LeaveLoop(w, told) == call' = [call EXCEPT ![w].pc = "delete", ![w].told = told]

\* Every write of the machine row gives it a new stamp.
WriteRow(new) == row' = new /\ current' = {}

-----------------------------------------------------------------------------
(* The machine.                                                            *)

Settled ==
    /\ \A m \in DOMAIN message : message[m].pc = "none"
    /\ \A w \in Waits : Active(w) => ~call[w].told

\* PXE boot into metal-hammer, which registers and then waits.
Boot ==
    /\ hammer.pc = "off"
    /\ "settled" \in Assumed => Settled
    /\ hammer' = [hammer EXCEPT !.pc = "calling"]
    /\ UNCHANGED <<row, current, call, queue, closed, message, faults>>

\* Nothing refers to the call any more, neither the queue nor a handler nor a call.
Unreferenced(w) ==
    /\ \A r \in Replicas : queue[r] # w
    /\ \A m \in DOMAIN message : message[m].chan # w
    /\ \A v \in Waits : Active(v) => call[v].chan # w

\* WaitForAllocation opens a stream.
Call(w, r) ==
    /\ hammer.pc = "calling"
    /\ call[w].pc = "unused" /\ Unreferenced(w)
    /\ "oneStream" \in Assumed => \A v \in Waits : Active(v) => call[v].replica # r
    /\ hammer' = [pc |-> "streaming", wait |-> w]
    /\ call' = [call EXCEPT ![w] = [NoCall EXCEPT !.pc = "find", !.replica = r, !.open = TRUE]]
    /\ closed' = closed \ {w}
    /\ current' = current \ {w}
    /\ UNCHANGED <<row, queue, message, faults>>

\* The stream ends. EOF says that the machine was allocated, an error makes it call again.
StreamEnds ==
    /\ hammer.pc = "streaming" /\ call[hammer.wait].pc = "ended"
    /\ hammer' = [pc |-> IF call[hammer.wait].told THEN "told" ELSE "calling", wait |-> None]
    /\ call' = [call EXCEPT ![hammer.wait] = NoCall]
    /\ UNCHANGED <<row, current, queue, closed, message, faults>>

\* The machine loses its stream, of which the replica knows nothing yet.
StreamBreaks ==
    /\ hammer.pc = "streaming"
    /\ Fault
    /\ Active(hammer.wait)
    /\ hammer' = [pc |-> "calling", wait |-> None]
    /\ UNCHANGED <<row, current, call, queue, closed, message>>

\* The keepalive of the replica finds out that nobody holds the stream any more.
Notice(w) ==
    /\ Active(w) /\ call[w].open /\ hammer.wait # w
    /\ call' = [call EXCEPT ![w].open = FALSE]
    /\ UNCHANGED <<row, current, hammer, queue, closed, message, faults>>

-----------------------------------------------------------------------------
(* BootService.Wait.                                                       *)

Find(w) ==
    /\ call[w].pc = "find"
    /\ IF row.allocated THEN End(w, TRUE) ELSE To(w, "flag")
    /\ UNCHANGED <<row, current, hammer, queue, closed, message, faults>>

\* updateWaitingFlag reads the machine once more.
ReadForFlag(w) ==
    /\ call[w].pc \in {"flag", "unflag"}
    /\ current' = current \cup {w}
    /\ To(w, IF call[w].pc = "flag" THEN "flagWrite" ELSE "unflagWrite")
    /\ UNCHANGED <<row, hammer, queue, closed, message, faults>>

SetFlagSilently(w) ==  \* mutant of SetFlag: a conflict is not reported
    /\ call[w].pc = "flagWrite"
    /\ IF w \in current
       THEN WriteRow([row EXCEPT !.waiting = TRUE]) /\ To(w, "load")
       ELSE UNCHANGED <<row, current>> /\ End(w, TRUE)
    /\ UNCHANGED <<hammer, queue, closed, message, faults>>
SetFlag(w) ==
    /\ call[w].pc = "flagWrite"
    /\ IF w \in current
       THEN WriteRow([row EXCEPT !.waiting = TRUE]) /\ To(w, "load")
       ELSE UNCHANGED <<row, current>> /\ End(w, FALSE)
    /\ UNCHANGED <<hammer, queue, closed, message, faults>>

Load(w) ==
    /\ call[w].pc = "load"
    /\ LET can == queue[call[w].replica] IN
       call' = [call EXCEPT ![w].pc = IF can = None THEN "store" ELSE "loop", ![w].chan = can]
    /\ UNCHANGED <<row, current, hammer, queue, closed, message, faults>>

Store(w) ==
    /\ call[w].pc = "store"
    /\ call' = [call EXCEPT ![w].pc = "loop", ![w].chan = w]
    /\ queue' = [queue EXCEPT ![call[w].replica] = w]
    /\ UNCHANGED <<row, current, hammer, closed, message, faults>>

Cancelled(w) ==
    /\ call[w].pc = "loop" /\ ~call[w].open
    /\ LeaveLoop(w, FALSE)
    /\ UNCHANGED <<row, current, hammer, queue, closed, message, faults>>

\* Handler and loop meet at the channel.
Receive(w, m) ==
    /\ call[w].pc = "loop"
    /\ message[m].pc = "sending" /\ message[m].chan = call[w].chan
    /\ message[m].chan \notin closed
    /\ LeaveLoop(w, TRUE)
    /\ message' = [message EXCEPT ![m] = NoMessage]
    /\ UNCHANGED <<row, current, hammer, queue, closed, faults>>

(* A closed channel yields at once and without end, and the timer starts   *)
(* anew with every turn of the loop: it fires only while the channel is    *)
(* open. It looks at the machine at every second turn.                     *)
TimerReady(w) == call[w].chan \notin closed
Tick(w) ==
    /\ call[w].pc = "loop" /\ TimerReady(w)
    /\ call' = [call EXCEPT ![w].pc = IF call[w].due THEN "check" ELSE "send", ![w].due = ~@]
    /\ UNCHANGED <<row, current, hammer, queue, closed, message, faults>>

CheckCopy(w) ==  \* mutant of Check: looks at the machine it read at the start
    /\ call[w].pc = "check"
    /\ To(w, "send")
    /\ UNCHANGED <<row, current, hammer, queue, closed, message, faults>>
Check(w) ==
    /\ call[w].pc = "check"
    /\ IF row.allocated THEN LeaveLoop(w, TRUE) ELSE To(w, "send")
    /\ UNCHANGED <<row, current, hammer, queue, closed, message, faults>>

Send(w) ==
    /\ call[w].pc = "send"
    /\ IF call[w].open THEN To(w, "loop") ELSE LeaveLoop(w, FALSE)
    /\ UNCHANGED <<row, current, hammer, queue, closed, message, faults>>

\* A read of the machine or a keep patient response fails.
AccessFails(w) ==
    /\ Fault
    /\ \/ call[w].pc \in {"find", "flag", "flagWrite"} /\ End(w, FALSE)
       \/ call[w].pc \in {"check", "send"} /\ LeaveLoop(w, FALSE)
       \/ call[w].pc \in {"unflag", "unflagWrite"} /\ End(w, call[w].told)
    /\ UNCHANGED <<row, current, hammer, queue, closed, message>>

Delete(w) ==
    /\ call[w].pc = "delete"
    /\ queue' = [queue EXCEPT ![call[w].replica] = None]
    /\ To(w, "close")
    /\ UNCHANGED <<row, current, hammer, closed, message, faults>>

(* Closing a closed channel panics; the panic is recovered around the      *)
(* call, which then ends with an error after its last deferred function.   *)
UnflagsAlways(w) == TRUE  \* mutant of Unflags
Unflags(w) == call[w].told
ClosedNothing(w) == closed  \* mutant of Closed
Closed(w) == closed \cup {call[w].chan}
Close(w) ==
    /\ call[w].pc = "close"
    /\ LET told == call[w].told /\ call[w].chan \notin closed IN
       IF Unflags(w) THEN call' = [call EXCEPT ![w].pc = "unflag", ![w].told = told]
                     ELSE End(w, told)
    /\ closed' = Closed(w)
    /\ UNCHANGED <<row, current, hammer, queue, message, faults>>

ResetFlag(w) ==
    /\ call[w].pc = "unflagWrite"
    /\ IF w \in current THEN WriteRow([row EXCEPT !.waiting = FALSE])
                        ELSE UNCHANGED <<row, current>>
    /\ End(w, call[w].told)
    /\ UNCHANGED <<hammer, queue, closed, message, faults>>

-----------------------------------------------------------------------------
(* The notification of the replicas.                                       *)

HandlerLoads(m) ==
    /\ message[m].pc = "queued"
    /\ LET can == queue[m[1]] IN
       message' = [message EXCEPT
           ![m] = IF can = None THEN NoMessage ELSE [pc |-> "sending", chan |-> can]]
    /\ UNCHANGED <<row, current, hammer, call, queue, closed, faults>>

\* Sending on a channel that is, or is meanwhile, closed panics: the message is lost.
HandlerPanics(m) ==
    /\ message[m].pc = "sending" /\ message[m].chan \in closed
    /\ message' = [message EXCEPT ![m] = NoMessage]
    /\ UNCHANGED <<row, current, hammer, call, queue, closed, faults>>

-----------------------------------------------------------------------------
(* The rest of the system, as Wait sees it.                                *)

\* Publishes to any of the replicas: a message may be lost or time out.
Publish ==
    \E rs \in SUBSET Replicas, s \in Slots :
        /\ \A r \in rs : message[<<r, s>>].pc = "none"
        /\ message' = [m \in DOMAIN message |->
                          IF m[1] \in rs /\ m[2] = s THEN [NoMessage EXCEPT !.pc = "queued"]
                          ELSE message[m]]

\* allocateMachine, of a waiting machine or of one that was named.
Allocate ==
    /\ ~row.allocated
    /\ WriteRow([row EXCEPT !.allocated = TRUE])
    /\ Publish
    /\ UNCHANGED <<hammer, call, queue, closed, faults>>

\* freeMachine; the machine reboots.
Free ==
    /\ row.allocated
    /\ WriteRow([row EXCEPT !.allocated = FALSE])
    /\ hammer' = [pc |-> "off", wait |-> None]
    /\ call' = [w \in Waits |-> IF call[w].pc = "ended" THEN NoCall ELSE call[w]]
    /\ UNCHANGED <<queue, closed, message, faults>>

\* Another handler writes the machine, e.g. a report of its BMC.
OtherWrite ==
    /\ Fault
    /\ WriteRow(row)
    /\ UNCHANGED <<hammer, call, queue, closed, message>>

\* A replica restarts: its calls, its queue and the messages to it are gone.
Restart(r) ==
    /\ Fault
    /\ call' = [w \in Waits |->
          IF Active(w) /\ call[w].replica = r
          THEN [NoCall EXCEPT !.pc = IF hammer.wait = w THEN "ended" ELSE "unused"]
          ELSE call[w]]
    /\ queue' = [queue EXCEPT ![r] = None]
    /\ message' = [m \in DOMAIN message |-> IF m[1] = r THEN NoMessage ELSE message[m]]
    /\ UNCHANGED <<row, current, hammer, closed>>

WaitStep(w) ==
    \/ Find(w) \/ ReadForFlag(w) \/ SetFlag(w) \/ Load(w) \/ Store(w)
    \/ Cancelled(w) \/ Tick(w) \/ Check(w) \/ Send(w)
    \/ \E m \in DOMAIN message : Receive(w, m)
    \/ Delete(w) \/ Close(w) \/ ResetFlag(w)

Next ==
    \/ Boot \/ StreamEnds \/ StreamBreaks
    \/ \E w \in Waits, r \in Replicas : Call(w, r)
    \/ \E w \in Waits : Notice(w) \/ WaitStep(w) \/ AccessFails(w)
    \/ \E m \in DOMAIN message : HandlerLoads(m) \/ HandlerPanics(m)
    \/ Allocate \/ Free \/ OtherWrite
    \/ \E r \in Replicas : Restart(r)

Spec == Init /\ [][Next]_vars

(***************************************************************************)
(* Goroutines run, the keepalive fires, the bus delivers what it did not   *)
(* lose, and a machine that lost its stream calls again. Nobody has to     *)
(* allocate or to free.                                                    *)
(***************************************************************************)
Fairness ==
    /\ WF_vars(Boot) /\ WF_vars(StreamEnds)
    /\ WF_vars(\E w \in Waits, r \in Replicas : Call(w, r))
    /\ \A w \in Waits : WF_vars(WaitStep(w)) /\ WF_vars(Notice(w))
    /\ \A m \in Replicas \X Slots : WF_vars(HandlerLoads(m) \/ HandlerPanics(m))

FairSpec == Spec /\ Fairness

-----------------------------------------------------------------------------
(* Properties.                                                             *)

\* A machine that waits, or tries to, and is allocated is told, unless it is freed
\* before: whatever streams break, replicas restart and messages get lost (Wait).
AllocatedIsTold ==
    (hammer.pc \in {"calling", "streaming"} /\ row.allocated)
        ~> (hammer.pc = "told" \/ ~row.allocated)

\* A handler of allocation messages does not block for ever on a channel nobody reads
\* any more: there are five of them per replica (handleAllocation, initWaitEndpoint).
HandlersComeBack ==
    \A m \in Replicas \X Slots : message[m].pc = "sending" ~> message[m].pc # "sending"

\* While the stream of an unallocated machine is served the waiting flag is set, also
\* when a former call for it ends in the meantime: FindWaitingMachine can elect it.
WaitingIsFlagged ==
    (/\ hammer.pc = "streaming"
     /\ call[hammer.wait].pc \in {"load", "store", "loop", "check", "send"}
     /\ ~row.allocated)
        => row.waiting

\* A machine that leaves the wait loop to be installed is allocated (WaitForAllocation).
ToldIsAllocated == hammer.pc = "told" => row.allocated

\* What the flag and the stream of a machine tell of each other and of its row
\* (Wait, FindWaitingMachine, WaitForAllocation).
WaitingTells == WaitingIsFlagged /\ ToldIsAllocated
=============================================================================
