------------------------- MODULE MachineAllocation -------------------------
(***************************************************************************)
(* The life of a machine allocation in metal-api: calls of allocateMachine *)
(* and freeMachine running in any number of replicas, the releases they    *)
(* leave to the message bus (releaseMachineNetworks, releaseIP), and the   *)
(* four stores they share without a transaction across them: the machine   *)
(* table, the ip table, the external IPAM and the ASN integer pool.        *)
(*                                                                         *)
(* Each read and each write of a store is one step. A machine or ip row is *)
(* only replaced when its "changed" stamp is still the one that was read   *)
(* (RethinkStore.updateEntity); creating, deleting and the pool operations *)
(* look at no stamp. A network of an allocation holds one address.         *)
(*                                                                         *)
(* The shared mutex around FindWaitingMachine is left out: it expires on   *)
(* its own, so that the reads and the update it brackets may interleave    *)
(* with another holder's as they do here.                                  *)
(***************************************************************************)
EXTENDS Naturals, FiniteSets

CONSTANTS
    Machines,         \* machines of one partition and size
    Requests,         \* calls of allocateMachine, each with its own allocation UUID
    ByUUID,           \* the requests that name a machine
    Frees,            \* calls of freeMachine
    IPs,              \* addresses of the network the machines are placed in
    GivenIPs,         \* addresses users allocated before and may list in a request
    StaticIPs,        \* those of them whose type is static
    ASNs,             \* integers of the ASN pool
    Networks,         \* networks of a request with automatic address acquisition
    MaxWrites,        \* bound on writes of a machine row by other handlers
    MaxInterruptions, \* bound on replicas that stop, writes and messages that fail
    MaxRedeliveries,  \* bound on messages the bus delivers another time
    Assumed,          \* what the environment is taken to respect, see below
    None

(***************************************************************************)
(* Assumptions a run may make of the environment:                          *)
(*   "settled"       a machine is requested again only after the releases  *)
(*                   published for it were handled (it reboots meanwhile)  *)
(*   "freeAllocated" only allocated machines are freed                     *)
(*   "freeOnce"      an allocation is freed by one call only               *)
(*   "acked"         the bus repeats a message only when its handler did   *)
(*                   not finish                                            *)
(*   "apart"         a machine that is named by one request is not elected *)
(*                   or named by another one that runs at the same time    *)
(***************************************************************************)
Assumptions == {"settled", "freeAllocated", "freeOnce", "acked", "apart"}

ASSUME ConstantsAssumption ==
    /\ ByUUID \subseteq Requests
    /\ Requests \cap Frees = {}
    /\ StaticIPs \subseteq GivenIPs /\ GivenIPs \subseteq IPs
    /\ Networks \in Nat \ {0}
    /\ {MaxWrites, MaxInterruptions, MaxRedeliveries} \subseteq Nat
    /\ Assumed \subseteq Assumptions
    /\ None \notin Machines \cup Requests \cup IPs \cup ASNs

VARIABLES
    machines,   \* the machine table
    ips,        \* the ip table; "changed" survives a deletion, as stamps never repeat
    ipam,       \* addresses acquired in the IPAM
    pool,       \* integers that can be acquired from the ASN pool
    alloc,      \* the MachineAllocation each request builds
    call,       \* the calls of allocateMachine
    free,       \* the calls of freeMachine
    release,    \* the releaseMachineNetworks message of each call and its handler
    ipRelease,  \* the releaseIP messages and their handlers, by origin and address
    events      \* how often the bounded events of the environment happened

vars == <<machines, ips, ipam, pool, alloc, call, free, release, ipRelease, events>>

Calls == Requests \cup Frees

\* "waiting": waiting flag set, state available and alive; "busy": one of them not
Modes == {"waiting", "busy", "locked"}

MachineRow == [id: Machines \cup {None}, allocation: Requests \cup {None},
               preAllocated: BOOLEAN, mode: Modes, changed: Nat]
IPRow == [exists: BOOLEAN, tags: SUBSET Machines, changed: Nat]
Allocation == [ips: SUBSET IPs, asn: ASNs \cup {None}]

NoRow == [id |-> None, allocation |-> None, preAllocated |-> FALSE,
          mode |-> "busy", changed |-> 0]

CallPC == {"start", "preallocate", "gather", "acquire", "create", "tag", "asn",
           "refetch", "commit", "rollback", "reset", "done", "failed", "crashed"}
FreePC == {"start", "publish", "update", "done", "failed", "crashed"}
ReleasePC == {"none", "queued", "listed", "dangling", "done"}
IPReleasePC == {"none", "queued", "delete", "ipam", "done"}

CallState == [pc: CallPC, candidate: MachineRow, seen: MachineRow,
              ip: IPs \cup {None}, ipChanged: Nat]
FreeState == [pc: FreePC, seen: MachineRow]
ReleaseState == [pc: ReleasePC, todo: SUBSET IPs]

TypeOK ==
    /\ machines \in [Machines -> MachineRow]
    /\ ips \in [IPs -> IPRow]
    /\ ipam \in SUBSET IPs
    /\ pool \in SUBSET ASNs
    /\ alloc \in [Requests -> Allocation]
    /\ call \in [Requests -> CallState]
    /\ free \in [Frees -> FreeState]
    /\ release \in [Calls -> ReleaseState]
    /\ ipRelease \in [Calls -> [IPs -> IPReleasePC]]
    /\ events \in [writes: Nat, interruptions: Nat, redeliveries: Nat]

Init ==
    /\ machines = [m \in Machines |-> [NoRow EXCEPT !.id = m, !.mode = "waiting"]]
    /\ ips = [a \in IPs |-> [exists |-> a \in GivenIPs, tags |-> {}, changed |-> 0]]
    /\ ipam = GivenIPs
    /\ pool = ASNs
    /\ alloc = [r \in Requests |-> [ips |-> {}, asn |-> None]]
    /\ call = [r \in Requests |-> [pc |-> "start", candidate |-> NoRow, seen |-> NoRow,
                                   ip |-> None, ipChanged |-> 0]]
    /\ free = [f \in Frees |-> [pc |-> "start", seen |-> NoRow]]
    /\ release = [p \in Calls |-> [pc |-> "none", todo |-> {}]]
    /\ ipRelease = [p \in Calls |-> [a \in IPs |-> "none"]]
    /\ events = [writes |-> 0, interruptions |-> 0, redeliveries |-> 0]

-----------------------------------------------------------------------------
(* The optimistic lock of the datastore (updateEntity).                    *)

AnyStamp(old) == TRUE  \* mutant of Current
Current(old) == machines[old.id].changed = old.changed

SameStamp(old, new) == [machines EXCEPT ![old.id] = new]  \* mutant of Replaced
Replaced(old, new) ==
    [machines EXCEPT ![old.id] = [new EXCEPT !.changed = old.changed + 1]]

OnlyUnowned(row) == [row EXCEPT !.allocation = None]  \* mutant of Cleared
Cleared(row) == [row EXCEPT !.allocation = None, !.preAllocated = FALSE]

\* The machine and the allocation named in the release message of a call.
MachineOf(p) == IF p \in Requests THEN call[p].candidate.id ELSE free[p].seen.id
AllocationOf(p) == IF p \in Requests THEN p ELSE free[p].seen.allocation

Settled(m) ==
    "settled" \in Assumed =>
        \A p \in Calls : MachineOf(p) = m => release[p].pc \in {"none", "done"}

-----------------------------------------------------------------------------
(* allocateMachine: the machine candidate.                                 *)

To(r, pc) == call' = [call EXCEPT ![r].pc = pc]

\* None of the requests works on the machine.
NoneOn(requests, m) ==
    "apart" \in Assumed =>
        \A r \in requests : call[r].candidate.id = m => call[r].pc \in {"start", "done", "failed", "crashed"}

NamedCandidate(r, m) ==
    /\ call[r].pc = "start" /\ r \in ByUUID
    /\ Settled(m) /\ NoneOn(Requests, m)
    /\ call' = [call EXCEPT ![r].candidate = machines[m],
                            ![r].pc = IF machines[m].allocation = None
                                      THEN "gather" ELSE "failed"]
    /\ UNCHANGED <<machines, ips, ipam, pool, alloc, free, release, ipRelease, events>>

ElectableMarked(m) ==  \* mutant of Electable
    machines[m].allocation = None /\ machines[m].mode = "waiting"

Electable(m) ==
    /\ machines[m].allocation = None
    /\ ~machines[m].preAllocated
    /\ machines[m].mode = "waiting"

WaitingCandidate(r, m) ==
    /\ call[r].pc = "start" /\ r \notin ByUUID
    /\ Electable(m) /\ Settled(m) /\ NoneOn(ByUUID, m)
    /\ call' = [call EXCEPT ![r].candidate = machines[m], ![r].pc = "preallocate"]
    /\ UNCHANGED <<machines, ips, ipam, pool, alloc, free, release, ipRelease, events>>

NoCandidate(r) ==
    /\ call[r].pc = "start" /\ r \notin ByUUID
    /\ \A m \in Machines : ~Electable(m)
    /\ To(r, "failed")
    /\ UNCHANGED <<machines, ips, ipam, pool, alloc, free, release, ipRelease, events>>

PreAllocate(r) ==
    LET old == call[r].candidate
        new == [old EXCEPT !.preAllocated = TRUE, !.changed = old.changed + 1]
    IN  /\ call[r].pc = "preallocate"
        /\ IF Current(old)
           THEN /\ machines' = Replaced(old, [old EXCEPT !.preAllocated = TRUE])
                /\ call' = [call EXCEPT ![r].candidate = new, ![r].pc = "gather"]
           ELSE /\ To(r, "failed")
                /\ UNCHANGED machines
        /\ UNCHANGED <<ips, ipam, pool, alloc, free, release, ipRelease, events>>

-----------------------------------------------------------------------------
(* allocateMachine: addresses and ASN (gatherNetworks, makeNetworks).      *)

\* A listed address is attached as it was read here; scope machine or project will do.
GatherGiven(r, a) ==
    /\ call[r].pc = "gather"
    /\ ips[a].exists
    /\ call' = [call EXCEPT ![r].pc = "tag", ![r].ip = a,
                            ![r].ipChanged = ips[a].changed]
    /\ UNCHANGED <<machines, ips, ipam, pool, alloc, free, release, ipRelease, events>>

GatherAuto(r) ==
    /\ call[r].pc = "gather"
    /\ To(r, "acquire")
    /\ UNCHANGED <<machines, ips, ipam, pool, alloc, free, release, ipRelease, events>>

AllocateRandomIP(r, a) ==
    /\ call[r].pc = "acquire"
    /\ a \notin ipam
    /\ ipam' = ipam \cup {a}
    /\ call' = [call EXCEPT ![r].pc = "create", ![r].ip = a]
    /\ UNCHANGED <<machines, ips, pool, alloc, free, release, ipRelease, events>>

CreateIP(r) ==
    LET a == call[r].ip
    IN  /\ call[r].pc = "create"
        /\ IF ips[a].exists
           THEN To(r, "rollback") /\ UNCHANGED ips
           ELSE /\ ips' = [ips EXCEPT ![a] = [exists |-> TRUE,
                                              tags |-> {call[r].candidate.id},
                                              changed |-> @.changed + 1]]
                /\ call' = [call EXCEPT ![r].pc = "tag",
                                        ![r].ipChanged = ips[a].changed + 1]
        /\ UNCHANGED <<machines, ipam, pool, alloc, free, release, ipRelease, events>>

OnlyTag(a, m) == {m}  \* mutant of Tagged
Tagged(a, m) == ips[a].tags \cup {m}

\* The network joins the allocation after its address was tagged with the machine.
AddMachineId(r) ==
    LET a == call[r].ip
        enough == Cardinality(alloc[r].ips) + 1 >= Networks
    IN  /\ call[r].pc = "tag"
        /\ IF ips[a].exists /\ ips[a].changed = call[r].ipChanged
           THEN /\ ips' = [ips EXCEPT ![a] = [ips[a] EXCEPT !.tags = Tagged(a, call[r].candidate.id),
                                                            !.changed = @ + 1]]
                /\ alloc' = [alloc EXCEPT ![r].ips = @ \cup {a}]
                /\ To(r, IF enough THEN "asn" ELSE "acquire")
           ELSE To(r, "rollback") /\ UNCHANGED <<ips, alloc>>
        /\ UNCHANGED <<machines, ipam, pool, free, release, ipRelease, events>>

PoolKept(n) == pool  \* mutant of PoolWithout
PoolWithout(n) == pool \ {n}

AcquireASN(r, n) ==
    /\ call[r].pc = "asn"
    /\ n \in pool
    /\ pool' = PoolWithout(n)
    /\ alloc' = [alloc EXCEPT ![r].asn = n]
    /\ To(r, "refetch")
    /\ UNCHANGED <<machines, ips, ipam, free, release, ipRelease, events>>

StepFailsAtOnce(r) ==  \* mutant of StepFails
    /\ \/ call[r].pc \in {"gather", "tag", "refetch"}
       \/ call[r].pc = "acquire" /\ ipam = IPs
       \/ call[r].pc = "asn" /\ pool = {}
    /\ To(r, "failed")
    /\ UNCHANGED <<machines, ips, ipam, pool, alloc, free, release, ipRelease, events>>

\* The error returns of the steps above: no filesystem layout or network fits, the
\* IPAM or the pool is exhausted, or the datastore fails a read or a tag update.
StepFails(r) ==
    /\ \/ call[r].pc \in {"gather", "tag", "refetch"}
       \/ call[r].pc = "acquire" /\ ipam = IPs
       \/ call[r].pc = "asn" /\ pool = {}
    /\ To(r, "rollback")
    /\ UNCHANGED <<machines, ips, ipam, pool, alloc, free, release, ipRelease, events>>

-----------------------------------------------------------------------------
(* allocateMachine: the commit, or the rollback.                           *)

RefetchUnchecked(r) ==  \* mutant of RefetchMachine
    /\ call[r].pc = "refetch"
    /\ call' = [call EXCEPT ![r].seen = machines[call[r].candidate.id], ![r].pc = "commit"]
    /\ UNCHANGED <<machines, ips, ipam, pool, alloc, free, release, ipRelease, events>>

RefetchMachine(r) ==
    LET row == machines[call[r].candidate.id]
    IN  /\ call[r].pc = "refetch"
        /\ call' = [call EXCEPT ![r].seen = row,
                                ![r].pc = IF row.allocation = None
                                          THEN "commit" ELSE "rollback"]
        /\ UNCHANGED <<machines, ips, ipam, pool, alloc, free, release, ipRelease, events>>

CommitAllocation(r) ==
    LET old == call[r].seen
    IN  /\ call[r].pc = "commit"
        /\ IF Current(old)
           THEN /\ machines' = Replaced(old, [old EXCEPT !.allocation = r,
                                                         !.preAllocated = FALSE])
                /\ To(r, "done")
           ELSE To(r, "rollback") /\ UNCHANGED machines
        /\ UNCHANGED <<ips, ipam, pool, alloc, free, release, ipRelease, events>>

Queue(p) == release' = [release EXCEPT ![p].pc = "queued"]

Interrupted ==
    /\ events.interruptions < MaxInterruptions
    /\ events' = [events EXCEPT !.interruptions = @ + 1]

\* The callers of machineNetworkReleaser only log its error.
Publish(p) == (Queue(p) /\ UNCHANGED events) \/ (Interrupted /\ UNCHANGED release)

RollbackPublish(r) ==
    /\ call[r].pc = "rollback"
    /\ Publish(r)
    /\ To(r, "reset")
    /\ UNCHANGED <<machines, ips, ipam, pool, alloc, free, ipRelease>>

\* The error of this update is only logged.
RollbackReset(r) ==
    LET old == call[r].candidate
    IN  /\ call[r].pc = "reset"
        /\ machines' = IF Current(old) THEN Replaced(old, Cleared(old)) ELSE machines
        /\ To(r, "failed")
        /\ UNCHANGED <<ips, ipam, pool, alloc, free, release, ipRelease, events>>

-----------------------------------------------------------------------------
(* freeMachine: the networks are released before the row is updated.       *)

FreeRead(f, m) ==
    /\ free[f].pc = "start"
    /\ "freeAllocated" \in Assumed => machines[m].allocation # None
    /\ "freeOnce" \in Assumed =>
         \A g \in Frees : /\ free[g].pc # "start"
                          /\ machines[m].allocation # None
                          => free[g].seen.allocation # machines[m].allocation
    /\ free' = [free EXCEPT ![f].seen = machines[m],
                            ![f].pc = IF machines[m].mode = "locked"
                                      THEN "failed" ELSE "publish"]
    /\ UNCHANGED <<machines, ips, ipam, pool, alloc, call, release, ipRelease, events>>

FreePublish(f) ==
    /\ free[f].pc = "publish"
    /\ Publish(f)
    /\ free' = [free EXCEPT ![f].pc = "update"]
    /\ UNCHANGED <<machines, ips, ipam, pool, alloc, call, ipRelease>>

\* deleteVRFSwitches or publishDeleteEvent fails.
FreeFails(f) ==
    /\ free[f].pc = "publish"
    /\ free' = [free EXCEPT ![f].pc = "failed"]
    /\ UNCHANGED <<machines, ips, ipam, pool, alloc, call, release, ipRelease, events>>

FreeUpdate(f) ==
    LET old == free[f].seen
    IN  /\ free[f].pc = "update"
        /\ IF Current(old)
           THEN /\ machines' = Replaced(old, Cleared(old))
                /\ free' = [free EXCEPT ![f].pc = "done"]
           ELSE /\ free' = [free EXCEPT ![f].pc = "failed"]
                /\ UNCHANGED machines
        /\ UNCHANGED <<ips, ipam, pool, alloc, call, release, ipRelease, events>>

-----------------------------------------------------------------------------
(* The handler of releaseMachineNetworks.                                  *)

AnyType == IPs  \* mutant of Ephemeral
Ephemeral == IPs \ StaticIPs

\* disassociateIP on the addresses A for machine m, on behalf of message p: drop the
\* tag, and leave an ephemeral address without any machine to releaseIP.
Disassociate(p, A, m) ==
    LET tagged == {a \in A : ips[a].exists /\ m \in ips[a].tags}
        unused == {a \in tagged \cap Ephemeral : ips[a].tags = {m}}
    IN  /\ ips' = [a \in IPs |-> IF a \in tagged
                                 THEN [ips[a] EXCEPT !.tags = @ \ {m}, !.changed = @ + 1]
                                 ELSE ips[a]]
        /\ ipRelease' = [ipRelease EXCEPT ![p] =
                            [a \in IPs |-> IF a \in unused THEN "queued" ELSE @[a]]]

ReleaseStart(p) ==
    /\ release[p].pc = "queued"
    /\ release' = [release EXCEPT ![p] =
          IF AllocationOf(p) = None THEN [pc |-> "done", todo |-> {}]
          ELSE [pc |-> "listed", todo |-> alloc[AllocationOf(p)].ips]]
    /\ UNCHANGED <<machines, ips, ipam, pool, alloc, call, free, ipRelease, events>>

ReleaseListed(p, a) ==
    /\ release[p].pc = "listed" /\ a \in release[p].todo
    /\ Disassociate(p, {a}, MachineOf(p))
    /\ release' = [release EXCEPT ![p].todo = @ \ {a}]
    /\ UNCHANGED <<machines, ipam, pool, alloc, call, free, events>>

NilReturned(p) == {alloc[AllocationOf(p)].asn}  \* mutant of ReturnedASNs
ReturnedASNs(p) == {alloc[AllocationOf(p)].asn} \ {None}

ReleaseASN(p) ==
    /\ release[p].pc = "listed" /\ release[p].todo = {}
    /\ pool' = pool \cup ReturnedASNs(p)
    /\ release' = [release EXCEPT ![p].pc = "dangling"]
    /\ UNCHANGED <<machines, ips, ipam, alloc, call, free, ipRelease, events>>

ReleaseDangling(p) ==
    /\ release[p].pc = "dangling"
    /\ Disassociate(p, IPs, MachineOf(p))
    /\ release' = [release EXCEPT ![p].pc = "done"]
    /\ UNCHANGED <<machines, ipam, pool, alloc, call, free, events>>

-----------------------------------------------------------------------------
(* The handler of releaseIP, for the message that p left for address a.    *)

ReleaseIPKeepRow(p, a) ==  \* mutant of ReleaseIPFind
    /\ ipRelease[p][a] = "queued"
    /\ ipRelease' = [ipRelease EXCEPT ![p][a] =
          IF ips[a].exists /\ ips[a].tags # {} THEN "done" ELSE "ipam"]
    /\ UNCHANGED <<machines, ips, ipam, pool, alloc, call, free, release, events>>

ReleaseIPFind(p, a) ==
    /\ ipRelease[p][a] = "queued"
    /\ ipRelease' = [ipRelease EXCEPT ![p][a] =
          IF ~ips[a].exists THEN "ipam" ELSE IF ips[a].tags = {} THEN "delete" ELSE "done"]
    /\ UNCHANGED <<machines, ips, ipam, pool, alloc, call, free, release, events>>

ReleaseIPDelete(p, a) ==
    /\ ipRelease[p][a] = "delete"
    /\ ips' = [ips EXCEPT ![a] = [exists |-> FALSE, tags |-> {}, changed |-> @.changed + 1]]
    /\ ipRelease' = [ipRelease EXCEPT ![p][a] = "ipam"]
    /\ UNCHANGED <<machines, ipam, pool, alloc, call, free, release, events>>

ReleaseIPInIPAM(p, a) ==
    /\ ipRelease[p][a] = "ipam"
    /\ ipam' = ipam \ {a}
    /\ ipRelease' = [ipRelease EXCEPT ![p][a] = "done"]
    /\ UNCHANGED <<machines, ips, pool, alloc, call, free, release, events>>

-----------------------------------------------------------------------------
(* The environment.                                                        *)

\* Any other handler that reads and updates a machine row: the waiting flag of the
\* boot service, setMachineState, the IPMI report, a registration.
OtherWrite(m, mode) ==
    /\ events.writes < MaxWrites
    /\ machines' = Replaced(machines[m], [machines[m] EXCEPT !.mode = mode])
    /\ events' = [events EXCEPT !.writes = @ + 1]
    /\ UNCHANGED <<ips, ipam, pool, alloc, call, free, release, ipRelease>>

\* The datastore fails a write of a call for another reason than the stamp.
DatastoreFails(p) ==
    /\ \/ /\ p \in Requests /\ UNCHANGED free
          /\ \/ call[p].pc \in {"preallocate", "reset"} /\ To(p, "failed")
             \/ call[p].pc \in {"create", "commit"} /\ To(p, "rollback")
       \/ /\ p \in Frees /\ free[p].pc = "update"
          /\ free' = [free EXCEPT ![p].pc = "failed"] /\ UNCHANGED call
    /\ UNCHANGED <<machines, ips, ipam, pool, alloc, release, ipRelease>>

\* A replica stops in the middle of a call; nothing it did is undone.
Crash(p) ==
    /\ \/ /\ p \in Requests /\ call[p].pc \notin {"start", "done", "failed", "crashed"}
          /\ To(p, "crashed") /\ UNCHANGED free
       \/ /\ p \in Frees /\ free[p].pc \notin {"start", "done", "failed", "crashed"}
          /\ free' = [free EXCEPT ![p].pc = "crashed"] /\ UNCHANGED call
    /\ UNCHANGED <<machines, ips, ipam, pool, alloc, release, ipRelease>>

CutShort(p) == Interrupted /\ (DatastoreFails(p) \/ Crash(p))

\* The bus hands a message to a handler once more: its handler failed or stopped in
\* between, or finished but was not acknowledged.
Again(pc) == pc \notin {"none", "queued"} /\ ("acked" \in Assumed => pc # "done")

RedeliverRelease(p) ==
    /\ events.redeliveries < MaxRedeliveries
    /\ Again(release[p].pc)
    /\ Queue(p)
    /\ events' = [events EXCEPT !.redeliveries = @ + 1]
    /\ UNCHANGED <<machines, ips, ipam, pool, alloc, call, free, ipRelease>>

RedeliverIPRelease(p, a) ==
    /\ events.redeliveries < MaxRedeliveries
    /\ Again(ipRelease[p][a])
    /\ ipRelease' = [ipRelease EXCEPT ![p][a] = "queued"]
    /\ events' = [events EXCEPT !.redeliveries = @ + 1]
    /\ UNCHANGED <<machines, ips, ipam, pool, alloc, call, free, release>>

-----------------------------------------------------------------------------

Ended == {"done", "failed", "crashed"}

\* Every call ended and the bus is empty; calls that were never made do not count.
Quiescent ==
    /\ \A r \in Requests : call[r].pc \in Ended \cup {"start"}
    /\ \A f \in Frees : free[f].pc \in Ended \cup {"start"}
    /\ \A p \in Calls : release[p].pc \in {"none", "done"}
    /\ \A p \in Calls, a \in IPs : ipRelease[p][a] \in {"none", "done"}
    /\ UNCHANGED vars

AllocateStep(r) ==
    \/ \E m \in Machines : NamedCandidate(r, m) \/ WaitingCandidate(r, m)
    \/ NoCandidate(r)
    \/ PreAllocate(r)
    \/ \E a \in GivenIPs : GatherGiven(r, a)
    \/ GatherAuto(r)
    \/ \E a \in IPs : AllocateRandomIP(r, a)
    \/ CreateIP(r)
    \/ AddMachineId(r)
    \/ \E n \in ASNs : AcquireASN(r, n)
    \/ StepFails(r)
    \/ RefetchMachine(r)
    \/ CommitAllocation(r)
    \/ RollbackPublish(r)
    \/ RollbackReset(r)

FreeStep(f) == FreePublish(f) \/ FreeFails(f) \/ FreeUpdate(f)

ReleaseStep(p) ==
    \/ ReleaseStart(p)
    \/ \E a \in IPs : ReleaseListed(p, a)
    \/ ReleaseASN(p)
    \/ ReleaseDangling(p)

IPReleaseStep(p, a) == ReleaseIPFind(p, a) \/ ReleaseIPDelete(p, a) \/ ReleaseIPInIPAM(p, a)

Next ==
    \/ \E r \in Requests : AllocateStep(r)
    \/ \E f \in Frees : FreeStep(f) \/ \E m \in Machines : FreeRead(f, m)
    \/ \E p \in Calls : ReleaseStep(p) \/ RedeliverRelease(p) \/ CutShort(p)
    \/ \E p \in Calls, a \in IPs : IPReleaseStep(p, a) \/ RedeliverIPRelease(p, a)
    \/ \E m \in Machines, mode \in Modes : OtherWrite(m, mode)
    \/ Quiescent

Spec == Init /\ [][Next]_vars

\* Calls run to their end once begun, and the bus delivers: each runs in a goroutine
\* of its own that nothing holds back. Nobody has to call freeMachine.
Fairness ==
    /\ \A r \in Requests : WF_vars(AllocateStep(r))
    /\ \A f \in Frees : WF_vars(FreeStep(f))
    /\ \A p \in Calls : WF_vars(ReleaseStep(p))
    /\ \A p \in Calls, a \in IPs : WF_vars(IPReleaseStep(p, a))

FairSpec == Spec /\ Fairness

-----------------------------------------------------------------------------
(* Properties.                                                             *)

Working == {"gather", "acquire", "create", "tag", "asn", "refetch", "commit", "rollback", "reset"}

\* A machine handed to a caller of allocateMachine stays with this allocation until a
\* freeMachine call that read this very allocation succeeds: no concurrent request,
\* rollback, stale free or other handler can take it over or wipe it out.
SuccessStays ==
    \A r \in Requests : call[r].pc = "done" =>
        \/ machines[call[r].candidate.id].allocation = r
        \/ \E f \in Frees : free[f].pc = "done" /\ free[f].seen.allocation = r

\* The same as a behaviour of MachineLease: every step that changes who has a machine is
\* one grant to a request that had none, or one return.
Lease == INSTANCE MachineLease
    WITH owner <- [m \in Machines |-> machines[m].allocation],
         served <- {r \in Requests : call[r].pc = "done"}

ImplementsLease == Lease!Spec

\* FindWaitingMachine reserves: no two calls that were given a machine by it work on the
\* same machine at the same time.
ExclusiveCandidate ==
    \A r, q \in Requests \ ByUUID :
        r # q /\ {call[r].pc, call[q].pc} \subseteq Working
            => call[r].candidate.id # call[q].candidate.id

\* The preallocated flag of FindWaitingMachine does not outlive the call that set it: a
\* machine carries it only while some call may still commit or reset it, unless a
\* replica or the datastore failed, or another handler wrote the machine meanwhile.
PreAllocatedHasOwner ==
    events.writes + events.interruptions = 0 =>
    \A m \in Machines : machines[m].preAllocated =>
        \E r \in Requests : call[r].pc \in Working /\ call[r].candidate.id = m

\* The ASN of request r was given back to the pool by a release.
ASNReturned(r) ==
    \E p \in Calls : AllocationOf(p) = r /\ release[p].pc \in {"dangling", "done"}

HoldsASN(r) == alloc[r].asn # None /\ ~ASNReturned(r)

\* An ASN is held by one allocation at a time, and is not on offer in the pool meanwhile,
\* from its acquisition to the handling of the release of that allocation, as long as no
\* message was handled twice.
ASNHeldOnce ==
    events.redeliveries = 0 =>
    \A r \in Requests : HoldsASN(r) =>
        /\ alloc[r].asn \notin pool
        /\ \A q \in Requests \ {r} : HoldsASN(q) => alloc[q].asn # alloc[r].asn

\* The allocation r is on a machine and nobody began to release it.
InUse(r) ==
    /\ call[r].pc = "done"
    /\ machines[call[r].candidate.id].allocation = r
    /\ \A f \in Frees : free[f].seen.allocation = r => release[f].pc = "none"

\* The addresses of a machine in use are its own: the rows exist, carry its tag, are taken
\* in the IPAM, and no other machine in use has an address that was acquired for it.
AddressesHeld ==
    \A r \in Requests : InUse(r) => \A a \in alloc[r].ips :
        /\ ips[a].exists /\ call[r].candidate.id \in ips[a].tags /\ a \in ipam
        /\ \A q \in Requests \ {r} : InUse(q) /\ a \in alloc[q].ips => a \in GivenIPs

\* "now the IP should not exist any more in our datastore so cleanup the ipam": the IPAM
\* never offers an address that has a row in the ip table.
IPAMCoversTable == \A a \in IPs : ips[a].exists => a \in ipam

\* "make sure that this IP is not already connected to a new machine": releaseIP never
\* deletes an address that is connected to a machine.
ConnectedIPKept == [][\A a \in IPs : ips[a].tags # {} => ips'[a].exists]_vars

\* "it can happen that an IP gets properly allocated for a machine but the machine was not
\* added to the machine network. We call these IPs dangling": the search for dangling
\* addresses takes none from the networks of the allocation in use on the machine.
DanglingOnly ==
    [][\A p \in Calls, r \in Requests : ReleaseDangling(p) /\ InUse(r)
          => \A a \in alloc[r].ips : ips[a].tags \subseteq ips'[a].tags]_vars

\* A machine of FindWaitingMachine belongs to one call, and its mark to that call.
ElectedOnce == ExclusiveCandidate /\ PreAllocatedHasOwner

\* Addresses and ASNs belong to one allocation, in all three stores (makeNetworks, acquireASN,
\* releaseMachineNetworks, releaseIP).
HeldOnce == ASNHeldOnce /\ AddressesHeld /\ IPAMCoversTable

\* Nothing leaks: once the calls ended and the bus is drained, what is taken in the IPAM
\* and in the ASN pool belongs to machines in use, failed requests and freed machines
\* having returned all of theirs.
NothingLeaks ==
    LET used == {r \in Requests : InUse(r)}
    IN  <>[](/\ ipam = GivenIPs \cup UNION {alloc[r].ips : r \in used}
             /\ pool = ASNs \ {alloc[r].asn : r \in used})

-----------------------------------------------------------------------------
(* The inductive invariant behind SuccessStays.                            *)

\* Calls past a step have what that step gave them.
Shape ==
    /\ \A m \in Machines : machines[m].id = m
    /\ \A r \in Requests :
         /\ call[r].pc \in Working \cup {"preallocate", "done"}
               => call[r].candidate.id \in Machines
         /\ call[r].pc \in {"create", "tag"} => call[r].ip \in IPs
         /\ call[r].pc \in Working \cup {"preallocate"} => call[r].candidate.allocation = None
         /\ call[r].pc = "commit" => /\ call[r].seen.id = call[r].candidate.id
                                     /\ call[r].seen.allocation = None
    /\ \A f \in Frees :
         /\ free[f].pc # "start" => free[f].seen.id \in Machines
         /\ release[f].pc # "none" => free[f].pc # "start"
         /\ release[f].pc \in {"listed", "dangling"} => free[f].seen.allocation # None

\* What was read of a machine row is still true while its stamp is: a stale copy is
\* recognised by its stamp alone.
Snapshot(old) ==
    /\ old.changed <= machines[old.id].changed
    /\ old.changed = machines[old.id].changed => old = machines[old.id]

Snapshots ==
    /\ \A r \in Requests :
         /\ call[r].pc \in Working \cup {"preallocate"} => Snapshot(call[r].candidate)
         /\ call[r].pc = "commit" => Snapshot(call[r].seen)
    /\ \A f \in Frees : free[f].pc \in {"publish", "update"} => Snapshot(free[f].seen)

\* The copies that calls carry to their updates are told apart from the present rows by
\* their stamps, which is why no update of theirs destroys a foreign one.
AllocationInv == TypeOK /\ Shape /\ Snapshots /\ SuccessStays
=============================================================================
