----------------------- MODULE MachineAllocationProofs -----------------------
(***************************************************************************)
(* Proofs about MachineAllocation for every value of its constants: any    *)
(* number of machines, calls, crashes, redeliveries and foreign writes.    *)
(*                                                                         *)
(* The lease of a machine assumes nothing of the environment. That a       *)
(* machine is elected by one call, an ASN and an address held by one       *)
(* allocation needs what each theorem names: it is not so without.         *)
(***************************************************************************)
EXTENDS MachineAllocation, TLAPS

-----------------------------------------------------------------------------
(* Type correctness.                                                       *)

\* The states a call, a release and a release of an address may be in; cited where an
\* action moves one, so that the sets themselves stay folded.
LEMMA CallPCs ==
    {"start", "preallocate", "gather", "acquire", "create", "tag", "asn", "refetch",
     "commit", "rollback", "reset", "done", "failed", "crashed"} \subseteq CallPC
BY DEF CallPC

LEMMA ReleasePCs == {"none", "queued", "listed", "dangling", "done"} \subseteq ReleasePC
BY DEF ReleasePC

\* Replacing a row of the machine table keeps its type.
LEMMA ReplacedType ==
    ASSUME TypeOK, NEW old \in MachineRow, NEW new \in MachineRow
    PROVE  Replaced(old, new) \in [Machines -> MachineRow]
<1>1. [new EXCEPT !.changed = old.changed + 1] \in MachineRow
  BY DEF MachineRow
<1> QED
  BY <1>1 DEF TypeOK, Replaced

\* Moving a call keeps its type.
LEMMA ToType ==
    ASSUME TypeOK, NEW r \in Requests, NEW pc \in CallPC, To(r, pc)
    PROVE  call' \in [Requests -> CallState]
BY DEF TypeOK, To, CallState

\* Counting an interruption keeps the type of the counters.
LEMMA InterruptedType ==
    ASSUME TypeOK, Interrupted
    PROVE  events' \in [writes: Nat, interruptions: Nat, redeliveries: Nat]
BY DEF Interrupted, TypeOK

\* Publishing a release keeps its type, whether the bus takes it or not.
LEMMA PublishType ==
    ASSUME TypeOK, NEW p \in Calls, Publish(p)
    PROVE  /\ release' \in [Calls -> ReleaseState]
           /\ events' \in [writes: Nat, interruptions: Nat, redeliveries: Nat]
<1>1. release' = [release EXCEPT ![p].pc = "queued"] \/ UNCHANGED release
  BY DEF Publish, Queue
<1>2. UNCHANGED events \/ Interrupted
  BY DEF Publish
<1>3. UNCHANGED events => events' \in [writes: Nat, interruptions: Nat, redeliveries: Nat]
  BY DEF TypeOK
<1> QED
  BY <1>1, <1>2, <1>3, InterruptedType, ReleasePCs DEF TypeOK, ReleaseState

LEMMA InitTypeOK == Init => TypeOK
<1> SUFFICES ASSUME Init PROVE TypeOK
  OBVIOUS
<1>1. NoRow \in MachineRow
  BY DEF NoRow, MachineRow, Modes
<1>2. machines \in [Machines -> MachineRow]
  <2>1. ASSUME NEW m \in Machines
        PROVE  [NoRow EXCEPT !.id = m, !.mode = "waiting"] \in MachineRow
    BY <1>1 DEF MachineRow, Modes
  <2>2. \A m \in Machines : machines[m] = [NoRow EXCEPT !.id = m, !.mode = "waiting"]
    BY DEF Init
  <2>3. \A m \in Machines : machines[m] \in MachineRow
    BY <2>1, <2>2
  <2> QED
    BY <2>3 DEF Init
<1>3. ips \in [IPs -> IPRow] /\ ipam \in SUBSET IPs /\ pool \in SUBSET ASNs
  <2>1. ASSUME NEW a \in IPs
        PROVE  [exists |-> a \in GivenIPs, tags |-> {}, changed |-> 0] \in IPRow
    <3>1. (a \in GivenIPs) \in BOOLEAN /\ {} \in SUBSET Machines /\ 0 \in Nat
      OBVIOUS
    <3> QED
      BY <3>1, Zenon DEF IPRow
  <2>2. \A a \in IPs : ips[a] = [exists |-> a \in GivenIPs, tags |-> {}, changed |-> 0]
    BY Zenon DEF Init
  <2>3. \A a \in IPs : ips[a] \in IPRow
    BY <2>1, <2>2, Zenon
  <2>4. ips = [a \in IPs |-> ips[a]]
    BY Zenon DEF Init
  <2> QED
    BY <2>3, <2>4, ConstantsAssumption DEF Init
<1>4. alloc \in [Requests -> Allocation]
  BY DEF Init, Allocation
<1>5. call \in [Requests -> CallState]
  BY <1>1, CallPCs DEF Init, CallState
<1>6. free \in [Frees -> FreeState]
  BY <1>1 DEF Init, FreePC, FreeState
<1>7. /\ release \in [Calls -> ReleaseState]
      /\ ipRelease \in [Calls -> [IPs -> IPReleasePC]]
      /\ events \in [writes: Nat, interruptions: Nat, redeliveries: Nat]
  BY ReleasePCs DEF Init, ReleaseState, IPReleasePC
<1> QED
  BY <1>2, <1>3, <1>4, <1>5, <1>6, <1>7 DEF TypeOK

LEMMA AllocateStepType ==
  ASSUME TypeOK, Shape, NEW r \in Requests, AllocateStep(r)
  PROVE  TypeOK'
<1> DEFINE old == call[r].candidate
           seen == call[r].seen
           ip == call[r].ip
<1>0. /\ call[r] \in CallState /\ old \in MachineRow /\ seen \in MachineRow
      /\ ip \in IPs \cup {None} /\ call[r].ipChanged \in Nat /\ r \in Calls
  BY DEF TypeOK, CallState, Calls
<1>1. ASSUME NEW m \in Machines, NamedCandidate(r, m) \/ WaitingCandidate(r, m)
      PROVE  TypeOK'
  BY <1>1, CallPCs DEF TypeOK, NamedCandidate, WaitingCandidate, CallState
<1>2. CASE NoCandidate(r) \/ GatherAuto(r) \/ StepFails(r)
  <2>1. call' \in [Requests -> CallState]
    BY <1>2, ToType, CallPCs DEF NoCandidate, GatherAuto, StepFails
  <2> QED
    BY <1>2, <2>1 DEF TypeOK, NoCandidate, GatherAuto, StepFails
<1>3. CASE PreAllocate(r)
  <2> DEFINE taken == [old EXCEPT !.preAllocated = TRUE]
             new == [old EXCEPT !.preAllocated = TRUE, !.changed = old.changed + 1]
  <2>1. taken \in MachineRow /\ new \in MachineRow
    <3>1. old.changed + 1 \in Nat
      BY <1>0 DEF MachineRow
    <3> QED
      BY <1>0, <3>1 DEF MachineRow
  <2>2. machines' \in [Machines -> MachineRow]
    BY <1>0, <1>3, <2>1, ReplacedType DEF PreAllocate, TypeOK
  <2>3. call' \in [Requests -> CallState]
    <3>1. CASE Current(old)
      <4>1. call' = [call EXCEPT ![r].candidate = new, ![r].pc = "gather"]
        BY <1>3, <3>1 DEF PreAllocate
      <4> HIDE DEF new
      <4> QED
        BY <4>1, <2>1, CallPCs DEF TypeOK, CallState
    <3>2. CASE ~Current(old)
      BY <1>3, <3>2, ToType, CallPCs DEF PreAllocate
    <3> QED
      BY <3>1, <3>2
  <2> QED
    BY <1>3, <2>2, <2>3 DEF TypeOK, PreAllocate
<1>4. ASSUME NEW a \in GivenIPs, GatherGiven(r, a)
      PROVE  TypeOK'
  <2>1. a \in IPs /\ ips[a].changed \in Nat
    BY ConstantsAssumption DEF TypeOK, IPRow
  <2>2. call' \in [Requests -> CallState]
    <3> DEFINE c == ips[a].changed
    <3>1. call' = [call EXCEPT ![r].pc = "tag", ![r].ip = a, ![r].ipChanged = c]
      BY <1>4 DEF GatherGiven
    <3> HIDE DEF c
    <3> QED
      BY <1>0, <2>1, <3>1, CallPCs DEF TypeOK, CallState, c
  <2> QED
    BY <1>4, <2>2 DEF TypeOK, GatherGiven
<1>5. ASSUME NEW a \in IPs, AllocateRandomIP(r, a)
      PROVE  TypeOK'
  BY <1>5, CallPCs DEF TypeOK, AllocateRandomIP, CallState
<1>6. CASE CreateIP(r)
  <2>1. CASE ips[ip].exists
    <3>1. call' \in [Requests -> CallState]
      BY <1>6, <2>1, ToType, CallPCs DEF CreateIP
    <3> QED
      BY <1>6, <2>1, <3>1 DEF TypeOK, CreateIP
  <2>2. CASE ~ips[ip].exists
    <3> DEFINE stamp == ips[ip].changed + 1
               row == [exists |-> TRUE, tags |-> {old.id}, changed |-> stamp]
    <3>1. ip \in IPs /\ old.id \in Machines
      BY <1>6 DEF Shape, CreateIP, Working
    <3>2. stamp \in Nat /\ row \in IPRow
      BY <3>1 DEF TypeOK, IPRow
    <3>3. ips' = [ips EXCEPT ![ip] = row]
      BY <1>6, <2>2, <3>1 DEF CreateIP, TypeOK
    <3>4. call' = [call EXCEPT ![r].pc = "tag", ![r].ipChanged = stamp]
      BY <1>6, <2>2 DEF CreateIP
    <3> HIDE DEF stamp, row
    <3>5. ips' \in [IPs -> IPRow] /\ call' \in [Requests -> CallState]
      BY <3>2, <3>3, <3>4, CallPCs DEF TypeOK, CallState
    <3> QED
      BY <1>6, <3>5 DEF TypeOK, CreateIP
  <2> QED
    BY <2>1, <2>2
<1>7. CASE AddMachineId(r)
  <2>1. call' \in [Requests -> CallState]
    BY <1>7, ToType, CallPCs DEF AddMachineId
  <2>2. ip \in IPs /\ old.id \in Machines
    BY <1>7 DEF Shape, AddMachineId, Working
  <2>3. CASE ips[ip].exists /\ ips[ip].changed = call[r].ipChanged
    <3> DEFINE row == [ips[ip] EXCEPT !.tags = @ \cup {old.id}, !.changed = @ + 1]
    <3>1. ips' = [ips EXCEPT ![ip] = row]
      BY <1>7, <2>3 DEF AddMachineId, Tagged
    <3>2. ips[ip].changed + 1 \in Nat /\ ips[ip].tags \cup {old.id} \in SUBSET Machines
      BY <2>2 DEF TypeOK, IPRow
    <3>3. row \in IPRow
      BY <2>2, <3>2 DEF TypeOK, IPRow
    <3> HIDE DEF row
    <3>4. ips' \in [IPs -> IPRow]
      BY <3>1, <3>3 DEF TypeOK
    <3>5. alloc[r].ips \cup {ip} \in SUBSET IPs
      BY <2>2 DEF TypeOK, Allocation
    <3>6. alloc' = [alloc EXCEPT ![r].ips = alloc[r].ips \cup {ip}]
      BY <1>7, <2>3 DEF AddMachineId, TypeOK
    <3>7. alloc' \in [Requests -> Allocation]
      BY <3>5, <3>6 DEF TypeOK, Allocation
    <3> QED
      BY <1>7, <2>1, <3>4, <3>7 DEF AddMachineId, TypeOK
  <2>4. CASE ~(ips[ip].exists /\ ips[ip].changed = call[r].ipChanged)
    BY <1>7, <2>1, <2>4 DEF AddMachineId, TypeOK
  <2> QED
    BY <2>3, <2>4
<1>8. ASSUME NEW n \in ASNs, AcquireASN(r, n)
      PROVE  TypeOK'
  <2>1. call' \in [Requests -> CallState]
    BY <1>8, ToType, CallPCs DEF AcquireASN
  <2> QED
    BY <1>8, <2>1 DEF AcquireASN, PoolWithout, TypeOK, Allocation
<1>9. CASE RefetchMachine(r)
  <2>1. machines[old.id] \in MachineRow
    BY <1>9 DEF TypeOK, Shape, RefetchMachine, Working
  <2> QED
    BY <1>9, <2>1, CallPCs DEF RefetchMachine, TypeOK, CallState
<1>10. CASE CommitAllocation(r)
  <2>1. call' \in [Requests -> CallState]
    BY <1>10, ToType, CallPCs DEF CommitAllocation
  <2>2. [seen EXCEPT !.allocation = r, !.preAllocated = FALSE] \in MachineRow
    BY <1>0 DEF MachineRow
  <2>3. machines' \in [Machines -> MachineRow]
    BY <1>0, <1>10, <2>2, ReplacedType DEF CommitAllocation, TypeOK
  <2> QED
    BY <1>10, <2>1, <2>3 DEF CommitAllocation, TypeOK
<1>11. CASE RollbackPublish(r)
  <2>1. call' \in [Requests -> CallState]
    BY <1>11, ToType, CallPCs DEF RollbackPublish
  <2> QED
    BY <1>0, <1>11, <2>1, PublishType DEF RollbackPublish, TypeOK
<1>12. CASE RollbackReset(r)
  <2>1. call' \in [Requests -> CallState]
    BY <1>12, ToType, CallPCs DEF RollbackReset
  <2>2. Cleared(old) \in MachineRow
    BY <1>0 DEF MachineRow, Cleared
  <2> QED
    BY <1>0, <1>12, <2>1, <2>2, ReplacedType DEF RollbackReset, TypeOK
<1> QED
  BY <1>1, <1>2, <1>3, <1>4, <1>5, <1>6, <1>7, <1>8, <1>9, <1>10, <1>11, <1>12
     DEF AllocateStep

LEMMA FreeStepType ==
  ASSUME TypeOK, NEW f \in Frees, FreeStep(f) \/ \E m \in Machines : FreeRead(f, m)
  PROVE  TypeOK'
<1> DEFINE old == free[f].seen
<1>0. free[f] \in FreeState /\ old \in MachineRow /\ f \in Calls
  BY DEF TypeOK, FreeState, Calls
<1>1. ASSUME NEW m \in Machines, FreeRead(f, m)
      PROVE  TypeOK'
  <2> DEFINE pc == IF machines[m].mode = "locked" THEN "failed" ELSE "publish"
  <2>1. free' = [free EXCEPT ![f].seen = machines[m], ![f].pc = pc]
    BY <1>1 DEF FreeRead
  <2>2. pc \in FreePC /\ machines[m] \in MachineRow
    BY DEF FreePC, TypeOK
  <2> HIDE DEF pc
  <2>3. free' \in [Frees -> FreeState]
    BY <2>1, <2>2 DEF TypeOK, FreeState
  <2> QED
    BY <1>1, <2>3 DEF FreeRead, TypeOK
<1>2. CASE FreePublish(f)
  BY <1>0, <1>2, PublishType DEF FreePublish, TypeOK, FreeState, FreePC
<1>3. CASE FreeFails(f)
  BY <1>0, <1>3 DEF FreeFails, TypeOK, FreeState, FreePC
<1>4. CASE FreeUpdate(f)
  <2>1. Cleared(old) \in MachineRow
    BY <1>0 DEF MachineRow, Cleared
  <2>2. machines' \in [Machines -> MachineRow]
    BY <1>0, <1>4, <2>1, ReplacedType DEF FreeUpdate, TypeOK
  <2> QED
    BY <1>4, <2>2 DEF FreeUpdate, TypeOK, FreeState, FreePC
<1> QED
  BY <1>1, <1>2, <1>3, <1>4 DEF FreeStep

LEMMA DisassociateType ==
  ASSUME TypeOK, NEW p \in Calls, NEW A \in SUBSET IPs, NEW m, Disassociate(p, A, m)
  PROVE  ips' \in [IPs -> IPRow] /\ ipRelease' \in [Calls -> [IPs -> IPReleasePC]]
<1>1. ASSUME NEW a \in IPs
      PROVE  [ips[a] EXCEPT !.tags = @ \ {m}, !.changed = @ + 1] \in IPRow
  <2>1. ips[a] \in IPRow /\ ips[a].changed + 1 \in Nat /\ ips[a].tags \ {m} \in SUBSET Machines
    BY DEF TypeOK, IPRow
  <2> QED
    BY <2>1 DEF IPRow
<1>2. \A a \in IPs : ips[a] \in IPRow
  BY DEF TypeOK
<1>3. "queued" \in IPReleasePC
  BY DEF IPReleasePC
<1>4. \A a \in IPs : ipRelease[p][a] \in IPReleasePC
  BY DEF TypeOK
<1>5. ips' \in [IPs -> IPRow]
  BY <1>1, <1>2 DEF Disassociate
<1>6. ipRelease' \in [Calls -> [IPs -> IPReleasePC]]
  BY <1>3, <1>4 DEF Disassociate, TypeOK
<1> QED
  BY <1>5, <1>6

LEMMA ReleaseStepType ==
  ASSUME TypeOK, Shape, NEW p \in Calls, ReleaseStep(p)
  PROVE  TypeOK'
<1>0. release[p] \in ReleaseState
  BY DEF TypeOK
<1>1. CASE ReleaseStart(p)
  <2>1. AllocationOf(p) # None => alloc[AllocationOf(p)].ips \in SUBSET IPs
    <3>1. AllocationOf(p) \in Requests \cup {None}
      BY DEF AllocationOf, TypeOK, FreeState, MachineRow, Calls
    <3> QED
      BY <3>1 DEF TypeOK, Allocation
  <2>2. release' \in [Calls -> ReleaseState]
    BY <1>1, <2>1, ReleasePCs DEF ReleaseStart, TypeOK, ReleaseState
  <2> QED
    BY <1>1, <2>2 DEF ReleaseStart, TypeOK
<1>2. ASSUME NEW a \in IPs, ReleaseListed(p, a)
      PROVE  TypeOK'
  BY <1>2, DisassociateType DEF ReleaseListed, TypeOK, ReleaseState
<1>3. CASE ReleaseASN(p)
  <2>1. AllocationOf(p) \in Requests
    BY <1>3 DEF AllocationOf, TypeOK, FreeState, MachineRow, Calls, Shape, ReleaseASN
  <2>2. pool' \in SUBSET ASNs
    BY <1>3, <2>1 DEF ReleaseASN, ReturnedASNs, TypeOK, Allocation
  <2> QED
    BY <1>3, <2>2, ReleasePCs DEF ReleaseASN, TypeOK, ReleaseState
<1>4. CASE ReleaseDangling(p)
  BY <1>4, DisassociateType, ReleasePCs DEF ReleaseDangling, TypeOK, ReleaseState
<1> QED
  BY <1>1, <1>2, <1>3, <1>4 DEF ReleaseStep

LEMMA IPReleaseStepType ==
  ASSUME TypeOK, NEW p \in Calls, NEW a \in IPs, IPReleaseStep(p, a)
  PROVE  TypeOK'
<1>1. CASE ReleaseIPFind(p, a)
  BY <1>1 DEF ReleaseIPFind, TypeOK, IPReleasePC
<1>2. CASE ReleaseIPDelete(p, a)
  <2> DEFINE stamp == ips[a].changed + 1
  <2>1. stamp \in Nat
    BY DEF TypeOK, IPRow
  <2>2. ips' = [ips EXCEPT ![a] = [exists |-> FALSE, tags |-> {}, changed |-> stamp]]
    BY <1>2 DEF ReleaseIPDelete
  <2> HIDE DEF stamp
  <2>3. ips' \in [IPs -> IPRow]
    BY <2>1, <2>2 DEF TypeOK, IPRow
  <2> QED
    BY <1>2, <2>3 DEF ReleaseIPDelete, TypeOK, IPReleasePC
<1>3. CASE ReleaseIPInIPAM(p, a)
  BY <1>3 DEF ReleaseIPInIPAM, TypeOK, IPReleasePC
<1> QED
  BY <1>1, <1>2, <1>3 DEF IPReleaseStep

LEMMA EnvironmentType ==
  ASSUME TypeOK, Shape,
         \/ \E m \in Machines, mode \in Modes : OtherWrite(m, mode)
         \/ \E p \in Calls : RedeliverRelease(p) \/ CutShort(p)
         \/ \E p \in Calls, a \in IPs : RedeliverIPRelease(p, a)
  PROVE  TypeOK'
<1>1. ASSUME NEW m \in Machines, NEW mode \in Modes, OtherWrite(m, mode)
      PROVE  TypeOK'
  <2>1. machines[m] \in MachineRow /\ [machines[m] EXCEPT !.mode = mode] \in MachineRow
    BY DEF TypeOK, MachineRow
  <2>2. machines' \in [Machines -> MachineRow]
    BY <1>1, <2>1, ReplacedType DEF OtherWrite
  <2> QED
    BY <1>1, <2>2 DEF OtherWrite, TypeOK
<1>2. ASSUME NEW p \in Calls, RedeliverRelease(p)
      PROVE  TypeOK'
  <2>1. release' \in [Calls -> ReleaseState]
    BY <1>2, ReleasePCs DEF RedeliverRelease, Queue, TypeOK, ReleaseState
  <2>2. events' \in [writes: Nat, interruptions: Nat, redeliveries: Nat]
    BY <1>2 DEF RedeliverRelease, TypeOK
  <2> QED
    BY <1>2, <2>1, <2>2 DEF RedeliverRelease, TypeOK
<1>3. ASSUME NEW p \in Calls, CutShort(p)
      PROVE  TypeOK'
  <2>1. UNCHANGED <<machines, ips, ipam, pool, alloc, release, ipRelease>>
    BY <1>3 DEF CutShort, DatastoreFails, Crash
  <2>2. events' \in [writes: Nat, interruptions: Nat, redeliveries: Nat]
    BY <1>3, InterruptedType DEF CutShort
  <2>3. call' \in [Requests -> CallState]
    <3>1. \/ UNCHANGED call
          \/ p \in Requests /\ (To(p, "failed") \/ To(p, "rollback") \/ To(p, "crashed"))
      BY <1>3 DEF CutShort, DatastoreFails, Crash
    <3>2. "failed" \in CallPC /\ "rollback" \in CallPC /\ "crashed" \in CallPC
      BY CallPCs
    <3>3. ASSUME p \in Requests, NEW pc \in CallPC, To(p, pc)
          PROVE  call' \in [Requests -> CallState]
      BY <3>3, ToType
    <3>4. UNCHANGED call => call' \in [Requests -> CallState]
      BY DEF TypeOK
    <3> QED
      BY <3>1, <3>2, <3>3, <3>4
  <2>4. free' \in [Frees -> FreeState]
    <3>1. \/ UNCHANGED free
          \/ /\ p \in Frees
             /\ \/ free' = [free EXCEPT ![p].pc = "failed"]
                \/ free' = [free EXCEPT ![p].pc = "crashed"]
      BY <1>3 DEF CutShort, DatastoreFails, Crash
    <3> QED
      BY <3>1 DEF TypeOK, FreeState, FreePC
  <2> QED
    BY <2>1, <2>2, <2>3, <2>4 DEF TypeOK
<1>4. ASSUME NEW p \in Calls, NEW a \in IPs, RedeliverIPRelease(p, a)
      PROVE  TypeOK'
  BY <1>4 DEF RedeliverIPRelease, TypeOK, IPReleasePC
<1> QED
  BY <1>1, <1>2, <1>3, <1>4

LEMMA NextTypeOK == TypeOK /\ Shape /\ [Next]_vars => TypeOK'
<1> SUFFICES ASSUME TypeOK, Shape, [Next]_vars PROVE TypeOK'
  OBVIOUS
<1>1. CASE UNCHANGED vars
  BY <1>1 DEF vars, TypeOK
<1>2. CASE Next
  BY <1>1, <1>2, AllocateStepType, FreeStepType, ReleaseStepType, IPReleaseStepType,
     EnvironmentType DEF Next, Quiescent
<1> QED
  BY <1>1, <1>2

-----------------------------------------------------------------------------
(* Shape: what the later steps of a call rely on.                          *)

\* The shape of one request, of one free and of one machine.
RequestShape(r) ==
    /\ call[r].pc \in Working \cup {"preallocate", "done"}
          => call[r].candidate.id \in Machines
    /\ call[r].pc \in {"create", "tag"} => call[r].ip \in IPs
    /\ call[r].pc \in Working \cup {"preallocate"} => call[r].candidate.allocation = None
    /\ call[r].pc = "commit" => /\ call[r].seen.id = call[r].candidate.id
                                /\ call[r].seen.allocation = None

FreeShape(f) ==
    /\ free[f].pc # "start" => free[f].seen.id \in Machines
    /\ release[f].pc # "none" => free[f].pc # "start"
    /\ release[f].pc \in {"listed", "dangling"} => free[f].seen.allocation # None

LEMMA ShapeParts ==
    Shape <=> /\ \A m \in Machines : machines[m].id = m
              /\ \A r \in Requests : RequestShape(r)
              /\ \A f \in Frees : FreeShape(f)
BY DEF Shape, RequestShape, FreeShape

\* A step of allocateMachine touches no other call, and the machine table only where it
\* marks, commits or resets.
LEMMA AllocateFrame ==
  ASSUME TypeOK, NEW r \in Requests, AllocateStep(r)
  PROVE  /\ UNCHANGED free
         /\ UNCHANGED release \/ RollbackPublish(r)
         /\ UNCHANGED machines \/ PreAllocate(r) \/ CommitAllocation(r) \/ RollbackReset(r)
         /\ \A q \in Requests \ {r} : call'[q] = call[q]
BY DEF TypeOK, AllocateStep, NamedCandidate, WaitingCandidate, NoCandidate, PreAllocate,
       GatherGiven, GatherAuto, AllocateRandomIP, CreateIP, AddMachineId, AcquireASN, StepFails,
       RefetchMachine, CommitAllocation, RollbackPublish, RollbackReset, To

\* The handlers of the bus touch neither machine rows nor calls.
LEMMA BusFrame ==
  ASSUME NEW p \in Calls,
         \/ ReleaseStep(p) \/ RedeliverRelease(p)
         \/ \E a \in IPs : IPReleaseStep(p, a) \/ RedeliverIPRelease(p, a)
  PROVE  UNCHANGED <<machines, call, free>>
BY DEF ReleaseStep, ReleaseStart, ReleaseListed, ReleaseASN, ReleaseDangling, RedeliverRelease,
       IPReleaseStep, ReleaseIPFind, ReleaseIPDelete, ReleaseIPInIPAM, RedeliverIPRelease

\* A step of freeMachine touches no request and no other free.
LEMMA FreeFrame ==
  ASSUME TypeOK, NEW f \in Frees, FreeStep(f) \/ \E m \in Machines : FreeRead(f, m)
  PROVE  /\ UNCHANGED call
         /\ UNCHANGED machines \/ FreeUpdate(f)
         /\ \A g \in Frees \ {f} : free'[g] = free[g]
BY DEF TypeOK, FreeStep, FreeRead, FreePublish, FreeFails, FreeUpdate

\* A call cut short keeps its copies, touches no other call, and ends or rolls back.
LEMMA CutShortFrame ==
  ASSUME TypeOK, NEW p \in Calls, CutShort(p)
  PROVE  /\ UNCHANGED <<machines, release>>
         /\ \A r \in Requests :
              \/ call'[r] = call[r]
              \/ /\ call[r].pc \notin {"start", "done"}
                 /\ \/ call'[r] = [call[r] EXCEPT !.pc = "failed"]
                    \/ call'[r] = [call[r] EXCEPT !.pc = "crashed"]
                    \/ /\ call'[r] = [call[r] EXCEPT !.pc = "rollback"]
                       /\ call[r].pc \in {"create", "commit"}
         /\ \A f \in Frees :
              \/ free'[f] = free[f]
              \/ /\ free[f].pc \notin {"start", "done"}
                 /\ \/ free'[f] = [free[f] EXCEPT !.pc = "failed"]
                    \/ free'[f] = [free[f] EXCEPT !.pc = "crashed"]
<1>1. call \in [Requests -> CallState] /\ free \in [Frees -> FreeState]
  BY DEF TypeOK
<1>2. CASE Crash(p)
  BY <1>1, <1>2 DEF Crash, To
<1>3. CASE DatastoreFails(p)
  BY <1>1, <1>3 DEF DatastoreFails, To
<1> QED
  BY <1>2, <1>3 DEF CutShort

LEMMA AllocateStepShape ==
  ASSUME TypeOK, Shape, NEW r \in Requests, AllocateStep(r)
  PROVE  Shape'
<1> DEFINE old == call[r].candidate
<1>0. /\ call \in [Requests -> CallState] /\ free \in [Frees -> FreeState]
      /\ machines \in [Machines -> MachineRow] /\ release \in [Calls -> ReleaseState]
  BY DEF TypeOK
<1>1. ASSUME NEW f \in Frees PROVE FreeShape(f)'
  <2>1. r # f /\ FreeShape(f)
    BY ShapeParts, ConstantsAssumption
  <2>2. UNCHANGED free /\ (UNCHANGED release \/ RollbackPublish(r))
    BY AllocateFrame
  <2> QED
    BY <1>0, <2>1, <2>2 DEF FreeShape, RollbackPublish, Publish, Queue, Calls
<1>2. ASSUME NEW m \in Machines PROVE machines'[m].id = m
  <2>1. machines[m].id = m
    BY DEF Shape
  <2>2. UNCHANGED machines \/ PreAllocate(r) \/ CommitAllocation(r) \/ RollbackReset(r)
    BY AllocateFrame
  <2>3. CASE PreAllocate(r)
    BY <1>0, <2>1, <2>3 DEF PreAllocate, Replaced, CallState, MachineRow
  <2>4. CASE CommitAllocation(r)
    BY <1>0, <2>1, <2>4 DEF CommitAllocation, Replaced, CallState, MachineRow
  <2>5. CASE RollbackReset(r)
    BY <1>0, <2>1, <2>5 DEF RollbackReset, Replaced, Cleared, CallState, MachineRow
  <2> QED
    BY <2>1, <2>2, <2>3, <2>4, <2>5
<1>3. RequestShape(r)'
  <2>0. call[r] \in CallState /\ RequestShape(r)
    BY <1>0, ShapeParts
  <2>1. ASSUME NEW m \in Machines, NamedCandidate(r, m) \/ WaitingCandidate(r, m)
        PROVE  RequestShape(r)'
    <3>1. machines[m].id = m
      BY DEF Shape
    <3> QED
      BY <1>0, <2>0, <2>1, <3>1
         DEF RequestShape, NamedCandidate, WaitingCandidate, Electable, Working, CallState
  <2>2. CASE NoCandidate(r) \/ GatherAuto(r) \/ StepFails(r)
    BY <1>0, <2>0, <2>2
       DEF RequestShape, NoCandidate, GatherAuto, StepFails, To, Working, CallState
  <2>3. CASE PreAllocate(r)
    BY <1>0, <2>0, <2>3 DEF RequestShape, PreAllocate, To, Working, CallState, MachineRow
  <2>4. ASSUME NEW a \in GivenIPs, GatherGiven(r, a)
        PROVE  RequestShape(r)'
    BY <1>0, <2>0, <2>4, ConstantsAssumption DEF RequestShape, GatherGiven, Working, CallState
  <2>5. ASSUME NEW a \in IPs, AllocateRandomIP(r, a)
        PROVE  RequestShape(r)'
    BY <1>0, <2>0, <2>5 DEF RequestShape, AllocateRandomIP, Working, CallState
  <2>6. CASE CreateIP(r)
    BY <1>0, <2>0, <2>6 DEF RequestShape, CreateIP, To, Working, CallState
  <2>7. CASE AddMachineId(r)
    BY <1>0, <2>0, <2>7 DEF RequestShape, AddMachineId, To, Working, CallState
  <2>8. ASSUME NEW n \in ASNs, AcquireASN(r, n)
        PROVE  RequestShape(r)'
    BY <1>0, <2>0, <2>8 DEF RequestShape, AcquireASN, To, Working, CallState
  <2>9. CASE RefetchMachine(r)
    <3>1. machines[old.id].id = old.id
      BY <2>0, <2>9 DEF Shape, RequestShape, RefetchMachine, Working
    <3> QED
      BY <1>0, <2>0, <2>9, <3>1 DEF RequestShape, RefetchMachine, Working, CallState
  <2>10. CASE CommitAllocation(r)
    BY <1>0, <2>0, <2>10 DEF RequestShape, CommitAllocation, To, Working, CallState
  <2>11. CASE RollbackPublish(r)
    BY <1>0, <2>0, <2>11 DEF RequestShape, RollbackPublish, To, Working, CallState
  <2>12. CASE RollbackReset(r)
    BY <1>0, <2>0, <2>12 DEF RequestShape, RollbackReset, To, Working, CallState
  <2> QED
    BY <2>1, <2>2, <2>3, <2>4, <2>5, <2>6, <2>7, <2>8, <2>9, <2>10, <2>11, <2>12
       DEF AllocateStep
<1>4. ASSUME NEW q \in Requests \ {r} PROVE RequestShape(q)'
  <2>1. call'[q] = call[q] /\ RequestShape(q)
    BY ShapeParts, AllocateFrame
  <2> QED
    BY <2>1 DEF RequestShape
<1> QED
  BY <1>1, <1>2, <1>3, <1>4 DEF Shape, RequestShape, FreeShape

LEMMA FreeStepShape ==
  ASSUME TypeOK, Shape, NEW f \in Frees, FreeStep(f) \/ \E m \in Machines : FreeRead(f, m)
  PROVE  Shape'
<1>0. /\ free \in [Frees -> FreeState] /\ machines \in [Machines -> MachineRow]
      /\ release \in [Calls -> ReleaseState] /\ f \in Calls
      /\ \A g \in Frees : FreeShape(g)
  BY ShapeParts DEF TypeOK, Calls
<1>1. UNCHANGED call
  BY DEF FreeStep, FreeRead, FreePublish, FreeFails, FreeUpdate
<1>2. ASSUME NEW m \in Machines PROVE machines'[m].id = m
  <2>1. UNCHANGED machines \/ FreeUpdate(f)
    BY DEF FreeStep, FreeRead, FreePublish, FreeFails
  <2>2. machines[m].id = m
    BY DEF Shape
  <2>3. CASE FreeUpdate(f)
    <3> DEFINE old == free[f].seen
               row == [Cleared(old) EXCEPT !.changed = old.changed + 1]
    <3>1. old \in MachineRow
      BY <1>0 DEF FreeState
    <3>2. row.id = old.id
      BY <3>1 DEF Cleared, MachineRow
    <3>3. UNCHANGED machines \/ machines' = [machines EXCEPT ![old.id] = row]
      BY <2>3 DEF FreeUpdate, Replaced
    <3> HIDE DEF row
    <3> QED
      BY <1>0, <2>2, <3>2, <3>3
  <2> QED
    BY <2>1, <2>2, <2>3
<1>3. ASSUME NEW g \in Frees PROVE FreeShape(g)'
  <2>1. ASSUME NEW m \in Machines, FreeRead(f, m) PROVE FreeShape(g)'
    <3>1. machines[m].id = m
      BY DEF Shape
    <3> DEFINE pc == IF machines[m].mode = "locked" THEN "failed" ELSE "publish"
    <3>2. /\ free' = [free EXCEPT ![f].seen = machines[m], ![f].pc = pc]
          /\ free[f].pc = "start" /\ UNCHANGED release /\ pc # "start"
      BY <2>1 DEF FreeRead
    <3> HIDE DEF pc
    <3> QED
      BY <1>0, <3>1, <3>2 DEF FreeShape, FreeState
  <2>2. CASE FreePublish(f)
    BY <1>0, <2>2 DEF FreePublish, Publish, Queue, FreeShape, FreeState, ReleaseState, Calls
  <2>3. CASE FreeUpdate(f)
    BY <1>0, <2>3 DEF FreeUpdate, FreeShape, FreeState
  <2>4. CASE FreeFails(f)
    BY <1>0, <2>4 DEF FreeFails, FreeShape, FreeState
  <2> QED
    BY <2>1, <2>2, <2>3, <2>4 DEF FreeStep
<1> QED
  BY <1>1, <1>2, <1>3 DEF Shape, FreeShape

LEMMA ReleaseStepShape ==
  ASSUME TypeOK, Shape, NEW p \in Calls, ReleaseStep(p) \/ RedeliverRelease(p)
  PROVE  Shape'
<1>0. /\ release \in [Calls -> ReleaseState] /\ Frees \subseteq Calls
      /\ \A f \in Frees : FreeShape(f)
  BY ShapeParts DEF TypeOK, Calls
<1>1. UNCHANGED <<machines, call, free>>
  BY DEF ReleaseStep, ReleaseStart, ReleaseListed, ReleaseASN, ReleaseDangling, RedeliverRelease
<1>2. ASSUME NEW f \in Frees PROVE FreeShape(f)'
  <2>1. CASE ReleaseStart(p)
    <3>1. p = f => AllocationOf(p) = free[f].seen.allocation
      BY ConstantsAssumption DEF AllocationOf
    <3> QED
      BY <1>0, <1>1, <2>1, <3>1 DEF ReleaseStart, FreeShape, ReleaseState
  <2>2. ASSUME NEW a \in IPs, ReleaseListed(p, a) PROVE FreeShape(f)'
    BY <1>0, <1>1, <2>2 DEF ReleaseListed, FreeShape, ReleaseState
  <2>3. CASE ReleaseASN(p)
    BY <1>0, <1>1, <2>3 DEF ReleaseASN, FreeShape, ReleaseState
  <2>4. CASE ReleaseDangling(p)
    BY <1>0, <1>1, <2>4 DEF ReleaseDangling, FreeShape, ReleaseState
  <2>5. CASE RedeliverRelease(p)
    BY <1>0, <1>1, <2>5 DEF RedeliverRelease, Again, Queue, FreeShape, ReleaseState
  <2> QED
    BY <2>1, <2>2, <2>3, <2>4, <2>5 DEF ReleaseStep
<1> QED
  BY <1>1, <1>2 DEF Shape, FreeShape

LEMMA NextShape == TypeOK /\ Shape /\ [Next]_vars => Shape'
<1> SUFFICES ASSUME TypeOK, Shape, [Next]_vars PROVE Shape'
  OBVIOUS
<1>1. CASE UNCHANGED vars
  BY <1>1 DEF vars, Shape
<1>2. ASSUME NEW p \in Calls, NEW a \in IPs, IPReleaseStep(p, a) \/ RedeliverIPRelease(p, a)
      PROVE  Shape'
  BY <1>2 DEF IPReleaseStep, ReleaseIPFind, ReleaseIPDelete, ReleaseIPInIPAM,
              RedeliverIPRelease, Shape
<1>3. ASSUME NEW p \in Calls, CutShort(p)
      PROVE  Shape'
  <2>1. UNCHANGED <<machines, release>>
    BY <1>3, CutShortFrame
  <2>2. ASSUME NEW r \in Requests PROVE RequestShape(r)'
    <3>1. RequestShape(r) /\ call[r] \in CallState
      BY ShapeParts DEF TypeOK
    <3> QED
      BY <1>3, <3>1, CutShortFrame DEF RequestShape, Working, CallState
  <2>3. ASSUME NEW f \in Frees PROVE FreeShape(f)'
    <3>1. FreeShape(f) /\ free[f] \in FreeState
      BY ShapeParts DEF TypeOK
    <3> QED
      BY <1>3, <2>1, <3>1, CutShortFrame DEF FreeShape, FreeState
  <2> QED
    BY <2>1, <2>2, <2>3 DEF Shape, RequestShape, FreeShape
<1>4. ASSUME NEW m \in Machines, NEW mode \in Modes, OtherWrite(m, mode)
      PROVE  Shape'
  BY <1>4 DEF OtherWrite, Replaced, Shape, TypeOK, MachineRow
<1> QED
  BY <1>1, <1>2, <1>3, <1>4, AllocateStepShape, FreeStepShape, ReleaseStepShape
     DEF Next, Quiescent

-----------------------------------------------------------------------------
(* Snapshots: stamps tell a stale copy of a row from a fresh one.          *)

\* A step leaves a machine row alone or raises its stamp.
LEMMA StampsGrow ==
  ASSUME TypeOK, Shape, [Next]_vars, NEW m \in Machines
  PROVE  machines'[m] = machines[m] \/ machines'[m].changed = machines[m].changed + 1
<1> DEFINE Grown == \A n \in Machines : machines'[n] = machines[n]
                                      \/ machines'[n].changed = machines[n].changed + 1
<1>1. ASSUME NEW old \in MachineRow, NEW new \in MachineRow, Current(old),
             machines' = Replaced(old, new)
      PROVE  Grown
  <2> DEFINE row == [new EXCEPT !.changed = old.changed + 1]
  <2>1. row.changed = old.changed + 1
    BY DEF MachineRow
  <2>2. machines' = [machines EXCEPT ![old.id] = row]
    BY <1>1 DEF Replaced
  <2>3. \A n \in Machines : n = old.id => machines[n].changed = old.changed
    BY <1>1 DEF Current
  <2> HIDE DEF row
  <2> QED
    BY <2>1, <2>2, <2>3 DEF TypeOK
<1>2. ASSUME NEW r \in Requests, AllocateStep(r)
      PROVE  Grown
  <2>0. call[r].candidate \in MachineRow /\ call[r].seen \in MachineRow
    BY DEF TypeOK, CallState
  <2>1. CASE PreAllocate(r)
    <3>1. [call[r].candidate EXCEPT !.preAllocated = TRUE] \in MachineRow
      BY <2>0 DEF MachineRow
    <3> QED
      BY <1>1, <2>0, <2>1, <3>1 DEF PreAllocate
  <2>2. CASE CommitAllocation(r)
    <3>1. [call[r].seen EXCEPT !.allocation = r, !.preAllocated = FALSE] \in MachineRow
      BY <2>0 DEF MachineRow
    <3> QED
      BY <1>1, <2>0, <2>2, <3>1 DEF CommitAllocation
  <2>3. CASE RollbackReset(r)
    <3>1. Cleared(call[r].candidate) \in MachineRow
      BY <2>0 DEF MachineRow, Cleared
    <3> QED
      BY <1>1, <2>0, <2>3, <3>1 DEF RollbackReset
  <2> QED
    BY <1>2, <2>1, <2>2, <2>3, AllocateFrame
<1>3. ASSUME NEW f \in Frees, FreeUpdate(f)
      PROVE  Grown
  <2>0. free[f].seen \in MachineRow
    BY DEF TypeOK, FreeState
  <2>1. Cleared(free[f].seen) \in MachineRow
    BY <2>0 DEF MachineRow, Cleared
  <2> QED
    BY <1>1, <1>3, <2>0, <2>1 DEF FreeUpdate
<1>4. ASSUME NEW n \in Machines, NEW mode \in Modes, OtherWrite(n, mode)
      PROVE  Grown
  <2>1. machines[n] \in MachineRow /\ [machines[n] EXCEPT !.mode = mode] \in MachineRow
    BY DEF TypeOK, MachineRow
  <2>2. Current(machines[n])
    BY DEF Current, Shape
  <2> QED
    BY <1>1, <1>4, <2>1, <2>2 DEF OtherWrite
<1>5. Next => UNCHANGED machines \/ Grown
  BY <1>2, <1>3, <1>4, BusFrame, FreeFrame, CutShortFrame DEF Next, Quiescent, vars
<1> QED
  BY <1>5 DEF vars

\* A snapshot survives every step.
LEMMA SnapshotKept ==
  ASSUME TypeOK, Shape, [Next]_vars, NEW old \in MachineRow, old.id \in Machines, Snapshot(old)
  PROVE  /\ old.changed <= machines'[old.id].changed
         /\ old.changed = machines'[old.id].changed => old = machines'[old.id]
<1>1. old.changed \in Nat /\ machines[old.id].changed \in Nat
  BY DEF TypeOK, MachineRow
<1>2. \/ machines'[old.id] = machines[old.id]
      \/ machines'[old.id].changed = machines[old.id].changed + 1
  BY StampsGrow
<1> QED
  BY <1>1, <1>2 DEF Snapshot

LEMMA NextSnapshots == TypeOK /\ Shape /\ Snapshots /\ [Next]_vars => Snapshots'
<1> SUFFICES ASSUME TypeOK, Shape, Snapshots, [Next]_vars PROVE Snapshots'
  OBVIOUS
<1>0. /\ call \in [Requests -> CallState] /\ free \in [Frees -> FreeState]
      /\ machines \in [Machines -> MachineRow]
  BY DEF TypeOK
<1> DEFINE Good(old) == /\ old.changed <= machines'[old.id].changed
                        /\ old.changed = machines'[old.id].changed => old = machines'[old.id]
           CallGood(r) ==
               /\ call'[r].pc \in Working \cup {"preallocate"} => Good(call'[r].candidate)
               /\ call'[r].pc = "commit" => Good(call'[r].seen)
           FreeGood(f) == free'[f].pc \in {"publish", "update"} => Good(free'[f].seen)
\* A row just read is a snapshot of itself.
<1>1. ASSUME NEW m \in Machines, UNCHANGED machines
      PROVE  Good(machines[m])
  BY <1>0, <1>1 DEF Shape, MachineRow
<1>2. ASSUME NEW r \in Requests, call'[r] = call[r]
      PROVE  CallGood(r)
  <2>1. /\ call[r].candidate \in MachineRow /\ call[r].seen \in MachineRow
        /\ call[r].pc \in Working \cup {"preallocate"} => call[r].candidate.id \in Machines
        /\ call[r].pc = "commit" => call[r].seen.id \in Machines
    BY <1>0 DEF Shape, CallState, Working
  <2> QED
    BY <1>2, <2>1, SnapshotKept DEF Snapshots
<1>3. ASSUME NEW f \in Frees, free'[f] = free[f]
      PROVE  FreeGood(f)
  <2>1. /\ free[f].seen \in MachineRow
        /\ free[f].pc \in {"publish", "update"} => free[f].seen.id \in Machines
    BY <1>0 DEF Shape, FreeState
  <2> QED
    BY <1>3, <2>1, SnapshotKept DEF Snapshots
\* Calls that only move keep their copies.
<1>4. ASSUME NEW r \in Requests, NEW pc \in CallPC, To(r, pc), pc # "commit",
             pc \in Working \cup {"preallocate"} => call[r].pc \in Working \cup {"preallocate"}
      PROVE  CallGood(r)
  <2>1. call'[r].candidate = call[r].candidate /\ call'[r].pc = pc
    BY <1>0, <1>4 DEF To, CallState
  <2>2. /\ call[r].candidate \in MachineRow
        /\ call[r].pc \in Working \cup {"preallocate"} => call[r].candidate.id \in Machines
    BY <1>0 DEF Shape, CallState
  <2> QED
    BY <1>4, <2>1, <2>2, SnapshotKept DEF Snapshots
<1>5. ASSUME NEW r \in Requests, AllocateStep(r)
      PROVE  CallGood(r)
  <2> DEFINE old == call[r].candidate
  <2>0. call[r] \in CallState /\ old \in MachineRow /\ old.changed \in Nat
    BY <1>0 DEF CallState, MachineRow
  <2>1. ASSUME NEW m \in Machines, NamedCandidate(r, m) \/ WaitingCandidate(r, m)
        PROVE  CallGood(r)
    <3>1. /\ call'[r].candidate = machines[m] /\ call'[r].pc # "commit"
          /\ UNCHANGED machines
      BY <1>0, <2>0, <2>1 DEF NamedCandidate, WaitingCandidate, CallState
    <3> QED
      BY <1>1, <3>1
  <2>2. CASE PreAllocate(r)
    <3>1. CASE Current(old)
      <4> DEFINE taken == [old EXCEPT !.preAllocated = TRUE]
                 new == [old EXCEPT !.preAllocated = TRUE, !.changed = old.changed + 1]
      <4>1. old.id \in Machines /\ new.id = old.id
        BY <2>0, <2>2 DEF Shape, PreAllocate, MachineRow
      <4>2. machines' = [machines EXCEPT ![old.id] = [taken EXCEPT !.changed = old.changed + 1]]
        BY <2>2, <3>1 DEF PreAllocate, Replaced
      <4>3. [taken EXCEPT !.changed = old.changed + 1] = new
        BY <2>0 DEF MachineRow
      <4>4. call' = [call EXCEPT ![r].candidate = new, ![r].pc = "gather"]
        BY <2>2, <3>1 DEF PreAllocate
      <4>5. new.changed = old.changed + 1
        BY <2>0 DEF MachineRow
      <4> HIDE DEF taken, new
      <4>6. machines'[old.id] = new /\ call'[r].candidate = new /\ call'[r].pc = "gather"
        BY <1>0, <4>1, <4>2, <4>3, <4>4 DEF CallState
      <4> QED
        BY <2>0, <4>1, <4>5, <4>6
    <3>2. CASE ~Current(old)
      BY <1>0, <2>2, <3>2 DEF PreAllocate, To, CallState, Working
    <3> QED
      BY <3>1, <3>2
  <2>3. ASSUME NEW a \in IPs, GatherGiven(r, a) \/ AllocateRandomIP(r, a)
        PROVE  CallGood(r)
    <3>1. /\ call'[r].candidate = old /\ call[r].pc \in Working /\ call'[r].pc # "commit"
      BY <1>0, <2>0, <2>3 DEF GatherGiven, AllocateRandomIP, Working, CallState
    <3> QED
      BY <2>0, <3>1, SnapshotKept DEF Snapshots, Shape
  <2>4. CASE CreateIP(r)
    <3>1. /\ call'[r].candidate = old /\ call[r].pc \in Working /\ call'[r].pc # "commit"
      BY <1>0, <2>0, <2>4 DEF CreateIP, To, Working, CallState
    <3> QED
      BY <2>0, <3>1, SnapshotKept DEF Snapshots, Shape
  <2>5. CASE RefetchMachine(r)
    <3>1. /\ call'[r].candidate = old /\ call'[r].seen = machines[old.id]
          /\ call[r].pc \in Working /\ UNCHANGED machines
      BY <1>0, <2>0, <2>5 DEF RefetchMachine, Working, CallState
    <3>2. old.id \in Machines
      BY <3>1 DEF Shape
    <3> QED
      BY <1>1, <2>0, <3>1, <3>2, SnapshotKept DEF Snapshots
  <2>6. CASE NoCandidate(r) \/ GatherAuto(r) \/ StepFails(r) \/ AddMachineId(r)
             \/ RollbackPublish(r) \/ RollbackReset(r) \/ CommitAllocation(r)
    BY <1>4, <2>6, CallPCs
       DEF NoCandidate, GatherAuto, StepFails, AddMachineId, RollbackPublish, RollbackReset,
           CommitAllocation, Working
  <2>7. ASSUME NEW n \in ASNs, AcquireASN(r, n)
        PROVE  CallGood(r)
    BY <1>4, <2>7, CallPCs DEF AcquireASN, Working
  <2> QED
    BY <1>5, <2>1, <2>2, <2>3, <2>4, <2>5, <2>6, <2>7, ConstantsAssumption DEF AllocateStep
<1>6. ASSUME NEW f \in Frees, FreeStep(f) \/ \E m \in Machines : FreeRead(f, m)
      PROVE  FreeGood(f)
  <2>1. ASSUME NEW m \in Machines, FreeRead(f, m) PROVE FreeGood(f)
    <3>1. free'[f].seen = machines[m] /\ UNCHANGED machines
      BY <1>0, <2>1 DEF FreeRead, FreeState
    <3> QED
      BY <1>1, <3>1
  <2>2. CASE FreePublish(f) \/ FreeFails(f) \/ FreeUpdate(f)
    <3>1. free'[f].seen = free[f].seen /\ free[f].pc \in {"publish", "update"}
      BY <1>0, <2>2 DEF FreePublish, FreeFails, FreeUpdate, FreeState
    <3>2. free[f].seen \in MachineRow /\ free[f].seen.id \in Machines
      BY <1>0, <3>1 DEF Shape, FreeState
    <3> QED
      BY <3>1, <3>2, SnapshotKept DEF Snapshots
  <2> QED
    BY <1>6, <2>1, <2>2 DEF FreeStep
<1>7. ASSUME NEW p \in Calls, CutShort(p)
      PROVE  /\ \A r \in Requests : CallGood(r)
             /\ \A f \in Frees : FreeGood(f)
  <2>1. ASSUME NEW r \in Requests, call'[r] # call[r]
        PROVE  CallGood(r)
    <3>1. /\ call[r] \in CallState /\ call[r].candidate \in MachineRow
      BY <1>0 DEF CallState
    <3>2. CASE call'[r] = [call[r] EXCEPT !.pc = "rollback"] /\ call[r].pc \in {"create", "commit"}
      <4>1. /\ call'[r].candidate = call[r].candidate /\ call'[r].pc = "rollback"
            /\ call[r].pc \in Working
        BY <3>1, <3>2 DEF CallState, Working
      <4> QED
        BY <3>1, <4>1, SnapshotKept DEF Snapshots, Shape
    <3>3. CASE \/ call'[r] = [call[r] EXCEPT !.pc = "failed"]
               \/ call'[r] = [call[r] EXCEPT !.pc = "crashed"]
      BY <3>1, <3>3 DEF CallState, Working
    <3> QED
      BY <1>7, <2>1, <3>2, <3>3, CutShortFrame
  <2>2. ASSUME NEW f \in Frees, free'[f] # free[f]
        PROVE  FreeGood(f)
    <3>1. free[f] \in FreeState
      BY <1>0
    <3> QED
      BY <1>7, <2>2, <3>1, CutShortFrame DEF FreeState
  <2> QED
    BY <1>2, <1>3, <2>1, <2>2
<1>8. \A r \in Requests : CallGood(r)
  <2>1. SUFFICES ASSUME NEW r \in Requests PROVE CallGood(r)
    OBVIOUS
  <2>2. CASE AllocateStep(r)
    BY <1>5, <2>2
  <2>3. CASE call'[r] = call[r]
    BY <1>2, <2>3
  <2>4. CASE \E p \in Calls : CutShort(p)
    BY <1>7, <2>4
  <2>5. AllocateStep(r) \/ call'[r] = call[r] \/ \E p \in Calls : CutShort(p)
    <3>1. ASSUME NEW m \in Machines, NEW mode \in Modes, OtherWrite(m, mode)
          PROVE  UNCHANGED call
      BY <3>1 DEF OtherWrite
    <3> QED
      BY <3>1, AllocateFrame, BusFrame, FreeFrame DEF Next, Quiescent, vars
  <2> QED
    BY <2>2, <2>3, <2>4, <2>5
<1>9. \A f \in Frees : FreeGood(f)
  <2>1. SUFFICES ASSUME NEW f \in Frees PROVE FreeGood(f)
    OBVIOUS
  <2>2. CASE FreeStep(f) \/ \E m \in Machines : FreeRead(f, m)
    BY <1>6, <2>2
  <2>3. CASE free'[f] = free[f]
    BY <1>3, <2>3
  <2>4. CASE \E p \in Calls : CutShort(p)
    BY <1>7, <2>4
  <2>5. \/ FreeStep(f) \/ \E m \in Machines : FreeRead(f, m)
        \/ free'[f] = free[f] \/ \E p \in Calls : CutShort(p)
    <3>1. ASSUME NEW m \in Machines, NEW mode \in Modes, OtherWrite(m, mode)
          PROVE  UNCHANGED free
      BY <3>1 DEF OtherWrite
    <3> QED
      BY <3>1, AllocateFrame, BusFrame, FreeFrame DEF Next, Quiescent, vars
  <2> QED
    BY <2>2, <2>3, <2>4, <2>5
<1> QED
  BY <1>8, <1>9 DEF Snapshots, Snapshot

-----------------------------------------------------------------------------
(* SuccessStays: an allocation leaves its machine only through freeMachine.  *)

\* What a successful update of a row does to the allocations in the table, when the copy
\* it started from was a snapshot: it replaces the very row that was read.
LEMMA ReplacedAllocation ==
  ASSUME TypeOK, NEW old \in MachineRow, NEW new \in MachineRow, Current(old), Snapshot(old),
         machines' = Replaced(old, new), NEW m \in Machines
  PROVE  \/ m # old.id /\ machines'[m] = machines[m]
         \/ /\ m = old.id /\ old = machines[m]
            /\ machines'[m].allocation = new.allocation
<1> DEFINE row == [new EXCEPT !.changed = old.changed + 1]
<1>1. machines' = [machines EXCEPT ![old.id] = row] /\ row.allocation = new.allocation
  BY DEF Replaced, MachineRow
<1>2. m = old.id => old = machines[m]
  BY DEF Current, Snapshot
<1> HIDE DEF row
<1> QED
  BY <1>1, <1>2 DEF TypeOK

\* The allocation of a machine changes only when a commit succeeds, on a row that was read
\* without one, or an update of freeMachine does, on the row that call read.
LEMMA AllocationKept ==
  ASSUME TypeOK, Shape, Snapshots, [Next]_vars, NEW m \in Machines
  PROVE  \/ machines'[m].allocation = machines[m].allocation
         \/ \E f \in Frees : /\ FreeUpdate(f) /\ Current(free[f].seen)
                             /\ free[f].seen = machines[m]
         \/ \E r \in Requests : /\ CommitAllocation(r) /\ Current(call[r].seen)
                                /\ call[r].seen = machines[m]
<1> DEFINE Kept == machines'[m].allocation = machines[m].allocation
<1>1. ASSUME NEW r \in Requests, AllocateStep(r)
      PROVE  \/ Kept
             \/ CommitAllocation(r) /\ Current(call[r].seen) /\ call[r].seen = machines[m]
  <2> DEFINE old == call[r].candidate
             seen == call[r].seen
  <2>0. old \in MachineRow /\ seen \in MachineRow
    BY DEF TypeOK, CallState
  <2>1. CASE PreAllocate(r)
    <3> DEFINE new == [old EXCEPT !.preAllocated = TRUE]
    <3>1. new \in MachineRow /\ new.allocation = old.allocation
      BY <2>0 DEF MachineRow
    <3>2. Snapshot(old)
      BY <2>1 DEF PreAllocate, Snapshots
    <3>3. UNCHANGED machines \/ (Current(old) /\ machines' = Replaced(old, new))
      BY <2>1 DEF PreAllocate
    <3> HIDE DEF new
    <3> QED
      BY <2>0, <3>1, <3>2, <3>3, ReplacedAllocation
  <2>2. CASE CommitAllocation(r)
    <3> DEFINE new == [seen EXCEPT !.allocation = r, !.preAllocated = FALSE]
    <3>1. new \in MachineRow
      BY <2>0 DEF MachineRow
    <3>2. Snapshot(seen)
      BY <2>2 DEF CommitAllocation, Snapshots
    <3>3. UNCHANGED machines \/ (Current(seen) /\ machines' = Replaced(seen, new))
      BY <2>2 DEF CommitAllocation
    <3> HIDE DEF new
    <3> QED
      BY <2>0, <2>2, <3>1, <3>2, <3>3, ReplacedAllocation
  <2>3. CASE RollbackReset(r)
    <3>1. Cleared(old) \in MachineRow /\ Cleared(old).allocation = None
      BY <2>0 DEF MachineRow, Cleared
    <3>2. old.allocation = None /\ Snapshot(old)
      BY <2>3 DEF RollbackReset, Shape, Snapshots, Working
    <3>3. UNCHANGED machines \/ (Current(old) /\ machines' = Replaced(old, Cleared(old)))
      BY <2>3 DEF RollbackReset
    <3> QED
      BY <2>0, <3>1, <3>2, <3>3, ReplacedAllocation
  <2> QED
    BY <1>1, <2>1, <2>2, <2>3, AllocateFrame
<1>2. ASSUME NEW f \in Frees, FreeUpdate(f)
      PROVE  Kept \/ (Current(free[f].seen) /\ free[f].seen = machines[m])
  <2>1. free[f].seen \in MachineRow /\ Cleared(free[f].seen) \in MachineRow
    BY DEF TypeOK, FreeState, Cleared, MachineRow
  <2>2. Snapshot(free[f].seen)
    BY <1>2 DEF FreeUpdate, Snapshots
  <2> QED
    BY <1>2, <2>1, <2>2, ReplacedAllocation DEF FreeUpdate
<1>3. ASSUME NEW n \in Machines, NEW mode \in Modes, OtherWrite(n, mode)
      PROVE  Kept
  BY <1>3 DEF OtherWrite, Replaced, Shape, TypeOK, MachineRow
<1> QED
  BY <1>1, <1>2, <1>3, BusFrame, FreeFrame, CutShortFrame DEF Next, Quiescent, vars

\* A call of allocateMachine ends well only by its commit, and stays so.
LEMMA DoneFrame ==
  ASSUME TypeOK, [Next]_vars, NEW r \in Requests, call'[r].pc = "done"
  PROVE  call'[r] = call[r] \/ (CommitAllocation(r) /\ Current(call[r].seen))
<1>0. call \in [Requests -> CallState]
  BY DEF TypeOK
<1>1. ASSUME AllocateStep(r)
      PROVE  CommitAllocation(r) /\ Current(call[r].seen)
  <2>0. call[r] \in CallState
    BY <1>0
  <2>1. ASSUME NEW m \in Machines
        PROVE  ~(NamedCandidate(r, m) \/ WaitingCandidate(r, m))
    BY <1>0, <2>0 DEF NamedCandidate, WaitingCandidate, CallState
  <2>2. ~(NoCandidate(r) \/ GatherAuto(r) \/ StepFails(r) \/ RollbackPublish(r) \/ RollbackReset(r))
    BY <1>0, <2>0
       DEF NoCandidate, GatherAuto, StepFails, RollbackPublish, RollbackReset, To, CallState
  <2>3. ~PreAllocate(r)
    BY <1>0, <2>0 DEF PreAllocate, To, CallState
  <2>4. ASSUME NEW a \in IPs
        PROVE  ~(GatherGiven(r, a) \/ AllocateRandomIP(r, a))
    BY <1>0, <2>0 DEF GatherGiven, AllocateRandomIP, CallState
  <2>5. ~CreateIP(r) /\ ~AddMachineId(r) /\ ~RefetchMachine(r)
    BY <1>0, <2>0 DEF CreateIP, AddMachineId, RefetchMachine, To, CallState
  <2>6. ASSUME NEW n \in ASNs
        PROVE  ~AcquireASN(r, n)
    BY <1>0, <2>0 DEF AcquireASN, To, CallState
  <2>7. CommitAllocation(r)
    BY <1>1, <2>1, <2>2, <2>3, <2>4, <2>5, <2>6, ConstantsAssumption DEF AllocateStep
  <2> QED
    BY <1>0, <2>0, <2>7 DEF CommitAllocation, To, CallState
<1>2. ASSUME NEW p \in Calls, CutShort(p)
      PROVE  call'[r] = call[r]
  <2>1. call[r] \in CallState
    BY <1>0
  <2> QED
    BY <1>2, <2>1, CutShortFrame DEF CallState
<1>3. ASSUME NEW n \in Machines, NEW mode \in Modes, OtherWrite(n, mode)
      PROVE  UNCHANGED call
  BY <1>3 DEF OtherWrite
<1> QED
  BY <1>1, <1>2, <1>3, AllocateFrame, BusFrame, FreeFrame DEF Next, Quiescent, vars

\* A call of allocateMachine that ended well takes no further step.
LEMMA ServedStays ==
  ASSUME TypeOK, [Next]_vars, NEW r \in Requests, call[r].pc = "done"
  PROVE  call'[r] = call[r]
<1>0. call \in [Requests -> CallState]
  BY DEF TypeOK
<1>1. ~AllocateStep(r)
  BY DEF AllocateStep, NamedCandidate, WaitingCandidate, NoCandidate, PreAllocate,
         GatherGiven, GatherAuto, AllocateRandomIP, CreateIP, AddMachineId, AcquireASN,
         StepFails, RefetchMachine, CommitAllocation, RollbackPublish, RollbackReset
<1>2. ASSUME NEW p \in Calls, CutShort(p)
      PROVE  call'[r] = call[r]
  BY <1>2, CutShortFrame
<1>3. ASSUME NEW n \in Machines, NEW mode \in Modes, OtherWrite(n, mode)
      PROVE  UNCHANGED call
  BY <1>3 DEF OtherWrite
<1> QED
  BY <1>1, <1>2, <1>3, AllocateFrame, BusFrame, FreeFrame DEF Next, Quiescent, vars

\* A call of freeMachine that succeeded stays so.
LEMMA FreedStays ==
  ASSUME TypeOK, [Next]_vars, NEW f \in Frees, free[f].pc = "done"
  PROVE  free'[f] = free[f]
<1>0. free \in [Frees -> FreeState]
  BY DEF TypeOK
<1>1. ~FreeStep(f) /\ ~\E m \in Machines : FreeRead(f, m)
  BY DEF FreeStep, FreeRead, FreePublish, FreeFails, FreeUpdate
<1>2. ASSUME NEW p \in Calls, CutShort(p)
      PROVE  free'[f] = free[f]
  BY <1>2, CutShortFrame
<1>3. ASSUME NEW n \in Machines, NEW mode \in Modes, OtherWrite(n, mode)
      PROVE  UNCHANGED free
  BY <1>3 DEF OtherWrite
<1> QED
  BY <1>1, <1>2, <1>3, AllocateFrame, BusFrame, FreeFrame DEF Next, Quiescent, vars

LEMMA NextSuccessStays ==
  TypeOK /\ Shape /\ Snapshots /\ SuccessStays /\ [Next]_vars => SuccessStays'
<1> DEFINE Freed(r) == \E f \in Frees : free[f].pc = "done" /\ free[f].seen.allocation = r
           FreedAfter(r) == \E f \in Frees : free'[f].pc = "done" /\ free'[f].seen.allocation = r
<1> SUFFICES ASSUME TypeOK, Shape, Snapshots, SuccessStays, [Next]_vars,
                    NEW r \in Requests, call'[r].pc = "done"
             PROVE  machines'[call'[r].candidate.id].allocation = r \/ FreedAfter(r)
  BY DEF SuccessStays
<1> DEFINE m == call[r].candidate.id
<1>0. /\ call[r] \in CallState /\ free \in [Frees -> FreeState]
      /\ machines \in [Machines -> MachineRow] /\ r # None
  BY ConstantsAssumption DEF TypeOK
<1>1. CASE CommitAllocation(r) /\ Current(call[r].seen)
  <2> DEFINE seen == call[r].seen
             new == [seen EXCEPT !.allocation = r, !.preAllocated = FALSE]
  <2>1. seen \in MachineRow /\ new \in MachineRow /\ new.allocation = r
    BY <1>0 DEF CallState, MachineRow
  <2>2. seen.id = m /\ m \in Machines /\ Snapshot(seen)
    BY <1>1 DEF CommitAllocation, Shape, Snapshots, Working
  <2>3. machines' = Replaced(seen, new) /\ call'[r].candidate.id = m
    BY <1>0, <1>1 DEF CommitAllocation, To, TypeOK, CallState
  <2> HIDE DEF new
  <2>4. machines'[m].allocation = r
    BY <1>1, <2>1, <2>2, <2>3, ReplacedAllocation
  <2> QED
    BY <2>3, <2>4
<1>2. CASE call'[r] = call[r]
  <2>1. m \in Machines
    BY <1>2 DEF Shape
  <2>2. CASE Freed(r)
    BY <2>2, FreedStays
  <2>3. CASE machines[m].allocation = r
    <3>1. CASE machines'[m].allocation = machines[m].allocation
      BY <1>2, <2>3, <3>1
    <3>2. ASSUME NEW f \in Frees, FreeUpdate(f), Current(free[f].seen),
                 free[f].seen = machines[m]
          PROVE  FreedAfter(r)
      <4>1. free'[f].pc = "done" /\ free'[f].seen = free[f].seen
        BY <1>0, <3>2 DEF FreeUpdate, FreeState
      <4> QED
        BY <2>3, <3>2, <4>1
    <3>3. ~\E q \in Requests : CommitAllocation(q) /\ call[q].seen = machines[m]
      BY <1>0, <2>3 DEF CommitAllocation, Shape
    <3> QED
      BY <1>0, <2>1, <3>1, <3>2, <3>3, AllocationKept
  <2> QED
    BY <1>2, <2>2, <2>3 DEF SuccessStays
<1> QED
  BY <1>1, <1>2, DoneFrame

-----------------------------------------------------------------------------
(* The theorems.                                                             *)

LEMMA InitAllocationInv == Init => AllocationInv
<1> SUFFICES ASSUME Init PROVE AllocationInv
  OBVIOUS
<1>1. \A m \in Machines : machines[m].id = m
  BY DEF Init, NoRow
<1>2. /\ \A r \in Requests : call[r].pc = "start"
      /\ \A f \in Frees : free[f].pc = "start" /\ release[f].pc = "none"
  BY DEF Init, Calls
<1>3. Shape /\ Snapshots /\ SuccessStays
  BY <1>1, <1>2 DEF Shape, Snapshots, SuccessStays, Working
<1> QED
  BY <1>3, InitTypeOK DEF AllocationInv

\* In every reachable state the copies of machine rows that calls carry to their updates
\* are told apart from the present rows by their stamps, and no allocation was lost.
THEOREM AllocationInvariant == Spec => []AllocationInv
<1>1. AllocationInv /\ [Next]_vars => AllocationInv'
  BY NextTypeOK, NextShape, NextSnapshots, NextSuccessStays DEF AllocationInv
<1> QED
  BY <1>1, InitAllocationInv, PTL DEF Spec

\* Every step is a grant, a return or no step of MachineLease.
LEMMA NextLease == AllocationInv /\ [Next]_vars => [Lease!Next]_(Lease!vars)
<1> DEFINE owner == [m \in Machines |-> machines[m].allocation]
           served == {r \in Requests : call[r].pc = "done"}
           ownerAfter == [m \in Machines |-> machines'[m].allocation]
           servedAfter == {r \in Requests : call'[r].pc = "done"}
<1> SUFFICES ASSUME TypeOK, Shape, Snapshots, [Next]_vars
             PROVE  \/ UNCHANGED <<machines, call>>
                    \/ ownerAfter = owner /\ servedAfter = served
                    \/ \E m \in Machines :
                         \/ /\ owner[m] # None /\ servedAfter = served
                            /\ ownerAfter = [owner EXCEPT ![m] = None]
                         \/ \E r \in Requests : /\ r \notin served /\ owner[m] = None
                                                 /\ ownerAfter = [owner EXCEPT ![m] = r]
                                                 /\ servedAfter = served \cup {r}
  BY DEF AllocationInv, Lease!Next, Lease!vars, Lease!Grant, Lease!Return
<1>0. /\ call \in [Requests -> CallState] /\ free \in [Frees -> FreeState]
      /\ machines \in [Machines -> MachineRow]
  BY DEF TypeOK
\* The requests served are the same unless a commit succeeds.
<1>1. ASSUME NEW q \in Requests, ~(CommitAllocation(q) /\ Current(call[q].seen))
      PROVE  q \in served <=> q \in servedAfter
  BY <1>1, DoneFrame, ServedStays
<1>2. ASSUME NEW r \in Requests, CommitAllocation(r), Current(call[r].seen)
      PROVE  \E m \in Machines : /\ r \notin served /\ owner[m] = None
                                 /\ ownerAfter = [owner EXCEPT ![m] = r]
                                 /\ servedAfter = served \cup {r}
  <2> DEFINE seen == call[r].seen
             m == seen.id
             new == [seen EXCEPT !.allocation = r, !.preAllocated = FALSE]
  <2>1. seen \in MachineRow /\ new \in MachineRow /\ new.allocation = r
    BY <1>0 DEF CallState, MachineRow
  <2>2. m \in Machines /\ Snapshot(seen) /\ seen.allocation = None
    BY <1>2 DEF CommitAllocation, Shape, Snapshots, Working
  <2>3. machines' = Replaced(seen, new)
    BY <1>2 DEF CommitAllocation
  <2> HIDE DEF new
  <2>4. owner[m] = None
    BY <1>2, <2>2 DEF Current, Snapshot
  <2>5. ASSUME NEW n \in Machines
        PROVE  machines'[n].allocation = IF n = m THEN r ELSE machines[n].allocation
    BY <1>2, <2>1, <2>2, <2>3, ReplacedAllocation
  <2>6. ownerAfter = [owner EXCEPT ![m] = r]
    BY <2>2, <2>5
  <2>7. r \notin served /\ r \in servedAfter
    BY <1>0, <1>2 DEF CommitAllocation, To, CallState
  <2>8. ASSUME NEW q \in Requests \ {r} PROVE q \in served <=> q \in servedAfter
    BY <1>0, <1>2 DEF CommitAllocation, To
  <2>9. servedAfter = served \cup {r}
    BY <2>7, <2>8
  <2> QED
    BY <2>2, <2>4, <2>6, <2>7, <2>9
<1>3. ASSUME NEW f \in Frees, FreeUpdate(f), Current(free[f].seen)
      PROVE  \E m \in Machines : /\ ownerAfter = [owner EXCEPT ![m] = None]
                                 /\ servedAfter = served
  <2> DEFINE seen == free[f].seen
             m == seen.id
  <2>1. seen \in MachineRow /\ Cleared(seen) \in MachineRow /\ Cleared(seen).allocation = None
    BY <1>0 DEF FreeState, MachineRow, Cleared
  <2>2. m \in Machines /\ Snapshot(seen)
    BY <1>3 DEF FreeUpdate, Shape, Snapshots
  <2>3. machines' = Replaced(seen, Cleared(seen)) /\ UNCHANGED call
    BY <1>3 DEF FreeUpdate
  <2>4. ASSUME NEW n \in Machines
        PROVE  machines'[n].allocation = IF n = m THEN None ELSE machines[n].allocation
    BY <1>3, <2>1, <2>2, <2>3, ReplacedAllocation
  <2>5. ownerAfter = [owner EXCEPT ![m] = None]
    BY <2>2, <2>4
  <2> QED
    BY <2>2, <2>3, <2>5
<1>4. CASE /\ ~\E r \in Requests : CommitAllocation(r) /\ Current(call[r].seen)
           /\ ~\E f \in Frees : FreeUpdate(f) /\ Current(free[f].seen)
  <2>1. \A m \in Machines : machines'[m].allocation = machines[m].allocation
    BY <1>4, AllocationKept
  <2>2. servedAfter = served
    BY <1>1, <1>4
  <2> QED
    BY <2>1, <2>2
<1>5. ASSUME NEW m \in Machines, ownerAfter = [owner EXCEPT ![m] = None], owner[m] = None
      PROVE  ownerAfter = owner
  BY <1>5
<1> QED
  BY <1>2, <1>3, <1>4, <1>5

\* The machine table as handled by allocateMachine and freeMachine implements MachineLease:
\* no machine has two owners in turn without a free in between, and no request two machines.
THEOREM MachineLeaseImplemented == Spec => ImplementsLease
<1>1. ASSUME Init PROVE Lease!Init
  <2>1. \A m \in Machines : machines[m].allocation = None
    BY <1>1 DEF Init, NoRow
  <2>2. \A r \in Requests : call[r].pc # "done"
    BY <1>1 DEF Init
  <2> QED
    BY <2>1, <2>2 DEF Lease!Init
<1>2. AllocationInv /\ [Next]_vars => [Lease!Next]_(Lease!vars)
  BY NextLease
<1> QED
  BY <1>1, <1>2, AllocationInvariant, PTL DEF Spec, ImplementsLease, Lease!Spec


\* Every variable of the model keeps its type.
THEOREM TypeCorrect == Spec => []TypeOK
BY AllocationInvariant, PTL DEF AllocationInv

\* For any number of machines, requests, frees, crashes, repeated messages and foreign
\* writes: a machine given to a caller of allocateMachine keeps that allocation until a
\* freeMachine call that read it succeeds (datastore.updateEntity's stamp suffices).
THEOREM AllocationStays == Spec => []SuccessStays
BY AllocationInvariant, PTL DEF AllocationInv

-----------------------------------------------------------------------------
(* How a step moves a request and a row of the machine table.                *)

\* A successful update of a snapshot replaces the very row that was read.
LEMMA ReplacedRow ==
  ASSUME TypeOK, NEW old \in MachineRow, NEW new \in MachineRow, Current(old), Snapshot(old),
         machines' = Replaced(old, new), NEW m \in Machines
  PROVE  \/ m # old.id /\ machines'[m] = machines[m]
         \/ /\ m = old.id /\ old = machines[m]
            /\ machines'[m] = [new EXCEPT !.changed = old.changed + 1]
            /\ machines'[m].allocation = new.allocation
            /\ machines'[m].preAllocated <=> new.preAllocated
<1> DEFINE row == [new EXCEPT !.changed = old.changed + 1]
<1>1. /\ machines' = [machines EXCEPT ![old.id] = row]
      /\ row.allocation = new.allocation /\ (row.preAllocated <=> new.preAllocated)
  BY DEF Replaced, MachineRow
<1>2. m = old.id => old = machines[m]
  BY DEF Current, Snapshot
<1> HIDE DEF row
<1>3. m # old.id => machines'[m] = machines[m]
  BY <1>1 DEF TypeOK
<1>4. m = old.id => machines'[m] = row
  BY <1>1 DEF TypeOK
<1> QED
  BY <1>1, <1>2, <1>3, <1>4 DEF row

\* The ways in which a request moves: it gets a candidate, its candidate is marked, or it
\* goes on with the one it has, at most until it commits, resets or is interrupted.
Goes(r) ==
    /\ call'[r].candidate = call[r].candidate
    /\ call'[r].pc \notin {"start", "preallocate"}
    /\ call'[r].pc \in Working => call[r].pc \in Working
    /\ call[r].pc \in Working /\ call'[r].pc \notin Working =>
          \/ CommitAllocation(r) /\ Current(call[r].seen)
          \/ RollbackReset(r)
          \/ Interrupted

LEMMA RequestMoved ==
  ASSUME TypeOK, [Next]_vars, NEW r \in Requests
  PROVE  \/ call'[r] = call[r]
         \/ \E m \in Machines : NamedCandidate(r, m) \/ WaitingCandidate(r, m)
         \/ PreAllocate(r) /\ Current(call[r].candidate)
         \/ Goes(r)
<1>0. call \in [Requests -> CallState] /\ call[r] \in CallState
  BY DEF TypeOK
<1>1. ASSUME NEW pc \in CallPC \ {"start", "preallocate"}, To(r, pc)
      PROVE  call'[r].candidate = call[r].candidate /\ call'[r].pc = pc
  BY <1>0, <1>1 DEF To, CallState
<1>2. CASE AllocateStep(r)
  <2>1. CASE NoCandidate(r) \/ GatherAuto(r) \/ StepFails(r) \/ RollbackPublish(r)
    BY <1>0, <1>1, <2>1, CallPCs
       DEF Goes, NoCandidate, GatherAuto, StepFails, RollbackPublish, Working
  <2>2. CASE PreAllocate(r) /\ ~Current(call[r].candidate)
    BY <1>0, <1>1, <2>2, CallPCs DEF Goes, PreAllocate, Working
  <2>3. ASSUME NEW a \in IPs, GatherGiven(r, a) \/ AllocateRandomIP(r, a)
        PROVE  Goes(r)
    BY <1>0, <2>3 DEF Goes, GatherGiven, AllocateRandomIP, Working, CallState
  <2>4. CASE CreateIP(r)
    BY <1>0, <2>4 DEF Goes, CreateIP, To, Working, CallState
  <2>5. CASE AddMachineId(r)
    BY <1>0, <2>5 DEF Goes, AddMachineId, To, Working, CallState
  <2>6. ASSUME NEW n \in ASNs, AcquireASN(r, n)
        PROVE  Goes(r)
    BY <1>0, <1>1, <2>6, CallPCs DEF Goes, AcquireASN, Working
  <2>7. CASE RefetchMachine(r)
    BY <1>0, <2>7 DEF Goes, RefetchMachine, Working, CallState
  <2>8. CASE CommitAllocation(r)
    BY <1>0, <1>1, <2>8, CallPCs DEF Goes, CommitAllocation, Working
  <2>9. CASE RollbackReset(r)
    BY <1>0, <1>1, <2>9, CallPCs DEF Goes, RollbackReset, Working
  <2> QED
    BY <1>2, <2>1, <2>2, <2>3, <2>4, <2>5, <2>6, <2>7, <2>8, <2>9, ConstantsAssumption
       DEF AllocateStep
<1>3. ASSUME NEW p \in Calls, CutShort(p), call'[r] # call[r]
      PROVE  Goes(r)
  BY <1>0, <1>3, CutShortFrame DEF Goes, CutShort, Working, CallState
<1>4. ASSUME NEW n \in Machines, NEW mode \in Modes, OtherWrite(n, mode)
      PROVE  call'[r] = call[r]
  BY <1>4 DEF OtherWrite
<1> QED
  BY <1>2, <1>3, <1>4, AllocateFrame, BusFrame, FreeFrame DEF Next, Quiescent, vars

\* The writers of a machine row, each of which starts from the present row.
Marks(r, m) ==
    /\ PreAllocate(r) /\ Current(call[r].candidate)
    /\ call[r].candidate = machines[m] /\ call'[r].candidate = machines'[m]
    /\ machines'[m].preAllocated /\ machines'[m].allocation = machines[m].allocation
Commits(r, m) ==
    /\ CommitAllocation(r) /\ Current(call[r].seen)
    /\ call[r].seen = machines[m] /\ call[r].candidate.id = m
    /\ ~machines'[m].preAllocated /\ machines'[m].allocation = r
Resets(r, m) ==
    /\ RollbackReset(r)
    /\ call[r].candidate = machines[m]
    /\ ~machines'[m].preAllocated /\ machines'[m].allocation = None
Returns(f, m) ==
    /\ FreeUpdate(f) /\ Current(free[f].seen)
    /\ free[f].seen = machines[m]
    /\ ~machines'[m].preAllocated /\ machines'[m].allocation = None
Rewrites(m) ==
    /\ events'.writes > events.writes
    /\ machines'[m].preAllocated = machines[m].preAllocated
    /\ machines'[m].allocation = machines[m].allocation

\* A mark, a commit and a reset that pass the comparison write the row of their candidate.
LEMMA MarkedRow ==
  ASSUME TypeOK, Shape, Snapshots, NEW r \in Requests,
         PreAllocate(r), Current(call[r].candidate), NEW m \in Machines
  PROVE  IF m = call[r].candidate.id THEN Marks(r, m) ELSE machines'[m] = machines[m]
<1> DEFINE old == call[r].candidate
           taken == [old EXCEPT !.preAllocated = TRUE]
           row == [taken EXCEPT !.changed = old.changed + 1]
           new == [old EXCEPT !.preAllocated = TRUE, !.changed = old.changed + 1]
<1>1. old \in MachineRow /\ taken \in MachineRow /\ Snapshot(old)
  BY DEF TypeOK, CallState, MachineRow, PreAllocate, Snapshots
<1>2. machines' = Replaced(old, taken)
  BY DEF PreAllocate
<1>3. call'[r].candidate = new
  BY DEF PreAllocate, TypeOK, CallState
<1>4. new = row /\ taken.preAllocated /\ taken.allocation = old.allocation
  BY <1>1 DEF MachineRow
<1>5. \/ m # old.id /\ machines'[m] = machines[m]
      \/ /\ m = old.id /\ old = machines[m] /\ machines'[m] = row
         /\ machines'[m].allocation = taken.allocation /\ machines'[m].preAllocated
  <2> HIDE DEF taken
  <2> QED
    BY <1>1, <1>2, <1>4, ReplacedRow
<1> HIDE DEF taken, row, new
<1> QED
  BY <1>3, <1>4, <1>5 DEF Marks

LEMMA CommittedRow ==
  ASSUME TypeOK, Shape, Snapshots, NEW r \in Requests,
         CommitAllocation(r), Current(call[r].seen), NEW m \in Machines
  PROVE  IF m = call[r].candidate.id THEN Commits(r, m) ELSE machines'[m] = machines[m]
<1> DEFINE seen == call[r].seen
           new == [seen EXCEPT !.allocation = r, !.preAllocated = FALSE]
<1>0. seen \in MachineRow
  BY DEF TypeOK, CallState
<1>1. seen \in MachineRow /\ new \in MachineRow /\ new.allocation = r /\ ~new.preAllocated
  <2> HIDE DEF seen
  <2> QED BY <1>0 DEF MachineRow
<1>2. Snapshot(seen) /\ seen.id = call[r].candidate.id
  BY DEF CommitAllocation, Snapshots, Shape
<1>3. machines' = Replaced(seen, new)
  BY DEF CommitAllocation
<1> HIDE DEF new
<1>4. \/ m # seen.id /\ machines'[m] = machines[m]
      \/ /\ m = seen.id /\ seen = machines[m]
         /\ machines'[m].allocation = r
         /\ machines'[m].preAllocated <=> new.preAllocated
  BY <1>1, <1>2, <1>3, ReplacedRow
<1> QED
  BY <1>1, <1>2, <1>4 DEF Commits

LEMMA ResetRow ==
  ASSUME TypeOK, Shape, Snapshots, NEW r \in Requests,
         RollbackReset(r), Current(call[r].candidate), NEW m \in Machines
  PROVE  IF m = call[r].candidate.id THEN Resets(r, m) ELSE machines'[m] = machines[m]
<1> DEFINE old == call[r].candidate
<1>0. old \in MachineRow
  BY DEF TypeOK, CallState
<1>1. Cleared(old) \in MachineRow /\ Cleared(old).allocation = None /\ ~Cleared(old).preAllocated
  BY <1>0 DEF MachineRow, Cleared
<1>2. Snapshot(old)
  BY DEF RollbackReset, Snapshots, Working
<1>3. machines' = Replaced(old, Cleared(old))
  BY DEF RollbackReset
<1>4. \/ m # old.id /\ machines'[m] = machines[m]
      \/ /\ m = old.id /\ old = machines[m] /\ machines'[m].allocation = None
         /\ machines'[m].preAllocated <=> Cleared(old).preAllocated
  BY <1>0, <1>1, <1>2, <1>3, ReplacedRow
<1> QED
  BY <1>1, <1>4 DEF Resets

LEMMA ReturnedRow ==
  ASSUME TypeOK, Shape, Snapshots, NEW f \in Frees, FreeUpdate(f), NEW m \in Machines
  PROVE  machines'[m] = machines[m] \/ Returns(f, m)
<1> DEFINE seen == free[f].seen
<1>0. seen \in MachineRow
  BY DEF TypeOK, FreeState
<1>1. /\ Cleared(seen) \in MachineRow
      /\ Cleared(seen).allocation = None /\ ~Cleared(seen).preAllocated
  BY <1>0 DEF Cleared, MachineRow
<1>2. Snapshot(seen)
  BY DEF FreeUpdate, Snapshots
<1>3. UNCHANGED machines \/ (Current(seen) /\ machines' = Replaced(seen, Cleared(seen)))
  BY DEF FreeUpdate
<1>4. CASE Current(seen) /\ machines' = Replaced(seen, Cleared(seen))
  <2>1. \/ machines'[m] = machines[m]
        \/ /\ seen = machines[m] /\ machines'[m].allocation = None
           /\ machines'[m].preAllocated <=> Cleared(seen).preAllocated
    BY <1>0, <1>1, <1>2, <1>4, ReplacedRow
  <2> QED
    BY <1>1, <1>4, <2>1 DEF Returns
<1> QED
  BY <1>3, <1>4

LEMMA RowWritten ==
  ASSUME TypeOK, Shape, Snapshots, [Next]_vars, NEW m \in Machines
  PROVE  \/ machines'[m] = machines[m]
         \/ \E r \in Requests : Marks(r, m) \/ Commits(r, m) \/ Resets(r, m)
         \/ \E f \in Frees : Returns(f, m)
         \/ Rewrites(m)
<1> DEFINE Kept == machines'[m] = machines[m]
<1>1. ASSUME NEW r \in Requests, AllocateStep(r)
      PROVE  Kept \/ Marks(r, m) \/ Commits(r, m) \/ Resets(r, m)
  <2>1. CASE PreAllocate(r)
    BY <2>1, MarkedRow DEF PreAllocate
  <2>2. CASE CommitAllocation(r)
    BY <2>2, CommittedRow DEF CommitAllocation
  <2>3. CASE RollbackReset(r)
    BY <2>3, ResetRow DEF RollbackReset
  <2> QED
    BY <1>1, <2>1, <2>2, <2>3, AllocateFrame
<1>2. ASSUME NEW n \in Machines, NEW mode \in Modes, OtherWrite(n, mode)
      PROVE  Kept \/ Rewrites(m)
  BY <1>2 DEF OtherWrite, Replaced, Shape, TypeOK, MachineRow, Rewrites
<1> QED
  BY <1>1, <1>2, ReturnedRow, BusFrame, FreeFrame, CutShortFrame DEF Next, Quiescent, vars

\* The ways in which a call of freeMachine moves: it reads a row, or goes on with its copy.
LEMMA FreeMoved ==
  ASSUME TypeOK, [Next]_vars, NEW f \in Frees
  PROVE  \/ free'[f] = free[f]
         \/ \E m \in Machines : FreeRead(f, m)
         \/ /\ free'[f].seen = free[f].seen
            /\ free[f].pc # "start" /\ free'[f].pc # "start"
            /\ free'[f].pc = "update" => free[f].pc = "publish"
            /\ free'[f].pc # "publish"
<1>0. free \in [Frees -> FreeState] /\ free[f] \in FreeState
  BY DEF TypeOK
<1>1. CASE FreePublish(f) \/ FreeFails(f)
  BY <1>0, <1>1 DEF FreePublish, FreeFails, FreeState
<1>2. CASE FreeUpdate(f)
  BY <1>0, <1>2 DEF FreeUpdate, FreeState
<1>3. ASSUME NEW p \in Calls, CutShort(p), free'[f] # free[f]
      PROVE  /\ free'[f].seen = free[f].seen
             /\ free[f].pc # "start" /\ free'[f].pc \notin {"start", "publish", "update"}
  <2>1. /\ free[f].pc # "start"
        /\ \/ free'[f] = [free[f] EXCEPT !.pc = "failed"]
           \/ free'[f] = [free[f] EXCEPT !.pc = "crashed"]
    BY <1>3, CutShortFrame
  <2> QED
    BY <1>0, <2>1 DEF FreeState
<1>4. ASSUME NEW n \in Machines, NEW mode \in Modes, OtherWrite(n, mode)
      PROVE  free'[f] = free[f]
  BY <1>4 DEF OtherWrite
<1> QED
  BY <1>1, <1>2, <1>3, <1>4, AllocateFrame, BusFrame, FreeFrame
     DEF Next, Quiescent, vars, FreeStep

-----------------------------------------------------------------------------
(* ElectedOnce: a machine of FindWaitingMachine belongs to one call, and its *)
(* mark to that call.                                                        *)

\* What the environment must respect: nobody asks by name for a machine that somebody else
\* is elected to or asks for meanwhile.
LoneRequests == ByUUID = {} \/ "apart" \in Assumed

On(r) == call[r].candidate.id
Active(r) == call[r].pc \in Working \cup {"preallocate"}
Elected(r) == r \notin ByUUID /\ call[r].pc \in Working

\* A request by name works alone on its machine.
Alone == \A r \in ByUUID : \A q \in Requests \ {r} : Active(r) /\ Active(q) => On(r) # On(q)

\* What a request found waiting was not marked; what it marked stays marked, and without an
\* owner while a request works on it.
Unmarked == \A r \in Requests :
                call[r].pc = "preallocate" => r \notin ByUUID /\ ~call[r].candidate.preAllocated
Marked == \A r \in Requests : Elected(r) => machines[On(r)].preAllocated
Unowned == \A r \in Requests : call[r].pc \in Working => machines[On(r)].allocation = None

\* Without a failure or a foreign write, a mark has its request, whose copy is the row, so
\* that its reset is not refused.
Undisturbed == events.writes + events.interruptions = 0
MarksOwned ==
    Undisturbed =>
        /\ \A m \in Machines : machines[m].preAllocated =>
               \E r \in Requests : Elected(r) /\ On(r) = m
        /\ \A r \in Requests : Elected(r) => machines[On(r)] = call[r].candidate

\* A free has read an allocated machine.
FreesAllocated == \A f \in Frees : free[f].pc # "start" => free[f].seen.allocation # None

ElectionInv ==
    /\ Alone /\ Unmarked /\ Marked /\ Unowned
    /\ ExclusiveCandidate /\ MarksOwned /\ FreesAllocated

LEMMA ActiveBefore ==
  ASSUME TypeOK, Shape, [Next]_vars, NEW r \in Requests, Active(r)'
  PROVE  \/ Active(r) /\ On(r)' = On(r)
         \/ \E m \in Machines : (NamedCandidate(r, m) \/ WaitingCandidate(r, m)) /\ On(r)' = m
<1>0. call[r] \in CallState /\ call[r].candidate \in MachineRow
  BY DEF TypeOK, CallState
<1>1. ASSUME NEW m \in Machines, NamedCandidate(r, m) \/ WaitingCandidate(r, m)
      PROVE  On(r)' = m
  <2>1. call'[r].candidate = machines[m]
    BY <1>1 DEF NamedCandidate, WaitingCandidate, TypeOK, CallState
  <2> QED
    BY <2>1 DEF On, Shape
<1>2. CASE PreAllocate(r) /\ Current(call[r].candidate)
  <2> DEFINE old == call[r].candidate
             new == [old EXCEPT !.preAllocated = TRUE, !.changed = old.changed + 1]
  <2>1. call'[r].candidate = new
    BY <1>2 DEF PreAllocate, TypeOK, CallState
  <2>2. new.id = old.id
    BY <1>0 DEF MachineRow
  <2> QED
    BY <1>2, <2>1, <2>2 DEF On, Active, PreAllocate
<1> QED
  BY <1>1, <1>2, RequestMoved DEF Active, On, Goes

LEMMA ElectedBefore ==
  ASSUME TypeOK, Shape, Snapshots, [Next]_vars, NEW r \in Requests, Elected(r)'
  PROVE  \/ Elected(r) /\ call'[r].candidate = call[r].candidate
         \/ On(r) \in Machines /\ Marks(r, On(r)) /\ On(r)' = On(r)
<1>1. ASSUME NEW m \in Machines
      PROVE  ~NamedCandidate(r, m) /\ ~WaitingCandidate(r, m)
  BY DEF NamedCandidate, WaitingCandidate, TypeOK, CallState, Elected, Working
<1>2. CASE PreAllocate(r) /\ Current(call[r].candidate)
  <2>1. On(r) \in Machines
    BY <1>2 DEF PreAllocate, Shape, On
  <2>2. Marks(r, On(r))
    BY <1>2, <2>1, MarkedRow DEF On
  <2>3. Active(r)'
    BY DEF Active, Elected
  <2>4. ~\E m \in Machines : NamedCandidate(r, m) \/ WaitingCandidate(r, m)
    BY <1>1
  <2> QED
    BY <2>1, <2>2, <2>3, <2>4, ActiveBefore
<1> QED
  BY <1>1, <1>2, RequestMoved DEF Elected, Goes

\* Two requests at work have different machines.
LEMMA NoConflict ==
  ASSUME Alone, ExclusiveCandidate, NEW r \in Requests, NEW q \in Requests, r # q,
         call[r].pc \in Working, call[q].pc \in Working
  PROVE  On(r) # On(q)
BY DEF Alone, ExclusiveCandidate, Active, On

\* A request that commits or resets is at work on the machine, and not any more afterwards.
LEMMA WriterEnds ==
  ASSUME TypeOK, Shape, NEW r \in Requests, NEW m \in Machines, Commits(r, m) \/ Resets(r, m)
  PROVE  call[r].pc \in Working /\ On(r) = m /\ call'[r].pc \notin Working
<1>0. call \in [Requests -> CallState] /\ call[r] \in CallState
  BY DEF TypeOK
<1>1. CASE Commits(r, m)
  BY <1>0, <1>1 DEF Commits, CommitAllocation, To, On, Working, CallState
<1>2. CASE Resets(r, m)
  <2>1. On(r) = m
    BY <1>2 DEF Resets, On, Shape
  <2> QED
    BY <1>0, <1>2, <2>1 DEF Resets, RollbackReset, To, Working, CallState
<1> QED
  BY <1>1, <1>2

LEMMA NextAlone ==
  LoneRequests /\ TypeOK /\ Shape /\ Alone /\ [Next]_vars => Alone'
<1> SUFFICES ASSUME LoneRequests, TypeOK, Shape, Alone, [Next]_vars,
                    NEW r \in ByUUID, NEW q \in Requests \ {r}, Active(r)', Active(q)',
                    On(r)' = On(q)'
             PROVE  FALSE
  BY DEF Alone
<1>0. "apart" \in Assumed /\ r \in Requests
  BY ConstantsAssumption DEF LoneRequests
<1>1. ASSUME NEW m \in Machines, NamedCandidate(r, m), On(r)' = m
      PROVE  FALSE
  <2>1. call'[q] = call[q]
    BY <1>0, <1>1 DEF NamedCandidate, TypeOK
  <2>2. On(q) = m => call[q].pc \in {"start", "done", "failed", "crashed"}
    BY <1>0, <1>1 DEF NamedCandidate, NoneOn, On
  <2> QED
    BY <1>1, <2>1, <2>2 DEF Active, On, Working
<1>2. ASSUME NEW m \in Machines, NamedCandidate(q, m) \/ WaitingCandidate(q, m), On(q)' = m
      PROVE  FALSE
  <2>1. call'[r] = call[r]
    BY <1>0, <1>2 DEF NamedCandidate, WaitingCandidate, TypeOK
  <2>2. On(r) = m => call[r].pc \in {"start", "done", "failed", "crashed"}
    BY <1>0, <1>2 DEF NamedCandidate, WaitingCandidate, NoneOn, On
  <2> QED
    BY <1>2, <2>1, <2>2 DEF Active, On, Working
<1>3. ASSUME NEW m \in Machines PROVE ~WaitingCandidate(r, m)
  BY DEF WaitingCandidate
<1>4. CASE Active(r) /\ On(r)' = On(r) /\ Active(q) /\ On(q)' = On(q)
  BY <1>4 DEF Alone
<1> QED
  BY <1>0, <1>1, <1>2, <1>3, <1>4, ActiveBefore

LEMMA NextUnmarked == TypeOK /\ Unmarked /\ [Next]_vars => Unmarked'
<1> SUFFICES ASSUME TypeOK, Unmarked, [Next]_vars, NEW r \in Requests,
                    call'[r].pc = "preallocate"
             PROVE  r \notin ByUUID /\ ~call'[r].candidate.preAllocated
  BY DEF Unmarked
<1>0. call \in [Requests -> CallState] /\ call[r] \in CallState
  BY DEF TypeOK
<1>1. ASSUME NEW m \in Machines, NamedCandidate(r, m) \/ WaitingCandidate(r, m)
      PROVE  r \notin ByUUID /\ ~call'[r].candidate.preAllocated
  <2>1. ~NamedCandidate(r, m)
    BY <1>0 DEF NamedCandidate, CallState
  <2>2. call'[r].candidate = machines[m] /\ r \notin ByUUID /\ Electable(m)
    BY <1>0, <1>1, <2>1 DEF WaitingCandidate, CallState
  <2> QED
    BY <2>2 DEF Electable
<1>2. ~(PreAllocate(r) /\ Current(call[r].candidate))
  BY <1>0 DEF PreAllocate, CallState
<1> QED
  BY <1>1, <1>2, RequestMoved DEF Unmarked, Goes

LEMMA NextExclusive ==
  ASSUME TypeOK, Shape, Snapshots, Unmarked, Marked, ExclusiveCandidate, [Next]_vars
  PROVE  ExclusiveCandidate'
<1> SUFFICES ASSUME NEW r \in Requests \ ByUUID, NEW q \in Requests \ ByUUID, r # q,
                    Elected(r)', Elected(q)', On(r)' = On(q)'
             PROVE  FALSE
  BY DEF ExclusiveCandidate, Elected, On
\* A machine that somebody marks now was not marked, and whoever works on it had marked it.
<1>1. ASSUME NEW x \in Requests, NEW y \in Requests, x # y,
             On(x) \in Machines, Marks(x, On(x)), Elected(y), On(y) = On(x)
      PROVE  FALSE
  <2>1. machines[On(x)].preAllocated
    BY <1>1 DEF Marked
  <2>2. ~machines[On(x)].preAllocated
    BY <1>1 DEF Marks, PreAllocate, Unmarked
  <2> QED
    BY <2>1, <2>2
<1>2. ~(Marks(r, On(r)) /\ Marks(q, On(q)))
  BY DEF Marks, PreAllocate, TypeOK, Elected, Working
<1>3. CASE Elected(r) /\ Elected(q) /\ On(r) = On(q)
  BY <1>3 DEF ExclusiveCandidate, Elected, On
<1> QED
  BY <1>1, <1>2, <1>3, ElectedBefore DEF On

LEMMA NextUnowned ==
  ASSUME TypeOK, Shape, Snapshots, Alone, ExclusiveCandidate, Unowned, [Next]_vars
  PROVE  Unowned'
<1> SUFFICES ASSUME NEW r \in Requests, call'[r].pc \in Working
             PROVE  machines'[On(r)'].allocation = None
  BY DEF Unowned
<1>0. call \in [Requests -> CallState] /\ call[r] \in CallState
  BY DEF TypeOK
<1>1. ASSUME NEW m \in Machines, NamedCandidate(r, m) \/ WaitingCandidate(r, m)
      PROVE  machines'[On(r)'].allocation = None
  <2>1. call'[r].candidate = machines[m] /\ UNCHANGED machines /\ machines[m].allocation = None
    BY <1>0, <1>1 DEF NamedCandidate, WaitingCandidate, CallState, Working
  <2> QED
    BY <2>1 DEF On, Shape
<1>2. CASE PreAllocate(r) /\ Current(call[r].candidate)
  <2>1. On(r) \in Machines /\ call[r].candidate.allocation = None
    BY <1>2 DEF PreAllocate, Shape, On
  <2>2. Marks(r, On(r))
    BY <1>2, <2>1, MarkedRow DEF On
  <2>3. Shape'
    BY NextShape
  <2>4. On(r)' = On(r)
    BY <2>1, <2>2, <2>3 DEF Marks, On, Shape
  <2> QED
    BY <2>1, <2>2, <2>4 DEF Marks
<1>3. CASE call[r].pc \in Working /\ On(r)' = On(r)
  <2> DEFINE m == On(r)
  <2>1. m \in Machines /\ machines[m].allocation = None
    BY <1>3 DEF Shape, Unowned, On
  <2>2. ASSUME NEW q \in Requests PROVE ~Commits(q, m)
    BY <1>3, <2>1, <2>2, WriterEnds, NoConflict
  <2> HIDE DEF m
  <2>3. machines'[m].allocation = None
    BY <2>1, <2>2, RowWritten DEF Marks, Resets, Returns, Rewrites
  <2> QED
    BY <1>3, <2>3 DEF m
<1> QED
  BY <1>1, <1>2, <1>3, RequestMoved DEF Goes, On

\* Nobody else writes the row of an elected machine, but for its other fields.
LEMMA ElectedRow ==
  ASSUME TypeOK, Shape, Snapshots, Unmarked, Marked, Unowned, Alone, ExclusiveCandidate,
         FreesAllocated, [Next]_vars, NEW r \in Requests, Elected(r), Elected(r)'
  PROVE  machines'[On(r)] = machines[On(r)] \/ Rewrites(On(r))
<1> DEFINE m == On(r)
<1>1. m \in Machines /\ machines[m].allocation = None /\ machines[m].preAllocated
  BY DEF Shape, Unowned, Marked, Elected, On
<1>2. ASSUME NEW q \in Requests PROVE ~Commits(q, m) /\ ~Resets(q, m)
  BY <1>1, WriterEnds, NoConflict DEF Elected
<1>3. ASSUME NEW q \in Requests PROVE ~Marks(q, m)
  BY <1>1 DEF Marks, PreAllocate, Unmarked
<1>4. ASSUME NEW f \in Frees PROVE ~Returns(f, m)
  BY <1>1 DEF Returns, FreeUpdate, FreesAllocated
<1> HIDE DEF m
<1> QED
  BY <1>1, <1>2, <1>3, <1>4, RowWritten DEF m

LEMMA NextMarked ==
  ASSUME TypeOK, Shape, Snapshots, Unmarked, Marked, Unowned, Alone, ExclusiveCandidate,
         FreesAllocated, [Next]_vars
  PROVE  Marked'
<1> SUFFICES ASSUME NEW r \in Requests, Elected(r)'
             PROVE  machines'[On(r)'].preAllocated
  BY DEF Marked
<1>1. CASE Elected(r) /\ On(r)' = On(r)
  <2>1. machines[On(r)].preAllocated
    BY <1>1 DEF Marked
  <2> QED
    BY <1>1, <2>1, ElectedRow DEF Rewrites
<1>2. CASE Marks(r, On(r)) /\ On(r)' = On(r)
  BY <1>2 DEF Marks
<1> QED
  BY <1>1, <1>2, ElectedBefore DEF On

\* Nothing failed and nobody else wrote a row, if that is so afterwards.
LEMMA UndisturbedBefore ==
  ASSUME TypeOK, [Next]_vars, Undisturbed'
  PROVE  Undisturbed /\ ~Interrupted /\ \A m \in Machines : ~Rewrites(m)
<1>0. /\ events \in [writes: Nat, interruptions: Nat, redeliveries: Nat]
      /\ events.writes \in Nat /\ events.interruptions \in Nat
  BY DEF TypeOK
<1>1. /\ events'.writes \in {events.writes, events.writes + 1}
      /\ events'.interruptions \in {events.interruptions, events.interruptions + 1}
  <2>1. ASSUME Interrupted
        PROVE  /\ events'.writes = events.writes
               /\ events'.interruptions = events.interruptions + 1
    BY <1>0, <2>1 DEF Interrupted
  <2>2. ASSUME NEW r \in Requests, AllocateStep(r) PROVE UNCHANGED events \/ Interrupted
    BY <2>2 DEF AllocateStep, NamedCandidate, WaitingCandidate, NoCandidate, PreAllocate,
       GatherGiven, GatherAuto, AllocateRandomIP, CreateIP, AddMachineId, AcquireASN, StepFails,
       RefetchMachine, CommitAllocation, RollbackPublish, RollbackReset, Publish
  <2>3. ASSUME NEW f \in Frees, FreeStep(f) \/ \E m \in Machines : FreeRead(f, m)
        PROVE  UNCHANGED events \/ Interrupted
    BY <2>3 DEF FreeStep, FreeRead, FreePublish, FreeFails, FreeUpdate, Publish
  <2>4. ASSUME NEW p \in Calls, ReleaseStep(p) \/ \E a \in IPs : IPReleaseStep(p, a)
        PROVE  UNCHANGED events
    BY <2>4 DEF ReleaseStep, ReleaseStart, ReleaseListed, ReleaseASN, ReleaseDangling,
       IPReleaseStep, ReleaseIPFind, ReleaseIPDelete, ReleaseIPInIPAM
  <2>5. ASSUME NEW p \in Calls, RedeliverRelease(p) \/ \E a \in IPs : RedeliverIPRelease(p, a)
        PROVE  /\ events'.writes = events.writes
               /\ events'.interruptions = events.interruptions
    BY <1>0, <2>5 DEF RedeliverRelease, RedeliverIPRelease
  <2>6. ASSUME NEW m \in Machines, NEW mode \in Modes, OtherWrite(m, mode)
        PROVE  /\ events'.writes = events.writes + 1
               /\ events'.interruptions = events.interruptions
    BY <1>0, <2>6 DEF OtherWrite
  <2> QED
    BY <2>1, <2>2, <2>3, <2>4, <2>5, <2>6 DEF Next, CutShort, Quiescent, vars
<1>2. Interrupted => events'.interruptions = events.interruptions + 1
  BY <1>0 DEF Interrupted
<1> QED
  BY <1>0, <1>1, <1>2 DEF Undisturbed, Rewrites

LEMMA NextMarksOwned ==
  ASSUME TypeOK, Shape, Snapshots, ElectionInv, [Next]_vars
  PROVE  MarksOwned'
<1> USE DEF ElectionInv
<1> SUFFICES ASSUME Undisturbed'
             PROVE  /\ \A m \in Machines : machines'[m].preAllocated =>
                           \E r \in Requests : Elected(r)' /\ On(r)' = m
                    /\ \A r \in Requests : Elected(r)' => machines'[On(r)'] = call'[r].candidate
  BY DEF MarksOwned
<1>0. Undisturbed /\ ~Interrupted /\ (\A m \in Machines : ~Rewrites(m)) /\ Shape'
  BY UndisturbedBefore, NextShape
<1>1. ASSUME NEW m \in Machines, machines'[m].preAllocated
      PROVE  \E r \in Requests : Elected(r)' /\ On(r)' = m
  <2>1. CASE machines'[m] = machines[m]
    <3>1. PICK r \in Requests : Elected(r) /\ On(r) = m
      BY <1>0, <1>1, <2>1 DEF MarksOwned
    <3>2. call[r].candidate = machines[m] /\ call[r].pc \in Working
      BY <1>0, <3>1 DEF MarksOwned, Elected
    <3>3. ~(CommitAllocation(r) /\ Current(call[r].seen))
      BY <1>1, <3>1, CommittedRow DEF Commits, On
    <3>4. ~RollbackReset(r)
      <4>1. Current(call[r].candidate)
        BY <3>2 DEF Current, Shape
      <4> QED
        BY <1>1, <3>1, <4>1, ResetRow DEF Resets, On
    <3>5. ~PreAllocate(r) /\ \A n \in Machines : ~NamedCandidate(r, n) /\ ~WaitingCandidate(r, n)
      BY <3>2 DEF PreAllocate, NamedCandidate, WaitingCandidate, Working
    <3>6. call'[r].candidate = call[r].candidate /\ call'[r].pc \in Working
      BY <1>0, <3>2, <3>3, <3>4, <3>5, RequestMoved DEF Goes
    <3> QED
      BY <3>1, <3>6 DEF Elected, On
  <2>2. ASSUME NEW q \in Requests, Marks(q, m)
        PROVE  Elected(q)' /\ On(q)' = m
    <3>1. q \notin ByUUID /\ call'[q].pc = "gather"
      BY <2>2 DEF Marks, PreAllocate, Unmarked, TypeOK, CallState
    <3>2. On(q)' = m
      BY <1>0, <2>2 DEF Marks, On, Shape
    <3> QED
      BY <3>1, <3>2 DEF Elected, Working
  <2> QED
    BY <1>0, <1>1, <2>1, <2>2, RowWritten DEF Commits, Resets, Returns
<1>2. ASSUME NEW r \in Requests, Elected(r)'
      PROVE  machines'[On(r)'] = call'[r].candidate
  <2>1. CASE Elected(r) /\ call'[r].candidate = call[r].candidate
    <3>1. On(r) \in Machines /\ machines[On(r)] = call[r].candidate
      BY <1>0, <2>1 DEF MarksOwned, Elected, Shape, On
    <3>2. machines'[On(r)] = machines[On(r)]
      BY <1>0, <1>2, <2>1, <3>1, ElectedRow
    <3> QED
      BY <2>1, <3>1, <3>2 DEF On
  <2>2. CASE Marks(r, On(r)) /\ On(r)' = On(r)
    BY <2>2 DEF Marks
  <2> QED
    BY <1>2, <2>1, <2>2, ElectedBefore
<1> QED
  BY <1>1, <1>2

LEMMA NextFreesAllocated ==
  ASSUME "freeAllocated" \in Assumed, TypeOK, FreesAllocated, [Next]_vars
  PROVE  FreesAllocated'
<1> SUFFICES ASSUME NEW f \in Frees, free'[f].pc # "start"
             PROVE  free'[f].seen.allocation # None
  BY DEF FreesAllocated
<1>1. ASSUME NEW m \in Machines, FreeRead(f, m)
      PROVE  free'[f].seen.allocation # None
  BY <1>1 DEF FreeRead, TypeOK, FreeState
<1> QED
  BY <1>1, FreeMoved DEF FreesAllocated

LEMMA ElectionInvariant ==
  ASSUME "freeAllocated" \in Assumed, LoneRequests
  PROVE  Spec => []ElectionInv
<1>1. Init => ElectionInv
  <2> SUFFICES ASSUME Init PROVE ElectionInv
    OBVIOUS
  <2>1. /\ \A r \in Requests : call[r].pc = "start"
        /\ \A f \in Frees : free[f].pc = "start"
        /\ \A m \in Machines : ~machines[m].preAllocated
    BY DEF Init, NoRow
  <2> QED
    BY <2>1, ConstantsAssumption
       DEF ElectionInv, Alone, Unmarked, Marked, Unowned, ExclusiveCandidate, MarksOwned,
           FreesAllocated, Active, Elected, Working
<1>2. AllocationInv /\ ElectionInv /\ [Next]_vars => ElectionInv'
  BY NextAlone, NextUnmarked, NextExclusive, NextUnowned, NextMarked, NextMarksOwned,
     NextFreesAllocated DEF AllocationInv, ElectionInv
<1> QED
  BY <1>1, <1>2, AllocationInvariant, PTL DEF Spec

\* An elected machine is worked on by one call, and without failures its mark goes with it,
\* if machines are freed when they are allocated and nobody asks for them by name meanwhile.
THEOREM ElectedByOne ==
  ASSUME "freeAllocated" \in Assumed, LoneRequests
  PROVE  Spec => []ElectedOnce
<1>1. ElectionInv => ElectedOnce
  BY DEF ElectionInv, ElectedOnce, ExclusiveCandidate, PreAllocatedHasOwner, MarksOwned,
         Undisturbed, Elected, On
<1> QED
  BY <1>1, ElectionInvariant, PTL

-----------------------------------------------------------------------------
(* ASNHeldOnce: an ASN is held by one allocation, or is in the pool.         *)

\* A machine names a request that ended well on it, and so does the copy of a free.
Owners == \A m \in Machines, r \in Requests :
              machines[m].allocation = r => call[r].pc = "done" /\ On(r) = m
FreesOwned == \A f \in Frees, r \in Requests :
                  free[f].pc # "start" /\ free[f].seen.allocation = r => call[r].pc = "done"

\* An allocation is released by one call: by itself when it failed, or by one free.
FreesDiffer == \A f, g \in Frees :
                   f # g /\ free[f].pc # "start" /\ free[g].pc # "start"
                       => \/ free[f].seen.allocation = None
                          \/ free[f].seen.allocation # free[g].seen.allocation
ReleasedAfter ==
    /\ \A r \in Requests : release[r].pc # "none" => call[r].pc \in {"reset", "failed", "crashed"}
    /\ \A f \in Frees : release[f].pc # "none" => free[f].pc \notin {"start", "publish"}

ReleasesInv == Owners /\ FreesOwned /\ FreesDiffer /\ ReleasedAfter

\* Who moves an allocation, the pool, a release, and how far a call that is late may get.
LEMMA AllocMoved ==
  ASSUME TypeOK, [Next]_vars, NEW r \in Requests
  PROVE  alloc'[r] = alloc[r] \/ AddMachineId(r) \/ \E n \in ASNs : AcquireASN(r, n)
<1>1. ASSUME NEW q \in Requests, AllocateStep(q)
      PROVE  alloc'[r] = alloc[r] \/ AddMachineId(r) \/ \E n \in ASNs : AcquireASN(r, n)
  BY <1>1 DEF AllocateStep, NamedCandidate, WaitingCandidate, NoCandidate, PreAllocate,
     GatherGiven, GatherAuto, AllocateRandomIP, CreateIP, AddMachineId, AcquireASN, StepFails,
     RefetchMachine, CommitAllocation, RollbackPublish, RollbackReset, TypeOK
<1>2. ASSUME NEW f \in Frees, FreeStep(f) \/ \E m \in Machines : FreeRead(f, m)
      PROVE  UNCHANGED alloc
  BY <1>2 DEF FreeStep, FreeRead, FreePublish, FreeFails, FreeUpdate
<1>3. ASSUME NEW p \in Calls, ReleaseStep(p) \/ RedeliverRelease(p) \/ CutShort(p)
      PROVE  UNCHANGED alloc
  BY <1>3 DEF ReleaseStep, ReleaseStart, ReleaseListed, ReleaseASN, ReleaseDangling,
     RedeliverRelease, CutShort, DatastoreFails, Crash
<1>4. ASSUME NEW p \in Calls, NEW a \in IPs, IPReleaseStep(p, a) \/ RedeliverIPRelease(p, a)
      PROVE  UNCHANGED alloc
  BY <1>4 DEF IPReleaseStep, ReleaseIPFind, ReleaseIPDelete, ReleaseIPInIPAM, RedeliverIPRelease
<1>5. ASSUME NEW m \in Machines, NEW mode \in Modes, OtherWrite(m, mode)
      PROVE  UNCHANGED alloc
  BY <1>5 DEF OtherWrite
<1> QED
  BY <1>1, <1>2, <1>3, <1>4, <1>5 DEF Next, Quiescent, vars

LEMMA PoolMoved ==
  ASSUME [Next]_vars
  PROVE  \/ UNCHANGED pool
         \/ \E r \in Requests, n \in ASNs : AcquireASN(r, n)
         \/ \E p \in Calls : ReleaseASN(p)
<1>1. ASSUME NEW q \in Requests, AllocateStep(q), ~\E n \in ASNs : AcquireASN(q, n)
      PROVE  UNCHANGED pool
  BY <1>1 DEF AllocateStep, NamedCandidate, WaitingCandidate, NoCandidate, PreAllocate,
     GatherGiven, GatherAuto, AllocateRandomIP, CreateIP, AddMachineId, StepFails,
     RefetchMachine, CommitAllocation, RollbackPublish, RollbackReset
<1>2. ASSUME NEW f \in Frees, FreeStep(f) \/ \E m \in Machines : FreeRead(f, m)
      PROVE  UNCHANGED pool
  BY <1>2 DEF FreeStep, FreeRead, FreePublish, FreeFails, FreeUpdate
<1>3. ASSUME NEW p \in Calls, ReleaseStep(p) \/ RedeliverRelease(p) \/ CutShort(p), ~ReleaseASN(p)
      PROVE  UNCHANGED pool
  BY <1>3 DEF ReleaseStep, ReleaseStart, ReleaseListed, ReleaseDangling,
     RedeliverRelease, CutShort, DatastoreFails, Crash
<1>4. ASSUME NEW p \in Calls, NEW a \in IPs, IPReleaseStep(p, a) \/ RedeliverIPRelease(p, a)
      PROVE  UNCHANGED pool
  BY <1>4 DEF IPReleaseStep, ReleaseIPFind, ReleaseIPDelete, ReleaseIPInIPAM, RedeliverIPRelease
<1>5. ASSUME NEW m \in Machines, NEW mode \in Modes, OtherWrite(m, mode)
      PROVE  UNCHANGED pool
  BY <1>5 DEF OtherWrite
<1> QED
  BY <1>1, <1>2, <1>3, <1>4, <1>5 DEF Next, Quiescent, vars

LEMMA ReleaseMoved ==
  ASSUME TypeOK, [Next]_vars, NEW p \in Calls
  PROVE  \/ release'[p] = release[p]
         \/ /\ release'[p].pc = "queued"
            /\ \/ p \in Requests /\ RollbackPublish(p)
               \/ p \in Frees /\ FreePublish(p)
               \/ RedeliverRelease(p)
         \/ ReleaseStep(p)
<1>0. release \in [Calls -> ReleaseState] /\ Requests \subseteq Calls /\ Frees \subseteq Calls
  BY DEF TypeOK, Calls
<1>1. ASSUME NEW q \in Calls, Publish(q)
      PROVE  release'[p] = release[p] \/ (p = q /\ release'[p].pc = "queued")
  BY <1>0, <1>1 DEF Publish, Queue, ReleaseState
<1>2. ASSUME NEW q \in Requests, AllocateStep(q)
      PROVE  \/ release'[p] = release[p]
             \/ release'[p].pc = "queued" /\ p \in Requests /\ RollbackPublish(p)
  <2>1. CASE RollbackPublish(q)
    BY <1>0, <1>1, <2>1 DEF RollbackPublish
  <2> QED
    BY <1>2, <2>1, AllocateFrame
<1>3. ASSUME NEW f \in Frees, FreeStep(f) \/ \E m \in Machines : FreeRead(f, m)
      PROVE  \/ release'[p] = release[p]
             \/ release'[p].pc = "queued" /\ p \in Frees /\ FreePublish(p)
  <2>1. CASE FreePublish(f)
    BY <1>0, <1>1, <2>1 DEF FreePublish
  <2>2. CASE FreeFails(f) \/ FreeUpdate(f) \/ \E m \in Machines : FreeRead(f, m)
    BY <2>2 DEF FreeFails, FreeUpdate, FreeRead
  <2> QED
    BY <1>3, <2>1, <2>2 DEF FreeStep
<1>4. ASSUME NEW q \in Calls, ReleaseStep(q) \/ RedeliverRelease(q)
      PROVE  \/ release'[p] = release[p]
             \/ ReleaseStep(p)
             \/ release'[p].pc = "queued" /\ RedeliverRelease(p)
  <2>1. CASE p = q
    BY <1>0, <1>4, <2>1 DEF RedeliverRelease, Queue, ReleaseState
  <2>2. CASE p # q
    BY <1>0, <1>4, <2>2 DEF ReleaseStep, ReleaseStart, ReleaseListed, ReleaseASN,
       ReleaseDangling, RedeliverRelease, Queue
  <2> QED
    BY <2>1, <2>2
<1>5. ASSUME NEW q \in Calls, NEW a \in IPs, IPReleaseStep(q, a) \/ RedeliverIPRelease(q, a)
      PROVE  UNCHANGED release
  BY <1>5 DEF IPReleaseStep, ReleaseIPFind, ReleaseIPDelete, ReleaseIPInIPAM, RedeliverIPRelease
<1>6. ASSUME NEW m \in Machines, NEW mode \in Modes, OtherWrite(m, mode)
      PROVE  UNCHANGED release
  BY <1>6 DEF OtherWrite
<1> QED
  BY <1>2, <1>3, <1>4, <1>5, <1>6, CutShortFrame DEF Next, Quiescent, vars

Rolled == {"reset", "failed", "crashed"}
Late == {"refetch", "commit", "rollback", "reset", "done", "failed", "crashed"}

LEMMA LateStays ==
  ASSUME TypeOK, [Next]_vars, NEW r \in Requests
  PROVE  /\ call[r].pc \in Rolled => call'[r].pc \in Rolled
         /\ call[r].pc \in Late => call'[r].pc \in Late
<1>0. call \in [Requests -> CallState] /\ call[r] \in CallState
  BY DEF TypeOK
<1>1. CASE AllocateStep(r)
  <2>1. ASSUME NEW m \in Machines
        PROVE  ~((NamedCandidate(r, m) \/ WaitingCandidate(r, m)) /\ call[r].pc \in Late)
    BY DEF NamedCandidate, WaitingCandidate, Late
  <2>2. ASSUME NEW a \in IPs
        PROVE  ~((GatherGiven(r, a) \/ AllocateRandomIP(r, a)) /\ call[r].pc \in Late)
    BY DEF GatherGiven, AllocateRandomIP, Late
  <2>3. ~(/\ \/ NoCandidate(r) \/ PreAllocate(r) \/ GatherAuto(r) \/ CreateIP(r) \/ AddMachineId(r)
             \/ \E n \in ASNs : AcquireASN(r, n)
          /\ call[r].pc \in Late)
    BY DEF NoCandidate, PreAllocate, GatherAuto, CreateIP, AddMachineId, AcquireASN, Late
  <2>4. CASE RefetchMachine(r)
    BY <1>0, <2>4 DEF RefetchMachine, CallState, Late, Rolled
  <2>5. CASE StepFails(r) \/ CommitAllocation(r) \/ RollbackPublish(r) \/ RollbackReset(r)
    BY <1>0, <2>5 DEF StepFails, CommitAllocation, RollbackPublish, RollbackReset, To,
                      CallState, Late, Rolled
  <2>6. Rolled \subseteq Late
    BY DEF Rolled, Late
  <2> QED
    BY <1>1, <2>1, <2>2, <2>3, <2>4, <2>5, <2>6, ConstantsAssumption DEF AllocateStep
<1>2. ASSUME NEW p \in Calls, CutShort(p), call'[r] # call[r]
      PROVE  /\ call'[r].pc \in {"failed", "crashed", "rollback"}
             /\ call'[r].pc = "rollback" => call[r].pc \in {"create", "commit"}
  BY <1>0, <1>2, CutShortFrame DEF CallState
<1>3. ASSUME NEW n \in Machines, NEW mode \in Modes, OtherWrite(n, mode)
      PROVE  call'[r] = call[r]
  BY <1>3 DEF OtherWrite
<1> QED
  BY <1>1, <1>2, <1>3, AllocateFrame, BusFrame, FreeFrame
     DEF Next, Quiescent, vars, Late, Rolled

LEMMA NextOwners ==
  ASSUME TypeOK, Shape, Snapshots, Owners, [Next]_vars
  PROVE  Owners'
<1> SUFFICES ASSUME NEW m \in Machines, NEW r \in Requests, machines'[m].allocation = r
             PROVE  call'[r].pc = "done" /\ On(r)' = m
  BY DEF Owners
<1>0. r # None /\ call \in [Requests -> CallState] /\ call[r] \in CallState
  BY ConstantsAssumption DEF TypeOK
<1>1. CASE machines'[m].allocation = machines[m].allocation
  <2>1. call[r].pc = "done" /\ On(r) = m
    BY <1>1 DEF Owners
  <2> QED
    BY <2>1, ServedStays DEF On
<1>2. CASE Commits(r, m)
  BY <1>0, <1>2 DEF Commits, CommitAllocation, To, CallState, On
<1> QED
  BY <1>0, <1>1, <1>2, RowWritten DEF Marks, Commits, Resets, Returns, Rewrites

LEMMA NextFreesOwned ==
  ASSUME TypeOK, Owners, FreesOwned, [Next]_vars
  PROVE  FreesOwned'
<1> SUFFICES ASSUME NEW f \in Frees, NEW r \in Requests,
                    free'[f].pc # "start", free'[f].seen.allocation = r
             PROVE  call[r].pc = "done"
  BY ServedStays DEF FreesOwned
<1>1. ASSUME NEW m \in Machines, FreeRead(f, m)
      PROVE  free'[f].seen = machines[m]
  BY <1>1 DEF FreeRead, TypeOK, FreeState
<1> QED
  BY <1>1, FreeMoved DEF FreesOwned, Owners

LEMMA NextFreesDiffer ==
  ASSUME "freeOnce" \in Assumed, TypeOK, FreesDiffer, [Next]_vars
  PROVE  FreesDiffer'
<1> SUFFICES ASSUME NEW f \in Frees, NEW g \in Frees, f # g,
                    free'[f].pc # "start", free'[g].pc # "start",
                    free'[f].seen.allocation = free'[g].seen.allocation
             PROVE  free'[f].seen.allocation = None
  BY DEF FreesDiffer
<1>1. ASSUME NEW x \in Frees, NEW y \in Frees, x # y, NEW m \in Machines, FreeRead(x, m),
             free'[x].seen.allocation = free'[y].seen.allocation, free'[y].pc # "start"
      PROVE  free'[x].seen.allocation = None
  <2>1. free'[x].seen = machines[m] /\ free'[y] = free[y]
    BY <1>1 DEF FreeRead, TypeOK, FreeState
  <2> QED
    BY <1>1, <2>1 DEF FreeRead
<1>2. CASE /\ free[f].pc # "start" /\ free'[f].seen = free[f].seen
           /\ free[g].pc # "start" /\ free'[g].seen = free[g].seen
  BY <1>2 DEF FreesDiffer
<1> QED
  BY <1>1, <1>2, FreeMoved

LEMMA NextReleasedAfter ==
  ASSUME TypeOK, ReleasedAfter, [Next]_vars
  PROVE  ReleasedAfter'
<1>0. /\ call \in [Requests -> CallState] /\ free \in [Frees -> FreeState]
      /\ Requests \subseteq Calls /\ Frees \subseteq Calls /\ Requests \cap Frees = {}
  BY ConstantsAssumption DEF TypeOK, Calls
<1>1. ASSUME NEW p \in Calls, ReleaseStep(p) \/ RedeliverRelease(p)
      PROVE  release[p].pc # "none"
  BY <1>1 DEF ReleaseStep, ReleaseStart, ReleaseListed, ReleaseASN, ReleaseDangling,
              RedeliverRelease, Again
<1>2. ASSUME NEW r \in Requests, release'[r].pc # "none"
      PROVE  call'[r].pc \in Rolled
  <2>1. CASE release[r].pc # "none"
    BY <2>1, LateStays DEF ReleasedAfter, Rolled
  <2>2. CASE RollbackPublish(r)
    BY <1>0, <2>2 DEF RollbackPublish, To, CallState, Rolled
  <2> QED
    BY <1>0, <1>1, <1>2, <2>1, <2>2, ReleaseMoved
<1>3. ASSUME NEW f \in Frees, release'[f].pc # "none"
      PROVE  free'[f].pc \notin {"start", "publish"}
  <2>1. CASE release[f].pc # "none"
    <3>1. free[f].pc \notin {"start", "publish"}
      BY <2>1 DEF ReleasedAfter
    <3> QED
      BY <3>1, FreeMoved DEF FreeRead
  <2>2. CASE FreePublish(f)
    BY <1>0, <2>2 DEF FreePublish, FreeState
  <2> QED
    BY <1>0, <1>1, <1>3, <2>1, <2>2, ReleaseMoved
<1> QED
  BY <1>2, <1>3 DEF ReleasedAfter, Rolled

\* Nothing was delivered twice after a step only if nothing was before it.
LEMMA DeliveredOnce ==
  ASSUME TypeOK, [Next]_vars, events'.redeliveries = 0
  PROVE  /\ events.redeliveries = 0
         /\ \A p \in Calls : ~RedeliverRelease(p) /\ \A a \in IPs : ~RedeliverIPRelease(p, a)
<1>0. /\ events \in [writes: Nat, interruptions: Nat, redeliveries: Nat]
      /\ events.redeliveries \in Nat
  BY DEF TypeOK
<1>1. Interrupted => events'.redeliveries = events.redeliveries
  BY <1>0 DEF Interrupted
<1>2. ASSUME NEW r \in Requests, AllocateStep(r)
      PROVE  UNCHANGED events \/ Interrupted
  BY <1>2 DEF AllocateStep, NamedCandidate, WaitingCandidate, NoCandidate, PreAllocate,
     GatherGiven, GatherAuto, AllocateRandomIP, CreateIP, AddMachineId, AcquireASN, StepFails,
     RefetchMachine, CommitAllocation, RollbackPublish, RollbackReset, Publish
<1>3. ASSUME NEW f \in Frees, FreeStep(f) \/ \E m \in Machines : FreeRead(f, m)
      PROVE  UNCHANGED events \/ Interrupted
  BY <1>3 DEF FreeStep, FreeRead, FreePublish, FreeFails, FreeUpdate, Publish
<1>4. ASSUME NEW p \in Calls, ReleaseStep(p) \/ CutShort(p)
      PROVE  UNCHANGED events \/ Interrupted
  BY <1>4 DEF ReleaseStep, ReleaseStart, ReleaseListed, ReleaseASN, ReleaseDangling, CutShort
<1>5. ASSUME NEW p \in Calls, NEW a \in IPs, IPReleaseStep(p, a)
      PROVE  UNCHANGED events
  BY <1>5 DEF IPReleaseStep, ReleaseIPFind, ReleaseIPDelete, ReleaseIPInIPAM
<1>6. ASSUME NEW m \in Machines, NEW mode \in Modes, OtherWrite(m, mode)
      PROVE  events'.redeliveries = events.redeliveries
  BY <1>0, <1>6 DEF OtherWrite
<1>7. ASSUME NEW p \in Calls, RedeliverRelease(p) \/ \E a \in IPs : RedeliverIPRelease(p, a)
      PROVE  FALSE
  BY <1>0, <1>7 DEF RedeliverRelease, RedeliverIPRelease
<1> QED
  BY <1>1, <1>2, <1>3, <1>4, <1>5, <1>6, <1>7 DEF Next, Quiescent, vars

\* Two calls never release the same allocation.
LEMMA OneRelease ==
  ASSUME TypeOK, ReleasesInv, NEW p \in Calls, NEW q \in Calls, p # q,
         release[p].pc # "none", release[q].pc # "none", AllocationOf(p) \in Requests
  PROVE  AllocationOf(p) # AllocationOf(q)
<1>0. None \notin Requests /\ Requests \cap Frees = {}
  BY ConstantsAssumption
<1>1. CASE p \in Requests /\ q \in Requests
  BY <1>1 DEF AllocationOf
<1>2. ASSUME NEW r \in Requests, NEW f \in Frees, release[r].pc # "none", release[f].pc # "none"
      PROVE  free[f].seen.allocation # r
  BY <1>2 DEF ReleasesInv, ReleasedAfter, FreesOwned
<1>3. CASE p \in Frees /\ q \in Frees
  BY <1>0, <1>3 DEF AllocationOf, ReleasesInv, ReleasedAfter, FreesDiffer
<1> QED
  BY <1>0, <1>1, <1>2, <1>3 DEF AllocationOf, Calls

\* A release that began keeps its allocation.
LEMMA ReleasedAllocation ==
  ASSUME TypeOK, ReleasedAfter, [Next]_vars, NEW p \in Calls, release[p].pc # "none"
  PROVE  AllocationOf(p)' = AllocationOf(p)
<1>1. CASE p \in Requests
  BY <1>1 DEF AllocationOf
<1>2. CASE p \notin Requests
  <2>1. p \in Frees /\ free[p].pc # "start"
    BY <1>2 DEF Calls, ReleasedAfter
  <2>2. free'[p].seen = free[p].seen
    BY <2>1, FreeMoved DEF FreeRead
  <2> QED
    BY <1>2, <2>2 DEF AllocationOf
<1> QED
  BY <1>1, <1>2

\* What was returned stays returned, until a message is handled again.
LEMMA ReturnedStays ==
  ASSUME TypeOK, ReleasedAfter, [Next]_vars, events'.redeliveries = 0,
         NEW r \in Requests, ASNReturned(r)
  PROVE  ASNReturned(r)'
<1>0. PICK p \in Calls : AllocationOf(p) = r /\ release[p].pc \in {"dangling", "done"}
  BY DEF ASNReturned
<1>1. AllocationOf(p)' = r
  BY <1>0, ReleasedAllocation
<1>2. ~(p \in Requests /\ RollbackPublish(p)) /\ ~(p \in Frees /\ FreePublish(p))
  BY <1>0 DEF ReleasedAfter, RollbackPublish, FreePublish
<1>3. ReleaseStep(p) => release'[p].pc \in {"dangling", "done"}
  BY <1>0 DEF ReleaseStep, ReleaseStart, ReleaseListed, ReleaseASN, ReleaseDangling, TypeOK,
              ReleaseState
<1>4. release'[p].pc \in {"dangling", "done"}
  BY <1>0, <1>2, <1>3, ReleaseMoved, DeliveredOnce
<1> QED
  BY <1>1, <1>4 DEF ASNReturned

\* What somebody holds after a step, they acquired in it or held before.
LEMMA HeldBefore ==
  ASSUME TypeOK, ReleasedAfter, [Next]_vars, events'.redeliveries = 0,
         NEW r \in Requests, HoldsASN(r)', \A n \in ASNs : ~AcquireASN(r, n)
  PROVE  HoldsASN(r) /\ alloc'[r].asn = alloc[r].asn
<1>1. alloc'[r].asn = alloc[r].asn
  <2>1. alloc \in [Requests -> Allocation] /\ alloc[r] \in Allocation
    BY DEF TypeOK
  <2>2. AddMachineId(r) => alloc'[r].asn = alloc[r].asn
    BY <2>1 DEF AddMachineId, Allocation
  <2> QED
    BY <2>2, AllocMoved
<1> QED
  BY <1>1, ReturnedStays DEF HoldsASN

LEMMA NextASNHeldOnce ==
  ASSUME TypeOK, Shape, ReleasesInv, ASNHeldOnce, [Next]_vars
  PROVE  ASNHeldOnce'
<1> SUFFICES ASSUME events'.redeliveries = 0
             PROVE  \A r \in Requests : HoldsASN(r)' =>
                       /\ alloc'[r].asn \notin pool'
                       /\ \A q \in Requests \ {r} : HoldsASN(q)' => alloc'[q].asn # alloc'[r].asn
  BY DEF ASNHeldOnce
<1>0. /\ events.redeliveries = 0 /\ ReleasedAfter
      /\ alloc \in [Requests -> Allocation] /\ release \in [Calls -> ReleaseState]
  BY DeliveredOnce DEF TypeOK, ReleasesInv
<1>1. ASSUME NEW r \in Requests, NEW n \in ASNs, AcquireASN(r, n)
      PROVE  ASNHeldOnce'
  <2>1. alloc'[r].asn = n /\ pool' = pool \ {n} /\ n \in pool
    BY <1>0, <1>1 DEF AcquireASN, PoolWithout, Allocation
  <2>2. ASSUME NEW q \in Requests, q # r, HoldsASN(q)'
        PROVE  HoldsASN(q) /\ alloc'[q].asn = alloc[q].asn /\ alloc[q].asn \notin pool
    <3>1. alloc'[q] = alloc[q]
      BY <1>0, <1>1, <2>2 DEF AcquireASN
    <3>2. HoldsASN(q)
      BY <1>0, <2>2, <3>1, ReturnedStays DEF HoldsASN
    <3> QED
      BY <1>0, <3>1, <3>2 DEF ASNHeldOnce
  <2>3. ASSUME NEW q \in Requests, HoldsASN(q)'
        PROVE  alloc'[q].asn \notin pool'
    BY <2>1, <2>2, <2>3
  <2>4. ASSUME NEW q \in Requests, NEW s \in Requests \ {q}, HoldsASN(q)', HoldsASN(s)'
        PROVE  alloc'[s].asn # alloc'[q].asn
    <3>1. CASE q # r /\ s # r
      BY <1>0, <2>2, <2>4, <3>1 DEF ASNHeldOnce
    <3> QED
      BY <2>1, <2>2, <2>4, <3>1
  <2> QED
    BY <2>3, <2>4 DEF ASNHeldOnce
<1>2. CASE \A r \in Requests, n \in ASNs : ~AcquireASN(r, n)
  <2>1. \A r \in Requests : HoldsASN(r)' => HoldsASN(r) /\ alloc'[r].asn = alloc[r].asn
    BY <1>0, <1>2, HeldBefore
  <2>2. ASSUME NEW p \in Calls, ReleaseASN(p), NEW r \in Requests, HoldsASN(r)'
        PROVE  alloc[r].asn \notin pool'
    <3> DEFINE s == AllocationOf(p)
    <3>1. release[p].pc = "listed" /\ release'[p].pc = "dangling" /\ AllocationOf(p)' = s
      <4>1. release[p].pc = "listed" /\ release'[p].pc = "dangling"
        BY <1>0, <2>2 DEF ReleaseASN, ReleaseState
      <4> QED
        BY <1>0, <4>1, ReleasedAllocation
    <3>2. s \in Requests
      BY <3>1 DEF AllocationOf, Calls, Shape, TypeOK, FreeState, MachineRow
    <3>3. s # r
      BY <2>2, <3>1 DEF HoldsASN, ASNReturned
    <3>4. ~ASNReturned(s)
      BY <3>1, <3>2, OneRelease DEF ASNReturned
    <3>5. alloc[s].asn = None \/ HoldsASN(s)
      BY <3>4 DEF HoldsASN
    <3>6. HoldsASN(r)
      BY <2>1, <2>2
    <3>7. alloc[r].asn \notin pool /\ (alloc[s].asn # None => alloc[s].asn # alloc[r].asn)
      BY <1>0, <3>2, <3>3, <3>5, <3>6 DEF ASNHeldOnce
    <3> QED
      BY <2>2, <3>7 DEF ReleaseASN, ReturnedASNs
  <2>3. UNCHANGED pool \/ \E p \in Calls : ReleaseASN(p)
    BY <1>2, PoolMoved
  <2> QED
    BY <1>0, <2>1, <2>2, <2>3 DEF ASNHeldOnce
<1> QED
  BY <1>1, <1>2 DEF ASNHeldOnce

LEMMA InitReleases == Init => ReleasesInv /\ ASNHeldOnce
<1> SUFFICES ASSUME Init PROVE ReleasesInv /\ ASNHeldOnce
  OBVIOUS
<1>1. /\ \A f \in Frees : free[f].pc = "start" /\ release[f].pc = "none"
      /\ \A r \in Requests : release[r].pc = "none" /\ alloc[r].asn = None
  BY DEF Init, Calls
<1>2. \A m \in Machines, r \in Requests : machines[m].allocation # r
  BY ConstantsAssumption DEF Init, NoRow
<1> QED
  BY <1>1, <1>2 DEF ReleasesInv, Owners, FreesOwned, FreesDiffer, ReleasedAfter, ASNHeldOnce, HoldsASN

LEMMA ReleasesInvariant ==
  ASSUME "freeOnce" \in Assumed
  PROVE  Spec => []ReleasesInv
<1>1. AllocationInv /\ ReleasesInv /\ [Next]_vars => ReleasesInv'
  BY NextOwners, NextFreesOwned, NextFreesDiffer, NextReleasedAfter DEF AllocationInv, ReleasesInv
<1> QED
  BY <1>1, InitReleases, AllocationInvariant, PTL DEF Spec

\* An ASN of the pool is held by one allocation at a time and not on offer meanwhile, if no
\* message is handled twice and an allocation is freed by one call.
THEOREM ASNOwnedByOne ==
  ASSUME "freeOnce" \in Assumed
  PROVE  Spec => []ASNHeldOnce
<1>1. AllocationInv /\ ReleasesInv /\ ASNHeldOnce /\ [Next]_vars => ASNHeldOnce'
  BY NextASNHeldOnce DEF AllocationInv
<1> QED
  BY <1>1, InitReleases, AllocationInvariant, ReleasesInvariant, PTL DEF Spec

-----------------------------------------------------------------------------
(* The ip table and the IPAM: IPAMCoversTable and ConnectedIPKept.           *)

\* Addresses that allocations acquire and releases give back.
Automatic == IPs \ GivenIPs

\* A message releaseIP is on its way, or a request has an address without a row.
Pending(p, a) == ipRelease[p][a] \in {"queued", "delete", "ipam"}
Creating(r, a) == call[r].pc = "create" /\ call[r].ip = a

\* An address that is being released is connected to nothing, and nobody else has it.
PendingInv == \A p \in Calls, a \in IPs : Pending(p, a) =>
    /\ a \in Automatic /\ a \in ipam /\ ips[a].tags = {}
    /\ ipRelease[p][a] = "ipam" => ~ips[a].exists
    /\ \A r \in Requests : ~Creating(r, a)
    /\ \A q \in Calls \ {p} : ~Pending(q, a)

\* An acquired address is created by one request, and belongs to one machine from then on.
CreatingInv == \A r \in Requests, a \in IPs : Creating(r, a) =>
    /\ a \in Automatic /\ a \in ipam /\ ~ips[a].exists
    /\ \A q \in Requests \ {r} : ~Creating(q, a)
RowsInv == \A a \in IPs :
    /\ ips[a].exists => a \in ipam
    /\ ~ips[a].exists => ips[a].tags = {}
    /\ a \in GivenIPs => ips[a].exists
    /\ a \in Automatic => \A m, n \in ips[a].tags : m = n

\* The stamp that a request compares is not ahead of the row's, and while it is the row's,
\* an acquired address has the tag that the request gave it.
TaggingInv == \A r \in Requests : call[r].pc = "tag" =>
    /\ call[r].ipChanged <= ips[call[r].ip].changed
    /\ call[r].ip \in Automatic /\ call[r].ipChanged = ips[call[r].ip].changed
          => ips[call[r].ip].tags = {On(r)}

IPInv == PendingInv /\ CreatingInv /\ RowsInv /\ TaggingInv

\* Most steps leave the addresses alone.
AddressesAlone ==
    /\ UNCHANGED <<ips, ipam, ipRelease>>
    /\ \A r \in Requests : call'[r].pc \in {"create", "tag"} => call'[r] = call[r]

LEMMA AddressSteps ==
  ASSUME TypeOK, [Next]_vars
  PROVE  \/ AddressesAlone
         \/ \E r \in Requests :
              \/ \E a \in GivenIPs : GatherGiven(r, a)
              \/ \E a \in IPs : AllocateRandomIP(r, a)
              \/ CreateIP(r)
              \/ AddMachineId(r)
         \/ \E p \in Calls :
              \/ \E a \in IPs : ReleaseListed(p, a)
              \/ ReleaseDangling(p)
         \/ \E p \in Calls, a \in IPs : IPReleaseStep(p, a) \/ RedeliverIPRelease(p, a)
<1>0. call \in [Requests -> CallState]
  BY DEF TypeOK
<1>1. ASSUME NEW r \in Requests, NEW pc, pc \notin {"create", "tag"}, To(r, pc)
      PROVE  \A q \in Requests : call'[q].pc \in {"create", "tag"} => call'[q] = call[q]
  BY <1>0, <1>1 DEF To, CallState
<1>2. ASSUME NEW r \in Requests, AllocateStep(r),
             ~\E a \in GivenIPs : GatherGiven(r, a), ~\E a \in IPs : AllocateRandomIP(r, a),
             ~CreateIP(r), ~AddMachineId(r)
      PROVE  AddressesAlone
  <2>1. ASSUME NEW m \in Machines, NamedCandidate(r, m) \/ WaitingCandidate(r, m)
        PROVE  AddressesAlone
    BY <1>0, <2>1 DEF NamedCandidate, WaitingCandidate, AddressesAlone, CallState
  <2>2. CASE NoCandidate(r) \/ GatherAuto(r) \/ StepFails(r) \/ (\E n \in ASNs : AcquireASN(r, n))
    BY <1>1, <2>2 DEF NoCandidate, GatherAuto, StepFails, AcquireASN, AddressesAlone
  <2>3. CASE PreAllocate(r) /\ ~Current(call[r].candidate)
    BY <1>1, <2>3 DEF PreAllocate, AddressesAlone
  <2>4. CASE PreAllocate(r) /\ Current(call[r].candidate)
    BY <1>0, <2>4 DEF PreAllocate, AddressesAlone, CallState
  <2>5. CASE RefetchMachine(r)
    BY <1>0, <2>5 DEF RefetchMachine, AddressesAlone, CallState
  <2>6. CASE CommitAllocation(r) \/ RollbackPublish(r) \/ RollbackReset(r)
    BY <1>1, <2>6 DEF CommitAllocation, RollbackPublish, RollbackReset, AddressesAlone
  <2> QED
    BY <1>2, <2>1, <2>2, <2>3, <2>4, <2>5, <2>6 DEF AllocateStep
<1>3. ASSUME NEW f \in Frees, FreeStep(f) \/ \E m \in Machines : FreeRead(f, m)
      PROVE  AddressesAlone
  BY <1>3 DEF FreeStep, FreeRead, FreePublish, FreeFails, FreeUpdate, AddressesAlone
<1>4. ASSUME NEW p \in Calls, ReleaseStart(p) \/ ReleaseASN(p) \/ RedeliverRelease(p)
      PROVE  AddressesAlone
  BY <1>4 DEF ReleaseStart, ReleaseASN, RedeliverRelease, AddressesAlone
<1>5. ASSUME NEW p \in Calls, CutShort(p)
      PROVE  AddressesAlone
  <2>1. UNCHANGED <<ips, ipam, ipRelease>>
    BY <1>5 DEF CutShort, DatastoreFails, Crash
  <2> QED
    BY <1>0, <1>5, <2>1, CutShortFrame DEF AddressesAlone, CallState
<1>6. ASSUME NEW m \in Machines, NEW mode \in Modes, OtherWrite(m, mode)
      PROVE  AddressesAlone
  BY <1>6 DEF OtherWrite, AddressesAlone
<1>7. UNCHANGED vars => AddressesAlone
  BY DEF vars, AddressesAlone
<1> QED
  BY <1>2, <1>3, <1>4, <1>5, <1>6, <1>7 DEF Next, ReleaseStep, Quiescent

LEMMA AloneIPInv ==
  ASSUME TypeOK, IPInv, AddressesAlone
  PROVE  IPInv'
<1>1. \A r \in Requests, a \in IPs : Creating(r, a)' => Creating(r, a)
  BY DEF AddressesAlone, Creating
<1>2. PendingInv'
  BY <1>1 DEF IPInv, PendingInv, AddressesAlone, Pending
<1>3. CreatingInv'
  BY <1>1 DEF IPInv, CreatingInv, AddressesAlone
<1>4. RowsInv'
  BY DEF IPInv, RowsInv, AddressesAlone
<1>5. TaggingInv'
  BY DEF IPInv, TaggingInv, AddressesAlone, On
<1> QED
  BY <1>2, <1>3, <1>4, <1>5 DEF IPInv

LEMMA GatherGivenIPInv ==
  ASSUME TypeOK, IPInv, NEW r \in Requests, NEW a \in GivenIPs, GatherGiven(r, a)
  PROVE  IPInv'
<1>0. /\ a \in IPs /\ a \notin Automatic /\ ips[a].changed \in Nat
      /\ call \in [Requests -> CallState] /\ call[r] \in CallState
  BY ConstantsAssumption DEF TypeOK, IPRow, Automatic
<1>1. /\ call'[r].pc = "tag" /\ call'[r].ip = a /\ call'[r].ipChanged = ips[a].changed
      /\ \A q \in Requests \ {r} : call'[q] = call[q]
      /\ UNCHANGED <<ips, ipam, ipRelease>>
  <2> DEFINE c == ips[a].changed
  <2>1. call' = [call EXCEPT ![r].pc = "tag", ![r].ip = a, ![r].ipChanged = c]
    BY DEF GatherGiven
  <2> HIDE DEF c
  <2>2. /\ call'[r].pc = "tag" /\ call'[r].ip = a /\ call'[r].ipChanged = c
        /\ \A q \in Requests \ {r} : call'[q] = call[q]
    BY <1>0, <2>1 DEF CallState
  <2> QED
    BY <2>2 DEF GatherGiven, c
<1>2. \A q \in Requests, b \in IPs : Creating(q, b)' => Creating(q, b)
  BY <1>1 DEF Creating
<1>3. PendingInv'
  BY <1>1, <1>2 DEF IPInv, PendingInv, Pending
<1>4. CreatingInv'
  BY <1>1, <1>2 DEF IPInv, CreatingInv
<1>5. RowsInv'
  BY <1>1 DEF IPInv, RowsInv
<1>6. TaggingInv'
  BY <1>0, <1>1 DEF IPInv, TaggingInv, On
<1> QED
  BY <1>3, <1>4, <1>5, <1>6 DEF IPInv

LEMMA AllocateRandomIPInv ==
  ASSUME TypeOK, IPInv, NEW r \in Requests, NEW a \in IPs, AllocateRandomIP(r, a)
  PROVE  IPInv'
<1>0. call \in [Requests -> CallState] /\ call[r] \in CallState
  BY DEF TypeOK
<1>1. /\ call'[r].pc = "create" /\ call'[r].ip = a
      /\ \A q \in Requests \ {r} : call'[q] = call[q]
      /\ UNCHANGED <<ips, ipRelease>> /\ ipam' = ipam \cup {a} /\ a \notin ipam
  BY <1>0 DEF AllocateRandomIP, CallState
<1>2. a \in Automatic /\ ~ips[a].exists
  BY <1>1 DEF IPInv, RowsInv, Automatic
<1>3. \A q \in Requests : ~Creating(q, a)
  BY <1>1 DEF IPInv, CreatingInv
<1>4. \A p \in Calls : ~Pending(p, a)
  BY <1>1 DEF IPInv, PendingInv
<1>5. \A q \in Requests, b \in IPs : Creating(q, b)' <=> (Creating(q, b) /\ q # r) \/ (q = r /\ b = a)
  BY <1>1 DEF Creating
<1>6. PendingInv'
  BY <1>1, <1>4, <1>5 DEF IPInv, PendingInv, Pending
<1>7. CreatingInv'
  BY <1>1, <1>2, <1>3, <1>5 DEF IPInv, CreatingInv
<1>8. RowsInv'
  BY <1>1 DEF IPInv, RowsInv
<1>9. TaggingInv'
  BY <1>1 DEF IPInv, TaggingInv, On
<1> QED
  BY <1>6, <1>7, <1>8, <1>9 DEF IPInv

LEMMA CreateIPInv ==
  ASSUME TypeOK, Shape, IPInv, NEW r \in Requests, CreateIP(r)
  PROVE  IPInv'
<1> DEFINE a == call[r].ip
           stamp == ips[a].changed + 1
           row == [exists |-> TRUE, tags |-> {On(r)}, changed |-> stamp]
<1>0. /\ call \in [Requests -> CallState] /\ call[r] \in CallState /\ ips \in [IPs -> IPRow]
      /\ a \in IPs /\ Creating(r, a) /\ ips[a].changed \in Nat
      /\ \A q \in Requests : call[q].ipChanged \in Nat
  BY DEF TypeOK, Shape, CreateIP, Creating, CallState, IPRow
<1>1. a \in Automatic /\ a \in ipam /\ ~ips[a].exists
  BY <1>0 DEF IPInv, CreatingInv
<1>2. /\ ips' = [ips EXCEPT ![a] = row]
      /\ call' = [call EXCEPT ![r].pc = "tag", ![r].ipChanged = stamp]
      /\ UNCHANGED <<ipam, ipRelease>>
  BY <1>0, <1>1 DEF CreateIP, On
<1> HIDE DEF row, stamp
<1>3. /\ call'[r].pc = "tag" /\ call'[r].ip = a /\ call'[r].ipChanged = stamp
      /\ On(r)' = On(r)
      /\ \A q \in Requests \ {r} : call'[q] = call[q]
      /\ ips'[a] = row /\ \A b \in IPs \ {a} : ips'[b] = ips[b]
  BY <1>0, <1>2 DEF CallState, On
<1>4. row.exists /\ row.tags = {On(r)} /\ row.changed = stamp /\ stamp = ips[a].changed + 1
  BY DEF row, stamp
<1>5. \A q \in Requests, b \in IPs : Creating(q, b)' => Creating(q, b) /\ b # a
  BY <1>0, <1>3 DEF Creating, IPInv, CreatingInv
<1>6. \A p \in Calls : ~Pending(p, a)
  BY <1>0 DEF IPInv, PendingInv
<1>7. PendingInv'
  BY <1>2, <1>3, <1>5, <1>6 DEF IPInv, PendingInv, Pending
<1>8. CreatingInv'
  BY <1>2, <1>3, <1>5 DEF IPInv, CreatingInv
<1>9. RowsInv'
  BY <1>1, <1>2, <1>3, <1>4 DEF IPInv, RowsInv
<1>10. TaggingInv'
  <2>1. ASSUME NEW q \in Requests \ {r}, call'[q].pc = "tag"
        PROVE  /\ call'[q].ipChanged <= ips'[call'[q].ip].changed
               /\ call'[q].ip \in Automatic /\ call'[q].ipChanged = ips'[call'[q].ip].changed
                     => ips'[call'[q].ip].tags = {On(q)'}
    <3>1. call'[q] = call[q] /\ call[q].ip \in IPs /\ On(q)' = On(q)
      BY <1>3, <2>1 DEF Shape, On
    <3>2. call[q].ipChanged <= ips[call[q].ip].changed
      BY <2>1, <3>1 DEF IPInv, TaggingInv
    <3>3. CASE call[q].ip = a
      BY <1>0, <1>3, <1>4, <3>1, <3>2, <3>3
    <3>4. CASE call[q].ip # a
      BY <1>3, <2>1, <3>1, <3>4 DEF IPInv, TaggingInv
    <3> QED
      BY <3>3, <3>4
  <2>2. stamp \in Nat
    BY <1>0, <1>4
  <2> QED
    BY <1>3, <1>4, <2>1, <2>2 DEF TaggingInv
<1> QED
  BY <1>7, <1>8, <1>9, <1>10 DEF IPInv

\* A write of a row moves its stamp, so that whoever read it before is told.
LEMMA TaggingKept ==
  ASSUME TypeOK, Shape, TaggingInv,
         \A a \in IPs : ips'[a] = ips[a] \/ ips'[a].changed = ips[a].changed + 1,
         \A r \in Requests : call'[r].pc = "tag" => call'[r] = call[r]
  PROVE  TaggingInv'
<1> SUFFICES ASSUME NEW r \in Requests, call'[r].pc = "tag"
             PROVE  /\ call'[r].ipChanged <= ips'[call'[r].ip].changed
                    /\ call'[r].ip \in Automatic /\ call'[r].ipChanged = ips'[call'[r].ip].changed
                          => ips'[call'[r].ip].tags = {On(r)'}
  BY DEF TaggingInv
<1>1. call'[r] = call[r] /\ On(r)' = On(r)
  BY DEF On
<1>2. call[r].ip \in IPs /\ ips[call[r].ip].changed \in Nat /\ call[r].ipChanged \in Nat
  BY <1>1 DEF Shape, TypeOK, CallState, IPRow
<1>3. call[r].ipChanged <= ips[call[r].ip].changed
  BY <1>1 DEF TaggingInv
<1>4. CASE ips'[call[r].ip] = ips[call[r].ip]
  BY <1>1, <1>4 DEF TaggingInv
<1>5. CASE ips'[call[r].ip].changed = ips[call[r].ip].changed + 1
  BY <1>1, <1>2, <1>3, <1>5
<1> QED
  BY <1>2, <1>4, <1>5

LEMMA AddMachineIdIPInv ==
  ASSUME TypeOK, Shape, IPInv, NEW r \in Requests, AddMachineId(r)
  PROVE  IPInv'
<1> DEFINE a == call[r].ip
           row == [ips[a] EXCEPT !.tags = Tagged(a, On(r)), !.changed = @ + 1]
<1>0. /\ call \in [Requests -> CallState] /\ ips \in [IPs -> IPRow]
      /\ a \in IPs /\ call[r].pc = "tag" /\ ips[a] \in IPRow
  BY DEF TypeOK, Shape, AddMachineId
<1>1. /\ call'[r].pc \notin {"create", "tag"} /\ UNCHANGED <<ipam, ipRelease>>
      /\ \A q \in Requests \ {r} : call'[q] = call[q]
  BY <1>0 DEF AddMachineId, To, CallState
<1>2. \A q \in Requests, b \in IPs : Creating(q, b)' => Creating(q, b)
  BY <1>1 DEF Creating
<1>3. CASE UNCHANGED ips
  BY <1>1, <1>3, AloneIPInv DEF AddressesAlone
<1>4. CASE ~UNCHANGED ips
  <2>1. ips[a].exists /\ ips[a].changed = call[r].ipChanged /\ ips' = [ips EXCEPT ![a] = row]
    BY <1>4 DEF AddMachineId, On
  <2>2. row.exists = ips[a].exists /\ row.tags = ips[a].tags \cup {On(r)}
        /\ row.changed = ips[a].changed + 1
    BY <1>0 DEF IPRow, Tagged
  <2> HIDE DEF row
  <2>3. ips'[a] = row /\ \A b \in IPs \ {a} : ips'[b] = ips[b]
    BY <1>0, <2>1
  <2>4. a \in Automatic => ips[a].tags = {On(r)}
    BY <1>0, <2>1 DEF IPInv, TaggingInv
  <2>5. \A p \in Calls : ~Pending(p, a)
    BY <1>0, <2>4 DEF IPInv, PendingInv
  <2>6. \A q \in Requests : ~Creating(q, a)
    BY <1>0, <2>1 DEF IPInv, CreatingInv
  <2>7. PendingInv'
    BY <1>1, <1>2, <2>3, <2>5 DEF IPInv, PendingInv, Pending
  <2>8. CreatingInv'
    BY <1>1, <1>2, <2>3, <2>6 DEF IPInv, CreatingInv
  <2>9. RowsInv'
    <3>1. \A b \in IPs : ips'[b].exists = ips[b].exists
      BY <2>2, <2>3
    <3>2. \A b \in IPs \cap Automatic : ips'[b].tags = ips[b].tags
      BY <2>2, <2>3, <2>4
    <3>3. ~ips[a].exists => FALSE
      BY <2>1
    <3> QED
      BY <1>1, <2>3, <3>1, <3>2, <3>3 DEF IPInv, RowsInv
  <2>10. TaggingInv'
    BY <1>1, <2>2, <2>3, TaggingKept DEF IPInv
  <2> QED
    BY <2>7, <2>8, <2>9, <2>10 DEF IPInv
<1> QED
  BY <1>3, <1>4

\* What disassociateIP does to an address and to the message about it.
Ignored(a) == ips'[a] = ips[a] /\ \A p \in Calls : ipRelease'[p][a] = ipRelease[p][a]
Dropped(p, m, a) ==
    /\ m \in ips[a].tags /\ ips[a].exists /\ ips'[a].exists
    /\ ips'[a].tags = ips[a].tags \ {m} /\ ips'[a].changed = ips[a].changed + 1
    /\ \A q \in Calls \ {p} : ipRelease'[q][a] = ipRelease[q][a]
    /\ \/ ipRelease'[p][a] = ipRelease[p][a]
       \/ ipRelease'[p][a] = "queued" /\ a \notin StaticIPs /\ ips[a].tags = {m}

LEMMA Disassociated ==
  ASSUME TypeOK, NEW p \in Calls, NEW A \in SUBSET IPs, NEW m, Disassociate(p, A, m)
  PROVE  \A a \in IPs : Ignored(a) \/ (a \in A /\ Dropped(p, m, a))
<1> SUFFICES ASSUME NEW a \in IPs PROVE Ignored(a) \/ (a \in A /\ Dropped(p, m, a))
  OBVIOUS
<1> DEFINE tagged == {b \in A : ips[b].exists /\ m \in ips[b].tags}
           unused == {b \in tagged \cap Ephemeral : ips[b].tags = {m}}
           row == [ips[a] EXCEPT !.tags = @ \ {m}, !.changed = @ + 1]
<1>0. /\ ipRelease \in [Calls -> [IPs -> IPReleasePC]] /\ ips[a] \in IPRow
  BY DEF TypeOK
<1>1. ips'[a] = IF a \in tagged THEN row ELSE ips[a]
  BY DEF Disassociate
<1>2. /\ ipRelease'[p][a] = IF a \in unused THEN "queued" ELSE ipRelease[p][a]
      /\ \A q \in Calls \ {p} : ipRelease'[q] = ipRelease[q]
  BY <1>0 DEF Disassociate
<1>3. row.exists = ips[a].exists /\ row.tags = ips[a].tags \ {m} /\ row.changed = ips[a].changed + 1
  BY <1>0 DEF IPRow
<1> HIDE DEF row
<1>4. CASE a \in tagged
  BY <1>1, <1>2, <1>3, <1>4 DEF Ephemeral, Dropped
<1>5. CASE a \notin tagged
  BY <1>1, <1>2, <1>5 DEF Ignored
<1> QED
  BY <1>4, <1>5

LEMMA DisassociateIPInv ==
  ASSUME GivenIPs \subseteq StaticIPs, TypeOK, Shape, IPInv, NEW p \in Calls, NEW A \in SUBSET IPs,
         NEW m, Disassociate(p, A, m), UNCHANGED <<ipam, call>>
  PROVE  IPInv'
<1>0. \A a \in IPs : Ignored(a) \/ Dropped(p, m, a)
  BY Disassociated
<1>1. \A q \in Requests, b \in IPs : Creating(q, b)' = Creating(q, b)
  BY DEF Creating
<1>2. ASSUME NEW q \in Calls, NEW a \in IPs, Pending(q, a)'
      PROVE  /\ a \in Automatic /\ a \in ipam /\ ips'[a].tags = {}
             /\ ipRelease'[q][a] = "ipam" => ~ips'[a].exists
             /\ \A r \in Requests : ~Creating(r, a)
             /\ \A s \in Calls \ {q} : ~Pending(s, a)'
  <2>1. CASE Ignored(a)
    BY <1>2, <2>1 DEF IPInv, PendingInv, Pending, Ignored
  <2>2. CASE Dropped(p, m, a)
    <3>1. \A s \in Calls : ~Pending(s, a)
      BY <2>2 DEF IPInv, PendingInv, Dropped
    <3>2. q = p /\ ipRelease'[p][a] = "queued" /\ a \notin StaticIPs /\ ips[a].tags = {m}
      BY <1>2, <2>2, <3>1 DEF Pending, Dropped
    <3>3. a \in Automatic /\ a \in ipam /\ \A r \in Requests : ~Creating(r, a)
      BY <2>2, <3>2 DEF IPInv, RowsInv, CreatingInv, Automatic, Dropped
    <3> QED
      BY <2>2, <3>1, <3>2, <3>3 DEF Pending, Dropped
  <2> QED
    BY <1>0, <2>1, <2>2
<1>3. PendingInv'
  BY <1>1, <1>2 DEF PendingInv
<1>4. CreatingInv'
  BY <1>0, <1>1 DEF IPInv, CreatingInv, Ignored, Dropped
<1>5. RowsInv'
  <2>1. \A a \in IPs : (ips'[a].exists <=> ips[a].exists) /\ ips'[a].tags \subseteq ips[a].tags
    BY <1>0 DEF Ignored, Dropped
  <2> QED
    BY <2>1 DEF IPInv, RowsInv
<1>6. TaggingInv'
  BY <1>0, TaggingKept DEF IPInv, Ignored, Dropped
<1> QED
  BY <1>3, <1>4, <1>5, <1>6 DEF IPInv

LEMMA IPReleaseIPInv ==
  ASSUME "acked" \in Assumed, TypeOK, Shape, IPInv, NEW p \in Calls, NEW a \in IPs,
         IPReleaseStep(p, a) \/ RedeliverIPRelease(p, a)
  PROVE  IPInv'
<1>0. /\ ipRelease \in [Calls -> [IPs -> IPReleasePC]] /\ ips \in [IPs -> IPRow]
      /\ ips[a].changed \in Nat
  BY DEF TypeOK, IPRow
<1>1. /\ Pending(p, a) /\ UNCHANGED call
      /\ \A q \in Calls, b \in IPs : q # p \/ b # a => ipRelease'[q][b] = ipRelease[q][b]
  BY <1>0 DEF IPReleaseStep, ReleaseIPFind, ReleaseIPDelete, ReleaseIPInIPAM,
              RedeliverIPRelease, Again, Pending, IPReleasePC
<1>2. /\ a \in Automatic /\ a \in ipam /\ ips[a].tags = {}
      /\ ipRelease[p][a] = "ipam" => ~ips[a].exists
      /\ \A r \in Requests : ~Creating(r, a)
      /\ \A q \in Calls \ {p} : ~Pending(q, a)
  BY <1>1 DEF IPInv, PendingInv
<1>3. \A q \in Requests, b \in IPs : Creating(q, b)' = Creating(q, b)
  BY <1>1 DEF Creating
<1>4. /\ \A b \in IPs \ {a} : ips'[b] = ips[b] /\ (b \in ipam' <=> b \in ipam)
      /\ ips'[a].tags = {} /\ (ips'[a].exists => ips[a].exists)
      /\ ips'[a] = ips[a] \/ ips'[a].changed = ips[a].changed + 1
  BY <1>0, <1>2 DEF IPReleaseStep, ReleaseIPFind, ReleaseIPDelete, ReleaseIPInIPAM,
                    RedeliverIPRelease
<1>5. /\ Pending(p, a)' \/ ips'[a].exists => a \in ipam'
      /\ ipRelease'[p][a] = "ipam" => ~ips'[a].exists
  BY <1>0, <1>2 DEF IPReleaseStep, ReleaseIPFind, ReleaseIPDelete, ReleaseIPInIPAM,
                    RedeliverIPRelease, Pending
<1>6. PendingInv'
  BY <1>1, <1>2, <1>3, <1>4, <1>5 DEF IPInv, PendingInv, Pending
<1>7. CreatingInv'
  BY <1>2, <1>3, <1>4 DEF IPInv, CreatingInv
<1>8. RowsInv'
  BY <1>2, <1>4, <1>5 DEF IPInv, RowsInv, Automatic
<1>9. TaggingInv'
  BY <1>1, <1>4, TaggingKept DEF IPInv
<1> QED
  BY <1>6, <1>7, <1>8, <1>9 DEF IPInv

LEMMA NextIPInv ==
  ASSUME "acked" \in Assumed, GivenIPs \subseteq StaticIPs, TypeOK, Shape, IPInv, [Next]_vars
  PROVE  IPInv'
<1>1. ASSUME NEW p \in Calls, ReleaseDangling(p)
      PROVE  IPInv'
  BY <1>1, DisassociateIPInv DEF ReleaseDangling
<1>2. ASSUME NEW p \in Calls, NEW a \in IPs, ReleaseListed(p, a)
      PROVE  IPInv'
  <2>1. {a} \in SUBSET IPs
    OBVIOUS
  <2> QED
    BY <1>2, <2>1, DisassociateIPInv DEF ReleaseListed
<1> QED
  BY <1>1, <1>2, AddressSteps, AloneIPInv, GatherGivenIPInv, AllocateRandomIPInv, CreateIPInv,
     AddMachineIdIPInv, IPReleaseIPInv

LEMMA IPInvariant ==
  ASSUME "acked" \in Assumed, GivenIPs \subseteq StaticIPs
  PROVE  Spec => []IPInv
<1>1. Init => IPInv
  <2> SUFFICES ASSUME Init PROVE IPInv
    OBVIOUS
  <2>1. /\ \A r \in Requests : call[r].pc = "start"
        /\ \A p \in Calls, a \in IPs : ipRelease[p][a] = "none"
        /\ \A a \in IPs : /\ ips[a].exists <=> a \in GivenIPs
                          /\ ips[a].tags = {}
    BY DEF Init
  <2> QED
    BY <2>1 DEF IPInv, PendingInv, CreatingInv, RowsInv, TaggingInv, Pending, Creating, Automatic, Init
<1>2. AllocationInv /\ IPInv /\ [Next]_vars => IPInv'
  BY NextIPInv DEF AllocationInv
<1> QED
  BY <1>1, <1>2, AllocationInvariant, PTL DEF Spec

\* The IPAM offers no address that has a row in the ip table, if the bus does not repeat
\* messages that were handled and the addresses that users list are static.
THEOREM TableCovered ==
  ASSUME "acked" \in Assumed, GivenIPs \subseteq StaticIPs
  PROVE  Spec => []IPAMCoversTable
<1>1. IPInv => IPAMCoversTable
  BY DEF IPInv, RowsInv, IPAMCoversTable
<1> QED
  BY <1>1, IPInvariant, PTL

\* Under the same assumptions releaseIP deletes no address that is connected to a machine,
\* though it looks at the tags long before it deletes.
THEOREM ConnectedStays ==
  ASSUME "acked" \in Assumed, GivenIPs \subseteq StaticIPs
  PROVE  Spec => ConnectedIPKept
<1>1. ASSUME TypeOK, Shape, IPInv, [Next]_vars, NEW a \in IPs, ips[a].tags # {}
      PROVE  ips'[a].exists
  <2>0. ips[a].exists /\ ips \in [IPs -> IPRow] /\ ips[a] \in IPRow
    BY <1>1 DEF IPInv, RowsInv, TypeOK
  <2>1. ASSUME NEW r \in Requests,
               \/ \E b \in GivenIPs : GatherGiven(r, b)
               \/ \E b \in IPs : AllocateRandomIP(r, b)
        PROVE  UNCHANGED ips
    BY <2>1 DEF GatherGiven, AllocateRandomIP
  <2>2. ASSUME NEW r \in Requests, CreateIP(r)
        PROVE  ips'[a].exists
    BY <1>1, <2>0, <2>2 DEF CreateIP, Shape
  <2>3. ASSUME NEW r \in Requests, AddMachineId(r)
        PROVE  ips'[a].exists
    <3>1. CASE UNCHANGED ips
      BY <2>0, <3>1
    <3>2. CASE ~UNCHANGED ips /\ a = call[r].ip
      <4> DEFINE row == [ips[a] EXCEPT !.tags = Tagged(a, call[r].candidate.id), !.changed = @ + 1]
      <4>1. ips' = [ips EXCEPT ![a] = row]
        BY <2>3, <3>2 DEF AddMachineId
      <4>2. row.exists = ips[a].exists
        BY <2>0 DEF IPRow
      <4> HIDE DEF row
      <4> QED
        BY <2>0, <4>1, <4>2
    <3>3. CASE ~UNCHANGED ips /\ a # call[r].ip
      BY <2>0, <2>3, <3>3 DEF AddMachineId
    <3> QED
      BY <3>1, <3>2, <3>3
  <2>4. ASSUME NEW p \in Calls, ReleaseDangling(p) \/ \E b \in IPs : ReleaseListed(p, b)
        PROVE  ips'[a].exists
    <3>1. PICK A \in SUBSET IPs : Disassociate(p, A, MachineOf(p))
      BY <2>4 DEF ReleaseDangling, ReleaseListed
    <3> QED
      BY <1>1, <2>0, <3>1, Disassociated DEF Ignored, Dropped
  <2>5. ASSUME NEW p \in Calls, NEW b \in IPs, IPReleaseStep(p, b) \/ RedeliverIPRelease(p, b)
        PROVE  ips'[a].exists
    <3>1. ipRelease[p][b] = "delete" => b # a
      BY <1>1 DEF IPInv, PendingInv, Pending
    <3> QED
      BY <2>0, <2>5, <3>1 DEF IPReleaseStep, ReleaseIPFind, ReleaseIPDelete, ReleaseIPInIPAM,
                              RedeliverIPRelease
  <2> QED
    BY <1>1, <2>0, <2>1, <2>2, <2>3, <2>4, <2>5, AddressSteps DEF AddressesAlone
<1>2. AllocationInv /\ IPInv /\ [Next]_vars => [\A a \in IPs : ips[a].tags # {} => ips'[a].exists]_vars
  BY <1>1 DEF AllocationInv
<1> QED
  BY <1>2, AllocationInvariant, IPInvariant, PTL DEF Spec, ConnectedIPKept

-----------------------------------------------------------------------------
(* HeldOnce: the addresses of an allocation in use are its own.              *)

\* What the environment must respect for it.
Orderly ==
    /\ {"settled", "freeAllocated", "freeOnce", "acked"} \subseteq Assumed
    /\ LoneRequests
    /\ GivenIPs \subseteq StaticIPs

\* A free that is under way read the allocation that the machine still has.
Bound == \A f \in Frees :
             free[f].pc \in {"publish", "update"} =>
                 machines[free[f].seen.id].allocation = free[f].seen.allocation

\* A request is engaged with its machine from the time it is given the machine until the
\* allocation is taken off it; no release of another allocation runs on the machine then.
Engaged(r) ==
    \/ call[r].pc \in Working
    \/ call[r].pc = "preallocate" /\ machines[On(r)] = call[r].candidate
    \/ call[r].pc = "done" /\ machines[On(r)].allocation = r
Quiet == \A r \in Requests, p \in Calls :
             Engaged(r) /\ MachineOf(p) = On(r) /\ AllocationOf(p) # r
                 => release[p].pc \in {"none", "done"}

\* Addresses are held as soon as they are part of the allocation, until it is freed.
Holding(r) == call[r].pc \in {"acquire", "create", "tag", "asn", "refetch", "commit"} \/ InUse(r)
Held == \A r \in Requests :
    /\ call[r].pc \in {"start", "preallocate", "gather"} => alloc[r].ips = {}
    /\ Holding(r) => \A a \in alloc[r].ips : ips[a].exists /\ On(r) \in ips[a].tags

EarlierInv == AllocationInv /\ ElectionInv /\ ReleasesInv /\ IPInv

LEMMA EarlierParts ==
  ASSUME EarlierInv
  PROVE  /\ TypeOK /\ Shape /\ Snapshots
         /\ Alone /\ Unmarked /\ Marked /\ Unowned /\ ExclusiveCandidate /\ FreesAllocated
         /\ Owners /\ FreesOwned /\ FreesDiffer /\ ReleasedAfter
         /\ PendingInv /\ RowsInv
BY DEF EarlierInv, AllocationInv, ElectionInv, ReleasesInv, IPInv

\* A machine row that is written by a commit or a reset had no owner.
LEMMA NextBound ==
  ASSUME EarlierInv, Bound, [Next]_vars
  PROVE  Bound'
<1> SUFFICES ASSUME NEW f \in Frees, free'[f].pc \in {"publish", "update"}
             PROVE  machines'[free'[f].seen.id].allocation = free'[f].seen.allocation
  BY DEF Bound
<1> USE EarlierParts
<1>1. ASSUME NEW m \in Machines, FreeRead(f, m)
      PROVE  machines'[free'[f].seen.id].allocation = free'[f].seen.allocation
  BY <1>1 DEF FreeRead, TypeOK, FreeState, Shape
<1>2. CASE free'[f].seen = free[f].seen /\ free[f].pc \in {"publish", "update"}
  <2> DEFINE m == free[f].seen.id
  <2>1. /\ m \in Machines /\ machines[m].allocation = free[f].seen.allocation
        /\ machines[m].allocation # None
    BY <1>2 DEF Bound, Shape, FreesAllocated
  <2>2. ASSUME NEW r \in Requests PROVE ~Commits(r, m) /\ ~Resets(r, m)
    BY <2>1, WriterEnds DEF Unowned
  <2>3. ASSUME NEW g \in Frees, Returns(g, m) PROVE FALSE
    <3>1. free[g].seen = machines[m] /\ free[g].pc = "update"
      BY <2>3 DEF Returns, FreeUpdate
    <3>2. g = f
      BY <1>2, <2>1, <3>1 DEF FreesDiffer
    <3>3. free'[f].pc \in {"done", "failed"}
      BY <2>3, <3>2 DEF Returns, FreeUpdate, TypeOK, FreeState
    <3> QED
      BY <3>3
  <2> QED
    BY <1>2, <2>1, <2>2, <2>3, RowWritten DEF Marks, Rewrites
<1> QED
  BY <1>1, <1>2, FreeMoved

\* A request is engaged from the step on that gives it the machine.
LEMMA EngagedBefore ==
  ASSUME EarlierInv, [Next]_vars, NEW r \in Requests, Engaged(r)'
  PROVE  \/ Engaged(r) /\ On(r)' = On(r)
         \/ \E m \in Machines : (NamedCandidate(r, m) \/ WaitingCandidate(r, m)) /\ On(r)' = m
<1> USE EarlierParts
<1>1. CASE call'[r].pc = "done" /\ machines'[On(r)'].allocation = r
  <2>1. CASE call'[r] = call[r]
    <3> DEFINE m == On(r)
    <3>1. m \in Machines /\ r # None /\ On(r)' = m
      BY <1>1, <2>1, ConstantsAssumption DEF Shape, On
    <3>2. ASSUME NEW q \in Requests, Commits(q, m), q = r PROVE FALSE
      BY <1>1, <2>1, <3>2 DEF Commits, CommitAllocation
    <3>3. machines[m].allocation = r
      BY <1>1, <3>1, <3>2, RowWritten DEF Marks, Commits, Resets, Returns, Rewrites
    <3> QED
      BY <1>1, <2>1, <3>1, <3>3 DEF Engaged
  <2>2. CASE CommitAllocation(r)
    BY <2>2 DEF CommitAllocation, Engaged, Working, On, To, TypeOK, CallState
  <2> QED
    BY <1>1, <2>1, <2>2, DoneFrame
<1>2. CASE Active(r)'
  <2>1. CASE call'[r] = call[r] /\ call[r].pc = "preallocate" /\ machines'[On(r)'] = call'[r].candidate
    <3>1. call[r].candidate \in MachineRow /\ On(r) \in Machines /\ Snapshot(call[r].candidate)
      BY <2>1 DEF TypeOK, CallState, Shape, Snapshots, On
    <3>2. machines[On(r)].changed \in Nat /\ call[r].candidate.changed \in Nat
      BY <3>1 DEF TypeOK, MachineRow
    <3>3. machines'[On(r)] = machines[On(r)] \/ machines'[On(r)].changed = machines[On(r)].changed + 1
      BY <3>1, StampsGrow
    <3>4. machines'[On(r)] = call[r].candidate /\ On(r)' = On(r)
      BY <2>1 DEF On
    <3>5. call[r].candidate.changed <= machines[On(r)].changed
      BY <3>1 DEF Snapshot, On
    <3>6. machines[On(r)] = call[r].candidate
      BY <3>2, <3>3, <3>4, <3>5
    <3> QED
      BY <2>1, <3>4, <3>6 DEF Engaged
  <2>2. CASE PreAllocate(r) /\ Current(call[r].candidate)
    <3>1. call[r].pc = "preallocate" /\ Snapshot(call[r].candidate)
      BY <2>2 DEF PreAllocate, Snapshots
    <3>2. machines[On(r)] = call[r].candidate
      BY <2>2, <3>1 DEF Snapshot, Current, On
    <3>3. \A m \in Machines : ~NamedCandidate(r, m) /\ ~WaitingCandidate(r, m)
      BY <3>1 DEF NamedCandidate, WaitingCandidate
    <3>4. On(r)' = On(r)
      BY <1>2, <3>3, ActiveBefore
    <3> QED
      BY <3>1, <3>2, <3>4 DEF Engaged
  <2>3. CASE call'[r] = call[r] /\ call[r].pc \in Working
    BY <2>3 DEF Engaged, On
  <2>4. CASE Goes(r)
    BY <1>2, <2>4 DEF Goes, Engaged, Active, On
  <2>5. ASSUME NEW m \in Machines, NamedCandidate(r, m) \/ WaitingCandidate(r, m)
        PROVE  On(r)' = m
    <3>1. call'[r].candidate = machines[m]
      BY <2>5 DEF NamedCandidate, WaitingCandidate, TypeOK, CallState
    <3> QED
      BY <3>1 DEF On, Shape
  <2>6. call'[r].pc = "preallocate" \/ call'[r].pc \in Working
    BY <1>2 DEF Active
  <2>7. call'[r].pc = "preallocate" => machines'[On(r)'] = call'[r].candidate
    BY DEF Engaged, Working
  <2> QED
    BY <2>1, <2>2, <2>3, <2>4, <2>5, <2>6, <2>7, RequestMoved
<1> QED
  BY <1>1, <1>2 DEF Engaged, Active

\* A release that began keeps its machine.
LEMMA ReleasedMachine ==
  ASSUME TypeOK, ReleasedAfter, [Next]_vars, NEW p \in Calls, release[p].pc # "none"
  PROVE  MachineOf(p)' = MachineOf(p)
<1>1. CASE p \in Requests
  <2>1. call[p].pc \in {"reset", "failed", "crashed"}
    BY <1>1 DEF ReleasedAfter
  <2>2. call'[p].candidate = call[p].candidate
    BY <1>1, <2>1, RequestMoved DEF NamedCandidate, WaitingCandidate, PreAllocate, Goes
  <2> QED
    BY <1>1, <2>2 DEF MachineOf
<1>2. CASE p \notin Requests
  <2>1. p \in Frees /\ free[p].pc # "start"
    BY <1>2 DEF Calls, ReleasedAfter
  <2>2. free'[p].seen = free[p].seen
    BY <2>1, FreeMoved DEF FreeRead
  <2> QED
    BY <1>2, <2>2 DEF MachineOf
<1> QED
  BY <1>1, <1>2

\* A request that rolls back is the only one engaged with its machine, and a machine with
\* an owner has no other request engaged with it.
LEMMA OnlyEngaged ==
  ASSUME EarlierInv, NEW r \in Requests, Engaged(r)
  PROVE  /\ \A q \in Requests \ {r} : call[q].pc \in Working => On(q) # On(r)
         /\ machines[On(r)].allocation \in {r, None}
<1> USE EarlierParts
<1>1. CASE call[r].pc \in Working
  BY <1>1, NoConflict DEF Unowned
<1>2. CASE call[r].pc = "preallocate" /\ machines[On(r)] = call[r].candidate
  <2>1. /\ r \notin ByUUID /\ ~machines[On(r)].preAllocated
        /\ machines[On(r)].allocation = None
    BY <1>2 DEF Unmarked, Shape
  <2>2. ASSUME NEW q \in Requests \ {r}, call[q].pc \in Working
        PROVE  On(q) # On(r)
    <3>1. CASE q \in ByUUID
      BY <1>2, <2>2, <3>1 DEF Alone, Active
    <3>2. CASE q \notin ByUUID
      BY <2>1, <2>2, <3>2 DEF Marked, Elected
    <3> QED
      BY <3>1, <3>2
  <2> QED
    BY <2>1, <2>2
<1>3. CASE call[r].pc = "done" /\ machines[On(r)].allocation = r
  BY <1>3, ConstantsAssumption DEF Unowned
<1> QED
  BY <1>1, <1>2, <1>3 DEF Engaged

LEMMA NextQuiet ==
  ASSUME Orderly, EarlierInv, Bound, Quiet, [Next]_vars
  PROVE  Quiet'
<1> SUFFICES ASSUME NEW r \in Requests, NEW p \in Calls, Engaged(r)', MachineOf(p)' = On(r)',
                    AllocationOf(p)' # r, release'[p].pc \notin {"none", "done"}
             PROVE  FALSE
  BY DEF Quiet
<1> USE EarlierParts
<1>1. CASE \E m \in Machines : (NamedCandidate(r, m) \/ WaitingCandidate(r, m)) /\ On(r)' = m
  <2>1. PICK m \in Machines : (NamedCandidate(r, m) \/ WaitingCandidate(r, m)) /\ On(r)' = m
    BY <1>1
  <2>2. p # r
    BY DEF AllocationOf
  <2>3. /\ UNCHANGED <<free, release>> /\ \A q \in Requests \ {r} : call'[q] = call[q]
        /\ Settled(m)
    BY <2>1 DEF NamedCandidate, WaitingCandidate, TypeOK
  <2>4. MachineOf(p) = m
    BY <2>1, <2>2, <2>3 DEF MachineOf
  <2> QED
    BY <2>3, <2>4 DEF Settled, Orderly
<1>2. CASE Engaged(r) /\ On(r)' = On(r)
  <2>1. CASE release[p].pc \notin {"none", "done"}
    <3>1. MachineOf(p) = On(r) /\ AllocationOf(p) # r
      BY <1>2, <2>1, ReleasedMachine, ReleasedAllocation
    <3> QED
      BY <1>2, <2>1, <3>1 DEF Quiet
  <2>2. CASE release[p].pc \in {"none", "done"} /\ p \in Requests /\ RollbackPublish(p)
    <3>1. call[p].pc \in Working /\ On(p)' = On(p) /\ p # r
      BY <2>2 DEF RollbackPublish, To, TypeOK, CallState, Working, AllocationOf, On
    <3>2. On(p) = On(r)
      BY <1>2, <2>2, <3>1 DEF MachineOf, On
    <3> QED
      BY <1>2, <2>2, <3>1, <3>2, OnlyEngaged
  <2>3. CASE release[p].pc \in {"none", "done"} /\ p \in Frees /\ FreePublish(p)
    <3>1. free[p].pc = "publish" /\ free'[p].seen = free[p].seen /\ p \notin Requests
      BY <2>3, ConstantsAssumption DEF FreePublish, TypeOK, FreeState
    <3>2. free[p].seen.id = On(r) /\ free[p].seen.allocation # r
      BY <1>2, <3>1 DEF MachineOf, AllocationOf
    <3>3. machines[On(r)].allocation = free[p].seen.allocation /\ free[p].seen.allocation # None
      BY <2>3, <3>1, <3>2 DEF Bound, FreesAllocated
    <3> QED
      BY <1>2, <3>2, <3>3, OnlyEngaged
  <2>4. ~(release[p].pc \in {"none", "done"} /\ (ReleaseStep(p) \/ RedeliverRelease(p)))
    BY DEF ReleaseStep, ReleaseStart, ReleaseListed, ReleaseASN, ReleaseDangling,
           RedeliverRelease, Again, Orderly
  <2> QED
    BY <2>1, <2>2, <2>3, <2>4, ReleaseMoved
<1> QED
  BY <1>1, <1>2, EngagedBefore

Early == {"start", "preallocate", "gather"}
Obtaining == {"acquire", "create", "tag", "asn", "refetch", "commit"}

\* A call never goes back to an earlier part of allocateMachine.
LEMMA CallOrder ==
  ASSUME TypeOK, [Next]_vars, NEW r \in Requests
  PROVE  /\ call'[r].pc \in Early => call[r].pc \in Early
         /\ call'[r].pc \in Obtaining => call[r].pc \in Obtaining \cup {"gather"}
<1> DEFINE Ordered == /\ call'[r].pc \in Early => call[r].pc \in Early
                      /\ call'[r].pc \in Obtaining => call[r].pc \in Obtaining \cup {"gather"}
<1>0. call \in [Requests -> CallState] /\ call[r] \in CallState
  BY DEF TypeOK
<1>1. CASE AllocateStep(r)
  <2>1. ASSUME NEW m \in Machines, NamedCandidate(r, m) \/ WaitingCandidate(r, m)
        PROVE  Ordered
    BY <1>0, <2>1 DEF NamedCandidate, WaitingCandidate, CallState, Early, Obtaining
  <2>2. CASE NoCandidate(r) \/ GatherAuto(r) \/ StepFails(r) \/ (\E n \in ASNs : AcquireASN(r, n))
    BY <1>0, <2>2 DEF NoCandidate, GatherAuto, StepFails, AcquireASN, To, CallState, Early, Obtaining
  <2>3. CASE PreAllocate(r)
    BY <1>0, <2>3 DEF PreAllocate, To, CallState, Early, Obtaining
  <2>4. ASSUME NEW a \in IPs, GatherGiven(r, a) \/ AllocateRandomIP(r, a)
        PROVE  Ordered
    BY <1>0, <2>4 DEF GatherGiven, AllocateRandomIP, CallState, Early, Obtaining
  <2>5. CASE CreateIP(r) \/ AddMachineId(r)
    BY <1>0, <2>5 DEF CreateIP, AddMachineId, To, CallState, Early, Obtaining
  <2>6. CASE RefetchMachine(r)
    BY <1>0, <2>6 DEF RefetchMachine, CallState, Early, Obtaining
  <2>7. CASE CommitAllocation(r) \/ RollbackPublish(r) \/ RollbackReset(r)
    BY <1>0, <2>7 DEF CommitAllocation, RollbackPublish, RollbackReset, To, CallState, Early, Obtaining
  <2> QED
    BY <1>1, <2>1, <2>2, <2>3, <2>4, <2>5, <2>6, <2>7, ConstantsAssumption DEF AllocateStep
<1>2. ASSUME NEW p \in Calls, CutShort(p), call'[r] # call[r]
      PROVE  Ordered
  BY <1>0, <1>2, CutShortFrame DEF CallState, Early, Obtaining
<1>3. ASSUME NEW n \in Machines, NEW mode \in Modes, OtherWrite(n, mode)
      PROVE  call'[r] = call[r]
  BY <1>3 DEF OtherWrite
<1> QED
  BY <1>1, <1>2, <1>3, AllocateFrame, BusFrame, FreeFrame DEF Next, Quiescent, vars

\* An allocation is in use from its commit on, until a free of it published the release.
LEMMA InUseBefore ==
  ASSUME EarlierInv, [Next]_vars, NEW r \in Requests, InUse(r)'
  PROVE  On(r)' = On(r) /\ (call[r].pc = "commit" \/ InUse(r))
<1> USE EarlierParts
<1>1. CASE CommitAllocation(r)
  BY <1>1 DEF CommitAllocation, To, TypeOK, CallState, On
<1>2. CASE call'[r] = call[r]
  <2>1. call[r].pc = "done" /\ On(r)' = On(r) /\ machines'[On(r)].allocation = r
    BY <1>2 DEF InUse, On
  <2>2. machines[On(r)].allocation = r
    <3>1. Engaged(r)'
      BY DEF InUse, Engaged, On
    <3>2. \A m \in Machines : ~NamedCandidate(r, m) /\ ~WaitingCandidate(r, m)
      BY <2>1 DEF NamedCandidate, WaitingCandidate
    <3> QED
      BY <2>1, <3>1, <3>2, EngagedBefore DEF Engaged, Working
  <2>3. ASSUME NEW f \in Frees, free[f].seen.allocation = r, release[f].pc # "none"
        PROVE  FALSE
    <3>1. f \in Calls /\ free[f].pc # "start"
      BY <2>3 DEF Calls, ReleasedAfter
    <3>2. free'[f].seen.allocation = r
      BY <2>3, <3>1, FreeMoved DEF FreeRead
    <3>3. release'[f].pc = "none"
      BY <3>2 DEF InUse
    <3>4. release \in [Calls -> ReleaseState]
      BY DEF TypeOK
    <3>5. ReleaseStart(f) \/ ReleaseASN(f) \/ ReleaseDangling(f) => release'[f].pc # "none"
      BY <3>1, <3>4 DEF ReleaseStart, ReleaseASN, ReleaseDangling, ReleaseState
    <3>6. ASSUME NEW a \in IPs, ReleaseListed(f, a) PROVE release'[f].pc # "none"
      BY <3>1, <3>4, <3>6 DEF ReleaseListed, ReleaseState
    <3> QED
      BY <2>3, <3>1, <3>3, <3>5, <3>6, ReleaseMoved DEF ReleaseStep
  <2> QED
    BY <2>1, <2>2, <2>3 DEF InUse, On
<1> QED
  BY <1>1, <1>2, DoneFrame DEF InUse

\* No release takes an address from the machine of a request that holds it.
LEMMA HoldingUnreleased ==
  ASSUME Orderly, EarlierInv, Quiet, NEW r \in Requests, Holding(r),
         NEW p \in Calls, release[p].pc \in {"listed", "dangling"}
  PROVE  MachineOf(p) # On(r)
<1> USE EarlierParts
<1>1. SUFFICES ASSUME MachineOf(p) = On(r) PROVE FALSE
  OBVIOUS
<1>2. Engaged(r)
  BY DEF Holding, Engaged, InUse, On, Working
<1>3. AllocationOf(p) = r
  BY <1>1, <1>2 DEF Quiet
<1>4. CASE p \in Requests
  BY <1>3, <1>4 DEF AllocationOf, ReleasedAfter, Holding, InUse
<1>5. CASE p \notin Requests
  <2>1. p \in Frees /\ free[p].seen.allocation = r /\ free[p].pc # "start"
    BY <1>3, <1>5 DEF AllocationOf, Calls, ReleasedAfter
  <2> QED
    BY <2>1 DEF FreesOwned, Holding, InUse
<1> QED
  BY <1>4, <1>5

\* An address that a request holds keeps its row and the tag of the machine in every step.
LEMMA HeldRow ==
  ASSUME Orderly, EarlierInv, Quiet, [Next]_vars, NEW r \in Requests, Holding(r), NEW a \in IPs,
         ips[a].exists, On(r) \in ips[a].tags
  PROVE  ips'[a].exists /\ On(r) \in ips'[a].tags
<1> DEFINE Kept == ips'[a].exists /\ On(r) \in ips'[a].tags
<1> USE EarlierParts
<1>0. ips \in [IPs -> IPRow] /\ ips[a] \in IPRow
  BY DEF TypeOK
<1>1. ASSUME NEW q \in Requests,
             \/ \E b \in GivenIPs : GatherGiven(q, b)
             \/ \E b \in IPs : AllocateRandomIP(q, b)
      PROVE  Kept
  BY <1>1 DEF GatherGiven, AllocateRandomIP
<1>2. ASSUME NEW q \in Requests, CreateIP(q)
      PROVE  Kept
  BY <1>0, <1>2 DEF CreateIP
<1>3. ASSUME NEW q \in Requests, AddMachineId(q)
      PROVE  Kept
  <2>1. CASE UNCHANGED ips
    BY <2>1
  <2>2. CASE ~UNCHANGED ips
    <3> DEFINE row == [ips[a] EXCEPT !.tags = Tagged(a, call[q].candidate.id), !.changed = @ + 1]
    <3>1. a # call[q].ip => ips'[a] = ips[a]
      BY <1>0, <1>3, <2>2 DEF AddMachineId
    <3>2. a = call[q].ip => ips' = [ips EXCEPT ![a] = row]
      BY <1>3, <2>2 DEF AddMachineId
    <3>3. row.exists = ips[a].exists /\ ips[a].tags \subseteq row.tags
      BY <1>0 DEF IPRow, Tagged
    <3> HIDE DEF row
    <3> QED
      BY <1>0, <3>1, <3>2, <3>3
  <2> QED
    BY <2>1, <2>2
<1>4. ASSUME NEW p \in Calls, ReleaseDangling(p) \/ \E b \in IPs : ReleaseListed(p, b)
      PROVE  Kept
  <2>1. PICK A \in SUBSET IPs : Disassociate(p, A, MachineOf(p))
    BY <1>4 DEF ReleaseDangling, ReleaseListed
  <2>2. MachineOf(p) # On(r)
    BY <1>4, HoldingUnreleased DEF ReleaseDangling, ReleaseListed
  <2>3. Ignored(a) \/ Dropped(p, MachineOf(p), a)
    BY <2>1, Disassociated
  <2> QED
    BY <2>2, <2>3 DEF Ignored, Dropped
<1>5. ASSUME NEW p \in Calls, NEW b \in IPs, IPReleaseStep(p, b) \/ RedeliverIPRelease(p, b)
      PROVE  Kept
  <2>1. ipRelease[p][b] = "delete" => b # a
    BY DEF PendingInv, Pending
  <2> QED
    BY <1>0, <1>5, <2>1 DEF IPReleaseStep, ReleaseIPFind, ReleaseIPDelete, ReleaseIPInIPAM,
                            RedeliverIPRelease
<1> QED
  BY <1>1, <1>2, <1>3, <1>4, <1>5, AddressSteps DEF AddressesAlone

LEMMA NextHeld ==
  ASSUME Orderly, EarlierInv, Quiet, Held, [Next]_vars
  PROVE  Held'
<1> SUFFICES ASSUME NEW r \in Requests
             PROVE  /\ call'[r].pc \in Early => alloc'[r].ips = {}
                    /\ Holding(r)' => \A a \in alloc'[r].ips :
                                          ips'[a].exists /\ On(r)' \in ips'[a].tags
  BY DEF Held, Early
<1> USE EarlierParts
<1>0. /\ alloc \in [Requests -> Allocation] /\ alloc[r] \in Allocation
      /\ call \in [Requests -> CallState] /\ call[r] \in CallState
  BY DEF TypeOK
<1>1. CASE AddMachineId(r)
  <2> DEFINE b == call[r].ip
             row == [ips[b] EXCEPT !.tags = Tagged(b, call[r].candidate.id), !.changed = @ + 1]
  <2>0. \E pc \in {"asn", "acquire", "rollback"} : To(r, pc)
    BY <1>1 DEF AddMachineId
  <2>1. /\ call[r].pc = "tag" /\ b \in IPs /\ ips \in [IPs -> IPRow] /\ ips[b] \in IPRow
        /\ call'[r].pc \in {"asn", "acquire", "rollback"} /\ On(r)' = On(r)
    BY <1>0, <1>1, <2>0 DEF AddMachineId, To, CallState, Shape, TypeOK, On
  <2>2. /\ alloc'[r].ips \subseteq alloc[r].ips \cup {b}
        /\ alloc'[r].ips # alloc[r].ips => ips' = [ips EXCEPT ![b] = row] /\ ips[b].exists
    BY <1>0, <1>1 DEF AddMachineId, Allocation
  <2>3. row.exists = ips[b].exists /\ On(r) \in row.tags
    BY <2>1 DEF IPRow, Tagged, On
  <2> HIDE DEF row
  <2>4. Holding(r) /\ alloc[r].ips \subseteq IPs
    BY <1>0, <2>1 DEF Holding, Allocation
  <2>5. \A a \in alloc[r].ips : ips'[a].exists /\ On(r) \in ips'[a].tags
    BY <2>4, HeldRow DEF Held
  <2>6. alloc'[r].ips # alloc[r].ips => ips'[b].exists /\ On(r) \in ips'[b].tags
    BY <2>1, <2>2, <2>3
  <2> QED
    BY <2>1, <2>2, <2>5, <2>6 DEF Early
<1>2. CASE ~AddMachineId(r)
  <2>1. alloc'[r].ips = alloc[r].ips /\ alloc[r].ips \subseteq IPs
    <3>1. ASSUME NEW n \in ASNs, AcquireASN(r, n) PROVE alloc'[r].ips = alloc[r].ips
      BY <1>0, <3>1 DEF AcquireASN, Allocation
    <3> QED
      BY <1>0, <1>2, <3>1, AllocMoved DEF Allocation
  <2>2. call[r].pc \in Early => alloc[r].ips = {}
    BY DEF Held, Early
  <2>3. CASE Holding(r)' /\ call[r].pc \notin Early
    <3>1. Holding(r) /\ On(r)' = On(r)
      <4>1. CASE InUse(r)'
        BY <4>1, InUseBefore DEF Holding
      <4>2. CASE call'[r].pc \in Obtaining
        <5>1. call[r].pc \in Obtaining
          BY <2>3, <4>2, CallOrder DEF Early
        <5>2. On(r)' = On(r)
          BY <4>2, <5>1, ActiveBefore
             DEF Active, Obtaining, Working, NamedCandidate, WaitingCandidate
        <5> QED
          BY <5>1, <5>2 DEF Holding, Obtaining
      <4> QED
        BY <2>3, <4>1, <4>2 DEF Holding, Obtaining
    <3>2. \A a \in alloc[r].ips : ips[a].exists /\ On(r) \in ips[a].tags
      BY <3>1 DEF Held
    <3> QED
      BY <2>1, <2>3, <3>1, <3>2, HeldRow, CallOrder
  <2> QED
    BY <2>1, <2>2, <2>3, CallOrder
<1> QED
  BY <1>1, <1>2

\* Every address of an allocation in use has a row with the tag of its machine, is taken in
\* the IPAM, and if it was acquired for it is in no other allocation in use, provided that
\* a machine is settled when it is requested, named by one request at a time, freed when
\* and only once it is allocated, that handled messages are not repeated and that the
\* addresses users list are static.
THEOREM HeldByOne ==
  ASSUME Orderly
  PROVE  Spec => []HeldOnce
<1>0. /\ "freeAllocated" \in Assumed /\ "freeOnce" \in Assumed /\ "acked" \in Assumed
      /\ LoneRequests /\ GivenIPs \subseteq StaticIPs
  BY DEF Orderly
<1>1. /\ Spec => []ElectionInv
      /\ Spec => []ReleasesInv
      /\ Spec => []IPInv
      /\ Spec => []ASNHeldOnce
  BY <1>0, ElectionInvariant, ReleasesInvariant, IPInvariant, ASNOwnedByOne
<1>2. Init => Bound /\ Quiet /\ Held
  <2> SUFFICES ASSUME Init PROVE Bound /\ Quiet /\ Held
    OBVIOUS
  <2>1. /\ \A r \in Requests : call[r].pc = "start" /\ alloc[r].ips = {}
        /\ \A f \in Frees : free[f].pc = "start"
    BY DEF Init
  <2> QED
    BY <2>1 DEF Bound, Quiet, Held, Engaged, Holding, InUse, Working
<1>3. EarlierInv /\ Bound /\ Quiet /\ Held /\ [Next]_vars => Bound' /\ Quiet' /\ Held'
  BY NextBound, NextQuiet, NextHeld
<1>4. EarlierInv /\ Held => AddressesHeld
  <2> SUFFICES ASSUME EarlierInv, Held, NEW r \in Requests, InUse(r), NEW a \in alloc[r].ips
               PROVE  /\ ips[a].exists /\ On(r) \in ips[a].tags /\ a \in ipam
                      /\ \A q \in Requests \ {r} : InUse(q) /\ a \in alloc[q].ips => a \in GivenIPs
    BY DEF AddressesHeld, On
  <2> USE EarlierParts
  <2>1. a \in IPs
    BY DEF TypeOK, Allocation
  <2>2. ips[a].exists /\ On(r) \in ips[a].tags /\ a \in ipam
    BY <2>1 DEF Held, Holding, RowsInv
  <2>3. ASSUME NEW q \in Requests \ {r}, InUse(q), a \in alloc[q].ips, a \notin GivenIPs
        PROVE  FALSE
    <3>1. On(q) \in ips[a].tags
      BY <2>3 DEF Held, Holding
    <3>2. On(q) = On(r)
      BY <2>1, <2>2, <2>3, <3>1 DEF RowsInv, Automatic
    <3> QED
      BY <2>3, <3>2 DEF InUse, On
  <2> QED
    BY <2>2, <2>3
<1>5. IPInv => IPAMCoversTable
  BY DEF IPInv, RowsInv, IPAMCoversTable
<1> QED
  BY <1>1, <1>2, <1>3, <1>4, <1>5, AllocationInvariant, PTL DEF Spec, HeldOnce, EarlierInv
=============================================================================
