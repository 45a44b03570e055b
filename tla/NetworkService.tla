--------------------------- MODULE NetworkService ---------------------------
(***************************************************************************)
(* The networks of one partition (service/network-service.go) and the       *)
(* addresses users allocate in them (service/ip-service.go): a network owns *)
(* prefixes, which the IPAM keeps, and a VRF, which an integer pool keeps.  *)
(* A call reads rows, changes the IPAM and the pool and then writes its     *)
(* row; nothing spans the three, and no call undoes what it did when a      *)
(* later step fails.                                                        *)
(*                                                                         *)
(* One action is one access to a store.  The pool is the Lease that         *)
(* IntegerPool implements.  Checks that fail before anything has changed    *)
(* are guards of the first action of a call.  Left out: underlay networks   *)
(* (as unique as the private super network), projects, destination          *)
(* prefixes, labels, NAT, addresses in prefixes that are divided.  Users    *)
(* ask for prefixes that are not children of another one, and change those  *)
(* of such networks only.                                                   *)
(***************************************************************************)
EXTENDS Naturals

CONSTANTS
    NetworkIDs, Prefixes, VRFs, IPs,
    ParentOf,           \* the prefix another one is a child of, or None
    FamilyOf,           \* the address family of a prefix
    PrefixOf,           \* the prefix an address lies in
    Callers,
    MaxInterruptions,   \* bound on calls that stop or fail for an external reason
    Assumed,            \* what a run takes for granted, a subset of Assumptions
    None

(***************************************************************************)
(*   "oneAdmin"    networks are created one after the other                 *)
(*   "serial"      of the calls that update, delete or free one network, or *)
(*                 free one address, one runs at a time                     *)
(*   "leftAlone"   a network is not touched again after such a call stopped *)
(*                 half way                                                 *)
(*   "unshared"    no network shares the VRF of another one                 *)
(*   "settled"     no address or child is asked from a network that lost a  *)
(*                 prefix, and a prefix is not handed out again while a     *)
(*                 call that read its former network has yet to take        *)
(*                 something from it                                        *)
(*   "parentsKept" the IPAM keeps a prefix that has children                *)
(***************************************************************************)
Assumptions == {"oneAdmin", "serial", "leftAlone", "unshared", "settled", "parentsKept"}

ASSUME NetworkAssumption ==
    /\ ParentOf \in [Prefixes -> Prefixes \cup {None}]
    /\ PrefixOf \in [IPs -> Prefixes \ {ParentOf[p] : p \in Prefixes}]
    /\ MaxInterruptions \in Nat
    /\ Assumed \subseteq Assumptions
    /\ None \notin NetworkIDs \cup Prefixes \cup VRFs \cup IPs
    /\ VRFs \cap (Prefixes \cup IPs) = {} /\ Prefixes \cap IPs = {}

VARIABLES
    networks,       \* the network table
    ips,            \* the ip table: the network an address belongs to, or None
    ipam,           \* the prefixes of the IPAM
    taken,          \* the addresses acquired in the IPAM
    vrfs,           \* the VRFs that can be acquired from the pool
    call,
    lost,           \* history: what calls acquired and nobody has
    damaged,        \* history: networks that do not have all that their row names
    interruptions

vars == <<networks, ips, ipam, taken, vrfs, call, lost, damaged, interruptions>>
history == <<lost, damaged, interruptions>>

Kinds == {"none", "super", "external", "child"}
Network == [kind: Kinds, prefixes: SUBSET Prefixes, vrf: VRFs \cup {None},
            parent: NetworkIDs \cup {None}]
NoNetwork == [kind |-> "none", prefixes |-> {}, vrf |-> None, parent |-> None]

Families == {FamilyOf[p] : p \in Prefixes}

\* What a call can acquire.
Resources == Prefixes \cup VRFs \cup IPs

Creating == {"findSuper", "acquireVRF", "createPrefix", "createNetwork"}
Updating == {"updateIPs", "updatePrefixes", "updateNetwork"}
Deleting == {"children", "deleteIPs", "deletePrefix", "releaseChild", "releaseVRF", "deleteNetwork"}
Freeing == {"deleteIP", "releaseIP"}
PC == {"idle", "randomVRF", "childPrefix", "createChild", "acquireIP", "createIP"}
        \cup Creating \cup Updating \cup Deleting \cup Freeing

(***************************************************************************)
(* id       the network the call is about; for a child its parent           *)
(* seen     the row it read                                                 *)
(* row      the row it will write                                           *)
(* current  the row of id is still the one it read                          *)
(* wanted   the address families a child is to get a prefix of              *)
(* holds    what it acquired and no row names yet                           *)
(* drops    what it gave back although the row of id names it               *)
(***************************************************************************)
CallState == [pc: PC, id: NetworkIDs \cup {None}, seen: Network, row: Network,
              current: BOOLEAN, wanted: SUBSET Families,
              holds: SUBSET Resources, drops: SUBSET Resources, ip: IPs \cup {None}]

IdleCall == [pc |-> "idle", id |-> None, seen |-> NoNetwork, row |-> NoNetwork,
             current |-> FALSE, wanted |-> {}, holds |-> {}, drops |-> {}, ip |-> None]

TypeOK ==
    /\ networks \in [NetworkIDs -> Network]
    /\ ips \in [IPs -> NetworkIDs \cup {None}]
    /\ ipam \in SUBSET Prefixes
    /\ taken \in SUBSET IPs
    /\ vrfs \in SUBSET VRFs
    /\ call \in [Callers -> CallState]
    /\ lost \in SUBSET Resources
    /\ damaged \in SUBSET NetworkIDs
    /\ interruptions \in Nat

Init ==
    /\ networks = [n \in NetworkIDs |-> NoNetwork]
    /\ ips = [i \in IPs |-> None]
    /\ ipam = {} /\ taken = {} /\ vrfs = VRFs
    /\ call = [c \in Callers |-> IdleCall]
    /\ lost = {} /\ damaged = {} /\ interruptions = 0

-----------------------------------------------------------------------------
Exists(n) == networks[n].kind # "none"
To(c, pc) == call' = [call EXCEPT ![c].pc = pc]
End(c) == call' = [call EXCEPT ![c] = IdleCall]

\* An error return, or the end of the replica: nothing is undone.
Abandon(c) ==
    /\ End(c)
    /\ lost' = lost \cup call[c].holds
    /\ damaged' = IF call[c].drops = {} THEN damaged ELSE damaged \cup {call[c].id}
    /\ UNCHANGED <<networks, ips, ipam, taken, vrfs, interruptions>>

\* The row of n is written: what other calls read of it is no longer the row.
Written(c, n, row) ==
    /\ networks' = [networks EXCEPT ![n] = row]
    /\ call' = [d \in Callers |->
                  IF d = c THEN IdleCall
                  ELSE IF call[d].id = n THEN [call[d] EXCEPT !.current = FALSE] ELSE call[d]]

\* A call about network n begins with a read of its row.
Begin(c, n, pc, row) ==
    /\ call[c].pc = "idle"
    /\ Exists(n)
    /\ call' = [call EXCEPT ![c] = [IdleCall EXCEPT !.pc = pc, !.id = n, !.seen = networks[n],
                                                    !.row = row, !.current = TRUE]]
    /\ UNCHANGED <<networks, ips, ipam, taken, vrfs, history>>

Changes(k) == k.pc \in Updating \cup Deleting
Changing(n) == \E d \in Callers : call[d].id = n /\ Changes(call[d])
MayChange(n) ==
    /\ "serial" \in Assumed => ~Changing(n)
    /\ "leftAlone" \in Assumed => n \notin damaged

-----------------------------------------------------------------------------
\* The IPAM (an external service)

Children(p) == {q \in ipam : ParentOf[q] = p}
HasIPs(p) == \E i \in taken : PrefixOf[i] = p
Creatable(p) == p \notin ipam /\ Children(p) = {}
Deletable(p) ==
    /\ p \in ipam /\ ~HasIPs(p)
    /\ "parentsKept" \in Assumed => Children(p) = {}
Releasable(p) == p \in ipam /\ ParentOf[p] \in ipam /\ ~HasIPs(p)

Remembered(p) == \E d \in Callers :
    /\ call[d].pc \in {"acquireIP", "randomVRF", "childPrefix"}
    /\ p \in call[d].seen.prefixes
MayHandOut(p) == "settled" \in Assumed => ~Remembered(p)

Whole(n) == n \notin damaged /\ \A d \in Callers : call[d].id = n => call[d].drops = {}
MayAsk(n) == "settled" \in Assumed => Whole(n)

-----------------------------------------------------------------------------
\* createNetwork

Divided == {ParentOf[p] : p \in Prefixes} \ {None}
Requestable(kind) ==
    LET tops == {p \in Prefixes : ParentOf[p] = None}
    IN  SUBSET (IF kind = "super" THEN tops \cap Divided ELSE tops \ Divided) \ {{}}

Overlapping(P, Q) == \E p \in P, q \in Q : p = q \/ ParentOf[p] = q \/ ParentOf[q] = p

AfterChecks(v) == IF v = None THEN "createPrefix" ELSE "acquireVRF"

\* The networks are listed: the id is new and no prefix overlaps.
CreateNetwork(c) ==
    \E n \in NetworkIDs, kind \in {"super", "external"}, v \in VRFs \cup {None} :
    \E P \in Requestable(kind) :
        /\ call[c].pc = "idle" /\ ~Exists(n)
        /\ "oneAdmin" \in Assumed => \A d \in Callers : call[d].pc \notin Creating
        /\ \A m \in NetworkIDs : ~Overlapping(networks[m].prefixes, P)
        /\ call' = [call EXCEPT ![c] = [IdleCall EXCEPT
                      !.pc = IF kind = "super" THEN "findSuper" ELSE AfterChecks(v), !.id = n,
                      !.row = [kind |-> kind, prefixes |-> P, vrf |-> v, parent |-> None]]]
        /\ UNCHANGED <<networks, ips, ipam, taken, vrfs, history>>

Supers == {n \in NetworkIDs : networks[n].kind = "super"}

\* Mutant of FindSuper: the answer of the query is not looked at.
FindSuperUnchecked(c) ==
    /\ call[c].pc = "findSuper"
    /\ To(c, AfterChecks(call[c].row.vrf))
    /\ UNCHANGED <<networks, ips, ipam, taken, vrfs, history>>

FindSuper(c) ==
    /\ call[c].pc = "findSuper"
    /\ IF Supers = {} THEN To(c, AfterChecks(call[c].row.vrf)) ELSE End(c)
    /\ UNCHANGED <<networks, ips, ipam, taken, vrfs, history>>

\* Mutant of SharesVRF: the conflict is never an error.
SharesAnyVRF == TRUE
\* Whether a request may set vrfShared.
SharesVRF == "unshared" \notin Assumed

\* A call that shares the VRF goes on without having acquired it.
AcquireVRF(c) ==
    LET v == call[c].row.vrf
    IN  /\ call[c].pc = "acquireVRF"
        /\ IF v \in vrfs
           THEN /\ vrfs' = vrfs \ {v}
                /\ call' = [call EXCEPT ![c].pc = "createPrefix", ![c].holds = {v}]
                /\ UNCHANGED <<networks, ips, ipam, taken, history>>
           ELSE \/ Abandon(c)
                \/ /\ SharesVRF
                   /\ To(c, "createPrefix")
                   /\ UNCHANGED <<networks, ips, ipam, taken, vrfs, history>>

CreatePrefix(c) ==
    \E p \in call[c].row.prefixes \ call[c].holds :
        /\ call[c].pc = "createPrefix" /\ MayHandOut(p)
        /\ IF Creatable(p)
           THEN /\ ipam' = ipam \cup {p}
                /\ call' = [call EXCEPT
                     ![c].holds = call[c].holds \cup {p},
                     ![c].pc = IF call[c].row.prefixes \subseteq call[c].holds \cup {p}
                               THEN "createNetwork" ELSE "createPrefix"]
                /\ UNCHANGED <<networks, ips, taken, vrfs, history>>
           ELSE Abandon(c)

InsertNetwork(c) ==
    /\ call[c].pc = "createNetwork"
    /\ IF Exists(call[c].id)
       THEN Abandon(c)
       ELSE /\ Written(c, call[c].id, call[c].row)
            /\ UNCHANGED <<ips, ipam, taken, vrfs, history>>

-----------------------------------------------------------------------------
\* allocateNetwork, createChildNetwork

\* The query for the super network fails when there is more than one.  A family
\* may be asked of which the super network has no prefix.
AllocateNetwork(c) ==
    \E n \in Supers, wanted \in SUBSET Families :
        /\ call[c].pc = "idle"
        /\ Supers = {n} /\ MayAsk(n)
        /\ wanted # {}
        /\ call' = [call EXCEPT ![c] = [IdleCall EXCEPT
                      !.pc = "randomVRF", !.id = n, !.seen = networks[n], !.current = TRUE,
                      !.wanted = wanted]]
        /\ UNCHANGED <<networks, ips, ipam, taken, vrfs, history>>

AcquireRandomVRF(c) ==
    /\ call[c].pc = "randomVRF"
    /\ IF vrfs = {}
       THEN Abandon(c)
       ELSE \E v \in vrfs :
              /\ vrfs' = vrfs \ {v}
              /\ call' = [call EXCEPT ![c].pc = "childPrefix", ![c].holds = {v},
                                      ![c].row = [NoNetwork EXCEPT !.kind = "child", !.vrf = v,
                                                                   !.parent = call[c].id]]
              /\ UNCHANGED <<networks, ips, ipam, taken, history>>

FreeChildren(P, f) ==
    {q \in Prefixes \ ipam : FamilyOf[q] = f /\ ParentOf[q] \in P \cap ipam}

\* createChildPrefix for one of the address families.
AllocateChildPrefix(c) ==
    \E f \in call[c].wanted :
        /\ call[c].pc = "childPrefix"
        /\ IF FreeChildren(call[c].seen.prefixes, f) = {}
           THEN Abandon(c)
           ELSE \E q \in FreeChildren(call[c].seen.prefixes, f) :
                  /\ MayHandOut(q)
                  /\ ipam' = ipam \cup {q}
                  /\ call' = [call EXCEPT ![c] = [call[c] EXCEPT
                       !.holds = call[c].holds \cup {q},
                       !.row = [call[c].row EXCEPT !.prefixes = call[c].row.prefixes \cup {q}],
                       !.wanted = call[c].wanted \ {f},
                       !.pc = IF call[c].wanted = {f} THEN "createChild" ELSE "childPrefix"]]
                  /\ UNCHANGED <<networks, ips, taken, vrfs, history>>

\* The id is generated.
InsertChild(c) ==
    \E n \in NetworkIDs :
        /\ call[c].pc = "createChild"
        /\ ~Exists(n) /\ \A d \in Callers : call[d].id # n
        /\ Written(c, n, call[c].row)
        /\ UNCHANGED <<ips, ipam, taken, vrfs, history>>

-----------------------------------------------------------------------------
\* freeNetwork and deleteNetwork

FreeNetwork(c) == \E n \in NetworkIDs :
    MayChange(n) /\ Begin(c, n, "releaseChild", NoNetwork)

DeleteNetwork(c) == \E n \in NetworkIDs :
    MayChange(n) /\ Begin(c, n, "children", NoNetwork)

\* Mutant of HasVRF: the VRF 0 is given back, too.
HasAnyVRF(network) == TRUE
HasVRF(network) == network.vrf # None

\* The prefix p is given back, and perhaps it was the last one.
GivenBack(c, p) ==
    LET drops == call[c].drops \cup {p}
        last == IF HasVRF(call[c].seen) THEN "releaseVRF" ELSE "deleteNetwork"
    IN  /\ ipam' = ipam \ {p}
        /\ call' = [call EXCEPT
             ![c].drops = drops,
             ![c].pc = IF call[c].seen.prefixes \subseteq drops THEN last ELSE call[c].pc]
        /\ UNCHANGED <<networks, ips, taken, vrfs, history>>

ReleaseChildPrefix(c) ==
    \E p \in call[c].seen.prefixes \ call[c].drops :
        /\ call[c].pc = "releaseChild"
        /\ IF Releasable(p) THEN GivenBack(c, p) ELSE Abandon(c)

SearchChildren(c) ==
    /\ call[c].pc = "children"
    /\ IF \E m \in NetworkIDs : networks[m].parent = call[c].id THEN End(c) ELSE To(c, "deleteIPs")
    /\ UNCHANGED <<networks, ips, ipam, taken, vrfs, history>>

\* checkAnyIPOfPrefixesInUse on the rows of the ip table.
InUse(P) == \E i \in IPs : ips[i] # None /\ PrefixOf[i] \in P

ListIPs(c) ==
    /\ call[c].pc = "deleteIPs"
    /\ IF InUse(call[c].seen.prefixes) THEN End(c) ELSE To(c, "deletePrefix")
    /\ UNCHANGED <<networks, ips, ipam, taken, vrfs, history>>

DeletePrefix(c) ==
    \E p \in call[c].seen.prefixes \ call[c].drops :
        /\ call[c].pc = "deletePrefix"
        /\ IF Deletable(p) THEN GivenBack(c, p) ELSE Abandon(c)

\* Mutant of ReleaseVRF: the VRF is not given back.
ReleaseNoVRF(c) ==
    /\ call[c].pc = "releaseVRF"
    /\ To(c, "deleteNetwork")
    /\ UNCHANGED <<networks, ips, ipam, taken, vrfs, history>>

ReleaseVRF(c) ==
    /\ call[c].pc = "releaseVRF"
    /\ vrfs' = vrfs \cup {call[c].seen.vrf}
    /\ call' = [call EXCEPT ![c].pc = "deleteNetwork",
                            ![c].drops = call[c].drops \cup {call[c].seen.vrf}]
    /\ UNCHANGED <<networks, ips, ipam, taken, history>>

\* Mutant of RemoveNetwork: the row stays.
RemoveNothing(c) ==
    /\ call[c].pc = "deleteNetwork"
    /\ End(c)
    /\ UNCHANGED <<networks, ips, ipam, taken, vrfs, history>>

\* The row is deleted, whatever it is by now.
RemoveNetwork(c) ==
    /\ call[c].pc = "deleteNetwork"
    /\ Written(c, call[c].id, NoNetwork)
    /\ damaged' = damaged \ {call[c].id}
    /\ UNCHANGED <<ips, ipam, taken, vrfs, lost, interruptions>>

-----------------------------------------------------------------------------
\* updateNetwork

UpdateNetwork(c) ==
    \E n \in NetworkIDs : \E P \in Requestable(networks[n].kind) \cup {networks[n].prefixes} :
        /\ MayChange(n)
        /\ networks[n].kind = "child" => P = networks[n].prefixes
        /\ Begin(c, n, IF P = networks[n].prefixes THEN "updateNetwork" ELSE "updateIPs",
                 [networks[n] EXCEPT !.prefixes = P])

\* Mutants of ToRemove: what stays is removed as well; nothing is removed.
ToRemoveAll(c) == call[c].seen.prefixes \ call[c].drops
ToRemoveNone(c) == {}
ToRemove(c) == (call[c].seen.prefixes \ call[c].row.prefixes) \ call[c].drops
ToAdd(c) == (call[c].row.prefixes \ call[c].seen.prefixes) \ call[c].holds

UpdateListIPs(c) ==
    /\ call[c].pc = "updateIPs"
    /\ IF InUse(ToRemove(c)) THEN End(c) ELSE To(c, "updatePrefixes")
    /\ UNCHANGED <<networks, ips, ipam, taken, vrfs, history>>

UpdateDeletePrefix(c) ==
    \E p \in ToRemove(c) :
        /\ call[c].pc = "updatePrefixes"
        /\ IF Deletable(p)
           THEN /\ ipam' = ipam \ {p}
                /\ call' = [call EXCEPT
                     ![c].drops = call[c].drops \cup {p},
                     ![c].pc = IF ToRemove(c) = {p} /\ ToAdd(c) = {}
                               THEN "updateNetwork" ELSE "updatePrefixes"]
                /\ UNCHANGED <<networks, ips, taken, vrfs, history>>
           ELSE Abandon(c)

UpdateCreatePrefix(c) ==
    \E p \in ToAdd(c) :
        /\ call[c].pc = "updatePrefixes" /\ ToRemove(c) = {}
        /\ MayHandOut(p)
        /\ IF Creatable(p)
           THEN /\ ipam' = ipam \cup {p}
                /\ call' = [call EXCEPT
                     ![c].holds = call[c].holds \cup {p},
                     ![c].pc = IF ToAdd(c) = {p} THEN "updateNetwork" ELSE "updatePrefixes"]
                /\ UNCHANGED <<networks, ips, taken, vrfs, history>>
           ELSE Abandon(c)

\* The announcable CIDRs are validated only now; then the row is replaced when
\* it is still the one that was read.
ReplaceNetwork(c) ==
    /\ call[c].pc = "updateNetwork"
    /\ \/ Abandon(c)
       \/ /\ call[c].current
          /\ Written(c, call[c].id, call[c].row)
          /\ UNCHANGED <<ips, ipam, taken, vrfs, history>>

-----------------------------------------------------------------------------
\* allocateIP and freeIP (with releaseIP of the actor)

AllocateIP(c) == \E n \in NetworkIDs : MayAsk(n) /\ Begin(c, n, "acquireIP", NoNetwork)

FreeIPs(P) == {i \in IPs \ taken : PrefixOf[i] \in P \cap ipam}

AcquireIP(c) ==
    /\ call[c].pc = "acquireIP"
    /\ IF FreeIPs(call[c].seen.prefixes) = {}
       THEN Abandon(c)
       ELSE \E i \in FreeIPs(call[c].seen.prefixes) :
              /\ taken' = taken \cup {i}
              /\ call' = [call EXCEPT ![c].pc = "createIP", ![c].ip = i, ![c].holds = {i}]
              /\ UNCHANGED <<networks, ips, ipam, vrfs, history>>

CreateIP(c) ==
    LET i == call[c].ip
    IN  /\ call[c].pc = "createIP"
        /\ IF ips[i] # None
           THEN Abandon(c)
           ELSE /\ ips' = [ips EXCEPT ![i] = call[c].id]
                /\ End(c)
                /\ UNCHANGED <<networks, ipam, taken, vrfs, history>>

FreeIP(c) ==
    \E i \in IPs :
        /\ call[c].pc = "idle" /\ ips[i] # None
        /\ "serial" \in Assumed => \A d \in Callers : call[d].ip = i => call[d].pc \notin Freeing
        /\ call' = [call EXCEPT ![c] = [IdleCall EXCEPT !.pc = "deleteIP", !.ip = i]]
        /\ UNCHANGED <<networks, ips, ipam, taken, vrfs, history>>

\* Mutant of DeleteIP: the IPAM comes first.
ReleaseIPFirst(c) ==
    /\ call[c].pc = "deleteIP"
    /\ taken' = taken \ {call[c].ip}
    /\ call' = [call EXCEPT ![c].pc = "releaseIP", ![c].holds = {call[c].ip}]
    /\ UNCHANGED <<networks, ips, ipam, vrfs, history>>

DeleteIP(c) ==
    /\ call[c].pc = "deleteIP"
    /\ ips' = [ips EXCEPT ![call[c].ip] = None]
    /\ call' = [call EXCEPT ![c].pc = "releaseIP", ![c].holds = {call[c].ip}]
    /\ UNCHANGED <<networks, ipam, taken, vrfs, history>>

ReleaseIP(c) ==
    /\ call[c].pc = "releaseIP"
    /\ taken' = taken \ {call[c].ip}
    /\ End(c)
    /\ UNCHANGED <<networks, ips, ipam, vrfs, history>>

-----------------------------------------------------------------------------
Interrupt(c) ==
    /\ call[c].pc # "idle" /\ interruptions < MaxInterruptions
    /\ End(c)
    /\ lost' = lost \cup call[c].holds
    /\ damaged' = IF call[c].drops = {} THEN damaged ELSE damaged \cup {call[c].id}
    /\ interruptions' = interruptions + 1
    /\ UNCHANGED <<networks, ips, ipam, taken, vrfs>>

Create(c) == CreateNetwork(c) \/ FindSuper(c) \/ AcquireVRF(c) \/ CreatePrefix(c) \/ InsertNetwork(c)
Allocate(c) == AllocateNetwork(c) \/ AcquireRandomVRF(c) \/ AllocateChildPrefix(c) \/ InsertChild(c)
Free(c) == FreeNetwork(c) \/ ReleaseChildPrefix(c) \/ ReleaseVRF(c) \/ RemoveNetwork(c)
Delete(c) == DeleteNetwork(c) \/ SearchChildren(c) \/ ListIPs(c) \/ DeletePrefix(c)
Update(c) == UpdateNetwork(c) \/ UpdateListIPs(c) \/ UpdateDeletePrefix(c)
                \/ UpdateCreatePrefix(c) \/ ReplaceNetwork(c)
Addresses(c) == AllocateIP(c) \/ AcquireIP(c) \/ CreateIP(c) \/ FreeIP(c) \/ DeleteIP(c) \/ ReleaseIP(c)

Next == \E c \in Callers :
    Create(c) \/ Allocate(c) \/ Free(c) \/ Delete(c) \/ Update(c) \/ Addresses(c) \/ Interrupt(c)

Spec == Init /\ [][Next]_vars
-----------------------------------------------------------------------------
\* What a network has: what its row names, but for what a call gave back already.
Dropped(n) == UNION {call[c].drops : c \in {d \in Callers : call[d].id = n}}
Sound(n) == Exists(n) /\ n \notin damaged
Has(n) == (networks[n].prefixes \cup ({networks[n].vrf} \ {None})) \ Dropped(n)

\* A VRF that no network shares on purpose is that of one network, and not in the
\* pool meanwhile (acquireRandomVRF "a unique but random vrf", releaseVRF).
VRFUnique ==
    \A n \in NetworkIDs, v \in VRFs : Sound(n) /\ v \in Has(n) =>
        /\ v \notin vrfs
        /\ \A m \in NetworkIDs : Sound(m) /\ v \in Has(m) => m = n

\* Two networks have no prefix in common (createNetwork, createChildNetwork,
\* freeNetwork, deleteNetwork).
PrefixUnique ==
    \A n, m \in NetworkIDs : Sound(n) /\ Sound(m) /\ Has(n) \cap Has(m) \cap Prefixes # {} => n = m

\* What networks have is theirs alone, a VRF as much as a prefix (acquireRandomVRF,
\* createNetwork, createChildNetwork, freeNetwork, deleteNetwork).
NothingShared == VRFUnique /\ PrefixUnique

\* A network has its prefixes in the IPAM, otherwise it can neither be deleted nor
\* give out addresses (deleteNetwork, updateNetwork).
IPAMCoversNetworks ==
    \A n \in NetworkIDs : Sound(n) => Has(n) \cap Prefixes \subseteq ipam

\* Only a call that failed loses something: what the IPAM and the pool gave out is
\* named by a row or is in the hands of a call.
Named == (UNION {networks[n].prefixes \cup {networks[n].vrf} : n \in NetworkIDs})
            \cup {i \in IPs : ips[i] # None}
InHands == UNION {call[c].holds : c \in Callers}
Accounted == ipam \cup taken \cup (VRFs \ vrfs) \subseteq Named \cup InHands \cup lost

\* The IPAM and the pool agree with the rows, apart from what failed calls lost
\* (createNetwork, updateNetwork, deleteNetwork, allocateIP).
IPAMAgrees == IPAMCoversNetworks /\ Accounted

\* An address is acquired in the IPAM and lies in a prefix of the network it
\* belongs to, which exists (allocateIP against deleteNetwork and updateNetwork).
IPHasNetwork ==
    \A i \in IPs : ips[i] # None => i \in taken /\ PrefixOf[i] \in networks[ips[i]].prefixes

\* The parent of a child network exists and has the parents of its prefixes
\* (createChildNetwork against deleteNetwork and updateNetwork).
ChildHasParent ==
    \A n \in NetworkIDs : Sound(n) /\ networks[n].kind = "child" =>
        \A p \in Has(n) \cap Prefixes : ParentOf[p] \in networks[networks[n].parent].prefixes

\* There is never more than one private super network: allocateNetwork would find
\* none of them (createNetwork, findEntity).
OneSuper == \A n, m \in Supers : n = m

\* What a row refers to exists, and is the only one of its kind (createChildNetwork,
\* allocateIP, findEntity).
ReferencesKept == IPHasNetwork /\ ChildHasParent /\ OneSuper

-----------------------------------------------------------------------------
(* The inductive invariant behind VRFUnique.                               *)

Keeps(n, v) ==
    /\ Sound(n) /\ networks[n].vrf = v
    /\ \A d \in Callers : call[d].id = n => v \notin call[d].drops

\* What a call has done by the step it is at.
CallFits(k) ==
    /\ ~Changes(k) => k.drops = {}
    /\ Changes(k) /\ k.pc # "deleteNetwork" => k.drops \cap VRFs = {}
    /\ Changes(k) \/ k.pc \in Creating \cup {"acquireIP", "createIP"} => k.id \in NetworkIDs
    /\ k.pc \in Updating => k.row.vrf = k.seen.vrf /\ k.row.kind # "none"
    /\ k.pc = "releaseVRF" => k.seen.vrf # None
    /\ k.pc \in {"createPrefix", "createNetwork"} => k.row.vrf \in k.holds \cup {None}
    /\ k.pc \in {"childPrefix", "createChild"} => k.row.vrf \in k.holds
    /\ k.pc \in {"createIP", "deleteIP", "releaseIP"} => k.ip \in IPs

\* A call that changes a network is the only one, and read the VRF it still has.
ChangeSound(c) ==
    Changes(call[c]) =>
        /\ Sound(call[c].id)
        /\ call[c].seen.vrf = networks[call[c].id].vrf
        /\ \A d \in Callers : Changes(call[d]) /\ call[d].id = call[c].id => d = c

\* What is in the pool or in the hands of a call is there only.
HandsApart ==
    \A c \in Callers, v \in VRFs : v \in call[c].holds =>
        /\ v \notin vrfs
        /\ \A d \in Callers : v \in call[d].holds => d = c

VRFsKept ==
    \A n \in NetworkIDs, v \in VRFs : Keeps(n, v) =>
        /\ v \notin vrfs
        /\ \A c \in Callers : v \notin call[c].holds
        /\ \A m \in NetworkIDs : Keeps(m, v) => m = n

CallsSound == \A c \in Callers : CallFits(call[c]) /\ ChangeSound(c)

\* Who has a VRF: the pool, one call or one row (createNetwork, createChildNetwork,
\* freeNetwork, deleteNetwork, updateNetwork).
NetworkInv == TypeOK /\ CallsSound /\ HandsApart /\ VRFsKept
=============================================================================
