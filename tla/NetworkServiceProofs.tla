------------------------ MODULE NetworkServiceProofs ------------------------
(***************************************************************************)
(* The VRFs, prefixes and addresses of any number of networks and callers.  *)
(* First the VRFs: provided that a network is changed by one call at a time *)
(* and by none after one that stopped half way, and that no network shares  *)
(* a VRF on purpose, a VRF belongs to the pool, to one call or to one       *)
(* network.  Then, under all that a run may take for granted, the prefixes, *)
(* the addresses, the children and what the stores gave out.                *)
(***************************************************************************)
EXTENDS NetworkService, TLAPS

\* The calls after a step of c that leaves it at k.
Moved(c, k) == call' = [call EXCEPT ![c] = k]

\* A call that gave something back goes on, or damages its network; the prefixes it
\* gave back do not count where only VRFs are in question.
Harmless(c, k) ==
    \/ /\ k.id = call[c].id /\ call[c].drops \subseteq k.drops
       /\ damaged' = damaged
    \/ call[c].drops \cap VRFs = {} /\ damaged' = damaged
    \/ call[c].drops # {} /\ ~Changes(k) /\ damaged' = damaged \cup {call[c].id}

\* A step that changes no row and no VRF, and leaves the call in order.
LEMMA QuietParts ==
  ASSUME NetworkInv, NEW c \in Callers, NEW k \in CallState, Moved(c, k), Harmless(c, k),
         networks' = networks, vrfs' = vrfs, CallFits(k), k.holds \cap VRFs \subseteq call[c].holds,
         Changes(k) => /\ Sound(k.id) /\ k.seen.vrf = networks[k.id].vrf
                       /\ (Changes(call[c]) /\ k.id = call[c].id) \/ ~Changing(k.id)
  PROVE  CallsSound' /\ HandsApart' /\ VRFsKept'
<1> USE DEF NetworkInv, CallsSound, Moved
<1>1. call \in [Callers -> CallState]
  BY DEF TypeOK
<1>2. /\ call'[c] = k
      /\ \A d \in Callers \ {c} : call'[d] = call[d]
  BY <1>1
<1>3. \A n \in NetworkIDs : Sound(n)' => Sound(n)
  BY DEF Harmless, Sound, Exists
<1>4. ASSUME NEW d \in Callers PROVE CallFits(call[d])' /\ ChangeSound(d)'
  <2>1. CallFits(call'[d])
    BY <1>2
  <2>2. ASSUME Changes(call'[d]), d # c
        PROVE  /\ Sound(call[d].id)' /\ \A e \in Callers : Changes(call'[e]) /\ call'[e].id = call[d].id => e = d
    <3>1. Changes(call[d]) /\ Sound(call[d].id) /\ (Changes(call[c]) => call[c].id # call[d].id)
      BY <1>2, <2>2 DEF ChangeSound
    <3>2. call[c].drops = {} \/ call[c].id # call[d].id
      BY <3>1 DEF CallFits
    <3>3. Sound(call[d].id)'
      BY <1>2, <2>2, <3>1, <3>2 DEF Harmless, Sound, Exists
    <3>4. Changes(k) => k.id # call[d].id
      BY <3>1 DEF Changing
    <3> QED BY <1>2, <2>2, <3>1, <3>3, <3>4 DEF ChangeSound
  <2>3. ASSUME Changes(k), d = c
        PROVE  Sound(k.id)' /\ \A e \in Callers : Changes(call'[e]) /\ call'[e].id = k.id => e = c
    <3>1. damaged' = damaged
      BY <2>3 DEF Harmless
    <3>2. Sound(k.id)'
      BY <2>3, <3>1 DEF Sound, Exists
    <3>3. ASSUME NEW e \in Callers, Changes(call[e]), call[e].id = k.id PROVE e = c
      BY <2>3, <3>3 DEF ChangeSound, Changing
    <3> QED BY <1>2, <3>2, <3>3
  <2> QED BY <1>2, <2>1, <2>2, <2>3 DEF ChangeSound
<1>5. HandsApart'
  BY <1>2 DEF HandsApart
<1>6. ASSUME NEW n \in NetworkIDs, NEW v \in VRFs, Keeps(n, v)' PROVE Keeps(n, v)
  <2>1. ASSUME call[c].id = n PROVE v \notin call[c].drops
    BY <1>2, <1>6, <2>1 DEF Keeps, Sound, Harmless
  <2> QED BY <1>2, <1>3, <1>6, <2>1 DEF Keeps
<1>7. VRFsKept'
  BY <1>2, <1>6 DEF VRFsKept
<1> QED BY <1>4, <1>5, <1>7

\* The same with the types of what the step may change.
LEMMA QuietStep ==
  ASSUME NetworkInv, NEW c \in Callers, NEW k \in CallState, Moved(c, k), Harmless(c, k),
         networks' = networks, vrfs' = vrfs, CallFits(k), k.holds \cap VRFs \subseteq call[c].holds,
         Changes(k) => /\ Sound(k.id) /\ k.seen.vrf = networks[k.id].vrf
                       /\ (Changes(call[c]) /\ k.id = call[c].id) \/ ~Changing(k.id),
         ips' \in [IPs -> NetworkIDs \cup {None}], ipam' \subseteq Prefixes, taken' \subseteq IPs,
         lost' \subseteq Resources, interruptions' \in Nat
  PROVE  NetworkInv'
<1>1. CallsSound' /\ HandsApart' /\ VRFsKept'
  BY QuietParts
<1>2. call' \in [Callers -> CallState]
  BY DEF NetworkInv, TypeOK, Moved
<1>3. damaged' \subseteq NetworkIDs
  BY DEF NetworkInv, TypeOK, CallsSound, CallFits, Harmless
<1>4. TypeOK'
  BY <1>2, <1>3 DEF NetworkInv, TypeOK
<1> QED BY <1>1, <1>4 DEF NetworkInv

\* An idle call is one.
LEMMA IdleType == IdleCall \in CallState /\ CallFits(IdleCall) /\ ~Changes(IdleCall) /\ NoNetwork \in Network
<1>1. NoNetwork \in Network
  BY DEF NoNetwork, Network, Kinds
<1>2. "idle" \in PC
  BY DEF PC
<1>3. IdleCall \in CallState
  BY <1>1, <1>2 DEF IdleCall, CallState
<1> QED BY <1>1, <1>3 DEF IdleCall, CallFits, Changes, Updating, Deleting, Creating

\* A call that ends, and has damaged its network if it gave something back.
LEMMA EndStep ==
  ASSUME NetworkInv, NEW c \in Callers, End(c), networks' = networks, vrfs' = vrfs,
         \/ damaged' = damaged /\ call[c].drops \cap VRFs = {}
         \/ damaged' = damaged \cup {call[c].id} /\ call[c].drops # {},
         ips' \in [IPs -> NetworkIDs \cup {None}], ipam' \subseteq Prefixes, taken' \subseteq IPs,
         lost' \subseteq Resources, interruptions' \in Nat
  PROVE  NetworkInv'
<1>1. Moved(c, IdleCall) /\ Harmless(c, IdleCall)
  BY IdleType DEF End, Moved, Harmless
<1>2. IdleCall.holds = {}
  BY DEF IdleCall
<1> QED BY <1>1, <1>2, IdleType, QuietStep

\* A call that gives up, or is interrupted, keeps the invariant.
LEMMA AbandonStep ==
  ASSUME NetworkInv, NEW c \in Callers, Abandon(c) \/ Interrupt(c)
  PROVE  NetworkInv'
<1>1. /\ call[c].holds \subseteq Resources /\ lost \subseteq Resources
      /\ interruptions \in Nat /\ interruptions + 1 \in Nat
      /\ ips \in [IPs -> NetworkIDs \cup {None}] /\ ipam \subseteq Prefixes /\ taken \subseteq IPs
  BY DEF NetworkInv, TypeOK, CallState
<1>2. CASE Abandon(c)
  BY <1>1, <1>2, EndStep DEF Abandon
<1>3. CASE Interrupt(c)
  BY <1>1, <1>3, EndStep DEF Interrupt
<1> QED BY <1>2, <1>3

\* A step that leaves everything as it is but the call.
LEMMA CallStep ==
  ASSUME NetworkInv, NEW c \in Callers, NEW k \in CallState, Moved(c, k), Harmless(c, k),
         CallFits(k), k.holds \cap VRFs \subseteq call[c].holds,
         Changes(k) => /\ Sound(k.id) /\ k.seen.vrf = networks[k.id].vrf
                       /\ (Changes(call[c]) /\ k.id = call[c].id) \/ ~Changing(k.id),
         UNCHANGED <<networks, ips, ipam, taken, vrfs, history>>
  PROVE  NetworkInv'
BY QuietStep DEF NetworkInv, TypeOK, history

\* The last read or check before a step: only the place in the call changes.
LEMMA ToStep ==
  ASSUME NetworkInv, NEW c \in Callers, NEW pc \in PC, To(c, pc),
         CallFits([call[c] EXCEPT !.pc = pc]), pc \in Updating \cup Deleting => Changes(call[c]),
         UNCHANGED <<networks, ips, ipam, taken, vrfs, history>>
  PROVE  NetworkInv'
<1> DEFINE k == [call[c] EXCEPT !.pc = pc]
<1>1. call[c] \in CallState /\ ChangeSound(c)
  BY DEF NetworkInv, TypeOK, CallsSound
<1>2. k \in CallState /\ k.pc = pc /\ k.id = call[c].id /\ k.seen = call[c].seen
        /\ k.holds = call[c].holds /\ k.drops = call[c].drops
  BY <1>1 DEF CallState
<1>3. Moved(c, k) /\ Harmless(c, k)
  BY <1>2 DEF To, Moved, Harmless, history
<1>4. Changes(k) => Sound(k.id) /\ k.seen.vrf = networks[k.id].vrf /\ Changes(call[c])
  BY <1>1, <1>2 DEF Changes, ChangeSound
<1>5. CallFits(k)
  OBVIOUS
<1> HIDE DEF k
<1> QED BY <1>2, <1>3, <1>4, <1>5, CallStep

\* The steps of createNetwork.
LEMMA CreateNetworkStep ==
  ASSUME NetworkInv, NEW c \in Callers, CreateNetwork(c)
  PROVE  NetworkInv'
<1>0. PICK n \in NetworkIDs, kind \in {"super", "external"}, v \in VRFs \cup {None} :
      \E P \in Requestable(kind) : CreateNetwork(c)!(n, kind, v)!(P)
  BY DEF CreateNetwork
<1>1. PICK P \in Requestable(kind) :
        /\ call[c].pc = "idle"
        /\ call' = [call EXCEPT ![c] = [IdleCall EXCEPT
                      !.pc = IF kind = "super" THEN "findSuper" ELSE AfterChecks(v), !.id = n,
                      !.row = [kind |-> kind, prefixes |-> P, vrf |-> v, parent |-> None]]]
        /\ UNCHANGED <<networks, ips, ipam, taken, vrfs, history>>
  BY <1>0
<1> DEFINE pc == IF kind = "super" THEN "findSuper" ELSE AfterChecks(v)
           row == [kind |-> kind, prefixes |-> P, vrf |-> v, parent |-> None]
           k == [IdleCall EXCEPT !.pc = pc, !.id = n, !.row = row]
<1>2. pc \in {"findSuper", "acquireVRF", "createPrefix"} /\ (pc = "createPrefix" => v = None)
  BY DEF AfterChecks
<1>3. row \in Network
  BY DEF Requestable, Network, Kinds
<1>4. k \in CallState /\ k.holds = {} /\ k.pc = pc /\ k.id = n /\ k.row.vrf = v /\ k.drops = {}
  BY <1>2, <1>3, IdleType DEF CallState, IdleCall, PC, Creating
<1>5. ~Changes(k)
  BY <1>2, <1>4 DEF Changes, Updating, Deleting
<1>6. CallFits(k)
  BY <1>2, <1>4, <1>5 DEF CallFits, Updating
<1>7. Moved(c, k)
  BY <1>1 DEF Moved
<1>8. call[c].drops = {}
  BY <1>1 DEF NetworkInv, CallsSound, CallFits, Changes, Updating, Deleting
<1> HIDE DEF k
<1> QED BY <1>1, <1>4, <1>5, <1>6, <1>7, <1>8, CallStep DEF Harmless, history


\* A call takes a VRF from the pool.
LEMMA VRFTakenStep ==
  ASSUME NetworkInv, NEW c \in Callers, NEW k \in CallState, NEW v \in vrfs,
         call' = [call EXCEPT ![c] = k], vrfs' = vrfs \ {v}, k.holds = {v},
         CallFits(k), ~Changes(k), ~Changes(call[c]),
         UNCHANGED <<networks, ips, ipam, taken, lost, damaged, interruptions>>
  PROVE  NetworkInv'
<1>1. call \in [Callers -> CallState] /\ v \in VRFs
  BY DEF NetworkInv, TypeOK
<1>2. /\ call'[c] = k
      /\ \A d \in Callers \ {c} : call'[d] = call[d]
  BY <1>1
<1>3. call[c].drops = {}
  BY DEF NetworkInv, CallsSound, CallFits
<1>4. TypeOK'
  BY <1>1 DEF NetworkInv, TypeOK
<1>5. CallsSound'
  BY <1>2 DEF NetworkInv, CallsSound, ChangeSound, Sound, Exists
<1>6. HandsApart'
  BY <1>1, <1>2 DEF NetworkInv, HandsApart
<1>7. ASSUME NEW n \in NetworkIDs, NEW w \in VRFs, Keeps(n, w)' PROVE Keeps(n, w)
  BY <1>2, <1>3, <1>7 DEF Keeps, Sound, Exists
<1>8. VRFsKept'
  BY <1>1, <1>2, <1>7 DEF NetworkInv, VRFsKept
<1> QED BY <1>4, <1>5, <1>6, <1>8 DEF NetworkInv

\* What an idle call, and one that changes no network, has given back: nothing.
LEMMA NoDrops ==
  ASSUME NetworkInv, NEW c \in Callers, ~Changes(call[c])
  PROVE  call[c].drops = {}
BY DEF NetworkInv, CallsSound, CallFits

\* The search for a private super network ends the call or lets it go on.
LEMMA FindSuperStep ==
  ASSUME NetworkInv, NEW c \in Callers, FindSuper(c)
  PROVE  NetworkInv'
<1>1. ~Changes(call[c]) /\ call[c].pc = "findSuper"
  BY DEF FindSuper, Changes, Updating, Deleting
<1>2. CASE End(c)
  BY <1>1, <1>2, NoDrops, EndStep DEF FindSuper, NetworkInv, TypeOK, history
<1>3. CASE To(c, AfterChecks(call[c].row.vrf))
  <2>1. AfterChecks(call[c].row.vrf) \in {"acquireVRF", "createPrefix"}
    BY DEF AfterChecks
  <2>2. AfterChecks(call[c].row.vrf) = "createPrefix" => call[c].row.vrf = None
    BY DEF AfterChecks
  <2>3. AfterChecks(call[c].row.vrf) \in PC
    BY <2>1 DEF PC, Creating
  <2>4. call[c] \in CallState /\ CallFits(call[c])
    BY DEF NetworkInv, TypeOK, CallsSound
  <2>5. CallFits([call[c] EXCEPT !.pc = AfterChecks(call[c].row.vrf)])
    BY <1>1, <2>1, <2>2, <2>4, NoDrops DEF CallFits, CallState, Changes, Updating, Deleting, Creating
  <2>6. AfterChecks(call[c].row.vrf) \notin Updating \cup Deleting
    BY <2>1 DEF Updating, Deleting
  <2> QED BY <1>3, <2>3, <2>5, <2>6, ToStep DEF FindSuper
<1> QED BY <1>2, <1>3 DEF FindSuper

\* The VRF that was asked for is taken, or, as it may not be shared, the call fails.
LEMMA AcquireVRFStep ==
  ASSUME "unshared" \in Assumed, NetworkInv, NEW c \in Callers, AcquireVRF(c)
  PROVE  NetworkInv'
<1> DEFINE v == call[c].row.vrf
           k == [call[c] EXCEPT !.pc = "createPrefix", !.holds = {v}]
<1>1. CASE v \notin vrfs
  BY <1>1, AbandonStep DEF AcquireVRF, SharesVRF
<1>2. CASE v \in vrfs
  <2>1. /\ vrfs' = vrfs \ {v} /\ call' = [call EXCEPT ![c] = k] /\ v \in VRFs
        /\ call[c].pc = "acquireVRF"
        /\ UNCHANGED <<networks, ips, ipam, taken, lost, damaged, interruptions>>
    BY <1>2 DEF AcquireVRF, NetworkInv, TypeOK, history
  <2>2. call[c] \in CallState /\ CallFits(call[c]) /\ ~Changes(call[c])
    BY <2>1 DEF NetworkInv, TypeOK, CallsSound, Changes, Updating, Deleting
  <2>3. k \in CallState /\ k.holds = {v} /\ k.pc = "createPrefix" /\ k.drops = call[c].drops
          /\ k.id = call[c].id /\ k.row = call[c].row
    BY <2>1, <2>2 DEF CallState, PC, Creating, Resources
  <2>4. ~Changes(k) /\ CallFits(k)
    BY <2>1, <2>2, <2>3 DEF CallFits, Changes, Updating, Deleting, Creating
  <2> HIDE DEF k
  <2> QED BY <1>2, <2>1, <2>2, <2>3, <2>4, VRFTakenStep
<1> QED BY <1>1, <1>2

\* A row is written: a new one whose VRF the call acquired, one that keeps its VRF, or
\* none any more; no other call changes the network.
LEMMA WriteStep ==
  ASSUME NetworkInv, NEW c \in Callers, NEW n \in NetworkIDs, NEW row \in Network,
         Written(c, n, row), vrfs' = vrfs, damaged' = damaged \/ damaged' = damaged \ {n},
         \A d \in Callers \ {c} : Changes(call[d]) => call[d].id # n,
         \/ row.kind = "none" /\ (call[c].id = n \/ call[c].drops = {})
         \/ ~Exists(n) /\ row.vrf \in call[c].holds \cup {None} /\ call[c].drops = {}
         \/ Sound(n) /\ row.vrf = networks[n].vrf /\ call[c].drops \cap VRFs = {},
         UNCHANGED <<ips, ipam, taken, lost, interruptions>>
  PROVE  NetworkInv'
<1>1. call \in [Callers -> CallState] /\ networks \in [NetworkIDs -> Network]
  BY DEF NetworkInv, TypeOK
<1>2. /\ call'[c] = IdleCall
      /\ \A d \in Callers \ {c} :
           /\ call'[d] \in CallState /\ call'[d].pc = call[d].pc /\ call'[d].id = call[d].id
           /\ call'[d].seen = call[d].seen /\ call'[d].row = call[d].row /\ call'[d].ip = call[d].ip
           /\ call'[d].holds = call[d].holds /\ call'[d].drops = call[d].drops
  <2> SUFFICES ASSUME NEW d \in Callers \ {c}
               PROVE  /\ call'[d] \in CallState /\ call'[d].pc = call[d].pc /\ call'[d].id = call[d].id
                      /\ call'[d].seen = call[d].seen /\ call'[d].row = call[d].row /\ call'[d].ip = call[d].ip
                      /\ call'[d].holds = call[d].holds /\ call'[d].drops = call[d].drops
    BY DEF Written
  <2>1. call[d] \in CallState
    BY <1>1
  <2>2. call'[d] = [call[d] EXCEPT !.current = FALSE] \/ call'[d] = call[d]
    BY DEF Written
  <2> QED BY <2>1, <2>2 DEF CallState
<1>3. networks' \in [NetworkIDs -> Network] /\ networks'[n] = row
        /\ \A m \in NetworkIDs \ {n} : networks'[m] = networks[m]
  BY <1>1 DEF Written
<1>4. TypeOK'
  <2>1. call' \in [Callers -> CallState]
    BY <1>2, IdleType DEF Written
  <2> QED BY <1>3, <2>1 DEF NetworkInv, TypeOK
<1>5. ASSUME NEW d \in Callers PROVE CallFits(call[d])' /\ ChangeSound(d)'
  <2>1. CASE d = c
    BY <1>2, <2>1, IdleType DEF ChangeSound
  <2>2. CASE d # c
    <3>1. CallFits(call'[d])
      BY <1>2, <2>2 DEF NetworkInv, CallsSound, CallFits, Changes
    <3>2. ASSUME Changes(call'[d])
          PROVE  /\ call[d].id \in NetworkIDs \ {n} /\ Sound(call[d].id)
                 /\ call[d].seen.vrf = networks[call[d].id].vrf
                 /\ \A e \in Callers : Changes(call[e]) /\ call[e].id = call[d].id => e = d
      BY <1>2, <2>2, <3>2 DEF NetworkInv, CallsSound, CallFits, ChangeSound, Changes
    <3>3. Changes(call'[d]) => Sound(call[d].id)'
      BY <1>2, <1>3, <2>2, <3>2 DEF Sound, Exists
    <3>4. \A e \in Callers : Changes(call'[e]) => Changes(call[e]) /\ call'[e].id = call[e].id
      BY <1>2, IdleType DEF Changes
    <3> QED BY <1>2, <1>3, <2>2, <3>1, <3>2, <3>3, <3>4 DEF ChangeSound
  <2> QED BY <2>1, <2>2
<1>6. HandsApart'
  BY <1>2 DEF NetworkInv, HandsApart, IdleCall
<1>7. ASSUME NEW m \in NetworkIDs \ {n}, NEW v \in VRFs, Keeps(m, v)' PROVE Keeps(m, v)
  <2>1. Sound(m) /\ networks[m].vrf = v
    BY <1>3, <1>7 DEF Keeps, Sound, Exists
  <2>2. call[c].id = m => v \notin call[c].drops
    OBVIOUS
  <2> QED BY <1>2, <1>7, <2>1, <2>2 DEF Keeps
<1>8. ASSUME NEW v \in VRFs, Keeps(n, v)' PROVE Keeps(n, v) \/ v \in call[c].holds
  <2>1. row.kind # "none" /\ row.vrf = v
    BY <1>3, <1>8 DEF Keeps, Sound, Exists
  <2>2. CASE ~Exists(n) /\ row.vrf \in call[c].holds \cup {None}
    BY <2>1, <2>2, NetworkAssumption
  <2>3. CASE Sound(n) /\ row.vrf = networks[n].vrf /\ call[c].drops \cap VRFs = {}
    BY <1>2, <1>8, <2>1, <2>3 DEF Keeps
  <2> QED BY <2>1, <2>2, <2>3
<1>9. VRFsKept'
  <2> SUFFICES ASSUME NEW m \in NetworkIDs, NEW v \in VRFs, Keeps(m, v)'
               PROVE  /\ v \notin vrfs /\ \A d \in Callers : v \notin call'[d].holds
                      /\ \A l \in NetworkIDs : Keeps(l, v)' => l = m
    BY DEF VRFsKept
  <2>1. ASSUME NEW l \in NetworkIDs, Keeps(l, v)' PROVE Keeps(l, v) \/ (l = n /\ v \in call[c].holds)
    BY <1>7, <1>8, <2>1
  <2>2. \A d \in Callers : v \in call'[d].holds => d # c /\ v \in call[d].holds
    BY <1>2 DEF IdleCall
  <2> QED BY <2>1, <2>2 DEF NetworkInv, VRFsKept, HandsApart
<1> QED BY <1>4, <1>5, <1>6, <1>9 DEF NetworkInv, CallsSound

\* A prefix is created in the IPAM and held by the call.
LEMMA CreatePrefixStep ==
  ASSUME NetworkInv, NEW c \in Callers, CreatePrefix(c)
  PROVE  NetworkInv'
<1>1. PICK p \in call[c].row.prefixes \ call[c].holds : CreatePrefix(c)!(p)
  BY DEF CreatePrefix
<1>2. CASE Abandon(c)
  BY <1>2, AbandonStep
<1>3. CASE ~Abandon(c)
  <2> DEFINE pc == IF call[c].row.prefixes \subseteq call[c].holds \cup {p} THEN "createNetwork" ELSE "createPrefix"
             k == [call[c] EXCEPT !.holds = call[c].holds \cup {p}, !.pc = pc]
  <2>1. call[c] \in CallState /\ CallFits(call[c]) /\ call[c].row \in Network
    BY DEF NetworkInv, TypeOK, CallsSound, CallState
  <2>2. p \in Prefixes
    BY <2>1 DEF Network
  <2>3. /\ call[c].pc = "createPrefix" /\ ipam' = ipam \cup {p} /\ Moved(c, k)
        /\ UNCHANGED <<networks, ips, taken, vrfs, history>>
    BY <1>1, <1>3 DEF Moved
  <2>4. k \in CallState /\ k.holds = call[c].holds \cup {p} /\ k.pc = pc /\ k.drops = call[c].drops
          /\ k.id = call[c].id /\ k.row = call[c].row
    BY <2>1, <2>2 DEF CallState, PC, Creating, Resources
  <2>5. ~Changes(k) /\ CallFits(k)
    BY <2>1, <2>3, <2>4 DEF CallFits, Changes, Updating, Deleting, Creating
  <2>6. k.holds \cap VRFs \subseteq call[c].holds
    BY <2>2, <2>4, NetworkAssumption
  <2>7. Harmless(c, k)
    BY <2>3, <2>4 DEF Harmless, history
  <2> HIDE DEF k
  <2> QED BY <2>2, <2>3, <2>4, <2>5, <2>6, <2>7, QuietStep DEF NetworkInv, TypeOK, history
<1> QED BY <1>2, <1>3

\* The row of the new network is inserted: what the call held is the network's.
LEMMA InsertNetworkStep ==
  ASSUME NetworkInv, NEW c \in Callers, InsertNetwork(c)
  PROVE  NetworkInv'
<1>1. CASE Exists(call[c].id)
  BY <1>1, AbandonStep DEF InsertNetwork
<1>2. CASE ~Exists(call[c].id)
  <2>1. ~Changes(call[c]) /\ call[c].pc = "createNetwork"
    BY DEF InsertNetwork, Changes, Updating, Deleting
  <2>2. /\ call[c].id \in NetworkIDs /\ call[c].row \in Network
        /\ call[c].row.vrf \in call[c].holds \cup {None}
    BY <2>1 DEF NetworkInv, TypeOK, CallState, CallsSound, CallFits, Creating
  <2>3. \A d \in Callers : Changes(call[d]) => call[d].id # call[c].id
    BY <1>2 DEF NetworkInv, CallsSound, ChangeSound, Sound
  <2> QED BY <1>2, <2>1, <2>2, <2>3, NoDrops, WriteStep DEF InsertNetwork, history
<1> QED BY <1>1, <1>2

\* The steps of allocateNetwork and createChildNetwork.
LEMMA AllocateNetworkStep ==
  ASSUME NetworkInv, NEW c \in Callers, AllocateNetwork(c)
  PROVE  NetworkInv'
<1>1. PICK n \in Supers, wanted \in SUBSET Families : AllocateNetwork(c)!(n, wanted)
  BY DEF AllocateNetwork
<1> DEFINE k == [IdleCall EXCEPT !.pc = "randomVRF", !.id = n, !.seen = networks[n], !.current = TRUE,
                                 !.wanted = wanted]
<1>2. n \in NetworkIDs /\ networks[n] \in Network
  BY DEF Supers, NetworkInv, TypeOK
<1>3. k \in CallState /\ k.pc = "randomVRF" /\ k.holds = {} /\ k.drops = {} /\ k.id = n
  BY <1>2, IdleType DEF CallState, IdleCall, PC
<1>4. ~Changes(k) /\ CallFits(k)
  BY <1>2, <1>3 DEF CallFits, Changes, Updating, Deleting, Creating
<1>5. Moved(c, k) /\ Harmless(c, k)
  BY <1>1, <1>3, NoDrops DEF Moved, Harmless, history, Changes, Updating, Deleting
<1>6. UNCHANGED <<networks, ips, ipam, taken, vrfs, history>>
  BY <1>1
<1> HIDE DEF k
<1> QED BY <1>3, <1>4, <1>5, <1>6, CallStep

\* A child network takes any VRF of the pool.
LEMMA AcquireRandomVRFStep ==
  ASSUME NetworkInv, NEW c \in Callers, AcquireRandomVRF(c)
  PROVE  NetworkInv'
<1>1. CASE vrfs = {}
  BY <1>1, AbandonStep DEF AcquireRandomVRF
<1>2. CASE vrfs # {}
  <2> DEFINE row(v) == [NoNetwork EXCEPT !.kind = "child", !.vrf = v, !.parent = call[c].id]
             K(v) == [call[c] EXCEPT !.pc = "childPrefix", !.holds = {v}, !.row = row(v)]
  <2>1. PICK v \in vrfs : /\ vrfs' = vrfs \ {v} /\ call' = [call EXCEPT ![c] = K(v)]
                          /\ UNCHANGED <<networks, ips, ipam, taken, lost, damaged, interruptions>>
    BY <1>2 DEF AcquireRandomVRF, history
  <2>2. v \in VRFs /\ call[c] \in CallState /\ call[c].pc = "randomVRF"
    BY DEF NetworkInv, TypeOK, AcquireRandomVRF
  <2>3. row(v) \in Network /\ row(v).vrf = v
    BY <2>2, IdleType DEF CallState, Network, Kinds, NoNetwork
  <2> HIDE DEF row
  <2>4. /\ K(v) \in CallState /\ K(v).pc = "childPrefix" /\ K(v).holds = {v} /\ K(v).row = row(v)
        /\ K(v).drops = call[c].drops
    BY <2>2, <2>3 DEF CallState, PC, Resources
  <2>5. ~Changes(call[c]) /\ ~Changes(K(v))
    BY <2>2, <2>4 DEF Changes, Updating, Deleting
  <2> HIDE DEF K
  <2>6. CallFits(K(v))
    BY <2>3, <2>4, <2>5, NoDrops DEF CallFits, Creating, Updating
  <2> QED BY <2>1, <2>4, <2>5, <2>6, VRFTakenStep
<1> QED BY <1>1, <1>2

\* A child prefix is held by the call that acquired it.
LEMMA AllocateChildPrefixStep ==
  ASSUME NetworkInv, NEW c \in Callers, AllocateChildPrefix(c)
  PROVE  NetworkInv'
<1>1. PICK f \in call[c].wanted : AllocateChildPrefix(c)!(f)
  BY DEF AllocateChildPrefix
<1> DEFINE free == FreeChildren(call[c].seen.prefixes, f)
<1>2. CASE free = {}
  BY <1>1, <1>2, AbandonStep
<1>3. CASE free # {}
  <2> DEFINE row(q) == [call[c].row EXCEPT !.prefixes = call[c].row.prefixes \cup {q}]
             pc == IF call[c].wanted = {f} THEN "createChild" ELSE "childPrefix"
             K(q) == [call[c] EXCEPT !.holds = call[c].holds \cup {q}, !.row = row(q),
                                     !.wanted = call[c].wanted \ {f}, !.pc = pc]
  <2>1. PICK q \in free : /\ ipam' = ipam \cup {q} /\ call' = [call EXCEPT ![c] = K(q)]
                          /\ UNCHANGED <<networks, ips, taken, vrfs, history>>
    BY <1>1, <1>3
  <2>2. q \in Prefixes /\ call[c] \in CallState /\ call[c].pc = "childPrefix" /\ CallFits(call[c])
    BY <1>1 DEF NetworkInv, TypeOK, CallsSound, FreeChildren
  <2>3. row(q) \in Network /\ row(q).vrf = call[c].row.vrf
    BY <2>2 DEF CallState, Network
  <2> HIDE DEF row
  <2>4. /\ K(q) \in CallState /\ K(q).pc = pc /\ K(q).holds = call[c].holds \cup {q} /\ K(q).row = row(q)
        /\ K(q).drops = call[c].drops /\ K(q).id = call[c].id
    BY <2>2, <2>3 DEF CallState, PC, Resources
  <2>5. ~Changes(call[c]) /\ ~Changes(K(q))
    BY <2>2, <2>4 DEF Changes, Updating, Deleting
  <2> HIDE DEF K
  <2>6. CallFits(K(q))
    BY <2>2, <2>3, <2>4, <2>5 DEF CallFits, Creating, Updating
  <2>7. K(q).holds \cap VRFs \subseteq call[c].holds
    BY <2>2, <2>4, NetworkAssumption
  <2>8. Moved(c, K(q)) /\ Harmless(c, K(q))
    BY <2>1, <2>4 DEF Moved, Harmless, history
  <2> QED BY <2>1, <2>2, <2>4, <2>5, <2>6, <2>7, <2>8, QuietStep DEF NetworkInv, TypeOK, history
<1> QED BY <1>2, <1>3

\* The row of the child is inserted under a new id.
LEMMA InsertChildStep ==
  ASSUME NetworkInv, NEW c \in Callers, InsertChild(c)
  PROVE  NetworkInv'
<1>1. PICK n \in NetworkIDs : InsertChild(c)!(n)
  BY DEF InsertChild
<1>2. ~Changes(call[c])
  BY <1>1 DEF Changes, Updating, Deleting
<1>3. call[c].row \in Network /\ call[c].row.vrf \in call[c].holds
  BY <1>1 DEF NetworkInv, TypeOK, CallState, CallsSound, CallFits
<1> QED BY <1>1, <1>2, <1>3, NoDrops, WriteStep DEF history

\* The first step of a call about a network that exists.
LEMMA BeginStep ==
  ASSUME {"serial", "leftAlone"} \subseteq Assumed, NetworkInv, NEW c \in Callers, NEW n \in NetworkIDs,
         NEW pc \in PC, NEW row \in Network, Begin(c, n, pc, row),
         \/ pc \in {"updateNetwork", "updateIPs"} /\ row.vrf = networks[n].vrf /\ row.kind # "none"
         \/ pc \in {"children", "releaseChild", "acquireIP"},
         pc # "acquireIP" => MayChange(n)
  PROVE  NetworkInv'
<1> DEFINE k == [IdleCall EXCEPT !.pc = pc, !.id = n, !.seen = networks[n], !.row = row, !.current = TRUE]
<1>1. networks[n] \in Network /\ Exists(n) /\ call[c].pc = "idle"
  BY DEF NetworkInv, TypeOK, Begin
<1>2. /\ k \in CallState /\ k.pc = pc /\ k.id = n /\ k.seen = networks[n] /\ k.row = row
      /\ k.holds = {} /\ k.drops = {}
  BY <1>1, IdleType DEF CallState, IdleCall
<1>3. Moved(c, k) /\ UNCHANGED <<networks, ips, ipam, taken, vrfs, history>>
  BY DEF Begin, Moved
<1>4. call[c].drops = {}
  BY <1>1, NoDrops DEF Changes, Updating, Deleting
<1> HIDE DEF k
<1>5. CallFits(k)
  BY <1>2 DEF CallFits, Changes, Updating, Deleting, Creating
<1>6. Changes(k) => Sound(n) /\ ~Changing(n)
  BY <1>1, <1>2 DEF MayChange, Sound, Changes, Updating, Deleting
<1>7. Harmless(c, k)
  BY <1>3, <1>4 DEF Harmless, history
<1> QED BY <1>2, <1>3, <1>5, <1>6, <1>7, CallStep

\* Reading the network.
LEMMA BeginSteps ==
  ASSUME {"serial", "leftAlone"} \subseteq Assumed, NetworkInv, NEW c \in Callers,
         FreeNetwork(c) \/ DeleteNetwork(c) \/ UpdateNetwork(c) \/ AllocateIP(c)
  PROVE  NetworkInv'
<1>1. {"releaseChild", "children", "acquireIP", "updateNetwork", "updateIPs"} \subseteq PC
  BY DEF PC, Updating, Deleting
<1>2. CASE FreeNetwork(c)
  <2>1. PICK n \in NetworkIDs : MayChange(n) /\ Begin(c, n, "releaseChild", NoNetwork)
    BY <1>2 DEF FreeNetwork
  <2> QED BY <1>1, <2>1, IdleType, BeginStep
<1>3. CASE DeleteNetwork(c)
  <2>1. PICK n \in NetworkIDs : MayChange(n) /\ Begin(c, n, "children", NoNetwork)
    BY <1>3 DEF DeleteNetwork
  <2> QED BY <1>1, <2>1, IdleType, BeginStep
<1>4. CASE AllocateIP(c)
  <2>1. PICK n \in NetworkIDs : Begin(c, n, "acquireIP", NoNetwork)
    BY <1>4 DEF AllocateIP
  <2> QED BY <1>1, <2>1, IdleType, BeginStep
<1>5. CASE UpdateNetwork(c)
  <2>1. PICK n \in NetworkIDs : \E P \in Requestable(networks[n].kind) \cup {networks[n].prefixes} : UpdateNetwork(c)!(n)!(P)
    BY <1>5 DEF UpdateNetwork
  <2>2. PICK P \in Requestable(networks[n].kind) \cup {networks[n].prefixes} : UpdateNetwork(c)!(n)!(P)
    BY <2>1
  <2> DEFINE row == [networks[n] EXCEPT !.prefixes = P]
  <2>3. networks[n] \in Network /\ networks[n].kind # "none"
    BY <2>2 DEF NetworkInv, TypeOK, Begin, Exists
  <2>4. P \subseteq Prefixes
    BY <2>2, <2>3 DEF Requestable, Network
  <2>5. row \in Network /\ row.vrf = networks[n].vrf /\ row.kind # "none"
    BY <2>3, <2>4 DEF Network
  <2> HIDE DEF row
  <2>6. MayChange(n) /\ \E pc \in {"updateNetwork", "updateIPs"} : Begin(c, n, pc, row)
    BY <2>2 DEF row
  <2> QED BY <1>1, <2>5, <2>6, BeginStep
<1> QED BY <1>2, <1>3, <1>4, <1>5

\* The steps of freeNetwork and deleteNetwork.
LEMMA GivenBackStep ==
  ASSUME NetworkInv, NEW c \in Callers, NEW p \in call[c].seen.prefixes,
         call[c].pc \in {"releaseChild", "deletePrefix"}, GivenBack(c, p)
  PROVE  NetworkInv'
<1> DEFINE drops == call[c].drops \cup {p}
           last == IF HasVRF(call[c].seen) THEN "releaseVRF" ELSE "deleteNetwork"
           pc == IF call[c].seen.prefixes \subseteq drops THEN last ELSE call[c].pc
           k == [call[c] EXCEPT !.drops = drops, !.pc = pc]
<1>1. call[c] \in CallState /\ CallFits(call[c]) /\ ChangeSound(c) /\ call[c].seen \in Network
  BY DEF NetworkInv, TypeOK, CallsSound, CallState
<1>2. p \in Prefixes /\ p \notin VRFs
  BY <1>1, NetworkAssumption DEF Network
<1>3. /\ Moved(c, k) /\ ipam' \subseteq ipam
      /\ UNCHANGED <<networks, ips, taken, vrfs, history>>
  BY DEF GivenBack, Moved
<1>4. pc \in {"releaseChild", "deletePrefix", "releaseVRF", "deleteNetwork"}
        /\ (pc = "releaseVRF" => call[c].seen.vrf # None)
  BY DEF HasVRF
<1>5. /\ k \in CallState /\ k.pc = pc /\ k.id = call[c].id /\ k.seen = call[c].seen
      /\ k.row = call[c].row /\ k.holds = call[c].holds /\ k.drops = drops
  BY <1>1, <1>2, <1>4 DEF CallState, PC, Deleting, Resources
<1>6. Changes(call[c]) /\ call[c].pc # "deleteNetwork"
  BY DEF Changes, Deleting
<1>7. Harmless(c, k)
  BY <1>3, <1>5 DEF Harmless, history
<1> HIDE DEF k, pc
<1>8. CallFits(k)
  BY <1>1, <1>2, <1>4, <1>5, <1>6 DEF CallFits, Changes, Updating, Deleting, Creating
<1> QED BY <1>1, <1>3, <1>5, <1>6, <1>7, <1>8, QuietStep DEF ChangeSound, NetworkInv, TypeOK, history

\* Children and addresses are looked up before a network is deleted or changed.
LEMMA ReadsStep ==
  ASSUME NetworkInv, NEW c \in Callers, SearchChildren(c) \/ ListIPs(c) \/ UpdateListIPs(c)
  PROVE  NetworkInv'
<1>1. /\ call[c].pc \in {"children", "deleteIPs", "updateIPs"}
      /\ UNCHANGED <<networks, ips, ipam, taken, vrfs, history>>
      /\ \/ End(c)
         \/ call[c].pc = "children" /\ To(c, "deleteIPs")
         \/ call[c].pc = "deleteIPs" /\ To(c, "deletePrefix")
         \/ call[c].pc = "updateIPs" /\ To(c, "updatePrefixes")
  BY DEF SearchChildren, ListIPs, UpdateListIPs
<1>2. call[c] \in CallState /\ CallFits(call[c])
  BY DEF NetworkInv, TypeOK, CallsSound
<1>3. Changes(call[c]) /\ call[c].drops \cap VRFs = {}
  BY <1>1, <1>2 DEF CallFits, Changes, Updating, Deleting
<1>4. CASE End(c)
  BY <1>1, <1>3, <1>4, EndStep DEF NetworkInv, TypeOK, history
<1>5. ASSUME NEW pc \in {"deleteIPs", "deletePrefix", "updatePrefixes"}, To(c, pc),
             pc \in Updating => call[c].pc \in Updating
      PROVE  NetworkInv'
  <2>1. pc \in PC /\ pc \in Updating \cup Deleting
    BY DEF PC, Updating, Deleting
  <2>2. CallFits([call[c] EXCEPT !.pc = pc])
    BY <1>2, <1>3, <1>5, <2>1 DEF CallFits, CallState, Changes, Updating, Deleting, Creating
  <2> QED BY <1>1, <1>3, <1>5, <2>1, <2>2, ToStep
<1>6. "deleteIPs" \notin Updating /\ "deletePrefix" \notin Updating /\ "updateIPs" \in Updating
  BY DEF Updating
<1> QED BY <1>1, <1>4, <1>5, <1>6

\* The VRF is given back while the row still names it, and no other row does.
LEMMA ReleaseVRFStep ==
  ASSUME NetworkInv, NEW c \in Callers, ReleaseVRF(c)
  PROVE  NetworkInv'
<1> DEFINE v == call[c].seen.vrf
           n == call[c].id
           k == [call[c] EXCEPT !.pc = "deleteNetwork", !.drops = call[c].drops \cup {v}]
<1>1. call \in [Callers -> CallState] /\ call[c].pc = "releaseVRF"
  BY DEF NetworkInv, TypeOK, ReleaseVRF
<1>2. call[c] \in CallState /\ CallFits(call[c]) /\ Changes(call[c]) /\ ChangeSound(c) /\ call[c].seen \in Network
  BY <1>1 DEF NetworkInv, CallsSound, CallState, Changes, Deleting
<1>3. n \in NetworkIDs /\ v \in VRFs /\ networks[n].vrf = v /\ Sound(n)
  BY <1>1, <1>2 DEF CallFits, ChangeSound, Network
<1>4. Keeps(n, v)
  BY <1>1, <1>2, <1>3, NoDrops DEF Keeps, CallFits, ChangeSound
<1>5. /\ k \in CallState /\ k.pc = "deleteNetwork" /\ k.id = n /\ k.seen = call[c].seen
      /\ k.holds = call[c].holds /\ k.drops = call[c].drops \cup {v}
  BY <1>2, <1>3 DEF CallState, PC, Deleting, Resources
<1>6. /\ vrfs' = vrfs \cup {v} /\ call' = [call EXCEPT ![c] = k]
      /\ UNCHANGED <<networks, ips, ipam, taken, history>>
  BY DEF ReleaseVRF
<1> HIDE DEF k
<1>7. CallFits(k) /\ Changes(k)
  BY <1>2, <1>3, <1>5 DEF CallFits, Changes, Updating, Deleting, Creating
<1>8. /\ call'[c] = k
      /\ \A d \in Callers \ {c} : call'[d] = call[d]
  BY <1>1, <1>6
<1>9. TypeOK'
  BY <1>1, <1>3, <1>5, <1>6 DEF NetworkInv, TypeOK, history
<1>10. CallsSound'
  BY <1>2, <1>5, <1>6, <1>7, <1>8 DEF NetworkInv, CallsSound, ChangeSound, Sound, Exists, history
<1>11. HandsApart'
  BY <1>3, <1>4, <1>5, <1>6, <1>8 DEF NetworkInv, HandsApart, VRFsKept
<1>12. ASSUME NEW m \in NetworkIDs, NEW w \in VRFs, Keeps(m, w)' PROVE Keeps(m, w) /\ w # v
  <2>1. Keeps(m, w)
    BY <1>5, <1>6, <1>8, <1>12 DEF Keeps, Sound, Exists, history
  <2>2. w = v => m = n
    BY <1>3, <1>4, <2>1 DEF NetworkInv, VRFsKept
  <2>3. v \in call'[c].drops /\ call'[c].id = n
    BY <1>5, <1>8
  <2> QED BY <1>12, <2>1, <2>2, <2>3 DEF Keeps
<1>13. VRFsKept'
  BY <1>5, <1>6, <1>8, <1>12 DEF NetworkInv, VRFsKept
<1> QED BY <1>9, <1>10, <1>11, <1>13 DEF NetworkInv

\* The row is removed by the only call that changes the network.
LEMMA RemoveNetworkStep ==
  ASSUME NetworkInv, NEW c \in Callers, RemoveNetwork(c)
  PROVE  NetworkInv'
<1>1. Changes(call[c])
  BY DEF RemoveNetwork, Changes, Deleting
<1>2. call[c].id \in NetworkIDs /\ \A d \in Callers \ {c} : Changes(call[d]) => call[d].id # call[c].id
  BY <1>1 DEF NetworkInv, CallsSound, CallFits, ChangeSound
<1>3. NoNetwork.kind = "none"
  BY DEF NoNetwork
<1> QED BY <1>2, <1>3, IdleType, WriteStep DEF RemoveNetwork

\* All of them together, with the steps that may fail.
LEMMA FreeAndDeleteSteps ==
  ASSUME NetworkInv, NEW c \in Callers,
         ReleaseChildPrefix(c) \/ DeletePrefix(c) \/ ReleaseVRF(c) \/ RemoveNetwork(c)
  PROVE  NetworkInv'
<1>1. CASE ReleaseChildPrefix(c)
  BY <1>1, AbandonStep, GivenBackStep DEF ReleaseChildPrefix
<1>2. CASE DeletePrefix(c)
  BY <1>2, AbandonStep, GivenBackStep DEF DeletePrefix
<1> QED BY <1>1, <1>2, ReleaseVRFStep, RemoveNetworkStep

\* The steps of updateNetwork.
LEMMA UpdateDeletePrefixStep ==
  ASSUME NetworkInv, NEW c \in Callers, UpdateDeletePrefix(c)
  PROVE  NetworkInv'
<1>1. PICK p \in ToRemove(c) : UpdateDeletePrefix(c)!(p)
  BY DEF UpdateDeletePrefix
<1>2. CASE ~Deletable(p)
  BY <1>1, <1>2, AbandonStep
<1>3. CASE Deletable(p)
  <2> DEFINE pc == IF ToRemove(c) = {p} /\ ToAdd(c) = {} THEN "updateNetwork" ELSE "updatePrefixes"
             k == [call[c] EXCEPT !.drops = call[c].drops \cup {p}, !.pc = pc]
  <2>1. call[c] \in CallState /\ CallFits(call[c]) /\ ChangeSound(c) /\ call[c].seen \in Network
    BY DEF NetworkInv, TypeOK, CallsSound, CallState
  <2>2. p \in Prefixes /\ p \notin VRFs
    BY <2>1, NetworkAssumption DEF ToRemove, Network
  <2>3. /\ Moved(c, k) /\ ipam' = ipam \ {p} /\ call[c].pc = "updatePrefixes"
        /\ UNCHANGED <<networks, ips, taken, vrfs, history>>
    BY <1>1, <1>3 DEF Moved
  <2>4. /\ k \in CallState /\ k.pc = pc /\ k.id = call[c].id /\ k.seen = call[c].seen
        /\ k.row = call[c].row /\ k.holds = call[c].holds /\ k.drops = call[c].drops \cup {p}
    BY <2>1, <2>2 DEF CallState, PC, Updating, Resources
  <2>5. Changes(call[c])
    BY <2>3 DEF Changes, Updating
  <2>6. Harmless(c, k)
    BY <2>3, <2>4 DEF Harmless, history
  <2> HIDE DEF k
  <2>7. CallFits(k)
    BY <2>1, <2>2, <2>3, <2>4, <2>5 DEF CallFits, Changes, Updating, Deleting, Creating
  <2> QED BY <2>1, <2>3, <2>4, <2>5, <2>6, <2>7, QuietStep DEF ChangeSound, NetworkInv, TypeOK, history
<1> QED BY <1>2, <1>3

\* A prefix is added in the IPAM.
LEMMA UpdateCreatePrefixStep ==
  ASSUME NetworkInv, NEW c \in Callers, UpdateCreatePrefix(c)
  PROVE  NetworkInv'
<1>1. PICK p \in ToAdd(c) : UpdateCreatePrefix(c)!(p)
  BY DEF UpdateCreatePrefix
<1>2. CASE ~Creatable(p)
  BY <1>1, <1>2, AbandonStep
<1>3. CASE Creatable(p)
  <2> DEFINE pc == IF ToAdd(c) = {p} THEN "updateNetwork" ELSE "updatePrefixes"
             k == [call[c] EXCEPT !.holds = call[c].holds \cup {p}, !.pc = pc]
  <2>1. call[c] \in CallState /\ CallFits(call[c]) /\ ChangeSound(c) /\ call[c].row \in Network
    BY DEF NetworkInv, TypeOK, CallsSound, CallState
  <2>2. p \in Prefixes /\ p \notin VRFs
    BY <2>1, NetworkAssumption DEF ToAdd, Network
  <2>3. /\ Moved(c, k) /\ ipam' = ipam \cup {p} /\ call[c].pc = "updatePrefixes"
        /\ UNCHANGED <<networks, ips, taken, vrfs, history>>
    BY <1>1, <1>3 DEF Moved
  <2>4. /\ k \in CallState /\ k.pc = pc /\ k.id = call[c].id /\ k.seen = call[c].seen
        /\ k.row = call[c].row /\ k.holds = call[c].holds \cup {p} /\ k.drops = call[c].drops
    BY <2>1, <2>2 DEF CallState, PC, Updating, Resources
  <2>5. Changes(call[c])
    BY <2>3 DEF Changes, Updating
  <2>6. Harmless(c, k) /\ k.holds \cap VRFs \subseteq call[c].holds
    BY <2>2, <2>3, <2>4 DEF Harmless, history
  <2> HIDE DEF k
  <2>7. CallFits(k)
    BY <2>1, <2>3, <2>4, <2>5 DEF CallFits, Changes, Updating, Deleting, Creating
  <2> QED BY <2>1, <2>2, <2>3, <2>4, <2>5, <2>6, <2>7, QuietStep DEF ChangeSound, NetworkInv, TypeOK, history
<1> QED BY <1>2, <1>3

\* The row is replaced by one with the same VRF, or the call fails.
LEMMA ReplaceNetworkStep ==
  ASSUME NetworkInv, NEW c \in Callers, ReplaceNetwork(c)
  PROVE  NetworkInv'
<1> DEFINE n == call[c].id
           row == call[c].row
<1>1. CASE Abandon(c)
  BY <1>1, AbandonStep
<1>2. CASE Written(c, n, row) /\ UNCHANGED <<ips, ipam, taken, vrfs, history>>
  <2>1. call[c].pc = "updateNetwork" /\ Changes(call[c]) /\ call[c].pc \in Updating
    BY DEF ReplaceNetwork, Changes, Updating
  <2>2. n \in NetworkIDs /\ row \in Network /\ row.vrf = networks[n].vrf /\ call[c].drops \cap VRFs = {}
    BY <2>1 DEF NetworkInv, TypeOK, CallState, CallsSound, CallFits, ChangeSound
  <2>3. Sound(n) /\ \A d \in Callers \ {c} : Changes(call[d]) => call[d].id # n
    BY <2>1 DEF NetworkInv, CallsSound, ChangeSound
  <2> QED BY <1>2, <2>2, <2>3, WriteStep DEF history
<1> QED BY <1>1, <1>2 DEF ReplaceNetwork

\* The steps of allocateIP and freeIP: no network, and no VRF, is concerned.
LEMMA AddressStep ==
  ASSUME NetworkInv, NEW c \in Callers, NEW k \in CallState, Moved(c, k), CallFits(k), ~Changes(k),
         ~Changes(call[c]), k.holds \subseteq IPs,
         ips' \in [IPs -> NetworkIDs \cup {None}], taken' \subseteq IPs,
         UNCHANGED <<networks, ipam, vrfs, history>>
  PROVE  NetworkInv'
<1>1. call[c].drops = {} /\ k.holds \cap VRFs \subseteq call[c].holds
  BY NoDrops, NetworkAssumption
<1> QED BY <1>1, QuietStep DEF Harmless, NetworkInv, TypeOK, history

\* All of them.
LEMMA AddressSteps ==
  ASSUME NetworkInv, NEW c \in Callers,
         AcquireIP(c) \/ CreateIP(c) \/ FreeIP(c) \/ DeleteIP(c) \/ ReleaseIP(c)
  PROVE  NetworkInv'
<1>1. /\ call[c] \in CallState /\ CallFits(call[c]) /\ ips \in [IPs -> NetworkIDs \cup {None}]
      /\ taken \subseteq IPs /\ ipam \subseteq Prefixes /\ lost \subseteq Resources /\ interruptions \in Nat
  BY DEF NetworkInv, TypeOK, CallsSound
<1>2. {"idle", "acquireIP", "createIP", "deleteIP", "releaseIP"} \cap (Updating \cup Deleting) = {}
  BY DEF Updating, Deleting
<1>3. CASE AcquireIP(c)
  <2>1. CASE FreeIPs(call[c].seen.prefixes) = {}
    BY <1>3, <2>1, AbandonStep DEF AcquireIP
  <2>2. CASE FreeIPs(call[c].seen.prefixes) # {}
    <3> DEFINE K(i) == [call[c] EXCEPT !.pc = "createIP", !.ip = i, !.holds = {i}]
    <3>1. PICK i \in FreeIPs(call[c].seen.prefixes) :
            /\ taken' = taken \cup {i} /\ call' = [call EXCEPT ![c] = K(i)]
            /\ UNCHANGED <<networks, ips, ipam, vrfs, history>>
      BY <1>3, <2>2 DEF AcquireIP
    <3>2. i \in IPs /\ call[c].pc = "acquireIP" /\ ~Changes(call[c])
      BY <1>2, <1>3 DEF AcquireIP, FreeIPs, Changes
    <3>3. /\ K(i) \in CallState /\ K(i).pc = "createIP" /\ K(i).holds = {i} /\ K(i).ip = i
          /\ K(i).drops = call[c].drops /\ K(i).id = call[c].id
      BY <1>1, <3>2 DEF CallState, PC, Resources
    <3> HIDE DEF K
    <3>4. ~Changes(K(i))
      BY <1>2, <3>3 DEF Changes
    <3>5. CallFits(K(i))
      BY <1>1, <3>2, <3>3, <3>4 DEF CallFits, Creating, Updating
    <3> QED BY <1>1, <3>1, <3>2, <3>3, <3>4, <3>5, AddressStep DEF Moved
  <2> QED BY <2>1, <2>2
<1>4. CASE CreateIP(c)
  <2>1. CASE ips[call[c].ip] # None
    BY <1>4, <2>1, AbandonStep DEF CreateIP
  <2>2. CASE ips[call[c].ip] = None
    <3>1. call[c].pc = "createIP" /\ ~Changes(call[c]) /\ End(c) /\ ips' = [ips EXCEPT ![call[c].ip] = call[c].id]
      BY <1>2, <1>4, <2>2 DEF CreateIP, Changes
    <3>2. ips' \in [IPs -> NetworkIDs \cup {None}] /\ call[c].drops = {}
      BY <1>1, <3>1, NoDrops DEF CallFits
    <3> QED BY <1>1, <1>4, <2>2, <3>1, <3>2, EndStep DEF CreateIP, history
  <2> QED BY <2>1, <2>2
<1>5. CASE FreeIP(c)
  <2> DEFINE K(i) == [IdleCall EXCEPT !.pc = "deleteIP", !.ip = i]
  <2>1. PICK i \in IPs : /\ call[c].pc = "idle" /\ call' = [call EXCEPT ![c] = K(i)]
                         /\ UNCHANGED <<networks, ips, ipam, taken, vrfs, history>>
    BY <1>5 DEF FreeIP
  <2>2. /\ K(i) \in CallState /\ K(i).pc = "deleteIP" /\ K(i).holds = {} /\ K(i).ip = i /\ K(i).drops = {}
    BY IdleType DEF CallState, IdleCall, PC, Freeing
  <2> HIDE DEF K
  <2>3. ~Changes(call[c]) /\ ~Changes(K(i))
    BY <1>2, <2>1, <2>2 DEF Changes
  <2>4. CallFits(K(i))
    BY <2>2, <2>3 DEF CallFits, Creating, Updating
  <2> QED BY <1>1, <2>1, <2>2, <2>3, <2>4, AddressStep DEF Moved
<1>6. CASE DeleteIP(c)
  <2> DEFINE i == call[c].ip
             k == [call[c] EXCEPT !.pc = "releaseIP", !.holds = {i}]
  <2>1. /\ call[c].pc = "deleteIP" /\ ips' = [ips EXCEPT ![i] = None] /\ call' = [call EXCEPT ![c] = k]
        /\ UNCHANGED <<networks, ipam, taken, vrfs, history>>
    BY <1>6 DEF DeleteIP
  <2>2. i \in IPs /\ ~Changes(call[c])
    BY <1>1, <1>2, <2>1 DEF CallFits, Changes
  <2>3. /\ k \in CallState /\ k.pc = "releaseIP" /\ k.holds = {i} /\ k.ip = i /\ k.drops = call[c].drops
    BY <1>1, <2>2 DEF CallState, PC, Freeing, Resources
  <2> HIDE DEF k
  <2>4. ~Changes(k)
    BY <1>2, <2>3 DEF Changes
  <2>5. CallFits(k)
    BY <1>1, <2>2, <2>3, <2>4 DEF CallFits, Creating, Updating
  <2>6. ips' \in [IPs -> NetworkIDs \cup {None}]
    BY <1>1, <2>1
  <2> QED BY <1>1, <2>1, <2>2, <2>3, <2>4, <2>5, <2>6, AddressStep DEF Moved
<1>7. CASE ReleaseIP(c)
  <2>1. ~Changes(call[c]) /\ End(c) /\ taken' \subseteq IPs
    BY <1>1, <1>2, <1>7 DEF ReleaseIP, Changes
  <2> QED BY <1>1, <1>7, <2>1, NoDrops, EndStep DEF ReleaseIP, history
<1> QED BY <1>3, <1>4, <1>5, <1>6, <1>7

-----------------------------------------------------------------------------
\* A VRF is in the pool, in the hands of one call or named by one network, for any
\* number of networks, callers and VRFs (createNetwork, createChildNetwork,
\* updateNetwork, freeNetwork, deleteNetwork).
THEOREM NetworkInvariant ==
  ASSUME {"serial", "leftAlone", "unshared"} \subseteq Assumed
  PROVE  Spec => []NetworkInv
<1>1. Init => NetworkInv
  <2> SUFFICES ASSUME Init PROVE NetworkInv
    OBVIOUS
  <2>1. TypeOK
    BY IdleType DEF Init, TypeOK
  <2>2. CallsSound
    BY IdleType DEF Init, CallsSound, ChangeSound
  <2>3. HandsApart
    BY DEF Init, HandsApart, IdleCall
  <2>4. VRFsKept
    BY DEF Init, VRFsKept, Keeps, Sound, Exists, NoNetwork
  <2> QED BY <2>1, <2>2, <2>3, <2>4 DEF NetworkInv
<1>2. NetworkInv /\ [Next]_vars => NetworkInv'
  <2> SUFFICES ASSUME NetworkInv, [Next]_vars PROVE NetworkInv'
    OBVIOUS
  <2>1. CASE UNCHANGED vars
    BY <2>1 DEF vars, NetworkInv, TypeOK, CallsSound, ChangeSound, HandsApart, VRFsKept, Keeps, Sound, Exists
  <2>2. ASSUME NEW c \in Callers, Create(c) PROVE NetworkInv'
    BY <2>2, CreateNetworkStep, FindSuperStep, AcquireVRFStep, CreatePrefixStep, InsertNetworkStep DEF Create
  <2>3. ASSUME NEW c \in Callers, Allocate(c) PROVE NetworkInv'
    BY <2>3, AllocateNetworkStep, AcquireRandomVRFStep, AllocateChildPrefixStep, InsertChildStep DEF Allocate
  <2>4. ASSUME NEW c \in Callers, Free(c) PROVE NetworkInv'
    BY <2>4, BeginSteps, FreeAndDeleteSteps DEF Free
  <2>5. ASSUME NEW c \in Callers, Delete(c) PROVE NetworkInv'
    BY <2>5, BeginSteps, ReadsStep, FreeAndDeleteSteps DEF Delete
  <2>6. ASSUME NEW c \in Callers, Update(c) PROVE NetworkInv'
    BY <2>6, BeginSteps, ReadsStep, UpdateDeletePrefixStep, UpdateCreatePrefixStep, ReplaceNetworkStep DEF Update
  <2>7. ASSUME NEW c \in Callers, Addresses(c) PROVE NetworkInv'
    BY <2>7, BeginSteps, AddressSteps DEF Addresses
  <2> QED BY <2>1, <2>2, <2>3, <2>4, <2>5, <2>6, <2>7, AbandonStep DEF Next
<1> QED BY <1>1, <1>2, PTL DEF Spec

\* Two networks that are complete have different VRFs, and neither is in the pool,
\* where acquireRandomVRF would find it (releaseVRF).
THEOREM VRFsUnique ==
  ASSUME {"serial", "leftAlone", "unshared"} \subseteq Assumed
  PROVE  Spec => []VRFUnique
<1>1. NetworkInv => VRFUnique
  <2> SUFFICES ASSUME NetworkInv PROVE VRFUnique
    OBVIOUS
  <2>1. ASSUME NEW n \in NetworkIDs, NEW v \in VRFs, Sound(n), v \in Has(n) PROVE Keeps(n, v)
    <3>1. v \notin Dropped(n) /\ v \in networks[n].prefixes \cup {networks[n].vrf}
      BY <2>1 DEF Has
    <3>2. networks[n].prefixes \subseteq Prefixes
      BY DEF NetworkInv, TypeOK, Network
    <3>3. networks[n].vrf = v
      BY <3>1, <3>2, NetworkAssumption
    <3>4. \A d \in Callers : call[d].id = n => v \notin call[d].drops
      BY <3>1 DEF Dropped
    <3> QED BY <2>1, <3>3, <3>4 DEF Keeps
  <2> QED BY <2>1 DEF VRFUnique, NetworkInv, VRFsKept
<1> QED BY <1>1, NetworkInvariant, PTL

-----------------------------------------------------------------------------
(* Prefixes and addresses.  A step of a call is one of a few kinds: it thinks, *)
(* gives up, takes something from a store, returns something to one, writes   *)
(* the row of a network or concerns the row of an address.  The invariants are *)
(* shown to survive each kind; which kind an action is, and what the call has  *)
(* and knows after it, is shown once per action.                               *)

Asking == {"acquireIP", "randomVRF", "childPrefix"}
ForChild == {"childPrefix", "createChild"}
AtIP == {"createIP"} \cup Freeing
Begun == {"updateIPs", "children", "deleteIPs"}
Empty == {"idle", "findSuper", "acquireVRF", "randomVRF", "acquireIP", "deleteIP", "updateIPs"} \cup Deleting

Top(p) == ParentOf[p] = None

\* What a call holds: what its row will name, or its address.
HoldsFit(k) ==
    /\ k.pc \in Empty => k.holds = {}
    /\ k.pc \in {"createPrefix", "createNetwork"} \cup ForChild => k.holds \subseteq k.row.prefixes \cup {k.row.vrf}
    /\ k.pc \in {"createNetwork"} \cup ForChild => k.row.prefixes \subseteq k.holds
    /\ k.pc \in Updating => k.holds \subseteq k.row.prefixes \ k.seen.prefixes
    /\ k.pc = "updateNetwork" => k.row.prefixes \ k.seen.prefixes \subseteq k.holds
    /\ k.pc \in {"createIP", "releaseIP"} => k.holds = {k.ip}

\* What a call gave back: what its new row does not name any more.
DropsFit(k) ==
    /\ k.pc \in Begun => k.drops = {}
    /\ k.pc \in Updating => k.drops \subseteq k.seen.prefixes \ k.row.prefixes
    /\ k.pc = "updateNetwork" => k.seen.prefixes \ k.row.prefixes \subseteq k.drops
    /\ k.pc \in Deleting => k.drops \subseteq k.seen.prefixes \cup {k.seen.vrf}
    /\ k.pc \in {"releaseVRF", "deleteNetwork"} => k.seen.prefixes \subseteq k.drops
    /\ k.pc = "deleteNetwork" => k.seen.vrf \in k.drops \cup {None}

\* The row a call will write.
RowFits(k) ==
    /\ k.pc \in Creating => k.row.kind \in {"super", "external"}
    /\ k.pc \in ForChild => k.row.kind = "child" /\ k.row.parent = k.id
    /\ k.pc \in Updating => /\ k.row.kind = k.seen.kind /\ k.row.parent = k.seen.parent
                            /\ k.seen.kind = "child" => k.row.prefixes = k.seen.prefixes
    /\ k.pc \in Creating \cup Updating /\ k.row.kind = "super" => \A p \in k.row.prefixes : Top(p)
    /\ k.pc \in Asking \cup ForChild => k.id \in NetworkIDs
    /\ k.pc \in {"randomVRF", "childPrefix"} => \A p \in k.seen.prefixes : Top(p)

Fit(k) == HoldsFit(k) /\ DropsFit(k) /\ RowFits(k)

\* A call that changes a network read the row it has.
Reads == \A c \in Callers : Changes(call[c]) => call[c].seen = networks[call[c].id]

\* The rows of networks.
Rows == \A n \in NetworkIDs :
    /\ ~Exists(n) => networks[n] = NoNetwork
    /\ networks[n].kind = "super" => \A p \in networks[n].prefixes : Top(p)
    /\ networks[n].kind = "child" => networks[n].parent \in NetworkIDs

Order == NetworkInv /\ (\A c \in Callers : Fit(call[c])) /\ Reads /\ Rows

\* The other calls are as before, but for what they know of their row.
Same(k, l) == /\ k.pc = l.pc /\ k.id = l.id /\ k.seen = l.seen /\ k.row = l.row
              /\ k.holds = l.holds /\ k.drops = l.drops /\ k.ip = l.ip
Others(c) == \A d \in Callers \ {c} : Same(call'[d], call[d])

Thinks(c) ==
    /\ UNCHANGED <<networks, ips, ipam, taken, vrfs, lost, damaged>>
    /\ call'[c].holds = call[c].holds /\ call'[c].drops = call[c].drops
    /\ call'[c].id = call[c].id \/ call[c].drops = {}

GivesUp(c) ==
    /\ UNCHANGED <<networks, ips, ipam, taken, vrfs>>
    /\ call'[c] = IdleCall
    /\ lost' = lost \cup call[c].holds
    /\ damaged' = IF call[c].drops = {} THEN damaged ELSE damaged \cup {call[c].id}

\* x is in its store, and is taken from it.
TakenFrom(c, x) ==
    \/ x \in Prefixes \ ipam /\ MayHandOut(x) /\ ipam' = ipam \cup {x} /\ UNCHANGED <<taken, vrfs>>
    \/ x \in vrfs /\ vrfs' = vrfs \ {x} /\ UNCHANGED <<ipam, taken>>
    \/ /\ x \in FreeIPs(call[c].seen.prefixes) /\ call[c].pc = "acquireIP" /\ call'[c].ip = x
       /\ taken' = taken \cup {x} /\ UNCHANGED <<ipam, vrfs>>
Takes(c, x) ==
    /\ UNCHANGED <<networks, ips, lost, damaged>>
    /\ call'[c].holds = call[c].holds \cup {x} /\ call'[c].drops = call[c].drops
    /\ call'[c].id = call[c].id
    /\ TakenFrom(c, x)

Returns(c, x) ==
    /\ UNCHANGED <<networks, ips, taken, lost, damaged>>
    /\ Changes(call[c]) /\ call'[c].id = call[c].id
    /\ call'[c].holds = call[c].holds /\ call'[c].drops = call[c].drops \cup {x}
    /\ x \notin call[c].drops /\ x # None
    /\ \/ x \in call[c].seen.prefixes /\ (Deletable(x) \/ Releasable(x)) /\ ipam' = ipam \ {x} /\ UNCHANGED vrfs
       \/ x = call[c].seen.vrf /\ vrfs' = vrfs \cup {x} /\ UNCHANGED ipam

Writes(c, n, row) ==
    /\ n \in NetworkIDs /\ row \in Network
    /\ networks' = [networks EXCEPT ![n] = row] /\ call'[c] = IdleCall
    /\ UNCHANGED <<ips, ipam, taken, vrfs, lost>>
Inserts(c) == \E n \in NetworkIDs :
    /\ Writes(c, n, call[c].row) /\ ~Exists(n) /\ damaged' = damaged
    /\ call[c].pc = "createNetwork" \/ call[c].pc = "createChild"
Replaces(c) == call[c].pc = "updateNetwork" /\ Writes(c, call[c].id, call[c].row) /\ damaged' = damaged
Removes(c) ==
    /\ call[c].pc = "deleteNetwork" /\ Writes(c, call[c].id, NoNetwork)
    /\ damaged' = damaged \ {call[c].id}

AtRow(c) ==
    /\ UNCHANGED <<networks, ipam, vrfs, lost, damaged>>
    /\ call[c].drops = {} /\ call'[c].drops = {} /\ call'[c].holds \subseteq IPs
    /\ (CreateIP(c) /\ ips[call[c].ip] = None) \/ DeleteIP(c) \/ ReleaseIP(c)

Kind(c) ==
    \/ Thinks(c) \/ GivesUp(c)
    \/ \E x \in Resources : Takes(c, x) \/ Returns(c, x)
    \/ Inserts(c) \/ Replaces(c) \/ Removes(c) \/ AtRow(c)

\* What a call knows after a step.
Goes(c) ==
    /\ Fit(call'[c])
    /\ Changes(call'[c]) => networks' = networks /\ call'[c].seen = networks[call'[c].id]
    /\ call'[c].pc \in Asking =>
         \/ MayAsk(call'[c].id) /\ Exists(call'[c].id) /\ call'[c].seen = networks[call'[c].id]
         \/ call[c].pc \in Asking /\ call'[c].id = call[c].id /\ call'[c].seen = call[c].seen
    /\ call'[c].pc \in ForChild =>
         \/ call'[c].row.prefixes = {}
         \/ /\ call[c].pc = "childPrefix" /\ call'[c].id = call[c].id
            /\ \A p \in call'[c].row.prefixes \ call[c].row.prefixes : ParentOf[p] \in call[c].seen.prefixes \cap ipam
    /\ call'[c].pc \in Creating =>
         \/ CreateNetwork(c)
         \/ /\ call[c].pc \in Creating /\ call'[c].row = call[c].row
            /\ call[c].pc = "findSuper" => Supers = {}
    /\ call'[c].pc \in AtIP => AcquireIP(c) \/ FreeIP(c) \/ DeleteIP(c)

StepOf(c) == Others(c) /\ Kind(c) /\ Goes(c)

\* A step that moves one call only.
LEMMA MovedOthers ==
  ASSUME NetworkInv, NEW c \in Callers, NEW k, call' = [call EXCEPT ![c] = k]
  PROVE  Others(c) /\ call'[c] = k
BY DEF NetworkInv, TypeOK, Others, Same

\* A call that has ended.
LEMMA IdleGoes ==
  ASSUME NEW c \in Callers, call'[c] = IdleCall
  PROVE  Goes(c)
<1>1. IdleCall.pc = "idle" /\ IdleCall.holds = {} /\ IdleCall.drops = {}
  BY DEF IdleCall
<1>2. "idle" \notin Updating \cup Deleting \cup Creating \cup Asking \cup ForChild \cup AtIP \cup Begun
  BY DEF Updating, Deleting, Creating, Asking, ForChild, AtIP, Freeing, Begun
<1>3. Fit(IdleCall)
  BY <1>1, <1>2 DEF Fit, HoldsFit, DropsFit, RowFits, Begun, ForChild, Asking, Updating, Deleting
<1> QED BY <1>1, <1>2, <1>3 DEF Goes, Changes

\* An end without a consequence, and with one.
LEMMA EndKind ==
  ASSUME Order, NEW c \in Callers, End(c), UNCHANGED <<networks, ips, ipam, taken, vrfs, history>>,
         call[c].holds = {}, call[c].drops = {}
  PROVE  StepOf(c)
<1>1. Others(c) /\ call'[c] = IdleCall
  BY MovedOthers DEF End, Order
<1>2. GivesUp(c)
  BY <1>1 DEF GivesUp, history
<1> QED BY <1>1, <1>2, IdleGoes DEF StepOf, Kind

LEMMA AbandonKind ==
  ASSUME Order, NEW c \in Callers, Abandon(c) \/ Interrupt(c)
  PROVE  StepOf(c)
<1>1. Others(c) /\ call'[c] = IdleCall
  BY MovedOthers DEF Abandon, Interrupt, End, Order
<1>2. GivesUp(c)
  BY <1>1 DEF GivesUp, Abandon, Interrupt
<1> QED BY <1>1, <1>2, IdleGoes DEF StepOf, Kind

\* What is known of a call at the start of a step.
LEMMA CallKnown ==
  ASSUME Order, NEW c \in Callers
  PROVE  /\ call[c] \in CallState /\ call[c].seen \in Network /\ call[c].row \in Network
         /\ CallFits(call[c]) /\ ChangeSound(c) /\ Fit(call[c])
         /\ Changes(call[c]) => call[c].seen = networks[call[c].id]
         /\ ~Changes(call[c]) => call[c].drops = {}
BY DEF Order, NetworkInv, TypeOK, CallsSound, CallState, CallFits, Reads

\* createNetwork.
LEMMA CreateNetworkKind ==
  ASSUME Order, NEW c \in Callers, CreateNetwork(c)
  PROVE  StepOf(c)
<1>0. PICK n \in NetworkIDs, kind \in {"super", "external"}, v \in VRFs \cup {None} :
      \E P \in Requestable(kind) : CreateNetwork(c)!(n, kind, v)!(P)
  BY DEF CreateNetwork
<1>1. PICK P \in Requestable(kind) :
        /\ call[c].pc = "idle"
        /\ call' = [call EXCEPT ![c] = [IdleCall EXCEPT
                      !.pc = IF kind = "super" THEN "findSuper" ELSE AfterChecks(v), !.id = n,
                      !.row = [kind |-> kind, prefixes |-> P, vrf |-> v, parent |-> None]]]
        /\ UNCHANGED <<networks, ips, ipam, taken, vrfs, history>>
  BY <1>0
<1> DEFINE pc == IF kind = "super" THEN "findSuper" ELSE AfterChecks(v)
           row == [kind |-> kind, prefixes |-> P, vrf |-> v, parent |-> None]
           k == [IdleCall EXCEPT !.pc = pc, !.id = n, !.row = row]
<1>2. pc \in {"findSuper", "acquireVRF", "createPrefix"}
  BY DEF AfterChecks
<1>3. row.kind = kind /\ row.prefixes = P
  OBVIOUS
<1>4. k.holds = {} /\ k.drops = {} /\ k.pc = pc /\ k.id = n /\ k.row = row
  BY DEF IdleCall
<1>5. kind = "super" => \A p \in P : Top(p)
  BY DEF Requestable, Top
<1>6. Others(c) /\ call'[c] = k
  BY <1>1, MovedOthers DEF Order
<1>7. call[c].drops = {} /\ call[c].holds = {}
  BY <1>1, CallKnown DEF Changes, Updating, Deleting, Fit, HoldsFit, Empty
<1>8. Thinks(c)
  BY <1>1, <1>4, <1>6, <1>7 DEF Thinks, history
<1> HIDE DEF k, row
<1>9. Fit(k)
  BY <1>2, <1>3, <1>4, <1>5
     DEF Fit, HoldsFit, DropsFit, RowFits, Begun, ForChild, Asking, Updating, Deleting, Creating
<1>10. Goes(c)
  BY <1>2, <1>4, <1>6, <1>9 DEF Goes, Changes, Updating, Deleting, Asking, ForChild, AtIP, Freeing
<1> QED BY <1>6, <1>8, <1>10 DEF StepOf, Kind

LEMMA FindSuperKind ==
  ASSUME Order, NEW c \in Callers, FindSuper(c)
  PROVE  StepOf(c)
<1>1. call[c].pc = "findSuper" /\ UNCHANGED <<networks, ips, ipam, taken, vrfs, history>>
  BY DEF FindSuper
<1>2. call[c].drops = {} /\ call[c].holds = {}
  BY <1>1, CallKnown DEF Changes, Updating, Deleting, Fit, HoldsFit, Empty
<1>3. CASE Supers # {}
  BY <1>1, <1>2, <1>3, EndKind DEF FindSuper
<1>4. CASE Supers = {}
  <2> DEFINE pc == AfterChecks(call[c].row.vrf)
             k == [call[c] EXCEPT !.pc = pc]
  <2>1. call[c] \in CallState /\ Fit(call[c])
    BY CallKnown
  <2>2. k.pc = pc /\ k.id = call[c].id /\ k.row = call[c].row /\ k.holds = {} /\ k.drops = {}
    BY <1>2, <2>1 DEF CallState
  <2>3. Others(c) /\ call'[c] = k
    BY <1>4, MovedOthers DEF FindSuper, To, Order
  <2>4. pc \in {"acquireVRF", "createPrefix"}
    BY DEF AfterChecks
  <2> HIDE DEF k, pc
  <2>5. Fit(k)
    BY <1>1, <2>1, <2>2, <2>4
       DEF Fit, HoldsFit, DropsFit, RowFits, Begun, ForChild, Asking, Updating, Deleting, Creating
  <2>6. Thinks(c)
    BY <1>1, <1>2, <2>2, <2>3 DEF Thinks, history
  <2>7. Goes(c)
    BY <1>1, <1>4, <2>2, <2>3, <2>4, <2>5
       DEF Goes, Changes, Updating, Deleting, Creating, Asking, ForChild, AtIP, Freeing
  <2> QED BY <2>3, <2>6, <2>7 DEF StepOf, Kind
<1> QED BY <1>3, <1>4

LEMMA AcquireVRFKind ==
  ASSUME "unshared" \in Assumed, Order, NEW c \in Callers, AcquireVRF(c)
  PROVE  StepOf(c)
<1> DEFINE v == call[c].row.vrf
           k == [call[c] EXCEPT !.pc = "createPrefix", !.holds = {v}]
<1>1. CASE v \notin vrfs
  BY <1>1, AbandonKind DEF AcquireVRF, SharesVRF
<1>2. CASE v \in vrfs
  <2>1. /\ vrfs' = vrfs \ {v} /\ call' = [call EXCEPT ![c] = k] /\ call[c].pc = "acquireVRF"
        /\ UNCHANGED <<networks, ips, ipam, taken, history>>
    BY <1>2 DEF AcquireVRF
  <2>2. call[c] \in CallState /\ Fit(call[c]) /\ call[c].drops = {}
    BY <2>1, CallKnown DEF Changes, Updating, Deleting
  <2>3. call[c].holds = {} /\ v \in Resources
    BY <1>2, <2>1, <2>2 DEF Fit, HoldsFit, Empty, Order, NetworkInv, TypeOK, Resources
  <2>4. k.pc = "createPrefix" /\ k.id = call[c].id /\ k.row = call[c].row /\ k.holds = {v} /\ k.drops = {}
    BY <2>2 DEF CallState
  <2>5. Others(c) /\ call'[c] = k
    BY <2>1, MovedOthers DEF Order
  <2> HIDE DEF k
  <2>6. Fit(k)
    BY <2>1, <2>2, <2>4
       DEF Fit, HoldsFit, DropsFit, RowFits, Begun, Empty, ForChild, Asking, Updating, Deleting, Creating
  <2>7. Takes(c, v)
    BY <1>2, <2>1, <2>2, <2>3, <2>4, <2>5 DEF Takes, TakenFrom, history
  <2>8. Goes(c)
    BY <2>1, <2>4, <2>5, <2>6 DEF Goes, Changes, Updating, Deleting, Creating, Asking, ForChild, AtIP, Freeing
  <2> QED BY <2>3, <2>5, <2>7, <2>8 DEF StepOf, Kind
<1> QED BY <1>1, <1>2

LEMMA CreatePrefixKind ==
  ASSUME Order, NEW c \in Callers, CreatePrefix(c)
  PROVE  StepOf(c)
<1>1. PICK p \in call[c].row.prefixes \ call[c].holds : CreatePrefix(c)!(p)
  BY DEF CreatePrefix
<1>2. CASE Abandon(c)
  BY <1>2, AbandonKind
<1>3. CASE ~Abandon(c)
  <2> DEFINE pc == IF call[c].row.prefixes \subseteq call[c].holds \cup {p} THEN "createNetwork" ELSE "createPrefix"
             k == [call[c] EXCEPT !.holds = call[c].holds \cup {p}, !.pc = pc]
  <2>1. call[c] \in CallState /\ Fit(call[c]) /\ call[c].row \in Network
    BY CallKnown
  <2>2. p \in Prefixes /\ p \in Resources
    BY <2>1 DEF Network, Resources
  <2>3. /\ call[c].pc = "createPrefix" /\ p \notin ipam /\ MayHandOut(p) /\ ipam' = ipam \cup {p}
        /\ call' = [call EXCEPT ![c] = k]
        /\ UNCHANGED <<networks, ips, taken, vrfs, history>>
    BY <1>1, <1>3 DEF Creatable
  <2>4. /\ k.holds = call[c].holds \cup {p} /\ k.pc = pc /\ k.drops = call[c].drops
        /\ k.id = call[c].id /\ k.row = call[c].row
    BY <2>1 DEF CallState
  <2>5. Others(c) /\ call'[c] = k
    BY <2>3, MovedOthers DEF Order
  <2> HIDE DEF k
  <2>6. Fit(k)
    BY <2>1, <2>3, <2>4
       DEF Fit, HoldsFit, DropsFit, RowFits, Begun, Empty, ForChild, Asking, Updating, Deleting, Creating
  <2>7. Takes(c, p)
    BY <2>2, <2>3, <2>4, <2>5 DEF Takes, TakenFrom, history
  <2>8. Goes(c)
    BY <2>3, <2>4, <2>5, <2>6 DEF Goes, Changes, Updating, Deleting, Creating, Asking, ForChild, AtIP, Freeing
  <2> QED BY <2>2, <2>5, <2>7, <2>8 DEF StepOf, Kind
<1> QED BY <1>2, <1>3

\* A row is written.
LEMMA WrittenOthers ==
  ASSUME NetworkInv, NEW c \in Callers, NEW n \in NetworkIDs, NEW row \in Network, Written(c, n, row)
  PROVE  /\ Others(c) /\ call'[c] = IdleCall
         /\ networks' = [networks EXCEPT ![n] = row]
<1>1. call \in [Callers -> CallState]
  BY DEF NetworkInv, TypeOK
<1>2. ASSUME NEW d \in Callers \ {c} PROVE Same(call'[d], call[d])
  <2>1. call'[d] = IF call[d].id = n THEN [call[d] EXCEPT !.current = FALSE] ELSE call[d]
    BY DEF Written
  <2>2. call[d] \in CallState
    BY <1>1
  <2> QED BY <2>1, <2>2 DEF CallState, Same
<1> QED BY <1>2 DEF Written, Others

LEMMA InsertNetworkKind ==
  ASSUME Order, NEW c \in Callers, InsertNetwork(c)
  PROVE  StepOf(c)
<1>1. CASE Exists(call[c].id)
  BY <1>1, AbandonKind DEF InsertNetwork
<1>2. CASE ~Exists(call[c].id)
  <2>1. call[c].id \in NetworkIDs /\ call[c].row \in Network /\ call[c].pc = "createNetwork"
    BY CallKnown DEF InsertNetwork, CallFits, Creating
  <2>2. Written(c, call[c].id, call[c].row) /\ UNCHANGED <<ips, ipam, taken, vrfs, history>>
    BY <1>2 DEF InsertNetwork
  <2>3. Others(c) /\ call'[c] = IdleCall /\ networks' = [networks EXCEPT ![call[c].id] = call[c].row]
    BY <2>1, <2>2, WrittenOthers DEF Order
  <2>4. Inserts(c)
    BY <1>2, <2>1, <2>2, <2>3 DEF Inserts, Writes, history
  <2> QED BY <2>3, <2>4, IdleGoes DEF StepOf, Kind
<1> QED BY <1>1, <1>2

\* allocateNetwork and createChildNetwork.
LEMMA AllocateNetworkKind ==
  ASSUME Order, NEW c \in Callers, AllocateNetwork(c)
  PROVE  StepOf(c)
<1>1. PICK n \in Supers, wanted \in SUBSET Families : AllocateNetwork(c)!(n, wanted)
  BY DEF AllocateNetwork
<1> DEFINE k == [IdleCall EXCEPT !.pc = "randomVRF", !.id = n, !.seen = networks[n], !.current = TRUE,
                                 !.wanted = wanted]
<1>2. /\ n \in NetworkIDs /\ networks[n].kind = "super" /\ Exists(n)
      /\ \A p \in networks[n].prefixes : Top(p)
  BY DEF Supers, Exists, Order, Rows
<1>3. k.pc = "randomVRF" /\ k.id = n /\ k.seen = networks[n] /\ k.holds = {} /\ k.drops = {}
  BY DEF IdleCall
<1>4. Others(c) /\ call'[c] = k
  BY <1>1, MovedOthers DEF Order
<1>5. call[c].drops = {} /\ call[c].holds = {}
  BY <1>1, CallKnown DEF Changes, Updating, Deleting, Fit, HoldsFit, Empty
<1> HIDE DEF k
<1>6. Fit(k)
  BY <1>2, <1>3 DEF Fit, HoldsFit, DropsFit, RowFits, Begun, Empty, ForChild, Asking, Updating, Deleting, Creating
<1>7. Thinks(c)
  BY <1>1, <1>3, <1>4, <1>5 DEF Thinks, history
<1>8. Goes(c)
  BY <1>1, <1>2, <1>3, <1>4, <1>6 DEF Goes, Changes, Updating, Deleting, Creating, Asking, ForChild, AtIP, Freeing
<1> QED BY <1>4, <1>7, <1>8 DEF StepOf, Kind

LEMMA AcquireRandomVRFKind ==
  ASSUME Order, NEW c \in Callers, AcquireRandomVRF(c)
  PROVE  StepOf(c)
<1>1. CASE vrfs = {}
  BY <1>1, AbandonKind DEF AcquireRandomVRF
<1>2. CASE vrfs # {}
  <2> DEFINE row(v) == [NoNetwork EXCEPT !.kind = "child", !.vrf = v, !.parent = call[c].id]
             K(v) == [call[c] EXCEPT !.pc = "childPrefix", !.holds = {v}, !.row = row(v)]
  <2>1. PICK v \in vrfs : /\ vrfs' = vrfs \ {v} /\ call' = [call EXCEPT ![c] = K(v)]
                          /\ UNCHANGED <<networks, ips, ipam, taken, history>>
    BY <1>2 DEF AcquireRandomVRF
  <2>2. v \in Resources /\ call[c] \in CallState /\ call[c].pc = "randomVRF" /\ Fit(call[c]) /\ call[c].drops = {}
    BY CallKnown DEF Order, NetworkInv, TypeOK, AcquireRandomVRF, Resources, Changes, Updating, Deleting
  <2>3. row(v).kind = "child" /\ row(v).vrf = v /\ row(v).parent = call[c].id /\ row(v).prefixes = {}
    BY DEF NoNetwork
  <2>4. call[c].holds = {}
    BY <2>2 DEF Fit, HoldsFit, Empty
  <2> HIDE DEF row
  <2>5. /\ K(v).pc = "childPrefix" /\ K(v).holds = {v} /\ K(v).row = row(v)
        /\ K(v).drops = {} /\ K(v).id = call[c].id /\ K(v).seen = call[c].seen
    BY <2>2 DEF CallState
  <2>6. Others(c) /\ call'[c] = K(v)
    BY <2>1, MovedOthers DEF Order
  <2> HIDE DEF K
  <2>7. Fit(K(v))
    BY <2>2, <2>3, <2>5
       DEF Fit, HoldsFit, DropsFit, RowFits, Begun, Empty, ForChild, Asking, Updating, Deleting, Creating
  <2>8. Takes(c, v)
    BY <2>1, <2>2, <2>4, <2>5, <2>6 DEF Takes, TakenFrom, history
  <2>9. Goes(c)
    BY <2>2, <2>3, <2>5, <2>6, <2>7
       DEF Goes, Changes, Updating, Deleting, Creating, Asking, ForChild, AtIP, Freeing
  <2> QED BY <2>2, <2>6, <2>8, <2>9 DEF StepOf, Kind
<1> QED BY <1>1, <1>2

LEMMA AllocateChildPrefixKind ==
  ASSUME Order, NEW c \in Callers, AllocateChildPrefix(c)
  PROVE  StepOf(c)
<1>1. PICK f \in call[c].wanted : AllocateChildPrefix(c)!(f)
  BY DEF AllocateChildPrefix
<1> DEFINE free == FreeChildren(call[c].seen.prefixes, f)
<1>2. CASE free = {}
  BY <1>1, <1>2, AbandonKind
<1>3. CASE free # {}
  <2> DEFINE row(q) == [call[c].row EXCEPT !.prefixes = call[c].row.prefixes \cup {q}]
             pc == IF call[c].wanted = {f} THEN "createChild" ELSE "childPrefix"
             K(q) == [call[c] EXCEPT !.holds = call[c].holds \cup {q}, !.row = row(q),
                                     !.wanted = call[c].wanted \ {f}, !.pc = pc]
  <2>1. PICK q \in free : /\ MayHandOut(q) /\ ipam' = ipam \cup {q} /\ call' = [call EXCEPT ![c] = K(q)]
                          /\ UNCHANGED <<networks, ips, taken, vrfs, history>>
    BY <1>1, <1>3
  <2>2. /\ q \in Prefixes \ ipam /\ q \in Resources /\ ParentOf[q] \in call[c].seen.prefixes \cap ipam
        /\ call[c].pc = "childPrefix"
    BY <1>1 DEF FreeChildren, Resources
  <2>3. call[c] \in CallState /\ call[c].row \in Network /\ Fit(call[c])
    BY CallKnown
  <2>4. /\ row(q).prefixes = call[c].row.prefixes \cup {q} /\ row(q).vrf = call[c].row.vrf
        /\ row(q).kind = call[c].row.kind /\ row(q).parent = call[c].row.parent
    BY <2>3 DEF Network
  <2> HIDE DEF row
  <2>5. /\ K(q).pc = pc /\ K(q).holds = call[c].holds \cup {q} /\ K(q).row = row(q)
        /\ K(q).drops = call[c].drops /\ K(q).id = call[c].id /\ K(q).seen = call[c].seen
    BY <2>3 DEF CallState
  <2>6. Others(c) /\ call'[c] = K(q)
    BY <2>1, MovedOthers DEF Order
  <2> HIDE DEF K
  <2>7. Fit(K(q))
    BY <2>2, <2>3, <2>4, <2>5
       DEF Fit, HoldsFit, DropsFit, RowFits, Begun, Empty, ForChild, Asking, Updating, Deleting, Creating
  <2>8. Takes(c, q)
    BY <2>1, <2>2, <2>5, <2>6 DEF Takes, TakenFrom, history
  <2>9. Goes(c)
    BY <2>2, <2>4, <2>5, <2>6, <2>7
       DEF Goes, Changes, Updating, Deleting, Creating, Asking, ForChild, AtIP, Freeing
  <2> QED BY <2>2, <2>6, <2>8, <2>9 DEF StepOf, Kind
<1> QED BY <1>2, <1>3

LEMMA InsertChildKind ==
  ASSUME Order, NEW c \in Callers, InsertChild(c)
  PROVE  StepOf(c)
<1>1. PICK n \in NetworkIDs : /\ call[c].pc = "createChild" /\ ~Exists(n) /\ Written(c, n, call[c].row)
                              /\ UNCHANGED <<ips, ipam, taken, vrfs, history>>
  BY DEF InsertChild
<1>2. call[c].row \in Network
  BY CallKnown
<1>3. Others(c) /\ call'[c] = IdleCall /\ networks' = [networks EXCEPT ![n] = call[c].row]
  BY <1>1, <1>2, WrittenOthers DEF Order
<1>4. Inserts(c)
  BY <1>1, <1>2, <1>3 DEF Inserts, Writes, history
<1> QED BY <1>3, <1>4, IdleGoes DEF StepOf, Kind

\* The network is read, by the only call that changes it or by one that asks for an
\* address.
LEMMA BeginKind ==
  ASSUME Order, NEW c \in Callers, NEW n \in NetworkIDs, NEW pc, NEW row, Begin(c, n, pc, row),
         \/ pc \in {"children", "releaseChild"}
         \/ pc = "acquireIP" /\ MayAsk(n)
         \/ /\ pc \in {"updateNetwork", "updateIPs"}
            /\ row.kind = networks[n].kind /\ row.parent = networks[n].parent
            /\ row.kind = "super" => \A p \in row.prefixes : Top(p)
            /\ pc = "updateNetwork" \/ row.kind = "child" => row.prefixes = networks[n].prefixes
  PROVE  StepOf(c)
<1> DEFINE k == [IdleCall EXCEPT !.pc = pc, !.id = n, !.seen = networks[n], !.row = row, !.current = TRUE]
<1>1. call[c].pc = "idle" /\ Exists(n) /\ UNCHANGED <<networks, ips, ipam, taken, vrfs, history>>
  BY DEF Begin
<1>2. k.pc = pc /\ k.id = n /\ k.seen = networks[n] /\ k.row = row /\ k.holds = {} /\ k.drops = {}
  BY DEF IdleCall
<1>3. Others(c) /\ call'[c] = k
  BY MovedOthers DEF Order, Begin
<1>4. call[c].drops = {} /\ call[c].holds = {}
  BY <1>1, CallKnown DEF Changes, Updating, Deleting, Fit, HoldsFit, Empty
<1> HIDE DEF k
<1>5. Fit(k)
  BY <1>2 DEF Fit, HoldsFit, DropsFit, RowFits, Begun, Empty, ForChild, Asking, Updating, Deleting, Creating
<1>6. Thinks(c)
  BY <1>1, <1>2, <1>3, <1>4 DEF Thinks, history
<1>7. Goes(c)
  BY <1>1, <1>2, <1>3, <1>5 DEF Goes, Changes, Updating, Deleting, Creating, Asking, ForChild, AtIP, Freeing
<1> QED BY <1>3, <1>6, <1>7 DEF StepOf, Kind

LEMMA BeginKinds ==
  ASSUME Order, NEW c \in Callers,
         FreeNetwork(c) \/ DeleteNetwork(c) \/ UpdateNetwork(c) \/ AllocateIP(c)
  PROVE  StepOf(c)
<1>1. CASE FreeNetwork(c) \/ DeleteNetwork(c) \/ AllocateIP(c)
  BY <1>1, BeginKind DEF FreeNetwork, DeleteNetwork, AllocateIP
<1>2. CASE UpdateNetwork(c)
  <2>1. PICK n \in NetworkIDs : \E P \in Requestable(networks[n].kind) \cup {networks[n].prefixes} : UpdateNetwork(c)!(n)!(P)
    BY <1>2 DEF UpdateNetwork
  <2>2. PICK P \in Requestable(networks[n].kind) \cup {networks[n].prefixes} : UpdateNetwork(c)!(n)!(P)
    BY <2>1
  <2> DEFINE row == [networks[n] EXCEPT !.prefixes = P]
  <2>3. networks[n] \in Network
    BY DEF Order, NetworkInv, TypeOK
  <2>4. row.kind = networks[n].kind /\ row.parent = networks[n].parent /\ row.prefixes = P
    BY <2>3 DEF Network
  <2>5. networks[n].kind = "super" => \A p \in P : Top(p)
    BY DEF Requestable, Order, Rows, Top
  <2> HIDE DEF row
  <2>6. /\ networks[n].kind = "child" => P = networks[n].prefixes
        /\ Begin(c, n, IF P = networks[n].prefixes THEN "updateNetwork" ELSE "updateIPs", row)
    BY <2>2 DEF row
  <2> QED BY <2>4, <2>5, <2>6, BeginKind
<1> QED BY <1>1, <1>2

\* freeNetwork and deleteNetwork.
LEMMA GivenBackKind ==
  ASSUME Order, NEW c \in Callers, NEW p \in call[c].seen.prefixes \ call[c].drops,
         call[c].pc \in {"releaseChild", "deletePrefix"}, Deletable(p) \/ Releasable(p), GivenBack(c, p)
  PROVE  StepOf(c)
<1> DEFINE drops == call[c].drops \cup {p}
           last == IF HasVRF(call[c].seen) THEN "releaseVRF" ELSE "deleteNetwork"
           pc == IF call[c].seen.prefixes \subseteq drops THEN last ELSE call[c].pc
           k == [call[c] EXCEPT !.drops = drops, !.pc = pc]
<1>1. call[c] \in CallState /\ Fit(call[c]) /\ call[c].seen \in Network /\ Changes(call[c])
        /\ call[c].seen = networks[call[c].id]
  BY CallKnown DEF Changes, Deleting
<1>2. p \in Resources /\ p # None
  BY <1>1, NetworkAssumption DEF Network, Resources
<1>3. /\ call' = [call EXCEPT ![c] = k] /\ ipam' = ipam \ {p}
      /\ UNCHANGED <<networks, ips, taken, vrfs, history>>
  BY DEF GivenBack
<1>4. pc \in {"releaseChild", "deletePrefix", "releaseVRF", "deleteNetwork"}
        /\ (pc \in {"releaseVRF", "deleteNetwork"} => call[c].seen.prefixes \subseteq drops)
        /\ (pc = "deleteNetwork" => call[c].seen.vrf = None)
  BY DEF HasVRF
<1>5. /\ k.pc = pc /\ k.id = call[c].id /\ k.seen = call[c].seen
      /\ k.holds = call[c].holds /\ k.drops = drops
  BY <1>1 DEF CallState
<1>6. Others(c) /\ call'[c] = k
  BY <1>3, MovedOthers DEF Order
<1> HIDE DEF k, pc
<1>7. Fit(k)
  BY <1>1, <1>4, <1>5
     DEF Fit, HoldsFit, DropsFit, RowFits, Begun, Empty, ForChild, Asking, Updating, Deleting, Creating
<1>8. Returns(c, p)
  BY <1>1, <1>2, <1>3, <1>5, <1>6 DEF Returns, history
<1>9. Goes(c)
  BY <1>1, <1>3, <1>4, <1>5, <1>6, <1>7
     DEF Goes, Changes, Updating, Deleting, Creating, Asking, ForChild, AtIP, Freeing
<1> QED BY <1>2, <1>6, <1>8, <1>9 DEF StepOf, Kind

LEMMA GiveBackKinds ==
  ASSUME Order, NEW c \in Callers, ReleaseChildPrefix(c) \/ DeletePrefix(c)
  PROVE  StepOf(c)
<1>1. PICK p \in call[c].seen.prefixes \ call[c].drops :
        /\ call[c].pc \in {"releaseChild", "deletePrefix"}
        /\ Abandon(c) \/ ((Deletable(p) \/ Releasable(p)) /\ GivenBack(c, p))
  BY DEF ReleaseChildPrefix, DeletePrefix
<1> QED BY <1>1, AbandonKind, GivenBackKind

LEMMA LookUpKinds ==
  ASSUME Order, NEW c \in Callers, SearchChildren(c) \/ ListIPs(c) \/ UpdateListIPs(c)
  PROVE  StepOf(c)
<1>1. /\ call[c].pc \in Begun
      /\ UNCHANGED <<networks, ips, ipam, taken, vrfs, history>>
      /\ \/ End(c)
         \/ call[c].pc = "children" /\ To(c, "deleteIPs")
         \/ call[c].pc = "deleteIPs" /\ To(c, "deletePrefix")
         \/ call[c].pc = "updateIPs" /\ To(c, "updatePrefixes")
  BY DEF SearchChildren, ListIPs, UpdateListIPs, Begun
<1>2. /\ call[c] \in CallState /\ Fit(call[c]) /\ call[c].drops = {} /\ call[c].holds = {}
      /\ Changes(call[c]) /\ call[c].seen = networks[call[c].id]
  BY <1>1, CallKnown DEF Changes, Updating, Deleting, Fit, HoldsFit, DropsFit, Empty, Begun
<1>3. CASE End(c)
  BY <1>1, <1>2, <1>3, EndKind
<1>4. ASSUME NEW pc, To(c, pc),
             \/ pc \in {"deleteIPs", "deletePrefix"} /\ call[c].pc \in Deleting
             \/ pc = "updatePrefixes" /\ call[c].pc = "updateIPs"
      PROVE  StepOf(c)
  <2> DEFINE k == [call[c] EXCEPT !.pc = pc]
  <2>1. /\ k.pc = pc /\ k.id = call[c].id /\ k.seen = call[c].seen /\ k.row = call[c].row
        /\ k.holds = {} /\ k.drops = {}
    BY <1>2 DEF CallState
  <2>2. Others(c) /\ call'[c] = k
    BY <1>4, MovedOthers DEF To, Order
  <2> HIDE DEF k
  <2>3. Fit(k)
    BY <1>2, <1>4, <2>1
       DEF Fit, HoldsFit, DropsFit, RowFits, Begun, Empty, ForChild, Asking, Updating, Deleting, Creating
  <2>4. Thinks(c)
    BY <1>1, <1>2, <2>1, <2>2 DEF Thinks, history
  <2>5. Goes(c)
    BY <1>1, <1>2, <1>4, <2>1, <2>2, <2>3
       DEF Goes, Changes, Updating, Deleting, Creating, Asking, ForChild, AtIP, Freeing
  <2> QED BY <2>2, <2>4, <2>5 DEF StepOf, Kind
<1>5. call[c].pc \in {"children", "deleteIPs"} => call[c].pc \in Deleting
  BY DEF Deleting
<1> QED BY <1>1, <1>3, <1>4, <1>5

LEMMA ReleaseVRFKind ==
  ASSUME Order, NEW c \in Callers, ReleaseVRF(c)
  PROVE  StepOf(c)
<1> DEFINE v == call[c].seen.vrf
           k == [call[c] EXCEPT !.pc = "deleteNetwork", !.drops = call[c].drops \cup {v}]
<1>1. call[c].pc = "releaseVRF" /\ vrfs' = vrfs \cup {v} /\ call' = [call EXCEPT ![c] = k]
      /\ UNCHANGED <<networks, ips, ipam, taken, history>>
  BY DEF ReleaseVRF
<1>2. /\ call[c] \in CallState /\ Fit(call[c]) /\ CallFits(call[c])
      /\ Changes(call[c]) /\ call[c].seen = networks[call[c].id] /\ call[c].seen \in Network
  BY <1>1, CallKnown DEF Changes, Deleting
<1>3. v \in VRFs /\ v \in Resources /\ v # None /\ v \notin call[c].drops
  BY <1>1, <1>2 DEF CallFits, Network, Resources
<1>4. k.pc = "deleteNetwork" /\ k.id = call[c].id /\ k.seen = call[c].seen
        /\ k.holds = call[c].holds /\ k.drops = call[c].drops \cup {v}
  BY <1>2 DEF CallState
<1>5. Others(c) /\ call'[c] = k
  BY <1>1, MovedOthers DEF Order
<1> HIDE DEF k
<1>6. Fit(k)
  BY <1>1, <1>2, <1>4
     DEF Fit, HoldsFit, DropsFit, RowFits, Begun, Empty, ForChild, Asking, Updating, Deleting, Creating
<1>7. Returns(c, v)
  BY <1>1, <1>2, <1>3, <1>4, <1>5 DEF Returns, history
<1>8. Goes(c)
  BY <1>1, <1>2, <1>4, <1>5, <1>6 DEF Goes, Changes, Updating, Deleting, Creating, Asking, ForChild, AtIP, Freeing
<1> QED BY <1>3, <1>5, <1>7, <1>8 DEF StepOf, Kind

LEMMA RemoveNetworkKind ==
  ASSUME Order, NEW c \in Callers, RemoveNetwork(c)
  PROVE  StepOf(c)
<1>1. call[c].id \in NetworkIDs /\ call[c].pc = "deleteNetwork"
  BY CallKnown DEF RemoveNetwork, CallFits, Changes, Deleting
<1>2. Others(c) /\ call'[c] = IdleCall /\ networks' = [networks EXCEPT ![call[c].id] = NoNetwork]
  BY <1>1, IdleType, WrittenOthers DEF Order, RemoveNetwork
<1>3. Removes(c)
  BY <1>1, <1>2, IdleType DEF RemoveNetwork, Removes, Writes
<1> QED BY <1>2, <1>3, IdleGoes DEF StepOf, Kind

\* updateNetwork.
LEMMA UpdateDeletePrefixKind ==
  ASSUME Order, NEW c \in Callers, UpdateDeletePrefix(c)
  PROVE  StepOf(c)
<1>1. PICK p \in ToRemove(c) : UpdateDeletePrefix(c)!(p)
  BY DEF UpdateDeletePrefix
<1>2. CASE ~Deletable(p)
  BY <1>1, <1>2, AbandonKind
<1>3. CASE Deletable(p)
  <2> DEFINE pc == IF ToRemove(c) = {p} /\ ToAdd(c) = {} THEN "updateNetwork" ELSE "updatePrefixes"
             k == [call[c] EXCEPT !.drops = call[c].drops \cup {p}, !.pc = pc]
  <2>1. /\ call[c].pc = "updatePrefixes" /\ call' = [call EXCEPT ![c] = k] /\ ipam' = ipam \ {p}
        /\ UNCHANGED <<networks, ips, taken, vrfs, history>>
    BY <1>1, <1>3
  <2>2. /\ call[c] \in CallState /\ Fit(call[c]) /\ call[c].seen \in Network /\ Changes(call[c])
        /\ call[c].seen = networks[call[c].id]
    BY <2>1, CallKnown DEF Changes, Updating
  <2>3. /\ p \in call[c].seen.prefixes \ call[c].row.prefixes /\ p \notin call[c].drops
        /\ p \in Resources /\ p # None
    BY <2>2, NetworkAssumption DEF ToRemove, Network, Resources
  <2>4. pc = "updateNetwork" => /\ call[c].seen.prefixes \ call[c].row.prefixes \subseteq call[c].drops \cup {p}
                                /\ call[c].row.prefixes \ call[c].seen.prefixes \subseteq call[c].holds
    BY DEF ToRemove, ToAdd
  <2>5. /\ k.pc = pc /\ k.id = call[c].id /\ k.seen = call[c].seen
        /\ k.row = call[c].row /\ k.holds = call[c].holds /\ k.drops = call[c].drops \cup {p}
    BY <2>2 DEF CallState
  <2>6. Others(c) /\ call'[c] = k
    BY <2>1, MovedOthers DEF Order
  <2>7. pc \in {"updateNetwork", "updatePrefixes"}
    OBVIOUS
  <2> HIDE DEF k, pc
  <2>8. Fit(k)
    BY <2>1, <2>2, <2>3, <2>4, <2>5, <2>7
       DEF Fit, HoldsFit, DropsFit, RowFits, Begun, Empty, ForChild, Asking, Updating, Deleting, Creating
  <2>9. Returns(c, p)
    BY <1>3, <2>1, <2>2, <2>3, <2>5, <2>6 DEF Returns, history
  <2>10. Goes(c)
    BY <2>1, <2>2, <2>5, <2>6, <2>7, <2>8
       DEF Goes, Changes, Updating, Deleting, Creating, Asking, ForChild, AtIP, Freeing
  <2> QED BY <2>3, <2>6, <2>9, <2>10 DEF StepOf, Kind
<1> QED BY <1>2, <1>3

LEMMA UpdateCreatePrefixKind ==
  ASSUME Order, NEW c \in Callers, UpdateCreatePrefix(c)
  PROVE  StepOf(c)
<1>1. PICK p \in ToAdd(c) : UpdateCreatePrefix(c)!(p)
  BY DEF UpdateCreatePrefix
<1>2. CASE ~Creatable(p)
  BY <1>1, <1>2, AbandonKind
<1>3. CASE Creatable(p)
  <2> DEFINE pc == IF ToAdd(c) = {p} THEN "updateNetwork" ELSE "updatePrefixes"
             k == [call[c] EXCEPT !.holds = call[c].holds \cup {p}, !.pc = pc]
  <2>1. /\ call[c].pc = "updatePrefixes" /\ call' = [call EXCEPT ![c] = k] /\ ipam' = ipam \cup {p}
        /\ ToRemove(c) = {} /\ MayHandOut(p) /\ p \notin ipam
        /\ UNCHANGED <<networks, ips, taken, vrfs, history>>
    BY <1>1, <1>3 DEF Creatable
  <2>2. /\ call[c] \in CallState /\ Fit(call[c]) /\ call[c].row \in Network /\ Changes(call[c])
        /\ call[c].seen = networks[call[c].id]
    BY <2>1, CallKnown DEF Changes, Updating
  <2>3. p \in call[c].row.prefixes \ call[c].seen.prefixes /\ p \in Prefixes /\ p \in Resources
    BY <2>2 DEF ToAdd, Network, Resources
  <2>4. pc = "updateNetwork" => /\ call[c].seen.prefixes \ call[c].row.prefixes \subseteq call[c].drops
                                /\ call[c].row.prefixes \ call[c].seen.prefixes \subseteq call[c].holds \cup {p}
    BY <2>1 DEF ToRemove, ToAdd
  <2>5. /\ k.pc = pc /\ k.id = call[c].id /\ k.seen = call[c].seen
        /\ k.row = call[c].row /\ k.holds = call[c].holds \cup {p} /\ k.drops = call[c].drops
    BY <2>2 DEF CallState
  <2>6. Others(c) /\ call'[c] = k
    BY <2>1, MovedOthers DEF Order
  <2>7. pc \in {"updateNetwork", "updatePrefixes"}
    OBVIOUS
  <2> HIDE DEF k, pc
  <2>8. Fit(k)
    BY <2>1, <2>2, <2>3, <2>4, <2>5, <2>7
       DEF Fit, HoldsFit, DropsFit, RowFits, Begun, Empty, ForChild, Asking, Updating, Deleting, Creating
  <2>9. Takes(c, p)
    BY <2>1, <2>3, <2>5, <2>6 DEF Takes, TakenFrom, history
  <2>10. Goes(c)
    BY <2>1, <2>2, <2>5, <2>6, <2>7, <2>8
       DEF Goes, Changes, Updating, Deleting, Creating, Asking, ForChild, AtIP, Freeing
  <2> QED BY <2>3, <2>6, <2>9, <2>10 DEF StepOf, Kind
<1> QED BY <1>2, <1>3

LEMMA ReplaceNetworkKind ==
  ASSUME Order, NEW c \in Callers, ReplaceNetwork(c)
  PROVE  StepOf(c)
<1>1. CASE Abandon(c)
  BY <1>1, AbandonKind
<1>2. CASE Written(c, call[c].id, call[c].row) /\ UNCHANGED <<ips, ipam, taken, vrfs, history>>
  <2>1. call[c].pc = "updateNetwork" /\ call[c].id \in NetworkIDs /\ call[c].row \in Network
    BY CallKnown DEF ReplaceNetwork, CallFits, Changes, Updating
  <2>2. Others(c) /\ call'[c] = IdleCall /\ networks' = [networks EXCEPT ![call[c].id] = call[c].row]
    BY <1>2, <2>1, WrittenOthers DEF Order
  <2>3. Replaces(c)
    BY <1>2, <2>1, <2>2 DEF Replaces, Writes, history
  <2> QED BY <2>2, <2>3, IdleGoes DEF StepOf, Kind
<1> QED BY <1>1, <1>2 DEF ReplaceNetwork

\* allocateIP and freeIP.
LEMMA AcquireIPKind ==
  ASSUME Order, NEW c \in Callers, AcquireIP(c)
  PROVE  StepOf(c)
<1>1. CASE FreeIPs(call[c].seen.prefixes) = {}
  BY <1>1, AbandonKind DEF AcquireIP
<1>2. CASE FreeIPs(call[c].seen.prefixes) # {}
  <2> DEFINE K(i) == [call[c] EXCEPT !.pc = "createIP", !.ip = i, !.holds = {i}]
  <2>1. PICK i \in FreeIPs(call[c].seen.prefixes) :
          /\ taken' = taken \cup {i} /\ call' = [call EXCEPT ![c] = K(i)]
          /\ UNCHANGED <<networks, ips, ipam, vrfs, history>>
    BY <1>2 DEF AcquireIP
  <2>2. i \in Resources /\ call[c].pc = "acquireIP"
    BY DEF AcquireIP, FreeIPs, Resources
  <2>3. call[c] \in CallState /\ call[c].holds = {} /\ call[c].drops = {}
    BY <2>2, CallKnown DEF Fit, HoldsFit, Empty, Changes, Updating, Deleting
  <2>4. /\ K(i).pc = "createIP" /\ K(i).holds = {i} /\ K(i).ip = i
        /\ K(i).drops = {} /\ K(i).id = call[c].id
    BY <2>3 DEF CallState
  <2>5. Others(c) /\ call'[c] = K(i)
    BY <2>1, MovedOthers DEF Order
  <2> HIDE DEF K
  <2>6. Fit(K(i))
    BY <2>4 DEF Fit, HoldsFit, DropsFit, RowFits, Begun, Empty, ForChild, Asking, Updating, Deleting, Creating
  <2>7. Takes(c, i)
    BY <2>1, <2>2, <2>3, <2>4, <2>5 DEF Takes, TakenFrom, history
  <2>8. Goes(c)
    BY <2>4, <2>5, <2>6 DEF Goes, Changes, Updating, Deleting, Creating, Asking, ForChild
  <2> QED BY <2>2, <2>5, <2>7, <2>8 DEF StepOf, Kind
<1> QED BY <1>1, <1>2

LEMMA CreateIPKind ==
  ASSUME Order, NEW c \in Callers, CreateIP(c)
  PROVE  StepOf(c)
<1>1. CASE ips[call[c].ip] # None
  BY <1>1, AbandonKind DEF CreateIP
<1>2. CASE ips[call[c].ip] = None
  <2>1. End(c) /\ call[c].drops = {} /\ UNCHANGED <<networks, ipam, taken, vrfs, history>>
    BY <1>2, CallKnown DEF CreateIP, Changes, Updating, Deleting
  <2>2. Others(c) /\ call'[c] = IdleCall
    BY <2>1, MovedOthers DEF Order, End
  <2>3. AtRow(c)
    BY <1>2, <2>1, <2>2 DEF AtRow, IdleCall, history
  <2> QED BY <2>2, <2>3, IdleGoes DEF StepOf, Kind
<1> QED BY <1>1, <1>2

LEMMA FreeIPKind ==
  ASSUME Order, NEW c \in Callers, FreeIP(c)
  PROVE  StepOf(c)
<1> DEFINE K(i) == [IdleCall EXCEPT !.pc = "deleteIP", !.ip = i]
<1>1. PICK i \in IPs : /\ call[c].pc = "idle" /\ call' = [call EXCEPT ![c] = K(i)]
                       /\ UNCHANGED <<networks, ips, ipam, taken, vrfs, history>>
  BY DEF FreeIP
<1>2. K(i).pc = "deleteIP" /\ K(i).holds = {} /\ K(i).drops = {}
  BY DEF IdleCall
<1>3. Others(c) /\ call'[c] = K(i)
  BY <1>1, MovedOthers DEF Order
<1>4. call[c].drops = {} /\ call[c].holds = {}
  BY <1>1, CallKnown DEF Changes, Updating, Deleting, Fit, HoldsFit, Empty
<1> HIDE DEF K
<1>5. Fit(K(i))
  BY <1>2 DEF Fit, HoldsFit, DropsFit, RowFits, Begun, Empty, ForChild, Asking, Updating, Deleting, Creating
<1>6. Thinks(c)
  BY <1>1, <1>2, <1>3, <1>4 DEF Thinks, history
<1>7. Goes(c)
  BY <1>2, <1>3, <1>5 DEF Goes, Changes, Updating, Deleting, Creating, Asking, ForChild
<1> QED BY <1>3, <1>6, <1>7 DEF StepOf, Kind

LEMMA DeleteIPKind ==
  ASSUME Order, NEW c \in Callers, DeleteIP(c)
  PROVE  StepOf(c)
<1> DEFINE k == [call[c] EXCEPT !.pc = "releaseIP", !.holds = {call[c].ip}]
<1>1. call[c].pc = "deleteIP" /\ call' = [call EXCEPT ![c] = k] /\ UNCHANGED <<networks, ipam, taken, vrfs, history>>
  BY DEF DeleteIP
<1>2. call[c] \in CallState /\ call[c].drops = {} /\ call[c].ip \in IPs
  BY <1>1, CallKnown DEF CallFits, Changes, Updating, Deleting
<1>3. k.pc = "releaseIP" /\ k.holds = {call[c].ip} /\ k.ip = call[c].ip /\ k.drops = {}
  BY <1>2 DEF CallState
<1>4. Others(c) /\ call'[c] = k
  BY <1>1, MovedOthers DEF Order
<1> HIDE DEF k
<1>5. Fit(k)
  BY <1>3 DEF Fit, HoldsFit, DropsFit, RowFits, Begun, Empty, ForChild, Asking, Updating, Deleting, Creating
<1>6. AtRow(c)
  BY <1>1, <1>2, <1>3, <1>4 DEF AtRow, history
<1>7. Goes(c)
  BY <1>3, <1>4, <1>5 DEF Goes, Changes, Updating, Deleting, Creating, Asking, ForChild
<1> QED BY <1>4, <1>6, <1>7 DEF StepOf, Kind

LEMMA ReleaseIPKind ==
  ASSUME Order, NEW c \in Callers, ReleaseIP(c)
  PROVE  StepOf(c)
<1>1. End(c) /\ call[c].drops = {} /\ UNCHANGED <<networks, ips, ipam, vrfs, history>>
  BY CallKnown DEF ReleaseIP, Changes, Updating, Deleting
<1>2. Others(c) /\ call'[c] = IdleCall
  BY <1>1, MovedOthers DEF Order, End
<1>3. AtRow(c)
  BY <1>1, <1>2 DEF AtRow, IdleCall, history
<1> QED BY <1>2, <1>3, IdleGoes DEF StepOf, Kind

\* Every step is one of these kinds.
LEMMA StepKinds ==
  ASSUME "unshared" \in Assumed, Order, Next
  PROVE  \E c \in Callers : StepOf(c)
<1>1. PICK c \in Callers :
        Create(c) \/ Allocate(c) \/ Free(c) \/ Delete(c) \/ Update(c) \/ Addresses(c) \/ Interrupt(c)
  BY DEF Next
<1>2. Create(c) => StepOf(c)
  BY CreateNetworkKind, FindSuperKind, AcquireVRFKind, CreatePrefixKind, InsertNetworkKind DEF Create
<1>3. Allocate(c) => StepOf(c)
  BY AllocateNetworkKind, AcquireRandomVRFKind, AllocateChildPrefixKind, InsertChildKind DEF Allocate
<1>4. Free(c) \/ Delete(c) => StepOf(c)
  BY BeginKinds, GiveBackKinds, LookUpKinds, ReleaseVRFKind, RemoveNetworkKind DEF Free, Delete
<1>5. Update(c) => StepOf(c)
  BY BeginKinds, LookUpKinds, UpdateDeletePrefixKind, UpdateCreatePrefixKind, ReplaceNetworkKind DEF Update
<1>6. Addresses(c) => StepOf(c)
  BY BeginKinds, AcquireIPKind, CreateIPKind, FreeIPKind, DeleteIPKind, ReleaseIPKind DEF Addresses
<1>7. Interrupt(c) => StepOf(c)
  BY AbandonKind
<1> QED BY <1>1, <1>2, <1>3, <1>4, <1>5, <1>6, <1>7

-----------------------------------------------------------------------------
\* The rows, and what calls know of them, stay in order.
LEMMA OrderStep ==
  ASSUME Order, NetworkInv', NEW c \in Callers, StepOf(c)
  PROVE  Order'
<1>1. /\ \A d \in Callers \ {c} : Same(call'[d], call[d])
      /\ networks \in [NetworkIDs -> Network]
  BY DEF StepOf, Others, Order, NetworkInv, TypeOK
<1>2. ASSUME NEW d \in Callers PROVE Fit(call'[d])
  <2>1. CASE d = c
    BY <2>1 DEF StepOf, Goes
  <2>2. CASE d # c
    BY <1>1, <2>2 DEF Same, Order, Fit, HoldsFit, DropsFit, RowFits
  <2> QED BY <2>1, <2>2
<1>3. networks' = networks \/ Inserts(c) \/ Replaces(c) \/ Removes(c)
  BY DEF StepOf, Kind, Thinks, GivesUp, Takes, Returns, AtRow
<1>4. ASSUME NEW d \in Callers, Changes(call'[d]) PROVE call'[d].seen = networks'[call'[d].id]
  <2>1. CASE d = c
    BY <1>4, <2>1 DEF StepOf, Goes
  <2>2. CASE d # c
    <3>1. /\ Changes(call[d]) /\ call'[d].seen = call[d].seen /\ call'[d].id = call[d].id
          /\ call[d].seen = networks[call[d].id] /\ Exists(call[d].id)
          /\ Changes(call[c]) => call[c].id # call[d].id
      BY <1>1, <1>4, <2>2, CallKnown DEF Same, Changes, ChangeSound, Sound
    <3>2. CASE Inserts(c)
      BY <1>1, <3>1, <3>2 DEF Inserts, Writes
    <3>3. CASE Replaces(c) \/ Removes(c)
      <4>1. Changes(call[c])
        BY <3>3 DEF Replaces, Removes, Changes, Updating, Deleting
      <4>2. \E row : networks' = [networks EXCEPT ![call[c].id] = row]
        BY <3>3 DEF Replaces, Removes, Writes
      <4>3. call[d].id \in NetworkIDs
        BY <1>1, <3>1, CallKnown DEF CallFits
      <4> QED BY <1>1, <3>1, <4>1, <4>2, <4>3
    <3> QED BY <1>3, <3>1, <3>2, <3>3
  <2> QED BY <2>1, <2>2
<1>5. ASSUME NEW n \in NetworkIDs
      PROVE  /\ networks'[n].kind = "none" => networks'[n] = NoNetwork
             /\ networks'[n].kind = "super" => \A p \in networks'[n].prefixes : Top(p)
             /\ networks'[n].kind = "child" => networks'[n].parent \in NetworkIDs
  <2>1. /\ networks[n].kind = "none" => networks[n] = NoNetwork
        /\ networks[n].kind = "super" => \A p \in networks[n].prefixes : Top(p)
        /\ networks[n].kind = "child" => networks[n].parent \in NetworkIDs
    BY DEF Order, Rows, Exists
  <2>2. CASE Inserts(c)
    <3>1. /\ call[c].pc \in {"createNetwork", "createChild"}
          /\ networks'[n] = networks[n] \/ networks'[n] = call[c].row
      BY <1>1, <2>2 DEF Inserts, Writes
    <3>2. /\ call[c].row.kind # "none"
          /\ call[c].row.kind = "super" => \A p \in call[c].row.prefixes : Top(p)
          /\ call[c].row.kind = "child" => call[c].row.parent \in NetworkIDs
      BY <3>1 DEF Order, Fit, RowFits, Creating, ForChild, Asking
    <3> QED BY <2>1, <3>1, <3>2
  <2>3. CASE Replaces(c)
    <3>1. /\ call[c].pc = "updateNetwork" /\ call[c].id \in NetworkIDs
          /\ networks'[n] = networks[n] \/ networks'[n] = call[c].row
      BY <1>1, <2>3 DEF Replaces, Writes
    <3>2. /\ Changes(call[c]) /\ call[c].seen = networks[call[c].id] /\ call[c].row.kind # "none"
      BY <3>1, CallKnown DEF Changes, Updating, CallFits
    <3>3. /\ call[c].row.kind = "super" => \A p \in call[c].row.prefixes : Top(p)
          /\ call[c].row.kind = networks[call[c].id].kind /\ call[c].row.parent = networks[call[c].id].parent
      BY <3>1, <3>2 DEF Order, Fit, RowFits, Updating
    <3> QED BY <2>1, <3>1, <3>2, <3>3 DEF Order, Rows
  <2>4. CASE Removes(c)
    BY <1>1, <2>1, <2>4 DEF Removes, Writes, NoNetwork
  <2> QED BY <1>3, <2>1, <2>2, <2>3, <2>4
<1> QED BY <1>2, <1>4, <1>5 DEF Order, Reads, Rows, Exists

\* x is named by the row of n, and nobody gave it back.
Owned(n, x) ==
    /\ x \in networks[n].prefixes \cup {networks[n].vrf}
    /\ \A d \in Callers : call[d].id = n => x \notin call[d].drops
Kept(n, x) == Sound(n) /\ Owned(n, x)

\* Only a call gives something back: it changes the network alone.
LEMMA DropsKnown ==
  ASSUME Order, NEW c \in Callers, NEW d \in Callers, call[d].drops # {}
  PROVE  /\ Changes(call[d]) /\ Sound(call[d].id)
         /\ Changes(call[c]) /\ call[c].id = call[d].id => c = d
BY CallKnown DEF ChangeSound

\* What a network has remains its own until it is returned.
LEMMA OwnedStays ==
  ASSUME Order, NEW c \in Callers, StepOf(c), NEW n \in NetworkIDs, NEW x \in Prefixes \cup VRFs, Owned(n, x)
  PROVE  Owned(n, x)' \/ (Returns(c, x) /\ n = call[c].id)
<1>1. /\ \A d \in Callers \ {c} : Same(call'[d], call[d])
      /\ networks \in [NetworkIDs -> Network] /\ x # None
  BY NetworkAssumption DEF StepOf, Others, Order, NetworkInv, TypeOK
<1>2. IdleCall.drops = {}
  BY DEF IdleCall
<1>3. ASSUME NEW y, y # x, call'[c].drops \subseteq call[c].drops \cup {y},
             call'[c].id = call[c].id \/ call'[c].drops = {}, networks' = networks
      PROVE  Owned(n, x)'
  BY <1>1, <1>3 DEF Owned, Same
<1>4. CASE Thinks(c) \/ GivesUp(c) \/ AtRow(c)
  BY <1>1, <1>2, <1>3, <1>4 DEF Thinks, GivesUp, AtRow
<1>5. CASE \E y \in Resources : Takes(c, y)
  BY <1>1, <1>3, <1>5 DEF Takes
<1>6. ASSUME NEW y \in Resources, Returns(c, y) PROVE Owned(n, x)' \/ (Returns(c, x) /\ n = call[c].id)
  <2>1. CASE y # x
    BY <1>3, <1>6, <2>1 DEF Returns
  <2>2. CASE n # call[c].id
    BY <1>1, <1>6, <2>2 DEF Owned, Same, Returns
  <2> QED BY <1>6, <2>1, <2>2
<1>7. ASSUME NEW m \in NetworkIDs, NEW row, Writes(c, m, row),
             m = n => x \in row.prefixes \cup {row.vrf}
      PROVE  Owned(n, x)'
  BY <1>1, <1>2, <1>7 DEF Owned, Same, Writes
<1>8. CASE Inserts(c)
  <2>1. PICK m \in NetworkIDs : Writes(c, m, call[c].row) /\ ~Exists(m)
    BY <1>8 DEF Inserts
  <2>2. m # n
    BY <1>1, <2>1 DEF Owned, Order, Rows, NoNetwork
  <2> QED BY <1>7, <2>1, <2>2
<1>9. CASE Replaces(c)
  <2>1. call[c].pc = "updateNetwork" /\ Writes(c, call[c].id, call[c].row) /\ call[c].id \in NetworkIDs
    BY <1>9 DEF Replaces, Writes
  <2>2. Changes(call[c]) /\ call[c].seen = networks[call[c].id] /\ call[c].row.vrf = call[c].seen.vrf
          /\ call[c].seen.prefixes \ call[c].row.prefixes \subseteq call[c].drops
    BY <2>1, CallKnown DEF Changes, Updating, CallFits, Fit, DropsFit
  <2> QED BY <1>7, <2>1, <2>2 DEF Owned
<1>10. CASE Removes(c)
  <2>1. call[c].pc = "deleteNetwork" /\ Writes(c, call[c].id, NoNetwork) /\ call[c].id \in NetworkIDs
    BY <1>10 DEF Removes, Writes
  <2>2. /\ call[c].seen = networks[call[c].id]
        /\ call[c].seen.prefixes \subseteq call[c].drops /\ call[c].seen.vrf \in call[c].drops \cup {None}
    BY <2>1, CallKnown DEF Changes, Deleting, Fit, DropsFit
  <2> QED BY <1>1, <1>7, <2>1, <2>2 DEF Owned
<1> QED BY <1>4, <1>5, <1>6, <1>8, <1>9, <1>10 DEF StepOf, Kind

\* What a network has it had before, unless its row was just written by the call
\* that held it.
LEMMA KeptComes ==
  ASSUME Order, NEW c \in Callers, StepOf(c), NEW n \in NetworkIDs, NEW x \in Prefixes \cup VRFs, Kept(n, x)'
  PROVE  \/ /\ Kept(n, x) /\ networks'[n].kind = networks[n].kind /\ networks'[n].parent = networks[n].parent
            /\ Returns(c, x) => n # call[c].id
         \/ x \in call[c].holds /\ Inserts(c) /\ networks'[n] = call[c].row /\ ~Exists(n)
         \/ x \in call[c].holds /\ Replaces(c) /\ n = call[c].id /\ networks'[n] = call[c].row
<1>1. /\ \A d \in Callers \ {c} : Same(call'[d], call[d])
      /\ networks \in [NetworkIDs -> Network] /\ x # None
  BY NetworkAssumption DEF StepOf, Others, Order, NetworkInv, TypeOK
<1>2. /\ networks'[n].kind # "none" /\ n \notin damaged'
      /\ x \in networks'[n].prefixes \cup {networks'[n].vrf}
      /\ \A d \in Callers : call'[d].id = n => x \notin call'[d].drops
  BY DEF Kept, Sound, Owned, Exists
<1>3. ASSUME networks' = networks, damaged \subseteq damaged',
             (call[c].drops \subseteq call'[c].drops /\ call'[c].id = call[c].id)
               \/ call[c].drops = {} \/ call[c].id \in damaged'
      PROVE  Kept(n, x)
  BY <1>1, <1>2, <1>3 DEF Kept, Sound, Owned, Exists, Same
<1>4. CASE Thinks(c) \/ GivesUp(c) \/ AtRow(c)
  <2>1. Kept(n, x) /\ networks' = networks
    BY <1>3, <1>4 DEF Thinks, GivesUp, AtRow
  <2>2. ~Returns(c, x)
    BY <1>4 DEF Thinks, GivesUp, AtRow, Returns, IdleCall
  <2> QED BY <2>1, <2>2
<1>5. CASE \E y \in Resources : Takes(c, y)
  <2>1. Kept(n, x) /\ networks' = networks
    BY <1>3, <1>5 DEF Takes
  <2>2. ~Returns(c, x)
    BY <1>5 DEF Takes, Returns
  <2> QED BY <2>1, <2>2
<1>6. CASE \E y \in Resources : Returns(c, y)
  <2>1. Kept(n, x) /\ networks' = networks
    BY <1>3, <1>6 DEF Returns
  <2>2. Returns(c, x) => n # call[c].id
    BY <1>2 DEF Returns
  <2> QED BY <2>1, <2>2
<1>7. ASSUME NEW m \in NetworkIDs \ {n}, NEW row, Writes(c, m, row), damaged' = damaged \/ damaged' = damaged \ {m},
             call[c].drops = {} \/ call[c].id = m
      PROVE  /\ Kept(n, x) /\ networks'[n].kind = networks[n].kind /\ networks'[n].parent = networks[n].parent
             /\ ~Returns(c, x)
  <2>1. networks'[n] = networks[n] /\ call'[c] = IdleCall
    BY <1>1, <1>7 DEF Writes
  <2>2. Kept(n, x)
    BY <1>1, <1>2, <1>7, <2>1 DEF Kept, Sound, Owned, Exists, Same
  <2>3. ~Returns(c, x)
    BY <2>1 DEF Returns, IdleCall
  <2> QED BY <2>1, <2>2, <2>3
<1>8. CASE Inserts(c)
  <2>1. PICK m \in NetworkIDs : /\ Writes(c, m, call[c].row) /\ ~Exists(m) /\ damaged' = damaged
                                /\ call[c].pc \in {"createNetwork", "createChild"}
    BY <1>8 DEF Inserts
  <2>2. call[c].drops = {} /\ call[c].row.prefixes \subseteq call[c].holds /\ call[c].row.vrf \in call[c].holds \cup {None}
    BY <2>1, CallKnown DEF CallFits, Changes, Updating, Deleting, Fit, HoldsFit, ForChild
  <2>3. CASE m = n
    BY <1>1, <1>2, <1>8, <2>1, <2>2, <2>3 DEF Writes
  <2> QED BY <1>7, <2>1, <2>2, <2>3
<1>9. CASE Replaces(c)
  <2> DEFINE m == call[c].id
  <2>1. call[c].pc = "updateNetwork" /\ Writes(c, m, call[c].row) /\ m \in NetworkIDs /\ damaged' = damaged
    BY <1>9 DEF Replaces, Writes
  <2>2. /\ Changes(call[c]) /\ call[c].seen = networks[m] /\ call[c].row.vrf = call[c].seen.vrf
        /\ call[c].row.kind = call[c].seen.kind /\ call[c].row.parent = call[c].seen.parent
        /\ call[c].drops \subseteq call[c].seen.prefixes \ call[c].row.prefixes
        /\ call[c].row.prefixes \ call[c].seen.prefixes \subseteq call[c].holds
        /\ call[c].drops \cap VRFs = {} /\ Sound(m)
    BY <2>1, CallKnown DEF Changes, Updating, CallFits, ChangeSound, Fit, HoldsFit, DropsFit, RowFits
  <2>3. CASE m = n
    <3>1. networks'[n] = call[c].row /\ call'[c] = IdleCall
      BY <1>1, <2>1, <2>3 DEF Writes
    <3>2. ASSUME x \notin call[c].holds PROVE Kept(n, x)
      <4>1. x \in networks[n].prefixes \cup {networks[n].vrf}
        BY <1>2, <2>2, <2>3, <3>1, <3>2
      <4>2. x \notin call[c].drops
        <5>1. CASE x \in call[c].row.prefixes
          BY <2>2, <5>1
        <5>2. CASE x = call[c].row.vrf
          <6>1. call[c].row \in Network
            BY CallKnown
          <6>2. x \in VRFs
            BY <1>1, <5>2, <6>1 DEF Network
          <6> QED BY <2>2, <6>2
        <5> QED BY <1>2, <3>1, <5>1, <5>2
      <4>3. \A d \in Callers \ {c} : call[d].id = n => call[d].drops = {}
        BY <2>2, <2>3, DropsKnown
      <4> QED BY <2>2, <2>3, <4>1, <4>2, <4>3 DEF Kept, Owned
    <3>3. ~Returns(c, x)
      BY <3>1 DEF Returns, IdleCall
    <3> QED BY <1>9, <2>2, <2>3, <3>1, <3>2, <3>3
  <2> QED BY <1>7, <2>1, <2>3
<1>10. CASE Removes(c)
  <2>1. call[c].id \in NetworkIDs /\ Writes(c, call[c].id, NoNetwork) /\ damaged' = damaged \ {call[c].id}
    BY <1>10 DEF Removes, Writes
  <2>2. call[c].id # n
    BY <1>1, <1>2, <2>1 DEF Writes, NoNetwork
  <2> QED BY <1>7, <2>1, <2>2
<1> QED BY <1>4, <1>5, <1>6, <1>8, <1>9, <1>10 DEF StepOf, Kind

-----------------------------------------------------------------------------
\* A prefix that is handed out is in the hands of one call; one that a network has
\* is its own; what a call read of a network it asks is still there, as far as the
\* IPAM keeps it.
PrefixHands == \A c \in Callers, p \in Prefixes : p \in call[c].holds =>
    /\ p \in ipam
    /\ \A d \in Callers : p \in call[d].holds => d = c
PrefixesKept == \A n \in NetworkIDs, p \in Prefixes : Kept(n, p) =>
    /\ p \in ipam
    /\ \A c \in Callers : p \notin call[c].holds
    /\ \A m \in NetworkIDs : Kept(m, p) => m = n
Asked == \A c \in Callers, p \in Prefixes :
    call[c].pc \in Asking /\ p \in call[c].seen.prefixes \cap ipam => Owned(call[c].id, p)
PrefixInv == PrefixHands /\ PrefixesKept /\ Asked

\* What a step does to one prefix.
LEMMA PrefixMoves ==
  ASSUME Order, NEW c \in Callers, StepOf(c), NEW p \in Prefixes
  PROVE  /\ \A e \in Callers : p \in call'[e].holds => p \in call[e].holds \/ (e = c /\ Takes(c, p))
         /\ p \in ipam => p \in ipam' \/ Returns(c, p)
         /\ p \in ipam' => p \in ipam \/ Takes(c, p)
         /\ Takes(c, p) => p \notin ipam /\ p \in ipam' /\ MayHandOut(p)
         /\ Returns(c, p) => /\ Kept(call[c].id, p) /\ call[c].id \in NetworkIDs
                             /\ p \notin ipam' /\ (Deletable(p) \/ Releasable(p))
<1>1. /\ p \notin VRFs /\ p \notin IPs /\ p # None
      /\ \A d \in Callers \ {c} : Same(call'[d], call[d])
      /\ vrfs \subseteq VRFs
  BY NetworkAssumption DEF StepOf, Others, Order, NetworkInv, TypeOK
<1>2. ASSUME Takes(c, p) PROVE p \notin ipam /\ p \in ipam' /\ MayHandOut(p)
  BY <1>1, <1>2 DEF Takes, TakenFrom, FreeIPs
<1>3. ASSUME Returns(c, p)
      PROVE  /\ Kept(call[c].id, p) /\ call[c].id \in NetworkIDs
             /\ p \notin ipam' /\ (Deletable(p) \/ Releasable(p))
  <2>1. Changes(call[c]) /\ p \notin call[c].drops
    BY <1>3 DEF Returns
  <2>2. /\ call[c].id \in NetworkIDs /\ Sound(call[c].id) /\ call[c].seen = networks[call[c].id]
        /\ call[c].seen.vrf \in VRFs \cup {None}
    BY <2>1, CallKnown DEF CallFits, ChangeSound, Network
  <2>3. p \in call[c].seen.prefixes /\ (Deletable(p) \/ Releasable(p)) /\ ipam' = ipam \ {p}
    BY <1>1, <1>3, <2>2 DEF Returns
  <2>4. \A d \in Callers \ {c} : call[d].id = call[c].id => call[d].drops = {}
    BY <2>1, DropsKnown
  <2> QED BY <2>1, <2>2, <2>3, <2>4 DEF Kept, Owned
<1>4. /\ p \in call'[c].holds => p \in call[c].holds \/ Takes(c, p)
      /\ p \in ipam => p \in ipam' \/ Returns(c, p)
      /\ p \in ipam' => p \in ipam \/ Takes(c, p)
  <2>1. CASE Thinks(c) \/ GivesUp(c) \/ AtRow(c)
    BY <1>1, <2>1 DEF Thinks, GivesUp, AtRow, IdleCall
  <2>2. ASSUME NEW x \in Resources, Takes(c, x)
        PROVE  /\ p \in call'[c].holds => p \in call[c].holds \/ p = x
               /\ ipam \subseteq ipam' /\ ipam' \subseteq ipam \cup {x}
    BY <2>2 DEF Takes, TakenFrom
  <2>3. ASSUME NEW x \in Resources, Returns(c, x)
        PROVE  call'[c].holds = call[c].holds /\ ipam' \subseteq ipam /\ ipam \subseteq ipam' \cup {x}
    BY <2>3 DEF Returns
  <2>4. CASE Inserts(c) \/ Replaces(c) \/ Removes(c)
    BY <2>4 DEF Inserts, Replaces, Removes, Writes, IdleCall
  <2> QED BY <2>1, <2>2, <2>3, <2>4 DEF StepOf, Kind
<1> QED BY <1>1, <1>2, <1>3, <1>4 DEF Same

\* Only the row that is written changes.
LEMMA WroteOne ==
  ASSUME Order, NEW c \in Callers, Inserts(c) \/ Replaces(c)
  PROVE  /\ call'[c] = IdleCall /\ IdleCall.holds = {}
         /\ \A n, m \in NetworkIDs : networks'[n] # networks[n] /\ networks'[m] # networks[m] => n = m
BY DEF Inserts, Replaces, Writes, Order, NetworkInv, TypeOK, IdleCall

LEMMA PrefixStep ==
  ASSUME "settled" \in Assumed, Order, PrefixInv, NEW c \in Callers, StepOf(c)
  PROVE  PrefixInv'
<1>1. \A d \in Callers \ {c} : Same(call'[d], call[d])
  BY DEF StepOf, Others
<1>2. PrefixHands'
  <2> SUFFICES ASSUME NEW e \in Callers, NEW p \in Prefixes, p \in call'[e].holds
               PROVE  p \in ipam' /\ \A d \in Callers : p \in call'[d].holds => d = e
    BY DEF PrefixHands
  <2> QED BY PrefixMoves DEF PrefixInv, PrefixHands, PrefixesKept
<1>3. PrefixesKept'
  <2> SUFFICES ASSUME NEW n \in NetworkIDs, NEW p \in Prefixes, Kept(n, p)'
               PROVE  /\ p \in ipam'
                      /\ \A e \in Callers : p \notin call'[e].holds
                      /\ \A m \in NetworkIDs : Kept(m, p)' => m = n
    BY DEF PrefixesKept
  <2>1. CASE Kept(n, p)
    <3>1. p \in ipam /\ \A e \in Callers : p \notin call[e].holds
      BY <2>1 DEF PrefixInv, PrefixesKept
    <3>2. \A m \in NetworkIDs : Kept(m, p) => m = n
      BY <2>1 DEF PrefixInv, PrefixesKept
    <3>3. ~Returns(c, p)
      BY <2>1, <3>1, <3>2, PrefixMoves, KeptComes
    <3>4. \A m \in NetworkIDs : Kept(m, p)' => Kept(m, p)
      BY <3>1, KeptComes
    <3> QED BY <3>1, <3>2, <3>3, <3>4, PrefixMoves
  <2>2. CASE p \in call[c].holds /\ (Inserts(c) \/ Replaces(c))
    <3>1. /\ p \in ipam
          /\ \A e \in Callers : p \in call[e].holds => e = c
          /\ \A m \in NetworkIDs : ~Kept(m, p)
      BY <2>2 DEF PrefixInv, PrefixHands, PrefixesKept
    <3>2. ~Returns(c, p) /\ ~Takes(c, p)
      BY <3>1, PrefixMoves
    <3>3. \A e \in Callers : p \notin call'[e].holds
      BY <2>2, <3>1, <3>2, PrefixMoves, WroteOne
    <3>4. \A m \in NetworkIDs : Kept(m, p)' => networks'[m] # networks[m] \/ (Replaces(c) /\ m = call[c].id)
      BY <3>1, KeptComes DEF Kept, Sound, Exists
    <3>5. Inserts(c) => ~Replaces(c)
      BY DEF Inserts, Replaces
    <3>6. \A m \in NetworkIDs : Kept(m, p)' /\ Replaces(c) => m = call[c].id
      BY <3>1, <3>5, KeptComes
    <3> QED BY <2>2, <3>1, <3>2, <3>3, <3>4, <3>5, <3>6, PrefixMoves, WroteOne
  <2> QED BY <2>1, <2>2, KeptComes
<1>4. Asked'
  <2> SUFFICES ASSUME NEW e \in Callers, NEW p \in Prefixes,
                      call'[e].pc \in Asking, p \in call'[e].seen.prefixes \cap ipam'
               PROVE  Owned(call[e].id, p)'
    BY DEF Asked
  <2>1. ASSUME NEW n \in NetworkIDs, n = call'[e].id, Owned(n, p)
        PROVE  Owned(call[e].id, p)'
    <3>1. ~Returns(c, p)
      BY PrefixMoves
    <3>2. Owned(n, p)'
      BY <2>1, <3>1, OwnedStays
    <3> QED BY <2>1, <3>2 DEF Owned
  <2>2. CASE call[e].pc \in Asking /\ call'[e].id = call[e].id /\ call'[e].seen = call[e].seen
    <3>1. ~Takes(c, p)
      BY <2>2, PrefixMoves DEF MayHandOut, Remembered, Asking
    <3>2. p \in ipam /\ call[e].id \in NetworkIDs
      BY <2>2, <3>1, PrefixMoves, CallKnown DEF Fit, RowFits
    <3> QED BY <2>1, <2>2, <3>2 DEF PrefixInv, Asked
  <2>3. CASE e = c /\ MayAsk(call'[c].id) /\ call'[c].seen = networks[call'[c].id]
    <3>1. call'[c].id \in NetworkIDs
      BY <2>3 DEF StepOf, Goes, Fit, RowFits
    <3>2. Owned(call'[c].id, p)
      BY <2>3 DEF MayAsk, Whole, Owned
    <3> QED BY <2>1, <2>3, <3>1, <3>2
  <2> QED BY <1>1, <2>2, <2>3 DEF StepOf, Goes, Same
<1> QED BY <1>2, <1>3, <1>4 DEF PrefixInv

-----------------------------------------------------------------------------
\* An address that somebody has, or is about to have, lies in a prefix that its
\* network does not give back meanwhile; one call at a time is about its row.
Placed(i, n) == i \in taken /\ Owned(n, PrefixOf[i])
AddressInv ==
    /\ \A i \in IPs : ips[i] # None => Placed(i, ips[i])
    /\ \A c \in Callers :
         /\ call[c].pc = "createIP" => ips[call[c].ip] = None /\ Placed(call[c].ip, call[c].id)
         /\ call[c].pc = "deleteIP" => ips[call[c].ip] # None
         /\ call[c].pc = "releaseIP" => ips[call[c].ip] = None /\ call[c].ip \in taken
         /\ \A d \in Callers : call[c].pc \in AtIP /\ call[d].pc \in AtIP /\ call[c].ip = call[d].ip => c = d

\* A prefix with addresses is not given back.
LEMMA PlacedStays ==
  ASSUME Order, NEW c \in Callers, StepOf(c), NEW n \in NetworkIDs, NEW i \in IPs, Placed(i, n), i \in taken'
  PROVE  Placed(i, n)'
<1>1. PrefixOf[i] \in Prefixes
  BY NetworkAssumption
<1>2. ~Returns(c, PrefixOf[i])
  BY <1>1, PrefixMoves DEF Deletable, Releasable, HasIPs, Placed
<1> QED BY <1>1, <1>2, OwnedStays DEF Placed

LEMMA AddressesStep ==
  ASSUME "serial" \in Assumed, Order, PrefixInv, AddressInv, NEW c \in Callers, StepOf(c)
  PROVE  AddressInv'
<1> DEFINE j == call[c].ip
<1>1. /\ \A d \in Callers \ {c} : Same(call'[d], call[d])
      /\ ips \in [IPs -> NetworkIDs \cup {None}] /\ None \notin NetworkIDs
      /\ \A d \in Callers : call[d].pc \in AtIP => call[d].ip \in IPs
      /\ \A d \in Callers : call[d].pc = "createIP" => call[d].id \in NetworkIDs
  BY NetworkAssumption, CallKnown DEF StepOf, Others, Order, NetworkInv, TypeOK, CallFits, AtIP, Freeing
<1>2. \/ ips' = ips /\ taken \subseteq taken'
      \/ /\ call[c].pc = "createIP" /\ ips[j] = None /\ ips' = [ips EXCEPT ![j] = call[c].id]
         /\ taken' = taken /\ call'[c] = IdleCall
      \/ call[c].pc = "deleteIP" /\ ips' = [ips EXCEPT ![j] = None] /\ taken' = taken
      \/ call[c].pc = "releaseIP" /\ ips' = ips /\ taken' = taken \ {j} /\ call'[c] = IdleCall
  <2>1. AtRow(c) => call' = [call EXCEPT ![c] = IdleCall] \/ DeleteIP(c)
    BY DEF AtRow, CreateIP, ReleaseIP, End
  <2>2. AtRow(c) => call'[c] = IdleCall \/ DeleteIP(c)
    BY <2>1 DEF Order, NetworkInv, TypeOK
  <2>3. AtRow(c) => \/ CreateIP(c) /\ ips[j] = None /\ ips' = [ips EXCEPT ![j] = call[c].id] /\ taken' = taken
                    \/ DeleteIP(c) /\ ips' = [ips EXCEPT ![j] = None] /\ taken' = taken
                    \/ ReleaseIP(c) /\ ips' = ips /\ taken' = taken \ {j}
    BY DEF AtRow, CreateIP, DeleteIP, ReleaseIP
  <2>4. /\ CreateIP(c) => call[c].pc = "createIP"
        /\ DeleteIP(c) => call[c].pc = "deleteIP"
        /\ ReleaseIP(c) => call[c].pc = "releaseIP"
    BY DEF CreateIP, DeleteIP, ReleaseIP
  <2>5. ~AtRow(c) => ips' = ips /\ taken \subseteq taken'
    BY DEF StepOf, Kind, Thinks, GivesUp, Takes, TakenFrom, Returns, Inserts, Replaces, Removes, Writes
  <2> QED BY <2>2, <2>3, <2>4, <2>5
<1>3. /\ \A i \in IPs : ips[i] # None => Placed(i, ips[i]) /\ ips[i] \in NetworkIDs
      /\ {"createIP", "deleteIP", "releaseIP"} \subseteq AtIP
      /\ IdleCall.pc = "idle" /\ "idle" \notin AtIP
  BY <1>1 DEF AddressInv, AtIP, Freeing, IdleCall
<1>4. \A d \in Callers \ {c} : call[c].pc \in AtIP /\ call[d].pc \in AtIP => call[d].ip # j
  BY DEF AddressInv
<1>5. ASSUME NEW i \in IPs, NEW n \in NetworkIDs, n = ips'[i] PROVE Placed(i, n)'
  <2>1. CASE ips[i] # n
    <3>1. i = j /\ n = call[c].id /\ taken' = taken /\ call[c].pc = "createIP"
      BY <1>1, <1>2, <1>5, <2>1
    <3> QED BY <3>1, PlacedStays DEF AddressInv, Placed
  <2>2. CASE ips[i] = n
    <3>1. Placed(i, n)
      BY <1>1, <1>3, <2>2
    <3>2. call[c].pc = "releaseIP" => i # j
      BY <1>1, <2>2 DEF AddressInv
    <3>3. i \in taken'
      BY <1>2, <3>1, <3>2 DEF Placed
    <3> QED BY <3>1, <3>3, PlacedStays
  <2> QED BY <2>1, <2>2
<1>6. \A i \in IPs : ips'[i] # None => Placed(i, ips[i])'
  <2>1. ips' \in [IPs -> NetworkIDs \cup {None}]
    BY <1>1, <1>2, <1>3
  <2> QED BY <1>5, <2>1 DEF Placed, Owned
<1>7. ASSUME NEW d \in Callers \ {c}
      PROVE  /\ call'[d].pc = "createIP" => ips'[call'[d].ip] = None /\ Placed(call[d].ip, call[d].id)'
             /\ call'[d].pc = "deleteIP" => ips'[call'[d].ip] # None
             /\ call'[d].pc = "releaseIP" => ips'[call'[d].ip] = None /\ call'[d].ip \in taken'
  <2>1. call[d].pc = call'[d].pc /\ call[d].ip = call'[d].ip /\ call[d].id = call'[d].id
    BY <1>1 DEF Same
  <2>2. call[d].pc \in AtIP => /\ ips'[call[d].ip] = ips[call[d].ip]
                               /\ call[d].ip \in taken => call[d].ip \in taken'
    BY <1>1, <1>2, <1>3, <1>4
  <2>3. ASSUME NEW i \in IPs, NEW n \in NetworkIDs, i = call[d].ip, n = call[d].id, call[d].pc = "createIP"
        PROVE  Placed(call[d].ip, call[d].id)'
    <3>1. Placed(i, n)
      BY <2>3 DEF AddressInv
    <3>2. Placed(i, n)'
      BY <1>3, <2>2, <2>3, <3>1, PlacedStays DEF Placed
    <3> QED BY <2>1, <2>3, <3>2 DEF Placed, Owned
  <2> QED BY <1>1, <1>3, <2>1, <2>2, <2>3 DEF AddressInv
<1>8. ASSUME call'[c].pc \in AtIP
      PROVE  /\ call'[c].pc = "createIP" => ips'[call'[c].ip] = None /\ Placed(call[c].ip, call[c].id)'
             /\ call'[c].pc = "deleteIP" => ips'[call'[c].ip] # None
             /\ call'[c].pc = "releaseIP" => ips'[call'[c].ip] = None /\ call'[c].ip \in taken'
             /\ \A d \in Callers \ {c} : call'[d].pc \in AtIP => call'[d].ip # call'[c].ip
  <2>1. CASE AcquireIP(c)
    <3>1. ~Abandon(c)
      <4>1. Abandon(c) => call'[c] = IdleCall
        BY MovedOthers DEF Abandon, End, Order
      <4> QED BY <1>3, <1>8, <4>1
    <3>2. PICK i \in FreeIPs(call[c].seen.prefixes) :
            /\ taken' = taken \cup {i} /\ call' = [call EXCEPT ![c].pc = "createIP", ![c].ip = i, ![c].holds = {i}]
            /\ UNCHANGED <<networks, ips, ipam, vrfs, history>>
      BY <2>1, <3>1 DEF AcquireIP
    <3>3. call[c].pc = "acquireIP" /\ call[c] \in CallState /\ call[c].id \in NetworkIDs
      BY <2>1, CallKnown DEF AcquireIP, CallFits
    <3>4. call'[c].pc = "createIP" /\ call'[c].ip = i /\ call'[c].id = call[c].id
      BY <3>2, <3>3 DEF Order, NetworkInv, TypeOK, CallState
    <3>5. /\ i \in IPs /\ i \notin taken /\ i \in taken' /\ ips'[i] = None
          /\ PrefixOf[i] \in Prefixes /\ PrefixOf[i] \in call[c].seen.prefixes \cap ipam
      BY <1>3, <3>2, NetworkAssumption DEF FreeIPs, Placed
    <3>6. \A d \in Callers \ {c} : call'[d].pc \in AtIP => call'[d].ip # i
      BY <1>1, <1>3, <3>5 DEF AddressInv, AtIP, Freeing, Same, Placed
    <3>7. ASSUME NEW n \in NetworkIDs, n = call[c].id PROVE Placed(call[c].ip, call[c].id)'
      <4>1. Owned(n, PrefixOf[i])
        BY <3>3, <3>5, <3>7 DEF PrefixInv, Asked, Asking
      <4>2. ~Returns(c, PrefixOf[i])
        BY <3>3 DEF Returns, Changes, Updating, Deleting
      <4>3. Owned(n, PrefixOf[i])'
        BY <3>5, <4>1, <4>2, OwnedStays
      <4> QED BY <3>4, <3>5, <3>7, <4>3 DEF Placed, Owned
    <3> QED BY <3>3, <3>4, <3>5, <3>6, <3>7
  <2>2. CASE FreeIP(c)
    <3>1. PICK i \in IPs : /\ ips[i] # None /\ UNCHANGED <<ips, taken>>
                           /\ \A d \in Callers : call[d].ip = i => call[d].pc \notin Freeing
                           /\ call' = [call EXCEPT ![c] = [IdleCall EXCEPT !.pc = "deleteIP", !.ip = i]]
      BY <2>2 DEF FreeIP
    <3>2. call'[c].pc = "deleteIP" /\ call'[c].ip = i
      BY <3>1 DEF Order, NetworkInv, TypeOK, IdleCall
    <3>3. \A d \in Callers \ {c} : call[d].pc \in AtIP => call[d].ip # i
      BY <3>1 DEF AddressInv, AtIP
    <3> QED BY <1>1, <3>1, <3>2, <3>3 DEF Same
  <2>3. CASE DeleteIP(c)
    <3>1. /\ call[c].pc = "deleteIP" /\ ips' = [ips EXCEPT ![j] = None] /\ UNCHANGED taken
          /\ call' = [call EXCEPT ![c].pc = "releaseIP", ![c].holds = {j}]
      BY <2>3 DEF DeleteIP
    <3>2. call'[c].pc = "releaseIP" /\ call'[c].ip = j
      BY <3>1, CallKnown DEF Order, NetworkInv, TypeOK, CallState
    <3>3. j \in IPs /\ j \in taken
      BY <1>1, <1>3, <3>1 DEF AddressInv, Placed
    <3>4. ips'[j] = None /\ j \in taken'
      BY <1>1, <3>1, <3>3
    <3>5. \A d \in Callers \ {c} : call'[d].pc \in AtIP => call'[d].ip # j
      BY <1>1, <1>3, <1>4, <3>1 DEF Same
    <3> QED BY <3>2, <3>4, <3>5
  <2> QED BY <1>8, <2>1, <2>2, <2>3 DEF StepOf, Goes
<1> QED BY <1>1, <1>3, <1>6, <1>7, <1>8 DEF AddressInv, Same

-----------------------------------------------------------------------------
\* The prefix of a child has its parent in the network the child belongs to.
OfParent(p, n) == Owned(n, ParentOf[p]) /\ ParentOf[p] \in Prefixes /\ Top(ParentOf[p])
ChildInv ==
    /\ \A n \in NetworkIDs, p \in Prefixes :
         Kept(n, p) /\ networks[n].kind = "child" => OfParent(p, networks[n].parent)
    /\ \A c \in Callers : call[c].pc \in ForChild => \A p \in call[c].row.prefixes : OfParent(p, call[c].id)

\* A prefix that is divided is not given back while the IPAM has a child of it.
LEMMA OfParentStays ==
  ASSUME "parentsKept" \in Assumed, Order, NEW c \in Callers, StepOf(c),
         NEW n \in NetworkIDs, NEW p \in Prefixes, OfParent(p, n), p \in ipam
  PROVE  OfParent(p, n)'
<1>1. ParentOf[p] \in Prefixes /\ ParentOf[ParentOf[p]] = None /\ None \notin ipam
  BY NetworkAssumption DEF OfParent, Top, Order, NetworkInv, TypeOK
<1>2. ~Returns(c, ParentOf[p])
  BY <1>1, PrefixMoves DEF Deletable, Releasable, Children
<1> QED BY <1>1, <1>2, OwnedStays DEF OfParent

LEMMA ChildStep ==
  ASSUME "parentsKept" \in Assumed, Order, PrefixInv, ChildInv, NEW c \in Callers, StepOf(c)
  PROVE  ChildInv'
<1>1. \A d \in Callers \ {c} : Same(call'[d], call[d])
  BY DEF StepOf, Others
<1>2. ASSUME NEW n \in NetworkIDs, NEW p \in Prefixes, Kept(n, p)', networks'[n].kind = "child",
             NEW m, m = networks'[n].parent
      PROVE  OfParent(p, m)'
  <2>1. CASE Kept(n, p) /\ networks'[n].kind = networks[n].kind /\ m = networks[n].parent
    BY <1>2, <2>1, OfParentStays DEF ChildInv, PrefixInv, PrefixesKept, Order, Rows
  <2>2. CASE p \in call[c].holds /\ Inserts(c) /\ networks'[n] = call[c].row
    <3>1. call[c].pc = "createChild"
      BY <1>2, <2>2, CallKnown DEF Inserts, Fit, RowFits, Creating
    <3>2. m = call[c].id /\ m \in NetworkIDs
      BY <1>2, <2>2, <3>1, CallKnown DEF Fit, RowFits, ForChild
    <3>3. p \in call[c].row.prefixes
      <4>1. call[c].row.vrf \in VRFs \cup {None} /\ p \notin VRFs \cup {None}
        BY CallKnown, NetworkAssumption DEF Network
      <4> QED BY <1>2, <2>2, <4>1 DEF Kept, Owned
    <3>4. OfParent(p, m) /\ p \in ipam
      BY <2>2, <3>1, <3>2, <3>3 DEF ChildInv, ForChild, PrefixInv, PrefixHands
    <3> QED BY <3>2, <3>4, OfParentStays
  <2>3. CASE p \in call[c].holds /\ Replaces(c) /\ networks'[n] = call[c].row
    <3>1. /\ call[c].row.kind = call[c].seen.kind
          /\ call[c].seen.kind = "child" => call[c].row.prefixes = call[c].seen.prefixes
          /\ call[c].holds \subseteq call[c].row.prefixes \ call[c].seen.prefixes
      BY <2>3, CallKnown DEF Replaces, Fit, HoldsFit, RowFits, Updating
    <3> QED BY <1>2, <2>3, <3>1
  <2> QED BY <1>2, <2>1, <2>2, <2>3, KeptComes
<1>3. ASSUME NEW d \in Callers, call'[d].pc \in ForChild, NEW p \in call'[d].row.prefixes,
             NEW m, m = call'[d].id
      PROVE  OfParent(p, m)'
  <2>1. CASE call[d].pc \in ForChild /\ call[d].id = m /\ p \in call[d].row.prefixes
    <3>1. p \in Prefixes /\ p \in ipam /\ m \in NetworkIDs /\ OfParent(p, m)
      BY <2>1, CallKnown DEF Fit, HoldsFit, RowFits, Network, PrefixInv, PrefixHands, ChildInv
    <3> QED BY <3>1, OfParentStays
  <2>2. CASE /\ d = c /\ call[c].pc = "childPrefix" /\ call[c].id = m
             /\ ParentOf[p] \in call[c].seen.prefixes \cap ipam
    <3>1. ParentOf[p] \in Prefixes /\ Top(ParentOf[p]) /\ m \in NetworkIDs
      BY <2>2, CallKnown DEF Fit, RowFits, ForChild, Order, NetworkInv, TypeOK
    <3>2. Owned(m, ParentOf[p])
      BY <2>2, <3>1 DEF PrefixInv, Asked, Asking
    <3>3. ~Returns(c, ParentOf[p])
      BY <2>2 DEF Returns, Changes, Updating, Deleting
    <3> QED BY <3>1, <3>2, <3>3, OwnedStays DEF OfParent, Top
  <2> QED BY <1>1, <1>3, <2>1, <2>2 DEF StepOf, Goes, Same, ForChild
<1> QED BY <1>2, <1>3 DEF ChildInv, OfParent, Owned

-----------------------------------------------------------------------------
\* Networks are created one after the other, and the search for a private super
\* network holds until the row is inserted.
SuperInv ==
    /\ OneSuper
    /\ \A c, d \in Callers : call[c].pc \in Creating /\ call[d].pc \in Creating => c = d
    /\ \A c \in Callers : call[c].pc \in Creating \ {"findSuper"} /\ call[c].row.kind = "super" => Supers = {}

LEMMA SuperStep ==
  ASSUME "oneAdmin" \in Assumed, Order, SuperInv, NEW c \in Callers, StepOf(c)
  PROVE  SuperInv'
<1>1. /\ \A d \in Callers \ {c} : Same(call'[d], call[d])
      /\ networks \in [NetworkIDs -> Network]
  BY DEF StepOf, Others, Order, NetworkInv, TypeOK
<1>2. \/ Supers' \subseteq Supers
      \/ /\ Supers = {} /\ call[c].pc = "createNetwork" /\ call'[c] = IdleCall
         /\ \A n, m \in Supers' : n = m
  <2>1. CASE networks' = networks
    BY <2>1 DEF Supers
  <2>2. CASE Removes(c)
    BY <1>1, <2>2 DEF Removes, Writes, Supers, NoNetwork
  <2>3. CASE Replaces(c)
    <3>1. call[c].row.kind = networks[call[c].id].kind
      BY <2>3, CallKnown DEF Replaces, Changes, Updating, Fit, RowFits
    <3> QED BY <1>1, <2>3, <3>1 DEF Replaces, Writes, Supers
  <2>4. CASE Inserts(c)
    <3>1. PICK n \in NetworkIDs : networks' = [networks EXCEPT ![n] = call[c].row]
      BY <2>4 DEF Inserts, Writes
    <3>2. CASE call[c].row.kind # "super"
      BY <1>1, <3>1, <3>2 DEF Supers
    <3>3. CASE call[c].row.kind = "super"
      <4>1. call[c].pc = "createNetwork" /\ call'[c] = IdleCall
        BY <2>4, <3>3, CallKnown DEF Inserts, Writes, Fit, RowFits, ForChild
      <4>2. Supers = {}
        BY <3>3, <4>1 DEF SuperInv, Creating
      <4> QED BY <1>1, <3>1, <4>1, <4>2 DEF Supers
    <3> QED BY <3>2, <3>3
  <2> QED BY <2>1, <2>2, <2>3, <2>4 DEF StepOf, Kind, Thinks, GivesUp, Takes, Returns, AtRow
<1>3. OneSuper'
  BY <1>2 DEF SuperInv, OneSuper
<1>4. CASE call'[c].pc \notin Creating
  <2>1. \A d, e \in Callers : call'[d].pc \in Creating /\ call'[e].pc \in Creating => d = e
    BY <1>1, <1>4 DEF SuperInv, Same
  <2>2. ASSUME NEW d \in Callers, call'[d].pc \in Creating \ {"findSuper"}, call'[d].row.kind = "super"
        PROVE  Supers' = {}
    <3>1. d # c /\ call[d].pc \in Creating /\ Supers = {}
      BY <1>1, <1>4, <2>2 DEF SuperInv, Same
    <3>2. call[c].pc # "createNetwork"
      BY <3>1 DEF SuperInv, Creating
    <3> QED BY <1>2, <3>1, <3>2
  <2> QED BY <1>3, <2>1, <2>2 DEF SuperInv
<1>5. CASE call'[c].pc \in Creating
  <2>1. CASE CreateNetwork(c)
    <3>1. /\ \A d \in Callers : call[d].pc \notin Creating
          /\ networks' = networks
          /\ call'[c].pc = "findSuper" \/ call'[c].row.kind = "external"
      <4>1. PICK n \in NetworkIDs, kind \in {"super", "external"}, v \in VRFs \cup {None} :
            \E P \in Requestable(kind) : CreateNetwork(c)!(n, kind, v)!(P)
        BY <2>1 DEF CreateNetwork
      <4>2. PICK P \in Requestable(kind) : CreateNetwork(c)!(n, kind, v)!(P)
        BY <4>1
      <4>3. call'[c] = [IdleCall EXCEPT
                  !.pc = IF kind = "super" THEN "findSuper" ELSE AfterChecks(v), !.id = n,
                  !.row = [kind |-> kind, prefixes |-> P, vrf |-> v, parent |-> None]]
        BY <4>2 DEF Order, NetworkInv, TypeOK
      <4>4. call'[c].row.kind = kind /\ (kind = "super" => call'[c].pc = "findSuper")
        BY <4>3 DEF IdleCall
      <4> QED BY <4>2, <4>4
    <3> QED BY <1>1, <1>3, <3>1 DEF SuperInv, Same, Supers
  <2>2. CASE call[c].pc \in Creating /\ call'[c].row = call[c].row /\ (call[c].pc = "findSuper" => Supers = {})
    <3>1. call'[c] # IdleCall
      BY <1>5 DEF IdleCall, Creating
    <3>2. \A d \in Callers \ {c} : call'[d].pc \notin Creating
      BY <1>1, <2>2 DEF SuperInv, Same
    <3>3. Supers' \subseteq Supers
      BY <1>2, <3>1
    <3>4. call[c].row.kind = "super" => Supers = {} \/ call'[c].pc = "findSuper"
      BY <2>2 DEF SuperInv
    <3> QED BY <1>3, <2>2, <3>2, <3>3, <3>4 DEF SuperInv
  <2> QED BY <1>5, <2>1, <2>2 DEF StepOf, Goes
<1> QED BY <1>4, <1>5

-----------------------------------------------------------------------------
\* What the IPAM and the pool gave out.
OwnedByOne(x) == \E n \in NetworkIDs : Owned(n, x)
AccountInv ==
    /\ \A x \in ipam \cup (VRFs \ vrfs) : OwnedByOne(x) \/ x \in InHands \cup lost
    /\ \A i \in taken : ips[i] # None \/ i \in InHands \cup lost

\* What a call holds when its row is written is in the row.
LEMMA HoldsWritten ==
  ASSUME Order, NEW c \in Callers, StepOf(c), Inserts(c) \/ Replaces(c), NEW x \in call[c].holds
  PROVE  \E n \in NetworkIDs : Owned(n, x)'
<1>1. /\ \A d \in Callers \ {c} : Same(call'[d], call[d])
      /\ networks \in [NetworkIDs -> Network]
  BY DEF StepOf, Others, Order, NetworkInv, TypeOK
<1>2. ASSUME NEW n \in NetworkIDs, Writes(c, n, call[c].row),
             x \in call[c].row.prefixes \cup {call[c].row.vrf},
             \A d \in Callers \ {c} : call[d].id = n => call[d].drops = {}
      PROVE  Owned(n, x)'
  BY <1>1, <1>2 DEF Writes, Owned, Same, IdleCall
<1>3. CASE Inserts(c)
  <2>1. PICK n \in NetworkIDs : /\ Writes(c, n, call[c].row) /\ ~Exists(n)
                                /\ call[c].pc \in {"createNetwork", "createChild"}
    BY <1>3 DEF Inserts
  <2>2. x \in call[c].row.prefixes \cup {call[c].row.vrf}
    BY <2>1, CallKnown DEF Fit, HoldsFit, ForChild
  <2>3. \A d \in Callers : call[d].id = n => call[d].drops = {}
    BY <2>1, DropsKnown DEF Sound
  <2> QED BY <1>2, <2>1, <2>2, <2>3
<1>4. CASE Replaces(c)
  <2>1. call[c].pc = "updateNetwork" /\ Writes(c, call[c].id, call[c].row) /\ call[c].id \in NetworkIDs
    BY <1>4 DEF Replaces, Writes
  <2>2. x \in call[c].row.prefixes /\ Changes(call[c])
    BY <2>1, CallKnown DEF Fit, HoldsFit, Changes, Updating
  <2>3. \A d \in Callers \ {c} : call[d].id = call[c].id => call[d].drops = {}
    BY <2>2, DropsKnown
  <2> QED BY <1>2, <2>1, <2>2, <2>3
<1> QED BY <1>3, <1>4

LEMMA AccountStep ==
  ASSUME Order, PrefixInv, AddressInv, AccountInv, NEW c \in Callers, StepOf(c)
  PROVE  AccountInv'
<1>1. /\ \A d \in Callers \ {c} : Same(call'[d], call[d])
      /\ ipam \subseteq Prefixes /\ vrfs \subseteq VRFs /\ taken \subseteq IPs
      /\ IPs \cap (Prefixes \cup VRFs) = {} /\ VRFs \cap Prefixes = {}
  BY NetworkAssumption DEF StepOf, Others, Order, NetworkInv, TypeOK
<1>2. \A x : x \in InHands' <=> \E d \in Callers : x \in call'[d].holds
  BY DEF InHands
<1>3. \A x : x \in InHands <=> \E d \in Callers : x \in call[d].holds
  BY DEF InHands
\* What a call had in its hands is still there, is lost, or is in a row.
<1>4. ASSUME NEW x \in Prefixes \cup VRFs, x \in call[c].holds
      PROVE  x \in call'[c].holds \cup lost' \/ OwnedByOne(x)'
  <2>1. CASE Inserts(c) \/ Replaces(c)
    BY <1>4, <2>1, HoldsWritten DEF OwnedByOne
  <2>2. CASE Removes(c)
    BY <1>4, <2>2, CallKnown DEF Removes, Fit, HoldsFit, Empty, Deleting
  <2>3. CASE AtRow(c)
    <3>1. call[c].pc \in {"createIP", "deleteIP", "releaseIP"}
      BY <2>3 DEF AtRow, CreateIP, DeleteIP, ReleaseIP
    <3>2. call[c].holds \subseteq IPs
      BY <3>1, CallKnown DEF Fit, HoldsFit, Empty, CallFits
    <3> QED BY <1>1, <1>4, <3>2
  <2> QED BY <1>4, <2>1, <2>2, <2>3 DEF StepOf, Kind, Thinks, GivesUp, Takes, Returns
<1>5. ASSUME NEW x \in ipam' \cup (VRFs \ vrfs') PROVE OwnedByOne(x)' \/ x \in InHands' \cup lost'
  <2>1. x \in Prefixes \cup VRFs /\ (x \in ipam \cup (VRFs \ vrfs) \/ Takes(c, x)) /\ ~Returns(c, x)
    <3>1. ~Returns(c, x)
      <4>1. call[c].seen.prefixes \subseteq Prefixes /\ call[c].seen.vrf \in VRFs \cup {None}
        BY CallKnown DEF Network
      <4> QED BY <1>1, <1>5, <4>1 DEF Returns
    <3>2. CASE Thinks(c) \/ GivesUp(c) \/ AtRow(c) \/ Inserts(c) \/ Replaces(c) \/ Removes(c)
      BY <1>1, <1>5, <3>1, <3>2 DEF Thinks, GivesUp, AtRow, Inserts, Replaces, Removes, Writes
    <3>3. ASSUME NEW y \in Resources, Takes(c, y) PROVE x \in ipam \cup (VRFs \ vrfs) \cup {y}
      BY <1>5, <3>3 DEF Takes, TakenFrom
    <3>4. ASSUME NEW y \in Resources, Returns(c, y) PROVE x \in ipam \cup (VRFs \ vrfs)
      BY <1>5, <3>4 DEF Returns
    <3>5. x \in ipam \cup (VRFs \ vrfs) \/ Takes(c, x)
      BY <3>2, <3>3, <3>4 DEF StepOf, Kind
    <3>6. ASSUME Takes(c, x) PROVE x \in Prefixes \cup VRFs
      BY <1>1, <1>5, <3>6 DEF Takes, TakenFrom
    <3> QED BY <1>1, <3>1, <3>5, <3>6
  <2>2. CASE Takes(c, x)
    BY <1>2, <2>2 DEF Takes
  <2>3. CASE x \in ipam \cup (VRFs \ vrfs)
    <3>1. CASE OwnedByOne(x)
      BY <2>1, <3>1, OwnedStays DEF OwnedByOne
    <3>2. CASE x \in lost
      BY <3>2 DEF StepOf, Kind, Thinks, GivesUp, Takes, Returns, Inserts, Replaces, Removes, Writes, AtRow
    <3>3. CASE x \in InHands
      BY <1>1, <1>2, <1>3, <1>4, <2>1, <3>3 DEF Same
    <3> QED BY <2>3, <3>1, <3>2, <3>3 DEF AccountInv
  <2> QED BY <2>1, <2>2, <2>3
<1>6. ASSUME NEW i \in taken' PROVE ips'[i] # None \/ i \in InHands' \cup lost'
  <2>1. CASE AtRow(c)
    <3> DEFINE j == call[c].ip
    <3>1. /\ call[c].pc \in {"createIP", "deleteIP", "releaseIP"} /\ j \in IPs
          /\ call[c].holds \subseteq {j} /\ lost' = lost
          /\ ips \in [IPs -> NetworkIDs \cup {None}] /\ None \notin NetworkIDs
      <4>1. call[c].pc \in {"createIP", "deleteIP", "releaseIP"} /\ lost' = lost
        BY <2>1 DEF AtRow, CreateIP, DeleteIP, ReleaseIP
      <4> QED BY <4>1, CallKnown, NetworkAssumption DEF CallFits, Fit, HoldsFit, Empty, Order, NetworkInv, TypeOK
    <3>2. CASE CreateIP(c) /\ ips[j] = None
      <4>1. ips' = [ips EXCEPT ![j] = call[c].id] /\ taken' = taken /\ call[c].id \in NetworkIDs
        BY <3>2, CallKnown DEF CreateIP, CallFits
      <4> QED BY <1>1, <1>2, <1>3, <1>6, <3>1, <4>1 DEF AccountInv, Same
    <3>3. CASE DeleteIP(c)
      <4>1. ips' = [ips EXCEPT ![j] = None] /\ taken' = taken /\ call'[c].holds = {j} /\ call[c].holds = {}
        BY <3>3, CallKnown DEF DeleteIP, Order, NetworkInv, TypeOK, CallState, Fit, HoldsFit, Empty
      <4> QED BY <1>1, <1>2, <1>3, <1>6, <3>1, <4>1 DEF AccountInv, Same
    <3>4. CASE ReleaseIP(c)
      <4>1. ips' = ips /\ taken' = taken \ {j}
        BY <3>4 DEF ReleaseIP
      <4> QED BY <1>1, <1>2, <1>3, <1>6, <3>1, <4>1 DEF AccountInv, Same
    <3> QED BY <2>1, <3>2, <3>3, <3>4 DEF AtRow
  <2>2. CASE ~AtRow(c)
    <3>1. ips' = ips /\ lost \subseteq lost'
      BY <2>2 DEF StepOf, Kind, Thinks, GivesUp, Takes, Returns, Inserts, Replaces, Removes, Writes
    <3>2. i \in call[c].holds => i \in call'[c].holds \cup lost'
      <4>1. CASE Inserts(c) \/ Replaces(c) \/ Removes(c)
        <5>1. call[c].holds \subseteq call[c].row.prefixes \cup {call[c].row.vrf}
          BY <4>1, CallKnown DEF Inserts, Replaces, Removes, Fit, HoldsFit, ForChild, Updating, Deleting, Empty
        <5>2. i \in IPs
          BY <1>1, <1>6, <4>1 DEF Inserts, Replaces, Removes, Writes
        <5>3. i \notin call[c].holds
          BY <1>1, <5>1, <5>2, CallKnown, NetworkAssumption DEF Network
        <5> QED BY <5>3
      <4> QED BY <2>2, <4>1 DEF StepOf, Kind, Thinks, GivesUp, Takes, Returns
    <3>3. i \in taken \/ i \in call'[c].holds
      BY <1>6, <2>2
         DEF StepOf, Kind, Thinks, GivesUp, Takes, TakenFrom, Returns, Inserts, Replaces, Removes, Writes
    <3> QED BY <1>1, <1>2, <1>3, <3>1, <3>2, <3>3 DEF AccountInv, Same
  <2> QED BY <2>1, <2>2
<1> QED BY <1>5, <1>6 DEF AccountInv

-----------------------------------------------------------------------------
\* Everything together.
StoreInv == Order /\ PrefixInv /\ AddressInv /\ ChildInv /\ SuperInv /\ AccountInv

\* The invariant behind NothingShared, IPAMAgrees and ReferencesKept: for any number
\* of networks, prefixes, addresses and callers, under all of Assumptions, what the
\* IPAM and the pool gave out is in the hands of one call, in one row or lost, and
\* what a row or a call refers to stays where it is (createNetwork,
\* createChildNetwork, updateNetwork, freeNetwork, deleteNetwork, allocateIP, freeIP).
THEOREM StoreInvariant ==
  ASSUME Assumed = Assumptions
  PROVE  Spec => []StoreInv
<1> USE DEF Assumptions
<1>1. Init /\ NetworkInv => StoreInv
  <2> SUFFICES ASSUME Init, NetworkInv PROVE StoreInv
    OBVIOUS
  <2>1. \A c \in Callers : call[c] = IdleCall
    BY DEF Init
  <2>2. /\ IdleCall.pc = "idle" /\ IdleCall.holds = {} /\ IdleCall.drops = {}
        /\ "idle" \notin Updating \cup Deleting \cup Creating \cup Asking \cup ForChild \cup AtIP \cup Begun
    BY DEF IdleCall, Updating, Deleting, Creating, Asking, ForChild, AtIP, Freeing, Begun
  <2>3. Fit(IdleCall)
    BY <2>2 DEF Fit, HoldsFit, DropsFit, RowFits, Begun, ForChild, Asking, Updating, Deleting
  <2>4. \A n \in NetworkIDs : networks[n] = NoNetwork /\ ~Exists(n)
    BY DEF Init, NoNetwork, Exists
  <2>5. NoNetwork.kind = "none"
    BY DEF NoNetwork
  <2>6. Order
    BY <2>1, <2>2, <2>3, <2>4, <2>5 DEF Order, Reads, Rows, Changes
  <2>7. PrefixInv
    BY <2>1, <2>2, <2>4 DEF PrefixInv, PrefixHands, PrefixesKept, Asked, Kept, Sound
  <2>8. AddressInv
    BY <2>1, <2>2 DEF AddressInv, AtIP, Freeing, Init
  <2>9. ChildInv /\ SuperInv
    BY <2>1, <2>2, <2>4, <2>5 DEF ChildInv, SuperInv, OneSuper, Supers, Kept, Sound
  <2>10. AccountInv
    BY DEF Init, AccountInv
  <2> QED BY <2>6, <2>7, <2>8, <2>9, <2>10 DEF StoreInv
<1>2. StoreInv /\ NetworkInv' /\ [Next]_vars => StoreInv'
  <2> SUFFICES ASSUME StoreInv, NetworkInv', [Next]_vars PROVE StoreInv'
    OBVIOUS
  <2>1. CASE UNCHANGED vars
    BY <2>1 DEF vars, StoreInv, Order, Reads, Rows, Exists, PrefixInv, PrefixHands, PrefixesKept, Asked,
                Kept, Owned, Sound, AddressInv, Placed, ChildInv, OfParent, SuperInv, OneSuper, Supers,
                AccountInv, OwnedByOne, InHands, Changes, NetworkInv
  <2>2. CASE Next
    <3>1. PICK c \in Callers : StepOf(c)
      BY <2>2, StepKinds DEF StoreInv
    <3> QED BY <3>1, OrderStep, PrefixStep, AddressesStep, ChildStep, SuperStep, AccountStep DEF StoreInv
  <2> QED BY <2>1, <2>2
<1>3. Spec => []NetworkInv
  BY NetworkInvariant
<1> QED BY <1>1, <1>2, <1>3, PTL DEF Spec

\* Networks have neither a VRF nor a prefix in common, and no VRF of a network can be
\* acquired again (acquireRandomVRF, createNetwork, createChildNetwork, freeNetwork,
\* deleteNetwork).
THEOREM NothingIsShared ==
  ASSUME Assumed = Assumptions
  PROVE  Spec => []NothingShared
<1>1. StoreInv => PrefixUnique
  <2> SUFFICES ASSUME StoreInv, NEW n \in NetworkIDs, NEW m \in NetworkIDs, Sound(n), Sound(m),
                      NEW p \in Has(n) \cap Has(m) \cap Prefixes
               PROVE  n = m
    BY DEF PrefixUnique
  <2>1. Kept(n, p) /\ Kept(m, p)
    BY DEF Has, Dropped, Kept, Owned
  <2> QED BY <2>1 DEF StoreInv, PrefixInv, PrefixesKept
<1>2. Spec => []VRFUnique
  BY VRFsUnique DEF Assumptions
<1>3. Spec => []StoreInv
  BY StoreInvariant
<1>4. StoreInv /\ VRFUnique => NothingShared
  BY <1>1 DEF NothingShared
<1> QED BY <1>2, <1>3, <1>4, PTL

\* The IPAM has the prefixes of every network, and what the IPAM and the pool gave
\* out is named by a row, in the hands of a call or was lost by one that failed
\* (createNetwork, updateNetwork, deleteNetwork, allocateIP).
THEOREM IPAMAgreesWithRows ==
  ASSUME Assumed = Assumptions
  PROVE  Spec => []IPAMAgrees
<1>1. StoreInv => IPAMAgrees
  <2> SUFFICES ASSUME StoreInv PROVE IPAMAgrees
    OBVIOUS
  <2>1. ASSUME NEW n \in NetworkIDs, Sound(n), NEW p \in Has(n) \cap Prefixes PROVE p \in ipam
    <3>1. Kept(n, p)
      BY <2>1 DEF Has, Dropped, Kept, Owned
    <3> QED BY <3>1 DEF StoreInv, PrefixInv, PrefixesKept
  <2>2. ASSUME NEW x \in ipam \cup (VRFs \ vrfs) PROVE x \in Named \cup InHands \cup lost
    BY DEF StoreInv, AccountInv, OwnedByOne, Owned, Named
  <2>3. \A j : j \in IPs /\ ips[j] # None => j \in Named
    BY DEF Named
  <2>4. ASSUME NEW i \in taken PROVE i \in Named \cup InHands \cup lost
    <3>1. i \in IPs
      BY DEF StoreInv, Order, NetworkInv, TypeOK
    <3>2. ips[i] # None \/ i \in InHands \cup lost
      BY DEF StoreInv, AccountInv
    <3> QED BY <2>3, <3>1, <3>2
  <2> QED BY <2>1, <2>2, <2>4 DEF IPAMAgrees, IPAMCoversNetworks, Accounted
<1>2. Spec => []StoreInv
  BY StoreInvariant
<1> QED BY <1>1, <1>2, PTL

\* An address has a network with its prefix, a child network has a parent with the
\* parents of its prefixes, and there is one private super network at most
\* (allocateIP, createChildNetwork, findEntity).
THEOREM ReferencesAreKept ==
  ASSUME Assumed = Assumptions
  PROVE  Spec => []ReferencesKept
<1>1. StoreInv => ReferencesKept
  <2> SUFFICES ASSUME StoreInv PROVE ReferencesKept
    OBVIOUS
  <2>1. /\ networks \in [NetworkIDs -> Network] /\ VRFs \cap Prefixes = {} /\ None \notin Prefixes
        /\ ips \in [IPs -> NetworkIDs \cup {None}] /\ PrefixOf \in [IPs -> Prefixes]
    BY NetworkAssumption DEF StoreInv, Order, NetworkInv, TypeOK
  <2>2. ASSUME NEW n \in NetworkIDs, NEW p \in Prefixes, Owned(n, p) PROVE p \in networks[n].prefixes
    BY <2>1, <2>2 DEF Owned, Network
  <2>3. IPHasNetwork
    BY <2>1, <2>2 DEF IPHasNetwork, StoreInv, AddressInv, Placed
  <2>4. ASSUME NEW n \in NetworkIDs, Sound(n), networks[n].kind = "child", NEW p \in Has(n) \cap Prefixes
        PROVE  ParentOf[p] \in networks[networks[n].parent].prefixes
    <3>1. Kept(n, p)
      BY <2>4 DEF Has, Dropped, Kept, Owned
    <3>2. OfParent(p, networks[n].parent) /\ networks[n].parent \in NetworkIDs
      BY <2>4, <3>1 DEF StoreInv, ChildInv, Order, Rows
    <3> QED BY <2>2, <3>2 DEF OfParent
  <2> QED BY <2>3, <2>4 DEF ReferencesKept, ChildHasParent, StoreInv, SuperInv
<1>2. Spec => []StoreInv
  BY StoreInvariant
<1> QED BY <1>1, <1>2, PTL
=============================================================================
