--------------------------- MODULE ComponentsProofs ---------------------------
(***************************************************************************)
(* The components that stand alone, each for all of its constants.           *)
(*                                                                         *)
(* What the replicas share through the data store. The mutex, for any number *)
(* of clients: mutual exclusion as long as no holder outlives its row, and no *)
(* lost wake-up but for a release that falls between a refused insert and the *)
(* opening of the change feed. The integer pool, for any range, any number of *)
(* clients and of starting replicas: provided that one replica at a time      *)
(* initializes the pool, an integer has one holder at most and none is lost.  *)
(* Both implement the abstract lease. The migrations, for any of them: their  *)
(* version tells what was done, once, whatever failed or was written between. *)
(*                                                                         *)
(* What is done to devices. A machine: its lock holds, for any number of     *)
(* handlers and calls, with no assumption about the environment. The ports   *)
(* of a switch: their names survive any number of replacements of the        *)
(* switch, whatever the number of its ports, and what is wanted of a port    *)
(* survives whatever crosses it, for any switch, any number of operators and *)
(* calls, patient or not. And the tables of both stay well formed next to    *)
(* the components that have nothing to do with them.                         *)
(***************************************************************************)
EXTENDS ComponentsMC, FiniteSetTheorems, TLAPS

----------------------------------------------------------------------------
(* The mutex.                                                              *)

\* Every action keeps the types (lock, unlock, expireloop).
LEMMA TypeStep == MutexTypeOK /\ [MutexNext]_mutexVars => MutexTypeOK'
<1> SUFFICES ASSUME MutexTypeOK, [MutexNext]_mutexVars PROVE MutexTypeOK'
  OBVIOUS
<1> USE SharedMutexAssumption DEF MutexTypeOK, Places, feeds
<1>1. CASE BecomeOverdue
  BY <1>1 DEF BecomeOverdue
<1>2. CASE Expire
  BY <1>2 DEF Expire, DeleteRow, Listeners, Refused
<1>3. ASSUME NEW c \in Lockers, MutexCall(c) PROVE MutexTypeOK'
  <2>1. CASE Lock(c)
    BY <2>1 DEF Lock, Insert, Goto
  <2>2. CASE OpenFeed(c)
    BY <2>2 DEF OpenFeed, Goto
  <2>3. CASE BreakFeed(c)
    BY <2>3 DEF BreakFeed, Goto
  <2>4. CASE Retry(c)
    BY <2>4 DEF Retry, ToldOfRelease, Insert, Forget, Goto
  <2>5. CASE InsertUnanswered(c)
    BY <2>5 DEF InsertUnanswered, ToldOfRelease, Insert, Forget, Goto
  <2>6. CASE TimeOut(c)
    BY <2>6 DEF TimeOut, Forget, Goto
  <2>7. CASE Unlock(c)
    BY <2>7 DEF Unlock, DeleteRow, Listeners, Refused, Goto
  <2>8. CASE UnlockFails(c)
    BY <2>8 DEF UnlockFails, Goto
  <2> QED BY <1>3, <2>1, <2>2, <2>3, <2>4, <2>5, <2>6, <2>7, <2>8 DEF MutexCall
<1>4. CASE UNCHANGED mutexVars
  BY <1>4 DEF mutexVars
<1> QED BY <1>1, <1>2, <1>3, <1>4 DEF MutexNext

\* With holders that are prompt, a step of one client leaves the row of another
\* holder alone (newMutexDoc, unlock, expireloop).
LEMMA HolderStep == ASSUME "prompt" \in MutexAssumed PROVE MutexInv /\ [MutexNext]_mutexVars => HolderHasRow'
<1> SUFFICES ASSUME MutexInv, [MutexNext]_mutexVars, NEW h \in Lockers, At(h, {"locked"})'
             PROVE row' = h /\ overdue' = FALSE
  BY DEF HolderHasRow
<1> USE SharedMutexAssumption DEF MutexInv, MutexTypeOK, HolderHasRow, At
<1>1. CASE BecomeOverdue
  BY <1>1 DEF BecomeOverdue
<1>2. CASE Expire
  BY <1>2 DEF Expire, Expired
<1>3. ASSUME NEW c \in Lockers, MutexCall(c) PROVE row' = h /\ overdue' = FALSE
  <2>1. CASE Lock(c)
    BY <2>1 DEF Lock, Insert, Vacant, Goto
  <2>2. CASE OpenFeed(c)
    BY <2>2 DEF OpenFeed, Goto
  <2>3. CASE BreakFeed(c)
    BY <2>3 DEF BreakFeed, Goto
  <2>4. CASE Retry(c)
    BY <2>4 DEF Retry, ToldOfRelease, Insert, Vacant, Goto
  <2>5. CASE InsertUnanswered(c)
    BY <2>5 DEF InsertUnanswered, ToldOfRelease, Insert, Vacant, Goto
  <2>6. CASE TimeOut(c)
    BY <2>6 DEF TimeOut, Goto
  <2>7. CASE Unlock(c)
    BY <2>7 DEF Unlock, Goto
  <2>8. CASE UnlockFails(c)
    BY <2>8 DEF UnlockFails, Goto
  <2> QED BY <1>3, <2>1, <2>2, <2>3, <2>4, <2>5, <2>6, <2>7, <2>8 DEF MutexCall
<1>4. CASE UNCHANGED mutexVars
  BY <1>4 DEF mutexVars
<1> QED BY <1>1, <1>2, <1>3, <1>4 DEF MutexNext

\* The row of a holder is its own and is not overdue, in every reachable state.
THEOREM HolderKeepsRow == ASSUME "prompt" \in MutexAssumed PROVE MutexSpec => []MutexInv
<1>1. MutexInit => MutexInv
  BY DEF MutexInit, MutexInv, MutexTypeOK, HolderHasRow, At, Places
<1>2. MutexInv /\ [MutexNext]_mutexVars => MutexInv'
  BY TypeStep, HolderStep DEF MutexInv
<1> QED BY <1>1, <1>2, PTL DEF MutexSpec

\* At most one replica is between lock and unlock.
THEOREM Exclusive == ASSUME "prompt" \in MutexAssumed PROVE MutexSpec => []MutualExclusion
<1>1. MutexInv => MutualExclusion
  BY DEF MutexInv, HolderHasRow, MutualExclusion
<1> QED BY <1>1, HolderKeepsRow, PTL

\* Nobody but its client takes away a row that is not overdue.
THEOREM OwnRowReleased == ASSUME "prompt" \in MutexAssumed PROVE MutexSpec => OnlyOwnRowReleased
<1>1. MutexInv /\ [MutexNext]_mutexVars =>
        [row # NoLocker /\ ~overdue /\ row' = NoLocker
           => At(row, {"locked"}) /\ stage'[row] = "idle"]_mutexVars
  <2> SUFFICES ASSUME MutexInv, MutexNext, row # NoLocker, ~overdue, row' = NoLocker
               PROVE At(row, {"locked"}) /\ stage'[row] = "idle"
    OBVIOUS
  <2> USE SharedMutexAssumption DEF MutexInv, MutexTypeOK
  <2>1. CASE BecomeOverdue
    BY <2>1 DEF BecomeOverdue
  <2>2. CASE Expire
    BY <2>2 DEF Expire, Expired
  <2>3. ASSUME NEW c \in Lockers, MutexCall(c) PROVE At(row, {"locked"}) /\ stage'[row] = "idle"
    <3>1. CASE Unlock(c)
      BY <3>1 DEF Unlock, HolderHasRow, Goto
    <3>2. CASE Lock(c)
      BY <3>2 DEF Lock, Insert
    <3>3. CASE Retry(c)
      BY <3>3 DEF Retry, ToldOfRelease, Insert
    <3>4. CASE ~Unlock(c) /\ ~Lock(c) /\ ~Retry(c)
      BY <2>3, <3>4 DEF MutexCall, OpenFeed, BreakFeed, InsertUnanswered, ToldOfRelease, Insert, TimeOut, UnlockFails
    <3> QED BY <3>1, <3>2, <3>3, <3>4
  <2> QED BY <2>1, <2>2, <2>3 DEF MutexNext
<1> QED BY <1>1, HolderKeepsRow, PTL DEF MutexSpec, OnlyOwnRowReleased

\* A client that enters is granted the mutex, one that leaves gives it back.
LEMMA MutexLeaseStep ==
  ASSUME MutexInv, MutexInv', NEW c \in Lockers, NEW place \in Places, Goto(c, place)
  PROVE  [MutexLease!Next]_mutexHolders
<1> DEFINE H == {d \in Lockers : stage[d] = "locked"}
           P == {d \in Lockers : stage'[d] = "locked"}
<1> USE DEF MutexInv, MutexTypeOK, HolderHasRow, At
<1>1. mutexHolders = [k \in {Key} |-> H] /\ mutexHolders' = [k \in {Key} |-> P]
  BY DEF mutexHolders
<1>2. \A d \in Lockers : d # c => (d \in P <=> d \in H)
  BY DEF Goto
<1>3. c \in P => P = {c}
  OBVIOUS
<1>4. c \in H => H = {c}
  OBVIOUS
<1>5. P \subseteq Lockers /\ H \subseteq Lockers
  OBVIOUS
<1> HIDE DEF H, P
<1>6. CASE c \in P /\ c \notin H
  <2>1. H = {} /\ P = {c}
    BY <1>2, <1>3, <1>5, <1>6
  <2>2. MutexLease!Grant(c, Key)
    BY <1>1, <2>1 DEF MutexLease!Grant
  <2> QED BY <2>2 DEF MutexLease!Next
<1>7. CASE c \in H /\ c \notin P
  <2>1. P = H \ {c}
    BY <1>2, <1>5, <1>7
  <2>2. MutexLease!GiveBack(c, Key)
    BY <1>1, <1>7, <2>1 DEF MutexLease!GiveBack
  <2> QED BY <2>2 DEF MutexLease!Next
<1>8. CASE c \in H <=> c \in P
  <2>1. H = P
    BY <1>2, <1>5, <1>8
  <2> QED BY <1>1, <2>1
<1> QED BY <1>6, <1>7, <1>8

\* The shared mutex implements the abstract lease of its key.
THEOREM MutexLeaseImplemented == ASSUME "prompt" \in MutexAssumed PROVE MutexSpec => MutexImplementsLease
<1>1. MutexInit => MutexLease!Init
  BY DEF MutexInit, MutexLease!Init, mutexHolders, At
<1>2. MutexInv /\ MutexInv' /\ [MutexNext]_mutexVars => [MutexLease!Next]_mutexHolders
  <2> SUFFICES ASSUME MutexInv, MutexInv', [MutexNext]_mutexVars PROVE [MutexLease!Next]_mutexHolders
    OBVIOUS
  <2>1. CASE UNCHANGED stage
    BY <2>1 DEF mutexHolders, At
  <2>2. ASSUME NEW c \in Lockers, MutexCall(c) PROVE UNCHANGED stage \/ \E place \in Places : Goto(c, place)
    BY <2>2 DEF MutexCall, Lock, OpenFeed, BreakFeed, Retry, InsertUnanswered, TimeOut, Unlock, UnlockFails, Places
  <2> QED BY <2>1, <2>2, MutexLeaseStep DEF MutexNext, BecomeOverdue, Expire, mutexVars
<1> QED BY <1>1, <1>2, HolderKeepsRow, PTL DEF MutexSpec, MutexImplementsLease, MutexLease!Spec

\* Nobody waits without a reason: the row is there, its release is in the feed, or
\* it fell into the gap before the feed was opened (lock).
LEMMA WakeupAlways == MutexSpec => []WakeupInv
<1>1. MutexInit => WakeupInv
  BY DEF MutexInit, WakeupInv, MutexTypeOK, NoLostWakeup, At, Places
<1>2. WakeupInv /\ [MutexNext]_mutexVars => WakeupInv'
  <2> SUFFICES ASSUME WakeupInv, [MutexNext]_mutexVars
               PROVE (NoLostWakeup /\ \A c \in Lockers : At(c, {"refused"}) => row # NoLocker \/ c \in missed)'
    BY TypeStep DEF WakeupInv
  <2> USE SharedMutexAssumption DEF WakeupInv, MutexTypeOK, NoLostWakeup, At, feeds
  <2>1. CASE BecomeOverdue
    BY <2>1 DEF BecomeOverdue
  <2>2. CASE Expire
    BY <2>2 DEF Expire, Expired, DeleteRow, Listeners, Refused
  <2>3. ASSUME NEW c \in Lockers, MutexCall(c)
        PROVE (NoLostWakeup /\ \A d \in Lockers : At(d, {"refused"}) => row # NoLocker \/ d \in missed)'
    <3>1. CASE Lock(c)
      BY <3>1 DEF Lock, Insert, Vacant, Goto
    <3>2. CASE OpenFeed(c)
      BY <3>2 DEF OpenFeed, Goto
    <3>3. CASE BreakFeed(c)
      BY <3>3 DEF BreakFeed, Goto
    <3>4. CASE Retry(c)
      BY <3>4 DEF Retry, ToldOfRelease, Insert, Vacant, Forget, Goto
    <3>5. CASE InsertUnanswered(c)
      BY <3>5 DEF InsertUnanswered, ToldOfRelease, Insert, Vacant, Forget, Goto
    <3>6. CASE TimeOut(c)
      BY <3>6 DEF TimeOut, Forget, Goto
    <3>7. CASE Unlock(c)
      BY <3>7 DEF Unlock, DeleteRow, Listeners, Refused, Goto
    <3>8. CASE UnlockFails(c)
      BY <3>8 DEF UnlockFails, Goto
    <3> QED BY <2>3, <3>1, <3>2, <3>3, <3>4, <3>5, <3>6, <3>7, <3>8 DEF MutexCall
  <2>4. CASE UNCHANGED mutexVars
    BY <2>4 DEF mutexVars
  <2> QED BY <2>1, <2>2, <2>3, <2>4 DEF MutexNext
<1> QED BY <1>1, <1>2, PTL DEF MutexSpec

\* A client that listens while the mutex is free has a release to read, unless it
\* missed one before it listened (lock).
THEOREM WakeupKept == MutexSpec => []NoLostWakeup
<1>1. WakeupInv => NoLostWakeup
  BY DEF WakeupInv
<1> QED BY <1>1, WakeupAlways, PTL

\* All that makes the mutex safe: one holder, its row, and no lost wake-up.
THEOREM MutexKept == ASSUME "prompt" \in MutexAssumed PROVE MutexSpec => []MutexSafe
<1>1. MutualExclusion /\ MutexInv /\ WakeupInv => MutexSafe
  BY DEF MutexSafe
<1> QED BY <1>1, Exclusive, HolderKeepsRow, WakeupAlways, PTL

----------------------------------------------------------------------------
(* The integer pool.                                                       *)

\* A step of initIntegerPool keeps the invariant.
LEMMA InitStep ==
  ASSUME "oneInit" \in PoolAssumed, PoolInv, NEW r \in Replicas, Initialization(r) \/ Crash(r)
  PROVE  PoolInv'
<1> USE IntegerPoolAssumption DEF PoolInv, PoolTypeOK, UniqueHolders, Holds, InitPC, clients, InitTo
<1>1. CASE InitRead(r)
  BY <1>1 DEF InitRead, NeedsInit
<1>2. CASE InitInsert(r)
  <2>1. ~marked /\ \A c \in Clients : pc[c] = "idle"
    BY <1>2 DEF InitInsert
  <2>2. pool' \in SUBSET Integers /\ init' \in [Replicas -> InitPC]
    BY <1>2 DEF InitInsert
  <2> QED BY <1>2, <2>1, <2>2 DEF InitInsert
<1>3. CASE InitMark(r)
  BY <1>3 DEF InitMark
<1>4. CASE Restart(r)
  BY <1>4 DEF Restart
<1>5. CASE Crash(r)
  BY <1>5 DEF Crash
<1> QED BY <1>1, <1>2, <1>3, <1>4, <1>5 DEF Initialization

\* A client finds the pool initialized once it does anything but wait.
LEMMA ActiveMarked == ASSUME PoolInv, NEW c \in Clients, pc[c] # "idle" \/ Serving PROVE marked
BY DEF PoolInv, Serving

\* A step of acquiring or releasing an integer keeps the invariant.
LEMMA CallStep ==
  ASSUME PoolInv, NEW c \in Clients, PoolCall(c)
  PROVE  PoolInv'
<1> USE IntegerPoolAssumption DEF PoolInv, PoolTypeOK, UniqueHolders, Holds, starting, clients, To, Keeps
<1>1. CASE AcquireRandom(c)
  BY <1>1, ActiveMarked DEF AcquireRandom, ClientPC
<1>2. CASE Select(c)
  <2>1. marked
    BY <1>2, ActiveMarked DEF Select
  <2>2. attempts' \in [Clients -> Nat]
    BY <1>2 DEF Select
  <2>3. CASE \E v \in pool : Keeps(c, v) /\ To(c, "delete")
    <3>1. PICK v \in pool : value' = [value EXCEPT ![c] = v] /\ pc' = [pc EXCEPT ![c] = "delete"]
      BY <2>3
    <3>2. v \in Integers /\ v \in Nat
      BY <3>1 DEF Integers
    <3> QED BY <1>2, <2>1, <2>2, <3>1, <3>2 DEF Select, ClientPC
  <2>4. CASE To(c, "count") /\ UNCHANGED value
    BY <1>2, <2>1, <2>2, <2>4 DEF Select, ClientPC
  <2> QED BY <1>2, <2>3, <2>4 DEF Select
<1>3. CASE Delete(c)
  BY <1>3, ActiveMarked DEF Delete, Deletable, Without, ClientPC
<1>4. CASE Count(c)
  BY <1>4, ActiveMarked DEF Count, MayRetry, ClientPC
<1>5. CASE GiveUp(c)
  BY <1>5, ActiveMarked DEF GiveUp, ClientPC
<1>6. ASSUME NEW v \in Requested, AcquireUnique(c, v) PROVE PoolInv'
  <2>1. marked
    BY <1>6, ActiveMarked DEF AcquireUnique
  <2>2. CASE InRange(v) /\ Deletable(v)
    <3>1. v \in Integers /\ v \in Nat /\ v \in pool
      BY <2>2 DEF InRange, Deletable, Integers
    <3>2. /\ pool' = pool \ {v} /\ pc' = [pc EXCEPT ![c] = "holds"] /\ value' = [value EXCEPT ![c] = v]
          /\ pc[c] = "idle" /\ UNCHANGED <<marked, init, crashes, attempts>>
      BY <1>6, <2>2 DEF AcquireUnique, Without
    <3>3. UniqueHolders'
      BY <3>1, <3>2
    <3>4. PoolTypeOK'
      BY <3>1, <3>2 DEF ClientPC
    <3> QED BY <2>1, <3>1, <3>2, <3>3, <3>4
  <2>3. CASE ~(InRange(v) /\ Deletable(v))
    BY <1>6, <2>1, <2>3 DEF AcquireUnique, ClientPC
  <2> QED BY <2>2, <2>3
<1>7. CASE Release(c)
  BY <1>7, ActiveMarked DEF Release, Returned, ClientPC
<1> QED BY <1>1, <1>2, <1>3, <1>4, <1>5, <1>6, <1>7 DEF PoolCall

\* The invariant holds in every reachable state.
THEOREM PoolInvariant ==
  ASSUME "oneInit" \in PoolAssumed
  PROVE  PoolSpec => []PoolInv
<1>1. PoolInit => PoolInv
  <2> SUFFICES ASSUME PoolInit PROVE PoolInv
    OBVIOUS
  <2>1. PoolTypeOK
    BY DEF PoolInit, PoolTypeOK, InitPC, ClientPC
  <2>2. UniqueHolders /\ \A c \in Clients : pc[c] = "idle"
    BY DEF PoolInit, UniqueHolders, Holds
  <2> QED BY <2>1, <2>2 DEF PoolInit, PoolInv
<1>2. PoolInv /\ [PoolNext]_poolVars => PoolInv'
  <2> SUFFICES ASSUME PoolInv, [PoolNext]_poolVars PROVE PoolInv'
    OBVIOUS
  <2>1. CASE UNCHANGED poolVars
    BY <2>1 DEF poolVars, PoolInv, PoolTypeOK, UniqueHolders, Holds
  <2> QED BY <2>1, InitStep, CallStep DEF PoolNext
<1> QED BY <1>1, <1>2, PTL DEF PoolSpec

\* An integer has one holder and no row in the pool.
THEOREM HoldersUnique ==
  ASSUME "oneInit" \in PoolAssumed
  PROVE  PoolSpec => []UniqueHolders
<1>1. PoolInv => UniqueHolders
  BY DEF PoolInv
<1> QED BY <1>1, PoolInvariant, PTL

----------------------------------------------------------------------------
\* No gaps: a pool that is filled but not yet marked is complete, and from then on an
\* integer leaves the pool only into the hands of a client.

Filled == \A r \in Replicas : init[r] = "mark" => pool = Integers

\* A step of initIntegerPool fills the pool before it sets the marker.
LEMMA InitFills ==
  ASSUME "oneInit" \in PoolAssumed, PoolInv, Filled, NoGaps, NEW r \in Replicas,
         Initialization(r) \/ Crash(r)
  PROVE  (Filled /\ NoGaps)'
<1> USE DEF PoolInv, PoolTypeOK, Filled, NoGaps, Held, Holds, clients, InitTo
<1>1. CASE InitRead(r)
  BY <1>1 DEF InitRead
<1>2. CASE InitInsert(r)
  BY <1>2 DEF InitInsert
<1>3. CASE InitMark(r)
  <2>1. pool = Integers /\ pool' = pool
    BY <1>3 DEF InitMark
  <2>2. \A c \in Clients : ~Holds(c)'
    BY <1>3 DEF InitMark
  <2> QED BY <1>3, <2>1, <2>2 DEF InitMark
<1>4. CASE Restart(r)
  BY <1>4 DEF Restart
<1>5. CASE Crash(r)
  BY <1>5 DEF Crash
<1> QED BY <1>1, <1>2, <1>3, <1>4, <1>5 DEF Initialization

\* While a client acts no replica is at the marker, as the marker is set.
LEMMA CallFills ==
  ASSUME PoolInv, NoGaps, NEW c \in Clients, PoolCall(c)
  PROVE  (Filled /\ NoGaps)'
<1>1. marked /\ marked' = marked /\ init' = init
  BY ActiveMarked DEF PoolCall, AcquireRandom, Select, Delete, Count, GiveUp, AcquireUnique, Release, starting
<1>2. Filled'
  BY <1>1 DEF PoolInv, Filled
<1> SUFFICES ASSUME NEW i \in Integers PROVE i \in pool' \/ \E d \in Clients : Holds(d)' /\ value'[d] = i
  <2>1. pool' \cup Held' \subseteq Integers
    BY CallStep DEF PoolInv, PoolTypeOK, Held, Holds
  <2>2. Held' = {value'[d] : d \in {e \in Clients : Holds(e)'}}
    BY DEF Held, Holds
  <2> QED BY <1>2, <2>1, <2>2 DEF NoGaps
<1> USE DEF PoolInv, PoolTypeOK, Holds, To, Keeps
<1>3. i \in pool \/ \E d \in Clients : Holds(d) /\ value[d] = i
  BY <1>1 DEF NoGaps, Held
<1>4. CASE AcquireRandom(c) \/ Select(c) \/ Count(c) \/ GiveUp(c)
  BY <1>3, <1>4 DEF AcquireRandom, Select, Count, GiveUp
<1>5. CASE Delete(c)
  <2>1. CASE value[c] \in pool
    BY <1>3, <1>5, <2>1 DEF Delete, Deletable, Without
  <2>2. CASE value[c] \notin pool
    BY <1>3, <1>5, <2>2 DEF Delete, Deletable
  <2> QED BY <2>1, <2>2
<1>6. ASSUME NEW v \in Requested, AcquireUnique(c, v)
      PROVE  i \in pool' \/ \E d \in Clients : Holds(d)' /\ value'[d] = i
  BY <1>3, <1>6 DEF AcquireUnique, Without
<1>7. CASE Release(c)
  BY <1>3, <1>7 DEF Release, Returned
<1> QED BY <1>4, <1>5, <1>6, <1>7 DEF PoolCall

\* Every integer of the range is in the pool or with one client, once the pool was filled.
THEOREM PoolKept ==
  ASSUME "oneInit" \in PoolAssumed
  PROVE  PoolSpec => []PoolSafe
<1>1. PoolInit => Filled /\ NoGaps
  BY DEF PoolInit, Filled, NoGaps
<1>2. PoolInv /\ Filled /\ NoGaps /\ [PoolNext]_poolVars => (Filled /\ NoGaps)'
  <2> SUFFICES ASSUME PoolInv, Filled, NoGaps, [PoolNext]_poolVars PROVE (Filled /\ NoGaps)'
    OBVIOUS
  <2>1. CASE UNCHANGED poolVars
    BY <2>1 DEF poolVars, Filled, NoGaps, Held, Holds
  <2> QED BY <2>1, InitFills, CallFills DEF PoolNext
<1>3. PoolInv /\ NoGaps => PoolSafe
  BY DEF PoolSafe
<1> QED BY <1>1, <1>2, <1>3, PoolInvariant, PTL DEF PoolSpec

----------------------------------------------------------------------------
\* Acquiring an integer grants it, whether at random or by value.
LEMMA GrantStep ==
  ASSUME PoolInv, NEW c \in Clients, NEW v \in Integers, v \in pool, ~Holds(c),
         pc' = [pc EXCEPT ![c] = "holds"], value' = [value EXCEPT ![c] = v] \/ (value[c] = v /\ value' = value)
  PROVE  PoolLease!Grant(c, v)
<1> USE DEF PoolInv, PoolTypeOK, UniqueHolders, Holds
<1>1. poolHolders[v] = {}
  BY DEF poolHolders
<1>2. poolHolders' = [poolHolders EXCEPT ![v] = {c}]
  <2> SUFFICES ASSUME NEW w \in Integers
               PROVE {d \in Clients : Holds(d)' /\ value'[d] = w}
                       = IF w = v THEN {c} ELSE {d \in Clients : Holds(d) /\ value[d] = w}
    BY DEF poolHolders
  <2> QED OBVIOUS
<1> QED BY <1>1, <1>2 DEF PoolLease!Grant

\* Releasing an integer gives it back.
LEMMA GiveBackStep ==
  ASSUME PoolInv, NEW c \in Clients, NEW v \in Integers, Holds(c), value[c] = v,
         pc' = [pc EXCEPT ![c] = "idle"], value' = [value EXCEPT ![c] = None]
  PROVE  PoolLease!GiveBack(c, v)
<1>1. c \in poolHolders[v]
  BY DEF poolHolders
<1>2. poolHolders' = [w \in Integers |-> IF w = v THEN poolHolders[v] \ {c} ELSE poolHolders[w]]
  <2> SUFFICES ASSUME NEW w \in Integers
               PROVE {d \in Clients : Holds(d)' /\ value'[d] = w}
                       = IF w = v THEN {d \in Clients : Holds(d) /\ value[d] = v} \ {c}
                                  ELSE {d \in Clients : Holds(d) /\ value[d] = w}
    BY DEF poolHolders
  <2> QED BY DEF PoolInv, PoolTypeOK, Holds
<1>3. poolHolders \in [Integers -> SUBSET Clients]
  BY DEF poolHolders
<1>4. [poolHolders EXCEPT ![v] = @ \ {c}] = [w \in Integers |-> IF w = v THEN poolHolders[v] \ {c} ELSE poolHolders[w]]
  BY <1>3
<1> QED BY <1>1, <1>2, <1>4 DEF PoolLease!GiveBack

\* A step of a client that neither acquires nor releases changes no holder.
LEMMA SameHolders ==
  ASSUME \A d \in Clients : /\ Holds(d)' <=> Holds(d)
                            /\ Holds(d) => value'[d] = value[d]
  PROVE  poolHolders' = poolHolders
<1>1. \A w \in Integers : {d \in Clients : Holds(d)' /\ value'[d] = w} = {d \in Clients : Holds(d) /\ value[d] = w}
  OBVIOUS
<1> QED BY <1>1 DEF poolHolders

\* Every step of the pool is a step of the lease or leaves it as it is.
LEMMA PoolLeaseStep ==
  ASSUME PoolInv, [PoolNext]_poolVars
  PROVE  [PoolLease!Next]_poolHolders
<1> USE DEF PoolInv, PoolTypeOK, starting, clients, To, Keeps
<1>1. ASSUME NEW r \in Replicas, Initialization(r) \/ Crash(r) PROVE poolHolders' = poolHolders
  BY <1>1 DEF Initialization, InitRead, InitInsert, InitMark, Restart, Crash, poolHolders, Holds
<1>2. ASSUME NEW c \in Clients, PoolCall(c) PROVE [PoolLease!Next]_poolHolders
  <2>1. CASE AcquireRandom(c)
    BY <2>1, SameHolders DEF AcquireRandom, Holds
  <2>2. CASE Select(c)
    BY <2>2, SameHolders DEF Select, Holds
  <2>3. CASE Delete(c) /\ value[c] \in pool
    BY <2>3, GrantStep DEF Delete, Deletable, Holds, PoolLease!Next
  <2>4. CASE Delete(c) /\ value[c] \notin pool
    BY <2>4, SameHolders DEF Delete, Deletable, Holds
  <2>5. CASE Count(c)
    BY <2>5, SameHolders DEF Count, Holds
  <2>6. CASE GiveUp(c)
    BY <2>6, SameHolders DEF GiveUp, Holds
  <2>7. ASSUME NEW v \in Requested, AcquireUnique(c, v) PROVE [PoolLease!Next]_poolHolders
    <3>1. CASE InRange(v) /\ v \in pool
      <4>1. v \in Integers
        BY <3>1
      <4> QED BY <2>7, <3>1, <4>1, GrantStep DEF AcquireUnique, Deletable, Holds, PoolLease!Next
    <3>2. CASE ~(InRange(v) /\ v \in pool)
      BY <2>7, <3>2, SameHolders DEF AcquireUnique, Deletable, Holds
    <3> QED BY <3>1, <3>2
  <2>8. CASE Release(c)
    <3>1. Holds(c) /\ value[c] \in Integers
      BY <2>8 DEF Release, Holds
    <3>2. pc' = [pc EXCEPT ![c] = "idle"] /\ value' = [value EXCEPT ![c] = None]
      BY <2>8 DEF Release
    <3> QED BY <3>1, <3>2, GiveBackStep DEF PoolLease!Next
  <2> QED BY <1>2, <2>1, <2>2, <2>3, <2>4, <2>5, <2>6, <2>7, <2>8 DEF PoolCall
<1>3. CASE UNCHANGED poolVars
  BY <1>3, SameHolders DEF poolVars, Holds
<1> QED BY <1>1, <1>2, <1>3 DEF PoolNext

\* The pool implements the abstract lease.
THEOREM PoolLeaseImplemented ==
  ASSUME "oneInit" \in PoolAssumed
  PROVE  PoolSpec => PoolImplementsLease
<1>1. PoolInit => PoolLease!Init
  BY DEF PoolInit, PoolLease!Init, poolHolders, Holds
<1>2. PoolInv /\ [PoolNext]_poolVars => [PoolLease!Next]_poolHolders
  BY PoolLeaseStep
<1> QED BY <1>1, <1>2, PoolInvariant, PTL DEF PoolSpec, PoolImplementsLease, PoolLease!Spec

----------------------------------------------------------------------------
(* The lock of a machine.                                                  *)

HandlerState == [op: Operations \cup {"none"},
                 at: {"read", "look", "write", "announce", "publish", "publishLED"},
                 read: MachineRow, current: BOOLEAN, to: MStates \cup LEDs,
                 number: 0 .. MaxHandled, looked: Box]
ReportState == [at: {"none", "read", "write"}, led: LEDs, read: MachineRow, current: BOOLEAN]

RowsTyped ==
    /\ machine \in MachineRow /\ box \in Box /\ led \in LEDs /\ handled \in 0 .. MaxHandled
    /\ handler \in [Handlers -> HandlerState]
    /\ report \in ReportState

\* A copy that may still be written is the row.
RowCopiesCurrent ==
    /\ \A h \in Handlers : handler[h].current => handler[h].read = machine
    /\ report.current => report.read = machine

\* What a handler found in its copy before it came to its write.
FreeUnlocked(s) == s.op \in {"free", "resurrect"} /\ s.at = "write" => s.read.state # "locked"
CommitUnowned(s) == s.op \in {"byName", "elected"} /\ s.at = "write" => s.read.owner = 0
ToFits(s) == (s.op = "state" => s.to \in MStates) /\ (s.op = "led" => s.to \in LEDs)
Sound(s) == s \in HandlerState /\ FreeUnlocked(s) /\ CommitUnowned(s) /\ ToFits(s)
Checked == \A h \in Handlers : Sound(handler[h])

LockInv == RowsTyped /\ RowCopiesCurrent /\ Checked

----------------------------------------------------------------------------
LEMMA IdleTyped ==
  /\ FirstOwner \in Nat /\ NoMachine \in MachineRow /\ NewBox \in Box
  /\ Idle \in HandlerState /\ ~Idle.current /\ Idle.op = "none"
  /\ [at |-> "none", led |-> "off", read |-> NoMachine, current |-> FALSE] \in ReportState
<1>1. FirstOwner \in Nat /\ NoMachine \in MachineRow /\ NewBox \in Box
  BY LifecycleAssumption DEF FirstOwner, NoMachine, MachineRow, NewBox, Box, MStates, LEDs, Livelinesses
<1>2. Idle \in HandlerState /\ ~Idle.current /\ Idle.op = "none"
  BY <1>1, LifecycleAssumption DEF Idle, HandlerState, LEDs
<1>3. [at |-> "none", led |-> "off", read |-> NoMachine, current |-> FALSE] \in ReportState
  BY <1>1 DEF ReportState, LEDs
<1> QED BY <1>1, <1>2, <1>3

LEMMA BoxTyped ==
  ASSUME NEW b \in Box
  PROVE  /\ [b EXCEPT !.liveliness = "Dead", !.silent = 2] \in Box
         /\ [b EXCEPT !.there = TRUE, !.liveliness = "Alive", !.silent = 0] \in Box
<1> DEFINE Silence == 0 .. 2
<1>1. 0 \in Silence /\ 2 \in Silence
  OBVIOUS
<1>2. Box = [there: BOOLEAN, liveliness: Livelinesses, silent: Silence, failedReclaim: BOOLEAN]
  BY DEF Box
<1>3. "Dead" \in Livelinesses /\ "Alive" \in Livelinesses
  BY DEF Livelinesses
<1> HIDE DEF Silence
<1> QED BY <1>1, <1>2, <1>3

LEMMA OvertakenSound ==
  ASSUME NEW s, Sound(s)
  PROVE  Sound(Overtaken(s)) /\ ~Overtaken(s).current
  BY DEF HandlerState, Overtaken, Sound, FreeUnlocked, CommitUnowned, ToFits

LEMMA IdleSound == Sound(Idle) /\ ~Idle.current
  BY IdleTyped DEF Sound, FreeUnlocked, CommitUnowned, ToFits

----------------------------------------------------------------------------
\* The three ways in which a handler moves: the row is written, the handler goes
\* on or ends, or nothing of the rows and copies changes.

\* A handler goes on with a state that is sound.
LEMMA ProceedKeeps ==
  ASSUME LockInv, NEW h \in Handlers, NEW s, Sound(s), s.current => s.read = machine,
         Proceed(h, s), box' \in Box, led' \in LEDs, handled' \in 0 .. MaxHandled
  PROVE  LockInv'
  BY DEF LockInv, RowsTyped, RowCopiesCurrent, Checked, Proceed, Sound

LEMMA EndKeeps ==
  ASSUME LockInv, NEW h \in Handlers, End(h), box' \in Box, led' \in LEDs, handled' \in 0 .. MaxHandled
  PROVE  LockInv'
  BY IdleSound, ProceedKeeps DEF End

LEMMA WriteKeeps ==
  ASSUME LockInv, NEW h \in Handlers, NEW r \in MachineRow, NEW s, Sound(s), WriteAnd(h, r, s),
         box' \in Box, led' \in LEDs, handled' \in 0 .. MaxHandled
  PROVE  LockInv'
<1>1. report' \in ReportState /\ ~report'.current
  BY DEF WriteAnd, Replaced, LockInv, RowsTyped, ReportState
<1>2. \A g \in Handlers : Sound(handler[g])
  BY DEF LockInv, Checked
<1>3. \A g \in Handlers : Sound(handler'[g]) /\ ~handler'[g].current
  BY <1>2, OvertakenSound DEF WriteAnd
<1>4. handler' \in [Handlers -> HandlerState]
  BY <1>3 DEF WriteAnd, Sound
<1> QED BY <1>1, <1>3, <1>4 DEF LockInv, RowsTyped, RowCopiesCurrent, Checked, Sound, WriteAnd, Replaced

LEMMA WriteOrEndKeeps ==
  ASSUME LockInv, NEW h \in Handlers, NEW r \in MachineRow, NEW s, Sound(s), WriteOrEnd(h, r, s),
         box' \in Box, led' \in LEDs, handled' \in 0 .. MaxHandled
  PROVE  LockInv'
  BY WriteKeeps, EndKeeps DEF WriteOrEnd

\* Somebody else writes the row: the machine, or a report.
LEMMA ForeignWriteKeeps ==
  ASSUME LockInv, machine' \in MachineRow, report' \in ReportState, ~report'.current,
         handler' = [g \in Handlers |-> Overtaken(handler[g])],
         box' \in Box, led' \in LEDs, handled' \in 0 .. MaxHandled
  PROVE  LockInv'
<1>1. \A g \in Handlers : Sound(handler[g])
  BY DEF LockInv, Checked
<1>2. \A g \in Handlers : Sound(handler'[g]) /\ ~handler'[g].current
  BY <1>1, OvertakenSound
<1>3. handler' \in [Handlers -> HandlerState]
  BY <1>2 DEF Sound
<1> QED BY <1>2, <1>3 DEF LockInv, RowsTyped, RowCopiesCurrent, Checked, Sound

----------------------------------------------------------------------------
\* The actions

LEMMA LockInit == LifecycleInit => LockInv
<1> SUFFICES ASSUME LifecycleInit PROVE LockInv
  OBVIOUS
<1>1. machine \in MachineRow
  <2>1. PICK o \in {0, FirstOwner}, c \in BOOLEAN :
            machine = [NoMachine EXCEPT !.there = TRUE, !.credentials = c, !.owner = o]
    BY DEF LifecycleInit
  <2>2. o \in 0 .. FirstOwner
    BY LifecycleAssumption DEF FirstOwner
  <2> QED BY <2>1, <2>2, IdleTyped DEF MachineRow
<1>2. box \in Box
  <2>1. box = NewBox \/ box = [NewBox EXCEPT !.liveliness = "Dead", !.silent = 2]
    BY DEF LifecycleInit
  <2>2. [NewBox EXCEPT !.liveliness = "Dead", !.silent = 2] \in Box
    BY BoxTyped, IdleTyped, Zenon
  <2> QED BY <2>1, <2>2, IdleTyped
<1>3. handler \in [Handlers -> HandlerState] /\ \A h \in Handlers : handler[h] = Idle
  BY IdleTyped DEF LifecycleInit
<1>4. report \in ReportState /\ ~report.current
  BY IdleTyped DEF LifecycleInit
<1>5. led \in LEDs /\ handled \in 0 .. MaxHandled
  BY LifecycleAssumption DEF LifecycleInit, LEDs
<1> QED BY <1>1, <1>2, <1>3, <1>4, <1>5, IdleSound DEF LockInv, RowsTyped, RowCopiesCurrent, Checked, Sound

\* A call comes in.
LEMMA ReceiveKeeps ==
  ASSUME LockInv, NEW h \in Handlers, NEW op \in Operations, NEW to \in MStates \cup LEDs,
         op = "state" => to \in MStates, op = "led" => to \in LEDs, Receive(h, op, to)
  PROVE  LockInv'
<1> DEFINE s == [Idle EXCEPT !.op = op, !.to = to, !.number = handled + 1]
<1>1. handled' \in 0 .. MaxHandled /\ handled + 1 \in 0 .. MaxHandled
  BY LifecycleAssumption DEF Receive, LockInv, RowsTyped
<1>2. s \in HandlerState /\ s.op = op /\ s.to = to /\ s.at = "read" /\ ~s.current
  BY <1>1, IdleTyped DEF HandlerState, Idle
<1>3. Sound(s)
  BY <1>2 DEF Sound, FreeUnlocked, CommitUnowned, ToFits
<1>4. Proceed(h, s)
  BY DEF Receive, Proceed
<1> HIDE DEF s
<1> QED BY <1>1, <1>2, <1>3, <1>4, ProceedKeeps DEF Receive, LockInv, RowsTyped

LEMMA CallKeeps == ASSUME LockInv, NEW h \in Handlers, Call(h) PROVE LockInv'
  BY ReceiveKeeps DEF Call, Operations, LEDs

LEMMA ReadKeeps == ASSUME LockInv, NEW h \in Handlers, Read(h) PROVE LockInv'
<1> DEFINE op == handler[h].op
           seen == IF op = "resurrect" THEN box ELSE handler[h].looked
           s == [handler[h] EXCEPT !.at = After(op), !.read = machine, !.current = TRUE, !.looked = seen]
<1>0. box' \in Box /\ led' \in LEDs /\ handled' \in 0 .. MaxHandled
  BY DEF Read, LockInv, RowsTyped
<1>1. CASE Accepts(op)
  <2>1. handler[h] \in HandlerState /\ machine \in MachineRow /\ seen \in Box
    BY DEF LockInv, RowsTyped, HandlerState
  <2>2. After(op) \in {"look", "publishLED", "write"} /\ (op \in {"free", "resurrect"} => After(op) # "write")
    BY DEF After
  <2>3. op \in {"byName", "elected"} => machine.owner = 0
    BY <1>1 DEF Accepts
  <2>4. s \in HandlerState /\ s.read = machine /\ s.op = op /\ s.at = After(op) /\ s.to = handler[h].to
    BY <2>1, <2>2 DEF HandlerState
  <2>5. Sound(s)
    BY <2>2, <2>3, <2>4 DEF LockInv, Checked, Sound, FreeUnlocked, CommitUnowned, ToFits
  <2>6. Proceed(h, s)
    BY <1>1 DEF Read
  <2> HIDE DEF s
  <2> QED BY <1>0, <2>4, <2>5, <2>6, ProceedKeeps
<1>2. CASE ~Accepts(op)
  <2>1. End(h)
    BY <1>2 DEF Read
  <2> QED BY <1>0, <2>1, EndKeeps
<1> QED BY <1>1, <1>2

\* The row that a handler writes, and the state in which it goes on.
LEMMA WrittenTyped ==
  ASSUME LockInv, NEW h \in Handlers
  PROVE  /\ handler[h].op = "state" => [handler[h].read EXCEPT !.state = handler[h].to] \in MachineRow
         /\ handler[h].op = "led" => [handler[h].read EXCEPT !.led = handler[h].to] \in MachineRow
         /\ [handler[h].read EXCEPT !.owner = 0] \in MachineRow
         /\ [handler[h].read EXCEPT !.owner = handler[h].number, !.waiting = FALSE] \in MachineRow
         /\ [handler[h].read EXCEPT !.credentials = TRUE] \in MachineRow
<1>1. handler[h].read \in MachineRow /\ handler[h].number \in 0 .. FirstOwner
  BY LifecycleAssumption DEF LockInv, RowsTyped, HandlerState, FirstOwner
<1>2. ToFits(handler[h])
  BY DEF LockInv, Checked, Sound
<1>3. 0 \in 0 .. FirstOwner
  BY LifecycleAssumption DEF FirstOwner
<1>4. handler[h].op = "state" => handler[h].to \in MStates
  BY <1>2 DEF ToFits
<1>5. handler[h].op = "led" => handler[h].to \in LEDs
  BY <1>2 DEF ToFits
<1>6. \A r \in MachineRow, o \in 0 .. FirstOwner, s \in MStates, l \in LEDs :
         /\ [r EXCEPT !.state = s] \in MachineRow /\ [r EXCEPT !.led = l] \in MachineRow
         /\ [r EXCEPT !.owner = o] \in MachineRow /\ [r EXCEPT !.owner = o, !.waiting = FALSE] \in MachineRow
         /\ [r EXCEPT !.credentials = TRUE] \in MachineRow
  BY DEF MachineRow
<1>7. handler[h].op = "state" => [handler[h].read EXCEPT !.state = handler[h].to] \in MachineRow
  BY <1>1, <1>3, <1>4, <1>6, Zenon DEF LEDs
<1>8. handler[h].op = "led" => [handler[h].read EXCEPT !.led = handler[h].to] \in MachineRow
  BY <1>1, <1>3, <1>5, <1>6, Zenon DEF MStates
<1>9. /\ [handler[h].read EXCEPT !.owner = 0] \in MachineRow
      /\ [handler[h].read EXCEPT !.owner = handler[h].number, !.waiting = FALSE] \in MachineRow
      /\ [handler[h].read EXCEPT !.credentials = TRUE] \in MachineRow
  BY <1>1, <1>3, <1>6, Zenon DEF MStates, LEDs
<1> QED BY <1>7, <1>8, <1>9

LEMMA MovedSound ==
  ASSUME LockInv, NEW h \in Handlers,
         NEW at \in {"read", "look", "announce", "publish", "publishLED"}
  PROVE  LET s == [handler[h] EXCEPT !.at = at] IN Sound(s) /\ (s.current => s.read = machine)
<1>1. Sound(handler[h]) /\ (handler[h].current => handler[h].read = machine)
  BY DEF LockInv, Checked, RowCopiesCurrent
<1> QED BY <1>1 DEF HandlerState, Sound, FreeUnlocked, CommitUnowned, ToFits

\* The handler of a deletion or a resurrection that goes on to its last step.
LEMMA DecidedSound ==
  ASSUME LockInv, NEW h \in Handlers, NEW op \in {"delete", "free", "resurrect"}, handler[h].op = op,
         op = "delete" \/ ~Locked(handler[h].read)
  PROVE  LET s == [handler[h] EXCEPT !.at = "write"] IN Sound(s) /\ (s.current => s.read = machine)
<1>1. Sound(handler[h]) /\ (handler[h].current => handler[h].read = machine)
  BY DEF LockInv, Checked, RowCopiesCurrent
<1> QED BY <1>1 DEF HandlerState, Sound, FreeUnlocked, CommitUnowned, ToFits, Locked

LEMMA StepKeeps == ASSUME LockInv, NEW h \in Handlers, Step(h) PROVE LockInv'
<1>1. CASE Read(h)
  BY <1>1, ReadKeeps
<1>2. CASE SetMachineState(h)
  BY <1>2, WrittenTyped, IdleSound, WriteOrEndKeeps DEF SetMachineState, Handling, LockInv, RowsTyped
<1>3. CASE Commit(h)
  BY <1>3, WrittenTyped, IdleSound, WriteOrEndKeeps DEF Commit, LockInv, RowsTyped
<1>4. CASE Register(h)
  <2>1. box' \in Box /\ led' \in LEDs /\ handled' \in 0 .. MaxHandled
    BY <1>4, IdleTyped DEF Register, LockInv, RowsTyped
  <2>2. [NoMachine EXCEPT !.there = TRUE, !.credentials = TRUE] \in MachineRow
    BY IdleTyped DEF MachineRow
  <2>3. \/ WriteAnd(h, [NoMachine EXCEPT !.there = TRUE, !.credentials = TRUE], Idle)
        \/ WriteAnd(h, [handler[h].read EXCEPT !.credentials = TRUE], Idle)
        \/ End(h)
    BY <1>4 DEF Register
  <2> QED BY <2>1, <2>2, <2>3, WrittenTyped, IdleSound, WriteKeeps, EndKeeps
<1>5. CASE SwitchLED(h)
  <2>1. Sound([handler[h] EXCEPT !.at = "publish"])
    BY MovedSound
  <2> QED BY <1>5, <2>1, WrittenTyped, WriteOrEndKeeps DEF SwitchLED, Handling, LockInv, RowsTyped
<1>6. CASE PublishLED(h)
  BY <1>6, EndKeeps DEF PublishLED, LockInv, RowsTyped
<1>7. CASE FreeLEDOff(h)
  <2>1. Proceed(h, [handler[h] EXCEPT !.at = "publish"])
    BY <1>7 DEF FreeLEDOff
  <2> QED BY <1>7, <2>1, MovedSound, ProceedKeeps DEF FreeLEDOff, LockInv, RowsTyped
<1>8. CASE PublishDelete(h)
  <2>1. CASE End(h)
    BY <1>8, <2>1, EndKeeps DEF PublishDelete, LockInv, RowsTyped
  <2>2. CASE ~Locked(handler[h].read) /\ Proceed(h, [handler[h] EXCEPT !.at = "write"])
    BY <1>8, <2>2, DecidedSound, ProceedKeeps DEF PublishDelete, LockInv, RowsTyped
  <2> QED BY <1>8, <2>1, <2>2 DEF PublishDelete
<1>9. CASE FreeUpdate(h)
  <2>1. Sound([handler[h] EXCEPT !.at = "announce"])
    BY MovedSound
  <2> QED BY <1>9, <2>1, WrittenTyped, IdleSound, WriteOrEndKeeps DEF FreeUpdate, LockInv, RowsTyped
<1>10. CASE FreeAnnounce(h)
  <2>1. box' \in Box
    <3>1. box \in Box /\ box' = [box EXCEPT !.there = TRUE, !.liveliness = "Alive", !.silent = 0]
      BY <1>10 DEF FreeAnnounce, LockInv, RowsTyped
    <3> QED BY <3>1, BoxTyped, Zenon
  <2> QED BY <1>10, <2>1, EndKeeps DEF FreeAnnounce, LockInv, RowsTyped
<1>11. CASE ResurrectLook(h)
  <2>1. End(h) \/ Proceed(h, [handler[h] EXCEPT !.at = "publish"])
    BY <1>11 DEF ResurrectLook
  <2> QED BY <1>11, <2>1, MovedSound, ProceedKeeps, EndKeeps DEF ResurrectLook, LockInv, RowsTyped
<1>12. CASE DeleteLook(h)
  <2>1. End(h) \/ (handler[h].op = "delete" /\ Proceed(h, [handler[h] EXCEPT !.at = "write"]))
    BY <1>12 DEF DeleteLook, Handling
  <2> QED BY <1>12, <2>1, DecidedSound, ProceedKeeps, EndKeeps DEF DeleteLook, LockInv, RowsTyped
<1>13. CASE RemoveRow(h)
  BY <1>13, IdleTyped, IdleSound, WriteKeeps DEF RemoveRow, LockInv, RowsTyped
<1>14. CASE Evaluate(h)
  <2>1. box' \in Box
    BY <1>14 DEF Evaluate, Judged, LockInv, RowsTyped, Box, Livelinesses
  <2> QED BY <1>14, <2>1, EndKeeps DEF Evaluate, LockInv, RowsTyped
<1> QED BY <1>1, <1>2, <1>3, <1>4, <1>5, <1>6, <1>7, <1>8, <1>9, <1>10, <1>11, <1>12, <1>13, <1>14 DEF Step

LEMMA ReportKeeps == ASSUME LockInv, TakeReport \/ ListMachines \/ WriteReport PROVE LockInv'
<1>1. CASE TakeReport
  BY <1>1 DEF TakeReport, LockInv, RowsTyped, RowCopiesCurrent, Checked, ReportState
<1>2. CASE ListMachines
  BY <1>2 DEF ListMachines, LockInv, RowsTyped, RowCopiesCurrent, Checked, ReportState
<1>3. CASE WriteReport
  <2>1. report' \in ReportState /\ ~report'.current
    BY <1>3, IdleTyped DEF WriteReport, Reported
  <2>2. report.read \in MachineRow /\ report.led \in LEDs
    BY DEF LockInv, RowsTyped, ReportState
  <2>3. WithReport(report.read) \in MachineRow /\ [NoMachine EXCEPT !.there = TRUE, !.led = report.led] \in MachineRow
    BY <2>2, IdleTyped DEF WithReport, MachineRow
  <2>4. \/ UNCHANGED <<machine, handler>>
        \/ machine' \in MachineRow /\ handler' = [g \in Handlers |-> Overtaken(handler[g])]
    BY <1>3, <2>3 DEF WriteReport
  <2>5. CASE UNCHANGED <<machine, handler>>
    BY <1>3, <2>1, <2>5 DEF WriteReport, LockInv, RowsTyped, RowCopiesCurrent, Checked
  <2>6. CASE machine' \in MachineRow /\ handler' = [g \in Handlers |-> Overtaken(handler[g])]
    BY <1>3, <2>1, <2>6, ForeignWriteKeeps DEF WriteReport, LockInv, RowsTyped
  <2> QED BY <2>4, <2>5, <2>6
<1> QED BY <1>1, <1>2, <1>3

LEMMA EnvironmentKeeps == ASSUME LockInv, Deliver \/ Boots \/ PhonesHome \/ Tick PROVE LockInv'
<1>1. CASE Deliver
  BY <1>1 DEF Deliver, LockInv, RowsTyped, RowCopiesCurrent, Checked
<1>2. CASE PhonesHome
  <2>1. box' \in Box
    BY <1>2, IdleTyped DEF PhonesHome, Box
  <2> QED BY <1>2, <2>1 DEF PhonesHome, LockInv, RowsTyped, RowCopiesCurrent, Checked
<1>3. ASSUME Boots \/ Tick PROVE LockInv'
  <2>1. box' \in Box
    BY <1>3, IdleTyped DEF Boots, Tick, LockInv, RowsTyped, Box
  <2>2. \/ UNCHANGED <<machine, report, handler>>
        \/ /\ machine' \in MachineRow /\ report' = [report EXCEPT !.current = FALSE]
           /\ handler' = [g \in Handlers |-> Overtaken(handler[g])]
    BY <1>3 DEF Boots, Tick, Replaced, LockInv, RowsTyped, MachineRow
  <2>3. CASE UNCHANGED <<machine, report, handler>>
    BY <1>3, <2>1, <2>3 DEF Boots, Tick, LockInv, RowsTyped, RowCopiesCurrent, Checked
  <2>4. CASE /\ machine' \in MachineRow /\ report' = [report EXCEPT !.current = FALSE]
             /\ handler' = [g \in Handlers |-> Overtaken(handler[g])]
    <3>1. report' \in ReportState /\ ~report'.current
      BY <2>4 DEF LockInv, RowsTyped, ReportState
    <3> QED BY <1>3, <2>1, <2>4, <3>1, ForeignWriteKeeps DEF Boots, Tick, LockInv, RowsTyped
  <2> QED BY <2>2, <2>3, <2>4
<1> QED BY <1>1, <1>2, <1>3

LEMMA LockStep == LockInv /\ [LifecycleNext]_lifecycleVars => LockInv'
<1> SUFFICES ASSUME LockInv, [LifecycleNext]_lifecycleVars PROVE LockInv'
  OBVIOUS
<1>1. CASE UNCHANGED lifecycleVars
  BY <1>1 DEF lifecycleVars, LockInv, RowsTyped, RowCopiesCurrent, Checked
<1> QED BY <1>1, CallKeeps, StepKeeps, ReportKeeps, EnvironmentKeeps DEF LifecycleNext

\* Copies that may still be written are the row, and what a handler checked in its
\* copy is true of it (freeMachine, allocateMachine, updateEntity).
THEOREM LockInvariant == LifecycleSpec => []LockInv
  BY LockInit, LockStep, PTL DEF LifecycleSpec

----------------------------------------------------------------------------
\* Who may change the state of a machine, or the owner of a locked one.
LockStable ==
    machine.there /\ machine'.there =>
       /\ machine.state # machine'.state => \E h \in Handlers : SetMachineState(h)
       /\ machine.state = "locked" /\ machine.owner # 0 => machine'.owner = machine.owner

\* A handler that writes its row wrote a change of the present one.
LEMMA WriteStable ==
  ASSUME LockInv, NEW h \in Handlers, Step(h), machine' # machine, ~SetMachineState(h)
  PROVE  LockStable
<1>1. handler[h].current => handler[h].read = machine
  BY DEF LockInv, RowCopiesCurrent
<1>2. Sound(handler[h]) /\ machine \in MachineRow
  BY DEF LockInv, RowsTyped, Checked
<1>3. CASE Commit(h)
  BY <1>1, <1>2, <1>3 DEF Commit, WriteOrEnd, WriteAnd, Replaced, End, Proceed, Unwritten, LockStable, Sound, CommitUnowned, MachineRow
<1>4. CASE Register(h)
  BY <1>1, <1>2, <1>4 DEF Register, WriteAnd, Replaced, End, Proceed, Unwritten, LockStable, MachineRow
<1>5. CASE SwitchLED(h)
  BY <1>1, <1>2, <1>5 DEF SwitchLED, WriteOrEnd, WriteAnd, Replaced, End, Proceed, Unwritten, LockStable, MachineRow
<1>6. CASE FreeUpdate(h)
  BY <1>1, <1>2, <1>6 DEF FreeUpdate, WriteOrEnd, WriteAnd, Replaced, End, Proceed, Unwritten, LockStable, Sound, FreeUnlocked, MachineRow
<1>7. CASE RemoveRow(h)
  BY <1>7 DEF RemoveRow, WriteAnd, Replaced, LockStable, NoMachine
<1> QED BY <1>3, <1>4, <1>5, <1>6, <1>7
      DEF Step, Read, PublishLED, FreeLEDOff, PublishDelete, FreeAnnounce, ResurrectLook, DeleteLook, Evaluate, End, Proceed

LEMMA ForeignStable ==
  ASSUME LockInv, WriteReport \/ Boots \/ Tick
  PROVE  LockStable
<1>1. machine \in MachineRow /\ (report.current => report.read = machine)
  BY DEF LockInv, RowsTyped, RowCopiesCurrent
<1>2. CASE WriteReport
  BY <1>1, <1>2 DEF WriteReport, WithReport, Unwritten, LockStable, MachineRow
<1>3. CASE Boots \/ Tick
  BY <1>1, <1>3 DEF Boots, Tick, Replaced, LockStable, MachineRow
<1> QED BY <1>2, <1>3

\* A locked machine keeps its owner, and only setMachineState changes the lock
\* (setMachineState, freeMachine, ipmiReport, machineCmd, Register).
THEOREM LockHolds == LifecycleSpec => LockKept
<1>1. LockInv /\ [LifecycleNext]_lifecycleVars => LockStable
  <2> SUFFICES ASSUME LockInv, [LifecycleNext]_lifecycleVars PROVE LockStable
    OBVIOUS
  <2>1. CASE machine' = machine
    BY <2>1 DEF LockStable
  <2>2. ASSUME NEW h \in Handlers, Step(h), machine' # machine PROVE LockStable
    <3>1. CASE SetMachineState(h)
      <4>1. machine \in MachineRow /\ (handler[h].current => handler[h].read = machine)
        BY DEF LockInv, RowsTyped, RowCopiesCurrent
      <4> QED BY <3>1, <4>1 DEF SetMachineState, WriteOrEnd, WriteAnd, Replaced, End, Proceed, Unwritten, LockStable, MachineRow
    <3> QED BY <2>2, <3>1, WriteStable
  <2>3. CASE machine' # machine /\ ~\E h \in Handlers : Step(h)
    <3>1. WriteReport \/ Boots \/ Tick
      BY <2>3 DEF LifecycleNext, Call, Receive, TakeReport, ListMachines, Deliver, PhonesHome, lifecycleVars
    <3> QED BY <3>1, ForeignStable
  <2> QED BY <2>1, <2>2, <2>3
<1> QED BY <1>1, LockInvariant, PTL DEF LifecycleSpec, LockKept, LockStable

----------------------------------------------------------------------------
(* The names and the states of ports.                                      *)

----------------------------------------------------------------------------
\* Lines and what their numbers say

\* A lane is found again in its number: the port, and which of the four it is.
LEMMA LineOfLane ==
  ASSUME NEW p \in Nat \ {0}, NEW l \in 0 .. 3
  PROVE  /\ ((p - 1) * 4 + l) \div 4 + 1 = p
         /\ ((p - 1) * 4 + l) % 4 = l
         /\ (p - 1) * 4 + l \in Nat
  OBVIOUS

LEMMA LaneOfLine ==
  ASSUME NEW line \in Nat
  PROVE  /\ line \div 4 \in Nat /\ line % 4 \in 0 .. 3
         /\ line = ((line \div 4) * 4) + (line % 4)
  OBVIOUS

\* A name of Cumulus is a port, or a port and a lane.
LEMMA NameShape ==
  ASSUME NEW n \in Names
  PROVE  \E p \in Nat \ {0} : n = <<p>> \/ \E l \in 0 .. 3 : n = <<p, l>>
  BY PortNamesAssumption DEF Names, PortNumbers, Lanes

\* The line of a name, by its shape.
LEMMA LineOfName ==
  ASSUME NEW n \in Names
  PROVE  /\ CumulusLine(n) \in Nat
         /\ n[1] \in Nat \ {0} /\ CumulusLine(n) \div 4 + 1 = n[1]
         /\ \/ Len(n) = 1 /\ n = <<n[1]>> /\ CumulusLine(n) % 4 = 0
            \/ Len(n) = 2 /\ n = <<n[1], n[2]>> /\ n[2] \in 0 .. 3 /\ CumulusLine(n) % 4 = n[2]
<1>1. PICK p \in Nat \ {0} : n = <<p>> \/ \E l \in 0 .. 3 : n = <<p, l>>
  BY NameShape
<1>2. CASE n = <<p>>
  <2>1. Len(n) = 1 /\ n[1] = p
    BY <1>2
  <2>2. CumulusLine(n) = (p - 1) * 4 + 0
    BY <2>1 DEF CumulusLine, Lanes
  <2> QED BY <2>1, <2>2, <1>2, LineOfLane, 0 \in 0 .. 3
<1>3. CASE \E l \in 0 .. 3 : n = <<p, l>>
  <2>1. PICK l \in 0 .. 3 : n = <<p, l>>
    BY <1>3
  <2>2. Len(n) = 2 /\ n[1] = p /\ n[2] = l
    BY <2>1
  <2>3. CumulusLine(n) = (p - 1) * 4 + l
    BY <2>2 DEF CumulusLine, Lanes
  <2> QED BY <2>1, <2>2, <2>3, LineOfLane
<1> QED BY <1>1, <1>2, <1>3

\* The name of a line has that line.
LEMMA LineOfCumulusName ==
  ASSUME NEW line \in Nat, NEW lines
  PROVE  CumulusLine(CumulusName(line, lines)) = line
<1>1. CASE IsSplit(line, lines)
  <2>1. CumulusName(line, lines) = <<line \div 4 + 1, line % 4>>
    BY <1>1 DEF CumulusName, Lanes
  <2>2. CumulusLine(CumulusName(line, lines)) = ((line \div 4 + 1) - 1) * 4 + (line % 4)
    BY <2>1 DEF CumulusLine, Lanes
  <2> QED BY <2>2, LaneOfLine
<1>2. CASE ~IsSplit(line, lines)
  <2>1. CumulusName(line, lines) = <<line \div 4 + 1>>
    BY <1>2 DEF CumulusName, Lanes
  <2>2. CumulusLine(CumulusName(line, lines)) = ((line \div 4 + 1) - 1) * 4
    BY <2>1 DEF CumulusLine, Lanes
  <2>3. line % 4 = 0
    BY <1>2, LaneOfLine DEF IsSplit, Lanes
  <2> QED BY <2>2, <2>3, LaneOfLine
<1> QED BY <1>1, <1>2

\* A name of a well formed switch comes back from its line.
LEMMA NameOfCumulusLine ==
  ASSUME NEW names \in SUBSET Names, WellFormed(names), NEW n \in names
  PROVE  CumulusName(CumulusLine(n), {CumulusLine(m) : m \in names}) = n
<1> DEFINE lines == {CumulusLine(m) : m \in names}
<1>1. CumulusLine(n) \in Nat /\ n[1] \in Nat \ {0} /\ CumulusLine(n) \div 4 + 1 = n[1]
  BY LineOfName
<1>2. CASE Len(n) = 1
  <2>1. n = <<n[1]>> /\ CumulusLine(n) % 4 = 0
    BY <1>2, LineOfName
  <2>2. ASSUME NEW m \in names, CumulusLine(m) \div 4 = CumulusLine(n) \div 4
        PROVE  m = n
    <3>1. m[1] = n[1]
      BY <2>2, <1>1, LineOfName
    <3> QED BY <3>1, <1>2 DEF WellFormed
  <2>3. ~IsSplit(CumulusLine(n), lines)
    BY <2>1, <2>2 DEF IsSplit, Lanes
  <2> QED BY <2>1, <2>3, <1>1 DEF CumulusName, Lanes
<1>3. CASE Len(n) = 2
  <2>1. n = <<n[1], n[2]>> /\ CumulusLine(n) % 4 = n[2]
    BY <1>3, LineOfName
  <2>2. PICK m \in names : m # n /\ m[1] = n[1]
    BY <1>3 DEF WellFormed
  <2>3. Len(m) = 2
    BY <2>2, LineOfName DEF WellFormed
  <2>4. m = <<m[1], m[2]>> /\ CumulusLine(m) % 4 = m[2]
    BY <2>3, LineOfName
  <2>5. CumulusLine(m) # CumulusLine(n)
    BY <2>1, <2>2, <2>4
  <2>6. CumulusLine(m) \div 4 = CumulusLine(n) \div 4
    BY <2>2, <1>1, LineOfName
  <2>7. IsSplit(CumulusLine(n), lines)
    BY <2>5, <2>6 DEF IsSplit, Lanes
  <2> QED BY <2>1, <2>7, <1>1 DEF CumulusName, Lanes
<1> QED BY <1>2, <1>3, LineOfName
----------------------------------------------------------------------------
\* The invariant: the ports have the names they had, or those of the other system.

Lines(names) == [n \in names |-> CumulusLine(n)]
CumulusNames(lines) == [l \in lines |-> CumulusName(l, lines)]

NamesInv ==
    \/ /\ first = "cumulus"
       /\ \E names \in SUBSET Names :
             /\ WellFormed(names)
             /\ \/ system = "cumulus" /\ name = Same(names)
                \/ system = "sonic" /\ name = Lines(names)
    \/ /\ first = "sonic"
       /\ \E lines \in SUBSET LaneNumbers :
             \/ system = "sonic" /\ name = Same(lines)
             \/ system = "cumulus" /\ name = CumulusNames(lines)

LEMMA NamesInvInit == NamesInit => NamesInv
  BY DEF NamesInit, NamesInv

LEMMA NamesInvStep == NamesInv /\ [Replace]_namesVars => NamesInv'
<1> SUFFICES ASSUME NamesInv, [Replace]_namesVars PROVE NamesInv'
  OBVIOUS
<1>1. CASE UNCHANGED namesVars
  BY <1>1 DEF namesVars, NamesInv, Same, Lines, CumulusNames
<1>2. CASE Replace
  <2>1. CASE first = "cumulus"
    <3>1. PICK names \in SUBSET Names :
            /\ WellFormed(names)
            /\ \/ system = "cumulus" /\ name = Same(names)
               \/ system = "sonic" /\ name = Lines(names)
      BY <2>1 DEF NamesInv
    <3>2. CASE system = "cumulus"
      <4>1. name = Same(names) /\ system' = "sonic" /\ first' = first
        BY <3>1, <3>2, <1>2 DEF Replace
      <4>2. name' = Lines(names)
        BY <4>1, <3>2, <1>2 DEF Replace, Same, Lines
      <4> QED BY <4>1, <4>2, <3>1, <2>1 DEF NamesInv
    <3>3. CASE system = "sonic"
      <4>1. name = Lines(names) /\ system' = "cumulus" /\ first' = first
        BY <3>1, <3>3, <1>2 DEF Replace
      <4>2. name' = [n \in names |-> CumulusName(CumulusLine(n), {CumulusLine(m) : m \in names})]
        BY <4>1, <3>3, <1>2 DEF Replace, Lines
      <4>3. name' = Same(names)
        BY <4>2, <3>1, NameOfCumulusLine DEF Same
      <4> QED BY <4>1, <4>3, <3>1, <2>1 DEF NamesInv
    <3> QED BY <3>1, <3>2, <3>3
  <2>2. CASE first = "sonic"
    <3>1. PICK lines \in SUBSET LaneNumbers :
            \/ system = "sonic" /\ name = Same(lines)
            \/ system = "cumulus" /\ name = CumulusNames(lines)
      BY <2>2 DEF NamesInv
    <3>2. CASE system = "sonic"
      <4>1. name = Same(lines) /\ system' = "cumulus" /\ first' = first
        BY <3>1, <3>2, <1>2 DEF Replace
      <4>2. {name[n] : n \in DOMAIN name} = lines
        BY <4>1 DEF Same
      <4>3. name' = CumulusNames(lines)
        BY <4>1, <4>2, <3>2, <1>2 DEF Replace, Same, CumulusNames
      <4> QED BY <4>1, <4>3, <2>2 DEF NamesInv
    <3>3. CASE system = "cumulus"
      <4>1. name = CumulusNames(lines) /\ system' = "sonic" /\ first' = first
        BY <3>1, <3>3, <1>2 DEF Replace
      <4>2. lines \subseteq Nat
        BY PortNamesAssumption DEF LaneNumbers, Lanes
      <4>3. name' = [l \in lines |-> CumulusLine(CumulusName(l, lines))]
        BY <4>1, <3>3, <1>2 DEF Replace, CumulusNames
      <4>4. name' = Same(lines)
        BY <4>2, <4>3, LineOfCumulusName DEF Same
      <4> QED BY <4>1, <4>4, <2>2 DEF NamesInv
    <3> QED BY <3>1, <3>2, <3>3
  <2> QED BY <2>1, <2>2 DEF NamesInv
<1> QED BY <1>1, <1>2

LEMMA NamesInvImplies == NamesInv => NamesTranslated
<1> SUFFICES ASSUME NamesInv PROVE NamesTranslated
  OBVIOUS
<1>1. CASE first = "cumulus"
  <2>1. PICK names \in SUBSET Names :
          /\ WellFormed(names)
          /\ \/ system = "cumulus" /\ name = Same(names)
             \/ system = "sonic" /\ name = Lines(names)
    BY <1>1 DEF NamesInv
  <2>2. CASE system = "cumulus"
    BY <2>1, <2>2 DEF NamesTranslated, Same
  <2>3. CASE system = "sonic"
    <3>1. name = Lines(names)
      BY <2>1, <2>3
    <3>2. ASSUME NEW n \in names, NEW m \in names, CumulusLine(n) = CumulusLine(m)
          PROVE  n = m
      <4> DEFINE lines == {CumulusLine(k) : k \in names}
      <4>1. CumulusName(CumulusLine(n), lines) = n /\ CumulusName(CumulusLine(m), lines) = m
        BY <2>1, NameOfCumulusLine
      <4> QED BY <4>1, <3>2
    <3> QED BY <3>1, <3>2, <1>1, <2>3 DEF NamesTranslated, Lines
  <2> QED BY <2>1, <2>2, <2>3
<1>2. CASE first = "sonic"
  <2>1. PICK lines \in SUBSET LaneNumbers :
          \/ system = "sonic" /\ name = Same(lines)
          \/ system = "cumulus" /\ name = CumulusNames(lines)
    BY <1>2 DEF NamesInv
  <2>2. CASE system = "sonic"
    BY <2>1, <2>2 DEF NamesTranslated, Same
  <2>3. CASE system = "cumulus"
    <3>1. name = CumulusNames(lines) /\ lines \subseteq Nat
      BY <2>1, <2>3, PortNamesAssumption DEF LaneNumbers, Lanes
    <3>2. ASSUME NEW n \in lines, NEW m \in lines, CumulusName(n, lines) = CumulusName(m, lines)
          PROVE  n = m
      BY <3>1, <3>2, LineOfCumulusName
    <3> QED BY <3>1, <3>2, <1>2, <2>3 DEF NamesTranslated, CumulusNames
  <2> QED BY <2>1, <2>2, <2>3
<1> QED BY <1>1, <1>2 DEF NamesInv

\* On a switch with any number of ports, two ports never share a name, and a switch
\* that is replaced there and back has its names again (MapPortNames, TranslateNicMap).
THEOREM NamesKept == NamesSpec => []NamesTranslated
<1>1. NamesSpec => []NamesInv
  BY NamesInvInit, NamesInvStep, PTL DEF NamesSpec
<1> QED BY <1>1, NamesInvImplies, PTL

----------------------------------------------------------------------------
(* The states of the ports.                                                *)

AnyPort == CHOOSE p \in SwitchPorts : TRUE
NicRows == [SwitchPorts -> NicState]
OperatorState == [at: {"idle", "read", "write"}, of: SwitchPorts \cup {AnyPort}, to: Concrete,
                  nics: NicRows, current: BOOLEAN]
CoreState == [at: {"fetch", "apply", "report", "store"}, told: [SwitchPorts -> Concrete \cup {"UNKNOWN"}],
              nics: NicRows, current: BOOLEAN]

\* Calls and the handler of reports know what they need for the next write: a copy
\* that carries the stamp of the row is the row.
CopiesTyped ==
    /\ nic \in NicRows
    /\ port \in [SwitchPorts -> Concrete]
    /\ operator \in [Operators -> OperatorState]
    /\ core \in CoreState
NicsCurrent ==
    /\ \A o \in Operators : operator[o].current => operator[o].nics = nic
    /\ core.current => core.nics = nic
CopiesInv == CopiesTyped /\ NicsCurrent

----------------------------------------------------------------------------
LEMMA NicsTyped ==
  /\ Fresh \in NicState
  /\ \A n \in NicState, s \in Concrete : SetState(n, s) \in NicState /\ WantState(n, s) \in NicState
  /\ \A n \in NicState : Told(n) \in Concrete \cup {"UNKNOWN"}
  BY DEF NicState, Fresh, SetState, WantState, Told, Concrete

LEMMA AsleepTyped == NoToggle \in OperatorState /\ ~NoToggle.current /\ Asleep \in CoreState /\ ~Asleep.current
<1>1. [p \in SwitchPorts |-> Fresh] \in NicRows
  BY NicsTyped DEF NicRows
<1>2. NoToggle \in OperatorState /\ ~NoToggle.current
  BY <1>1 DEF NoToggle, OperatorState, AnyPort, Concrete
<1>3. Asleep \in CoreState /\ ~Asleep.current
  BY <1>1 DEF Asleep, CoreState
<1> QED BY <1>2, <1>3

LEMMA OutdatedTyped ==
  /\ \A c \in OperatorState : Outdated(c) \in OperatorState /\ ~Outdated(c).current
  /\ \A c \in CoreState : Outdated(c) \in CoreState /\ ~Outdated(c).current
  BY DEF OperatorState, CoreState, Outdated

LEMMA CopiesInit == PortsInit => CopiesInv
  BY NicsTyped, AsleepTyped DEF PortsInit, CopiesInv, CopiesTyped, NicsCurrent, NicRows, Concrete

\* What an operator writes starts from the row, one nic apart.
LEMMA ToggleWrites ==
  ASSUME CopiesInv, NEW o \in Operators, WriteToggle(o), nic' # nic
  PROVE  /\ operator[o].at = "write" /\ operator[o].nics = nic
         /\ nic' = [nic EXCEPT ![operator[o].of] = WantState(nic[operator[o].of], operator[o].to)]
  BY DEF CopiesInv, NicsCurrent, WriteToggle, Unchanged

\* A report is written over the row it was read from.
LEMMA ReportWrites ==
  ASSUME CopiesInv, StoreReport, nic' # nic
  PROVE  nic' = [p \in SwitchPorts |-> SetState(nic[p], port[p])]
  BY DEF CopiesInv, NicsCurrent, StoreReport, Unchanged

----------------------------------------------------------------------------
LEMMA CopiesStep == CopiesInv /\ [PortsNext]_portsVars => CopiesInv'
<1> SUFFICES ASSUME CopiesInv, [PortsNext]_portsVars PROVE CopiesInv'
  OBVIOUS
<1> USE DEF CopiesInv, CopiesTyped, NicsCurrent
<1>1. ASSUME NEW o \in Operators, NEW p \in SwitchPorts, NEW s \in Concrete, Toggle(o, p, s) PROVE CopiesInv'
  <2>1. [NoToggle EXCEPT !.at = "read", !.of = p, !.to = s] \in OperatorState
        /\ ~[NoToggle EXCEPT !.at = "read", !.of = p, !.to = s].current
    BY <1>1, AsleepTyped DEF OperatorState
  <2> QED BY <1>1, <2>1 DEF Toggle
<1>2. ASSUME NEW o \in Operators, ReadSwitch(o) PROVE CopiesInv'
  <2>1. [operator[o] EXCEPT !.at = "write", !.nics = nic, !.current = TRUE] \in OperatorState
        /\ [operator[o] EXCEPT !.at = "write", !.nics = nic, !.current = TRUE].nics = nic
    BY <1>2 DEF OperatorState
  <2> QED BY <1>2, <2>1, AsleepTyped DEF ReadSwitch
<1>3. ASSUME NEW o \in Operators, WriteToggle(o) PROVE CopiesInv'
  <2>1. nic' \in NicRows
    <3>1. CASE nic' = nic
      BY <3>1
    <3>2. CASE nic' # nic
      <4>1. operator[o].to \in Concrete
        BY DEF OperatorState
      <4>2. nic' = [nic EXCEPT ![operator[o].of] = WantState(nic[operator[o].of], operator[o].to)]
        BY <1>3, <3>2, ToggleWrites
      <4>3. \A p \in SwitchPorts : nic'[p] \in NicState
        BY <4>1, <4>2, NicsTyped DEF NicRows
      <4> QED BY <4>2, <4>3 DEF NicRows
    <3> QED BY <3>1, <3>2
  <2>2. core' \in CoreState /\ (core'.current => core'.nics = nic')
    BY <1>3, OutdatedTyped DEF WriteToggle
  <2>3. operator' \in [Operators -> OperatorState]
    BY <1>3, OutdatedTyped, AsleepTyped DEF WriteToggle
  <2>4. \A q \in Operators : operator'[q].current => operator'[q].nics = nic'
    BY <1>3, OutdatedTyped, AsleepTyped DEF WriteToggle
  <2> QED BY <1>3, <2>1, <2>2, <2>3, <2>4 DEF WriteToggle
<1>4. CASE Fetch
  <2>1. [p \in SwitchPorts |-> Told(nic[p])] \in [SwitchPorts -> Concrete \cup {"UNKNOWN"}]
    BY NicsTyped DEF NicRows
  <2> QED BY <1>4, <2>1 DEF Fetch, CoreState
<1>5. CASE Apply
  BY <1>5 DEF Apply, CoreState
<1>6. CASE ReadReport
  BY <1>6 DEF ReadReport, CoreState
<1>7. CASE StoreReport
  <2>1. nic' \in NicRows
    <3>1. CASE nic' = nic
      BY <3>1
    <3>2. CASE nic' # nic
      <4>1. \A p \in SwitchPorts : SetState(nic[p], port[p]) \in NicState
        BY NicsTyped DEF NicRows
      <4> QED BY <1>7, <3>2, <4>1, ReportWrites DEF NicRows
    <3> QED BY <3>1, <3>2
  <2>2. operator' \in [Operators -> OperatorState]
        /\ \A q \in Operators : operator'[q].current => operator'[q].nics = nic'
    BY <1>7, OutdatedTyped DEF StoreReport
  <2> QED BY <1>7, <2>1, <2>2, AsleepTyped DEF StoreReport
<1>8. CASE UNCHANGED portsVars
  BY <1>8 DEF portsVars
<1> QED BY <1>1, <1>2, <1>3, <1>4, <1>5, <1>6, <1>7, <1>8 DEF PortsNext, PortsStep

\* A copy of the row that may still be written is the row (updateEntity's comparison
\* of the time stamp, which toggleSwitchPort and notifySwitch rely on).
THEOREM CopiesAreTheRow == PortsSpec => []CopiesInv
  BY CopiesInit, CopiesStep, PTL DEF PortsSpec

----------------------------------------------------------------------------
\* A step that changes what is wanted of a port is the report of that state, or
\* a call about that port.
LEMMA DesiredStep ==
  ASSUME CopiesInv, [PortsNext]_portsVars, NEW p \in SwitchPorts,
         nic[p].desired # Unset, nic'[p].desired # nic[p].desired
  PROVE  nic'[p].actual = nic[p].desired \/ \E o \in Operators : WriteToggle(o) /\ operator[o].of = p
<1>0. nic' # nic
  OBVIOUS
<1>1. ASSUME NEW o \in Operators, WriteToggle(o) PROVE operator[o].of = p
  <2>1. nic' = [nic EXCEPT ![operator[o].of] = WantState(nic[operator[o].of], operator[o].to)]
    BY <1>0, <1>1, ToggleWrites
  <2> QED BY <2>1 DEF CopiesInv, CopiesTyped, NicRows
<1>2. CASE StoreReport
  <2>1. nic'[p] = SetState(nic[p], port[p])
    BY <1>0, <1>2, ReportWrites
  <2> QED BY <2>1 DEF SetState, Reached
<1>3. CASE ~StoreReport /\ \A o \in Operators : ~WriteToggle(o)
  BY <1>0, <1>3 DEF PortsNext, PortsStep, Toggle, ReadSwitch, Fetch, Apply, ReadReport, portsVars
<1> QED BY <1>1, <1>2, <1>3

\* What is wanted of a port is kept until the switch reports it or something else
\* is wanted of that port (notifySwitch, toggleSwitchPort).
THEOREM WishKept == PortsSpec => DesiredKept
<1>1. CopiesInv /\ [PortsNext]_portsVars =>
        [\A p \in SwitchPorts :
            nic[p].desired # Unset /\ nic'[p].desired # nic[p].desired =>
               nic'[p].actual = nic[p].desired \/ \E o \in Operators : WriteToggle(o) /\ operator[o].of = p]_portsVars
  BY DesiredStep
<1> QED BY <1>1, CopiesAreTheRow, PTL DEF PortsSpec, DesiredKept

----------------------------------------------------------------------------
(* Both next to the other components, with the messages to the BMC.        *)

Messages == [what: LEDs \cup {"delete"}, credentials: BOOLEAN, by: Operations]
BusInv == bus \subseteq Messages
AskedTyped == asked \in [SwitchPorts -> Concrete \cup {Unset}] /\ toggles \in 0 .. MaxToggles
DevicesInv == LockInv /\ BusInv /\ CopiesInv /\ AskedTyped

LEMMA BusStep == BusInv /\ LockInv /\ [LifecycleNext]_lifecycleVars => BusInv'
<1> SUFFICES ASSUME BusInv, LockInv, [LifecycleNext]_lifecycleVars PROVE BusInv'
  OBVIOUS
<1>1. CASE UNCHANGED bus
  BY <1>1 DEF BusInv
<1>2. ASSUME NEW h \in Handlers, NEW what \in LEDs \cup {"delete"}, NEW c \in BOOLEAN,
             handler[h].op \in Operations, Send(what, h, c) \/ UNCHANGED bus
      PROVE  BusInv'
  BY <1>2 DEF BusInv, Messages, Send
<1>3. ASSUME NEW h \in Handlers, PublishLED(h) PROVE BusInv'
  <2>1. handler[h].op = "led" /\ handler[h].to \in LEDs
    BY <1>3 DEF PublishLED, Handling, LockInv, Checked, Sound, ToFits
  <2>2. WithFallback(h) \in BOOLEAN
    BY DEF WithFallback, SuperUserEnabled, LockInv, RowsTyped, HandlerState, MachineRow
  <2> QED BY <1>2, <1>3, <2>1, <2>2 DEF PublishLED, Operations
<1>4. ASSUME NEW h \in Handlers, FreeLEDOff(h) \/ PublishDelete(h) PROVE BusInv'
  <2>1. handler[h].op \in {"free", "resurrect"} /\ handler[h].read.credentials \in BOOLEAN
    BY <1>4 DEF FreeLEDOff, PublishDelete, Handling, LockInv, RowsTyped, HandlerState, MachineRow
  <2>2. \E what \in LEDs \cup {"delete"} : Send(what, h, handler[h].read.credentials) \/ UNCHANGED bus
    BY <1>4 DEF FreeLEDOff, PublishDelete, LEDs
  <2> QED BY <1>2, <2>1, <2>2 DEF Operations
<1>5. CASE Deliver
  BY <1>5 DEF Deliver, BusInv
<1>6. ASSUME ~UNCHANGED bus, ~Deliver, \A h \in Handlers : ~Sends(h)
      PROVE  FALSE
  BY <1>6 DEF Sends, LifecycleNext, lifecycleVars, Call, Receive, Step, Read, SetMachineState, Commit, Register,
      SwitchLED, FreeUpdate, FreeAnnounce, ResurrectLook, DeleteLook, RemoveRow, Evaluate,
      TakeReport, ListMachines, WriteReport, Boots, PhonesHome, Tick
<1> QED BY <1>1, <1>3, <1>4, <1>5, <1>6 DEF Sends

LEMMA AskedStep == AskedTyped /\ CopiesInv /\ [PortsNext]_portsVars => AskedTyped'
<1> SUFFICES ASSUME AskedTyped, CopiesInv, [PortsNext]_portsVars PROVE AskedTyped'
  OBVIOUS
<1>1. ASSUME NEW o \in Operators, WriteToggle(o) PROVE AskedTyped'
  <2>1. operator[o].to \in Concrete
    BY DEF CopiesInv, CopiesTyped, OperatorState
  <2>2. asked' = asked \/ asked' = [asked EXCEPT ![operator[o].of] = operator[o].to]
    BY <1>1 DEF WriteToggle
  <2> QED BY <1>1, <2>1, <2>2 DEF WriteToggle, AskedTyped
<1>2. ASSUME NEW o \in Operators, NEW p \in SwitchPorts, NEW s \in Concrete, Toggle(o, p, s) PROVE AskedTyped'
  BY <1>2, PortsAssumption DEF Toggle, AskedTyped
<1>3. CASE UNCHANGED <<asked, toggles>>
  BY <1>3 DEF AskedTyped
<1> QED BY <1>1, <1>2, <1>3 DEF PortsNext, PortsStep, ReadSwitch, Fetch, Apply, ReadReport, StoreReport, portsVars

LEMMA DevicesInit == Init => DevicesInv
<1> SUFFICES ASSUME Init PROVE DevicesInv
  OBVIOUS
<1>1. LockInv
  BY LockInit DEF Init
<1>2. CopiesInv
  BY CopiesInit DEF Init
<1>3. BusInv
  BY DEF Init, LifecycleInit, BusInv
<1>4. AskedTyped
  BY PortsAssumption DEF Init, PortsInit, AskedTyped
<1> QED BY <1>1, <1>2, <1>3, <1>4 DEF DevicesInv

LEMMA DevicesStep == DevicesInv /\ [Next]_<<storeVars, deviceVars, subject>> => DevicesInv'
<1> SUFFICES ASSUME DevicesInv, [Next]_<<storeVars, deviceVars, subject>> PROVE DevicesInv'
  OBVIOUS
<1>1. [LifecycleNext]_lifecycleVars /\ [PortsNext]_portsVars
  BY DEF Next, About, deviceVars
<1>2. LockInv'
  BY <1>1, LockStep DEF DevicesInv
<1>3. BusInv'
  BY <1>1, BusStep DEF DevicesInv
<1>4. CopiesInv'
  BY <1>1, CopiesStep DEF DevicesInv
<1>5. AskedTyped'
  BY <1>1, AskedStep DEF DevicesInv
<1> QED BY <1>2, <1>3, <1>4, <1>5 DEF DevicesInv

LEMMA DevicesImplied == DevicesInv => LifecycleTypeOK /\ PortsTypeOK
<1> SUFFICES ASSUME DevicesInv PROVE LifecycleTypeOK /\ PortsTypeOK
  OBVIOUS
<1>1. LifecycleTypeOK
  BY DEF DevicesInv, LockInv, RowsTyped, BusInv, Messages, LifecycleTypeOK, HandlerState, ReportState
<1>2. PortsTypeOK
  BY DEF DevicesInv, CopiesInv, CopiesTyped, AskedTyped, PortsTypeOK, NicRows, OperatorState, CoreState
<1> QED BY <1>1, <1>2

\* The rows, messages and copies of machines and switches stay well formed whatever
\* calls, reports and jobs cross each other (machineCmd, publishMachineCmd,
\* toggleSwitchPort, notifySwitch).
THEOREM DevicesStayTyped == Spec => [](LifecycleTypeOK /\ PortsTypeOK)
  BY DevicesInit, DevicesStep, DevicesImplied, PTL DEF Spec

----------------------------------------------------------------------------
(* What a machine is managed with.                                         *)

\* Who waits for an allocation, or has one, did register; so did what a handler
\* found waiting before it allocates it.
Managed(m) == m.waiting \/ m.owner # 0 => m.credentials
Allocating(s) == s.op \in {"byName", "elected"} /\ s.at = "write"
Able(s) == Managed(s.read) /\ (Allocating(s) => s.read.credentials)
ManagedInv == Managed(machine) /\ \A h \in Handlers : Able(handler[h])

\* The assumption it takes: nobody asks by its name for a machine that does not wait.
Wanted == "wanted" \in LifecycleAssumed

LEMMA IdleAble == Able(Idle) /\ Managed(NoMachine)
  BY DEF Able, Managed, Allocating, Idle, NoMachine

LEMMA StaysAble ==
  ASSUME NEW s \in HandlerState, Able(s)
  PROVE  /\ Able(Overtaken(s))
         /\ \A at \in {"read", "look", "announce", "publish", "publishLED"} : Able([s EXCEPT !.at = at])
         /\ s.op \in {"delete", "free", "resurrect"} => Able([s EXCEPT !.at = "write"])
         /\ Able(Overtaken([s EXCEPT !.at = "publish"])) /\ Able(Overtaken([s EXCEPT !.at = "announce"]))
  BY DEF Able, Managed, Allocating, Overtaken, HandlerState

LEMMA ManagedInit == LifecycleInit => ManagedInv
<1> SUFFICES ASSUME LifecycleInit PROVE ManagedInv
  OBVIOUS
<1>1. Managed(machine)
  BY DEF LifecycleInit, Managed, NoMachine
<1> QED BY <1>1, IdleAble DEF LifecycleInit, ManagedInv

\* The row is as it was and one handler goes on, or it is written and the copies
\* of the others are out of date.
LEMMA ManagedProceeds ==
  ASSUME LockInv, ManagedInv, NEW h \in Handlers, NEW s, Able(s), Proceed(h, s)
  PROVE  ManagedInv'
  BY DEF ManagedInv, Proceed, LockInv, RowsTyped

LEMMA ManagedEnds == ASSUME LockInv, ManagedInv, NEW h \in Handlers, End(h) PROVE ManagedInv'
  BY ManagedProceeds, IdleAble DEF End

LEMMA ManagedForeign ==
  ASSUME LockInv, ManagedInv, Managed(machine'),
         handler' = [g \in Handlers |-> Overtaken(handler[g])]
  PROVE  ManagedInv'
  BY StaysAble DEF ManagedInv, LockInv, RowsTyped

LEMMA ManagedWrites ==
  ASSUME LockInv, ManagedInv, NEW h \in Handlers, NEW r, Managed(r), NEW s, Able(Overtaken(s)), WriteAnd(h, r, s)
  PROVE  ManagedInv'
  BY StaysAble DEF ManagedInv, WriteAnd, Replaced, LockInv, RowsTyped

LEMMA ManagedWritesOrEnds ==
  ASSUME LockInv, ManagedInv, NEW h \in Handlers, NEW r, Managed(r), NEW s, Able(Overtaken(s)), WriteOrEnd(h, r, s)
  PROVE  ManagedInv'
  BY ManagedWrites, ManagedEnds DEF WriteOrEnd

LEMMA ManagedStep == ASSUME LockInv, ManagedInv, Wanted, NEW h \in Handlers, Step(h) PROVE ManagedInv'
<1>0. /\ handler[h] \in HandlerState /\ machine \in MachineRow
      /\ Managed(machine) /\ Able(handler[h]) /\ Managed(handler[h].read)
      /\ handler[h].read \in MachineRow
  BY DEF LockInv, RowsTyped, ManagedInv, Able, HandlerState
<1>1. Able(Overtaken(Idle))
  BY StaysAble, IdleAble, IdleTyped
<1>2. CASE Read(h)
  <2> DEFINE op == handler[h].op
             seen == IF op = "resurrect" THEN box ELSE handler[h].looked
             s == [handler[h] EXCEPT !.at = After(op), !.read = machine, !.current = TRUE, !.looked = seen]
  <2>1. CASE Accepts(op)
    <3>1. s.read = machine /\ s.op = op
      BY <1>0 DEF HandlerState
    <3>2. op \in {"byName", "elected"} => machine.credentials
      BY <1>0, <2>1 DEF Accepts, Wanted, Managed
    <3>3. Able(s)
      BY <1>0, <3>1, <3>2 DEF Able, Allocating
    <3>4. Proceed(h, s)
      BY <1>2, <2>1 DEF Read
    <3> HIDE DEF s
    <3> QED BY <3>3, <3>4, ManagedProceeds
  <2>2. CASE ~Accepts(op)
    BY <1>2, <2>2, ManagedEnds DEF Read
  <2> QED BY <2>1, <2>2
<1>3. CASE SetMachineState(h)
  <2>1. Managed([handler[h].read EXCEPT !.state = handler[h].to])
    BY <1>0 DEF Managed, MachineRow
  <2> QED BY <1>1, <1>3, <2>1, ManagedWritesOrEnds DEF SetMachineState
<1>4. CASE Commit(h)
  <2>1. Managed([handler[h].read EXCEPT !.owner = handler[h].number, !.waiting = FALSE])
    BY <1>0, <1>4 DEF Managed, MachineRow, Commit, Able, Allocating
  <2> QED BY <1>1, <1>4, <2>1, ManagedWritesOrEnds DEF Commit
<1>5. CASE Register(h)
  <2>1. Managed([NoMachine EXCEPT !.there = TRUE, !.credentials = TRUE]) /\ Managed([handler[h].read EXCEPT !.credentials = TRUE])
    BY <1>0 DEF Managed, NoMachine, MachineRow
  <2>2. \/ WriteAnd(h, [NoMachine EXCEPT !.there = TRUE, !.credentials = TRUE], Idle)
        \/ WriteAnd(h, [handler[h].read EXCEPT !.credentials = TRUE], Idle)
        \/ End(h)
    BY <1>5 DEF Register
  <2> QED BY <1>1, <2>1, <2>2, ManagedWrites, ManagedEnds
<1>6. CASE SwitchLED(h)
  <2>1. Managed([handler[h].read EXCEPT !.led = handler[h].to])
    BY <1>0 DEF Managed, MachineRow
  <2>2. Able(Overtaken([handler[h] EXCEPT !.at = "publish"]))
    BY <1>0, StaysAble
  <2> QED BY <1>6, <2>1, <2>2, ManagedWritesOrEnds DEF SwitchLED
<1>7. CASE FreeUpdate(h)
  <2>1. Managed([handler[h].read EXCEPT !.owner = 0])
    BY <1>0 DEF Managed, MachineRow
  <2>2. Able(Overtaken([handler[h] EXCEPT !.at = "announce"]))
    BY <1>0, StaysAble
  <2> QED BY <1>1, <1>7, <2>1, <2>2, ManagedWritesOrEnds DEF FreeUpdate
<1>8. CASE RemoveRow(h)
  BY <1>1, <1>8, IdleAble, ManagedWrites DEF RemoveRow
<1>9. CASE FreeLEDOff(h) \/ PublishDelete(h) \/ ResurrectLook(h) \/ DeleteLook(h)
  <2>1. \/ End(h)
        \/ \E at \in {"read", "look", "announce", "publish", "publishLED"} : Proceed(h, [handler[h] EXCEPT !.at = at])
        \/ handler[h].op \in {"delete", "free", "resurrect"} /\ Proceed(h, [handler[h] EXCEPT !.at = "write"])
    BY <1>9 DEF FreeLEDOff, PublishDelete, ResurrectLook, DeleteLook, Handling
  <2> QED BY <1>0, <2>1, StaysAble, ManagedProceeds, ManagedEnds
<1>10. CASE PublishLED(h) \/ FreeAnnounce(h) \/ Evaluate(h)
  BY <1>10, ManagedEnds DEF PublishLED, FreeAnnounce, Evaluate
<1> QED BY <1>2, <1>3, <1>4, <1>5, <1>6, <1>7, <1>8, <1>9, <1>10 DEF Step

LEMMA ManagedNext == Wanted /\ LockInv /\ ManagedInv /\ [LifecycleNext]_lifecycleVars => ManagedInv'
<1> SUFFICES ASSUME Wanted, LockInv, ManagedInv, [LifecycleNext]_lifecycleVars PROVE ManagedInv'
  OBVIOUS
<1>0. machine \in MachineRow /\ Managed(machine)
  BY DEF LockInv, RowsTyped, ManagedInv
<1>1. CASE UNCHANGED <<machine, handler>>
  BY <1>1 DEF ManagedInv
<1>2. ASSUME NEW h \in Handlers, NEW op, NEW to, Receive(h, op, to) PROVE ManagedInv'
  <2>1. Able([Idle EXCEPT !.op = op, !.to = to, !.number = handled + 1])
    BY IdleAble DEF Able, Allocating, Idle
  <2>2. Proceed(h, [Idle EXCEPT !.op = op, !.to = to, !.number = handled + 1])
    BY <1>2 DEF Receive, Proceed
  <2> QED BY <2>1, <2>2, ManagedProceeds
<1>3. ASSUME NEW h \in Handlers, Step(h) PROVE ManagedInv'
  BY <1>3, ManagedStep
<1>4. CASE WriteReport
  <2>1. Managed([NoMachine EXCEPT !.there = TRUE, !.led = report.led])
    BY DEF Managed, NoMachine
  <2>2. report.read.there /\ Unwritten(report) => Managed(WithReport(report.read))
    BY <1>0 DEF Unwritten, LockInv, RowCopiesCurrent, WithReport, Managed, MachineRow
  <2>3. CASE machine' # machine \/ handler' # handler
    BY <1>4, <2>1, <2>2, <2>3, ManagedForeign DEF WriteReport
  <2> QED BY <1>1, <2>3
<1>5. CASE Boots \/ Tick
  <2>1. CASE Managed(machine') /\ handler' = [g \in Handlers |-> Overtaken(handler[g])]
    BY <2>1, ManagedForeign
  <2>2. (machine' = machine /\ handler' = handler) \/ (Managed(machine') /\ handler' = [g \in Handlers |-> Overtaken(handler[g])])
    BY <1>0, <1>5 DEF Boots, Tick, Replaced, Managed, MachineRow
  <2> QED BY <1>1, <2>1, <2>2
<1>6. CASE TakeReport \/ ListMachines \/ Deliver \/ PhonesHome
  BY <1>1, <1>6 DEF TakeReport, ListMachines, Deliver, PhonesHome
<1>7. CASE \E h \in Handlers : Call(h)
  BY <1>2, <1>7 DEF Call
<1> QED BY <1>1, <1>3, <1>4, <1>5, <1>6, <1>7 DEF LifecycleNext, lifecycleVars

\* No write takes credentials away.
CredentialsStay == machine.there /\ machine'.there /\ machine.credentials => machine'.credentials

LEMMA CredentialsStep == LockInv /\ [LifecycleNext]_lifecycleVars => CredentialsStay
<1> SUFFICES ASSUME LockInv, [LifecycleNext]_lifecycleVars PROVE CredentialsStay
  OBVIOUS
<1>0. machine \in MachineRow /\ (report.current => report.read = machine)
  BY DEF LockInv, RowsTyped, RowCopiesCurrent
<1>1. CASE machine' = machine
  BY <1>1 DEF CredentialsStay
<1>2. ASSUME NEW h \in Handlers, NEW r, r.credentials = handler[h].read.credentials, NEW s, WriteOrEnd(h, r, s)
      PROVE  CredentialsStay
  <2>1. handler[h].current => handler[h].read = machine
    BY DEF LockInv, RowCopiesCurrent
  <2> QED BY <1>2, <2>1 DEF WriteOrEnd, WriteAnd, Replaced, End, Proceed, Unwritten, CredentialsStay
<1>3. ASSUME NEW h \in Handlers, Step(h) PROVE CredentialsStay
  <2>0. handler[h].read \in MachineRow
    BY DEF LockInv, RowsTyped, HandlerState
  <2>1. CASE SetMachineState(h) \/ Commit(h) \/ SwitchLED(h) \/ FreeUpdate(h)
    <3>1. /\ [handler[h].read EXCEPT !.state = handler[h].to].credentials = handler[h].read.credentials
          /\ [handler[h].read EXCEPT !.owner = handler[h].number, !.waiting = FALSE].credentials = handler[h].read.credentials
          /\ [handler[h].read EXCEPT !.led = handler[h].to].credentials = handler[h].read.credentials
          /\ [handler[h].read EXCEPT !.owner = 0].credentials = handler[h].read.credentials
      BY <2>0 DEF MachineRow
    <3> QED BY <1>2, <2>1, <3>1 DEF SetMachineState, Commit, SwitchLED, FreeUpdate
  <2>2. CASE Register(h)
    BY <2>0, <2>2 DEF Register, WriteAnd, Replaced, End, Proceed, CredentialsStay, MachineRow
  <2>3. CASE RemoveRow(h)
    BY <2>3 DEF RemoveRow, WriteAnd, Replaced, CredentialsStay, NoMachine
  <2> QED BY <1>1, <1>3, <2>1, <2>2, <2>3
          DEF Step, Read, PublishLED, FreeLEDOff, PublishDelete, FreeAnnounce, ResurrectLook, DeleteLook, Evaluate, End, Proceed
<1>4. CASE WriteReport
  BY <1>0, <1>4 DEF WriteReport, WithReport, Unwritten, CredentialsStay, MachineRow
<1>5. CASE Boots \/ Tick
  BY <1>0, <1>5 DEF Boots, Tick, Replaced, CredentialsStay, MachineRow
<1>6. CASE TakeReport \/ ListMachines \/ Deliver \/ PhonesHome \/ \E h \in Handlers : Call(h)
  BY <1>1, <1>6 DEF TakeReport, ListMachines, Deliver, PhonesHome, Call, Receive
<1> QED BY <1>1, <1>3, <1>4, <1>5, <1>6 DEF LifecycleNext, lifecycleVars

\* What is sent without credentials went to a machine that nobody owned.
LEMMA SentManaged ==
  ASSUME ManagedInv, NEW h \in Handlers, NEW m \in bus' \ bus, Sends(h), ~m.credentials
  PROVE  handler[h].read.owner = 0 /\ (m.by = "led" => ~SuperUserEnabled(h))
<1>1. handler[h].read.owner # 0 => handler[h].read.credentials
  BY DEF ManagedInv, Able, Managed
<1>2. CASE PublishLED(h)
  <2>1. m.credentials = WithFallback(h)
    BY <1>2 DEF PublishLED, Send
  <2> QED BY <1>1, <2>1 DEF WithFallback
<1>3. CASE FreeLEDOff(h) \/ PublishDelete(h)
  <2>1. m.credentials = handler[h].read.credentials /\ m.by = handler[h].op /\ handler[h].op # "led"
    BY <1>3 DEF FreeLEDOff, PublishDelete, Handling, Send
  <2> QED BY <1>1, <2>1
<1> QED BY <1>2, <1>3 DEF Sends

\* A machine that registered can be managed until it is removed, for any number of
\* handlers and calls, wherever the super user is known, provided that nobody asks
\* by its name for a machine that does not wait (Register, ipmiReport, deleteMachine,
\* freeMachine, machineCmd).
THEOREM CommandsReach ==
  ASSUME "wanted" \in LifecycleAssumed
  PROVE  LifecycleSpec => CommandsReachBMC
<1>1. LockInv /\ ManagedInv /\ [LifecycleNext]_lifecycleVars => ManagedInv'
  BY ManagedNext DEF Wanted
<1>2. LockInv /\ ManagedInv /\ [LifecycleNext]_lifecycleVars =>
        [/\ machine.there /\ machine'.there /\ machine.credentials => machine'.credentials
         /\ \A h \in Handlers, m \in bus' \ bus : Sends(h) /\ ~m.credentials =>
               /\ handler[h].read.owner = 0
               /\ m.by = "led" => ~SuperUserEnabled(h)]_lifecycleVars
  BY CredentialsStep, SentManaged DEF CredentialsStay
<1> QED BY <1>1, <1>2, ManagedInit, LockInvariant, PTL DEF LifecycleSpec, CommandsReachBMC

----------------------------------------------------------------------------
(* A machine that was allocated is neither wiped nor forgotten.            *)

Rests(s, op, ats) == s.op = op /\ s.at \in ats

\* A machine that waits sends events; one that is free and was not looked at may be
\* allocated meanwhile, but is alive then; what was found dead or wrongly reclaimed
\* does not wait, so that nobody gets it before the call has ended.
Freed(s) == Rests(s, "free", {"publishLED", "publish", "write"}) =>
    machine.there /\ machine.owner = s.read.owner /\ machine.owner # 0
Elects(s) == s.op \in {"byName", "elected"} /\ s.at = "write" => s.read.waiting
Looks(s) ==
    /\ Rests(s, "resurrect", {"look"}) => machine.owner = 0 \/ (box.silent = 0 /\ ~box.failedReclaim)
    /\ Rests(s, "delete", {"look"}) => machine.owner = 0 \/ (box.silent = 0 /\ box.liveliness # "Dead")
Decided(s) ==
    Rests(s, "resurrect", {"publish", "write"}) \/ Rests(s, "delete", {"write"}) =>
        machine.owner = 0 /\ ~machine.waiting
Fit(s) == Freed(s) /\ Elects(s) /\ Looks(s) /\ Decided(s)

Awake == box.there /\ (machine.waiting => box.silent = 0 /\ ~box.failedReclaim /\ box.liveliness # "Dead")
OneFree == \A g, h \in Handlers : handler[g].op = "free" /\ handler[h].op = "free" => g = h
SparedInv ==
    /\ Awake /\ OneFree
    /\ ~machine.there => machine.owner = 0
    /\ \A h \in Handlers : Fit(handler[h])

\* What most steps do: the box gets no worse, the row keeps what this is about, a
\* handler keeps its copy or ends.
BoxEases ==
    /\ box'.there
    /\ box.silent = 0 => box'.silent = 0
    /\ ~box.failedReclaim => ~box'.failedReclaim
    /\ box.silent = 0 /\ box.liveliness # "Dead" => box'.liveliness # "Dead"
RowEases ==
    machine'.there = machine.there /\ machine'.owner = machine.owner /\ (machine'.waiting => machine.waiting)
Alike(s, t) == s.op = t.op /\ s.at = t.at /\ s.read = t.read
OthersStay(h) == \A g \in Handlers \ {h} : Alike(handler'[g], handler[g])
AllStay == \A g \in Handlers : Alike(handler'[g], handler[g])

LEMMA SparedInit == LifecycleInit => SparedInv
<1> SUFFICES ASSUME LifecycleInit PROVE SparedInv
  OBVIOUS
<1>1. machine.there /\ ~machine.waiting
  BY DEF LifecycleInit, NoMachine
<1>2. box.there
  <2>1. NewBox.there /\ [NewBox EXCEPT !.liveliness = "Dead", !.silent = 2].there
    BY DEF NewBox
  <2>2. box = NewBox \/ box = [NewBox EXCEPT !.liveliness = "Dead", !.silent = 2]
    BY DEF LifecycleInit
  <2> QED BY <2>1, <2>2
<1>3. \A h \in Handlers : handler[h].op = "none"
  BY DEF LifecycleInit, Idle
<1> QED BY <1>1, <1>2, <1>3 DEF SparedInv, Awake, OneFree, Fit, Freed, Elects, Looks, Decided, Rests

\* Handlers that keep their copy stay fit when box and row get no worse.
LEMMA StaysFit ==
  ASSUME SparedInv, BoxEases, RowEases, NEW g \in Handlers, Alike(handler'[g], handler[g])
  PROVE  Fit(handler[g])'
<1>1. Fit(handler[g])
  BY DEF SparedInv
<1>2. Freed(handler[g])' /\ Elects(handler[g])'
  BY <1>1 DEF Fit, Freed, Elects, Rests, Alike, RowEases
<1>3. Looks(handler[g])' /\ Decided(handler[g])'
  BY <1>1 DEF Fit, Looks, Decided, Rests, Alike, RowEases, BoxEases
<1> QED BY <1>2, <1>3 DEF Fit

LEMMA EasyKeeps ==
  ASSUME SparedInv, BoxEases, RowEases, NEW h \in Handlers, OthersStay(h),
         handler'[h].op = "none" \/ (handler'[h].op = handler[h].op /\ Fit(handler[h])')
  PROVE  SparedInv'
<1>1. Fit(handler[h])'
  BY DEF Fit, Freed, Elects, Looks, Decided, Rests
<1>2. \A g \in Handlers : Fit(handler[g])'
  BY <1>1, StaysFit DEF OthersStay
<1>3. Awake'
  BY DEF SparedInv, Awake, BoxEases, RowEases
<1>4. OneFree'
  BY DEF SparedInv, OneFree, OthersStay, Alike
<1> QED BY <1>2, <1>3, <1>4 DEF SparedInv, RowEases

LEMMA ForeignKeeps ==
  ASSUME SparedInv, BoxEases, RowEases, AllStay
  PROVE  SparedInv'
<1>1. \A g \in Handlers : Fit(handler[g])'
  BY StaysFit DEF AllStay
<1>2. Awake'
  BY DEF SparedInv, Awake, BoxEases, RowEases
<1>3. OneFree'
  BY DEF SparedInv, OneFree, AllStay, Alike
<1> QED BY <1>1, <1>2, <1>3 DEF SparedInv, RowEases

----------------------------------------------------------------------------
\* The steps of a handler

Careful == LifecycleAssumed = LifecycleAssumptions

LEMMA BoxStays == ASSUME SparedInv, UNCHANGED box PROVE BoxEases
  BY DEF SparedInv, Awake, BoxEases

\* A handler goes on, or ends, with the row as it is.
LEMMA ProceedMoves ==
  ASSUME LockInv, NEW h \in Handlers, NEW s, Proceed(h, s)
  PROVE  handler'[h] = s /\ OthersStay(h) /\ UNCHANGED machine
  BY DEF Proceed, LockInv, RowsTyped, OthersStay, Alike

LEMMA SparedProceed ==
  ASSUME SparedInv, BoxEases, NEW h \in Handlers, UNCHANGED machine, OthersStay(h),
         handler'[h].op = "none" \/ (handler'[h].op = handler[h].op /\ Fit(handler[h])')
  PROVE  SparedInv'
  BY EasyKeeps DEF RowEases

LEMMA SparedEnd ==
  ASSUME LockInv, SparedInv, BoxEases, NEW h \in Handlers, End(h)
  PROVE  SparedInv'
  BY ProceedMoves, SparedProceed, IdleTyped DEF End

\* What a write does to the handlers.
LEMMA WriteMoves ==
  ASSUME LockInv, NEW h \in Handlers, NEW r, NEW next \in HandlerState, WriteAnd(h, r, next)
  PROVE  machine' = r /\ OthersStay(h) /\ Alike(handler'[h], next)
<1>1. \A s \in HandlerState : Alike(Overtaken(s), s)
  BY DEF Overtaken, Alike, HandlerState
<1> QED BY <1>1 DEF WriteAnd, Replaced, OthersStay, LockInv, RowsTyped

\* A write that changes nothing this is about.
LEMMA SparedWrite ==
  ASSUME LockInv, SparedInv, BoxEases, NEW h \in Handlers, NEW r, NEW next \in HandlerState, WriteAnd(h, r, next),
         r.there = machine.there /\ r.owner = machine.owner /\ (r.waiting => machine.waiting),
         \/ next.op = "none"
         \/ next.op = "led" /\ handler[h].op = "led"
         \/ next.op = "free" /\ handler[h].op = "free" /\ next.at = "announce"
  PROVE  SparedInv'
<1>1. machine' = r /\ OthersStay(h) /\ handler'[h].op = next.op /\ handler'[h].at = next.at
  BY WriteMoves DEF Alike
<1>2. RowEases
  BY <1>1 DEF RowEases
<1>3. next.op # "none" => Fit(handler[h])'
  BY <1>1 DEF Fit, Freed, Elects, Looks, Decided, Rests
<1> QED BY <1>1, <1>2, <1>3, EasyKeeps

\* The row that a handler may write is the one it read.
LEMMA CopyIsRow ==
  ASSUME LockInv, NEW h \in Handlers
  PROVE  /\ handler[h] \in HandlerState /\ handler[h].read \in MachineRow /\ machine \in MachineRow
         /\ Unwritten(handler[h]) => handler[h].read = machine
  BY DEF LockInv, RowsTyped, RowCopiesCurrent, Unwritten, HandlerState

\* A row that is created has no owner and does not wait; nobody works on what was not there.
LEMMA CreatedKeeps ==
  ASSUME SparedInv, UNCHANGED box, ~machine.there, machine'.there, machine'.owner = 0, ~machine'.waiting,
         \A g \in Handlers : Alike(handler'[g], handler[g]) \/ handler'[g].op = "none"
  PROVE  SparedInv'
<1>1. machine.owner = 0 /\ Awake /\ OneFree
  BY DEF SparedInv
<1>2. ASSUME NEW g \in Handlers PROVE Fit(handler[g])'
  <2>1. Fit(handler[g])
    BY DEF SparedInv
  <2> QED BY <1>1, <2>1 DEF Fit, Freed, Elects, Looks, Decided, Rests, Alike
<1>3. Awake' /\ OneFree'
  BY <1>1 DEF Awake, OneFree, Alike
<1> QED BY <1>2, <1>3 DEF SparedInv

LEMMA SparedRead == ASSUME LockInv, SparedInv, Careful, NEW h \in Handlers, Read(h) PROVE SparedInv'
<1> DEFINE op == handler[h].op
           seen == IF op = "resurrect" THEN box ELSE handler[h].looked
           s == [handler[h] EXCEPT !.at = After(op), !.read = machine, !.current = TRUE, !.looked = seen]
<1>0. BoxEases
  BY BoxStays DEF Read
<1>1. CASE Accepts(op)
  <2>1. s.op = op /\ s.at = After(op) /\ s.read = machine
    BY CopyIsRow DEF HandlerState
  <2>2. handler'[h] = s /\ OthersStay(h) /\ UNCHANGED machine
    BY <1>1, ProceedMoves DEF Read
  <2>3. UNCHANGED box
    BY DEF Read
  <2>4. op = "free" => machine.there /\ machine.owner # 0
    BY <1>1 DEF Accepts, Careful, LifecycleAssumptions
  <2>5. op \in {"byName", "elected"} => machine.waiting
    BY <1>1 DEF Accepts, Careful, LifecycleAssumptions
  <2>6. op \in {"resurrect", "delete"} => machine.owner = 0 /\ After(op) = "look"
    BY <1>1 DEF Accepts, After
  <2>7. handler'[h].op = handler[h].op /\ handler'[h].at = After(handler[h].op) /\ handler'[h].read = machine
    BY <2>1, <2>2
  <2> HIDE DEF s
  <2>8. Fit(handler[h])'
    BY <2>2, <2>3, <2>4, <2>5, <2>6, <2>7 DEF Fit, Freed, Elects, Looks, Decided, Rests
  <2> QED BY <1>0, <2>2, <2>7, <2>8, SparedProceed
<1>2. CASE ~Accepts(op)
  BY <1>0, <1>2, SparedEnd DEF Read
<1> QED BY <1>1, <1>2

\* Whoever is given the machine found it waiting: it is alive, and no call that found
\* it dead or wrongly reclaimed is about to end.
LEMMA SparedCommit == ASSUME LockInv, SparedInv, NEW h \in Handlers, Commit(h) PROVE SparedInv'
<1> DEFINE r == [handler[h].read EXCEPT !.owner = handler[h].number, !.waiting = FALSE]
<1>0. BoxEases /\ UNCHANGED box
  BY BoxStays DEF Commit
<1>1. CASE machine.there /\ Unwritten(handler[h])
  <2>1. WriteAnd(h, r, Idle)
    BY <1>1 DEF Commit, WriteOrEnd
  <2>2. machine' = r /\ OthersStay(h) /\ handler'[h].op = "none"
    BY <2>1, WriteMoves, IdleTyped DEF Alike
  <2>3. machine.waiting /\ machine.owner = 0
    BY <1>1, CopyIsRow DEF Commit, SparedInv, Fit, Elects, LockInv, Checked, Sound, CommitUnowned
  <2>4. machine'.there /\ ~machine'.waiting
    BY <1>1, <2>2, CopyIsRow DEF MachineRow
  <2>5. ASSUME NEW g \in Handlers PROVE Fit(handler[g])'
    <3>1. Fit(handler[g]) /\ Awake
      BY DEF SparedInv
    <3>2. handler'[g].op = "none" \/ Alike(handler'[g], handler[g])
      BY <2>2 DEF OthersStay
    <3>3. Freed(handler[g])' /\ Elects(handler[g])' /\ Decided(handler[g])'
      BY <2>3, <3>1, <3>2 DEF Fit, Freed, Elects, Decided, Rests, Alike
    <3>4. Looks(handler[g])'
      BY <1>0, <2>3, <3>1, <3>2 DEF Looks, Rests, Alike, Awake
    <3> QED BY <3>3, <3>4 DEF Fit
  <2>6. Awake' /\ OneFree'
    BY <1>0, <2>2, <2>4 DEF SparedInv, Awake, OneFree, OthersStay, Alike
  <2> QED BY <2>4, <2>5, <2>6 DEF SparedInv
<1>2. CASE ~(machine.there /\ Unwritten(handler[h]))
  BY <1>0, <1>2, SparedEnd DEF Commit, WriteOrEnd
<1> QED BY <1>1, <1>2

LEMMA SparedRegister == ASSUME LockInv, SparedInv, NEW h \in Handlers, Register(h) PROVE SparedInv'
<1>0. UNCHANGED box /\ BoxEases
  BY BoxStays DEF Register, SparedInv, Awake
<1>1. CASE ~machine.there /\ WriteAnd(h, [NoMachine EXCEPT !.there = TRUE, !.credentials = TRUE], Idle)
  <2>1. [NoMachine EXCEPT !.there = TRUE, !.credentials = TRUE].there
        /\ [NoMachine EXCEPT !.there = TRUE, !.credentials = TRUE].owner = 0
        /\ ~[NoMachine EXCEPT !.there = TRUE, !.credentials = TRUE].waiting
    BY DEF NoMachine
  <2>2. /\ machine' = [NoMachine EXCEPT !.there = TRUE, !.credentials = TRUE]
        /\ OthersStay(h) /\ handler'[h].op = "none"
    BY <1>1, WriteMoves, IdleTyped DEF Alike
  <2>3. \A g \in Handlers : Alike(handler'[g], handler[g]) \/ handler'[g].op = "none"
    BY <2>2 DEF OthersStay
  <2> QED BY <1>0, <1>1, <2>1, <2>2, <2>3, CreatedKeeps
<1>2. CASE Unwritten(handler[h]) /\ WriteAnd(h, [handler[h].read EXCEPT !.credentials = TRUE], Idle)
  <2> DEFINE r == [handler[h].read EXCEPT !.credentials = TRUE]
  <2>1. r.there = machine.there /\ r.owner = machine.owner /\ r.waiting = machine.waiting
    BY <1>2, CopyIsRow DEF MachineRow
  <2> HIDE DEF r
  <2> QED BY <1>0, <1>2, <2>1, SparedWrite, IdleTyped DEF r
<1>3. CASE End(h)
  BY <1>0, <1>3, SparedEnd
<1> QED BY <1>1, <1>2, <1>3 DEF Register

LEMMA SparedFreeUpdate == ASSUME LockInv, SparedInv, NEW h \in Handlers, FreeUpdate(h) PROVE SparedInv'
<1> DEFINE r == [handler[h].read EXCEPT !.owner = 0]
           next == IF handler[h].op = "free" THEN [handler[h] EXCEPT !.at = "announce"] ELSE Idle
<1>0. BoxEases /\ UNCHANGED box
  BY BoxStays DEF FreeUpdate
<1>1. CASE machine.there /\ Unwritten(handler[h])
  <2>1. WriteAnd(h, r, next)
    BY <1>1 DEF FreeUpdate, WriteOrEnd
  <2>2. r.there = machine.there /\ r.owner = 0 /\ r.waiting = machine.waiting
    BY <1>1, CopyIsRow DEF MachineRow
  <2>3. next \in HandlerState /\ (next.op = "none" \/ (handler[h].op = "free" /\ next.op = "free" /\ next.at = "announce"))
    BY IdleTyped, CopyIsRow DEF HandlerState
  <2> HIDE DEF r, next
  <2>4. machine' = r /\ OthersStay(h) /\ handler'[h].op = next.op /\ handler'[h].at = next.at
    BY <2>1, <2>3, WriteMoves DEF Alike
  <2>5. CASE handler[h].op = "resurrect"
    <3>1. machine.owner = 0
      BY <2>5 DEF FreeUpdate, SparedInv, Fit, Decided, Rests
    <3> QED BY <1>0, <2>1, <2>2, <2>3, <2>5, <3>1, SparedWrite
  <2>6. CASE handler[h].op = "free"
    <3>1. machine.owner # 0
      BY <2>6 DEF FreeUpdate, SparedInv, Fit, Freed, Rests
    <3>2. ASSUME NEW g \in Handlers PROVE Fit(handler[g])'
      <4>1. Fit(handler[g]) /\ (g # h => handler[g].op # "free")
        BY <2>6 DEF SparedInv, OneFree
      <4>2. (g # h /\ Alike(handler'[g], handler[g])) \/ handler'[g].op = "none" \/ (handler'[g].op = "free" /\ handler'[g].at = "announce")
        BY <2>3, <2>4 DEF OthersStay
      <4> QED BY <2>2, <2>4, <3>1, <4>1, <4>2 DEF Fit, Freed, Elects, Looks, Decided, Rests, Alike
    <3>3. Awake' /\ OneFree'
      BY <1>0, <2>2, <2>3, <2>4, <2>6 DEF SparedInv, Awake, OneFree, OthersStay, Alike
    <3> QED BY <2>2, <2>4, <3>2, <3>3 DEF SparedInv
  <2> QED BY <2>5, <2>6 DEF FreeUpdate
<1>2. CASE ~(machine.there /\ Unwritten(handler[h]))
  BY <1>0, <1>2, SparedEnd DEF FreeUpdate, WriteOrEnd
<1> QED BY <1>1, <1>2

\* A machine that is found dead, or with a failed reclaim, has no owner: one that was
\* allocated since it was read was alive, and had no time to fall silent.
LEMMA FoundFree ==
  ASSUME SparedInv, NEW h \in Handlers, ResurrectLook(h) \/ DeleteLook(h)
  PROVE  End(h) \/ (machine.owner = 0 /\ ~machine.waiting)
<1>1. Looks(handler[h]) /\ Awake
  BY DEF SparedInv, Fit
<1>2. CASE ResurrectLook(h)
  BY <1>1, <1>2 DEF ResurrectLook, Handling, Looks, Rests, Awake, ToResurrect, LookedAt
<1>3. CASE DeleteLook(h)
  BY <1>1, <1>3 DEF DeleteLook, Handling, Looks, Rests, Awake
<1> QED BY <1>2, <1>3

LEMMA SparedLook ==
  ASSUME LockInv, SparedInv, NEW h \in Handlers, ResurrectLook(h) \/ DeleteLook(h)
  PROVE  SparedInv'
<1>0. BoxEases /\ UNCHANGED box
  BY BoxStays DEF ResurrectLook, DeleteLook
<1>1. CASE End(h)
  BY <1>0, <1>1, SparedEnd
<1>2. CASE ~End(h)
  <2>1. PICK at \in {"publish", "write"} : Proceed(h, [handler[h] EXCEPT !.at = at])
    BY <1>2 DEF ResurrectLook, DeleteLook
  <2>2. handler'[h] = [handler[h] EXCEPT !.at = at] /\ OthersStay(h) /\ UNCHANGED machine
    BY <2>1, ProceedMoves
  <2>3. handler'[h].op = handler[h].op /\ handler[h].op \in {"resurrect", "delete"}
    BY <2>2, CopyIsRow DEF HandlerState, ResurrectLook, DeleteLook, Handling
  <2>4. handler'[h].at = at
    BY <2>2, CopyIsRow DEF HandlerState
  <2>5. Fit(handler[h])'
    BY <1>2, <2>2, <2>3, <2>4, FoundFree DEF Fit, Freed, Elects, Looks, Decided, Rests
  <2> QED BY <1>0, <2>2, <2>3, <2>5, SparedProceed
<1> QED BY <1>1, <1>2

LEMMA SparedRemove == ASSUME LockInv, SparedInv, NEW h \in Handlers, RemoveRow(h) PROVE SparedInv' /\ machine.owner = 0
<1>1. machine.owner = 0
  BY DEF RemoveRow, Handling, SparedInv, Fit, Decided, Rests
<1>2. machine' = NoMachine /\ OthersStay(h) /\ handler'[h].op = "none" /\ UNCHANGED box
  BY WriteMoves, IdleTyped DEF RemoveRow, Alike
<1>3. ~machine'.there /\ machine'.owner = 0 /\ ~machine'.waiting
  BY <1>2 DEF NoMachine
<1>4. ASSUME NEW g \in Handlers PROVE Fit(handler[g])'
  <2>1. Fit(handler[g])
    BY DEF SparedInv
  <2>2. handler'[g].op = "none" \/ Alike(handler'[g], handler[g])
    BY <1>2 DEF OthersStay
  <2> QED BY <1>1, <1>2, <1>3, <2>1, <2>2 DEF Fit, Freed, Elects, Looks, Decided, Rests, Alike
<1>5. Awake' /\ OneFree'
  BY <1>2, <1>3 DEF SparedInv, Awake, OneFree, OthersStay, Alike
<1> QED BY <1>1, <1>3, <1>4, <1>5 DEF SparedInv

LEMMA SparedStep == ASSUME LockInv, SparedInv, Careful, NEW h \in Handlers, Step(h) PROVE SparedInv'
<1>1. CASE Read(h) \/ Commit(h) \/ Register(h) \/ FreeUpdate(h) \/ ResurrectLook(h) \/ DeleteLook(h) \/ RemoveRow(h)
  BY <1>1, SparedRead, SparedCommit, SparedRegister, SparedFreeUpdate, SparedLook, SparedRemove
<1>2. CASE SetMachineState(h)
  <2> DEFINE r == [handler[h].read EXCEPT !.state = handler[h].to]
  <2>0. BoxEases
    BY <1>2, BoxStays DEF SetMachineState
  <2>1. r.there = handler[h].read.there /\ r.owner = handler[h].read.owner /\ r.waiting = handler[h].read.waiting
    BY CopyIsRow DEF MachineRow
  <2>2. End(h) \/ (Unwritten(handler[h]) /\ WriteAnd(h, r, Idle))
    BY <1>2 DEF SetMachineState, WriteOrEnd
  <2> HIDE DEF r
  <2> QED BY <2>0, <2>1, <2>2, SparedWrite, SparedEnd, CopyIsRow, IdleTyped
<1>3. CASE SwitchLED(h)
  <2> DEFINE r == [handler[h].read EXCEPT !.led = handler[h].to]
             next == [handler[h] EXCEPT !.at = "publish"]
  <2>0. BoxEases
    BY <1>3, BoxStays DEF SwitchLED
  <2>1. r.there = handler[h].read.there /\ r.owner = handler[h].read.owner /\ r.waiting = handler[h].read.waiting
    BY CopyIsRow DEF MachineRow
  <2>2. End(h) \/ (Unwritten(handler[h]) /\ WriteAnd(h, r, next))
    BY <1>3 DEF SwitchLED, WriteOrEnd
  <2>3. next \in HandlerState /\ next.op = "led" /\ handler[h].op = "led"
    BY <1>3, CopyIsRow DEF HandlerState, SwitchLED, Handling
  <2> HIDE DEF r, next
  <2> QED BY <2>0, <2>1, <2>2, <2>3, SparedWrite, SparedEnd, CopyIsRow
<1>4. CASE PublishLED(h)
  BY <1>4, BoxStays, SparedEnd DEF PublishLED
<1>5. ASSUME NEW at \in {"publish", "write"}, Proceed(h, [handler[h] EXCEPT !.at = at]), UNCHANGED box,
             \/ Rests(handler[h], "free", {"publishLED", "publish"})
             \/ Rests(handler[h], "resurrect", {"publish"})
      PROVE  SparedInv'
  <2>1. handler'[h] = [handler[h] EXCEPT !.at = at] /\ OthersStay(h) /\ UNCHANGED machine
    BY <1>5, ProceedMoves
  <2>2. handler'[h].op = handler[h].op /\ handler'[h].at = at /\ handler'[h].read = handler[h].read
    BY <2>1, CopyIsRow DEF HandlerState
  <2>3. Fit(handler[h])'
    BY <1>5, <2>1, <2>2 DEF SparedInv, Fit, Freed, Elects, Looks, Decided, Rests
  <2> QED BY <1>5, <2>1, <2>2, <2>3, BoxStays, SparedProceed
<1>6. CASE FreeLEDOff(h)
  BY <1>5, <1>6 DEF FreeLEDOff, Handling, Rests
<1>7. CASE PublishDelete(h)
  <2>1. CASE End(h)
    BY <1>7, <2>1, BoxStays, SparedEnd DEF PublishDelete
  <2>2. CASE Proceed(h, [handler[h] EXCEPT !.at = "write"])
    BY <1>5, <1>7, <2>2 DEF PublishDelete, Rests
  <2> QED BY <1>7, <2>1, <2>2 DEF PublishDelete
<1>8. CASE FreeAnnounce(h)
  <2>1. BoxEases
    BY <1>8 DEF FreeAnnounce, BoxEases, LockInv, RowsTyped, Box
  <2> QED BY <1>8, <2>1, SparedEnd DEF FreeAnnounce
<1>9. CASE Evaluate(h)
  <2>1. BoxEases
    BY <1>9 DEF Evaluate, Judged, BoxEases, SparedInv, Awake, LockInv, RowsTyped, Box
  <2> QED BY <1>9, <2>1, SparedEnd DEF Evaluate
<1> QED BY <1>1, <1>2, <1>3, <1>4, <1>6, <1>7, <1>8, <1>9 DEF Step

----------------------------------------------------------------------------
\* The other steps

LEMMA SparedCall == ASSUME LockInv, SparedInv, Careful, NEW h \in Handlers, Call(h) PROVE SparedInv'
<1>1. PICK op \in Operations, to \in MStates \cup LEDs :
          Receive(h, op, to) /\ (op = "free" => ~Freeing)
  BY DEF Call, Operations, LEDs, Careful, LifecycleAssumptions
<1>2. /\ handler[h].op = "none" /\ UNCHANGED <<machine, box>> /\ OthersStay(h)
      /\ handler'[h] = [Idle EXCEPT !.op = op, !.to = to, !.number = handled + 1]
  BY <1>1 DEF Receive, OthersStay, Alike, LockInv, RowsTyped
<1>3. handler'[h].op = op /\ handler'[h].at = "read"
  BY <1>2 DEF Idle
<1>4. BoxEases /\ RowEases
  BY <1>2, BoxStays DEF RowEases
<1>5. Fit(handler[h])'
  BY <1>3 DEF Fit, Freed, Elects, Looks, Decided, Rests
<1>6. \A g \in Handlers : Fit(handler[g])'
  BY <1>2, <1>4, <1>5, StaysFit DEF OthersStay
<1>7. Awake'
  BY <1>2 DEF SparedInv, Awake
<1>8. ASSUME NEW f, NEW g, f \in Handlers, g \in Handlers, handler'[f].op = "free", handler'[g].op = "free"
      PROVE  f = g
  <2>1. \A k \in Handlers \ {h} : handler'[k].op = handler[k].op
    BY <1>2 DEF OthersStay, Alike
  <2>2. CASE op = "free"
    <3>1. \A k \in Handlers : handler[k].op # "free"
      BY <1>1, <2>2 DEF Freeing
    <3> QED BY <1>8, <2>1, <3>1
  <2>3. CASE op # "free"
    <3>1. f # h /\ g # h
      BY <1>3, <1>8, <2>3
    <3> QED BY <1>8, <2>1, <3>1 DEF SparedInv, OneFree
  <2> QED BY <2>2, <2>3
<1>9. OneFree'
  BY <1>8 DEF OneFree
<1> QED BY <1>2, <1>6, <1>7, <1>9 DEF SparedInv

LEMMA OvertakenAlike ==
  ASSUME LockInv, handler' = [g \in Handlers |-> Overtaken(handler[g])]
  PROVE  AllStay
<1>1. \A s \in HandlerState : Alike(Overtaken(s), s)
  BY DEF Overtaken, Alike, HandlerState
<1> QED BY <1>1 DEF AllStay, LockInv, RowsTyped

LEMMA SparedReport == ASSUME LockInv, SparedInv, TakeReport \/ ListMachines \/ WriteReport PROVE SparedInv'
<1>0. BoxEases /\ UNCHANGED box
  BY BoxStays DEF TakeReport, ListMachines, WriteReport
<1>1. CASE UNCHANGED <<machine, handler>>
  BY <1>0, <1>1, ForeignKeeps DEF RowEases, AllStay, Alike
<1>2. CASE WriteReport /\ ~UNCHANGED <<machine, handler>>
  <2>1. AllStay
    BY <1>2, OvertakenAlike DEF WriteReport
  <2>2. CASE ~machine.there /\ machine' = [NoMachine EXCEPT !.there = TRUE, !.led = report.led]
    <3>1. machine'.there /\ machine'.owner = 0 /\ ~machine'.waiting
      BY <2>2 DEF NoMachine
    <3> QED BY <1>0, <2>1, <2>2, <3>1, CreatedKeeps DEF AllStay
  <2>3. CASE Unwritten(report) /\ machine' = WithReport(report.read)
    <3>1. report.read = machine /\ machine \in MachineRow
      BY <2>3 DEF LockInv, RowsTyped, RowCopiesCurrent, Unwritten
    <3>2. RowEases
      BY <2>3, <3>1 DEF WithReport, RowEases, MachineRow
    <3> QED BY <1>0, <2>1, <3>2, ForeignKeeps
  <2> QED BY <1>2, <2>2, <2>3 DEF WriteReport
<1> QED BY <1>1, <1>2 DEF TakeReport, ListMachines

LEMMA SparedEnvironment ==
  ASSUME LockInv, SparedInv, Careful, Deliver \/ Boots \/ PhonesHome \/ Tick
  PROVE  SparedInv'
<1>1. CASE Deliver
  BY <1>1, BoxStays, ForeignKeeps DEF Deliver, RowEases, AllStay, Alike
<1>2. ASSUME Boots \/ PhonesHome
      PROVE  \A g \in Handlers : ~Rests(handler[g], "resurrect", {"publish", "write"}) /\ ~Rests(handler[g], "delete", {"write"})
  BY <1>2 DEF Boots, PhonesHome, MayWake, Deciding, Rests, Careful, LifecycleAssumptions
<1>3. CASE Boots
  <2>1. /\ box' = NewBox /\ machine'.there = machine.there /\ machine'.owner = machine.owner
        /\ AllStay
    BY <1>3, OvertakenAlike DEF Boots, Replaced, LockInv, RowsTyped, MachineRow, AllStay, Alike
  <2>2. box'.there /\ box'.silent = 0 /\ ~box'.failedReclaim /\ box'.liveliness # "Dead"
    BY <2>1 DEF NewBox
  <2>3. ASSUME NEW g \in Handlers PROVE Fit(handler[g])'
    <3>1. Fit(handler[g]) /\ Alike(handler'[g], handler[g])
      BY <2>1 DEF SparedInv, AllStay
    <3>2. Freed(handler[g])' /\ Elects(handler[g])'
      BY <2>1, <3>1 DEF Fit, Freed, Elects, Rests, Alike
    <3>3. Looks(handler[g])' /\ Decided(handler[g])'
      BY <1>2, <1>3, <2>2, <3>1 DEF Looks, Decided, Rests, Alike
    <3> QED BY <3>2, <3>3 DEF Fit
  <2>4. Awake' /\ OneFree'
    BY <2>1, <2>2 DEF SparedInv, Awake, OneFree, AllStay, Alike
  <2> QED BY <2>1, <2>3, <2>4 DEF SparedInv
<1>4. CASE PhonesHome
  <2>1. machine.owner = 0 /\ ~machine.waiting /\ box' = [NewBox EXCEPT !.failedReclaim = TRUE]
        /\ UNCHANGED <<machine, handler>>
    BY <1>4 DEF PhonesHome
  <2>2. box'.there
    BY <2>1 DEF NewBox
  <2>3. ASSUME NEW g \in Handlers PROVE Fit(handler[g])'
    <3>1. Fit(handler[g])
      BY DEF SparedInv
    <3> QED BY <2>1, <3>1 DEF Fit, Freed, Elects, Looks, Decided, Rests
  <2>4. Awake' /\ OneFree'
    BY <2>1, <2>2 DEF SparedInv, Awake, OneFree
  <2> QED BY <2>1, <2>3, <2>4 DEF SparedInv
<1>5. CASE Tick
  <2>1. \A g \in Handlers : handler[g].op = "none"
    BY <1>5 DEF Tick, Careful, LifecycleAssumptions
  <2>2. AllStay /\ machine'.there = machine.there /\ machine'.owner = machine.owner /\ ~machine'.waiting
    BY <1>5, OvertakenAlike DEF Tick, Replaced, LockInv, RowsTyped, MachineRow, AllStay, Alike
  <2>3. box'.there
    BY <1>5 DEF Tick, SparedInv, Awake, LockInv, RowsTyped, Box
  <2>4. \A g \in Handlers : Fit(handler[g])'
    BY <2>1, <2>2 DEF AllStay, Alike, Fit, Freed, Elects, Looks, Decided, Rests
  <2>5. Awake' /\ OneFree'
    BY <2>2, <2>3 DEF SparedInv, Awake, OneFree, AllStay, Alike
  <2> QED BY <2>2, <2>4, <2>5 DEF SparedInv
<1> QED BY <1>1, <1>3, <1>4, <1>5

LEMMA SparedNext == LockInv /\ SparedInv /\ Careful /\ [LifecycleNext]_lifecycleVars => SparedInv'
<1> SUFFICES ASSUME LockInv, SparedInv, Careful, [LifecycleNext]_lifecycleVars PROVE SparedInv'
  OBVIOUS
<1>1. CASE UNCHANGED lifecycleVars
  BY <1>1, BoxStays, ForeignKeeps DEF lifecycleVars, RowEases, AllStay, Alike
<1> QED BY <1>1, SparedCall, SparedStep, SparedReport, SparedEnvironment DEF LifecycleNext

\* A row disappears only by deleteMachine.
LEMMA RowStays ==
  ASSUME LockInv, LifecycleNext, machine.there, ~machine'.there
  PROVE  \E h \in Handlers : RemoveRow(h)
<1>0. machine \in MachineRow
  BY DEF LockInv, RowsTyped
<1>1. ASSUME NEW h \in Handlers, Step(h), ~RemoveRow(h) PROVE FALSE
  <2>1. handler[h].current => handler[h].read = machine
    BY DEF LockInv, RowCopiesCurrent
  <2> QED BY <1>0, <1>1, <2>1 DEF Step, Read, SetMachineState, Commit, Register, SwitchLED, PublishLED, FreeLEDOff,
      PublishDelete, FreeUpdate, FreeAnnounce, ResurrectLook, DeleteLook, Evaluate, WriteOrEnd, WriteAnd, Replaced,
      End, Proceed, Unwritten, MachineRow
<1>2. CASE WriteReport \/ Boots \/ Tick
  <2>1. report.current => report.read = machine
    BY DEF LockInv, RowCopiesCurrent
  <2> QED BY <1>0, <1>2, <2>1 DEF WriteReport, WithReport, Boots, Tick, Replaced, Unwritten, MachineRow
<1> QED BY <1>1, <1>2 DEF LifecycleNext, Call, Receive, TakeReport, ListMachines, Deliver, PhonesHome

\* A machine that was allocated is neither wiped nor forgotten by a call that found it
\* free or found another owner (ResurrectMachines, freeMachine, deleteMachine), for any
\* number of handlers and calls, if calls take less than MachineDeadAfter, a machine that
\* was found dead stays so while they last, machines are asked for only while they wait,
\* and an allocation is freed by one call.
THEOREM AllocatedAreSpared ==
  ASSUME LifecycleAssumed = LifecycleAssumptions
  PROVE  LifecycleSpec => AllocatedSpared
<1>1. LockInv /\ SparedInv /\ [LifecycleNext]_lifecycleVars => SparedInv'
  BY SparedNext DEF Careful
<1>2. LockInv /\ SparedInv /\ [LifecycleNext]_lifecycleVars =>
        [/\ \A h \in Handlers : Wipes(h) => machine.owner \in {0, handler[h].read.owner}
         /\ machine.there /\ ~machine'.there => machine.owner = 0]_lifecycleVars
  <2> SUFFICES ASSUME LockInv, SparedInv, LifecycleNext
               PROVE  /\ \A h \in Handlers : Wipes(h) => machine.owner \in {0, handler[h].read.owner}
                      /\ machine.there /\ ~machine'.there => machine.owner = 0
    OBVIOUS
  <2>1. ASSUME NEW h \in Handlers, Wipes(h) PROVE machine.owner \in {0, handler[h].read.owner}
    BY <2>1 DEF Wipes, PublishDelete, SparedInv, Fit, Freed, Decided, Rests
  <2>2. ASSUME machine.there, ~machine'.there PROVE machine.owner = 0
    BY <2>2, RowStays, SparedRemove
  <2> QED BY <2>1, <2>2
<1> QED BY <1>1, <1>2, SparedInit, LockInvariant, PTL DEF LifecycleSpec, AllocatedSpared

----------------------------------------------------------------------------
(* A run of the migrations goes up to a version, through all up to it.     *)

Ascends(s, vs) == s \in [1..Cardinality(vs) -> vs] /\ \A i, k \in 1..Cardinality(vs) : i < k => s[i] < s[k]

\* A finite set of numbers has an order.
LEMMA Orders ==
  ASSUME NEW vs \in SUBSET Nat, IsFiniteSet(vs)
  PROVE  \E s : Ascends(s, vs)
<1> DEFINE n == Cardinality(vs)
           upto(x) == {y \in vs : y <= x}
           rank == [x \in vs |-> Cardinality(upto(x))]
<1>1. n \in Nat /\ \A x \in vs : x \in Nat
  BY FS_CardinalityType
<1>2. ASSUME NEW x \in vs PROVE rank[x] \in 1..n
  <2>1. upto(x) \in SUBSET vs /\ x \in upto(x)
    OBVIOUS
  <2>2. IsFiniteSet(upto(x)) /\ Cardinality(upto(x)) <= n
    BY <2>1, FS_Subset
  <2>3. Cardinality(upto(x)) \in Nat /\ Cardinality(upto(x)) # 0
    BY <2>1, <2>2, FS_CardinalityType, FS_EmptySet
  <2> QED BY <1>1, <2>2, <2>3
<1>3. ASSUME NEW x \in vs, NEW y \in vs, x < y PROVE rank[x] < rank[y]
  <2>1. upto(x) \in SUBSET upto(y) /\ y \in upto(y) /\ y \notin upto(x)
    <3>1. x \in Nat /\ y \in Nat /\ x < y
      BY <1>1, <1>3
    <3>2. \A z \in vs : z <= x => z <= y
      BY <1>1, <3>1
    <3>3. ~(y <= x) /\ y <= y
      BY <3>1
    <3> QED BY <3>2, <3>3
  <2>2. IsFiniteSet(upto(y))
    BY FS_Subset
  <2>3. Cardinality(upto(x)) <= Cardinality(upto(y)) /\ Cardinality(upto(x)) # Cardinality(upto(y))
    BY <2>1, <2>2, FS_Subset
  <2> QED BY <1>2, <2>3
<1>4. rank \in Injection(vs, 1..n)
  <2>1. ASSUME NEW x \in vs, NEW y \in vs, rank[x] = rank[y] PROVE x = y
    <3>1. x \in Nat /\ y \in Nat /\ rank[x] \in Nat
      BY <1>1, <1>2
    <3> HIDE DEF rank
    <3>2. ~(x < y) /\ ~(y < x)
      BY <1>3, <2>1, <3>1
    <3> QED BY <3>1, <3>2
  <2>2. rank \in [vs -> 1..n]
    BY <1>2
  <2> QED BY <2>1, <2>2 DEF Injection, IsInjective
<1>5. rank \in Surjection(vs, 1..n)
  <2>1. IsFiniteSet(1..n) /\ Cardinality(1..n) = n
    BY <1>1, FS_Interval
  <2> QED BY <1>4, <2>1, FS_Injection
<1> DEFINE s == [i \in 1..n |-> CHOOSE x \in vs : rank[x] = i]
<1>6. \A i \in 1..n : s[i] \in vs /\ rank[s[i]] = i
  BY <1>5 DEF Surjection
<1>7. ASSUME NEW i \in 1..n, NEW k \in 1..n, i < k PROVE s[i] < s[k]
  <2>1. /\ s[k] \in vs /\ s[i] \in vs /\ rank[s[i]] = i /\ rank[s[k]] = k
        /\ s[k] \in Nat /\ s[i] \in Nat
    BY <1>1, <1>6
  <2> HIDE DEF s, rank, n
  <2>2. i \in Nat /\ k \in Nat /\ ~(k < i) /\ i # k
    BY <1>1, <1>7
  <2>3. ~(s[k] < s[i]) /\ s[i] # s[k]
    BY <1>3, <2>1, <2>2
  <2> QED BY <2>1, <2>3
<1>8. Ascends(s, vs)
  <2>1. s \in [1..n -> vs]
    BY <1>6
  <2> QED BY <2>1, <1>7 DEF Ascends
<1> QED BY <1>8

\* A plan goes up, and through everything in the set it was made of (Between).
LEMMA SortedGoesUp ==
  ASSUME NEW vs \in SUBSET Nat, IsFiniteSet(vs)
  PROVE  /\ Sorted(vs) \in Seq(vs)
         /\ \A i, k \in DOMAIN Sorted(vs) : i < k => Sorted(vs)[i] < Sorted(vs)[k]
         /\ \A v \in vs : \E k \in DOMAIN Sorted(vs) : Sorted(vs)[k] = v
<1> DEFINE n == Cardinality(vs)
           s == Sorted(vs)
<1>1. n \in Nat /\ \A x \in vs : x \in Nat
  BY FS_CardinalityType
<1>2. s \in [1..n -> vs] /\ \A i, k \in 1..n : i < k => s[i] < s[k]
  BY Orders DEF Sorted, Ascends
<1> HIDE DEF s
<1>3. s \in Injection(1..n, vs)
  <2>1. ASSUME NEW i \in 1..n, NEW k \in 1..n, s[i] = s[k] PROVE i = k
    <3>1. s[i] \in Nat /\ s[k] \in Nat
      BY <1>1, <1>2
    <3>2. ~(s[i] < s[k]) /\ ~(s[k] < s[i])
      BY <2>1, <3>1
    <3>3. ~(i < k) /\ ~(k < i)
      BY <1>2, <3>2
    <3> QED BY <1>1, <3>3
  <2> QED BY <1>2, <2>1 DEF Injection, IsInjective
<1>4. s \in Surjection(1..n, vs)
  <2>1. IsFiniteSet(1..n) /\ Cardinality(1..n) = n
    BY <1>1, FS_Interval
  <2> QED BY <1>3, <2>1, FS_Injection
<1>5. s \in Seq(vs) /\ DOMAIN s = 1..n
  BY <1>1, <1>2
<1> QED BY <1>2, <1>4, <1>5 DEF s, Surjection

\* The registered versions are a finite set of numbers.
LEMMA VersionsFinite == Versions \in SUBSET Nat /\ IsFiniteSet(Versions)
<1>1. Registered \in Seq(Nat \ {0})
  BY MigrationsAssumption
<1>2. Len(Registered) \in Nat /\ DOMAIN Registered = 1..Len(Registered)
  BY <1>1
<1>3. Registered \in Surjection(1..Len(Registered), Versions)
  BY <1>1, <1>2 DEF Versions, Range, Surjection
<1>4. IsFiniteSet(1..Len(Registered))
  BY <1>2, FS_Interval
<1>5. IsFiniteSet(Versions)
  BY <1>3, <1>4, FS_Surjection
<1>6. Versions \subseteq Nat
  BY <1>1, <1>2 DEF Versions, Range
<1> QED BY <1>5, <1>6

\* There is a newest version.
LEMMA LatestIsOne == Versions # {} => Latest \in Versions /\ \A w \in Versions : w <= Latest
<1> SUFFICES ASSUME Versions # {} PROVE \E v \in Versions : \A w \in Versions : w <= v
  BY DEF Latest
<1> DEFINE s == Sorted(Versions)
<1>1. /\ s \in Seq(Versions)
      /\ \A i, k \in DOMAIN s : i < k => s[i] < s[k]
      /\ \A v \in Versions : \E k \in DOMAIN s : s[k] = v
  BY VersionsFinite, SortedGoesUp
<1> HIDE DEF s
<1>2. DOMAIN s = 1..Len(s) /\ Len(s) \in Nat /\ DOMAIN s # {}
  BY <1>1
<1>5. \A v \in Versions : v \in Nat
  BY VersionsFinite
<1>3. Len(s) \in DOMAIN s /\ s[Len(s)] \in Versions
  BY <1>1, <1>2
<1>4. \A k \in DOMAIN s : s[k] <= s[Len(s)]
  <2> TAKE k \in DOMAIN s
  <2>1. s[k] \in Nat /\ s[Len(s)] \in Nat
    BY <1>1, <1>3, <1>5
  <2> QED BY <1>1, <1>2, <1>3, <2>1
<1> QED BY <1>1, <1>3, <1>4

----------------------------------------------------------------------------
(* What holds while the migrations run.                                    *)

Running == {"revoke", "list", "write", "remove", "record"}
JobRow == [at : Running \cup {"off", "version", "grant"}, plan : Seq(Versions),
           left : SUBSET (Rows \cup Bookings \cup {"network"}),
           current : SUBSET (Rows \cup Bookings \cup {"network"})]

MigrationsTyped ==
    /\ version \in Versions \cup {0} /\ writable \in BOOLEAN /\ length \in BOOLEAN
    /\ form \in [Rows -> {"old", "new"}]
    /\ booked \subseteq Bookings /\ reserved \in [Bookings -> Nat]
    /\ copied \in {"unset", "own", "default"}
    /\ job \in [Jobs -> JobRow]

OneRuns == \A j, k \in Jobs : ~JobAt(j, "off") /\ ~JobAt(k, "off") => j = k

\* A plan goes up from the version, and leaves no registered one out.
GoesUp(plan) ==
    /\ plan # <<>>
    /\ \A i, k \in DOMAIN plan : i < k => plan[i] < plan[k]
    /\ \A k \in DOMAIN plan : version < plan[k]
    /\ \A k \in DOMAIN plan : \A v \in Versions :
          version < v /\ v <= plan[k] => \E i \in DOMAIN plan : plan[i] = v
PlansGoUp == \A j \in Jobs : job[j].at \in Running => GoesUp(job[j].plan)

DoneAt(v) == v <= version \/ \E j \in Jobs : JobAt(j, "record") /\ Doing(j) = v
Handles(j, kind, ats) == job[j].at \in ats /\ KindOf[Doing(j)] = kind

\* Rows in the old form are those that are still to be converted.
ConvertsAll ==
    /\ \A v \in Versions : KindOf[v] = "convert" /\ DoneAt(v) =>
          \A r \in Rows : VersionOf[r] = v => form[r] = "new"
    /\ \A j \in Jobs : Handles(j, "convert", {"write"}) =>
          /\ job[j].left \subseteq {r \in Rows : VersionOf[r] = Doing(j)}
          /\ \A r \in Rows : VersionOf[r] = Doing(j) /\ r \notin job[j].left => form[r] = "new"
    /\ \A j \in Jobs : ~Handles(j, "convert", {"remove"})

\* The sizes have their reservations until each of them has one row in the new table.
MovesAll ==
    /\ booked \in {Bookings, {}}
    /\ \A v \in Versions : KindOf[v] = "move" /\ DoneAt(v) => booked = {}
    /\ booked = {} => \A b \in Bookings : reserved[b] = 1
    /\ \A j \in Jobs : Handles(j, "move", {"write", "remove"}) =>
          /\ job[j].left \subseteq booked /\ (JobAt(j, "remove") => job[j].left = {})
          /\ \A b \in booked : reserved[b] = IF b \in job[j].left THEN 0 ELSE 1
    /\ (\A j \in Jobs : ~Handles(j, "move", {"write", "remove"})) => \A b \in booked : reserved[b] = 0

\* The partition has its length until it was copied.
CopiesOnce ==
    /\ \A v \in Versions : KindOf[v] = "copy" /\ (DoneAt(v) \/ ~length) => DoneAt(v) /\ copied = "own"
    /\ \A j \in Jobs : Handles(j, "copy", {"write", "remove"}) =>
          /\ job[j].left \subseteq {"network"}
          /\ JobAt(j, "remove") \/ job[j].left = {} => copied = "own"

MigrationsInv == MigrationsTyped /\ OneRuns /\ PlansGoUp /\ ConvertsAll /\ MovesAll /\ CopiesOnce

Alone(j) == \A k \in Jobs \ {j} : JobAt(k, "off")

\* What a job that runs is doing: the next version, with none before it.
LEMMA DoingNext ==
  ASSUME MigrationsInv, NEW j \in Jobs, job[j].at \in Running
  PROVE  /\ Alone(j) /\ Doing(j) \in Versions /\ version < Doing(j)
         /\ job[j].plan \in Seq(Versions) /\ job[j].plan # <<>> /\ job[j].plan[1] = Doing(j)
         /\ \A v \in Versions : v <= Doing(j) => v <= version \/ v = Doing(j)
<1>1. job[j] \in JobRow /\ GoesUp(job[j].plan) /\ Alone(j)
  BY DEF MigrationsInv, MigrationsTyped, PlansGoUp, OneRuns, Alone, JobAt, Running
<1> DEFINE plan == job[j].plan
<1>2. plan \in Seq(Versions) /\ plan # <<>>
  BY <1>1 DEF JobRow, GoesUp
<1>3. 1 \in DOMAIN plan /\ Doing(j) = plan[1] /\ DOMAIN plan = 1..Len(plan) /\ Len(plan) \in Nat
  BY <1>2 DEF Doing
<1>4. \A i \in DOMAIN plan : plan[i] \in Versions
  BY <1>2
<1>5. version < Doing(j) /\ Doing(j) \in Versions
  BY <1>1, <1>3, <1>4 DEF GoesUp
<1>6. \A v \in Versions \cup {0} : v \in Nat
  BY VersionsFinite
<1>7. ASSUME NEW v \in Versions, v <= Doing(j), ~(v <= version) PROVE v = Doing(j)
  <2>1. v \in Nat /\ version \in Nat /\ version < v
    BY <1>6, <1>7 DEF MigrationsInv, MigrationsTyped
  <2>2. PICK i \in DOMAIN plan : plan[i] = v
    BY <1>1, <1>3, <1>7, <2>1 DEF GoesUp
  <2>3. 1 < i => plan[1] < v
    BY <1>1, <1>3, <2>2 DEF GoesUp
  <2>4. Doing(j) \in Nat
    BY <1>5, <1>6
  <2> QED BY <1>3, <1>7, <2>1, <2>2, <2>3, <2>4
<1> QED BY <1>1, <1>2, <1>3, <1>5, <1>7

\* Nothing is done by a version that is still to come.
LEMMA NotDone ==
  ASSUME MigrationsInv, NEW j \in Jobs, job[j].at \in Running \ {"record"}
  PROVE  ~DoneAt(Doing(j))
<1>1. Alone(j) /\ version < Doing(j) /\ Doing(j) \in Versions
  BY DoingNext
<1>2. Doing(j) \in Nat /\ version \in Nat
  <2>1. \A v \in Versions \cup {0} : v \in Nat
    BY VersionsFinite
  <2> QED BY <1>1, <2>1 DEF MigrationsInv, MigrationsTyped
<1> QED BY <1>1, <1>2 DEF DoneAt, Alone, JobAt

\* Nothing is done in the beginning (initializeTables).
LEMMA MigrationsInvInit == MigrationsInit => MigrationsInv
<1> SUFFICES ASSUME MigrationsInit PROVE MigrationsInv
  OBVIOUS
<1>1. MigrationsTyped
  BY DEF MigrationsInit, MigrationsTyped, JobRow, Running, Off
<1>2. \A j \in Jobs : job[j].at = "off"
  BY DEF MigrationsInit, Off
<1>3. \A v \in Versions : ~DoneAt(v)
  <2> TAKE v \in Versions
  <2>1. v \in Nat \ {0}
    BY MigrationsAssumption DEF Versions, Range
  <2> QED BY <1>2, <2>1 DEF DoneAt, JobAt, MigrationsInit
<1> QED BY <1>1, <1>2, <1>3 DEF MigrationsInit, MigrationsInv, OneRuns, PlansGoUp, Running, ConvertsAll, MovesAll,
      CopiesOnce, Handles, JobAt

\* A step of a job that nobody else runs next to.
LEMMA JobMoves ==
  ASSUME MigrationsInv, NEW j \in Jobs, Alone(j), NEW next \in JobRow, Go(j, next)
  PROVE  /\ job' \in [Jobs -> JobRow] /\ job'[j] = next
         /\ \A k \in Jobs \ {j} : job'[k].at = "off"
         /\ OneRuns'
<1>1. job \in [Jobs -> JobRow]
  BY DEF MigrationsInv, MigrationsTyped
<1>2. job' \in [Jobs -> JobRow] /\ job'[j] = next /\ \A k \in Jobs \ {j} : job'[k] = job[k]
  BY <1>1 DEF Go
<1> QED BY <1>2 DEF Alone, JobAt, OneRuns

\* A step that changes no data, and is not in a migration that cannot be repeated.
LEMMA QuietStep ==
  ASSUME MigrationsInv, NEW j \in Jobs, Alone(j), NEW next \in JobRow, Go(j, next), ~Unrepeatable(j),
         next.at \notin {"write", "remove", "record"}, next.at \in Running => GoesUp(next.plan),
         UNCHANGED <<version, data>>, writable' \in BOOLEAN
  PROVE  MigrationsInv'
<1>1. /\ job' \in [Jobs -> JobRow] /\ job'[j] = next /\ OneRuns'
      /\ \A k \in Jobs \ {j} : job'[k].at = "off"
  BY JobMoves
<1>2. UNCHANGED <<version, form, booked, reserved, length, copied>>
  BY DEF data
<1>3. \A k \in Jobs : job'[k].at \notin {"write", "remove", "record"}
  BY <1>1
<1>4. MigrationsTyped'
  BY <1>1, <1>2 DEF MigrationsInv, MigrationsTyped
<1>5. PlansGoUp'
  BY <1>1, <1>2 DEF PlansGoUp, GoesUp, Running
<1>6. \A v \in Versions : DoneAt(v)' <=> v <= version
  BY <1>2, <1>3 DEF DoneAt, JobAt
<1>7. \A v \in Versions : DoneAt(v) /\ ~(v <= version) => KindOf[v] = "convert"
  BY DEF DoneAt, Alone, JobAt, Unrepeatable
<1>8. \A k \in Jobs : ~Handles(k, "move", {"write", "remove"})
  BY DEF Handles, Alone, JobAt, Unrepeatable
<1>9. \A k \in Jobs, kind \in {"convert", "move", "copy"} : ~Handles(k, kind, {"write", "remove"})' /\ ~Handles(k, kind, {"write"})' /\ ~Handles(k, kind, {"remove"})'
  BY <1>3 DEF Handles
<1>10. ConvertsAll'
  BY <1>2, <1>6, <1>9 DEF MigrationsInv, ConvertsAll, DoneAt
<1>11. MovesAll'
  BY <1>2, <1>6, <1>8, <1>9 DEF MigrationsInv, MovesAll, DoneAt
<1>12. CopiesOnce'
  <2>1. ASSUME NEW v \in Versions, KindOf[v] = "copy", (DoneAt(v) \/ ~length)' PROVE DoneAt(v)' /\ copied' = "own"
    <3>1. DoneAt(v) /\ copied = "own"
      BY <1>2, <1>6, <2>1 DEF MigrationsInv, CopiesOnce, DoneAt
    <3>2. v <= version
      BY <1>7, <2>1, <3>1
    <3> QED BY <1>2, <1>6, <3>1, <3>2
  <2> QED BY <1>9, <2>1 DEF CopiesOnce
<1> QED BY <1>1, <1>4, <1>5, <1>10, <1>11, <1>12 DEF MigrationsInv

\* A step of somebody else, who changes neither the version nor the data.
LEMMA AsideStep ==
  ASSUME MigrationsInv, UNCHANGED <<version, data>>, writable' \in BOOLEAN, job' \in [Jobs -> JobRow],
         \A j \in Jobs : job'[j].at = job[j].at /\ job'[j].plan = job[j].plan /\ job'[j].left = job[j].left
  PROVE  MigrationsInv'
<1>1. UNCHANGED <<version, form, booked, reserved, length, copied>>
  BY DEF data
<1>2. \A j \in Jobs : Doing(j)' = Doing(j)
  BY DEF Doing
<1>3. \A v \in Versions : DoneAt(v)' <=> DoneAt(v)
  BY <1>1, <1>2 DEF DoneAt, JobAt
<1>4. MigrationsTyped' /\ OneRuns' /\ PlansGoUp'
  BY <1>1 DEF MigrationsInv, MigrationsTyped, OneRuns, PlansGoUp, GoesUp, JobAt
<1>5. ConvertsAll'
  BY <1>1, <1>2, <1>3 DEF MigrationsInv, ConvertsAll, Handles
<1>6. MovesAll'
  BY <1>1, <1>2, <1>3 DEF MigrationsInv, MovesAll, Handles, JobAt
<1>7. CopiesOnce'
  BY <1>1, <1>2, <1>3 DEF MigrationsInv, CopiesOnce, Handles, JobAt
<1> QED BY <1>4, <1>5, <1>6, <1>7 DEF MigrationsInv


\* A step within the migration that a job is doing.
LEMMA WithinMigration ==
  ASSUME MigrationsInv, NEW j \in Jobs, job[j].at \in {"list", "write", "remove"}, NEW next \in JobRow, Go(j, next),
         next.at \in {"write", "remove", "record"}, next.plan = job[j].plan, version' = version
  PROVE  /\ job' \in [Jobs -> JobRow] /\ job'[j] = next /\ OneRuns' /\ PlansGoUp'
         /\ Doing(j)' = Doing(j) /\ Doing(j) \in Versions
         /\ \A k \in Jobs \ {j} : job[k].at = "off" /\ job'[k].at = "off"
         /\ \A v \in Versions : DoneAt(v) <=> v <= version
         /\ \A v \in Versions : DoneAt(v)' <=> (v <= version \/ (next.at = "record" /\ v = Doing(j)))
         /\ ~DoneAt(Doing(j))
<1>1. Alone(j) /\ Doing(j) \in Versions
  BY DoingNext DEF Running
<1>2. /\ job' \in [Jobs -> JobRow] /\ job'[j] = next /\ OneRuns'
      /\ \A k \in Jobs \ {j} : job'[k].at = "off"
  BY <1>1, JobMoves
<1>3. Doing(j)' = Doing(j)
  BY <1>2 DEF Doing
<1>4. PlansGoUp'
  BY <1>2 DEF PlansGoUp, GoesUp, Running, MigrationsInv
<1>5. \A v \in Versions : DoneAt(v) <=> v <= version
  BY <1>1 DEF DoneAt, Alone, JobAt
<1>6. \A v \in Versions : DoneAt(v)' <=> (v <= version \/ (next.at = "record" /\ v = Doing(j)))
  BY <1>2, <1>3 DEF DoneAt, JobAt
<1>7. ~DoneAt(Doing(j))
  BY NotDone DEF Running
<1> QED BY <1>1, <1>2, <1>3, <1>4, <1>5, <1>6, <1>7 DEF Alone, JobAt

LEMMA ListStep == ASSUME MigrationsInv, NEW j \in Jobs, List(j) PROVE MigrationsInv'
<1> DEFINE next == [job[j] EXCEPT !.at = "write", !.left = Found(Doing(j)), !.current = Found(Doing(j))]
<1>1. job[j] \in JobRow /\ job[j].at = "list" /\ Go(j, next)
      /\ UNCHANGED <<version, writable, form, booked, reserved, length, copied>>
  BY DEF MigrationsInv, MigrationsTyped, List, data, JobAt
<1>2. Found(Doing(j)) \subseteq Rows \cup Bookings \cup {"network"}
  BY DEF Found, MigrationsInv, MigrationsTyped
<1>3. next \in JobRow /\ next.at = "write" /\ next.plan = job[j].plan /\ next.left = Found(Doing(j))
  BY <1>1, <1>2 DEF JobRow, Running
<1> HIDE DEF next
<1>4. /\ job' \in [Jobs -> JobRow] /\ job'[j] = next /\ OneRuns' /\ PlansGoUp'
      /\ Doing(j)' = Doing(j) /\ Doing(j) \in Versions
      /\ \A k \in Jobs \ {j} : job[k].at = "off" /\ job'[k].at = "off"
      /\ \A v \in Versions : DoneAt(v) <=> v <= version
      /\ \A v \in Versions : DoneAt(v)' <=> v <= version
      /\ ~DoneAt(Doing(j))
  BY <1>1, <1>3, WithinMigration
<1>5. MigrationsTyped'
  BY <1>1, <1>4 DEF MigrationsInv, MigrationsTyped
<1>6. ConvertsAll'
  BY <1>1, <1>3, <1>4 DEF MigrationsInv, MigrationsTyped, ConvertsAll, Handles, Found
<1>7. MovesAll'
  BY <1>1, <1>3, <1>4 DEF MigrationsInv, MigrationsTyped, MovesAll, Handles, Found, JobAt
<1>8. CopiesOnce'
  <2>1. KindOf[Doing(j)] \in {"convert", "move", "copy"}
    BY <1>4, MigrationsAssumption
  <2> QED BY <1>1, <1>3, <1>4, <2>1 DEF MigrationsInv, CopiesOnce, Handles, Found, JobAt
<1> QED BY <1>4, <1>5, <1>6, <1>7, <1>8 DEF MigrationsInv

\* A step that writes, of a migration that is not recorded yet.
LEMMA ConvertStep ==
  ASSUME MigrationsInv, NEW j \in Jobs, JobAt(j, "write"), NEW r \in job[j].left, Convert(j, r)
  PROVE  MigrationsInv'
<1>1. job \in [Jobs -> JobRow] /\ job[j].at = "write" /\ KindOf[Doing(j)] = "convert"
      /\ UNCHANGED <<version, writable, booked, reserved, length, copied>>
  BY DEF MigrationsInv, MigrationsTyped, Convert, JobAt
<1>2. Alone(j)
  BY <1>1, DoingNext DEF Running
<1>3. CASE r \in job[j].current
  <2> DEFINE next == [job[j] EXCEPT !.left = @ \ {r}]
  <2>1. next \in JobRow /\ next.at = "write" /\ next.plan = job[j].plan /\ next.left = job[j].left \ {r}
    BY <1>1 DEF JobRow
  <2>2. /\ form' = [form EXCEPT ![r] = "new"]
        /\ job' = [k \in Jobs |-> IF k = j THEN next ELSE [job[k] EXCEPT !.current = @ \ {r}]]
    BY <1>3 DEF Convert
  <2> HIDE DEF next
  <2>3. \A k \in Jobs : [job[k] EXCEPT !.current = @ \ {r}] \in JobRow
                     /\ [job[k] EXCEPT !.current = @ \ {r}].at = job[k].at
    BY <1>1 DEF JobRow
  <2>4. job' \in [Jobs -> JobRow] /\ job'[j] = next /\ \A k \in Jobs \ {j} : job[k].at = "off" /\ job'[k].at = "off"
    BY <1>2, <2>1, <2>2, <2>3 DEF Alone, JobAt
  <2>5. Doing(j)' = Doing(j) /\ Doing(j) \in Versions
    BY <1>1, <2>1, <2>4, DoingNext DEF Doing, Running
  <2>6. \A v \in Versions : DoneAt(v)' <=> DoneAt(v)
    BY <1>1, <2>1, <2>4 DEF DoneAt, JobAt
  <2>7. ~DoneAt(Doing(j))
    BY <1>1, NotDone DEF Running
  <2>8. /\ r \in Rows /\ VersionOf[r] = Doing(j)
        /\ form \in [Rows -> {"old", "new"}]
    BY <1>1 DEF MigrationsInv, MigrationsTyped, ConvertsAll, Handles
  <2>9. form' \in [Rows -> {"old", "new"}] /\ form'[r] = "new" /\ \A q \in Rows \ {r} : form'[q] = form[q]
    BY <2>2, <2>8
  <2>10. MigrationsTyped' /\ OneRuns' /\ PlansGoUp'
    BY <1>1, <2>1, <2>4, <2>9 DEF MigrationsInv, MigrationsTyped, OneRuns, PlansGoUp, GoesUp, JobAt, Running
  <2>11. ConvertsAll'
    BY <1>1, <2>1, <2>4, <2>5, <2>6, <2>7, <2>8, <2>9 DEF MigrationsInv, ConvertsAll, Handles
  <2>12. \A k \in Jobs, kind \in {"move", "copy"} :
            /\ ~Handles(k, kind, {"write", "remove"}) /\ ~Handles(k, kind, {"write", "remove"})'
    BY <1>1, <2>1, <2>4, <2>5 DEF Handles
  <2>13. MovesAll'
    BY <1>1, <2>6, <2>12 DEF MigrationsInv, MovesAll
  <2>14. CopiesOnce'
    BY <1>1, <2>6, <2>12 DEF MigrationsInv, CopiesOnce
  <2> QED BY <2>10, <2>11, <2>13, <2>14 DEF MigrationsInv
<1>4. CASE r \notin job[j].current
  <2> DEFINE next == [job[j] EXCEPT !.at = "grant"]
  <2>1. next \in JobRow /\ next.at = "grant" /\ Go(j, next) /\ UNCHANGED <<version, data>>
    BY <1>1, <1>4 DEF JobRow, Convert, JobTo, data
  <2>2. ~Unrepeatable(j) /\ writable' \in BOOLEAN
    BY <1>1 DEF Unrepeatable, MigrationsInv, MigrationsTyped
  <2> QED BY <1>2, <2>1, <2>2, QuietStep DEF Running
<1> QED BY <1>3, <1>4

LEMMA MoveStep ==
  ASSUME MigrationsInv, NEW j \in Jobs, JobAt(j, "write"), NEW b \in job[j].left, Move(j, b)
  PROVE  MigrationsInv'
<1> DEFINE next == [job[j] EXCEPT !.left = @ \ {b}]
<1>1. job[j] \in JobRow /\ job[j].at = "write" /\ Go(j, next) /\ KindOf[Doing(j)] = "move"
      /\ UNCHANGED <<version, writable, form, booked, length, copied>>
  BY DEF MigrationsInv, MigrationsTyped, Move, JobAt
<1>2. next \in JobRow /\ next.at = "write" /\ next.plan = job[j].plan /\ next.left = job[j].left \ {b}
  BY <1>1 DEF JobRow
<1> HIDE DEF next
<1>3. /\ job' \in [Jobs -> JobRow] /\ job'[j] = next /\ OneRuns' /\ PlansGoUp'
      /\ Doing(j)' = Doing(j) /\ Doing(j) \in Versions
      /\ \A k \in Jobs \ {j} : job[k].at = "off" /\ job'[k].at = "off"
      /\ \A v \in Versions : DoneAt(v)' <=> DoneAt(v)
  BY <1>1, <1>2, WithinMigration
<1>4. /\ b \in booked /\ b \in Bookings /\ reserved[b] = 0 /\ job[j].left \subseteq booked
      /\ booked \subseteq Bookings /\ reserved \in [Bookings -> Nat]
      /\ \A a \in booked : reserved[a] = IF a \in job[j].left THEN 0 ELSE 1
  BY <1>1 DEF MigrationsInv, MigrationsTyped, MovesAll, Handles
<1>5. /\ reserved' \in [Bookings -> Nat] /\ reserved'[b] = 1
      /\ \A a \in Bookings \ {b} : reserved'[a] = reserved[a]
  BY <1>4 DEF Move
<1>6. MigrationsTyped'
  BY <1>1, <1>3, <1>5 DEF MigrationsInv, MigrationsTyped
<1>7. \A k \in Jobs, kind \in {"convert", "copy"}, ats \in {{"write"}, {"remove"}, {"write", "remove"}} :
         /\ ~Handles(k, kind, ats) /\ ~Handles(k, kind, ats)'
  BY <1>1, <1>2, <1>3 DEF Handles
<1>8. ConvertsAll'
  BY <1>1, <1>3, <1>7 DEF MigrationsInv, ConvertsAll
<1>9. MovesAll'
  BY <1>1, <1>2, <1>3, <1>4, <1>5 DEF MigrationsInv, MovesAll, Handles, JobAt
<1>10. CopiesOnce'
  BY <1>1, <1>3, <1>7 DEF MigrationsInv, CopiesOnce
<1> QED BY <1>3, <1>6, <1>8, <1>9, <1>10 DEF MigrationsInv


LEMMA CopyStep ==
  ASSUME MigrationsInv, NEW j \in Jobs, JobAt(j, "write"), Copy(j)
  PROVE  MigrationsInv'
<1> DEFINE next == [job[j] EXCEPT !.left = {}]
<1>1. job[j] \in JobRow /\ job[j].at = "write" /\ Go(j, next) /\ KindOf[Doing(j)] = "copy"
      /\ UNCHANGED <<version, writable, form, booked, reserved, length>>
  BY DEF MigrationsInv, MigrationsTyped, Copy, JobAt
<1>2. next \in JobRow /\ next.at = "write" /\ next.plan = job[j].plan /\ next.left = {}
  BY <1>1 DEF JobRow
<1> HIDE DEF next
<1>3. /\ job' \in [Jobs -> JobRow] /\ job'[j] = next /\ OneRuns' /\ PlansGoUp'
      /\ Doing(j)' = Doing(j) /\ Doing(j) \in Versions /\ ~DoneAt(Doing(j))
      /\ \A k \in Jobs \ {j} : job[k].at = "off" /\ job'[k].at = "off"
      /\ \A v \in Versions : DoneAt(v)' <=> DoneAt(v)
  BY <1>1, <1>2, WithinMigration
<1>4. length /\ copied' = "own"
  BY <1>1, <1>3 DEF MigrationsInv, CopiesOnce, Copy
<1>5. MigrationsTyped'
  BY <1>1, <1>3, <1>4 DEF MigrationsInv, MigrationsTyped
<1>6. \A k \in Jobs, kind \in {"convert", "move"}, ats \in {{"write"}, {"remove"}, {"write", "remove"}} :
         /\ ~Handles(k, kind, ats) /\ ~Handles(k, kind, ats)'
  BY <1>1, <1>2, <1>3 DEF Handles
<1>7. ConvertsAll'
  BY <1>1, <1>3, <1>6 DEF MigrationsInv, ConvertsAll
<1>8. MovesAll'
  BY <1>1, <1>3, <1>6 DEF MigrationsInv, MovesAll
<1>9. CopiesOnce'
  BY <1>1, <1>2, <1>3, <1>4 DEF MigrationsInv, CopiesOnce, Handles, JobAt
<1> QED BY <1>3, <1>5, <1>7, <1>8, <1>9 DEF MigrationsInv

LEMMA WrittenStep == ASSUME MigrationsInv, NEW j \in Jobs, Written(j) PROVE MigrationsInv'
<1> DEFINE next == [job[j] EXCEPT !.at = IF KindOf[Doing(j)] = "convert" THEN "record" ELSE "remove"]
<1>1. job[j] \in JobRow /\ job[j].at = "write" /\ job[j].left = {} /\ Go(j, next)
      /\ UNCHANGED <<version, writable, form, booked, reserved, length, copied>>
  BY DEF MigrationsInv, MigrationsTyped, Written, JobTo, JobAt, data
<1>2. /\ next \in JobRow /\ next.plan = job[j].plan /\ next.left = {}
      /\ next.at = IF KindOf[Doing(j)] = "convert" THEN "record" ELSE "remove"
  BY <1>1 DEF JobRow, Running
<1> HIDE DEF next
<1>3. /\ job' \in [Jobs -> JobRow] /\ job'[j] = next /\ OneRuns' /\ PlansGoUp'
      /\ Doing(j)' = Doing(j) /\ Doing(j) \in Versions /\ ~DoneAt(Doing(j))
      /\ \A k \in Jobs \ {j} : job[k].at = "off" /\ job'[k].at = "off"
      /\ \A v \in Versions : DoneAt(v)' => DoneAt(v) \/ (v = Doing(j) /\ KindOf[v] = "convert")
      /\ \A v \in Versions : DoneAt(v) => DoneAt(v)'
  BY <1>1, <1>2, WithinMigration
<1>4. MigrationsTyped'
  BY <1>1, <1>3 DEF MigrationsInv, MigrationsTyped
<1>5. ConvertsAll'
  BY <1>1, <1>2, <1>3 DEF MigrationsInv, ConvertsAll, Handles
<1>6. MovesAll'
  BY <1>1, <1>2, <1>3 DEF MigrationsInv, MovesAll, Handles, JobAt
<1>7. CopiesOnce'
  BY <1>1, <1>2, <1>3 DEF MigrationsInv, CopiesOnce, Handles, JobAt
<1> QED BY <1>3, <1>4, <1>5, <1>6, <1>7 DEF MigrationsInv

LEMMA RemoveStep == ASSUME MigrationsInv, NEW j \in Jobs, RemoveField(j) PROVE MigrationsInv'
<1> DEFINE next == [job[j] EXCEPT !.at = "record"]
<1>1. job[j] \in JobRow /\ job[j].at = "remove" /\ Go(j, next)
      /\ UNCHANGED <<version, writable, form, reserved, copied>>
  BY DEF MigrationsInv, MigrationsTyped, RemoveField, JobTo, JobAt
<1>2. next \in JobRow /\ next.at = "record" /\ next.plan = job[j].plan
  BY <1>1 DEF JobRow, Running
<1> HIDE DEF next
<1>3. /\ job' \in [Jobs -> JobRow] /\ job'[j] = next /\ OneRuns' /\ PlansGoUp'
      /\ Doing(j)' = Doing(j) /\ Doing(j) \in Versions /\ ~DoneAt(Doing(j))
      /\ \A k \in Jobs \ {j} : job[k].at = "off" /\ job'[k].at = "off"
      /\ \A v \in Versions : DoneAt(v)' <=> DoneAt(v) \/ v = Doing(j)
  BY <1>1, <1>2, WithinMigration
<1>4. KindOf[Doing(j)] \in {"move", "copy"}
  BY <1>1, <1>3, MigrationsAssumption DEF MigrationsInv, ConvertsAll, Handles
<1>5. booked' \in {booked, {}} /\ length' \in BOOLEAN
  BY DEF RemoveField, MigrationsInv, MigrationsTyped
<1>6. MigrationsTyped'
  BY <1>1, <1>3, <1>5 DEF MigrationsInv, MigrationsTyped
<1>7. \A k \in Jobs, kind \in {"convert", "move", "copy"}, ats \in {{"write"}, {"remove"}, {"write", "remove"}} :
         ~Handles(k, kind, ats)'
  BY <1>2, <1>3 DEF Handles
<1>8. ConvertsAll'
  BY <1>1, <1>3, <1>4, <1>7 DEF MigrationsInv, ConvertsAll
<1>9. CASE KindOf[Doing(j)] = "move"
  <2>1. booked' = {} /\ length' = length
    BY <1>9 DEF RemoveField
  <2>2. \A b \in Bookings : reserved[b] = 1
    BY <1>1, <1>9 DEF MigrationsInv, MovesAll, Handles, JobAt
  <2>3. MovesAll'
    BY <1>1, <1>7, <2>1, <2>2 DEF MovesAll
  <2>4. CopiesOnce'
    BY <1>1, <1>3, <1>7, <1>9, <2>1 DEF MigrationsInv, CopiesOnce
  <2> QED BY <1>3, <1>6, <1>8, <2>3, <2>4 DEF MigrationsInv
<1>10. CASE KindOf[Doing(j)] = "copy"
  <2>1. booked' = booked /\ copied' = "own"
    BY <1>1, <1>10 DEF RemoveField, MigrationsInv, CopiesOnce, Handles, JobAt
  <2>2. \A k \in Jobs : ~Handles(k, "move", {"write", "remove"})
    BY <1>3, <1>10 DEF Handles
  <2>3. MovesAll'
    BY <1>1, <1>3, <1>7, <1>10, <2>1, <2>2 DEF MigrationsInv, MovesAll
  <2>4. \A v \in Versions : KindOf[v] = "copy" => v = Doing(j)
    BY <1>3, <1>10, MigrationsAssumption
  <2>5. CopiesOnce'
    BY <1>3, <1>7, <2>1, <2>4 DEF CopiesOnce
  <2> QED BY <1>3, <1>6, <1>8, <2>3, <2>5 DEF MigrationsInv
<1> QED BY <1>4, <1>9, <1>10

\* The version that a job was doing is done, and with it all before.
LEMMA RecordStep == ASSUME MigrationsInv, NEW j \in Jobs, Record(j) PROVE MigrationsInv'
<1> DEFINE plan == job[j].plan
           next == IF Len(plan) = 1 THEN [Off EXCEPT !.at = AfterLast] ELSE [Off EXCEPT !.at = "list", !.plan = Tail(plan)]
<1>1. job[j] \in JobRow /\ job[j].at = "record" /\ Go(j, next)
      /\ UNCHANGED <<writable, form, booked, reserved, length, copied>>
  BY DEF MigrationsInv, MigrationsTyped, Record, JobAt, data
<1>2. /\ Alone(j) /\ Doing(j) \in Versions /\ version < Doing(j)
      /\ plan \in Seq(Versions) /\ plan # <<>> /\ plan[1] = Doing(j)
      /\ \A v \in Versions : v <= Doing(j) => v <= version \/ v = Doing(j)
  BY <1>1, DoingNext DEF Running
<1>3. version' = Doing(j)
  BY <1>2 DEF Record
<1>4. /\ next \in JobRow /\ next.at \in {"grant", "list"}
      /\ next.at = "list" => Len(plan) # 1 /\ next.plan = Tail(plan)
  <2>1. CASE Len(plan) = 1
    <3>1. next = [at |-> "grant", plan |-> <<>>, left |-> {}, current |-> {}]
      BY <2>1 DEF Off, AfterLast
    <3> HIDE DEF next
    <3>2. next.at = "grant"
      BY <3>1
    <3>3. next \in JobRow
      BY <3>1 DEF JobRow
    <3> QED BY <3>2, <3>3
  <2>2. CASE Len(plan) # 1
    <3>1. next = [Off EXCEPT !.at = "list", !.plan = Tail(plan)] /\ Tail(plan) \in Seq(Versions)
      BY <1>2, <2>2
    <3> HIDE DEF next
    <3> QED BY <2>2, <3>1 DEF JobRow, Off, Running
  <2> QED BY <2>1, <2>2
<1> HIDE DEF next
<1>5. /\ job' \in [Jobs -> JobRow] /\ job'[j] = next /\ OneRuns'
      /\ \A k \in Jobs \ {j} : job[k].at = "off" /\ job'[k].at = "off"
  BY <1>1, <1>2, <1>4, JobMoves DEF Alone, JobAt
<1>6. \A v \in Versions \cup {0} : v \in Nat
  BY VersionsFinite
<1>7. MigrationsTyped'
  BY <1>1, <1>2, <1>3, <1>5 DEF MigrationsInv, MigrationsTyped
<1>8. ASSUME next.at = "list" PROVE GoesUp(job[j].plan)'
  <2> DEFINE rest == Tail(plan)
  <2>1. GoesUp(plan)
    BY <1>1 DEF MigrationsInv, PlansGoUp, Running
  <2>2. Len(plan) \in Nat /\ Len(plan) > 1 /\ DOMAIN plan = 1..Len(plan)
    <3>1. Len(plan) \in Nat /\ Len(plan) # 0 /\ DOMAIN plan = 1..Len(plan)
      BY <1>2
    <3>2. Len(plan) # 1
      BY <1>4, <1>8
    <3>3. \A n \in Nat : n # 0 /\ n # 1 => n > 1
      OBVIOUS
    <3> QED BY <3>1, <3>2, <3>3
  <2>3. DOMAIN rest = 1..(Len(plan) - 1) /\ \A k \in DOMAIN rest : rest[k] = plan[k + 1]
    BY <1>2, <2>2
  <2> HIDE DEF rest
  <2>4. rest # <<>>
    <3>1. 1 \in DOMAIN rest
      BY <2>2, <2>3
    <3> QED BY <3>1
  <2>5. \A i, k \in DOMAIN rest : i < k => rest[i] < rest[k]
    <3> TAKE i, k \in DOMAIN rest
    <3> HAVE i < k
    <3>1. i + 1 \in DOMAIN plan /\ k + 1 \in DOMAIN plan /\ i + 1 < k + 1
      BY <2>2, <2>3
    <3>2. plan[i + 1] < plan[k + 1]
      BY <2>1, <3>1 DEF GoesUp
    <3> QED BY <2>3, <3>2
  <2>6. \A k \in DOMAIN rest : Doing(j) < rest[k]
    BY <1>2, <2>1, <2>2, <2>3 DEF GoesUp
  <2>7. ASSUME NEW k \in DOMAIN rest, NEW v \in Versions, Doing(j) < v, v <= rest[k]
        PROVE  \E i \in DOMAIN rest : rest[i] = v
    <3>1. v \in Nat /\ Doing(j) \in Nat /\ version \in Nat
      BY <1>2, <1>6 DEF MigrationsInv, MigrationsTyped
    <3>2. k + 1 \in DOMAIN plan /\ v <= plan[k + 1] /\ version < v
      BY <1>2, <2>2, <2>3, <2>7, <3>1
    <3>3. PICK i \in DOMAIN plan : plan[i] = v
      BY <2>1, <3>2 DEF GoesUp
    <3>4. i # 1
      BY <1>2, <2>7, <3>1, <3>3
    <3>5. i - 1 \in DOMAIN rest /\ rest[i - 1] = v
      BY <2>2, <2>3, <3>3, <3>4
    <3> QED BY <3>5
  <2>8. job'[j].plan = rest
    BY <1>4, <1>5, <1>8 DEF rest
  <2> QED BY <1>3, <2>4, <2>5, <2>6, <2>7, <2>8 DEF GoesUp
<1>9. PlansGoUp'
  BY <1>4, <1>5, <1>8 DEF PlansGoUp, Running
<1>10. \A v \in Versions : DoneAt(v)' <=> DoneAt(v)
  <2>1. \A v \in Versions : DoneAt(v)' <=> v <= Doing(j)
    BY <1>3, <1>4, <1>5 DEF DoneAt, JobAt
  <2>2. \A v \in Versions : DoneAt(v) <=> v <= version \/ v = Doing(j)
    BY <1>1, <1>5 DEF DoneAt, JobAt
  <2>3. \A v \in Versions : v <= version => v <= Doing(j)
    BY <1>2, <1>6 DEF MigrationsInv, MigrationsTyped
  <2>4. Doing(j) <= Doing(j)
    BY <1>2, <1>6
  <2> QED BY <1>2, <2>1, <2>2, <2>3, <2>4
<1>11. \A k \in Jobs, kind \in {"convert", "move", "copy"}, ats \in {{"write"}, {"remove"}, {"write", "remove"}} :
         ~Handles(k, kind, ats) /\ ~Handles(k, kind, ats)'
  BY <1>1, <1>4, <1>5 DEF Handles
<1>12. ConvertsAll'
  BY <1>1, <1>10, <1>11 DEF MigrationsInv, ConvertsAll
<1>13. MovesAll'
  BY <1>1, <1>10, <1>11 DEF MigrationsInv, MovesAll
<1>14. CopiesOnce'
  BY <1>1, <1>10, <1>11 DEF MigrationsInv, CopiesOnce
<1> QED BY <1>5, <1>7, <1>9, <1>12, <1>13, <1>14 DEF MigrationsInv

\* The plan is made of what is newer than the version (Between).
LEMMA PlanStep ==
  ASSUME MigrationsInv, NEW j \in Jobs, NEW target, target \in Versions \/ Versions = {}, ReadVersion(j, target)
  PROVE  MigrationsInv'
<1> DEFINE plan == Between(version, target)
           newer == {v \in Versions : version < v /\ v <= target}
           next == IF plan = <<>> THEN Off ELSE [Off EXCEPT !.at = "revoke", !.plan = plan]
<1>1. job[j].at = "version" /\ Go(j, next) /\ UNCHANGED <<version, data>> /\ writable' \in BOOLEAN
  BY DEF ReadVersion, JobAt, MigrationsInv, MigrationsTyped
<1>2. newer \in SUBSET Versions /\ newer \in SUBSET Nat /\ IsFiniteSet(newer)
  BY VersionsFinite, FS_Subset
<1>3. /\ plan \in Seq(newer)
      /\ \A i, k \in DOMAIN plan : i < k => plan[i] < plan[k]
      /\ \A v \in newer : \E k \in DOMAIN plan : plan[k] = v
  BY <1>2, SortedGoesUp DEF Between
<1>4. plan \in Seq(Versions) /\ \A k \in DOMAIN plan : plan[k] \in newer
  BY <1>2, <1>3
<1>5. /\ next \in JobRow /\ next.at \in {"off", "revoke"}
      /\ next.at = "revoke" => next.plan = plan /\ plan # <<>>
  BY <1>4 DEF JobRow, Running, Off
<1>6. \A v \in Versions \cup {0} : v \in Nat
  BY VersionsFinite
<1>7. ASSUME next.at = "revoke" PROVE GoesUp(next.plan)
  <2>1. ASSUME NEW k \in DOMAIN plan, NEW v \in Versions, version < v, v <= plan[k]
        PROVE  v \in newer
    <3>1. plan[k] \in Versions /\ plan[k] <= target /\ target \in Versions
      BY <1>4
    <3>2. v \in Nat /\ plan[k] \in Nat /\ target \in Nat
      BY <1>6, <3>1
    <3> QED BY <2>1, <3>1, <3>2
  <2>2. \A k \in DOMAIN plan : version < plan[k]
    BY <1>4
  <2> HIDE DEF plan, newer
  <2> QED BY <1>3, <1>5, <1>7, <2>1, <2>2 DEF GoesUp
<1>8. Alone(j) /\ ~Unrepeatable(j)
  BY <1>1 DEF MigrationsInv, OneRuns, Alone, JobAt, Unrepeatable
<1> HIDE DEF next
<1> QED BY <1>1, <1>5, <1>7, <1>8, QuietStep DEF Running

LEMMA MigrationsStep ==
  ASSUME {"oneJob", "whole", "untouched"} \subseteq MigrationsAssumed
  PROVE  MigrationsInv /\ [MigrationsNext]_migrationsVars => MigrationsInv'
<1> SUFFICES ASSUME MigrationsInv, [MigrationsNext]_migrationsVars PROVE MigrationsInv'
  OBVIOUS
<1>1. \A j \in Jobs : /\ job[j] \in JobRow
                      /\ job[j].at # "off" => Alone(j)
                      /\ job[j].at \in Running => GoesUp(job[j].plan)
  BY DEF MigrationsInv, MigrationsTyped, OneRuns, Alone, JobAt, PlansGoUp
<1>2. ASSUME NEW j \in Jobs, Start(j) PROVE MigrationsInv'
  <2> DEFINE next == [job[j] EXCEPT !.at = "version"]
  <2>1. next \in JobRow /\ next.at = "version" /\ Go(j, next)
    BY <1>1, <1>2 DEF Start, JobTo, JobRow
  <2>2. Alone(j) /\ ~Unrepeatable(j)
    BY <1>2 DEF Start, JobAt, Alone, Unrepeatable
  <2>3. UNCHANGED <<version, data>> /\ writable' \in BOOLEAN
    BY <1>2 DEF Start, MigrationsInv, MigrationsTyped
  <2> QED BY <2>1, <2>2, <2>3, QuietStep DEF Running
<1>3. ASSUME NEW j \in Jobs, ToTarget(j) PROVE MigrationsInv'
  BY <1>3, PlanStep DEF ToTarget
<1>4. ASSUME NEW j \in Jobs, ToNewest(j) PROVE MigrationsInv'
  BY <1>4, PlanStep, LatestIsOne DEF ToNewest
<1>5. ASSUME NEW j \in Jobs, Revoke(j) PROVE MigrationsInv'
  <2> DEFINE next == [job[j] EXCEPT !.at = "list"]
  <2>1. next \in JobRow /\ next.at = "list" /\ Go(j, next) /\ Alone(j) /\ ~Unrepeatable(j)
        /\ GoesUp(next.plan) /\ UNCHANGED <<version, data>> /\ writable' \in BOOLEAN
    BY <1>1, <1>5 DEF Revoke, JobTo, JobAt, JobRow, Running, Unrepeatable
  <2> QED BY <2>1, QuietStep
<1>6. ASSUME NEW j \in Jobs, Grant(j) PROVE MigrationsInv'
  <2>1. Off \in JobRow /\ Off.at = "off" /\ Go(j, Off) /\ Alone(j) /\ ~Unrepeatable(j)
        /\ UNCHANGED <<version, data>> /\ writable' \in BOOLEAN
    BY <1>1, <1>6 DEF Grant, JobAt, JobRow, Off, Unrepeatable
  <2> QED BY <2>1, QuietStep DEF Running
<1>7. ASSUME NEW j \in Jobs, Stops(j) PROVE MigrationsInv'
  <2> DEFINE next == [job[j] EXCEPT !.at = "grant"]
  <2>1. Alone(j) /\ ~Unrepeatable(j) /\ UNCHANGED <<version, data>> /\ writable' \in BOOLEAN
    BY <1>1, <1>7 DEF Stops, JobAt, MigrationsInv, MigrationsTyped
  <2>2. next \in JobRow /\ next.at = "grant" /\ Off \in JobRow /\ Off.at = "off"
    BY <1>1 DEF JobRow, Off
  <2>3. Go(j, next) \/ Go(j, Off)
    BY <1>7 DEF Stops, JobTo
  <2> QED BY <2>1, <2>2, <2>3, QuietStep DEF Running
<1>8. ASSUME NEW j \in Jobs, Write(j) PROVE MigrationsInv'
  BY <1>8, ConvertStep, MoveStep, CopyStep DEF Write
<1>9. ASSUME NEW c \in Writers, WriterWrite(c) PROVE MigrationsInv'
  <2>1. form' = form
    BY <1>9 DEF WriterWrite, Accepted
  <2>2. /\ job' \in [Jobs -> JobRow]
        /\ \A j \in Jobs : job'[j].at = job[j].at /\ job'[j].plan = job[j].plan /\ job'[j].left = job[j].left
    <3>1. CASE Accepted(c)
      <4> DEFINE r == writer[c].row
                 stale(j) == [job[j] EXCEPT !.current = @ \ {r}]
      <4>1. job' = [j \in Jobs |-> stale(j)]
        BY <1>9, <3>1 DEF WriterWrite
      <4>2. \A j \in Jobs : stale(j) \in JobRow /\ stale(j).at = job[j].at
                          /\ stale(j).plan = job[j].plan /\ stale(j).left = job[j].left
        BY <1>1 DEF JobRow
      <4> QED BY <4>1, <4>2
    <3>2. CASE ~Accepted(c)
      BY <1>9, <3>2 DEF WriterWrite, MigrationsInv, MigrationsTyped
    <3> QED BY <3>1, <3>2
  <2>3. UNCHANGED <<version, data>> /\ writable' \in BOOLEAN
    BY <1>9, <2>1 DEF WriterWrite, data, MigrationsInv, MigrationsTyped
  <2> QED BY <2>2, <2>3, AsideStep
<1>10. CASE Update
  <2>1. UNCHANGED <<version, data>> /\ writable' \in BOOLEAN /\ job' = job
    BY <1>10 DEF Update, data, MigrationsInv, MigrationsTyped
  <2> QED BY <2>1, AsideStep DEF MigrationsInv, MigrationsTyped
<1>11. CASE Initialize \/ (\E c \in Writers : WriterRead(c)) \/ UNCHANGED migrationsVars
  <2>1. UNCHANGED <<version, data>> /\ writable' \in BOOLEAN /\ job' = job
    BY <1>11 DEF Initialize, WriterRead, migrationsVars, data, MigrationsInv, MigrationsTyped
  <2> QED BY <2>1, AsideStep DEF MigrationsInv, MigrationsTyped
<1> QED BY <1>2, <1>3, <1>4, <1>5, <1>6, <1>7, <1>8, <1>9, <1>10, <1>11,
      ListStep, WrittenStep, RemoveStep, RecordStep DEF MigrationsNext, JobStep

LEMMA MigrationsImplied == MigrationsInv => MigrationsTypeOK /\ VersionTells
<1> SUFFICES ASSUME MigrationsInv PROVE MigrationsTypeOK /\ VersionTells
  OBVIOUS
<1>1. MigrationsTypeOK
  BY DEF MigrationsInv, MigrationsTyped, MigrationsTypeOK, JobRow, Running, Range
<1>2. VersionTells
  BY MigrationsAssumption DEF MigrationsInv, ConvertsAll, MovesAll, CopiesOnce, DoneAt, VersionTells
<1> QED BY <1>1, <1>2

\* The version in the migration table tells what was done to the tables: rows converted,
\* every reservation moved once, the prefix length copied. For any migrations, rows and
\* reservations, runs to any version, failures and stops that do not fall into a migration
\* that cannot be repeated, and writes of the API next to them, one run at a time and no
\* update of a size or partition before they are moved (Migrate, Between, migrations).
THEOREM MigrationsStayValid ==
  ASSUME {"oneJob", "whole", "untouched"} \subseteq MigrationsAssumed
  PROVE  Spec => []MigrationsValid
<1>1. Init => MigrationsInv
  BY MigrationsInvInit DEF Init
<1>2. MigrationsInv /\ [Next]_<<storeVars, deviceVars, subject>> => MigrationsInv'
  <2>1. [Next]_<<storeVars, deviceVars, subject>> => [MigrationsNext]_migrationsVars
    BY DEF Next, About, storeVars
  <2> QED BY <2>1, MigrationsStep
<1>3. MigrationsInv => MigrationsValid
  BY MigrationsImplied DEF MigrationsValid
<1> QED BY <1>1, <1>2, <1>3, PTL DEF Spec

\* Who may not write waits for a run that is due, or for the end of one.
GrantDue == ~writable => version < Latest \/ \E j \in Jobs : JobAt(j, "grant")

LEMMA RunDue == MigrationsInv => \A j \in Jobs : job[j].at \in Running => version < Latest
<1> SUFFICES ASSUME MigrationsInv, NEW j \in Jobs, job[j].at \in Running PROVE version < Latest
  OBVIOUS
<1>1. version < Doing(j) /\ Doing(j) \in Versions
  BY DoingNext
<1>2. Latest \in Versions /\ Doing(j) <= Latest
  BY <1>1, LatestIsOne
<1>3. \A v \in Versions \cup {0} : v \in Nat
  BY VersionsFinite
<1>4. version \in Nat /\ Doing(j) \in Nat /\ Latest \in Nat
  BY <1>1, <1>2, <1>3 DEF MigrationsInv, MigrationsTyped
<1> QED BY <1>1, <1>2, <1>4

LEMMA GrantDueStep ==
  ASSUME MigrationsAssumptions \subseteq MigrationsAssumed
  PROVE  MigrationsInv /\ GrantDue /\ [MigrationsNext]_migrationsVars => GrantDue'
<1> SUFFICES ASSUME MigrationsInv, GrantDue, [MigrationsNext]_migrationsVars, ~writable', ~(version' < Latest)
             PROVE \E j \in Jobs : JobAt(j, "grant")'
  BY DEF GrantDue
<1>1. MigrationsInv'
  BY MigrationsStep DEF MigrationsAssumptions
<1>2. \A j \in Jobs : job'[j].at \notin Running
  <2>1. (MigrationsInv => \A j \in Jobs : job[j].at \in Running => version < Latest)'
    BY RunDue, PTL
  <2>2. Latest' = Latest
    BY DEF Latest, Versions
  <2> QED BY <1>1, <2>1, <2>2
<1>3. job \in [Jobs -> JobRow]
  BY DEF MigrationsInv, MigrationsTyped
<1>4. ASSUME NEW j \in Jobs, Record(j) PROVE \E k \in Jobs : JobAt(k, "grant")'
  <2>1. job'[j].at \in {"grant", "list"}
    BY <1>3, <1>4 DEF Record, Go, Off, AfterLast
  <2> QED BY <1>2, <2>1 DEF JobAt, Running
<1>5. ASSUME NEW j \in Jobs, Revoke(j) PROVE FALSE
  <2>1. job'[j].at = "list"
    BY <1>3, <1>5 DEF Revoke, JobTo, Go, JobRow
  <2> QED BY <1>2, <2>1 DEF Running
<1>6. ASSUME version' = version, writable' = writable PROVE \E k \in Jobs : JobAt(k, "grant")
  BY <1>6 DEF GrantDue
<1>7. ASSUME NEW j \in Jobs, Grant(j) PROVE FALSE
  BY <1>7 DEF Grant
<1>8. CASE Initialize
  BY <1>8 DEF Initialize
<1>9. ASSUME NEW j \in Jobs, NEW next, Go(j, next), ~JobAt(j, "grant"), UNCHANGED <<version, writable>>
      PROVE  \E k \in Jobs : JobAt(k, "grant")'
  BY <1>3, <1>6, <1>9 DEF Go, JobAt
<1>10. ASSUME NEW j \in Jobs, Start(j) \/ ToTarget(j) \/ ToNewest(j) \/ List(j) \/ Written(j) \/ RemoveField(j)
       PROVE  \E k \in Jobs : JobAt(k, "grant")'
  BY <1>9, <1>10 DEF Start, ToTarget, ToNewest, ReadVersion, List, Written, RemoveField, JobTo, JobAt
<1>11. ASSUME NEW j \in Jobs, Stops(j) PROVE \E k \in Jobs : JobAt(k, "grant")'
  BY <1>9, <1>11 DEF Stops, JobTo, JobAt, MigrationsAssumptions
<1>12. ASSUME NEW j \in Jobs, Write(j) PROVE \E k \in Jobs : JobAt(k, "grant")'
  <2>1. JobAt(j, "write") /\ UNCHANGED <<version, writable>>
    BY <1>12 DEF Write, Convert, Move, Copy
  <2>2. PICK k \in Jobs : job[k].at = "grant"
    BY <1>6, <2>1 DEF JobAt
  <2>3. k # j
    BY <2>1, <2>2 DEF JobAt
  <2>4. job'[k].at = job[k].at
    BY <1>3, <1>12, <2>3 DEF Write, Convert, Move, Copy, JobTo, Go, JobRow
  <2> QED BY <2>2, <2>4 DEF JobAt
<1>13. ASSUME NEW c \in Writers, WriterWrite(c) PROVE \E k \in Jobs : JobAt(k, "grant")'
  BY <1>3, <1>6, <1>13 DEF WriterWrite, JobAt, JobRow
<1>14. CASE Update \/ (\E c \in Writers : WriterRead(c)) \/ UNCHANGED migrationsVars
  <2>1. UNCHANGED <<version, writable, job>>
    BY <1>14, <1>8 DEF Update, WriterRead, migrationsVars, MigrationsInv
  <2> QED BY <1>6, <2>1 DEF JobAt
<1> QED BY <1>4, <1>5, <1>7, <1>8, <1>10, <1>11, <1>12, <1>13, <1>14 DEF MigrationsNext, JobStep

\* What there is to WritableAgain without fairness: when the API may not write, a
\* migration is to come, or the run that took the permission gives it back next, if
\* runs do not stop between their last record and that (Migrate, deferred function).
THEOREM PermissionIsDue ==
  ASSUME MigrationsAssumptions \subseteq MigrationsAssumed
  PROVE  MigrationsSpec => []GrantDue
<1>1. MigrationsInit => MigrationsInv /\ GrantDue
  BY MigrationsInvInit DEF MigrationsInit, GrantDue
<1>2. MigrationsInv /\ GrantDue /\ [MigrationsNext]_migrationsVars => MigrationsInv' /\ GrantDue'
  BY MigrationsStep, GrantDueStep DEF MigrationsAssumptions
<1> QED BY <1>1, <1>2, PTL DEF MigrationsSpec

=============================================================================
