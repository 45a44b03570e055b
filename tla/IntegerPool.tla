---------------------------- MODULE IntegerPool ----------------------------
(***************************************************************************)
(* A pool of unique integers (datastore/integer.go), as metal-api keeps one *)
(* for VRFs and one for ASNs.  The pool table has one row per integer that  *)
(* is free.  The replicas fill it when they start, unless a marker in the   *)
(* info table says that this was done; acquiring an integer deletes its row *)
(* and releasing it inserts the row again.                                  *)
(*                                                                         *)
(* A client is a caller that keeps one integer at a time, such as a network *)
(* its VRF.  RethinkDB deletes a row atomically, but a deletion of "any one *)
(* row" first selects the row: another client may delete it in between.     *)
(* The rows of an initial insert appear at once.                            *)
(***************************************************************************)
EXTENDS Naturals, FiniteSets

CONSTANTS
    Replicas,     \* metal-api processes that start with init-data-store
    Clients,
    RangeMin, RangeMax,
    Requested,    \* integers that clients ask for by value
    Attempts,     \* how often a random acquisition is tried (10 in the code)
    MaxCrashes,   \* bound on replicas that stop while they initialize
    None,
    PoolAssumed       \* what a run takes for granted, a subset of PoolAssumptions

\* oneInit: a replica initializes the pool only while no other one does.
PoolAssumptions == {"oneInit"}

Integers == RangeMin .. RangeMax

ASSUME IntegerPoolAssumption ==
    /\ RangeMin \in Nat /\ RangeMax \in Nat /\ RangeMin <= RangeMax
    /\ Requested \subseteq Nat
    /\ Attempts \in Nat \ {0} /\ MaxCrashes \in Nat
    /\ None \notin Nat
    /\ PoolAssumed \subseteq PoolAssumptions

VARIABLES
    pool,      \* the integers that have a row in the pool table
    marked,    \* the info table says that the pool is initialized
    init,      \* how far the start of each replica is
    crashes,
    pc,        \* where each client is
    value,     \* the integer it has selected or acquired
    attempts   \* how many times it has tried

poolVars == <<pool, marked, init, crashes, pc, value, attempts>>
starting == <<marked, init, crashes>>
clients == <<pc, value, attempts>>

InitPC == {"start", "insert", "mark", "serving", "failed"}
ClientPC == {"idle", "select", "delete", "count", "holds", "failed"}

PoolTypeOK ==
    /\ pool \in SUBSET Integers
    /\ marked \in BOOLEAN
    /\ init \in [Replicas -> InitPC]
    /\ crashes \in Nat
    /\ pc \in [Clients -> ClientPC]
    /\ value \in [Clients -> Nat \cup {None}]
    /\ attempts \in [Clients -> Nat]

PoolInit ==
    /\ pool = {} /\ marked = FALSE
    /\ init = [r \in Replicas |-> "start"] /\ crashes = 0
    /\ pc = [c \in Clients |-> "idle"]
    /\ value = [c \in Clients |-> None]
    /\ attempts = [c \in Clients |-> 0]

----------------------------------------------------------------------------
\* initIntegerPool, one step per access to the database

InitTo(r, place) == init' = [init EXCEPT ![r] = place]

\* Mutant of NeedsInit: the marker is not looked at.
NeedsInitAlways == TRUE
NeedsInit == ~marked

InitRead(r) ==
    /\ init[r] = "start"
    /\ IF NeedsInit
       THEN /\ "oneInit" \in PoolAssumed => \A q \in Replicas : init[q] \notin {"insert", "mark"}
            /\ InitTo(r, "insert")
       ELSE InitTo(r, "serving")
    /\ UNCHANGED <<pool, marked, crashes, clients>>

\* The insert adds the missing rows, and fails when a row was already there.
InitInsert(r) ==
    /\ init[r] = "insert"
    /\ pool' = pool \cup Integers
    /\ InitTo(r, IF pool \cap Integers = {} THEN "mark" ELSE "failed")
    /\ UNCHANGED <<marked, crashes, clients>>

InitMark(r) ==
    /\ init[r] = "mark"
    /\ marked' = TRUE
    /\ InitTo(r, IF marked THEN "failed" ELSE "serving")
    /\ UNCHANGED <<pool, crashes, clients>>

Restart(r) ==
    /\ init[r] \in {"failed", "serving"}
    /\ InitTo(r, "start")
    /\ UNCHANGED <<pool, marked, crashes, clients>>

Crash(r) ==
    /\ init[r] \in {"insert", "mark"} /\ crashes < MaxCrashes
    /\ InitTo(r, "start")
    /\ crashes' = crashes + 1
    /\ UNCHANGED <<pool, marked, clients>>

----------------------------------------------------------------------------
\* AcquireRandomUniqueInteger, AcquireUniqueInteger, ReleaseUniqueInteger

Serving == \E r \in Replicas : init[r] = "serving"

To(c, place) == pc' = [pc EXCEPT ![c] = place]
Keeps(c, v) == value' = [value EXCEPT ![c] = v]

AcquireRandom(c) ==
    /\ Serving
    /\ pc[c] = "idle"
    /\ To(c, "select")
    /\ attempts' = [attempts EXCEPT ![c] = 0]
    /\ UNCHANGED <<pool, starting, value>>

Select(c) ==
    /\ pc[c] = "select"
    /\ attempts' = [attempts EXCEPT ![c] = @ + 1]
    /\ \/ \E v \in pool : Keeps(c, v) /\ To(c, "delete")
       \/ pool = {} /\ To(c, "count") /\ UNCHANGED value
    /\ UNCHANGED <<pool, starting>>

\* Mutant of Deletable: the result of the deletion is not looked at.
DeletableAlways(v) == v \in Integers
Deletable(v) == v \in pool

\* Mutant of Without: what was selected is returned, but the row stays.
WithoutNothing(v) == pool
Without(v) == pool \ {v}

Delete(c) ==
    /\ pc[c] = "delete"
    /\ IF Deletable(value[c])
       THEN pool' = Without(value[c]) /\ To(c, "holds") /\ UNCHANGED value
       ELSE To(c, "count") /\ Keeps(c, None) /\ UNCHANGED pool
    /\ UNCHANGED <<starting, attempts>>

MayRetry(c) == attempts[c] < Attempts

\* The count tells an exhausted pool from a lost race; both are tried again.
Count(c) ==
    /\ pc[c] = "count"
    /\ To(c, IF MayRetry(c) THEN "select" ELSE "failed")
    /\ UNCHANGED <<pool, starting, value, attempts>>

\* The caller gets the error and may call again.
GiveUp(c) ==
    /\ pc[c] = "failed"
    /\ To(c, "idle")
    /\ UNCHANGED <<pool, starting, value, attempts>>

InRange(v) == RangeMin <= v /\ v <= RangeMax

AcquireUnique(c, v) ==
    /\ Serving
    /\ pc[c] = "idle"
    /\ IF InRange(v) /\ Deletable(v)
       THEN pool' = Without(v) /\ To(c, "holds") /\ Keeps(c, v)
       ELSE To(c, "failed") /\ UNCHANGED <<pool, value>>
    /\ UNCHANGED <<starting, attempts>>

\* Mutants of Returned: nothing comes back; the neighbour comes back.
ReturnedNothing(v) == pool
ReturnedNext(v) == pool \cup ({v + 1} \cap Integers)
Returned(v) == pool \cup {v}

Release(c) ==
    /\ pc[c] = "holds"
    /\ pool' = Returned(value[c])
    /\ To(c, "idle") /\ Keeps(c, None)
    /\ UNCHANGED <<starting, attempts>>

Initialization(r) == InitRead(r) \/ InitInsert(r) \/ InitMark(r) \/ Restart(r)

PoolCall(c) ==
    \/ AcquireRandom(c) \/ Select(c) \/ Delete(c) \/ Count(c) \/ GiveUp(c)
    \/ (\E v \in Requested : AcquireUnique(c, v)) \/ Release(c)

PoolNext == (\E r \in Replicas : Initialization(r) \/ Crash(r)) \/ \E c \in Clients : PoolCall(c)

PoolSpec == PoolInit /\ [][PoolNext]_poolVars

----------------------------------------------------------------------------
Holds(c) == pc[c] = "holds"
Held == {value[c] : c \in {d \in Clients : Holds(d)}}

\* An integer that a client holds is neither in the pool nor held by another
\* client (genericAcquire, ReleaseUniqueInteger, initIntegerPool).
UniqueHolders ==
    \A c \in Clients : Holds(c) =>
        value[c] \notin pool /\ \A d \in Clients : Holds(d) /\ value[d] = value[c] => c = d

\* No gaps: once the pool was filled every integer is free or held
\* (initIntegerPool, genericAcquire, ReleaseUniqueInteger).
NoGaps == marked => Integers = pool \cup Held

\* The inductive invariant: nobody acquires before the marker is set, and the
\* rows are inserted only before that (initIntegerPool, genericAcquire).
PoolInv ==
    /\ PoolTypeOK
    /\ UniqueHolders
    /\ \A c \in Clients : pc[c] \in {"delete", "holds"} => value[c] \in Integers
    /\ ~marked => \A c \in Clients : pc[c] = "idle"
    /\ \A r \in Replicas :
          /\ init[r] = "serving" => marked
          /\ init[r] \in {"insert", "mark"} =>
                ~marked /\ \A q \in Replicas : init[q] \in {"insert", "mark"} => q = r

\* Every integer has its place, the pool or one client (initIntegerPool, genericAcquire,
\* ReleaseUniqueInteger).
PoolSafe == PoolInv /\ NoGaps

poolHolders == [v \in Integers |-> {c \in Clients : Holds(c) /\ value[c] = v}]
PoolLease == INSTANCE Lease WITH Resources <- Integers, holders <- poolHolders

\* An integer is granted while nobody has it and given back by its holder
\* (AcquireRandomUniqueInteger, AcquireUniqueInteger, ReleaseUniqueInteger).
PoolImplementsLease == PoolLease!Spec
=============================================================================
