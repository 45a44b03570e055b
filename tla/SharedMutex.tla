---------------------------- MODULE SharedMutex ----------------------------
(***************************************************************************)
(* One key of the mutex that the metal-api replicas share through RethinkDB *)
(* (datastore/shared_mutex.go).  Whoever inserts the row of the key holds   *)
(* the mutex, deleting the row gives it back, and a background loop deletes *)
(* the rows whose expiry date has passed.  A client is one call of          *)
(* FindWaitingMachine, for which the key is a partition; it may call again. *)
(*                                                                         *)
(* Left out: durations (a row becomes overdue at any time) and the number   *)
(* of releases a change feed has buffered (one pending release makes the    *)
(* client try once, like several that come before it tries).                *)
(***************************************************************************)
CONSTANTS
    Lockers,
    NoLocker,
    MutexAssumed   \* what a run takes for granted, a subset of MutexAssumptions

\* prompt: a holder leaves its critical section before its row is overdue.
MutexAssumptions == {"prompt"}

ASSUME SharedMutexAssumption == MutexAssumed \subseteq MutexAssumptions /\ NoLocker \notin Lockers

VARIABLES
    row,     \* who inserted the row of the key, NoLocker if there is no row
    overdue, \* its expiry date has passed
    stage,      \* where each client is in lock .. unlock
    woken,   \* the clients whose change feed holds a release they did not see
    missed   \* history: the clients that did not yet listen when the row left

mutexVars == <<row, overdue, stage, woken, missed>>
feeds == <<woken, missed>>

Places == {"idle", "refused", "listening", "polling", "locked"}

MutexTypeOK ==
    /\ row \in Lockers \cup {NoLocker}
    /\ overdue \in BOOLEAN
    /\ stage \in [Lockers -> Places]
    /\ woken \in SUBSET Lockers
    /\ missed \in SUBSET Lockers

MutexInit == row = NoLocker /\ overdue = FALSE /\ stage = [c \in Lockers |-> "idle"] /\ woken = {} /\ missed = {}

At(c, places) == stage[c] \in places
Goto(c, place) == stage' = [stage EXCEPT ![c] = place]

\* A row that goes away is a change without a new value for every open feed.
NoListeners == {}   \* mutant of Listeners: the feed watches another key
Listeners == {c \in Lockers : At(c, {"listening"})}
Refused == {c \in Lockers : At(c, {"refused"})}
DeleteRow ==
    /\ row' = NoLocker /\ overdue' = FALSE
    /\ woken' = IF row = NoLocker THEN woken ELSE woken \cup Listeners
    /\ missed' = IF row = NoLocker THEN missed ELSE missed \cup Refused

\* The insert fails on a conflict: the row exists.
VacantAlways == TRUE   \* mutant of Vacant: the insert replaces the row
Vacant == row = NoLocker
Insert(c) == Vacant /\ row' = c /\ overdue' = FALSE

Lock(c) ==
    /\ At(c, {"idle"})
    /\ \/ Insert(c) /\ Goto(c, "locked")
       \/ ~Vacant /\ Goto(c, "refused") /\ UNCHANGED <<row, overdue>>
    /\ UNCHANGED feeds

\* The feed tells what happens from now on, not what happened before.
OpenFeed(c) ==
    /\ At(c, {"refused"})
    /\ Goto(c, "listening")
    /\ woken' = woken \ {c}
    /\ UNCHANGED <<row, overdue, missed>>

\* A feed that breaks closes its channel, and a closed channel keeps on
\* yielding changes without a new value.
BreakFeed(c) ==
    /\ At(c, {"listening"})
    /\ Goto(c, "polling")
    /\ UNCHANGED <<row, overdue, feeds>>

Forget(c) == woken' = woken \ {c} /\ missed' = missed \ {c}

ToldOfRelease(c) == At(c, {"polling"}) \/ (At(c, {"listening"}) /\ c \in woken)

Retry(c) ==
    /\ ToldOfRelease(c)
    /\ \/ Insert(c) /\ Goto(c, "locked")
       \/ ~Vacant /\ UNCHANGED <<row, overdue, stage>>
    /\ Forget(c)

\* The insert is done but its caller is told of an error: nobody holds the row.
InsertUnanswered(c) ==
    /\ At(c, {"idle"}) \/ ToldOfRelease(c)
    /\ Insert(c) /\ Goto(c, "idle")
    /\ Forget(c)

\* Mutant of TimeOut: the deferred unlock also runs when the lock has failed.
TimeOutUnlocks(c) ==
    /\ At(c, {"refused", "listening", "polling"})
    /\ Goto(c, "idle")
    /\ DeleteRow

TimeOut(c) ==
    /\ At(c, {"refused", "listening", "polling"})
    /\ Goto(c, "idle")
    /\ Forget(c)
    /\ UNCHANGED <<row, overdue>>

\* unlock deletes the row of the key, whoever inserted it.
Unlock(c) == At(c, {"locked"}) /\ Goto(c, "idle") /\ DeleteRow

\* The context of the request is cancelled, or its replica stops.
UnlockFails(c) ==
    /\ At(c, {"locked"})
    /\ Goto(c, "idle")
    /\ UNCHANGED <<row, overdue, feeds>>

BecomeOverdue ==
    /\ row # NoLocker /\ ~overdue
    /\ "prompt" \in MutexAssumed => ~At(row, {"locked"})
    /\ overdue' = TRUE
    /\ UNCHANGED <<row, stage, feeds>>

\* Mutants of Expired: any row; only a row whose client still runs.
ExpiredAny == row # NoLocker
ExpiredHeld == row # NoLocker /\ overdue /\ At(row, {"locked"})
Expired == row # NoLocker /\ overdue
Expire == Expired /\ DeleteRow /\ UNCHANGED stage

MutexCall(c) ==
    \/ Lock(c) \/ OpenFeed(c) \/ BreakFeed(c) \/ Retry(c) \/ InsertUnanswered(c)
    \/ TimeOut(c) \/ Unlock(c) \/ UnlockFails(c)

MutexNext == BecomeOverdue \/ Expire \/ \E c \in Lockers : MutexCall(c)

MutexSpec == MutexInit /\ [][MutexNext]_mutexVars

\* Time passes, the expiry loop of a replica ticks every 30 seconds, and a prompt
\* holder leaves its critical section, with or without deleting its row.
Leaves(c) == Unlock(c) \/ UnlockFails(c)
MutexFairness ==
    /\ WF_mutexVars(BecomeOverdue) /\ WF_mutexVars(Expire)
    /\ "prompt" \in MutexAssumed => \A c \in Lockers : WF_mutexVars(Leaves(c))

MutexFairSpec == MutexSpec /\ MutexFairness

----------------------------------------------------------------------------
\* At most one replica is in its critical section, as long as nobody stays in
\* it until its row is overdue (lock, unlock, expireloop).
MutualExclusion == \A c, d \in Lockers : At(c, {"locked"}) /\ At(d, {"locked"}) => c = d

\* While a client is in its critical section, the row that keeps the others out
\* is its own and is not overdue (newMutexDoc, unlock, expireloop).
HolderHasRow == \A c \in Lockers : At(c, {"locked"}) => row = c /\ ~overdue

\* A row that is not overdue leaves only when the client that inserted it leaves
\* its critical section (unlock deletes by key and asks for no owner).
OnlyOwnRowReleased ==
    [][row # NoLocker /\ ~overdue /\ row' = NoLocker
         => At(row, {"locked"}) /\ stage'[row] = "idle"]_mutexVars

\* A client waits for a reason, the mutex is taken or its feed holds the release
\* that will make it try again, unless the release fell between its refused insert
\* and the opening of its feed (lock after a refused insert).
NoLostWakeup ==
    \A c \in Lockers : At(c, {"listening"}) /\ row = NoLocker => c \in woken \cup missed

\* A row that was forgotten does not lock up the partition forever (expireloop).
NotLockedUp == row # NoLocker ~> row = NoLocker

Key == "key"
mutexHolders == [k \in {Key} |-> {c \in Lockers : At(c, {"locked"})}]
MutexLease == INSTANCE Lease WITH Clients <- Lockers, Resources <- {Key}, holders <- mutexHolders

\* The mutex is granted while nobody is in its critical section, and given back
\* by the client that is (lock, unlock).
MutexImplementsLease == MutexLease!Spec

\* The inductive invariant: types, and a holder's row (lock, unlock, expireloop).
MutexInv == MutexTypeOK /\ HolderHasRow

\* The same for the feeds: a client that was refused and has not yet opened its
\* feed still finds the row there or has missed its release (lock, between the insert and the feed).
WakeupInv ==
    /\ MutexTypeOK /\ NoLostWakeup
    /\ \A c \in Lockers : At(c, {"refused"}) => row # NoLocker \/ c \in missed

\* One client at a time, its row keeps the others out, and those wait for a reason
\* (lock, unlock, expireloop).
MutexSafe == MutualExclusion /\ MutexInv /\ WakeupInv
=============================================================================
