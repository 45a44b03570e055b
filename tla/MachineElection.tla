-------------------------- MODULE MachineElection --------------------------
(***************************************************************************)
(* How allocateMachine chooses a machine: the quota of the project, the    *)
(* machines that wait in a partition, the reservations of the size, and    *)
(* the spreading over racks and away from machines with the same tags; and *)
(* what the capacity of a partition reports of it. One partition and size. *)
(* What happens to the chosen machine is in MachineAllocation.             *)
(***************************************************************************)
EXTENDS FiniteSets, Integers, SequencesExt

CONSTANTS
    Servers,            \* the machines of the partition and size
    Racks, RackOf,      \* the racks, and the rack of every machine
    Tenants,            \* projects
    Reservations,       \* ids of size reservations
    StartReservations,  \* what they may be at the start
    MaxAmount,          \* bound on the amount of a reservation
    Quota,              \* of machines of a project; larger than Servers: none
    PlacementTags,
    Requests,           \* calls of allocateMachine that may be under way at a time
    MaxRequests,        \* bound on requests
    MaxChanges,         \* bound on changes of reservations and on machines that die or come back
    ElectionAssumed,    \* what is taken for granted, see below
    Nobody

(***************************************************************************)
(* "modest"       a project that has reservations has only one, and        *)
(*                requests no machine beyond it                            *)
(* "undisturbed"  what an election has read stays so until it marks the    *)
(*                machine: no candidate is committed to a request by name  *)
(*                or stops waiting since the search, or dies since their   *)
(*                containers were read, no machine is freed since the      *)
(*                machines were read, and no reservation changes since     *)
(*                the reservations were                                    *)
(* "oneRequest"   a project requests one machine at a time                 *)
(***************************************************************************)
ElectionAssumptions == {"modest", "undisturbed", "oneRequest"}

ASSUME ElectionAssumption ==
    /\ \A S \in {Servers, Tenants, Reservations, PlacementTags} : IsFiniteSet(S)
    /\ RackOf \in [Servers -> Racks]
    /\ Quota \in Nat /\ MaxAmount \in Nat /\ MaxRequests \in Nat /\ MaxChanges \in Nat
    /\ ElectionAssumed \subseteq ElectionAssumptions
    /\ StartReservations \subseteq [Reservations -> [project: Tenants \cup {Nobody}, amount: 0..MaxAmount]]
    /\ "modest" \in ElectionAssumed => \A r \in StartReservations : \A i, j \in Reservations :
          r[i].project = r[j].project /\ r[i].project # Nobody => i = j
    /\ Nobody \notin Tenants \cup Servers

VARIABLES
    server,        \* rows of the machines
    reservation,   \* rows of the reservations
    request,
    requests, changes

electionVars == <<server, reservation, request, requests, changes>>

Roles == {"machine", "firewall"}
\* waiting: in the available state, too; alive: by its event container, a row of its own.
FreeServer == [project |-> Nobody, role |-> "machine", tags |-> {}, pre |-> FALSE,
               waiting |-> TRUE, alive |-> TRUE]
NoReservation == [project |-> Nobody, amount |-> 0]
\* An election reads one table after the other: the candidates, of which some are available, the
\* machines of all projects, and the reservations. It decides by what it has read.
Electing == {"containers", "machines", "reservations", "mark"}
NoRequest == [pc |-> "idle", project |-> Nobody, role |-> "machine", tags |-> {}, server |-> Nobody,
              available |-> {}, fresh |-> {}, rows |-> [m \in Servers |-> FreeServer],
              bookings |-> [i \in Reservations |-> NoReservation]]

MachineRows == [Servers -> [project: Tenants \cup {Nobody}, role: Roles, tags: SUBSET PlacementTags,
                            pre: BOOLEAN, waiting: BOOLEAN, alive: BOOLEAN]]
ReservationRows == [Reservations -> [project: Tenants \cup {Nobody}, amount: 0..MaxAmount]]

ElectionTypeOK ==
    /\ server \in MachineRows
    /\ reservation \in ReservationRows
    /\ request \in [Requests -> [pc: {"idle", "search", "commit"} \cup Electing,
                                 project: Tenants \cup {Nobody}, role: Roles,
                                 tags: SUBSET PlacementTags, server: Servers \cup {Nobody},
                                 available: SUBSET Servers, fresh: SUBSET Servers,
                                 rows: MachineRows, bookings: ReservationRows]]
    /\ requests \in 0..MaxRequests /\ changes \in 0..MaxChanges

ElectionInit ==
    /\ server = [m \in Servers |-> FreeServer]
    /\ reservation \in StartReservations
    /\ request = [c \in Requests |-> NoRequest]
    /\ requests = 0 /\ changes = 0

-----------------------------------------------------------------------------
(* The choice, by the tables rows and bookings.                            *)

OfProject(rows, p) == {m \in Servers : rows[m].project = p}
OfRole(rows, p, role) == {m \in OfProject(rows, p) : rows[m].role = role}
Allocated(rows, p) == Cardinality(OfProject(rows, p))
Larger(a, b) == IF a > b THEN a ELSE b
Smaller(a, b) == IF a < b THEN a ELSE b
Reserved(bookings) == {i \in Reservations : bookings[i].project # Nobody}
Listings(bookings) == SetToSeqs(Reserved(bookings))   \* the datastore lists them in any order

\* What checkSizeReservations keeps for reservations, listed in this order.
OnlyLast(rows, bookings, list) ==   \* mutant of KeptFor: the amount is set instead of added up
    IF list = <<>> THEN 0
    ELSE Larger(bookings[Last(list)].amount - Allocated(rows, bookings[Last(list)].project), 0)
KeptFor(rows, bookings, list) ==
    FoldLeft(LAMBDA kept, i :
                Larger(kept + bookings[i].amount - Allocated(rows, bookings[i].project), 0),
             0, list)
Entitled(rows, bookings, p) == \E i \in Reserved(bookings) :
    bookings[i].project = p /\ Allocated(rows, p) < bookings[i].amount
CheckSizeReservations(rows, bookings, p, available, list) ==
    \/ Reserved(bookings) = {}
    \/ Entitled(rows, bookings, p)
    \/ KeptFor(rows, bookings, list) < Cardinality(available)

(* spreadAcrossRacks: the racks with the fewest machines of the project    *)
(* that share tags, and among these, where there are any, the ones with    *)
(* the fewest machines of the project in this role.                        *)
InRack(machines, rack) == {m \in machines : RackOf[m] = rack}
TagCount(rows, machines, rack, tags) ==
    Cardinality({use \in InRack(machines, rack) \X tags : use[2] \in rows[use[1]].tags})
NoCount(machines, rack) == 0   \* mutant of ProjectCount
ProjectCount(machines, rack) == Cardinality(InRack(machines, rack))
LeastTagged(rows, racks, machines, tags) ==
    {r \in racks : \A q \in racks : TagCount(rows, machines, r, tags) <= TagCount(rows, machines, q, tags)}
LeastOccupied(racks, machines) ==
    {r \in racks : \A q \in racks : ProjectCount(machines, r) <= ProjectCount(machines, q)}
SpreadAcrossRacks(rows, available, machines, tags) ==
    LET racks == {RackOf[m] : m \in available}
        tagged == LeastTagged(rows, racks, machines, tags)
        both == tagged \cap LeastOccupied(racks, machines)
    IN {m \in available : RackOf[m] \in IF both # {} THEN both ELSE tagged}

-----------------------------------------------------------------------------
(* The capacity of the partition, as reported to a project, or to nobody.  *)

Candidates == {m \in Servers : server[m].project = Nobody /\ ~server[m].pre /\ server[m].waiting}
Waiting == {m \in Candidates : server[m].alive}
UsedAtLeast(i) == Larger(reservation[i].amount, Allocated(server, reservation[i].project))   \* mutant of Used
Used(i) == Smaller(reservation[i].amount, Allocated(server, reservation[i].project))
FreeCapacity(p, list) ==
    FoldLeft(LAMBDA free, i :
                IF reservation[i].project = p THEN free
                ELSE Larger(free - (reservation[i].amount - Used(i)), 0),
             Cardinality(Waiting), list)

-----------------------------------------------------------------------------
(* Requests.                                                               *)

UnderWayFor(p) == {c \in Requests : request[c].project = p}
ReservedFor(p) == MapThenSumSet(LAMBDA i : reservation[i].amount,
                                {i \in Reserved(reservation) : reservation[i].project = p})
Modest(p) ==
    (\E i \in Reserved(reservation) : reservation[i].project = p)
        => Allocated(server, p) + Cardinality(UnderWayFor(p)) < ReservedFor(p)
\* No election is at one of these steps.
Undisturbed(steps) == "undisturbed" \in ElectionAssumed => \A c \in Requests : request[c].pc \notin steps

WriteServer(m, row) == server' = [server EXCEPT ![m] = row]
\* Request c goes on; to all others their copies of the row of m are outdated now.
Proceed(m, c, next) ==
    request' = [d \in Requests |->
        IF d = c THEN next ELSE [request[d] EXCEPT !.fresh = @ \ {m}]]
Outdate(m) == request' = [d \in Requests |-> [request[d] EXCEPT !.fresh = @ \ {m}]]
GiveUp(c) == request' = [request EXCEPT ![c] = NoRequest] /\ UNCHANGED server
\* A machine is sought, and was found, for the project in this role.
Sought(p, role, tags) == [NoRequest EXCEPT !.pc = "search", !.project = p, !.role = role, !.tags = tags]
Chosen(p, role, tags, m) == [Sought(p, role, tags) EXCEPT !.pc = "commit", !.server = m, !.fresh = {m}]

(* validateAllocationSpec, the project and its quota: the code counts the  *)
(* firewalls of the project. A named machine is not elected.               *)
QuotaCount(p) == Cardinality(OfRole(server, p, "firewall"))
Request(c, p, role, tags, m) ==
    /\ request[c].pc = "idle"
    /\ requests < MaxRequests /\ requests' = requests + 1
    /\ "modest" \in ElectionAssumed => Modest(p)
    /\ "oneRequest" \in ElectionAssumed => UnderWayFor(p) = {}
    /\ QuotaCount(p) < Quota
    /\ IF m = Nobody
       THEN request' = [request EXCEPT ![c] = Sought(p, role, tags)]
       ELSE /\ server[m].project = Nobody
            /\ request' = [request EXCEPT ![c] = Chosen(p, role, tags, m)]
    /\ UNCHANGED <<server, reservation, changes>>

\* FindWaitingMachine, one request at a time by the mutex of the partition: what it reads.
SearchWaiting(c) ==
    /\ request[c].pc = "search"
    /\ \A d \in Requests : request[d].pc \notin Electing
    /\ request' = [request EXCEPT ![c].pc = "containers", ![c].available = Candidates, ![c].fresh = Candidates]
    /\ UNCHANGED <<server, reservation, requests, changes>>
ListContainers(c) ==
    /\ request[c].pc = "containers"
    /\ LET alive == {m \in request[c].available : server[m].alive} IN
       IF alive = {} THEN GiveUp(c)
       ELSE /\ request' = [request EXCEPT ![c].pc = "machines", ![c].available = alive]
            /\ UNCHANGED server
    /\ UNCHANGED <<reservation, requests, changes>>
SearchMachines(c) ==
    /\ request[c].pc = "machines"
    /\ request' = [request EXCEPT ![c].pc = "reservations", ![c].rows = server]
    /\ UNCHANGED <<server, reservation, requests, changes>>
SearchReservations(c) ==
    /\ request[c].pc = "reservations"
    /\ request' = [request EXCEPT ![c].pc = "mark", ![c].bookings = reservation]
    /\ UNCHANGED <<server, reservation, requests, changes>>

\* It decides by what it has read, and marks the machine if its row is as it was found.
Elect(c) ==
    /\ request[c].pc = "mark"
    /\ LET r == request[c]
           permitted(list) == CheckSizeReservations(r.rows, r.bookings, r.project, r.available, list)
       IN \/ /\ \E list \in Listings(r.bookings) : permitted(list)
             /\ \E m \in SpreadAcrossRacks(r.rows, r.available, OfRole(r.rows, r.project, r.role), r.tags) :
                   IF m \in r.fresh
                   THEN /\ WriteServer(m, [server[m] EXCEPT !.pre = TRUE])
                        /\ Proceed(m, c, Chosen(r.project, r.role, r.tags, m))
                   ELSE GiveUp(c)
          \/ (\E list \in Listings(r.bookings) : ~permitted(list)) /\ GiveUp(c)
    /\ UNCHANGED <<reservation, requests, changes>>
\* The mutex cannot be had, or the datastore does not answer.
ElectionFails(c) ==
    /\ request[c].pc \in {"search"} \cup Electing
    /\ GiveUp(c)
    /\ UNCHANGED <<reservation, requests, changes>>

\* The machine gets its networks and the allocation, unless it has one (a named machine).
Commit(c) ==
    /\ request[c].pc = "commit"
    /\ LET m == request[c].server IN
       /\ ~server[m].pre => Undisturbed(Electing)
       /\ IF server[m].project # Nobody THEN GiveUp(c)
          ELSE /\ WriteServer(m, [server[m] EXCEPT !.project = request[c].project, !.pre = FALSE,
                                     !.role = request[c].role, !.tags = request[c].tags])
               /\ Proceed(m, c, NoRequest)
    /\ UNCHANGED <<reservation, requests, changes>>

\* Something failed on the way: the mark is taken back (MachineAllocation has the details).
Rollback(c) ==
    /\ request[c].pc = "commit"
    /\ LET m == request[c].server IN
       IF m \in request[c].fresh
       THEN WriteServer(m, [server[m] EXCEPT !.pre = FALSE]) /\ Proceed(m, c, NoRequest)
       ELSE GiveUp(c)
    /\ UNCHANGED <<reservation, requests, changes>>

FreeMachine(m) ==
    /\ server[m].project # Nobody /\ Undisturbed({"reservations", "mark"})
    /\ WriteServer(m, [FreeServer EXCEPT !.waiting = server[m].waiting, !.alive = server[m].alive])
    /\ Outdate(m)
    /\ UNCHANGED <<reservation, requests, changes>>

\* A machine is locked or leaves Wait, or waits again.
Readiness(m) ==
    /\ changes < MaxChanges /\ changes' = changes + 1 /\ Undisturbed(Electing)
    /\ WriteServer(m, [server[m] EXCEPT !.waiting = ~@])
    /\ Outdate(m)
    /\ UNCHANGED <<reservation, requests>>
\* It dies or comes back; its row stays as it is.
Liveliness(m) ==
    /\ changes < MaxChanges /\ changes' = changes + 1 /\ Undisturbed(Electing \ {"containers"})
    /\ WriteServer(m, [server[m] EXCEPT !.alive = ~@])
    /\ UNCHANGED <<reservation, request, requests>>

-----------------------------------------------------------------------------
(* Reservations. The handlers validate the amount; whether there are as    *)
(* many machines is not looked at.                                         *)

SetReservation(i, p, amount) ==
    /\ changes < MaxChanges /\ changes' = changes + 1 /\ Undisturbed({"mark"})
    /\ reservation[i].project \in {Nobody, p}   \* create, or update
    /\ amount > 0
    /\ "modest" \in ElectionAssumed =>
          /\ \A j \in Reserved(reservation) \ {i} : reservation[j].project # p
          /\ Allocated(server, p) + Cardinality(UnderWayFor(p)) <= amount
    /\ reservation' = [reservation EXCEPT ![i] = [project |-> p, amount |-> amount]]
    /\ UNCHANGED <<server, request, requests>>
DeleteReservation(i) ==
    /\ i \in Reserved(reservation)
    /\ changes < MaxChanges /\ changes' = changes + 1 /\ Undisturbed({"mark"})
    /\ reservation' = [reservation EXCEPT ![i] = NoReservation]
    /\ UNCHANGED <<server, request, requests>>

ElectionNext ==
    \/ \E c \in Requests :
          \/ \E p \in Tenants, role \in Roles, tags \in SUBSET PlacementTags, m \in Servers \cup {Nobody} :
                Request(c, p, role, tags, m)
          \/ SearchWaiting(c) \/ ListContainers(c) \/ SearchMachines(c) \/ SearchReservations(c)
          \/ Elect(c) \/ ElectionFails(c) \/ Commit(c) \/ Rollback(c)
    \/ \E m \in Servers : FreeMachine(m) \/ Readiness(m) \/ Liveliness(m)
    \/ \E i \in Reservations :
          \/ \E p \in Tenants, amount \in 0..MaxAmount : SetReservation(i, p, amount)
          \/ DeleteReservation(i)

ElectionSpec == ElectionInit /\ [][ElectionNext]_electionVars

-----------------------------------------------------------------------------
(* Properties.                                                             *)

Pending(p) == {m \in Servers : server[m].pre
                  /\ \E c \in UnderWayFor(p) : request[c].server = m}
Elects(c, m) == request[c].pc = "mark" /\ server'[m].pre /\ ~server[m].pre

(* An election does not use up machines that are reserved for others: if   *)
(* there were enough machines for the reservations that are not used yet,  *)
(* there still are (checkSizeReservations: "subtract already used up       *)
(* reservations of the project").                                          *)
Unused(p) == Larger(ReservedFor(p) - Allocated(server, p) - Cardinality(Pending(p)), 0)
Backed == MapThenSumSet(Unused, Tenants) <= Cardinality(Waiting)
ReservationsBacked ==
    [][\A c \in Requests, m \in Servers : Elects(c, m) => (Backed => Backed')]_electionVars

(* The machines of a project in a role are spread over the racks: one that *)
(* is elected is in no rack with more of them, those under way included,   *)
(* than another rack that had a machine to offer; with placement tags, in  *)
(* no rack with more machines of these tags ("tags have precedence").      *)
SpreadCount(p, role, rack) ==
    Cardinality(InRack(OfRole(server, p, role) \cup
        {m \in Pending(p) : \E c \in UnderWayFor(p) : request[c].server = m /\ request[c].role = role}, rack))
Crowded(c, rack, than) ==
    LET p == request[c].project
        role == request[c].role
        tags == request[c].tags
        tagged(r) == TagCount(server, OfRole(server, p, role), r, tags)
    IN IF tags = {} THEN SpreadCount(p, role, rack) > SpreadCount(p, role, than)
       ELSE tagged(rack) > tagged(than)
SpreadKept ==
    [][\A c \in Requests, m \in Servers : Elects(c, m) =>
          ~\E n \in request[c].available : Crowded(c, RackOf[m], RackOf[n])]_electionVars

\* When the capacity of the partition has a machine free for a project, or for anybody, an
\* election finds it, in whatever order either of them reads the reservations
\* (calcPartitionCapacity: "consider the same aspects as the query for electing").
FreeIsElectable ==
    \A asked \in Tenants \cup {Nobody} :
        (\E list \in Listings(reservation) : FreeCapacity(asked, list) > 0) =>
            \A p \in Tenants, other \in Listings(reservation) :
                asked \in {p, Nobody} => CheckSizeReservations(server, reservation, p, Waiting, other)

\* A project does not get more machines than its quota permits (allocateMachine: "Check if
\* more machine would be allocated than project quota permits").
MachinesWithinQuota == \A p \in Tenants : Allocated(server, p) <= Quota
=============================================================================
