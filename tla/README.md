# metal-api, specified, model-checked and proved

metal-api is the API of a bare metal cloud. Any number of replicas serve REST
and gRPC calls; they share a RethinkDB, an external IPAM, an NSQ message bus and
a masterdata service, and have no transaction across them. The hard part of
the program is not any single handler but what two handlers, a handler that died
half way, or a message handled twice do to rows they share. That is what this
directory specifies in TLA+, checks with TLC on small instances, and proves with
TLAPS for all values of the constants where that is within reach.

All paths below are relative to `src/cmd/metal-api/internal/` unless they start
with `src/`. `PROJECT.json` maps each definition to the lines it stands for, and
lists the hazards of the code with the properties that are about them.

## 1. The system

| component | state it keeps | operations | correct when |
|---|---|---|---|
| allocation and free (`service/machine-service.go`, `service/async-actor.go`) | rows `machine`, `ip`; IPAM; ASN pool | `allocateMachine`, `freeMachine`, messages `releaseMachineNetworks`, `releaseIP` | a machine has one owner until it is freed; addresses and ASNs have one owner and come back |
| election, reservations, rack spreading (`datastore/machine.go`, `metal/size_reservation.go`) | rows `machine`, `sizereservation` | `FindWaitingMachine`, mark, create, update and delete a reservation, capacity of a partition | reservations are respected, racks are spread, the reported capacity is real |
| optimistic locking (`datastore/rethinkdb.go`) | the `changed` stamp of every row | `updateEntity` and the unchecked create, upsert, delete | a write from a stale copy is refused |
| shared mutex (`datastore/shared_mutex.go`) | one row per key | `lock`, `unlock`, expiry loop | one holder per key; nobody waits for nothing; no key is lost |
| integer pools (`datastore/integer.go`) | pool table, marker | `initIntegerPool`, acquire at random or by value, release | an integer has one holder, and none is lost |
| networks (`service/network-service.go`, `service/vrf.go`) | rows `network`; prefixes in the IPAM; VRF pool | create, allocate, free, update, delete | the table and the IPAM agree; a VRF that must not be shared is not |
| IPs of users (`service/ip-service.go`) | rows `ip`; IPAM | allocate, update, free | the table and the IPAM agree |
| provisioning FSM and event containers (`fsm/`, `datastore/event.go`) | one event container per machine | `ProvisioningEventForMachine` | no event is lost, a healthy machine is not flagged, a bad one recovers |
| boot service (`grpc/boot-service.go`, `grpc/boot-service-wait.go`) | waiting flag; channels of waiting machines | `Register`, `Wait`, `Report`, `AbortReinstall` | an allocated machine that waits is told; a machine that does not wait is not elected |
| machine lifecycle (`service/machine-service.go`) | rows `machine`, `event`; messages to metal-bmc | state, LED, delete, free, IPMI report, liveliness, resurrection | no machine in use is wiped or deleted, a lock holds, the LED shown is the LED there is |
| switches (`service/switch-service.go`, `datastore/switch.go`) | rows `switch`, `switchstatus` | register, update, notify, replace, migrate, delete, connect, set VRFs | a machine is connected to two switches alike, its ports are in the VRF of its allocation |
| switch ports and their names (`metal/network.go`, `metal/switch.go`) | the nics of a switch row | toggle, report, translate names | a toggle takes effect; no two ports get one name |
| catalogue: sizes, images, layouts, partitions, projects (`service/*-service.go`, `metal/`) | one table each | create, update, delete with checks; cleanup of images | what a row refers to exists; a machine has one size and one layout |
| migrations (`datastore/migrate.go`, `datastore/migrations/`) | version table; the permission to write | `Migrate` | the version tells what was carried out; the API can write again |
| the rest: issues, firmware, audit, VPN, user, tenant | none of their own | queries and calls passed on | |

How they interact: `allocateMachine` (any replica) elects a machine under the
shared mutex, acquires addresses from the IPAM and creates their rows, acquires
an ASN from the integer pool, and commits with a compare of the `changed` stamp;
on an error it publishes `releaseMachineNetworks` and resets its mark. A message
about the allocation goes to every replica, of which one has the stream of the
machine. The machine installs itself and reports; the report puts the ports it
is connected to into the VRF of the allocation. `freeMachine` takes them out,
publishes the release and clears the row. The message handler disassociates
addresses and publishes `releaseIP`, whose handler deletes the row and the IPAM
entry. Machines report provisioning events by gRPC; the container of a machine
is read, advanced by the FSM and written back without a comparison. Two periodic
jobs, liveliness and resurrection, run in the replicas next to all this, and
metal-bmc and metal-core report BMCs and switches all the time. Administrators
change the catalogue, the reservations and the switches meanwhile.

What makes it hard: every handler is a sequence of reads and writes that other
handlers interleave with; copies of rows are carried for seconds; a replica may
stop between any two steps; the bus delivers at least once; some writes compare
a stamp and others do not; a mutex expires by itself; nothing keeps a reference
from one table to another.

## 2. Modules

| module | what it is | code |
|---|---|---|
| `MachineAllocation` | allocation, free, release messages, with the four stores | `machine-service.go` 1199-1834, `async-actor.go`, `datastore/machine.go` 411-498, `ip-service.go` 469-493, `rethinkdb.go` 480-494 |
| `MachineLease` | abstract: single grants and returns of machines | the promise of the above |
| `MachineElection` | which machine a request gets, and what is reported as free | `datastore/machine.go` 441-730, `machine-service.go` 1218-1240, `partition-service.go`, `size-reservation-service.go` |
| `WaitForAllocation` | how a machine learns that it was allocated | `grpc/boot-service-wait.go`, `src/cmd/metal-api/internal/grpc/` queue and handlers |
| `MachineLifecycle` | one machine, its container, its BMC, handlers and jobs | `machine-service.go` 680-2440, `grpc/boot-service.go` |
| `SwitchService` | the switches of a rack, the machines connected to them, VRFs of ports | `service/switch-service.go`, `datastore/switch.go`, `grpc/boot-service.go`, `machine-service.go` |
| `PortStates` | wanted and reported states of the ports of a switch | `switch-service.go` (toggle, notify, nics), `metal/network.go` |
| `PortNames` | names of ports under two operating systems | `metal/switch.go` |
| `Catalogue` | sizes, layouts, images, partitions, projects, reservations, and the machines that refer to them | the services of each, `datastore/image.go`, `datastore/size.go` |
| `HardwareSizes`, `FilesystemLayouts` | operators: which hardware has which size, which layout a machine gets | `metal/size.go`, `metal/filesystem.go` |
| `NetworkService` | the networks of a partition and the addresses of users: table, IPAM, VRF pool | `service/network-service.go` 229-1074, `service/vrf.go`, `service/ip-service.go` 193-493, `async-actor.go` 190-232 |
| `ProvisioningFSM` | the transition table, the handlers of all states, validation, trimming, as operators | `fsm/`, `metal/provisioning.go` |
| `ProvisioningEvents` | a machine, metal-core, API calls, concurrent handlers, the liveliness job | `datastore/event.go`, `machine-service.go` 2022-2085 |
| `SharedMutex` | one key, any number of clients, expiry | `datastore/shared_mutex.go` |
| `IntegerPool` | one pool, starting replicas, clients | `datastore/integer.go` |
| `Lease` | abstract: a resource is granted while nobody has it and given back by its holder | the promise of mutex and pool |
| `Migrations` | the migration command next to the API | `datastore/migrate.go`, `datastore/migrations/` |
| `ComponentsMC` | `SharedMutex`, `IntegerPool`, `MigrationsMC`, `MachineLifecycle`, `PortStates` and `PortNames` in one run | |
| `InventoryMC` | `MachineElectionMC` and `CatalogueMC` in one run | |
| the other `...MC` | instances of one module | |
| `...Proofs` | theorems and proofs, section 4 | |

`ComponentsMC` and `InventoryMC` put components together that share no state: a
variable `subject`, chosen in `Init`, says which of them a behaviour is about,
and the others stay as they are. The number of states is the sum of theirs and
each property is about one of them.

Every module names its simplifications in the comment it starts with. Bounds on
what the environment may do (`MaxWrites`, `MaxInterruptions`, `MaxRedeliveries`,
`MaxCrashes`, `MaxFaults`, `MaxStops`, `MaxTime`, `MaxChanges`, `MaxEdits`,
`MaxToggles`, `MaxHandled`, `MaxCalls`) are constants; unbounded in the theorems.

A recurring idea: a row carries the stamp of its last write, and a write is
refused when the stamp is not that of the copy. Stamps are only compared, so most
modules keep for each row the calls whose copy is still the row (`fresh`,
`current`, `seen`); a write empties that set. `MachineAllocation` counts stamps.

What the code needs in order to be correct is written down as *named
assumptions*, strings in a constant (`Assumed`, `PoolAssumed`, ...): each guards
the actions it restricts, and is explained where the module declares it. They
are the places where the code relies on how it is used; section 6 lists what
happens otherwise. Each was dropped from its run: TLC then finds a property
violated, with these exceptions. Of the catalogue, `serial` is what one caller
leaves in the run; with two callers and without it `LookupsDetermined` is violated.
Nothing depends on `oneJob`, `serial` (of
`ProvisioningEvents`) and `freeOnce` (of `MachineAllocation`) at the bounds of
their runs, which have one job, one handler and one free; with two jobs
`VersionTells` is violated, and the run `events_lost` has two handlers. `acked`
matters in `interrupted` only, as messages are repeated there. `timely` (of
`MachineLifecycle`) matters to `AllocatedSpared` with three handlers at a time,
where TLC finds a counterexample without it, and the run has two. `unevaluated`
only keeps an instance small. For `freeAllocated` in `nothing_leaks` TLC came to
no end.

### MachineAllocation

State: `machines` (owner, mark, a mode that stands for waiting flag, state and
liveliness, stamp), `ips` (existence, machine tags, stamp), `ipam`, `pool`, and
for each call its program counter and the copies it carries. One action per
access to a store, in the order of the code:

    NamedCandidate | WaitingCandidate -> PreAllocate        findMachineCandidate, FindWaitingMachine
      -> GatherGiven | GatherAuto -> AllocateRandomIP -> CreateIP -> AddMachineId   gatherNetworks, makeNetworks
      -> AcquireASN -> RefetchMachine -> CommitAllocation   acquireASN, the refetch and the update
      error: RollbackPublish -> RollbackReset               rollbackOnError
    FreeRead -> FreePublish -> FreeUpdate                   freeMachine, asyncActor.freeMachine
    ReleaseStart -> ReleaseListed* -> ReleaseASN -> ReleaseDangling     releaseMachineNetworks
    ReleaseIPFind -> ReleaseIPDelete -> ReleaseIPInIPAM     releaseIP

The environment stops replicas, lets a write or a message fail, delivers a
message again, and lets another handler write a machine row. Two things are
coarser than the code: an address is read, disassociated and its release published
in one step, in which the publication does not fail (`async-actor.go` 101-113,
150-184; a failure is only logged there), and the dangling addresses are searched
and disassociated in one step (130-147). Assumptions:
`settled` (a machine is requested again only after the releases published for it
were handled; it reboots in between), `freeAllocated`, `freeOnce`, `acked` (a
message comes again only when its handler did not finish), and, for liveness,
`apart` (a machine asked for by name is not elected by somebody else).

### MachineElection

State: `server` (owner, role, placement tags, mark, readiness, liveliness),
`reservation`, and for each `request` what its election has read: the machines it
found, which of its copies of them are still the row, and the tables of machines
and reservations as they were. One partition and one size. The search, each of the
three reads after it and the mark are steps, between which everybody else goes on;
the choice is made on what was read.

    Request -> SearchWaiting -> ListContainers -> SearchMachines   allocateMachine, FindWaitingMachine
            -> SearchReservations -> Elect -> Commit | Rollback
    FreeMachine, Readiness, Liveliness                       what else changes a machine
    SetReservation, DeleteReservation                        size-reservation-service.go
    CheckSizeReservations, SpreadAcrossRacks, FreeCapacity   operators: checkSizeReservations,
                                                             spreadAcrossRacks, calcPartitionCapacity

Reservations are listed in any order, as the database returns them, and the
order matters to the code. Assumptions: `modest` (a project has one reservation,
and requests no machine beyond it), `undisturbed` (what an election has read
stays so until it marks its machine: no candidate is committed by name or stops
waiting after the search, or dies after the containers were read, no machine is
freed after the machines were read, no reservation changes after the reservations
were), `oneRequest` (a project requests one machine at a time). `FreeIsElectable`
needs none of them.

### WaitForAllocation

State: the row with its flag and who has it as it is, the machine (`hammer`) with
the call whose stream it holds, for each call of `Wait` its place and channel, the
queue of each replica, closed channels, and the messages about allocations. An
action for each access to the row, the queue, the channel or the stream:

    Call -> Find -> ReadForFlag -> SetFlag -> Load -> Store   Wait, the old channel closed
      -> loop: Cancelled | Receive | Tick -> Check -> Send
      -> Delete -> Close -> ReadForFlag -> ResetFlag          its deferred functions
    HandlerLoads -> Receive | HandlerPanics                   handleAllocation

Streams break, replicas restart, accesses fail, messages get lost and other
handlers write the row. Assumptions: `oneStream` (one stream per replica at a
time), `settled` (messages and streams of a former allocation are gone when the
machine has booted again).

### MachineLifecycle

State: the row of one `machine` (exists, owner, lock, LED, waiting, credentials),
`box`, its event container as far as jobs look at it, `led`, the LED at the BMC,
the messages on the `bus`, the `handler`s with what they read, and the `report`
that is handled. Each replica looks for the password of the super user when it
starts and goes on without it (`metal/machine.go` 725-754), so the constant
`IPMISuperUser` says which handlers have it; in the run it is one of two.

    Call -> Read -> SetMachineState | Commit | Register           setMachineState, allocateMachine, Register
                 -> SwitchLED -> PublishLED                        machineCmd, publishMachineCmd
                 -> FreeLEDOff -> PublishDelete -> FreeUpdate -> FreeAnnounce   freeMachine
                 -> ResurrectLook -> PublishDelete -> FreeUpdate   ResurrectMachines
                 -> DeleteLook -> RemoveRow                        deleteMachine
                 -> Evaluate                                       evaluateMachineLiveliness
    TakeReport -> ListMachines -> WriteReport                      ipmiReport
    Deliver, Boots, PhonesHome, Tick                               metal-bmc, the machine, time

Assumptions: `timely` (a call ends before a machine is silent for long enough to
be dead; else one that is allocated after the jobs listed it, and then falls
silent, is judged as the free one of the list, and deleted), `asleep` (a machine found dead does not come back while the call that
found it goes on), `wanted` (nobody asks by name for a machine that does not
wait), `freeOnce`. metal-hammer registers a machine before it lets it wait.

### SwitchService

State: the rows of the switches (nics, connections, VRFs of ports, mode), of the
status table and of the machines, the machines with a container, how machines
are plugged in (`cable`), the place of each call, and the history variables
`unsure` (what a call that failed left half done) and `aborted`.

    FindMachine -> CreateMachine | UpdateMachine -> CreateContainer
      -> SearchSwitches -> UpdateConnected* -> Finish           Register, Report, freeMachine, reinstall,
                                                                deleteMachine, AbortReinstall
    FindNoSwitch -> CreateSwitch, RegisterSwitch -> WriteSwitch  registerSwitch
    UpdateSwitch, NotifySwitch -> FindNotified -> WriteSwitch    updateSwitch, notifySwitch
    FindDeleted -> DeleteSwitch -> DeleteStatus                  deleteSwitch
    MigrateOld -> MigrateNew                                     migrate
    ReplaceSwitch -> FindTwin -> AdjustRead -> AdjustWrite* -> RemoveConnections -> Adopt   replaceSwitch
    Allocate, OtherWrite, PlugIn, CallFails                      others, cables, failures

No machine of the instance has its cables in different ports of the twins: the
code accepts one, and `ConnectionsSound` would not hold of it.

Assumptions: `oneCall` (one call about a machine at a time), `maintenance`
(switches are replaced, migrated and deleted while nothing else is under way),
`plugged` (a machine is allocated only when it has registered with all ports it
is plugged into, and registers with ports of another machine only when that was
deleted), `retired` (nor with a port in which a migration left the VRF of machines
that moved to the other switch).

### PortStates and PortNames

`PortStates`: what is wanted and was reported of each port, the ports themselves,
metal-core with its cycle of asking for the switch, setting ports and reporting
them, and the operators who toggle. metal-core is outside of this repository and
modelled as its answers are used. Assumption: `patient` (an operator waits for a
change to be reported before the next one of that port).

`PortNames`: SONiC numbers the lanes of all ports, Cumulus the ports and the lanes
of a port that is split. A name is what its digits say. `Replace` translates all
names to the other system, back and forth.

### Catalogue, HardwareSizes, FilesystemLayouts

State: the tables, the machines with the size and images they refer to, for each
`call` what it is about to write and whether its copy is the row, and the
`cleanup` of images. A handler checks and writes in two steps (`WantsSize`,
`WriteSize`); one that does not check is one step (`DeleteLayout`, `DeletePlace`).
The cleanup lists the images, then the machines, then deletes one by one. The
lookups are operators: `FromHardware` (`Sizes.FromHardware`), `SizesOverlap`
(`Size.overlaps`), `LayoutFor`, `LayoutsCollide` (`FilesystemLayouts.Validate`).
A size is a set of constraints of a type, an identifier, the models this stands for,
and bounds; identifiers are compared as they are written, so that `""` and `"*"`, or a
glob and one that includes it, are different. A version is a number.

Assumptions: `unused` (nobody deletes what is in use where the code does not look),
`current` (an image is not expired when it is about to be used, by its row or by the
list of a cleanup under way, and one that is used since that cleanup listed the
machines does not expire before it has come to it), `serial` (requests wait for each
other; cleanups, reports and time do not). `CleanupKeepsNewest` needs none of them,
and images expire, are updated and are deleted by request while a cleanup runs.

### Migrations

State: the version, the permission of the API to write, the form of rows, the
reservations in the rows of sizes and in their table, the prefix length of the
partition and of the super network, the runs of the command, handlers of the API.

    Start -> ToNewest | ToTarget -> Revoke -> List -> Write* -> Written -> RemoveField -> Record -> ... -> Grant
    Stops, Initialize (a start of a replica with its initdb), WriterRead -> WriterWrite, Update

Assumptions: `oneJob` (one run at a time), `whole` (a run does not stop within a
migration that moves or copies), `untouched` (nobody updates a size or partition
between the rollout and the migration), `granted` (a run does not stop after its
last record).

### SharedMutex

One row, the place of each client in `lock` .. `unlock`, which of them have a
release to read from their change feed, and (history) which of them missed one
because they did not listen yet. The insert may be carried out and answered with
an error; a feed may break, after which its closed channel yields without end;
the deferred unlock may fail. Durations are abstracted: a row becomes overdue at
any time, which the assumption `prompt` restricts to rows whose client left.

### IntegerPool

The rows of the pool table, the marker, the progress of each starting replica,
and the progress of each client. `Limit(1).Delete` is two steps, a selection and
a deletion that may find the row gone. `oneInit` says that one replica at a time
initializes.

### NetworkService

State: `networks` and `ips` (the two tables), `ipam` (prefixes) and `taken`
(addresses) in the IPAM, `vrfs` (what the VRF pool has left; a pool is the
`Lease` that `IntegerPool` implements), and for each call what it read, what it
will write, what it acquired (`holds`) and what it gave back while its row still
names it (`drops`). One action per access to a store:

    CreateNetwork -> FindSuper -> AcquireVRF -> CreatePrefix* -> InsertNetwork              createNetwork
    AllocateNetwork -> AcquireRandomVRF -> AllocateChildPrefix* -> InsertChild              allocateNetwork, createChildNetwork
    FreeNetwork -> ReleaseChildPrefix* -> ReleaseVRF -> RemoveNetwork                       freeNetwork
    DeleteNetwork -> SearchChildren -> ListIPs -> DeletePrefix* -> ReleaseVRF -> RemoveNetwork   deleteNetwork
    UpdateNetwork -> UpdateListIPs -> UpdateDeletePrefix* -> UpdateCreatePrefix* -> ReplaceNetwork   updateNetwork
    AllocateIP -> AcquireIP -> CreateIP                                                     allocateIP
    FreeIP -> DeleteIP -> ReleaseIP                                                         freeIP, releaseIP

None of these calls undoes anything: a call that fails or stops after its first
change leaves its network `damaged` or what it acquired `lost`, which are
history variables. Assumptions: networks are created one after the other
(`oneAdmin`), a network is changed by one call at a time (`serial`) and by none
after one that stopped half way (`leftAlone`), no VRF is shared on purpose
(`unshared`), addresses and children are asked from whole networks, and a prefix
is not handed out again while a call that read its former network is still on
its way (`settled`), and the IPAM keeps a prefix that has children
(`parentsKept`).

### ProvisioningFSM and ProvisioningEvents

The FSM is pure: `HandleProvisioningEvent(container, event)`. Around it, a
machine boots, installs and phones home, metal-core may buffer a message, API
calls restart or reclaim the machine, handlers read and write the container in
two steps, and the liveliness job compares the stamp of what it read. Time is a
counter, and a threshold of the code is one or two units. Assumptions: `serial`
(events of one machine are handled one after the other), `timely`, `calm` and
`unevaluated`, explained in the module.

## 3. What the runs check

| run | instance | shows |
|---|---|---|
| `interrupted` | 2 machines, 2 requests, 1 free, 1 automatic and 1 listed address, 2 ASNs; one foreign write, one interruption, one repeated message | candidates exclusive, no forgotten mark, ASNs and addresses held once, connected addresses kept; refinement of `MachineLease`; the inductive invariant of the proof |
| `nothing_leaks` | 2 machines, 2 networks per request, addresses for one request only, one machine asked for by name; fairness | failed and freed allocations return everything |
| `networks` | 3 networks, 1 VRF, a prefix divided for each of two address families and one that is not, 2 addresses, 2 callers, one interruption | two networks share neither a prefix nor a VRF, the IPAM has what the table names, nothing is lost without a failure, addresses and children keep their network, one private super network; the inductive invariant of the proof |
| `events` | one machine, times 0 to 2, thresholds between one and two units; a machine that works as it should, or one that sends any event | containers stay valid, a healthy machine is not flagged before it is reinstalled, no event lost to the job, dead means silent, a complete boot clears the flags |
| `waiting` | 2 replicas, 2 calls of `Wait`, one handler for each replica, one fault, any message may get lost; fairness | an allocated machine that waits is told, the flag stays set while it waits, no handler is stuck |
| `switches` | 3 switches with 2 ports, one machine and 4 ways to plug it in, 2 calls at a time and 3 in all, one failure or change of cables | ports are in the VRF of the allocation, connections are mirrored and lead to ports there are, none is lost |
| `inventory` | election: 4 machines of 2 racks, 3 projects, a reservation of each of two of them, 1 placement tag, 3 requests of which 2 at a time, 1 change of a reservation. Catalogue: 2 sizes with 5 sets of constraints, 2 layouts with 5, 3 versions of an image, 1 machine with changing hardware, 1 request at a time, 4 changes | reservations respected, racks spread, what is reported as free can be had; references valid, one size and one layout for a machine but where the comparisons are blind, a cleanup leaves the newest image of each OS |
| `components` | mutex: 3 prompt clients. Pool: 2 replicas, 3 clients, 2 integers and one outside of the range, a crash. Migrations: 2 rows, 2 reservations, 1 job with 2 stops, 1 writer. Lifecycle: 2 handlers at a time and 2 in all. Ports: 3, of which 2 are connected, 2 operators, 3 toggles. Names: 2 ports of up to 4 lanes; fairness | exclusion, own rows only, no wake-up lost but in one window, the row goes away; holders unique, no gaps, refinement of `Lease`; the version tells the form of the rows, the API can write again; an allocated machine is not resurrected or deleted, a lock holds, a machine that registered keeps its credentials and commands carry them, the LED converges; a toggle takes effect; names are translated back |
| `dangling`, `events_lost`, `quota`, `migration_resumed` | the smallest that show it | counterexamples, see section 6 |

On two cores most runs take between a second and a minute and a half;
`components` and `inventory` take about three minutes.

Why the bounds suffice. *Allocation*: two requests and one free on two machines
give every pair of calls that meet on a row or an address, and the free gives an
address a second life while messages of its first are under way; one automatic
address forces its reuse. Each kind of failure happens once, at any step, and
they combine. *Networks*: two callers meet in every pair of operations on the
same network, or on a parent and its child, and one VRF and few prefixes are
handed out again at once; three networks are a private super network, its child,
and one more that wants what these have. *Events*: the three thresholds of the
FSM and of the liveliness are five minutes each, which the run puts between one
and two units of time (`<` against 2, `>` against 1), so that events come before
and after each of them. *Waiting*: two replicas and two calls are a call whose
stream breaks and the next one, on the same replica or on the other, so that
channels are replaced and closed while a handler is about to send. *Switches*:
the twins and a successor for one of them; two calls at a time are every pair of
readers and writers of a row, the third call finds what a failure left. One
machine: calls about two machines meet in the same rows of switches, and a
conflict is the same whoever wrote; a port that two machines claim is left out.
*Inventory*: with two machines in each of two racks a third machine of a project
must go to one of them, whatever was occupied before; two reservations are the
least that compete, and the third project has none. Two sizes and two layouts
are the least that can overlap, and three versions leave a newest, an older one
in use and one that is not. Requests about them wait for each other (`serial`), so
that a second caller would add nothing; the cleanup, reports and time do not wait. *Components*: three clients of the mutex are a
holder, its successor, and one that waits for both; three clients and two
integers are an exhausted pool with a race for its last row. A run of the
migrations that stops twice is started three times; two handlers are every pair
that meets on the row of the machine, next to reports and the jobs; two
operators toggle one port, or two ports of one row.

Two bounds leave something out that the code can do: no run has calls about two
machines of one rack at the same time, and none has more than one interruption.

The runs of symmetric instances name their symmetry: machines, requests,
networks and callers are interchangeable; in `inventory` the machines of a rack
and the racks with their machines are. No run of a liveness property has one.

Deadlock is not checked where the system may really come to rest: in `networks`,
once every network is damaged, `leftAlone` forbids all that is left to do; in
`switches`, `inventory`, `components` and the two small counterexamples, when the
bounded number of calls is used up. The other runs check it.

Fairness. `nothing_leaks` assumes weak fairness of the steps of calls that have
begun and of message handlers: each runs in a goroutine of its own which nothing
holds back, and the bus delivers. `waiting` assumes it of a machine that boots
and calls again (metal-hammer loops), of the end of a broken stream, of each call
and of the handlers; nothing makes a message arrive, the timer of the loop does.
`components` assumes it of the expiry loop of the mutex (it ticks every 30
seconds), of time, and of a prompt client leaving its critical section; of the
migration command, which somebody starts until the database is migrated; of the steps of a
handler that has begun, of the reports of the BMCs, which metal-bmc sends all the
time, and of the delivery of messages; strong fairness only of a report that is
stored, which says that not every one of them is overtaken by another writer;
and of metal-core, which asks for its switch in a loop, and of an operator's call
that has begun. Nobody has to call `freeMachine`, to unlock successfully, or to
toggle.

Each property of each run has a mutant in `PROJECT.json`: a plausible bug in a
mapped definition with which TLC finds that property violated.

## 4. What is proved

For every value of the constants that satisfies the named `ASSUME`s:

* `MachineAllocationProofs`: `AllocationInvariant`, `TypeCorrect`,
  `AllocationStays`, `MachineLeaseImplemented`. No assumption on the environment
  is used: any number of crashes, repeated messages, foreign writes, frees. The
  invariant is `AllocationInv`. `SuccessStays` alone is not inductive, because
  a call that holds a stale copy could write it back: `Snapshots` says that a
  copy whose stamp is still that of the row *is* the row, and that stamps only
  grow; `Shape` says which copies a call holds at which point. Then a write that
  passes the comparison starts from the present row, so that the rollback can
  only clear rows whose copy had no owner, and a free only the one it read.
  The theorems about marks, ASNs and addresses each name what they need.
  `ElectedByOne` (an elected machine has one call, and its mark goes with it
  unless something failed) needs `freeAllocated` and that nobody names a machine
  which is being elected; then a request that found a machine unmarked and passed
  the comparison is alone, as every other copy of an unmarked row is old.
  `ASNOwnedByOne` needs `freeOnce`: `ReleasesInv` says that two frees never read
  the same allocation, and that an allocation is released only after its call or
  its free has come to that point. `TableCovered` and `ConnectedStays` need
  `acked` and static listed addresses; `IPInv` says of an address what is under
  way about it: while a release of it is pending it is connected to nothing and
  nobody creates it, while it is created it has no row. `HeldByOne` puts all of
  them together and adds `settled`: an address that an allocation in use holds has
  no release pending, since one was published only when that allocation ended.
* `ComponentsProofs`, for the mutex: `HolderKeepsRow`, `Exclusive`, `OwnRowReleased`,
  `MutexLeaseImplemented` for prompt clients, `WakeupKept` for all, and
  `MutexKept`, which puts them together. The strengthening is that the row of the
  key is that of the client in its critical section and not overdue; for the
  feeds, that a refused client still finds the row there or has missed its
  release. For the pools: `PoolInvariant`, `HoldersUnique`,
  `PoolLeaseImplemented`, `PoolKept`, provided one replica at a time initializes.
  The strengthening is that nobody acquires before the marker is set and that rows
  are inserted only before; then an integer of the range is in the pool, or held,
  or the handler that has it died with it.
  For the migrations: `MigrationsStayValid` under `oneJob`, `whole` and `untouched`,
  for any migrations, of which one copies. The invariant says that a plan goes up
  from the version and leaves nothing registered out (`GoesUp`), so that a version
  that is recorded has all before it done (`RecordStep`); that rows in the old form
  are those still listed (`ConvertsAll`); that a reservation has no row or one, as
  the run has it listed or not (`MovesAll`); and that the partition has its length
  until it was copied (`CopiesOnce`). That a finite set of numbers can be sorted is
  proved by counting what is below each (`Orders`). `PermissionIsDue` adds `granted`:
  while the API may not write a migration is to come, or the run that took the
  permission gives it back next. `WritableAgain` is that with fairness.
  For machines: `LockInvariant`, `LockHolds`, without an assumption.
  A lock can only be lost by a write of an old copy; the invariant says that a
  copy that may still be written is the row, and that a free or an allocation
  that came past its check of the lock checked the row that it will write.
  `AllocatedAreSpared` takes the four assumptions of `MachineLifecycle`, with any
  number of handlers: whoever gets a machine found it waiting, a machine that
  waits is alive and sends events (`Awake`), so that a machine found dead or wrongly
  reclaimed has no owner and waits for none until the call that found it
  ends (`Decided`); and an owner stays until the one free of it is through (`Freed`).
  For ports: `CopiesAreTheRow`, `WishKept`, the argument of the lock for the
  row of a switch; that the wish is finally carried out is liveness, and
  checked. `NamesKept`, for any number of ports, by arithmetic: the first lane of
  port n is 4n, and the names of a split port differ in their lane.
  `CommandsReach`, under `wanted`: who waits for an allocation has registered, so a
  row with an owner has credentials, and so has every copy of one that a handler
  carries (`ManagedInv`); a copy that lacks them is not written once the machine has
  registered, as it is not the row any more.
  `DevicesStayTyped` types rows, copies and messages of machines and ports in the
  composition of `ComponentsMC` itself, in which a step belongs to one component.
* `NetworkServiceProofs`: `NetworkInvariant` and `VRFsUnique`, under `serial`,
  `leftAlone` and `unshared`. `VRFUnique` speaks of rows; it is inductive only
  together with where a VRF is on its way from the pool to a row and back: a call
  that has acquired one has it alone (`HandsApart`), a call that is to insert a
  row holds the VRF the row names (`CallFits`), a call that changes a network is
  the only one and read the VRF it still has (`ChangeSound`), and a VRF that a
  row keeps is in no other place (`VRFsKept`). Then a VRF is given back only
  while one row names it, and the call that gave it back removes that row.
  `StoreInvariant`, `NothingIsShared`, `IPAMAgreesWithRows` and
  `ReferencesAreKept` take all assumptions of the module. `StoreInv` says the same
  of prefixes (they are in the IPAM, and held by one call or kept by one row), of
  addresses (an address that is taken lies in a prefix that is kept, and a call
  that is to give a prefix back has seen that no address is in it), of children,
  of the private super network, and accounts for everything that was given out:
  it is in a row, in the hands of a call, or lost by one that failed.
* `ProvisioningEventsProofs`: `OnlyTheSilentAreDead` and `ABootRecovers` without
  an assumption on the order of events; `ContainersAreValid` and `NoEventIsLost`
  under `serial`; `HealthyMachinesAreUnflagged` under `serial`, `timely` and
  `calm`. Thresholds, times and the number of handlers are any; the number of
  phoned home events that are swallowed is positive. `Lively` says that no copy,
  whoever has it, is less alive than its last event allows. `Orderly` adds that
  one call is active and its copy is the container but for the liveliness.
  `Blameless` says that the container fits what the machine did last, or will once
  the event that is handled is written: which state it is in, how old it may be,
  and what a buffered message may still make of it. It is shown for the operators of
  `ProvisioningFSM` one event after the other, without regard to liveliness, and
  carries over to steps.
* `WaitForAllocationProofs`: `WaitingIsTold`, under `oneStream` and `settled`. While
  the machine is on, a call is told and a message is under way only if the machine
  is allocated, because both end before it boots again. A call
  takes the flag back when its channel was closed, and the channel it closes is its
  own; so the flag of a machine that still waits is taken back only by a call that
  was told.
* `SwitchServiceProofs`: `RowsInvariant`, `PortsExist`, `NoneLost`. No assumption
  is used: calls about a machine may overlap, and switches be replaced, migrated
  and deleted meanwhile. A switch that registers compares its ports with the
  connections it read; `Compared` says that they are still those it has when the
  write passes, because whoever writes a row leaves nobody else a copy that may
  be written (`WriteKeeps`). A row that does not exist has no connections and no
  copies, so that creating one loses nothing.
* `ConnectionsProofs`, on top of it: `WiringInvariant`, `VRFsAreRecorded`,
  `ConnectionsAreSound`, under all assumptions of the module, for finitely many
  ports, and for cables that go to the same ports of both switches, as the comment
  of `adoptFromTwin` says of them (`service/switch-service.go` 693). `Discipline`
  says which calls may be under way together, `Informed` what a call has
  read of its machine and of the ports it connects, `Wired` what there is between
  machines and ports and how far a call has got with it: a registration has
  connected a part of its switches, a report has written the VRF of the allocation
  to those it is through with, a replacement or migration has moved a part of the
  machines. What a call that failed left undone is in `unsure` and not spoken of.
* `InventoryProofs`: `InventoryInvariant` and `InventoryIsValid` under the three
  assumptions of `Catalogue`, for any tables at the start that requests may have left.
  `CatalogueInv` says that sizes and layouts are pairwise apart as the code compares
  them (`Apart`), that what a request has looked up is still so when it writes, since
  requests wait for each other (`Requested`, `Founded`), and what a cleanup may still
  delete, which is no image that is used (`Cleaning`). `LookupsAreDetermined` needs
  `serial` alone, and a smaller invariant (`LookupInv`): the tables are apart, and
  what a request compared is still so. That the lookups then find at most one is
  arithmetic: of two ranges that have a number in common one contains an end of the
  other, and two version constraints that share a version, of which neither includes
  the other, share one that they name. What the comparisons do not see is in the
  property: `Blind` sizes and `Unseen` layouts, section 6. `NewestImagesAreKept`
  has no assumption. A cleanup keeps the newest image it finds of each system; the
  invariant (`KeptInv`) says that for a system of which it kept one there is an image
  at least as new as all it has yet to look at (`Succeeds`), or a request deleted the
  newest one after the list was read (`cleanup.lost`).
  `SpreadIsKept` needs `undisturbed`, so that the racks are as they were read
  (`ReadsInv`: what an election holds in its hand is what the tables say), and
  `oneRequest`, so that none of the project's machines is only marked.
  `FreeMachinesAreElectable` needs nothing, and
  `ReservationsAreKept` the three assumptions of `MachineElection`. The sums of the
  model, a fold over a set and two over a listing, are recursive functions, of which
  it is shown that they exist (`FoldExists`) and that a sum is the number of elements
  of a set (`Units`). Then a listing in any order keeps at most what is due, and
  exactly that where no project has more than its reservation (`KeptIsDue`), and the
  capacity has free what is left of the waiting machines (`FreeIsLeft`).
  `ReservationsInv` adds that a project stays within its one reservation, the machine
  it requests included, and that what an election found still waits when it chooses.

Where a theorem has assumptions, section 6 says what happens without them.

Every invariant and every action property that a run checks is stated by a theorem.
Only model-checked is liveness, out of this prover's reach: `NothingLeaks`,
`AllocatedIsTold`, `HandlersComeBack`, `NotLockedUp`, `WritableAgain`,
`LEDConverges`, `TogglesTakeEffect`.

## 5. What is not modelled

Formatting, validation of static input, logging, metrics, the masterdata
service, queries that only read, user data, keys and names; durations. Issues
are queries over machines. Firmware, audit, user, VPN and tenant services pass
calls on to other systems. `updateMachine` and `updateIP` change descriptions and
tags by the same compared write; `suggestSize` proposes a size to a reader. Size
image constraints are a comparison of versions in one request. The rules of
firewalls and the BGP filters of switches are computed from what is modelled,
and nothing reads them back. REST and gRPC plumbing and the API types carry the
calls. `PROJECT.json` says so for each component.

## 6. Disagreements found

Each of these has a run that shows it:

* `dangling`: `releaseMachineNetworks` takes every address that carries the tag
  of the machine for a dangling one; when a second request for the same named
  machine rolls back these are the addresses of the winner.
* `events_lost`: the later of two concurrent writers of an event container wins.
* `quota`: what is compared with the quota of machines is the number of firewalls
  (`machine-service.go` 1226).
* `migration_resumed`: migrations 7 and 8 cannot be repeated, although the package
  comment asks for it (`datastore/migrations/doc.go` 19).

Met while modelling, without a run of their own; most are what an assumption
excludes.

*Allocation and election.* An ephemeral address that a user lists in a request can
be deleted while a machine is connected to it: `releaseIP` reads the tags of an
address, another request tags it, and then the row goes; the proofs of addresses
assume that listed addresses are static. Machines that are marked or requested by name are not
counted against a reservation, and each of two reservations of one project is
reduced by all of its machines (`modest`, `undisturbed`). Two requests of a
project at a time may both choose the same rack (`oneRequest`). A machine that is
freed, or a reservation that is created, between the read of its table and the mark
(`datastore/machine.go` 459, 468, 492) is not seen by the choice (`undisturbed`):
the new reservation may find its machine given to somebody else, and the rack
counts are those of before. Nothing compares
a reservation with the machines there are when it is created.

*Boot service.* Two streams of a machine at one replica share a channel; the
older one closes that of the newer (`boot-service-wait.go` 62, `oneStream`).

*Mutex and pools.* A release of the mutex between the refused insert and the
opening of the change feed is not seen (`datastore/shared_mutex.go` 104-119, the
set `missed`). A start that stops between filling a pool and writing its marker
makes every later start fail (`datastore/integer.go` 134).

*Networks.* Deleting one of two networks that share a VRF returns the VRF to the
pool (`network-service.go` 978, `unshared`). Two concurrent calls create two
private super networks, after which `allocateNetwork` finds none
(`network-service.go` 363, `oneAdmin`).

*Machine lifecycle.* A locked machine can be allocated by name and deleted,
although `LockedState` is documented to exclude both (`metal/machine.go` 36).
`freeMachine`, `publishDeleteEvent` and `updateFirmware` lack the fallback to the
super user's credentials that `machineCmd` has; an allocated machine does not need
it (`CommandsReachBMC`), one that is resurrected after it was removed and reported
again does. `SuperUserPassword` answers `FeatureDisabled` with `IsEnabled()`
(`grpc/boot-service.go` 305), the opposite of what the field says. A free and a resurrection announce
the deletion before the write that may be refused. A deleted machine that is
reported again has lost its lock and its credentials (`asleep`). A machine with a
failed reclaim that is allocated by name may be resurrected (`wanted`). A job that
lists machines and goes on for longer than a machine takes to be dead decides on
one that was allocated in between (`timely`).

*Switches.* A migration whose last write fails leaves the connections at neither
switch. A report next to a free, or a free next to a migration, leaves the port of
a freed machine in the tenant's VRF (`oneCall`, `maintenance`). The ports of a
machine without a rack are not found, and its report succeeds; a free clears only
the switches that list the machine. A replacement is impossible while the twin has
no connections. What is retried after a conflict is retried with the same copy.
`deleteSwitch`, and `deleteMachine` against `Register`, check first and delete
then. A status row is written for a switch that does not exist. `migrate` takes the
connections along and leaves the VRFs of the ports they had, so that a machine
that registers there later is in a foreign VRF until a call sets its own (`retired`). A
machine whose cables go to different ports of the twins is accepted, as long as
the connections the switches list of other machines have both names:
`ConnectMachineWithSwitches` compares names and not machines. An aborted reinstallation
does not restore the VRF (`aborted`).

*Ports.* Without `patient` a second toggle before the report of the first can be
lost (`metal/network.go` 91). `makeSwitchNics` stops at the first connection of a
port. A port with a single split lane comes back from a replacement as the whole
port; the line of `swp1s4` is that of `swp2`.

*Catalogue.* `LookupsDetermined` names the rows that the comparisons take for
apart although one machine fits both. Sizes (`Blind`): `overlaps` compares
identifiers as strings, so a size for disks `""` and one for disks `"*"` do not
overlap, nor do a glob and a narrower one; two storage or GPU constraints of one
size are compared crosswise, and the sizes are apart when any pair is; a constraint
that requires nothing (`min` 0) fits hardware whose other size does not name the
type. The comment on the function says "overlaps is proven correct, requires that
constraint are validated before that max is not smaller than min"
(`metal/size.go` 200), which is true of one pair of constraints with one identifier.
Layouts (`Unseen`): two with the same version constraint, or of which one includes the
other (`<= 2` and `< 2`), and `!= 2` next to `>= 2`, although both match 3:
`hasCollisions` tries only versions that constraints name, which is less than the
comment on `Validate` says (`metal/filesystem.go` 346).
`CleanupKeepsNewest` has one exception: a request that deletes the newest image
after the cleanup listed the images. The cleanup kept that one and takes the older
ones for superseded, so that none may be left, although "Always at least one image
per OS is kept" (`datastore/image.go` 136).
`deleteSize`, `deletePartition` and `deleteFilesystemLayout` do not
look at machines (`unused`). The cleanup of images does not look at the image of a
machine's setup, works from lists taken before and not from the row it deletes, so
that an image whose date was moved to the future, and that was then allocated, is
deleted; and nothing looks at the expiration of an image at allocation (`current`).

*Migrations.* A stop after the last record leaves the API unable to write, and the
next run says that there is nothing to do (`granted`). A second run, or the
`initdb` of a starting replica, gives the permission back in the middle of a
migration (`oneJob`). A size or partition that the new API updates before its
migration loses the old field (`untouched`).

## 7. What could come next

1. Weaker assumptions for some proofs: calls about a machine that overlap in
   `ConnectionsProofs`, several elections of a partition at a time in
   `InventoryProofs`, each of which needs a larger invariant.
2. Two machines of one rack in `SwitchService`'s run, with a port both claim; the
   proofs have any number of machines.
3. Several partitions and sizes in the election; sizes whose reservations overlap.
