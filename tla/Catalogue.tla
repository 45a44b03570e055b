------------------------------ MODULE Catalogue ------------------------------
(***************************************************************************)
(* The tables that administrators maintain: sizes, images, partitions,     *)
(* filesystem layouts, reservations of sizes, and projects in masterdata;  *)
(* and the machines that refer to them. Nothing in the datastore keeps a   *)
(* reference valid: each handler looks at what it depends on, and writes   *)
(* later.                                                                  *)
(***************************************************************************)
EXTENDS FilesystemLayouts, HardwareSizes

CONSTANTS
    SizeIDs, SizeSpecs,       \* ids, and what may be written: sets of constraints
    LayoutIDs, LayoutSpecs,   \* [sizes, images]
    Systems, Versions,        \* of images: <<operating system, version>>
    Places, Projects,         \* ids of partitions and projects
    BookingIDs,               \* ids of reservations
    Hosts, Hardware,          \* machines, and the hardware they may have
    Callers,                  \* requests under way at a time
    StartSizes, StartLayouts, StartImages, StartHostSize,   \* the tables at the start
    MaxEdits,                 \* bound on requests
    CatalogueAssumed,         \* what is taken for granted, see below
    None

(***************************************************************************)
(* "unused"   sizes of machines and partitions of reservations are not     *)
(*            deleted, nor the image of an installation that may come back *)
(* "current"  an image that is about to be used is not expired, nor        *)
(*            expired by the list of a cleanup under way; one that is in   *)
(*            use since the cleanup listed the machines does not expire    *)
(*            before the cleanup has come to it                            *)
(* "serial"   requests wait for each other; a cleanup, a report, and time  *)
(*            do not                                                       *)
(***************************************************************************)
CatalogueAssumptions == {"unused", "current", "serial"}

Images == Systems \X Versions
SizeRows == SizeSpecs \cup {None}
LayoutRows == LayoutSpecs \cup {None}

ASSUME CatalogueAssumption ==
    /\ Versions \subseteq Nat /\ MaxEdits \in Nat
    /\ CatalogueAssumed \subseteq CatalogueAssumptions
    /\ StartSizes \in [SizeIDs -> SizeRows] /\ StartLayouts \in [LayoutIDs -> LayoutRows]
    /\ StartImages \in [Images -> {"none", "valid", "expired"}]
    /\ None \notin SizeIDs \cup Images \cup Projects \cup SizeSpecs \cup LayoutSpecs

\* All hardware has an amount of every type that sizes are about, if only none.
ASSUME SpecsAssumption ==
    /\ \A spec \in SizeSpecs : \A c \in spec :
          /\ c.min \in Nat /\ c.max \in Nat
          /\ \A hw \in Hardware : c.type \in DOMAIN hw
          /\ \A other \in SizeSpecs : \A d \in other :
                c.type = d.type /\ c.identifier = d.identifier => c.models = d.models
    /\ \A hw \in Hardware : \A type \in DOMAIN hw :
          /\ IsFiniteSet(DOMAIN hw[type])
          /\ \A m \in DOMAIN hw[type] : hw[type][m] \in Nat
    /\ \A spec \in LayoutSpecs : \A os \in DOMAIN spec.images :
          /\ spec.images[os].op \in {"*", "=", "!=", ">", ">=", "<", "<="}
          /\ spec.images[os].version \in Nat

VARIABLES
    size, layout,   \* rows by id, None: there is none
    image,
    place, project,
    booking,        \* rows of the reservations
    host,           \* rows of the machines: their size, and the images of their allocation
    call,           \* what a request is about to write
    cleanup,        \* a run of delete-orphan-images
    edits

catalogueVars == <<size, layout, image, place, project, booking, host, call, cleanup, edits>>

NoBooking == [size |-> None, place |-> None, project |-> None]
\* No allocation: image None. No installation was reported: setup None.
NewHost == [size |-> None, project |-> None, image |-> None, setup |-> None, reinstall |-> FALSE]
\* fresh: nobody has written the row since the request read it.
NoCall == [does |-> "nothing", id |-> None, row |-> None, fresh |-> TRUE]
\* images: the listed ones not looked at yet; kept: the systems of which one was kept; lost, a
\* history: the systems whose newest image a request deleted since they were listed.
NoCleanup == [pc |-> "idle", images |-> {}, expired |-> {}, used |-> {}, kept |-> {}, lost |-> {}]

Tasks == {"createSize", "updateSize", "deleteSize", "createLayout", "updateLayout", "createBooking",
          "updateBooking", "deleteImage", "deleteProject", "register", "allocate", "reinstall"}

CatalogueTypeOK ==
    /\ size \in [SizeIDs -> SizeRows] /\ layout \in [LayoutIDs -> LayoutRows]
    /\ image \in [Images -> {"none", "valid", "expired"}]
    /\ place \in SUBSET Places /\ project \in SUBSET Projects
    /\ \A b \in BookingIDs : booking[b].size \in SizeIDs \cup {None}
    /\ \A h \in Hosts : /\ host[h].size \in SizeIDs \cup {None, "unknown"}
                        /\ host[h].project \in Projects \cup {None}
                        /\ {host[h].image, host[h].setup} \subseteq Images \cup {None}
    /\ \A c \in Callers : call[c].does \in Tasks \cup {"nothing"}
    /\ cleanup.pc \in {"idle", "machines", "delete"}
    /\ edits \in 0..MaxEdits

CatalogueInit ==
    /\ size = StartSizes /\ layout = StartLayouts /\ image = StartImages
    /\ place = Places /\ project = Projects
    /\ booking = [b \in BookingIDs |-> NoBooking]
    /\ host = [h \in Hosts |-> [NewHost EXCEPT !.size = StartHostSize]]
    /\ call = [c \in Callers |-> NoCall]
    /\ cleanup = NoCleanup
    /\ edits = 0

-----------------------------------------------------------------------------
(* A request looks at the tables, and writes later.                        *)

Begin(c, does, id, row) ==
    /\ call[c] = NoCall
    /\ "serial" \in CatalogueAssumed => \A d \in Callers : call[d] = NoCall
    /\ edits < MaxEdits /\ edits' = edits + 1
    /\ call' = [call EXCEPT ![c] = [does |-> does, id |-> id, row |-> row, fresh |-> TRUE]]
    /\ UNCHANGED <<size, layout, image, place, project, booking, host, cleanup>>
Doing(c, tasks) == call[c].does \in tasks
\* The row id is written: other requests that read it before cannot update it any more.
Outdated(id) == [d \in Callers |-> IF call[d].id = id THEN [call[d] EXCEPT !.fresh = FALSE] ELSE call[d]]
End(c) == call' = [Outdated(call[c].id) EXCEPT ![c] = NoCall]
\* A row is created when there is none, and updated when it is as it was read.
Writable(c, creates, row) == IF Doing(c, creates) THEN row = None ELSE call[c].fresh /\ row # None
Put(c, table, creates) ==
    IF Writable(c, creates, table[call[c].id]) THEN [table EXCEPT ![call[c].id] = call[c].row] ELSE table
Known(table) == {id \in DOMAIN table : table[id] # None}

-----------------------------------------------------------------------------
(* Sizes.                                                                  *)

AcceptsSize(s, spec) ==
    /\ ValidSize(spec)
    /\ \A t \in Known(size) \ {s} : ~SizesOverlap(spec, size[t])
WantsSize(c, does, s, spec) ==
    /\ does = "updateSize" => s \in Known(size)
    /\ AcceptsSize(s, spec)
    /\ Begin(c, does, s, spec)
WriteSize(c) ==
    /\ Doing(c, {"createSize", "updateSize"})
    /\ size' = Put(c, size, {"createSize"})
    /\ End(c)
    /\ UNCHANGED <<layout, image, place, project, booking, host, cleanup, edits>>

BookingsOf(field, id) == {b \in BookingIDs : booking[b][field] = id}
WantsDeleteSize(c, s) ==
    /\ s \in Known(size)
    /\ BookingsOf("size", s) = {}
    /\ Begin(c, "deleteSize", s, None)
DeleteSize(c) ==
    /\ Doing(c, {"deleteSize"})
    /\ "unused" \in CatalogueAssumed => \A h \in Hosts : host[h].size # call[c].id
    /\ size' = [size EXCEPT ![call[c].id] = None]
    /\ End(c)
    /\ UNCHANGED <<layout, image, place, project, booking, host, cleanup, edits>>

-----------------------------------------------------------------------------
(* Filesystem layouts. Deleting one looks at nothing: machines have copies. *)

AcceptsLayout(l, spec) == \A k \in Known(layout) \ {l} : ~LayoutsCollide(spec, layout[k])
WantsLayout(c, does, l, spec) ==
    /\ (does = "updateLayout") <=> l \in Known(layout)
    /\ AcceptsLayout(l, spec)
    /\ Begin(c, does, l, spec)
WriteLayout(c) ==
    /\ Doing(c, {"createLayout", "updateLayout"})
    /\ layout' = Put(c, layout, {"createLayout"})
    /\ End(c)
    /\ UNCHANGED <<size, image, place, project, booking, host, cleanup, edits>>
DeleteLayout(l) ==
    /\ l \in Known(layout)
    /\ edits < MaxEdits /\ edits' = edits + 1
    /\ layout' = [layout EXCEPT ![l] = None]
    /\ call' = Outdated(l)
    /\ UNCHANGED <<size, image, place, project, booking, host, cleanup>>

\* The tables at the start are such as requests leave behind.
ASSUME StartAssumption ==
    /\ StartHostSize \in Known(StartSizes) \cup {None, "unknown"}
    /\ \A s, t \in Known(StartSizes) : s # t => ~SizesOverlap(StartSizes[s], StartSizes[t])
    /\ \A l, k \in Known(StartLayouts) : l # k => ~LayoutsCollide(StartLayouts[l], StartLayouts[k])

-----------------------------------------------------------------------------
(* Reservations, partitions and projects.                                  *)

WantsBooking(c, b, row) ==
    /\ row.size \in Known(size) /\ row.place \in place /\ row.project \in project
    /\ \/ Begin(c, "createBooking", b, row)
       \/ /\ booking[b].size = row.size /\ booking[b].project = row.project
          /\ Begin(c, "updateBooking", b, row)
WriteBooking(c) ==
    /\ Doing(c, {"createBooking", "updateBooking"})
    /\ LET b == call[c].id
           writable == IF Doing(c, {"createBooking"}) THEN booking[b] = NoBooking ELSE call[c].fresh
       IN booking' = IF writable THEN [booking EXCEPT ![b] = call[c].row] ELSE booking
    /\ End(c)
    /\ UNCHANGED <<size, layout, image, place, project, host, cleanup, edits>>
DeleteBooking(b) ==
    /\ booking[b] # NoBooking
    /\ edits < MaxEdits /\ edits' = edits + 1
    /\ booking' = [booking EXCEPT ![b] = NoBooking]
    /\ call' = Outdated(b)
    /\ UNCHANGED <<size, layout, image, place, project, host, cleanup>>

CreatePlace(p) ==
    /\ p \notin place
    /\ edits < MaxEdits /\ edits' = edits + 1
    /\ place' = place \cup {p}
    /\ UNCHANGED <<size, layout, image, project, booking, host, call, cleanup>>
DeletePlace(p) ==   \* looks at nothing
    /\ p \in place
    /\ edits < MaxEdits /\ edits' = edits + 1
    /\ "unused" \in CatalogueAssumed =>
          BookingsOf("place", p) = {} /\ \A c \in Callers : ~Doing(c, {"createBooking", "updateBooking"})
    /\ place' = place \ {p}
    /\ UNCHANGED <<size, layout, image, project, booking, host, call, cleanup>>

AnyProject(p) == TRUE   \* mutant of ProjectUnused
ProjectUnused(p) == BookingsOf("project", p) = {} /\ \A h \in Hosts : host[h].project # p
WantsDeleteProject(c, p) ==
    /\ p \in project
    /\ ProjectUnused(p)
    /\ Begin(c, "deleteProject", p, None)
DeleteProject(c) ==
    /\ Doing(c, {"deleteProject"})
    /\ project' = project \ {call[c].id}
    /\ End(c)
    /\ UNCHANGED <<size, layout, image, place, booking, host, cleanup, edits>>

-----------------------------------------------------------------------------
(* Images, and the cleanup of orphaned ones.                               *)

CreateImage(i) ==
    /\ image[i] = "none"
    /\ edits < MaxEdits /\ edits' = edits + 1
    /\ image' = [image EXCEPT ![i] = "valid"]
    /\ UNCHANGED <<size, layout, place, project, booking, host, call, cleanup>>
UpdateImage(i) ==   \* its expiration date is set to one in the future
    /\ image[i] = "expired"
    /\ edits < MaxEdits /\ edits' = edits + 1
    /\ image' = [image EXCEPT ![i] = "valid"]
    /\ UNCHANGED <<size, layout, place, project, booking, host, call, cleanup>>
InUse(i) == \E h \in Hosts : host[h].image = i
Newest(i) == \A j \in Images : j[1] = i[1] /\ image[j] # "none" => j[2] <= i[2]
\* A cleanup goes by the dates and the machines it has listed.
Usable(i) == image[i] = "valid" /\ i \notin cleanup.images \cap cleanup.expired
Overlooked(i) == InUse(i) /\ cleanup.pc = "delete" /\ i \in cleanup.images \ cleanup.used
Wanted(i) == \E c \in Callers : Doing(c, {"allocate", "reinstall"}) /\ call[c].row.image = i
Expire(i) ==
    /\ image[i] = "valid"
    /\ edits < MaxEdits /\ edits' = edits + 1
    /\ "current" \in CatalogueAssumed => ~Wanted(i) /\ ~Overlooked(i)
    /\ image' = [image EXCEPT ![i] = "expired"]
    /\ cleanup' = IF i \in cleanup.images THEN [cleanup EXCEPT !.expired = @ \cup {i}] ELSE cleanup
    /\ UNCHANGED <<size, layout, place, project, booking, host, call>>
WantsDeleteImage(c, i) ==
    /\ image[i] # "none"
    /\ ~InUse(i)
    /\ Begin(c, "deleteImage", i, None)
\* An aborted reinstallation goes back to the image that is installed.
Restorable(i) == \E h \in Hosts : host[h].setup = i
DeleteImage(c) ==
    /\ Doing(c, {"deleteImage"})
    /\ "unused" \in CatalogueAssumed => ~Restorable(call[c].id)
    /\ LET i == call[c].id IN
       /\ image' = [image EXCEPT ![i] = "none"]
       /\ cleanup' = IF cleanup.pc # "idle" /\ image[i] # "none" /\ Newest(i)
                     THEN [cleanup EXCEPT !.lost = @ \cup {i[1]}] ELSE cleanup
    /\ End(c)
    /\ UNCHANGED <<size, layout, place, project, booking, host, edits>>

CleanupImages ==
    /\ cleanup.pc = "idle"
    /\ edits < MaxEdits /\ edits' = edits + 1
    /\ cleanup' = [NoCleanup EXCEPT !.pc = "machines",
                      !.images = {i \in Images : image[i] # "none"},
                      !.expired = {i \in Images : image[i] = "expired"}]
    /\ UNCHANGED <<size, layout, image, place, project, booking, host, call>>
CleanupMachines ==
    /\ cleanup.pc = "machines"
    /\ cleanup' = [cleanup EXCEPT !.pc = "delete", !.used = {i \in Images : InUse(i)}]
    /\ UNCHANGED <<size, layout, image, place, project, booking, host, call, edits>>
\* In the order of sortImages: of each system the newest version first.
Oldest(i) == i \in cleanup.images /\ \A j \in cleanup.images : j[1] = i[1] => j[2] >= i[2]   \* mutant of NextListed
NextListed(i) == i \in cleanup.images /\ \A j \in cleanup.images : j[1] = i[1] => j[2] <= i[2]
Anything(i) == i \in cleanup.expired   \* mutant of IsOrphan
IsOrphan(i) == i \in cleanup.expired /\ i \notin cleanup.used
CleanupImage(i) ==
    /\ cleanup.pc = "delete" /\ NextListed(i)
    /\ LET orphan == i[1] \in cleanup.kept /\ IsOrphan(i) IN
       /\ orphan /\ "unused" \in CatalogueAssumed => ~Restorable(i)
       /\ image' = IF orphan THEN [image EXCEPT ![i] = "none"] ELSE image
       /\ cleanup' = [cleanup EXCEPT !.images = @ \ {i}, !.kept = @ \cup {i[1]}]
    /\ UNCHANGED <<size, layout, place, project, booking, host, call, edits>>
CleanupEnds ==   \* all done, stopped, or a deletion failed
    /\ cleanup.pc # "idle"
    /\ cleanup' = NoCleanup
    /\ UNCHANGED <<size, layout, image, place, project, booking, host, call, edits>>

-----------------------------------------------------------------------------
(* The machines.                                                           *)

Register(c, h, hw) ==
    LET fit == FromHardware(hw, Known(size), size) IN
    Begin(c, "register", h, IF Cardinality(fit) = 1 THEN CHOOSE s \in fit : TRUE ELSE "unknown")

Readable(h) == host[h].size \in Known(size) \cup {"unknown", None}
LayoutsFor(s, i) == {l \in Known(layout) : LayoutFor(layout[l], s, i[1], i[2])}
\* By name of the image, or its system only: then it is the newest.
Allocate(c, h, p, i) ==
    /\ host[h].image = None /\ host[h].size \in Known(size)
    /\ p \in project /\ image[i] # "none"
    /\ LayoutsFor(host[h].size, i) # {}
    /\ "current" \in CatalogueAssumed => Usable(i)
    /\ Begin(c, "allocate", h, [project |-> p, image |-> i])
Reinstall(c, h, i) ==
    /\ host[h].image # None
    /\ image[i] # "none" /\ Readable(h)
    /\ "current" \in CatalogueAssumed => Usable(i)
    /\ Begin(c, "reinstall", h, [project |-> host[h].project, image |-> i])
WriteMachine(c) ==
    /\ Doing(c, {"register", "allocate", "reinstall"})
    /\ LET h == call[c].id
           row == call[c].row
           new == CASE Doing(c, {"register"})  -> [host[h] EXCEPT !.size = row]
                    [] Doing(c, {"allocate"})  -> [host[h] EXCEPT !.project = row.project, !.image = row.image]
                    [] Doing(c, {"reinstall"}) -> [host[h] EXCEPT !.image = row.image, !.reinstall = TRUE]
           writable == IF Doing(c, {"allocate"}) THEN host[h].image = None ELSE call[c].fresh
       IN host' = IF writable THEN [host EXCEPT ![h] = new] ELSE host
    /\ End(c)
    /\ UNCHANGED <<size, layout, image, place, project, booking, cleanup, edits>>

ChangeMachine(h, row) ==
    /\ host[h].image # None
    /\ host' = [host EXCEPT ![h] = row]
    /\ call' = Outdated(h)
    /\ UNCHANGED <<size, layout, image, place, project, booking, cleanup, edits>>
Report(h) == ChangeMachine(h, [host[h] EXCEPT !.setup = host[h].image, !.reinstall = FALSE])
AbortReinstall(h) ==
    ChangeMachine(h, [host[h] EXCEPT !.reinstall = FALSE, !.image = IF host[h].setup = None THEN @ ELSE host[h].setup])
FreeHost(h) == ChangeMachine(h, [NewHost EXCEPT !.size = host[h].size])

CatalogueNext ==
    \/ \E c \in Callers :
          \/ \E s \in SizeIDs, spec \in SizeSpecs, does \in {"createSize", "updateSize"} : WantsSize(c, does, s, spec)
          \/ \E s \in SizeIDs : WantsDeleteSize(c, s)
          \/ \E l \in LayoutIDs, spec \in LayoutSpecs, does \in {"createLayout", "updateLayout"} :
                WantsLayout(c, does, l, spec)
          \/ \E b \in BookingIDs, row \in [size: SizeIDs, place: Places, project: Projects] : WantsBooking(c, b, row)
          \/ \E p \in Projects : WantsDeleteProject(c, p)
          \/ \E i \in Images : WantsDeleteImage(c, i)
          \/ \E h \in Hosts, hw \in Hardware : Register(c, h, hw)
          \/ \E h \in Hosts, i \in Images : \E p \in Projects : Allocate(c, h, p, i)
          \/ \E h \in Hosts, i \in Images : Reinstall(c, h, i)
          \/ WriteSize(c) \/ DeleteSize(c) \/ WriteLayout(c) \/ WriteBooking(c) \/ DeleteProject(c)
          \/ DeleteImage(c) \/ WriteMachine(c)
    \/ \E l \in LayoutIDs : DeleteLayout(l)
    \/ \E b \in BookingIDs : DeleteBooking(b)
    \/ \E p \in Places : CreatePlace(p) \/ DeletePlace(p)
    \/ \E i \in Images : CreateImage(i) \/ UpdateImage(i) \/ Expire(i) \/ CleanupImage(i)
    \/ CleanupImages \/ CleanupMachines \/ CleanupEnds
    \/ \E h \in Hosts : Report(h) \/ AbortReinstall(h) \/ FreeHost(h)

CatalogueSpec == CatalogueInit /\ [][CatalogueNext]_catalogueVars

-----------------------------------------------------------------------------
(* Properties.                                                             *)

(* A machine has one size, and one filesystem layout, in whatever order    *)
(* the tables are listed (Sizes.FromHardware; FilesystemLayouts.Validate:  *)
(* "not more than one constraint matches the same size and image"), but    *)
(* for what the comparisons of two rows do not see. Of sizes this is a     *)
(* constraint that requires nothing, one type with two identifiers in one  *)
(* size, and identifiers of two sizes that differ and stand for the same.  *)
(* Of ranges of versions it is one that holds whenever the other does, and *)
(* one that leaves out just the end of the other.                          *)
Blind(s, t) ==
    \/ \E c \in s \cup t : c.min = 0
    \/ \E spec \in {s, t} : \E c, d \in spec : c.type = d.type /\ c.identifier # d.identifier
    \/ \E c \in s, d \in t : c.type = d.type /\ c.identifier # d.identifier /\ c.models \cap d.models # {}
SizeDetermined ==
    \A s, t \in Known(size) :
        s # t /\ (\E hw \in Hardware : {s, t} \subseteq FromHardware(hw, {s, t}, size))
            => Blind(size[s], size[t])
Nested(r, q) == \A v \in Versions : Satisfies(v, q) => Satisfies(v, r)
OmitsEnd(r, q) == r.op = "!=" /\ q.op \in {">=", "<="} /\ r.version = q.version
Unseen(r, q) == "*" \notin {r.op, q.op} /\ (Nested(r, q) \/ Nested(q, r) \/ OmitsEnd(r, q) \/ OmitsEnd(q, r))
LayoutDetermined ==
    \A l, k \in Known(layout) : l # k =>
        \A s \in SizeIDs, i \in Images :
            {l, k} \subseteq LayoutsFor(s, i) => Unseen(layout[l].images[i[1]], layout[k].images[i[1]])
LookupsDetermined == SizeDetermined /\ LayoutDetermined

(* What a machine or a reservation refers to exists: a machine with a size *)
(* or image that does not exist is an error for every handler that reports *)
(* it (findMachineReferencedEntities), and an image that is missing cannot *)
(* be installed again.                                                     *)
ReferencesValid ==
    /\ \A h \in Hosts : /\ Readable(h)
                        /\ host[h].project \in project \cup {None}
                        /\ host[h].image # None => image[host[h].image] # "none"
    /\ \A b \in BookingIDs : booking[b] # NoBooking =>
          booking[b].size \in Known(size) /\ booking[b].place \in place /\ booking[b].project \in project

(* A cleanup does not delete the newest image of an operating system,      *)
(* though images are created, expire, are updated, allocated and deleted   *)
(* by request while it goes through its list: but for one case, that a     *)
(* request has deleted the newest image after the cleanup listed it        *)
(* (DeleteOrphanImages: "Always keep the most recent image for one OS").   *)
CleanupKeepsNewest ==
    [][\A i \in Images : CleanupImage(i) /\ image[i] # "none" /\ Newest(i) /\ i[1] \notin cleanup.lost
          => image'[i] # "none"]_catalogueVars
=============================================================================
